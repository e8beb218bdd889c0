-------------------------- MODULE ProxyBackendsProofs --------------------------
(***************************************************************************)
(* Theorems about BackendRegistry, and about ProxyBackends, which runs the *)
(* same registry: for all handlers, ids and accounts, and any number of    *)
(* requests and messages.                                                  *)
(*                                                                         *)
(* Every step of the registry but a restart is one goroutine's.  The kinds *)
(* of steps say what each does in terms of the request that goroutine      *)
(* serves before (handler[h]) and after (handler'[h]); all proofs about    *)
(* the registry go by kinds.                                               *)
(***************************************************************************)
EXTENDS ProxyBackends, FiniteSetTheorems, SequenceTheorems, TLAPS

-----------------------------------------------------------------------------
(* Functions whose domain changes                                              *)

IsFcn(f) == f = [i \in DOMAIN f |-> f[i]]

LEMMA PutFacts ==
    ASSUME NEW f, NEW id, NEW value
    PROVE  /\ IsFcn(Put(f, id, value))
           /\ DOMAIN Put(f, id, value) = DOMAIN f \cup {id}
           /\ Put(f, id, value)[id] = value
           /\ \A i \in DOMAIN f : i # id => Put(f, id, value)[i] = f[i]
BY DEF Put, IsFcn

LEMMA WithoutFacts ==
    ASSUME NEW f, NEW id
    PROVE  /\ IsFcn(Without(f, id))
           /\ DOMAIN Without(f, id) = DOMAIN f \ {id}
           /\ \A i \in DOMAIN f \ {id} : Without(f, id)[i] = f[i]
BY DEF Without, IsFcn

LEMMA NothingFacts == IsFcn(Nothing) /\ DOMAIN Nothing = {}
BY DEF Nothing, IsFcn

LEMMA FirstFacts ==
    ASSUME NEW id, NEW value
    PROVE  /\ IsFcn(Put(Nothing, id, value))
           /\ DOMAIN Put(Nothing, id, value) = {id}
           /\ Put(Nothing, id, value)[id] = value
BY DEF Put, Nothing, IsFcn

-----------------------------------------------------------------------------
(* The types of the registry                                                   *)

All == Ids \cup {Echo}
Rows == [type : Types \cup {"echo"}, enabled : BOOLEAN]
Places == {"idle", "bot", "save", "update", "unregister", "delete", "reload",
           "list", "fill", "echo"}

At(h, places) == handler[h].at \in places

RequestOK(r) ==
    /\ r.at \in Places
    /\ r.at = "idle" <=> r = Idle
    /\ r.at # "idle" => r.id \in All
    /\ r.at \in {"bot", "save"} => r.id \in Ids
    /\ r.at = "update" => r.row \in Rows
    /\ r.at = "fill" => /\ DOMAIN r.rows \subseteq All
                        /\ \A id \in DOMAIN r.rows : r.rows[id].type \in Known

TableTypes ==
    /\ IsFcn(backends) /\ DOMAIN backends \subseteq All
    /\ \A id \in DOMAIN backends : backends[id] \in Rows
    /\ IsFcn(botRows) /\ DOMAIN botRows \subseteq Ids

MemoryTypes ==
    /\ IsFcn(bots) /\ DOMAIN bots \subseteq Ids
    /\ DOMAIN adapters \subseteq All
    /\ \A id \in DOMAIN adapters : adapters[id].type \in Known
    /\ conns \subseteq Ids
    /\ nextToken \in Nat \ {0}
    /\ failed \in BOOLEAN
    /\ outdated \subseteq All
    /\ changedBy \in [All -> Handlers \cup {NoOne}]

RequestTypes ==
    /\ handler = [h \in Handlers |-> handler[h]]
    /\ \A h \in Handlers : RequestOK(handler[h])
    /\ requests \in 0..MaxRequests

MutexHeld == \A h \in Handlers : mu = h <=> At(h, {"list", "fill", "echo"})

RegInv == TableTypes /\ MemoryTypes /\ RequestTypes /\ MutexHeld

LEMMA RegInit == Init => RegInv
<1> SUFFICES ASSUME Init PROVE RegInv
  OBVIOUS
<1>1. EchoRow \in Rows /\ NewAdapter(EchoRow).type = "echo"
  BY DEF EchoRow, Rows, NewAdapter
<1>2. TableTypes
  <2>1. IsFcn(backends) /\ DOMAIN backends = {Echo} /\ backends[Echo] = EchoRow
    BY FirstFacts DEF Init
  <2> QED
    BY <1>1, <2>1, NothingFacts DEF Init, TableTypes, All
<1>3. MemoryTypes
  <2>1. DOMAIN adapters = {Echo} /\ adapters[Echo] = NewAdapter(EchoRow)
    BY FirstFacts DEF Init
  <2>2. bots = Nothing /\ nextToken \in Nat \ {0} /\ conns = {}
    BY DEF Init
  <2>3. /\ failed \in BOOLEAN /\ outdated \subseteq All
        /\ changedBy \in [All -> Handlers \cup {NoOne}]
    BY DEF Init, All
  <2> QED
    BY <1>1, <2>1, <2>2, <2>3, NothingFacts DEF MemoryTypes, All, Known
<1>4. RequestTypes /\ MutexHeld
  BY RegistryAssumption
     DEF Init, RequestTypes, RequestOK, Idle, Places, MutexHeld, At
<1> QED
  BY <1>2, <1>3, <1>4 DEF RegInv

-----------------------------------------------------------------------------
(* The kinds of steps of a request                                             *)

\* All requests but h's stay as they are.
OthersWait(h) == \A g \in Handlers \ {h} : handler'[g] = handler[g]

NoTable == UNCHANGED <<backends, botRows>>
NoBots == UNCHANGED <<bots, nextToken>>
NoFactory == UNCHANGED <<adapters, conns>>
Continues(h, place) == handler'[h].at = place /\ handler'[h].id = handler[h].id
Serving == UNCHANGED <<requests, changedBy, outdated>>
Changing(h) == ChangesBot(h) /\ UNCHANGED <<requests, outdated>>
Loads(id) ==
    id \in DOMAIN backends /\ backends[id].enabled /\ backends[id].type \in Known

\* A request begins: create, read or delete a row of backends.
Comes(h) ==
    /\ handler[h].at = "idle"
    /\ requests < MaxRequests /\ requests' = requests + 1
    /\ NoBots /\ NoFactory /\ UNCHANGED <<botRows, mu, failed, changedBy, outdated>>

Creates(h) ==
    /\ Comes(h)
    /\ handler'[h].at \in {"bot", "reload"}
    /\ handler'[h].id \in Ids \ DOMAIN backends
    /\ \E row \in Rows : backends' = Put(backends, handler'[h].id, row)

Reads(h) ==
    /\ Comes(h)
    /\ handler'[h].at = "update"
    /\ handler'[h].id \in DOMAIN backends
    /\ handler'[h].row \in Rows
    /\ UNCHANGED backends

Removes(h) ==
    /\ Comes(h)
    /\ handler'[h].at = "unregister"
    /\ handler'[h].id \in All
    /\ backends' = Without(backends, handler'[h].id)

\* It goes on with the bot ...
GetsBot(h) ==
    /\ handler[h].at = "bot" /\ Continues(h, "save")
    /\ \/ /\ handler[h].id \in DOMAIN bots
          /\ handler'[h].token = bots[handler[h].id]
          /\ UNCHANGED nextToken
       \/ /\ handler[h].id \notin DOMAIN bots
          /\ handler'[h].token = nextToken
          /\ nextToken' = nextToken + 1
    /\ bots' = Put(bots, handler[h].id, handler'[h].token)
    /\ NoTable /\ NoFactory /\ Changing(h) /\ UNCHANGED <<mu, failed>>

SavesBot(h) ==
    /\ handler[h].at = "save" /\ Continues(h, "reload")
    /\ \/ /\ botRows' = Put(botRows, handler[h].id, handler[h].token)
          /\ Settle(h, TRUE)
       \/ UNCHANGED botRows /\ Settle(h, FALSE)
    /\ NoBots /\ NoFactory /\ UNCHANGED <<backends, mu, failed, requests>>

DropsBot(h) ==
    /\ handler[h].at = "unregister" /\ Continues(h, "delete")
    /\ bots' = Without(bots, handler[h].id)
    /\ NoTable /\ NoFactory /\ Changing(h) /\ UNCHANGED <<nextToken, mu, failed>>

DeletesBot(h) ==
    /\ handler[h].at = "delete"
    /\ \/ /\ Continues(h, "reload") /\ botRows' = Without(botRows, handler[h].id)
          /\ Settle(h, TRUE) /\ UNCHANGED failed
       \/ /\ handler'[h] = Idle /\ UNCHANGED botRows
          /\ Settle(h, FALSE) /\ failed' = TRUE
    /\ NoBots /\ NoFactory /\ UNCHANGED <<backends, mu, requests>>

\* ... or writes the row it read ...
Writes(h) ==
    /\ handler[h].at = "update"
    /\ \/ /\ Continues(h, "reload")
          /\ backends' = IF handler[h].id \in DOMAIN backends
                         THEN [backends EXCEPT ![handler[h].id] = handler[h].row]
                         ELSE backends
       \/ handler'[h] = Idle /\ UNCHANGED backends
    /\ NoBots /\ NoFactory /\ Serving /\ UNCHANGED <<botRows, mu, failed>>

\* ... and refills the factory.
Empties(h) ==
    /\ handler[h].at = "reload" /\ Continues(h, "list")
    /\ mu = NoOne /\ mu' = h
    /\ DOMAIN adapters' = {} /\ conns' = {}
    /\ NoTable /\ NoBots /\ Serving /\ UNCHANGED failed

Lists(h) ==
    /\ handler[h].at = "list" /\ Continues(h, "fill")
    /\ \/ /\ failed' = FALSE
          /\ DOMAIN handler'[h].rows = {id \in DOMAIN backends : Loads(id)}
          /\ \A id \in DOMAIN handler'[h].rows : handler'[h].rows[id] = backends[id]
       \/ DOMAIN handler'[h].rows = {} /\ failed' = TRUE
    /\ NoTable /\ NoBots /\ NoFactory /\ Serving /\ UNCHANGED mu

Fills(h) ==
    /\ handler[h].at = "fill" /\ Continues(h, "fill")
    /\ \E id \in DOMAIN handler[h].rows :
          /\ DOMAIN adapters' = DOMAIN adapters \cup {id}
          /\ adapters'[id].type = handler[h].rows[id].type
          /\ \A i \in DOMAIN adapters : i # id => adapters'[i] = adapters[i]
          /\ handler'[h].rows = Without(handler[h].rows, id)
    /\ NoTable /\ NoBots /\ Serving /\ UNCHANGED <<conns, mu, failed>>

Connects(h) ==
    /\ handler[h].at = "fill" /\ Continues(h, "echo")
    /\ DOMAIN handler[h].rows = {}
    /\ \/ conns' = DOMAIN botRows /\ UNCHANGED failed
       \/ UNCHANGED conns /\ failed' = TRUE
    /\ NoTable /\ NoBots /\ Serving /\ UNCHANGED <<adapters, mu>>

Finishes(h) ==
    /\ handler[h].at = "echo" /\ handler'[h] = Idle
    /\ DOMAIN adapters' = DOMAIN adapters \cup {Echo}
    /\ adapters'[Echo].type = "echo"
    /\ \A i \in DOMAIN adapters : i # Echo => adapters'[i] = adapters[i]
    /\ mu' = NoOne
    /\ NoTable /\ NoBots /\ Serving /\ UNCHANGED <<conns, failed>>

Advances(h) ==
    \/ Creates(h) \/ Reads(h) \/ Removes(h)
    \/ GetsBot(h) \/ SavesBot(h) \/ DropsBot(h) \/ DeletesBot(h) \/ Writes(h)
    \/ Empties(h) \/ Lists(h) \/ Fills(h) \/ Connects(h) \/ Finishes(h)

\* What the two kinds that write the row of a bot do, whether or not they fail.
LEMMA WritesRow ==
    ASSUME NEW h \in Handlers, SavesBot(h) \/ DeletesBot(h)
    PROVE  /\ handler[h].at \in {"save", "delete"} /\ handler'[h].at \in {"reload", "idle"}
           /\ NoBots /\ NoFactory /\ UNCHANGED <<backends, mu, requests>>
           /\ \/ /\ handler[h].at = "save" /\ Settle(h, TRUE)
                 /\ botRows' = Put(botRows, handler[h].id, handler[h].token)
              \/ /\ handler[h].at = "delete" /\ Settle(h, TRUE)
                 /\ botRows' = Without(botRows, handler[h].id)
              \/ UNCHANGED botRows /\ Settle(h, FALSE)
<1>1. \A r : r = Idle => r.at = "idle"
  BY DEF Idle
<1>2. CASE SavesBot(h)
  BY <1>2 DEF SavesBot, Continues
<1>3. CASE DeletesBot(h)
  BY <1>1, <1>3 DEF DeletesBot, Continues
<1> QED
  BY <1>2, <1>3

LEMMA Becomes ==
    ASSUME RequestTypes, NEW h \in Handlers, NEW r, handler' = [handler EXCEPT ![h] = r]
    PROVE  /\ handler'[h] = r /\ OthersWait(h)
           /\ handler' = [g \in Handlers |-> handler'[g]]
BY DEF RequestTypes, OthersWait

LEMMA GotoBecomes ==
    ASSUME RequestTypes, NEW h \in Handlers, NEW place, Goto(h, place)
    PROVE  /\ Continues(h, place) /\ OthersWait(h)
           /\ handler'[h] = [at |-> place, id |-> handler[h].id]
           /\ handler' = [g \in Handlers |-> handler'[g]]
<1> DEFINE r == [at |-> place, id |-> handler[h].id]
<1>1. handler' = [handler EXCEPT ![h] = r]
  BY DEF Goto, RequestTypes
<1>2. r.at = place /\ r.id = handler[h].id
  OBVIOUS
<1> HIDE DEF r
<1>3. handler'[h] = r /\ OthersWait(h) /\ handler' = [g \in Handlers |-> handler'[g]]
  BY <1>1, Becomes
<1> QED
  BY <1>2, <1>3 DEF Continues, r

LEMMA BeginBecomes ==
    ASSUME RequestTypes, NEW h \in Handlers, NEW r, Begin(h, r)
    PROVE  /\ handler'[h] = r /\ OthersWait(h)
           /\ handler' = [g \in Handlers |-> handler'[g]]
           /\ handler[h].at = "idle"
           /\ requests < MaxRequests /\ requests' = requests + 1
<1>1. handler'[h] = r /\ OthersWait(h) /\ handler' = [g \in Handlers |-> handler'[g]]
  BY Becomes DEF Begin
<1> QED
  BY <1>1 DEF Begin, Idle

\* Every step of a goroutine is of one of these kinds.
LEMMA StepKinds ==
    ASSUME RegInv, NEW h \in Handlers,
           RegisterCreate(h) \/ UpdateRead(h) \/ RemoveDelete(h) \/ HandlerStep(h)
    PROVE  /\ Advances(h) /\ OthersWait(h)
           /\ handler' = [g \in Handlers |-> handler'[g]]
<1> DEFINE Whole == handler' = [g \in Handlers |-> handler'[g]]
<1>1. RequestTypes /\ RequestOK(handler[h])
  BY DEF RegInv, RequestTypes
<1>2. \A id \in DOMAIN backends : backends[id] \in Rows
  BY DEF RegInv, TableTypes
<1>3. CASE RegisterCreate(h)
  <2>1. PICK id \in Ids \ DOMAIN backends, type \in Types, enabled \in BOOLEAN :
            /\ Begin(h, [at |-> IF type = "ilink_proxy" THEN "bot" ELSE "reload",
                         id |-> id])
            /\ backends' = Put(backends, id, [type |-> type, enabled |-> enabled])
            /\ UNCHANGED <<botRows, bots, nextToken, adapters, conns, mu, failed,
                           changedBy, outdated>>
    BY <1>3 DEF RegisterCreate
  <2>2. [type |-> type, enabled |-> enabled] \in Rows
    BY DEF Rows
  <2>3. handler'[h].id = id /\ handler'[h].at \in {"bot", "reload"}
    BY <1>1, <2>1, BeginBecomes
  <2>4. Comes(h) /\ OthersWait(h) /\ Whole
    BY <1>1, <2>1, BeginBecomes DEF Comes, NoBots, NoFactory
  <2>5. Creates(h)
    BY <2>1, <2>2, <2>3, <2>4 DEF Creates
  <2> QED
    BY <2>4, <2>5 DEF Advances
<1>4. CASE UpdateRead(h)
  <2>1. PICK id \in DOMAIN backends :
            \E row \in [type : {backends[id].type} \cup Types, enabled : BOOLEAN] :
                /\ Begin(h, [at |-> "update", id |-> id, row |-> row])
                /\ UNCHANGED <<backends, botRows, bots, nextToken, adapters, conns,
                               mu, failed, changedBy, outdated>>
    BY <1>4 DEF UpdateRead
  <2>2. PICK row \in [type : {backends[id].type} \cup Types, enabled : BOOLEAN] :
                /\ Begin(h, [at |-> "update", id |-> id, row |-> row])
                /\ UNCHANGED <<backends, botRows, bots, nextToken, adapters, conns,
                               mu, failed, changedBy, outdated>>
    BY <2>1
  <2>3. row \in Rows
    BY <1>2 DEF Rows
  <2>4. handler'[h].id = id /\ handler'[h].at = "update" /\ handler'[h].row = row
    BY <1>1, <2>2, BeginBecomes
  <2>5. Comes(h) /\ OthersWait(h) /\ Whole
    BY <1>1, <2>2, BeginBecomes DEF Comes, NoBots, NoFactory
  <2>6. Reads(h)
    BY <2>2, <2>3, <2>4, <2>5 DEF Reads
  <2> QED
    BY <2>5, <2>6 DEF Advances
<1>5. CASE RemoveDelete(h)
  <2>1. PICK id \in All :
            /\ Begin(h, [at |-> "unregister", id |-> id])
            /\ backends' = Without(backends, id)
            /\ UNCHANGED <<botRows, bots, nextToken, adapters, conns, mu, failed,
                           changedBy, outdated>>
    BY <1>5 DEF RemoveDelete, All
  <2>2. handler'[h].id = id /\ handler'[h].at = "unregister"
    BY <1>1, <2>1, BeginBecomes
  <2>3. Comes(h) /\ OthersWait(h) /\ Whole
    BY <1>1, <2>1, BeginBecomes DEF Comes, NoBots, NoFactory
  <2>4. Removes(h)
    BY <2>1, <2>2, <2>3 DEF Removes
  <2> QED
    BY <2>3, <2>4 DEF Advances
<1>6. CASE RegisterBot(h)
  <2> DEFINE id == handler[h].id
             token == IF id \in DOMAIN bots THEN bots[id] ELSE nextToken
             r == [at |-> "save", id |-> id, token |-> token]
  <2>1. /\ bots' = Put(bots, id, token)
        /\ nextToken' = IF id \in DOMAIN bots THEN nextToken ELSE nextToken + 1
        /\ handler' = [handler EXCEPT ![h] = r]
        /\ handler[h].at = "bot"
        /\ ChangesBot(h)
        /\ UNCHANGED <<backends, botRows, adapters, conns, mu, requests, failed,
                       outdated>>
    BY <1>6 DEF RegisterBot
  <2>2. r.at = "save" /\ r.id = id /\ r.token = token
    OBVIOUS
  <2> HIDE DEF r
  <2>3. handler'[h] = r /\ OthersWait(h) /\ Whole
    BY <1>1, <2>1, Becomes
  <2>4. GetsBot(h)
    BY <2>1, <2>2, <2>3 DEF GetsBot, Continues, NoTable, NoFactory, Changing
  <2> QED
    BY <2>3, <2>4 DEF Advances
<1>7. CASE RegisterSave(h)
  <2>1. Continues(h, "reload") /\ OthersWait(h) /\ Whole
    BY <1>1, <1>7, GotoBecomes DEF RegisterSave
  <2>2. SavesBot(h)
    BY <1>7, <2>1 DEF RegisterSave, SavesBot, NoBots, NoFactory
  <2> QED
    BY <2>1, <2>2 DEF Advances
<1>8. CASE UpdateWrite(h)
  <2>1. CASE /\ backends' = IF handler[h].id \in DOMAIN backends
                            THEN [backends EXCEPT ![handler[h].id] = handler[h].row]
                            ELSE backends
             /\ Goto(h, "reload")
    <3>1. Continues(h, "reload") /\ OthersWait(h) /\ Whole
      BY <1>1, <2>1, GotoBecomes
    <3>2. Writes(h)
      BY <1>8, <2>1, <3>1 DEF UpdateWrite, Writes, NoBots, NoFactory, Serving
    <3> QED
      BY <3>1, <3>2 DEF Advances
  <2>2. CASE handler' = [handler EXCEPT ![h] = Idle] /\ UNCHANGED backends
    <3>1. handler'[h] = Idle /\ OthersWait(h) /\ Whole
      BY <1>1, <2>2, Becomes
    <3>2. Writes(h)
      BY <1>8, <2>2, <3>1 DEF UpdateWrite, Writes, NoBots, NoFactory, Serving
    <3> QED
      BY <3>1, <3>2 DEF Advances
  <2> QED
    BY <1>8, <2>1, <2>2 DEF UpdateWrite
<1>9. CASE RemoveBot(h)
  <2>1. Continues(h, "delete") /\ OthersWait(h) /\ Whole
    BY <1>1, <1>9, GotoBecomes DEF RemoveBot
  <2>2. DropsBot(h)
    BY <1>9, <2>1 DEF RemoveBot, DropsBot, NoTable, NoFactory, Changing
  <2> QED
    BY <2>1, <2>2 DEF Advances
<1>10. CASE RemoveSaved(h)
  <2>1. CASE /\ botRows' = Without(botRows, handler[h].id)
             /\ Settle(h, TRUE) /\ Goto(h, "reload") /\ UNCHANGED failed
    <3>1. Continues(h, "reload") /\ OthersWait(h) /\ Whole
      BY <1>1, <2>1, GotoBecomes
    <3>2. DeletesBot(h)
      BY <1>10, <2>1, <3>1 DEF RemoveSaved, DeletesBot, NoBots, NoFactory
    <3> QED
      BY <3>1, <3>2 DEF Advances
  <2>2. CASE /\ failed' = TRUE /\ handler' = [handler EXCEPT ![h] = Idle]
             /\ Settle(h, FALSE) /\ UNCHANGED botRows
    <3>1. handler'[h] = Idle /\ OthersWait(h) /\ Whole
      BY <1>1, <2>2, Becomes
    <3>2. DeletesBot(h)
      BY <1>10, <2>2, <3>1 DEF RemoveSaved, DeletesBot, NoBots, NoFactory
    <3> QED
      BY <3>1, <3>2 DEF Advances
  <2> QED
    BY <1>10, <2>1, <2>2 DEF RemoveSaved
<1>11. CASE ReloadReset(h)
  <2>1. Continues(h, "list") /\ OthersWait(h) /\ Whole
    BY <1>1, <1>11, GotoBecomes DEF ReloadReset
  <2>2. Empties(h)
    BY <1>11, <2>1, NothingFacts DEF ReloadReset, Empties, NoTable, NoBots, Serving
  <2> QED
    BY <2>1, <2>2 DEF Advances
<1>12. CASE ReloadList(h)
  <2>1. PICK rows : /\ handler' = [handler EXCEPT ![h] =
                                     [at |-> "fill", id |-> handler[h].id, rows |-> rows]]
                    /\ \/ rows = Loadable(backends) /\ failed' = FALSE
                       \/ rows = Nothing /\ failed' = TRUE
    BY <1>1, <1>12 DEF ReloadList, RequestTypes
  <2> DEFINE r == [at |-> "fill", id |-> handler[h].id, rows |-> rows]
  <2>2. r.at = "fill" /\ r.id = handler[h].id /\ r.rows = rows
    OBVIOUS
  <2>3. handler' = [handler EXCEPT ![h] = r]
    BY <2>1
  <2> HIDE DEF r
  <2>4. handler'[h] = r /\ OthersWait(h) /\ Whole
    BY <1>1, <2>3, Becomes
  <2>5. /\ DOMAIN Loadable(backends) = {id \in DOMAIN backends : Loads(id)}
        /\ \A id \in DOMAIN Loadable(backends) : Loadable(backends)[id] = backends[id]
    BY DEF Loadable, Loads
  <2>6. /\ handler[h].at = "list" /\ NoTable /\ NoBots /\ NoFactory /\ Serving
        /\ UNCHANGED mu
    BY <1>12 DEF ReloadList, NoTable, NoBots, NoFactory, Serving
  <2>7. Lists(h)
    BY <2>1, <2>2, <2>4, <2>5, <2>6, NothingFacts DEF Lists, Continues
  <2> QED
    BY <2>4, <2>7 DEF Advances
<1>13. CASE ReloadRegister(h)
  <2>1. PICK id \in DOMAIN handler[h].rows :
            /\ adapters' = Put(adapters, id, NewAdapter(handler[h].rows[id]))
            /\ handler' = [handler EXCEPT ![h] =
                   [at |-> "fill", id |-> handler[h].id,
                    rows |-> Without(handler[h].rows, id)]]
    BY <1>1, <1>13 DEF ReloadRegister, RequestTypes
  <2> DEFINE r == [at |-> "fill", id |-> handler[h].id,
                   rows |-> Without(handler[h].rows, id)]
  <2>2. r.at = "fill" /\ r.id = handler[h].id /\ r.rows = Without(handler[h].rows, id)
    OBVIOUS
  <2>3. handler' = [handler EXCEPT ![h] = r]
    BY <2>1
  <2> HIDE DEF r
  <2>4. handler'[h] = r /\ OthersWait(h) /\ Whole
    BY <1>1, <2>3, Becomes
  <2>5. /\ DOMAIN adapters' = DOMAIN adapters \cup {id}
        /\ adapters'[id] = NewAdapter(handler[h].rows[id])
        /\ \A i \in DOMAIN adapters : i # id => adapters'[i] = adapters[i]
    <3>1. \A v : /\ DOMAIN Put(adapters, id, v) = DOMAIN adapters \cup {id}
                 /\ Put(adapters, id, v)[id] = v
                 /\ \A i \in DOMAIN adapters :
                        i # id => Put(adapters, id, v)[i] = adapters[i]
      BY DEF Put
    <3> QED
      BY <2>1, <3>1
  <2>6. NewAdapter(handler[h].rows[id]).type = handler[h].rows[id].type
    BY DEF NewAdapter
  <2>7. /\ handler[h].at = "fill" /\ NoTable /\ NoBots /\ Serving
        /\ UNCHANGED <<conns, mu, failed>>
    BY <1>13 DEF ReloadRegister, NoTable, NoBots, Serving
  <2>8. Fills(h)
    BY <2>2, <2>4, <2>5, <2>6, <2>7 DEF Fills, Continues
  <2> QED
    BY <2>4, <2>8 DEF Advances
<1>14. CASE ReloadConnections(h)
  <2>1. Continues(h, "echo") /\ OthersWait(h) /\ Whole
    BY <1>1, <1>14, GotoBecomes DEF ReloadConnections
  <2>2. Connects(h)
    BY <1>14, <2>1 DEF ReloadConnections, Connects, NoTable, NoBots, Serving
  <2> QED
    BY <2>1, <2>2 DEF Advances
<1>15. CASE ReloadEcho(h)
  <2>1. handler'[h] = Idle /\ OthersWait(h) /\ Whole
    BY <1>1, <1>15, Becomes DEF ReloadEcho
  <2>2. /\ DOMAIN adapters' = DOMAIN adapters \cup {Echo}
        /\ adapters'[Echo] = NewAdapter(EchoRow)
        /\ \A i \in DOMAIN adapters : i # Echo => adapters'[i] = adapters[i]
    <3>1. \A v : /\ DOMAIN Put(adapters, Echo, v) = DOMAIN adapters \cup {Echo}
                 /\ Put(adapters, Echo, v)[Echo] = v
                 /\ \A i \in DOMAIN adapters :
                        i # Echo => Put(adapters, Echo, v)[i] = adapters[i]
      BY DEF Put
    <3> QED
      BY <1>15, <3>1 DEF ReloadEcho
  <2>3. NewAdapter(EchoRow).type = "echo"
    BY DEF NewAdapter, EchoRow
  <2>4. /\ handler[h].at = "echo" /\ mu' = NoOne /\ NoTable /\ NoBots /\ Serving
        /\ UNCHANGED <<conns, failed>>
    BY <1>15 DEF ReloadEcho, NoTable, NoBots, Serving
  <2>5. Finishes(h)
    BY <2>1, <2>2, <2>3, <2>4 DEF Finishes
  <2> QED
    BY <2>1, <2>5 DEF Advances
<1> QED
  BY <1>3, <1>4, <1>5, <1>6, <1>7, <1>8, <1>9, <1>10, <1>11, <1>12, <1>13, <1>14,
     <1>15 DEF HandlerStep

-----------------------------------------------------------------------------
(* The types are kept                                                          *)

LEMMA PutRows ==
    ASSUME NEW f, NEW id, NEW row \in Rows,
           \A i \in DOMAIN f : f[i] \in Rows
    PROVE  \A i \in DOMAIN Put(f, id, row) : Put(f, id, row)[i] \in Rows
BY DEF Put

LEMMA StepRequests ==
    ASSUME RegInv, NEW h \in Handlers, Advances(h), OthersWait(h),
           handler' = [g \in Handlers |-> handler'[g]]
    PROVE  RequestTypes'
<1>1. RequestTypes /\ TableTypes /\ RequestOK(handler[h])
  BY DEF RegInv, RequestTypes
<1>2. Idle.at = "idle"
  BY DEF Idle
<1>3. RequestOK(Idle)
  BY <1>2 DEF RequestOK, Places
<1>4. \A r : r = Idle => r.at = "idle"
  BY <1>2
<1>5. RequestOK(handler'[h])
  <2>1. CASE Creates(h) \/ Reads(h) \/ Removes(h)
    BY <1>1, <1>4, <2>1 DEF Creates, Reads, Removes, RequestOK, Places, All, TableTypes
  <2>2. CASE GetsBot(h) \/ SavesBot(h) \/ DropsBot(h) \/ Empties(h)
    BY <1>1, <1>4, <2>2
       DEF GetsBot, SavesBot, DropsBot, Empties, Continues, RequestOK, Places
  <2>3. CASE DeletesBot(h) \/ Writes(h) \/ Connects(h) \/ Finishes(h)
    BY <1>1, <1>3, <1>4, <2>3
       DEF DeletesBot, Writes, Connects, Finishes, Continues, RequestOK, Places
  <2>4. CASE Lists(h)
    BY <1>1, <1>4, <2>4 DEF Lists, Continues, RequestOK, Places, TableTypes, Loads
  <2>5. CASE Fills(h)
    <3>1. PICK id \in DOMAIN handler[h].rows :
              handler'[h].rows = Without(handler[h].rows, id)
      BY <2>5 DEF Fills
    <3>2. /\ DOMAIN handler'[h].rows \subseteq DOMAIN handler[h].rows
          /\ \A i \in DOMAIN handler'[h].rows : handler'[h].rows[i] = handler[h].rows[i]
      BY <3>1 DEF Without
    <3>3. handler[h].at = "fill" /\ Continues(h, "fill")
      BY <2>5 DEF Fills
    <3> QED
      BY <1>1, <1>4, <3>2, <3>3 DEF Continues, RequestOK, Places
  <2> QED
    BY <2>1, <2>2, <2>3, <2>4, <2>5 DEF Advances
<1>6. \A g \in Handlers : RequestOK(handler'[g])
  BY <1>1, <1>5 DEF RequestTypes, OthersWait
<1>7. requests' \in 0..MaxRequests
  <2>1. CASE Creates(h) \/ Reads(h) \/ Removes(h)
    BY <1>1, <2>1, RegistryAssumption DEF Creates, Reads, Removes, Comes, RequestTypes
  <2>2. CASE UNCHANGED requests
    BY <1>1, <2>2 DEF RequestTypes
  <2> QED
    BY <2>1, <2>2 DEF Advances, GetsBot, SavesBot, DropsBot, DeletesBot, Writes,
       Empties, Lists, Fills, Connects, Finishes, Serving, Changing
<1> QED
  BY <1>6, <1>7 DEF RequestTypes

LEMMA StepMutex ==
    ASSUME RegInv, NEW h \in Handlers, Advances(h), OthersWait(h)
    PROVE  MutexHeld'
<1>1. MutexHeld /\ NoOne \notin Handlers
  BY RegistryAssumption DEF RegInv
<1>2. Idle.at = "idle"
  BY DEF Idle
<1>3. CASE Empties(h)
  BY <1>1, <1>3 DEF MutexHeld, At, Empties, Continues, OthersWait
<1>4. CASE Finishes(h)
  BY <1>1, <1>2, <1>4 DEF MutexHeld, At, Finishes, OthersWait
<1>5. CASE ~Empties(h) /\ ~Finishes(h)
  <2>1. UNCHANGED mu
    BY <1>5 DEF Advances, Creates, Reads, Removes, Comes, GetsBot, SavesBot, DropsBot,
                DeletesBot, Writes, Lists, Fills, Connects
  <2>2. At(h, {"list", "fill", "echo"})' <=> At(h, {"list", "fill", "echo"})
    BY <1>2, <1>5 DEF At, Advances, Creates, Reads, Removes, Comes, GetsBot, SavesBot,
                DropsBot, DeletesBot, Writes, Lists, Fills, Connects, Continues
  <2> QED
    BY <1>1, <2>1, <2>2 DEF MutexHeld, At, OthersWait
<1> QED
  BY <1>3, <1>4, <1>5

LEMMA StepTables ==
    ASSUME RegInv, NEW h \in Handlers, Advances(h)
    PROVE  TableTypes'
<1>1. TableTypes /\ RequestOK(handler[h])
  BY DEF RegInv, RequestTypes
<1>2. /\ IsFcn(backends') /\ DOMAIN backends' \subseteq All
      /\ \A id \in DOMAIN backends' : backends'[id] \in Rows
  <2>1. CASE Creates(h)
    <3>1. PICK row \in Rows : backends' = Put(backends, handler'[h].id, row)
      BY <2>1 DEF Creates
    <3>2. handler'[h].id \in All
      BY <2>1 DEF Creates, All
    <3> QED
      <4>1. IsFcn(backends') /\ DOMAIN backends' = DOMAIN backends \cup {handler'[h].id}
        BY <3>1 DEF Put, IsFcn
      <4>2. \A id \in DOMAIN backends' : backends'[id] \in Rows
        BY <1>1, <3>1, PutRows DEF TableTypes
      <4> QED
        BY <1>1, <3>2, <4>1, <4>2 DEF TableTypes
  <2>2. CASE Removes(h)
    BY <1>1, <2>2 DEF Removes, Without, TableTypes, IsFcn
  <2>3. CASE Writes(h)
    <3>1. handler[h].row \in Rows
      BY <1>1, <2>3 DEF Writes, RequestOK
    <3> QED
      BY <1>1, <2>3, <3>1 DEF Writes, TableTypes, IsFcn
  <2>4. CASE UNCHANGED backends
    BY <1>1, <2>4 DEF TableTypes
  <2> QED
    BY <2>1, <2>2, <2>3, <2>4 DEF Advances, Reads, GetsBot, SavesBot, DropsBot,
       DeletesBot, Empties, Lists, Fills, Connects, Finishes, NoTable
<1>3. IsFcn(botRows') /\ DOMAIN botRows' \subseteq Ids
  <2>1. CASE SavesBot(h)
    <3>1. handler[h].id \in Ids
      BY <1>1, <2>1 DEF SavesBot, RequestOK
    <3> QED
      BY <1>1, <2>1, <3>1 DEF SavesBot, TableTypes, Put, IsFcn
  <2>2. CASE DeletesBot(h)
    BY <1>1, <2>2 DEF DeletesBot, Without, TableTypes, IsFcn
  <2>3. CASE UNCHANGED botRows
    BY <1>1, <2>3 DEF TableTypes
  <2> QED
    BY <2>1, <2>2, <2>3 DEF Advances, Creates, Reads, Removes, Comes, GetsBot,
       DropsBot, Writes, Empties, Lists, Fills, Connects, Finishes, NoTable
<1> QED
  BY <1>2, <1>3 DEF TableTypes

LEMMA StepMemory ==
    ASSUME RegInv, NEW h \in Handlers, Advances(h)
    PROVE  MemoryTypes'
<1>1. MemoryTypes /\ TableTypes /\ RequestOK(handler[h])
  BY DEF RegInv, RequestTypes
<1>2. IsFcn(bots') /\ DOMAIN bots' \subseteq Ids /\ nextToken' \in Nat \ {0}
  <2>1. CASE GetsBot(h)
    <3>1. handler[h].id \in Ids
      BY <1>1, <2>1 DEF GetsBot, RequestOK
    <3>2. bots' = Put(bots, handler[h].id, handler'[h].token)
      BY <2>1 DEF GetsBot
    <3>3. IsFcn(bots') /\ DOMAIN bots' \subseteq Ids
      BY <1>1, <3>1, <3>2 DEF MemoryTypes, Put, IsFcn
    <3>4. nextToken' \in Nat \ {0}
      BY <1>1, <2>1 DEF GetsBot, MemoryTypes
    <3> QED
      BY <3>3, <3>4
  <2>2. CASE DropsBot(h)
    BY <1>1, <2>2 DEF DropsBot, Without, MemoryTypes, IsFcn
  <2>3. CASE NoBots
    BY <1>1, <2>3 DEF MemoryTypes, NoBots
  <2> QED
    BY <2>1, <2>2, <2>3 DEF Advances, Creates, Reads, Removes, Comes, SavesBot,
       DeletesBot, Writes, Empties, Lists, Fills, Connects, Finishes
<1>3. /\ DOMAIN adapters' \subseteq All
      /\ \A id \in DOMAIN adapters' : adapters'[id].type \in Known
  <2>1. CASE Empties(h)
    BY <2>1 DEF Empties
  <2>2. CASE Fills(h)
    <3>1. PICK id \in DOMAIN handler[h].rows :
              /\ DOMAIN adapters' = DOMAIN adapters \cup {id}
              /\ adapters'[id].type = handler[h].rows[id].type
              /\ \A i \in DOMAIN adapters : i # id => adapters'[i] = adapters[i]
      BY <2>2 DEF Fills
    <3>2. id \in All /\ handler[h].rows[id].type \in Known
      BY <1>1, <2>2 DEF Fills, RequestOK
    <3> QED
      BY <1>1, <3>1, <3>2 DEF MemoryTypes
  <2>3. CASE Finishes(h)
    BY <1>1, <2>3 DEF Finishes, MemoryTypes, All, Known
  <2>4. CASE UNCHANGED adapters
    BY <1>1, <2>4 DEF MemoryTypes
  <2> QED
    BY <2>1, <2>2, <2>3, <2>4 DEF Advances, Creates, Reads, Removes, Comes, GetsBot,
       SavesBot, DropsBot, DeletesBot, Writes, Lists, Connects, NoFactory
<1>4. conns' \subseteq Ids
  <2>1. conns' = {} \/ conns' = DOMAIN botRows \/ conns' = conns
    BY DEF Advances, Creates, Reads, Removes, Comes, GetsBot, SavesBot, DropsBot,
       DeletesBot, Writes, Empties, Lists, Fills, Connects, Finishes, NoFactory
  <2> QED
    BY <1>1, <2>1 DEF MemoryTypes, TableTypes
<1>5. failed' \in BOOLEAN
  BY <1>1 DEF MemoryTypes, Advances, Creates, Reads, Removes, Comes, GetsBot, SavesBot,
     DropsBot, DeletesBot, Writes, Empties, Lists, Fills, Connects, Finishes
<1>6. outdated' \subseteq All /\ changedBy' \in [All -> Handlers \cup {NoOne}]
  <2>1. outdated \subseteq All /\ changedBy \in [All -> Handlers \cup {NoOne}]
    BY <1>1 DEF MemoryTypes
  <2>2. CASE GetsBot(h) \/ DropsBot(h)
    BY <2>1, <2>2 DEF GetsBot, DropsBot, Changing, ChangesBot
  <2>3. CASE SavesBot(h) \/ DeletesBot(h)
    <3>1. handler[h].id \in All
      BY <1>1, <2>3 DEF SavesBot, DeletesBot, RequestOK
    <3> QED
      BY <2>1, <2>3, <3>1 DEF SavesBot, DeletesBot, Settle
  <2>4. CASE UNCHANGED <<outdated, changedBy>>
    BY <2>1, <2>4
  <2> QED
    BY <2>2, <2>3, <2>4 DEF Advances, Creates, Reads, Removes, Comes, Writes, Empties,
       Lists, Fills, Connects, Finishes, Serving
<1> QED
  BY <1>2, <1>3, <1>4, <1>5, <1>6 DEF MemoryTypes

\* A restart: memory as the tables say, if they could be listed.
Restarts ==
    /\ IsFcn(backends') /\ DOMAIN backends' \subseteq All
    /\ \A id \in DOMAIN backends' : backends'[id] \in Rows
    /\ DOMAIN adapters' \subseteq All
    /\ \A id \in DOMAIN adapters' : adapters'[id].type \in Known
    /\ failed' \in BOOLEAN
    /\ ~failed' =>
          /\ \A id \in DOMAIN backends' : Loads(id)' => id \in DOMAIN adapters'
          /\ \A id \in DOMAIN adapters' \ {Echo} :
                 Loads(id)' /\ adapters'[id].type = backends'[id].type
          /\ conns' = DOMAIN botRows
    /\ conns' = DOMAIN bots'
    /\ \/ bots' = botRows /\ outdated' = {}
       \/ bots' = Nothing /\ outdated' = DOMAIN botRows
    /\ mu' = NoOne
    /\ handler' = [h \in Handlers |-> Idle]
    /\ changedBy' = [id \in All |-> NoOne]
    /\ UNCHANGED <<botRows, nextToken, requests>>

LEMMA RestartKinds == ASSUME RegInv, RestartRegistry PROVE Restarts
<1>1. TableTypes /\ MemoryTypes
  BY DEF RegInv
<1>2. EchoRow \in Rows /\ NewAdapter(EchoRow).type = "echo" /\ EchoRow.type = "echo"
  BY DEF EchoRow, Rows, NewAdapter
<1>3. PICK readBackends \in BOOLEAN, readBots \in BOOLEAN :
        LET listed == IF readBackends THEN backends ELSE Nothing
        IN  /\ \/ UNCHANGED backends
               \/ /\ DOMAIN listed = {} /\ Echo \notin DOMAIN backends
                  /\ backends' = Put(backends, Echo, EchoRow)
            /\ adapters' = IF DOMAIN listed = {} THEN Put(Nothing, Echo, NewAdapter(EchoRow))
                           ELSE [id \in DOMAIN Loadable(listed) |->
                                    [type |-> listed[id].type,
                                     wired |-> listed[id].type = "ilink_proxy"]]
            /\ bots' = IF readBots THEN botRows ELSE Nothing
            /\ outdated' = IF readBots THEN {} ELSE DOMAIN botRows
            /\ failed' = ~(readBackends /\ readBots)
  BY DEF RestartRegistry
<1> DEFINE listed == IF readBackends THEN backends ELSE Nothing
<1>4. \/ UNCHANGED backends
      \/ /\ DOMAIN listed = {} /\ backends' = Put(backends, Echo, EchoRow)
  BY <1>3
<1>5. /\ IsFcn(backends') /\ DOMAIN backends' \subseteq All
      /\ \A id \in DOMAIN backends' : backends'[id] \in Rows
  <2>1. CASE backends' = Put(backends, Echo, EchoRow)
    <3>1. IsFcn(backends') /\ DOMAIN backends' = DOMAIN backends \cup {Echo}
      BY <2>1, PutFacts
    <3>2. \A id \in DOMAIN backends' : backends'[id] \in Rows
      BY <1>1, <1>2, <2>1, PutRows DEF TableTypes
    <3> QED
      BY <1>1, <3>1, <3>2 DEF All, TableTypes
  <2>2. CASE backends' = backends
    BY <1>1, <2>2 DEF TableTypes
  <2> QED
    BY <1>4, <2>1, <2>2
<1>6. CASE DOMAIN listed = {}
  <2>1. DOMAIN adapters' = {Echo} /\ adapters'[Echo].type = "echo"
    BY <1>2, <1>3, <1>6, FirstFacts
  <2>2. readBackends => DOMAIN backends' \subseteq {Echo}
    <3>1. readBackends => DOMAIN backends = {}
      BY <1>6
    <3>2. backends' = backends \/ DOMAIN backends' = DOMAIN backends \cup {Echo}
      BY <1>4, PutFacts
    <3> QED
      BY <3>1, <3>2
  <2>3. failed' = ~(readBackends /\ readBots)
    BY <1>3
  <2>4. ~failed' =>
          /\ \A id \in DOMAIN backends' : Loads(id)' => id \in DOMAIN adapters'
          /\ \A id \in DOMAIN adapters' \ {Echo} :
                 Loads(id)' /\ adapters'[id].type = backends'[id].type
    BY <2>1, <2>2, <2>3
  <2>5. DOMAIN adapters' \subseteq All /\ \A id \in DOMAIN adapters' : adapters'[id].type \in Known
    BY <2>1 DEF All, Known
  <2>6. conns' = DOMAIN bots' /\ (~failed' => conns' = DOMAIN botRows)
    BY <1>3 DEF RestartRegistry
  <2> HIDE DEF listed
  <2> QED
    BY <1>3, <1>5, <2>4, <2>5, <2>6 DEF RestartRegistry, Restarts, All
<1>7. CASE DOMAIN listed # {}
  <2>1. readBackends /\ listed = backends /\ backends' = backends
    BY <1>4, <1>7, NothingFacts
  <2>2. /\ DOMAIN adapters' = {id \in DOMAIN backends : Loads(id)}
        /\ \A id \in DOMAIN adapters' : adapters'[id].type = backends[id].type
    <3>1. DOMAIN Loadable(backends) = {id \in DOMAIN backends : Loads(id)}
      BY DEF Loadable, Loads
    <3>2. adapters' = [id \in DOMAIN Loadable(listed) |->
                          [type |-> listed[id].type,
                           wired |-> listed[id].type = "ilink_proxy"]]
      BY <1>3, <1>7
    <3> HIDE DEF listed
    <3> QED
      BY <2>1, <3>1, <3>2
  <2>3. \A id : Loads(id)' <=> Loads(id)
    BY <2>1 DEF Loads
  <2>4. /\ DOMAIN adapters' \subseteq All
        /\ \A id \in DOMAIN adapters' : adapters'[id].type \in Known
    BY <1>1, <2>2 DEF Loads, TableTypes
  <2>5. conns' = DOMAIN bots' /\ (~failed' => conns' = DOMAIN botRows)
    BY <1>3 DEF RestartRegistry
  <2>6. /\ \A id \in DOMAIN backends' : Loads(id)' => id \in DOMAIN adapters'
        /\ \A id \in DOMAIN adapters' \ {Echo} :
               Loads(id)' /\ adapters'[id].type = backends'[id].type
    BY <2>1, <2>2, <2>3
  <2> HIDE DEF listed
  <2> QED
    BY <1>3, <1>5, <2>4, <2>5, <2>6 DEF RestartRegistry, Restarts, All
<1> QED
  BY <1>6, <1>7

\* The step of the whole registry.
LEMMA RegistryKinds ==
    ASSUME RegInv, [RegistryNext]_registryVars
    PROVE  \/ UNCHANGED registryVars
           \/ Restarts
           \/ \E h \in Handlers : /\ Advances(h) /\ OthersWait(h)
                                  /\ handler' = [g \in Handlers |-> handler'[g]]
BY StepKinds, RestartKinds DEF RegistryNext

LEMMA RegStep == RegInv /\ [RegistryNext]_registryVars => RegInv'
<1> SUFFICES ASSUME RegInv, [RegistryNext]_registryVars PROVE RegInv'
  OBVIOUS
<1>1. CASE UNCHANGED registryVars
  BY <1>1 DEF registryVars, RegInv, TableTypes, MemoryTypes, RequestTypes, MutexHeld, At
<1>2. CASE Restarts
  <2>1. TableTypes /\ MemoryTypes /\ RequestTypes
    BY DEF RegInv
  <2>2. TableTypes'
    BY <1>2, <2>1 DEF Restarts, TableTypes
  <2>3. /\ DOMAIN adapters' \subseteq All
        /\ \A id \in DOMAIN adapters' : adapters'[id].type \in Known
        /\ failed' \in BOOLEAN /\ changedBy' \in [All -> Handlers \cup {NoOne}]
    BY <1>2 DEF Restarts
  <2>4. /\ IsFcn(bots') /\ DOMAIN bots' \subseteq Ids /\ outdated' \subseteq All
        /\ conns' \subseteq Ids /\ nextToken' \in Nat \ {0}
    BY <1>2, <2>1, NothingFacts DEF Restarts, TableTypes, MemoryTypes, All
  <2>5. MemoryTypes'
    BY <2>3, <2>4 DEF MemoryTypes
  <2>6. Idle.at = "idle"
    BY DEF Idle
  <2>7. RequestTypes'
    BY <1>2, <2>1, <2>6 DEF Restarts, RequestTypes, RequestOK, Places
  <2>8. MutexHeld'
    BY <1>2, <2>6, RegistryAssumption DEF Restarts, MutexHeld, At
  <2> QED
    BY <2>2, <2>5, <2>7, <2>8 DEF RegInv
<1>3. CASE \E h \in Handlers : /\ Advances(h) /\ OthersWait(h)
                               /\ handler' = [g \in Handlers |-> handler'[g]]
  BY <1>3, StepTables, StepMemory, StepRequests, StepMutex DEF RegInv
<1> QED
  BY <1>1, <1>2, <1>3, RegistryKinds

LEMMA RegistryInvariant == RegistrySpec => []RegInv
BY RegInit, RegStep, PTL DEF RegistrySpec

\* Types of the registry for all handlers, ids and numbers of requests; with them,
\* that the server's mutex is held by exactly the goroutine that refills the factory.
THEOREM RegistryTypes == RegistrySpec => []RegistryTypeOK
<1>1. RegInv => RegistryTypeOK
  BY DEF RegInv, RegistryTypeOK, TableTypes, MemoryTypes, RequestTypes, MutexHeld, At, All
<1> QED
  BY <1>1, RegistryInvariant, PTL

-----------------------------------------------------------------------------
(* The factory follows the tables                                              *)

\* A refill under way is yet to register the adapter of id.
Filling(id) == \E h \in Handlers : At(h, {"fill"}) /\ id \in DOMAIN handler[h].rows

\* Request h has changed the tables, or may have, and is yet to list them.
Pending(h) == At(h, {"bot", "save", "unregister", "delete", "reload", "list"})

\* Before a refill lists, the factory is empty.
EmptyAtList == \A h \in Handlers : At(h, {"list"}) => DOMAIN adapters = {} /\ conns = {}

\* The factory, with what a refill has still to register, is what the tables say.
AdaptersMatch ==
    /\ \A id \in Ids : Loads(id) <=> (id \in DOMAIN adapters \/ Filling(id))
    /\ \A id \in DOMAIN adapters \ {Echo} : adapters[id].type = backends[id].type
    /\ \A h \in Handlers : At(h, {"fill"}) =>
           \A id \in DOMAIN handler[h].rows \ {Echo} :
               handler[h].rows[id].type = backends[id].type

\* Unless a request is yet to list the tables, or a database call failed since the
\* last listing.
FactoryInv ==
    /\ EmptyAtList
    /\ ~failed => (\E h \in Handlers : Pending(h)) \/ AdaptersMatch
    /\ ~failed => \/ \E h \in Handlers : Pending(h) \/ At(h, {"fill"})
                  \/ conns = DOMAIN botRows

LEMMA FactoryInit == Init => FactoryInv
<1> SUFFICES ASSUME Init PROVE FactoryInv
  OBVIOUS
<1>1. /\ DOMAIN adapters = {Echo} /\ DOMAIN backends = {Echo}
  BY FirstFacts DEF Init
<1>2. \A h \in Handlers : handler[h].at = "idle"
  BY DEF Init, Idle
<1>3. conns = {} /\ DOMAIN botRows = {}
  BY NothingFacts DEF Init
<1>4. EmptyAtList /\ AdaptersMatch
  BY <1>1, <1>2, RegistryAssumption DEF EmptyAtList, At, AdaptersMatch, Loads, Filling
<1> QED
  BY <1>3, <1>4 DEF FactoryInv

LEMMA EmptyStep ==
    ASSUME RegInv, EmptyAtList, NEW h \in Handlers, Advances(h), OthersWait(h)
    PROVE  EmptyAtList'
<1>1. MutexHeld /\ NoOne \notin Handlers
  BY RegistryAssumption DEF RegInv
<1> SUFFICES ASSUME NEW g \in Handlers, At(g, {"list"})'
             PROVE  DOMAIN adapters' = {} /\ conns' = {}
  BY DEF EmptyAtList
<1>2. CASE g = h
  <2>1. handler'[h].at = "list"
    BY <1>2 DEF At
  <2>2. ~SavesBot(h) /\ ~DeletesBot(h)
    BY <2>1, WritesRow
  <2>3. Empties(h)
    BY <2>1, <2>2 DEF Advances, Creates, Reads, Removes, GetsBot, DropsBot, Writes, Lists,
       Fills, Connects, Finishes, Continues, Idle
  <2> QED
    BY <2>3 DEF Empties
<1>3. CASE g # h
  <2>1. At(g, {"list"}) /\ mu = g
    BY <1>1, <1>3 DEF At, OthersWait, MutexHeld
  <2>2. ~At(h, {"list", "fill", "echo"}) /\ mu # NoOne
    BY <1>1, <1>3, <2>1 DEF MutexHeld
  <2>3. NoFactory
    BY <2>2 DEF At, Advances, Creates, Reads, Removes, Comes, GetsBot, SavesBot,
       DropsBot, DeletesBot, Writes, Empties, Lists, Fills, Connects, Finishes
  <2> QED
    BY <2>1, <2>3 DEF EmptyAtList, NoFactory
<1> QED
  BY <1>2, <1>3

LEMMA AdaptersStep ==
    ASSUME RegInv, EmptyAtList, NEW h \in Handlers, Advances(h), OthersWait(h),
           ~failed => (\E g \in Handlers : Pending(g)) \/ AdaptersMatch,
           ~failed', ~\E g \in Handlers : Pending(g)'
    PROVE  AdaptersMatch'
<1>1. MutexHeld /\ TableTypes /\ MemoryTypes
  BY DEF RegInv
<1>2. /\ ~Creates(h) /\ ~Removes(h) /\ ~GetsBot(h) /\ ~SavesBot(h) /\ ~DropsBot(h)
      /\ ~DeletesBot(h) /\ ~Empties(h)
  <2>1. ~Pending(h)'
    OBVIOUS
  <2> QED
    BY <2>1 DEF Pending, At, Creates, Removes, GetsBot, SavesBot, DropsBot, DeletesBot,
                Empties, Continues
<1>3. NoTable /\ (Lists(h) \/ ~failed)
  BY <1>2 DEF Advances, Reads, Comes, Writes, Lists, Fills, Connects, Finishes, NoTable,
              Pending, At, Continues
<1>4. \A g \in Handlers : g # h => ~Pending(g)
  BY DEF Pending, At, OthersWait
<1>5. \A g \in Handlers : g # h => handler'[g] = handler[g]
  BY DEF OthersWait
<1>6. CASE Reads(h) \/ Writes(h)
  <2>1. ~Pending(h) /\ ~At(h, {"fill"}) /\ ~At(h, {"fill"})' /\ NoFactory
    BY <1>6 DEF Reads, Comes, Writes, Continues, Pending, At, Idle
  <2>2. AdaptersMatch
    BY <1>3, <1>4, <1>6, <2>1 DEF Reads, Comes, Writes, Lists
  <2>3. \A g \in Handlers : /\ At(g, {"fill"})' <=> At(g, {"fill"})
                            /\ At(g, {"fill"}) => handler'[g] = handler[g]
    BY <1>5, <2>1 DEF At
  <2> QED
    BY <1>3, <2>1, <2>2, <2>3 DEF AdaptersMatch, Loads, Filling, NoTable, NoFactory
<1>7. CASE Lists(h)
  <2>1. /\ DOMAIN handler'[h].rows = {id \in DOMAIN backends : Loads(id)}
        /\ \A id \in DOMAIN handler'[h].rows : handler'[h].rows[id] = backends[id]
        /\ NoFactory /\ At(h, {"list"}) /\ At(h, {"fill"})'
    BY <1>3, <1>7 DEF Lists, Continues, At
  <2>2. DOMAIN adapters = {} /\ mu = h
    BY <1>1, <2>1 DEF EmptyAtList, MutexHeld, At
  <2>3. \A g \in Handlers : g # h => ~At(g, {"fill"})'
    BY <1>1, <1>5, <2>2 DEF MutexHeld, At
  <2>4. \A id \in Ids : Filling(id)' <=> Loads(id)'
    BY <1>3, <2>1, <2>3 DEF Filling, Loads, NoTable
  <2>5. \A g \in Handlers : At(g, {"fill"})' =>
            \A id \in DOMAIN handler'[g].rows \ {Echo} :
                handler'[g].rows[id].type = backends'[id].type
    BY <1>3, <2>1, <2>3 DEF NoTable
  <2> QED
    BY <2>1, <2>2, <2>4, <2>5 DEF AdaptersMatch, NoFactory
<1>8. CASE Fills(h)
  <2>1. At(h, {"fill"}) /\ At(h, {"fill"})' /\ AdaptersMatch
    BY <1>3, <1>4, <1>8 DEF Fills, Lists, Continues, At, Pending
  <2>2. PICK id \in DOMAIN handler[h].rows :
            /\ DOMAIN adapters' = DOMAIN adapters \cup {id}
            /\ adapters'[id].type = handler[h].rows[id].type
            /\ \A i \in DOMAIN adapters : i # id => adapters'[i] = adapters[i]
            /\ DOMAIN handler'[h].rows = DOMAIN handler[h].rows \ {id}
            /\ \A i \in DOMAIN handler'[h].rows : handler'[h].rows[i] = handler[h].rows[i]
    BY <1>8 DEF Fills, Without
  <2>3. \A i \in Ids : (i \in DOMAIN adapters' \/ Filling(i)')
                       <=> (i \in DOMAIN adapters \/ Filling(i))
    BY <1>5, <2>1, <2>2 DEF Filling, At
  <2>4. \A i \in DOMAIN adapters' \ {Echo} : adapters'[i].type = backends'[i].type
    BY <1>3, <2>1, <2>2 DEF AdaptersMatch, NoTable
  <2>5. \A g \in Handlers : At(g, {"fill"})' =>
            \A i \in DOMAIN handler'[g].rows \ {Echo} :
                handler'[g].rows[i].type = backends'[i].type
    BY <1>3, <1>5, <2>1, <2>2 DEF AdaptersMatch, NoTable, At
  <2> QED
    BY <1>3, <2>1, <2>3, <2>4, <2>5 DEF AdaptersMatch, Loads, NoTable
<1>9. CASE Connects(h)
  <2>1. /\ At(h, {"fill"}) /\ ~At(h, {"fill"})' /\ DOMAIN handler[h].rows = {}
        /\ UNCHANGED adapters /\ AdaptersMatch
    BY <1>3, <1>4, <1>9 DEF Connects, Lists, Continues, At, Pending
  <2>2. \A i \in Ids : Filling(i)' <=> Filling(i)
    BY <1>5, <2>1 DEF Filling, At
  <2> QED
    BY <1>3, <1>5, <2>1, <2>2 DEF AdaptersMatch, Loads, NoTable, At
<1>10. CASE Finishes(h)
  <2>1. ~At(h, {"fill"}) /\ ~At(h, {"fill"})' /\ AdaptersMatch
    BY <1>3, <1>4, <1>10 DEF Finishes, Lists, Idle, At, Pending
  <2>2. /\ DOMAIN adapters' = DOMAIN adapters \cup {Echo}
        /\ \A i \in DOMAIN adapters : i # Echo => adapters'[i] = adapters[i]
    BY <1>10 DEF Finishes
  <2>3. \A i \in Ids : Filling(i)' <=> Filling(i)
    BY <1>5, <2>1 DEF Filling, At
  <2>4. Echo \notin Ids
    BY RegistryAssumption
  <2> QED
    BY <1>3, <1>5, <2>1, <2>2, <2>3, <2>4 DEF AdaptersMatch, Loads, NoTable, At
<1> QED
  BY <1>2, <1>6, <1>7, <1>8, <1>9, <1>10 DEF Advances

LEMMA ConnectionsStep ==
    ASSUME RegInv, NEW h \in Handlers, Advances(h), OthersWait(h),
           ~failed => \/ \E g \in Handlers : Pending(g) \/ At(g, {"fill"})
                      \/ conns = DOMAIN botRows,
           ~failed', ~\E g \in Handlers : Pending(g)' \/ At(g, {"fill"})'
    PROVE  conns' = DOMAIN botRows'
<1>1. ~Pending(h)' /\ ~At(h, {"fill"})'
  OBVIOUS
<1>2. \A g \in Handlers : g # h => ~Pending(g) /\ ~At(g, {"fill"})
  BY DEF Pending, At, OthersWait
<1>3. Reads(h) \/ Writes(h) \/ Connects(h) \/ Finishes(h)
  BY <1>1 DEF Pending, At, Advances, Creates, Removes, GetsBot, SavesBot, DropsBot,
              DeletesBot, Empties, Lists, Fills, Continues
<1>4. CASE Reads(h) \/ Writes(h) \/ Finishes(h)
  <2>1. ~Pending(h) /\ ~At(h, {"fill"}) /\ UNCHANGED <<conns, botRows, failed>>
    BY <1>4 DEF Reads, Comes, Writes, Finishes, Pending, At, NoTable, NoFactory
  <2> QED
    BY <1>2, <2>1
<1>5. CASE Connects(h)
  BY <1>5 DEF Connects, NoTable
<1> QED
  BY <1>3, <1>4, <1>5

LEMMA FactoryStep == RegInv /\ FactoryInv /\ [RegistryNext]_registryVars => FactoryInv'
<1> SUFFICES ASSUME RegInv, FactoryInv, [RegistryNext]_registryVars PROVE FactoryInv'
  OBVIOUS
<1>1. CASE UNCHANGED registryVars
  BY <1>1 DEF registryVars, FactoryInv, EmptyAtList, AdaptersMatch, Loads, Filling,
              Pending, At
<1>2. CASE Restarts
  <2>1. \A h \in Handlers : handler'[h].at = "idle"
    BY <1>2 DEF Restarts, Idle
  <2>2. ~failed' => conns' = DOMAIN botRows'
    BY <1>2 DEF Restarts
  <2>3. EmptyAtList' /\ \A h \in Handlers : ~At(h, {"fill"})'
    BY <2>1 DEF EmptyAtList, At
  <2>4. ~failed' => AdaptersMatch'
    <3> SUFFICES ASSUME ~failed' PROVE AdaptersMatch'
      OBVIOUS
    <3>1. /\ \A id \in DOMAIN backends' : Loads(id)' => id \in DOMAIN adapters'
          /\ \A id \in DOMAIN adapters' \ {Echo} :
                 Loads(id)' /\ adapters'[id].type = backends'[id].type
      BY <1>2 DEF Restarts
    <3>2. \A id : Loads(id)' => id \in DOMAIN backends'
      BY DEF Loads
    <3>3. \A id \in Ids : Loads(id)' <=> (id \in DOMAIN adapters' \/ Filling(id)')
      BY <2>3, <3>1, <3>2, RegistryAssumption DEF Filling
    <3> QED
      BY <2>3, <3>1, <3>3 DEF AdaptersMatch
  <2> QED
    BY <2>2, <2>3, <2>4 DEF FactoryInv
<1>3. ASSUME NEW h \in Handlers, Advances(h), OthersWait(h) PROVE FactoryInv'
  BY <1>3, EmptyStep, AdaptersStep, ConnectionsStep DEF FactoryInv
<1> QED
  BY <1>1, <1>2, <1>3, RegistryKinds

\* Once no request is in progress, the factory holds an adapter of the right type for
\* each enabled backend of a known type and for no other (but echo), and a connection
\* for each virtual bot, unless a listing failed at boot or in the last refill or a
\* removal ended halfway since: each request writes before it reloads, and the last
\* reload lists after every write.
THEOREM FactoryFollowsTables == RegistrySpec => []FactoryMatchesTables
<1>1. RegInv /\ FactoryInv => FactoryMatchesTables
  <2> SUFFICES ASSUME RegInv, FactoryInv, Quiet, ~failed
               PROVE  /\ [id \in DOMAIN adapters \ {Echo} |-> adapters[id].type]
                           = [id \in DOMAIN Loadable(backends) \ {Echo} |->
                                 backends[id].type]
                      /\ conns = DOMAIN botRows
    BY DEF FactoryMatchesTables
  <2>1. \A h \in Handlers : handler[h].at = "idle"
    BY DEF Quiet, Idle
  <2>2. AdaptersMatch /\ conns = DOMAIN botRows /\ \A id \in Ids : ~Filling(id)
    BY <2>1 DEF FactoryInv, Pending, At, Filling
  <2>3. /\ DOMAIN Loadable(backends) = {id \in DOMAIN backends : Loads(id)}
        /\ \A id : Loads(id) => id \in DOMAIN backends
    BY DEF Loadable, Loads
  <2>4. DOMAIN adapters \ {Echo} \subseteq Ids /\ DOMAIN backends \ {Echo} \subseteq Ids
        /\ Echo \notin Ids
    BY RegistryAssumption DEF RegInv, TableTypes, MemoryTypes, All
  <2>5. DOMAIN adapters \ {Echo} = DOMAIN Loadable(backends) \ {Echo}
    BY <2>2, <2>3, <2>4 DEF AdaptersMatch
  <2>6. \A id \in DOMAIN adapters \ {Echo} : adapters[id].type = backends[id].type
    BY <2>2 DEF AdaptersMatch
  <2> QED
    BY <2>2, <2>5, <2>6
<1> QED
  BY <1>1, RegistryInvariant, FactoryInit, FactoryStep, PTL DEF RegistrySpec

-----------------------------------------------------------------------------
(* An enabled backend is missing for a reason                                  *)

\* Request h is on its way to register every enabled backend it can.
Renews(h) == At(h, {"bot", "save", "reload", "list"})

MissingInv ==
    ~failed => \A id \in All : Loads(id) =>
        \/ id \in DOMAIN adapters
        \/ Filling(id)
        \/ \E h \in Handlers : Renews(h)

LEMMA MissingInit == Init => MissingInv
<1> SUFFICES ASSUME Init PROVE MissingInv
  OBVIOUS
<1>1. DOMAIN adapters = {Echo} /\ DOMAIN backends = {Echo}
  BY FirstFacts DEF Init
<1> QED
  BY <1>1 DEF MissingInv, Loads

LEMMA MissingRequest ==
    ASSUME RegInv, MissingInv, NEW h \in Handlers, Advances(h), OthersWait(h),
           ~failed', ~\E g \in Handlers : Renews(g)', NEW id \in All, Loads(id)'
    PROVE  id \in DOMAIN adapters' \/ Filling(id)'
<1>1. ~Renews(h)' /\ \A g \in Handlers : g # h => ~Renews(g)
  BY DEF Renews, At, OthersWait
<1>2. ~Creates(h) /\ ~GetsBot(h) /\ ~SavesBot(h) /\ ~DeletesBot(h) /\ ~Empties(h)
  BY <1>1 DEF Renews, At, Creates, GetsBot, SavesBot, DeletesBot, Empties, Continues
<1>3. \A g \in Handlers : g # h => handler'[g] = handler[g]
  BY DEF OthersWait
<1>4. Lists(h) \/ ~failed
  BY <1>2 DEF Advances, Reads, Removes, Comes, DropsBot, Writes, Lists, Fills, Connects,
              Finishes
<1>5. CASE Reads(h) \/ Removes(h) \/ DropsBot(h) \/ Writes(h)
  <2>1. ~Renews(h) /\ ~At(h, {"fill"}) /\ NoFactory
    BY <1>5 DEF Reads, Removes, Comes, DropsBot, Writes, Renews, At
  <2>2. backends' = backends \/ backends' = Without(backends, handler'[h].id)
    BY <1>1, <1>5 DEF Reads, Removes, DropsBot, Writes, NoTable, Renews, At, Continues
  <2>3. Loads(id)
    BY <2>2 DEF Loads, Without
  <2>4. id \in DOMAIN adapters \/ Filling(id)
    BY <1>1, <1>4, <1>5, <2>1, <2>3 DEF MissingInv, Reads, Removes, Comes, DropsBot,
       Writes, Lists
  <2>5. Filling(id) => Filling(id)'
    BY <1>3, <2>1 DEF Filling, At
  <2> QED
    BY <2>1, <2>4, <2>5 DEF NoFactory
<1>6. CASE Lists(h)
  <2>1. /\ At(h, {"fill"})' /\ UNCHANGED backends
        /\ DOMAIN handler'[h].rows = {i \in DOMAIN backends : Loads(i)}
    BY <1>6 DEF Lists, Continues, At, NoTable
  <2> QED
    BY <2>1 DEF Filling, Loads
<1>7. CASE Fills(h)
  <2>1. PICK i \in DOMAIN handler[h].rows :
            /\ DOMAIN adapters' = DOMAIN adapters \cup {i}
            /\ DOMAIN handler'[h].rows = DOMAIN handler[h].rows \ {i}
    BY <1>7 DEF Fills, Without
  <2>2. At(h, {"fill"}) /\ At(h, {"fill"})' /\ ~Renews(h) /\ UNCHANGED backends
    BY <1>7 DEF Fills, Continues, At, Renews, NoTable
  <2>3. id \in DOMAIN adapters \/ Filling(id)
    BY <1>1, <1>4, <1>7, <2>2 DEF MissingInv, Loads, Fills, Lists
  <2> QED
    BY <1>3, <2>1, <2>2, <2>3 DEF Filling, At
<1>8. CASE Connects(h) \/ Finishes(h)
  <2>1. /\ ~Renews(h) /\ UNCHANGED backends
        /\ At(h, {"fill"}) => DOMAIN handler[h].rows = {}
        /\ DOMAIN adapters \subseteq DOMAIN adapters'
    BY <1>8 DEF Connects, Finishes, At, Renews, NoTable
  <2>2. id \in DOMAIN adapters \/ Filling(id)
    BY <1>1, <1>4, <1>8, <2>1 DEF MissingInv, Loads, Connects, Finishes, Lists
  <2> QED
    BY <1>3, <2>1, <2>2 DEF Filling, At
<1> QED
  BY <1>2, <1>5, <1>6, <1>7, <1>8 DEF Advances

LEMMA MissingStep == RegInv /\ MissingInv /\ [RegistryNext]_registryVars => MissingInv'
<1> SUFFICES ASSUME RegInv, MissingInv, [RegistryNext]_registryVars PROVE MissingInv'
  OBVIOUS
<1>1. CASE UNCHANGED registryVars
  BY <1>1 DEF registryVars, MissingInv, Loads, Filling, Renews, At
<1>2. CASE Restarts
  BY <1>2 DEF Restarts, MissingInv, Loads
<1>3. ASSUME NEW h \in Handlers, Advances(h), OthersWait(h) PROVE MissingInv'
  BY <1>3, MissingRequest DEF MissingInv
<1> QED
  BY <1>1, <1>2, <1>3, RegistryKinds

\* The pipeline finds every enabled backend of a known type in the factory but while a
\* refill is under way or sure to come, or after a listing failed (at boot or in the
\* last refill) or a removal ended halfway since: no order of creates, updates,
\* removals and refills loses one.
THEOREM NoBackendIsLost == RegistrySpec => []MissingHasACause
<1>1. RegInv /\ MissingInv => MissingHasACause
  <2> SUFFICES ASSUME RegInv, MissingInv, NEW id \in DOMAIN EnabledRows(backends),
                      id \notin DOMAIN adapters, ~failed, mu = NoOne,
                      backends[id].type \in Known
               PROVE  \E h \in Handlers : handler[h].at \in {"bot", "save", "reload"}
    BY DEF MissingHasACause
  <2>1. Loads(id) /\ id \in All
    BY DEF EnabledRows, Loads, RegInv, TableTypes
  <2>2. \A h \in Handlers : ~At(h, {"list", "fill"})
    BY RegistryAssumption DEF RegInv, MutexHeld, At
  <2> QED
    BY <2>1, <2>2 DEF MissingInv, Filling, Renews, At
<1> QED
  BY <1>1, RegistryInvariant, MissingInit, MissingStep, PTL DEF RegistrySpec

-----------------------------------------------------------------------------
(* The bots follow their table                                                 *)

\* Request h was the last to change the bot of its id.
Last(h) == changedBy[handler[h].id] = h

\* The last request to register or remove the bot of an id, until it writes the row,
\* knows what the bot is; where no request is to write it, the row is as the bot is,
\* but for the ids whose row was left outdated.
BotsInv ==
    /\ \A h \in Handlers :
           /\ At(h, {"save"}) /\ Last(h) =>
                  handler[h].id \in DOMAIN bots /\ bots[handler[h].id] = handler[h].token
           /\ At(h, {"delete"}) /\ Last(h) => handler[h].id \notin DOMAIN bots
    /\ \A id \in Ids \ outdated :
           \/ Agree(id)
           \/ \E h \in Handlers : At(h, {"save", "delete"}) /\ handler[h].id = id

LEMMA BotsInit == Init => BotsInv
<1> SUFFICES ASSUME Init PROVE BotsInv
  OBVIOUS
<1>1. DOMAIN bots = {} /\ DOMAIN botRows = {}
  BY NothingFacts DEF Init
<1>2. \A h \in Handlers : handler[h].at = "idle"
  BY DEF Init, Idle
<1> QED
  BY <1>1, <1>2 DEF BotsInv, Agree, At

\* A request that registers or removes a bot overtakes those yet to write its row.
LEMMA BotsChange ==
    ASSUME RegInv, BotsInv, NEW h \in Handlers, GetsBot(h) \/ DropsBot(h), OthersWait(h)
    PROVE  BotsInv'
<1> PICK i : i = handler[h].id
  OBVIOUS
<1>1. \A g \in Handlers : g # h => handler'[g] = handler[g]
  BY DEF OthersWait
<1>2. /\ ~At(h, {"save", "delete"}) /\ At(h, {"save", "delete"})' /\ handler'[h].id = i
      /\ UNCHANGED <<botRows, outdated>>
  BY DEF GetsBot, DropsBot, Continues, At, NoTable, Changing
<1>3. /\ i \in All
      /\ changedBy \in [All -> Handlers \cup {NoOne}]
      /\ \A g \in Handlers : At(g, {"save", "delete"}) => handler[g].id \in All
  BY DEF RegInv, MemoryTypes, RequestTypes, RequestOK, GetsBot, DropsBot, At
<1>4. /\ changedBy'[i] = h
      /\ \A id \in All : id # i => changedBy'[id] = changedBy[id]
  BY <1>3 DEF GetsBot, DropsBot, Changing, ChangesBot
<1>5. /\ \A j : j # i => (j \in DOMAIN bots' <=> j \in DOMAIN bots)
      /\ \A j \in DOMAIN bots : j # i => bots'[j] = bots[j]
  BY DEF GetsBot, DropsBot, Put, Without
<1>6. /\ At(h, {"save"})' => i \in DOMAIN bots' /\ bots'[i] = handler'[h].token
      /\ At(h, {"delete"})' => i \notin DOMAIN bots'
  BY DEF GetsBot, DropsBot, Continues, At, Put, Without
<1>7. ASSUME NEW g \in Handlers
      PROVE  /\ At(g, {"save"})' /\ Last(g)' =>
                    /\ handler'[g].id \in DOMAIN bots'
                    /\ bots'[handler'[g].id] = handler'[g].token
             /\ At(g, {"delete"})' /\ Last(g)' => handler'[g].id \notin DOMAIN bots'
  <2>1. CASE g = h
    BY <1>2, <1>6, <2>1
  <2>2. CASE g # h
    <3>1. At(g, {"save", "delete"})' /\ Last(g)' =>
              handler[g].id # i /\ Last(g) /\ handler[g].id \in All
      BY <1>1, <1>3, <1>4, <2>2 DEF At, Last
    <3> QED
      BY <1>1, <1>5, <2>2, <3>1 DEF At, BotsInv
  <2> QED
    BY <2>1, <2>2
<1>8. ASSUME NEW id \in Ids \ outdated
      PROVE  \/ Agree(id)'
             \/ \E g \in Handlers : At(g, {"save", "delete"})' /\ handler'[g].id = id
  <2>1. CASE id = i
    BY <1>2, <2>1
  <2>2. CASE id # i
    <3>1. Agree(id) => Agree(id)'
      BY <1>2, <1>5, <2>2 DEF Agree
    <3>2. \A g \in Handlers : At(g, {"save", "delete"}) =>
              At(g, {"save", "delete"})' /\ handler'[g].id = handler[g].id
      BY <1>1, <1>2 DEF At
    <3> QED
      BY <3>1, <3>2 DEF BotsInv
  <2> QED
    BY <2>1, <2>2
<1> QED
  BY <1>2, <1>7, <1>8 DEF BotsInv

\* The last one writes the row as the bot is; one that was overtaken, or fails, leaves
\* it outdated.
LEMMA BotsWritten ==
    ASSUME RegInv, BotsInv, NEW h \in Handlers, SavesBot(h) \/ DeletesBot(h), OthersWait(h)
    PROVE  BotsInv'
<1> PICK i : i = handler[h].id
  OBVIOUS
<1>1. \A g \in Handlers : g # h => handler'[g] = handler[g]
  BY DEF OthersWait
<1>2. /\ At(h, {"save", "delete"}) /\ ~At(h, {"save", "delete"})'
      /\ UNCHANGED bots
  BY WritesRow DEF At, NoBots
<1>3. /\ \A j : j # i => (j \in DOMAIN botRows' <=> j \in DOMAIN botRows)
      /\ \A j \in DOMAIN botRows : j # i => botRows'[j] = botRows[j]
  BY WritesRow DEF Put, Without
<1>4. \/ Settle(h, TRUE) /\ At(h, {"save"})
         /\ botRows' = Put(botRows, i, handler[h].token)
      \/ Settle(h, TRUE) /\ At(h, {"delete"})
         /\ botRows' = Without(botRows, i)
      \/ Settle(h, FALSE)
  BY WritesRow DEF At
<1>8. ASSUME NEW g \in Handlers, NEW id \in All, g # h, changedBy'[id] = g
      PROVE  changedBy[id] = g
  <2>1. g # NoOne /\ changedBy \in [All -> Handlers \cup {NoOne}]
    BY RegistryAssumption DEF RegInv, MemoryTypes
  <2>2. \/ changedBy' = changedBy
        \/ changedBy' = [changedBy EXCEPT ![i] = NoOne]
    BY <1>4 DEF Settle
  <2> QED
    BY <1>8, <2>1, <2>2
<1>5. \/ outdated' = outdated \cup {i}
      \/ outdated' = outdated \ {i} /\ Agree(i)'
  <2>1. CASE ~Last(h) \/ Settle(h, FALSE)
    BY <1>4, <2>1 DEF Settle, Last
  <2>2. CASE Last(h) /\ ~Settle(h, FALSE)
    <3>1. outdated' = outdated \ {i}
      BY <1>4, <2>2 DEF Settle, Last
    <3>2. CASE At(h, {"save"}) /\ botRows' = Put(botRows, i, handler[h].token)
      <4>1. i \in DOMAIN bots /\ bots[i] = handler[h].token
        BY <2>2, <3>2 DEF BotsInv
      <4>2. i \in DOMAIN botRows' /\ botRows'[i] = handler[h].token
        BY <3>2 DEF Put
      <4> QED
        BY <1>2, <3>1, <4>1, <4>2 DEF Agree
    <3>3. CASE At(h, {"delete"}) /\ botRows' = Without(botRows, i)
      <4>1. i \notin DOMAIN bots
        BY <2>2, <3>3 DEF BotsInv
      <4>2. i \notin DOMAIN botRows'
        BY <3>3 DEF Without
      <4> QED
        BY <1>2, <3>1, <4>1, <4>2 DEF Agree
    <3> QED
      BY <1>4, <2>2, <3>2, <3>3
  <2> QED
    BY <2>1, <2>2
<1>6. ASSUME NEW g \in Handlers
      PROVE  /\ At(g, {"save"})' /\ Last(g)' =>
                    /\ handler'[g].id \in DOMAIN bots'
                    /\ bots'[handler'[g].id] = handler'[g].token
             /\ At(g, {"delete"})' /\ Last(g)' => handler'[g].id \notin DOMAIN bots'
  <2>1. CASE g = h
    BY <1>2, <2>1 DEF At
  <2>2. CASE g # h
    <3>1. At(g, {"save", "delete"}) => handler[g].id \in All
      BY DEF RegInv, RequestTypes, RequestOK, At, All
    <3>2. At(g, {"save", "delete"}) /\ Last(g)' => Last(g)
      BY <1>1, <1>8, <2>2, <3>1 DEF Last
    <3> QED
      BY <1>1, <1>2, <2>2, <3>2 DEF At, BotsInv
  <2> QED
    BY <2>1, <2>2
<1>7. ASSUME NEW id \in Ids \ outdated'
      PROVE  \/ Agree(id)'
             \/ \E g \in Handlers : At(g, {"save", "delete"})' /\ handler'[g].id = id
  <2>1. CASE id = i
    BY <1>5, <2>1
  <2>2. CASE id # i
    <3>1. id \in Ids \ outdated
      BY <1>5, <2>2
    <3>2. Agree(id) => Agree(id)'
      BY <1>2, <1>3, <2>2 DEF Agree
    <3>3. \A g \in Handlers : At(g, {"save", "delete"}) /\ handler[g].id = id =>
              At(g, {"save", "delete"})' /\ handler'[g].id = id
      BY <1>1, <2>2 DEF At
    <3> QED
      BY <3>1, <3>2, <3>3 DEF BotsInv
  <2> QED
    BY <2>1, <2>2
<1> QED
  BY <1>6, <1>7 DEF BotsInv

LEMMA BotsStep == RegInv /\ BotsInv /\ [RegistryNext]_registryVars => BotsInv'
<1> SUFFICES ASSUME RegInv, BotsInv, [RegistryNext]_registryVars PROVE BotsInv'
  OBVIOUS
<1>1. CASE UNCHANGED registryVars
  BY <1>1 DEF registryVars, BotsInv, Agree, At, Last
<1>2. CASE Restarts
  <2>1. \A h \in Handlers : handler'[h].at = "idle"
    BY <1>2 DEF Restarts, Idle
  <2>2. \A id \in Ids \ outdated' : Agree(id)'
    BY <1>2, NothingFacts DEF Restarts, Agree
  <2> QED
    BY <2>1, <2>2 DEF BotsInv, At
<1>3. ASSUME NEW h \in Handlers, Advances(h), OthersWait(h) PROVE BotsInv'
  <2>1. CASE GetsBot(h) \/ DropsBot(h)
    BY <1>3, <2>1, BotsChange
  <2>2. CASE SavesBot(h) \/ DeletesBot(h)
    BY <1>3, <2>2, BotsWritten
  <2>3. CASE ~(GetsBot(h) \/ DropsBot(h) \/ SavesBot(h) \/ DeletesBot(h))
    <3>1. /\ ~At(h, {"save", "delete"}) /\ ~At(h, {"save", "delete"})'
          /\ UNCHANGED <<bots, botRows, changedBy, outdated>>
      BY <1>3, <2>3 DEF Advances, Creates, Reads, Removes, Comes, Writes, Empties, Lists,
         Fills, Connects, Finishes, Serving, NoBots, NoTable, At, Continues, Idle
    <3>2. \A g \in Handlers :
              At(g, {"save", "delete"}) \/ At(g, {"save", "delete"})' =>
                  handler'[g] = handler[g]
      BY <1>3, <3>1 DEF OthersWait
    <3>3. \A id : Agree(id)' <=> Agree(id)
      BY <3>1 DEF Agree
    <3> QED
      BY <3>1, <3>2, <3>3 DEF BotsInv, At, Last
  <2> QED
    BY <2>1, <2>2, <2>3
<1> QED
  BY <1>1, <1>2, <1>3, RegistryKinds

\* Once no request is in progress, the bots that can authenticate are those of the
\* table with the tokens of the table, but for the backends where the last write of the
\* row failed or was of a request that had been overtaken, and until a restart those
\* that could not be read at boot: nothing else parts them, and the next request for
\* such a backend that is not overtaken repairs it.
THEOREM BotsFollowTable == RegistrySpec => []BotsMatchRows
<1>1. BotsInv => BotsMatchRows
  BY DEF BotsInv, BotsMatchRows, Quiet, At, Idle
<1> QED
  BY <1>1, RegistryInvariant, BotsInit, BotsStep, PTL DEF RegistrySpec

-----------------------------------------------------------------------------
(* Tokens                                                                      *)

AtBot == {h \in Handlers : At(h, {"bot"})}

\* A request generates at most one token, and those about to generate one have not.
CountInv ==
    /\ IsFiniteSet(AtBot)
    /\ nextToken - 1 + Cardinality(AtBot) <= requests

\* The token t was given to the bot of id: it is in the registry, in the table, or in
\* the hand of a request that will save it.
Owns(id, t) ==
    \/ id \in DOMAIN bots /\ bots[id] = t
    \/ id \in DOMAIN botRows /\ botRows[id] = t
    \/ \E h \in Handlers : At(h, {"save"}) /\ handler[h].id = id /\ handler[h].token = t

\* No token is given to two ids.
OwnersInv ==
    /\ \A id \in Ids : \A t : Owns(id, t) => t \in 1..nextToken - 1
    /\ \A i, j \in Ids : \A t : Owns(i, t) /\ Owns(j, t) => i = j

TokenInv == CountInv /\ OwnersInv

LEMMA TokenInit == Init => TokenInv
<1> SUFFICES ASSUME Init PROVE TokenInv
  OBVIOUS
<1>1. \A h \in Handlers : handler[h].at = "idle"
  BY DEF Init, Idle
<1>2. AtBot = {} /\ DOMAIN bots = {} /\ DOMAIN botRows = {}
  BY <1>1, NothingFacts DEF AtBot, At, Init
<1>3. IsFiniteSet(AtBot) /\ Cardinality(AtBot) = 0
  BY <1>2, FS_EmptySet
<1>4. nextToken = 1 /\ requests = 0
  BY DEF Init
<1>5. CountInv
  BY <1>3, <1>4 DEF CountInv
<1>6. OwnersInv
  BY <1>1, <1>2 DEF OwnersInv, Owns, At
<1> QED
  BY <1>5, <1>6 DEF TokenInv

\* A step of a request gives out no token but the next one.
LEMMA OwnsStep ==
    ASSUME RegInv, NEW h \in Handlers, Advances(h), OthersWait(h)
    PROVE  /\ nextToken' = nextToken \/ nextToken' = nextToken + 1
           /\ \A id \in DOMAIN bots' :
                  \/ id \in DOMAIN bots /\ bots'[id] = bots[id]
                  \/ id = handler[h].id /\ bots'[id] = nextToken
                     /\ nextToken' = nextToken + 1
           /\ \A id \in Ids : \A t : Owns(id, t)' =>
                  \/ Owns(id, t)
                  \/ id = handler[h].id /\ t = nextToken /\ nextToken' = nextToken + 1
<1> DEFINE i == handler[h].id
<1>1. \A g \in Handlers : g # h => handler'[g] = handler[g]
  BY DEF OthersWait
<1>2. CASE GetsBot(h)
  <2>1. /\ At(h, {"save"})' /\ handler'[h].id = i /\ UNCHANGED botRows
        /\ DOMAIN bots' = DOMAIN bots \cup {i} /\ bots'[i] = handler'[h].token
        /\ \A j \in DOMAIN bots : j # i => bots'[j] = bots[j]
        /\ \/ /\ i \in DOMAIN bots /\ handler'[h].token = bots[i]
              /\ UNCHANGED nextToken
           \/ handler'[h].token = nextToken /\ nextToken' = nextToken + 1
    BY <1>2 DEF GetsBot, Continues, At, NoTable, Put
  <2> QED
    BY <1>1, <2>1 DEF Owns, At
<1>3. CASE SavesBot(h)
  <2>1. /\ At(h, {"save"}) /\ ~At(h, {"save"})' /\ UNCHANGED <<bots, nextToken>>
        /\ \/ /\ DOMAIN botRows' = DOMAIN botRows \cup {i}
              /\ botRows'[i] = handler[h].token
              /\ \A j \in DOMAIN botRows : j # i => botRows'[j] = botRows[j]
           \/ UNCHANGED botRows
    BY <1>3 DEF SavesBot, Continues, At, NoBots, Put
  <2> QED
    BY <1>1, <2>1 DEF Owns, At
<1>4. CASE DropsBot(h)
  <2>1. /\ ~At(h, {"save"})' /\ UNCHANGED nextToken
        /\ DOMAIN bots' \subseteq DOMAIN bots
        /\ \A j \in DOMAIN bots' : bots'[j] = bots[j]
        /\ DOMAIN botRows' \subseteq DOMAIN botRows
        /\ \A j \in DOMAIN botRows' : botRows'[j] = botRows[j]
    BY <1>4 DEF DropsBot, Continues, At, NoTable, Without
  <2> QED
    BY <1>1, <2>1 DEF Owns, At
<1>6. CASE DeletesBot(h)
  <2>1. ~At(h, {"save"})' /\ NoBots
    BY <1>6, WritesRow DEF At
  <2>2. botRows' = Without(botRows, i) \/ UNCHANGED botRows
    BY <1>6 DEF DeletesBot
  <2>3. /\ DOMAIN botRows' \subseteq DOMAIN botRows
        /\ \A j \in DOMAIN botRows' : botRows'[j] = botRows[j]
    BY <2>2 DEF Without
  <2> QED
    BY <1>1, <2>1, <2>3 DEF Owns, At, NoBots
<1>5. CASE ~GetsBot(h) /\ ~SavesBot(h) /\ ~DropsBot(h) /\ ~DeletesBot(h)
  <2>1. ~At(h, {"save"})' /\ NoBots /\ UNCHANGED botRows
    BY <1>5 DEF Advances, Creates, Reads, Removes, Comes, Writes, Empties, Lists, Fills,
                Connects, Finishes, Continues, At, NoTable, Idle
  <2> QED
    BY <1>1, <2>1 DEF Owns, At, NoBots
<1> QED
  BY <1>2, <1>3, <1>4, <1>5, <1>6

LEMMA CountStep ==
    ASSUME RegInv, CountInv, NEW h \in Handlers, Advances(h), OthersWait(h)
    PROVE  CountInv'
<1>1. \A g \in Handlers : g # h => handler'[g] = handler[g]
  BY DEF OthersWait
<1>2. nextToken \in Nat \ {0} /\ requests \in Nat
  BY RegistryAssumption DEF RegInv, MemoryTypes, RequestTypes
<1>3. IsFiniteSet(AtBot) /\ Cardinality(AtBot) \in Nat
  BY FS_CardinalityType DEF CountInv
<1>4. CASE At(h, {"bot"})
  <2>1. GetsBot(h)
    BY <1>4 DEF At, Advances, Creates, Reads, Removes, Comes, SavesBot, DropsBot,
                DeletesBot, Writes, Empties, Lists, Fills, Connects, Finishes
  <2>2. AtBot' = AtBot \ {h} /\ h \in AtBot
    BY <1>1, <1>4, <2>1 DEF AtBot, At, GetsBot, Continues
  <2>3. IsFiniteSet(AtBot') /\ Cardinality(AtBot') = Cardinality(AtBot) - 1
    BY <1>3, <2>2, FS_RemoveElement
  <2>4. nextToken' = nextToken \/ nextToken' = nextToken + 1
    BY <2>1 DEF GetsBot
  <2>5. UNCHANGED requests
    BY <2>1 DEF GetsBot, Changing
  <2> QED
    BY <1>2, <1>3, <2>3, <2>4, <2>5 DEF CountInv
<1>5. CASE ~At(h, {"bot"})
  <2>1. UNCHANGED nextToken
    BY <1>5 DEF At, Advances, Creates, Reads, Removes, Comes, GetsBot, SavesBot, DropsBot,
                DeletesBot, Writes, Empties, Lists, Fills, Connects, Finishes, NoBots
  <2>2. CASE Creates(h)
    <3>1. requests' = requests + 1
      BY <2>2 DEF Creates, Comes
    <3>2. AtBot' = AtBot \/ (AtBot' = AtBot \cup {h} /\ h \notin AtBot)
      BY <1>1, <1>5 DEF AtBot, At
    <3>3. IsFiniteSet(AtBot') /\ Cardinality(AtBot') <= Cardinality(AtBot) + 1
          /\ Cardinality(AtBot') \in Nat
      <4>1. CASE AtBot' = AtBot
        BY <1>3, <4>1
      <4>2. CASE AtBot' = AtBot \cup {h} /\ h \notin AtBot
        <5>1. /\ IsFiniteSet(AtBot \cup {h})
              /\ Cardinality(AtBot \cup {h}) = Cardinality(AtBot) + 1
          BY <1>3, <4>2, FS_AddElement
        <5> QED
          BY <1>3, <4>2, <5>1
      <4> QED
        BY <3>2, <4>1, <4>2
    <3> QED
      BY <1>2, <1>3, <2>1, <3>1, <3>3 DEF CountInv
  <2>3. CASE ~Creates(h)
    <3>1. ~At(h, {"bot"})'
      <4>1. CASE SavesBot(h) \/ DeletesBot(h)
        BY <4>1, WritesRow DEF At
      <4>2. CASE ~SavesBot(h) /\ ~DeletesBot(h)
        BY <1>5, <2>3, <4>2 DEF At, Advances, Reads, Removes, GetsBot, DropsBot, Writes,
           Empties, Lists, Fills, Connects, Finishes, Continues, Idle
      <4> QED
        BY <4>1, <4>2
    <3>2. AtBot' = AtBot
      BY <1>1, <1>5, <3>1 DEF AtBot, At
    <3>3. requests' \in Nat /\ requests' >= requests
      <4>1. CASE SavesBot(h) \/ DeletesBot(h)
        <5>1. requests' = requests
          BY <4>1, WritesRow
        <5> QED
          BY <1>2, <5>1
      <4>2. CASE ~SavesBot(h) /\ ~DeletesBot(h)
        BY <1>2, <2>3, <4>2 DEF Advances, Reads, Removes, Comes, GetsBot, DropsBot,
           Writes, Empties, Lists, Fills, Connects, Finishes, Serving, Changing
      <4> QED
        BY <4>1, <4>2
    <3> QED
      BY <1>2, <1>3, <2>1, <3>2, <3>3 DEF CountInv
  <2> QED
    BY <2>2, <2>3
<1> QED
  BY <1>4, <1>5

LEMMA TokenStep == RegInv /\ TokenInv /\ [RegistryNext]_registryVars => TokenInv'
<1> SUFFICES ASSUME RegInv, TokenInv, [RegistryNext]_registryVars PROVE TokenInv'
  OBVIOUS
<1>1. nextToken \in Nat \ {0} /\ requests \in Nat
  BY RegistryAssumption DEF RegInv, MemoryTypes, RequestTypes
<1>2. CASE UNCHANGED registryVars
  <2>1. AtBot' = AtBot
    BY <1>2 DEF AtBot, At, registryVars
  <2> QED
    BY <1>2, <2>1 DEF TokenInv, CountInv, OwnersInv, Owns, At, registryVars
<1>3. CASE Restarts
  <2>1. /\ \A h \in Handlers : handler'[h].at = "idle"
        /\ bots' = botRows \/ DOMAIN bots' = {}
        /\ UNCHANGED <<botRows, nextToken, requests>>
    BY <1>3, NothingFacts DEF Restarts, Idle
  <2>2. AtBot' = {}
    BY <2>1 DEF AtBot, At
  <2>3. IsFiniteSet(AtBot') /\ Cardinality(AtBot') = 0
    BY <2>2, FS_EmptySet
  <2>4. Cardinality(AtBot) \in Nat
    BY FS_CardinalityType DEF TokenInv, CountInv
  <2>5. CountInv'
    BY <1>1, <2>1, <2>3, <2>4 DEF TokenInv, CountInv
  <2>6. \A id \in Ids : \A t : Owns(id, t)' => Owns(id, t)
    BY <2>1 DEF Owns, At
  <2> QED
    BY <2>1, <2>5, <2>6 DEF TokenInv, OwnersInv
<1>4. ASSUME NEW h \in Handlers, Advances(h), OthersWait(h) PROVE TokenInv'
  <2>1. /\ nextToken' = nextToken \/ nextToken' = nextToken + 1
        /\ \A id \in Ids : \A t : Owns(id, t)' =>
               \/ Owns(id, t)
               \/ id = handler[h].id /\ t = nextToken /\ nextToken' = nextToken + 1
    BY <1>4, OwnsStep
  <2>2. \A id \in Ids : \A t : Owns(id, t)' => t \in 1..nextToken' - 1
    BY <1>1, <2>1 DEF TokenInv, OwnersInv
  <2>3. \A i, j \in Ids : \A t : Owns(i, t)' /\ Owns(j, t)' => i = j
    BY <1>1, <2>1 DEF TokenInv, OwnersInv
  <2> QED
    BY <1>4, <2>2, <2>3, CountStep DEF TokenInv, OwnersInv
<1> QED
  BY <1>2, <1>3, <1>4, RegistryKinds

\* A token that was given out is within the bound.
LEMMA TokensBounded ==
    ASSUME RegInv, TokenInv
    PROVE  /\ \A id \in Ids : \A t : Owns(id, t) => t \in Tokens
           /\ nextToken - 1 <= MaxRequests
<1>1. nextToken \in Nat \ {0} /\ requests \in 0..MaxRequests /\ MaxRequests \in Nat
  BY RegistryAssumption DEF RegInv, MemoryTypes, RequestTypes
<1>2. Cardinality(AtBot) \in Nat
  BY FS_CardinalityType DEF TokenInv, CountInv
<1>3. nextToken - 1 <= MaxRequests
  BY <1>1, <1>2 DEF TokenInv, CountInv
<1> QED
  BY <1>1, <1>3 DEF TokenInv, OwnersInv, Tokens

-----------------------------------------------------------------------------
(* ProxyBackends: its steps and types                                          *)

\* The registry of ProxyBackends is BackendRegistry.
LEMMA RegistryRuns == [Next]_vars => [RegistryNext]_registryVars
BY DEF Next, vars, RegistryStep, RegistryNext, Restart

SharedInv == RegInv /\ TokenInv

LEMMA SharedInit == ProxyInit => SharedInv
BY RegInit, TokenInit DEF ProxyInit, SharedInv

LEMMA SharedStep == SharedInv /\ [Next]_vars => SharedInv'
BY RegistryRuns, RegStep, TokenStep DEF SharedInv

\* What a step is: one of this module's, one of a request, or a restart.
LEMMA ProxyKinds ==
    ASSUME SharedInv, [Next]_vars
    PROVE  \/ UNCHANGED vars
           \/ ProxyStep /\ UNCHANGED registryVars
           \/ /\ UNCHANGED proxyVars
              /\ \E h \in Handlers : Advances(h) /\ OthersWait(h)
           \/ Restart
BY StepKinds DEF SharedInv, Next, RegistryStep

Messages == [account : Accounts, backend : Ids]
Holding == pipe.at \in {"record", "write", "append"}

ProxyTypes ==
    /\ sent \in Seq(Messages)
    /\ pipe.at \in {"waiting", "handle", "record", "write", "append"}
    /\ pipe.at # "waiting" => Len(sent) > 0
    /\ Holding => pipe.token \in Tokens
    /\ lastAccount \in [Tokens -> Accounts \cup {Empty, Torn}]
    /\ queue \in [Tokens -> Seq(Nat)]
    /\ \A t \in Tokens : \A i \in DOMAIN queue[t] : queue[t][i] \in 1..Len(sent)
    /\ served \subseteq Tokens
    /\ taken \subseteq 1..Len(sent)
    /\ replies \subseteq taken \X Accounts

LEMMA SentFacts ==
    ASSUME sent \in Seq(Messages)
    PROVE  /\ Len(sent) \in Nat /\ DOMAIN sent = 1..Len(sent)
           /\ \A m \in 1..Len(sent) : /\ sent[m] \in Messages
                                      /\ sent[m].account \in Accounts
                                      /\ sent[m].backend \in Ids
<1>1. Len(sent) \in Nat /\ DOMAIN sent = 1..Len(sent)
      /\ \A m \in 1..Len(sent) : sent[m] \in Messages
  BY LenProperties, ElementOfSeq
<1> QED
  BY <1>1 DEF Messages

LEMMA ProxyTypeInit == ProxyInit => ProxyTypes
<1> SUFFICES ASSUME ProxyInit PROVE ProxyTypes
  OBVIOUS
<1>1. sent \in Seq(Messages) /\ Len(sent) = 0
  BY DEF ProxyInit
<1>2. queue \in [Tokens -> Seq(Nat)] /\ \A t \in Tokens : DOMAIN queue[t] = {}
  BY DEF ProxyInit
<1>3. pipe.at = "waiting"
  BY DEF ProxyInit, Waiting
<1> QED
  BY <1>1, <1>2, <1>3 DEF ProxyInit, ProxyTypes, Holding

\* A step of processLoop or of an external service: what becomes of sent and pipe.
LEMMA ForwardTypes ==
    ASSUME ProxyTypes, NEW id \in Ids, NEW account \in Accounts, Forward(id, account)
    PROVE  ProxyTypes'
<1>1. /\ sent' = Append(sent, [account |-> account, backend |-> id])
      /\ UNCHANGED <<lastAccount, queue, served, taken, replies>>
      /\ pipe'.at \in {"handle", "waiting"}
  BY DEF Forward, Waiting
<1>2. sent \in Seq(Messages) /\ [account |-> account, backend |-> id] \in Messages
  BY DEF ProxyTypes, Messages
<1>3. sent' \in Seq(Messages) /\ Len(sent') = Len(sent) + 1 /\ Len(sent) \in Nat
  BY <1>1, <1>2, AppendProperties, LenProperties
<1> QED
  BY <1>1, <1>3 DEF ProxyTypes, Holding

LEMMA PollTypes ==
    ASSUME ProxyTypes, NEW t \in Tokens, Poll(t)
    PROVE  ProxyTypes'
<1>1. /\ queue' = [queue EXCEPT ![t] = <<>>]
      /\ taken' = taken \cup {queue[t][i] : i \in DOMAIN queue[t]}
      /\ served' = served \cup {t}
      /\ UNCHANGED <<sent, pipe, lastAccount, replies>>
  BY DEF Poll
<1>2. queue' \in [Tokens -> Seq(Nat)]
  <2>1. <<>> \in Seq(Nat)
    OBVIOUS
  <2> QED
    BY <1>1, <2>1 DEF ProxyTypes
<1>3. ASSUME NEW u \in Tokens, NEW i \in DOMAIN queue'[u]
      PROVE  queue'[u][i] \in 1..Len(sent)
  <2>1. u # t /\ queue'[u] = queue[u]
    BY <1>1, <1>3 DEF ProxyTypes
  <2> QED
    BY <1>3, <2>1 DEF ProxyTypes
<1>4. taken \subseteq taken' /\ taken' \subseteq 1..Len(sent)
  BY <1>1 DEF ProxyTypes
<1> QED
  BY <1>1, <1>2, <1>3, <1>4 DEF ProxyTypes, Holding

LEMMA PipeTypes ==
    ASSUME SharedInv, ProxyTypes, Handle \/ RecordStarts \/ RecordEnds \/ Enqueue
    PROVE  ProxyTypes'
<1>1. sent \in Seq(Messages)
  BY DEF ProxyTypes
<1>2. Len(sent) \in Nat /\ (pipe.at # "waiting" => Current \in 1..Len(sent)
                                                   /\ sent[Current] \in Messages)
  BY <1>1, SentFacts DEF ProxyTypes, Current
<1>3. UNCHANGED <<sent, served, taken, replies>>
  BY DEF Handle, RecordStarts, RecordEnds, Enqueue
<1>4. CASE Handle
  <2>1. UNCHANGED <<lastAccount, queue>> /\ pipe.at = "handle"
    BY <1>4 DEF Handle
  <2>2. sent[Current].backend \in Ids
    BY <1>2, <2>1 DEF Messages
  <2>3. \/ pipe' = Waiting
        \/ /\ pipe' = [at |-> "record", token |-> bots[sent[Current].backend]]
           /\ sent[Current].backend \in DOMAIN bots
    BY <1>4 DEF Handle
  <2>4. CASE pipe' = Waiting
    BY <1>3, <2>1, <2>4 DEF ProxyTypes, Holding, Waiting
  <2>5. CASE /\ pipe' = [at |-> "record", token |-> bots[sent[Current].backend]]
             /\ sent[Current].backend \in DOMAIN bots
    <3>1. bots[sent[Current].backend] \in Tokens
      BY <2>2, <2>5, TokensBounded DEF Owns, SharedInv
    <3>2. pipe'.at = "record" /\ pipe'.token \in Tokens
      BY <2>5, <3>1
    <3> QED
      BY <1>3, <2>1, <3>2 DEF ProxyTypes, Holding
  <2> QED
    BY <2>3, <2>4, <2>5
<1>5. CASE RecordStarts \/ RecordEnds
  <2>1. Holding /\ UNCHANGED queue /\ pipe'.at \in {"write", "append"}
        /\ pipe'.token = pipe.token
    BY <1>5 DEF RecordStarts, RecordEnds, Holding
  <2>2. sent[Current].account \in Accounts
    BY <1>2, <2>1 DEF Messages, Holding
  <2>3. lastAccount' \in [Tokens -> Accounts \cup {Empty, Torn}]
    BY <1>5, <2>2 DEF RecordStarts, RecordEnds, ProxyTypes
  <2> QED
    BY <1>3, <2>1, <2>3 DEF ProxyTypes, Holding
<1>6. CASE Enqueue
  <2>1. /\ pipe.at = "append" /\ pipe' = Waiting /\ UNCHANGED lastAccount
        /\ queue' = [queue EXCEPT ![pipe.token] = Append(@, Current)]
    BY <1>6 DEF Enqueue
  <2>2. Current \in Nat
    BY <1>2 DEF Current
  <2>3. \A t \in Tokens : /\ queue[t] \in Seq(Nat)
                          /\ Append(queue[t], Current) \in Seq(Nat)
                          /\ \A i \in DOMAIN Append(queue[t], Current) :
                                 \/ i \in DOMAIN queue[t]
                                    /\ Append(queue[t], Current)[i] = queue[t][i]
                                 \/ Append(queue[t], Current)[i] = Current
    <3> SUFFICES ASSUME NEW t \in Tokens
                 PROVE  /\ queue[t] \in Seq(Nat)
                        /\ Append(queue[t], Current) \in Seq(Nat)
                        /\ \A i \in DOMAIN Append(queue[t], Current) :
                               \/ i \in DOMAIN queue[t]
                                  /\ Append(queue[t], Current)[i] = queue[t][i]
                               \/ Append(queue[t], Current)[i] = Current
      OBVIOUS
    <3>1. queue[t] \in Seq(Nat)
      BY DEF ProxyTypes
    <3> HIDE DEF Current
    <3> QED
      BY <2>2, <3>1, AppendProperties, LenProperties
  <2>4. queue' \in [Tokens -> Seq(Nat)]
    BY <2>1, <2>3 DEF ProxyTypes
  <2>5. ASSUME NEW t \in Tokens, NEW i \in DOMAIN queue'[t]
        PROVE  queue'[t][i] \in 1..Len(sent)
    <3>1. queue'[t] = queue[t] \/ queue'[t] = Append(queue[t], Current)
      BY <2>1 DEF ProxyTypes
    <3>2. Current \in 1..Len(sent)
      BY <1>2, <2>1
    <3> HIDE DEF Current
    <3> QED
      BY <2>3, <2>5, <3>1, <3>2 DEF ProxyTypes
  <2>6. pipe'.at = "waiting"
    BY <2>1 DEF Waiting
  <2> QED
    BY <1>3, <2>1, <2>4, <2>5, <2>6 DEF ProxyTypes, Holding
<1> QED
  BY <1>4, <1>5, <1>6

LEMMA ProxyTypeStep == SharedInv /\ ProxyTypes /\ [Next]_vars => ProxyTypes'
<1> SUFFICES ASSUME SharedInv, ProxyTypes, [Next]_vars PROVE ProxyTypes'
  OBVIOUS
<1>1. CASE UNCHANGED proxyVars
  BY <1>1 DEF proxyVars, ProxyTypes, Holding
<1>2. CASE ProxyStep
  <2>1. ASSUME NEW message \in taken, Reply(message) PROVE ProxyTypes'
    BY <2>1 DEF Reply, ProxyTypes, Holding
  <2> QED
    BY <1>2, <2>1, ForwardTypes, PollTypes, PipeTypes DEF ProxyStep
<1>3. CASE Restart
  <2>1. /\ pipe' = Waiting /\ lastAccount' = [t \in Tokens |-> Empty]
        /\ queue' = [t \in Tokens |-> <<>>] /\ served' = {}
        /\ UNCHANGED <<sent, taken, replies>>
    BY <1>3 DEF Restart
  <2>2. pipe'.at = "waiting"
    BY <2>1 DEF Waiting
  <2>3. queue' \in [Tokens -> Seq(Nat)] /\ \A t \in Tokens : DOMAIN queue'[t] = {}
    BY <2>1
  <2> QED
    BY <2>1, <2>2, <2>3 DEF ProxyTypes, Holding
<1> QED
  BY <1>1, <1>2, <1>3, ProxyKinds DEF vars

ProxyInv == SharedInv /\ ProxyTypes

LEMMA ProxyInvariant == Spec => []ProxyInv
<1>1. ProxyInit => ProxyInv
  BY SharedInit, ProxyTypeInit DEF ProxyInv
<1>2. ProxyInv /\ [Next]_vars => ProxyInv'
  BY SharedStep, ProxyTypeStep DEF ProxyInv
<1> QED
  BY <1>1, <1>2, PTL DEF Spec

\* Types of the messages and their way, for all accounts and numbers of messages.
THEOREM TypeCorrect == Spec => []TypeOK
<1>1. ProxyInv => TypeOK
  <2> SUFFICES ASSUME ProxyInv PROVE TypeOK
    OBVIOUS
  <2>1. ProxyTypes
    BY DEF ProxyInv
  <2>2. DOMAIN sent = 1..Len(sent) /\ \A m \in DOMAIN sent : sent[m] \in Messages
    BY <2>1, SentFacts DEF ProxyTypes
  <2> QED
    BY <2>1, <2>2 DEF ProxyTypes, TypeOK, Messages
<1> QED
  BY <1>1, ProxyInvariant, PTL

-----------------------------------------------------------------------------
(* ProxyBackends: the message in processLoop's hands and the account its bot notes *)

\* Between Handle and Enqueue the token of pipe belongs to the backend of the message
\* or to no one any more; a bot that replaced it since has noted no account.  A token
\* not generated yet has noted none either.
PipeInv ==
    /\ Holding =>
           /\ pipe.token < nextToken
           /\ \A id \in Ids : Owns(id, pipe.token) => id = sent[Current].backend
           /\ \A id \in DOMAIN bots :
                  id = sent[Current].backend =>
                      bots[id] = pipe.token \/ lastAccount[bots[id]] = Empty
    /\ pipe.at = "append" => lastAccount[pipe.token] = sent[Current].account
    /\ \A t \in Tokens : t >= nextToken => lastAccount[t] = Empty

LEMMA PipeInit == ProxyInit => PipeInv
<1> SUFFICES ASSUME ProxyInit PROVE PipeInv
  OBVIOUS
<1>1. pipe.at = "waiting" /\ lastAccount = [t \in Tokens |-> Empty]
  BY DEF ProxyInit, Waiting
<1> QED
  BY <1>1 DEF PipeInv, Holding

\* The message in processLoop's hands is the last one sent.
LEMMA CurrentFacts ==
    ASSUME ProxyTypes, pipe.at # "waiting"
    PROVE  /\ Current = Len(sent) /\ Current \in 1..Len(sent) /\ Len(sent) \in Nat
           /\ sent[Current].account \in Accounts
           /\ sent[Current].backend \in Ids
<1>1. sent \in Seq(Messages) /\ Len(sent) > 0
  BY DEF ProxyTypes
<1>2. Len(sent) \in 1..Len(sent) /\ Len(sent) \in Nat
  BY <1>1, SentFacts
<1> QED
  BY <1>1, <1>2, SentFacts DEF Current

\* The token of a bot is one of Tokens and was generated.
LEMMA BotTokens ==
    ASSUME SharedInv
    PROVE  \A id \in DOMAIN bots : /\ id \in Ids /\ bots[id] \in Tokens
                                   /\ bots[id] < nextToken /\ Owns(id, bots[id])
<1>1. DOMAIN bots \subseteq Ids /\ nextToken \in Nat \ {0}
  BY DEF SharedInv, RegInv, MemoryTypes
<1>2. \A id \in DOMAIN bots : Owns(id, bots[id])
  BY DEF Owns
<1>3. \A id \in DOMAIN bots : bots[id] \in Tokens
  BY <1>1, <1>2, TokensBounded DEF SharedInv
<1>4. \A id \in DOMAIN bots : bots[id] \in 1..nextToken - 1
  BY <1>1, <1>2 DEF SharedInv, TokenInv, OwnersInv
<1> QED
  BY <1>1, <1>2, <1>3, <1>4

Generated == nextToken \in Nat /\ nextToken - 1 <= MaxRequests

LEMMA TokenRange == SharedInv => Generated
BY TokensBounded DEF SharedInv, RegInv, MemoryTypes, Generated

LEMMA TokenRangeStep == SharedInv /\ [Next]_vars => Generated'
BY SharedStep, TokenRange, PTL

LEMMA PipeOwnStep ==
    ASSUME SharedInv, ProxyTypes, PipeInv, ProxyStep, UNCHANGED registryVars
    PROVE  PipeInv'
<1>1. UNCHANGED <<bots, botRows, handler, nextToken>>
  BY DEF registryVars
<1>2. \A id : \A t : Owns(id, t)' <=> Owns(id, t)
  BY <1>1 DEF Owns, At
<1>3. CASE \E id \in Ids, account \in Accounts : Forward(id, account)
  <2>1. pipe'.at \in {"handle", "waiting"} /\ UNCHANGED lastAccount
    BY <1>3 DEF Forward, Waiting
  <2> QED
    BY <1>1, <2>1 DEF PipeInv, Holding
<1>4. CASE Handle
  <2>1. UNCHANGED <<sent, lastAccount>> /\ pipe.at = "handle"
    BY <1>4 DEF Handle
  <2>2. \/ pipe'.at = "waiting"
        \/ /\ pipe' = [at |-> "record", token |-> bots[sent[Current].backend]]
           /\ sent[Current].backend \in DOMAIN bots
    BY <1>4 DEF Handle, Waiting
  <2>3. CASE pipe'.at = "waiting"
    BY <1>1, <2>1, <2>3 DEF PipeInv, Holding
  <2>4. CASE /\ pipe' = [at |-> "record", token |-> bots[sent[Current].backend]]
             /\ sent[Current].backend \in DOMAIN bots
    <3> DEFINE b == sent[Current].backend
    <3>1. b \in Ids /\ Owns(b, bots[b]) /\ bots[b] < nextToken
      BY <2>4, BotTokens
    <3>2. \A id \in Ids : Owns(id, bots[b]) => id = b
      BY <3>1 DEF SharedInv, TokenInv, OwnersInv
    <3>3. pipe'.at = "record" /\ pipe'.token = bots[b] /\ sent'[Current'].backend = b
      BY <2>1, <2>4 DEF Current
    <3> HIDE DEF b
    <3> QED
      BY <1>1, <1>2, <2>1, <3>1, <3>2, <3>3 DEF PipeInv, Holding
  <2> QED
    BY <2>2, <2>3, <2>4
<1>5. CASE RecordStarts \/ RecordEnds
  <2>1. /\ pipe.at \in {"record", "write"} /\ UNCHANGED sent
        /\ pipe'.at \in {"write", "append"} /\ pipe'.token = pipe.token
        /\ Current' = Current
    BY <1>5 DEF RecordStarts, RecordEnds, Current
  <2>2. \A t \in Tokens : t # pipe.token => lastAccount'[t] = lastAccount[t]
    BY <1>5 DEF RecordStarts, RecordEnds, ProxyTypes
  <2>3. pipe'.at = "append" => lastAccount'[pipe.token] = sent[Current].account
    BY <1>5, <2>1 DEF RecordStarts, RecordEnds, ProxyTypes, Holding
  <2>4. /\ pipe.token < nextToken /\ pipe.token \in Tokens /\ nextToken \in Nat
        /\ \A id \in Ids : Owns(id, pipe.token) => id = sent[Current].backend
        /\ \A id \in DOMAIN bots :
               id = sent[Current].backend =>
                   bots[id] = pipe.token \/ lastAccount[bots[id]] = Empty
        /\ \A t \in Tokens : t >= nextToken => lastAccount[t] = Empty
    BY <2>1, TokenRange DEF PipeInv, Holding, ProxyTypes, Generated
  <2>5. \A t \in Tokens : t >= nextToken => t # pipe.token
    BY <2>4 DEF Tokens
  <2>6. \A id \in DOMAIN bots : bots[id] \in Tokens
    BY BotTokens
  <2>7. \A t \in Tokens : t >= nextToken => lastAccount'[t] = Empty
    BY <2>2, <2>4, <2>5
  <2>8. \A id \in DOMAIN bots :
            id = sent[Current].backend =>
                bots[id] = pipe.token \/ lastAccount'[bots[id]] = Empty
    BY <2>2, <2>4, <2>6
  <2> QED
    BY <1>1, <1>2, <2>1, <2>3, <2>4, <2>7, <2>8 DEF PipeInv, Holding
<1>6. CASE Enqueue
  <2>1. pipe'.at = "waiting" /\ UNCHANGED lastAccount
    BY <1>6 DEF Enqueue, Waiting
  <2> QED
    BY <1>1, <2>1 DEF PipeInv, Holding
<1>7. CASE \/ \E token \in Tokens : Poll(token)
           \/ \E message \in taken : Reply(message)
  <2>1. UNCHANGED <<sent, pipe, lastAccount>>
    BY <1>7 DEF Poll, Reply
  <2> QED
    BY <1>1, <1>2, <2>1 DEF PipeInv, Holding, Current
<1> QED
  BY <1>3, <1>4, <1>5, <1>6, <1>7 DEF ProxyStep

LEMMA PipeStep ==
    SharedInv /\ ProxyTypes /\ PipeInv /\ [Next]_vars => PipeInv'
<1> SUFFICES ASSUME SharedInv, ProxyTypes, PipeInv, [Next]_vars PROVE PipeInv'
  OBVIOUS
<1>1. nextToken' \in Nat /\ nextToken' - 1 <= MaxRequests
  BY TokenRangeStep DEF Generated
<1>2. CASE UNCHANGED vars
  BY <1>2 DEF vars, registryVars, proxyVars, PipeInv, Holding, Current, Owns, At
<1>3. CASE UNCHANGED proxyVars /\ \E h \in Handlers : Advances(h) /\ OthersWait(h)
  <2>1. PICK h \in Handlers : Advances(h) /\ OthersWait(h)
    BY <1>3
  <2>2. /\ nextToken' = nextToken \/ nextToken' = nextToken + 1
        /\ \A id \in DOMAIN bots' :
               \/ id \in DOMAIN bots /\ bots'[id] = bots[id]
               \/ bots'[id] = nextToken /\ nextToken' = nextToken + 1
        /\ \A id \in Ids : \A t : Owns(id, t)' => Owns(id, t) \/ t = nextToken
    BY <2>1, OwnsStep DEF SharedInv
  <2>3. UNCHANGED <<sent, pipe, lastAccount>> /\ Current' = Current
    BY <1>3 DEF proxyVars, Current
  <2>4. nextToken \in Nat
    BY TokenRange DEF Generated
  <2>5. \A t \in Tokens : t >= nextToken' => lastAccount[t] = Empty
    BY <2>2, <2>4 DEF PipeInv, Tokens
  <2>6. ASSUME Holding
        PROVE  /\ pipe.token < nextToken'
               /\ \A id \in Ids : Owns(id, pipe.token)' => id = sent[Current].backend
               /\ \A id \in DOMAIN bots' :
                      id = sent[Current].backend =>
                          bots'[id] = pipe.token \/ lastAccount[bots'[id]] = Empty
    <3>1. /\ pipe.token < nextToken /\ pipe.token \in Tokens
          /\ \A id \in Ids : Owns(id, pipe.token) => id = sent[Current].backend
          /\ \A id \in DOMAIN bots :
                 id = sent[Current].backend =>
                     bots[id] = pipe.token \/ lastAccount[bots[id]] = Empty
      BY <2>6 DEF PipeInv, ProxyTypes
    <3>2. pipe.token < nextToken' /\ pipe.token # nextToken
      BY <2>2, <2>4, <3>1 DEF Tokens
    <3>3. \A id \in Ids : Owns(id, pipe.token)' => id = sent[Current].backend
      BY <2>2, <2>3, <3>1, <3>2
    <3>4. nextToken' = nextToken + 1 => nextToken \in Tokens \/ nextToken = 0
      BY <1>1, <2>4, RegistryAssumption DEF Tokens
    <3>5. nextToken # 0
      BY DEF SharedInv, RegInv, MemoryTypes
    <3>6. nextToken' = nextToken + 1 => lastAccount[nextToken] = Empty
      BY <2>4, <3>4, <3>5 DEF PipeInv
    <3> QED
      BY <2>2, <3>1, <3>2, <3>3, <3>6
  <2> QED
    BY <2>3, <2>5, <2>6 DEF PipeInv, Holding
<1>4. CASE Restart
  <2>1. pipe'.at = "waiting" /\ lastAccount' = [t \in Tokens |-> Empty]
    BY <1>4 DEF Restart, Waiting
  <2> QED
    BY <2>1 DEF PipeInv, Holding
<1> QED
  BY <1>2, <1>3, <1>4, PipeOwnStep, ProxyKinds

-----------------------------------------------------------------------------
(* ProxyBackends: a bot that was given a message knows an account              *)

\* The account is noted before the message is enqueued, so that neither a queue with a
\* message nor a bot that was polled successfully is without one.
KnowInv ==
    \A t \in Tokens : queue[t] # <<>> \/ t \in served => lastAccount[t] # Empty

LEMMA KnowStep ==
    SharedInv /\ ProxyTypes /\ PipeInv /\ KnowInv /\ [Next]_vars => KnowInv'
<1> SUFFICES ASSUME SharedInv, ProxyTypes, PipeInv, KnowInv, [Next]_vars PROVE KnowInv'
  OBVIOUS
<1>1. CASE UNCHANGED proxyVars
  BY <1>1 DEF proxyVars, KnowInv
<1>2. CASE \/ \E id \in Ids, account \in Accounts : Forward(id, account)
           \/ Handle
           \/ \E message \in taken : Reply(message)
  <2>1. UNCHANGED <<queue, served, lastAccount>>
    BY <1>2 DEF Forward, Handle, Reply
  <2> QED
    BY <2>1 DEF KnowInv
<1>3. CASE RecordStarts \/ RecordEnds
  <2>1. pipe.at # "waiting" /\ UNCHANGED <<queue, served>>
    BY <1>3 DEF RecordStarts, RecordEnds
  <2>2. sent[Current].account # Empty /\ Torn # Empty
    BY <2>1, CurrentFacts, ProxyAssumption DEF Empty, Torn
  <2>3. \A t \in Tokens : lastAccount[t] # Empty => lastAccount'[t] # Empty
    BY <1>3, <2>2 DEF RecordStarts, RecordEnds, ProxyTypes
  <2> QED
    BY <2>1, <2>3 DEF KnowInv
<1>4. CASE Enqueue
  <2>1. pipe.at = "append" /\ UNCHANGED <<served, lastAccount>>
    BY <1>4 DEF Enqueue
  <2>2. lastAccount[pipe.token] # Empty
    BY <2>1, CurrentFacts, ProxyAssumption DEF PipeInv
  <2>3. \A t \in Tokens : t # pipe.token => queue'[t] = queue[t]
    BY <1>4 DEF Enqueue, ProxyTypes
  <2> QED
    BY <2>1, <2>2, <2>3 DEF KnowInv
<1>5. ASSUME NEW token \in Tokens, Poll(token) PROVE KnowInv'
  <2>1. /\ queue[token] # <<>> /\ served' = served \cup {token}
        /\ queue' = [queue EXCEPT ![token] = <<>>] /\ UNCHANGED lastAccount
    BY <1>5 DEF Poll
  <2>2. \A t \in Tokens : t # token => queue'[t] = queue[t]
    BY <2>1 DEF ProxyTypes
  <2> QED
    BY <2>1, <2>2 DEF KnowInv
<1>6. CASE Restart
  <2>1. served' = {} /\ \A t \in Tokens : queue'[t] = <<>>
    BY <1>6 DEF Restart
  <2> QED
    BY <2>1 DEF KnowInv
<1> QED
  BY <1>1, <1>2, <1>3, <1>4, <1>5, <1>6, ProxyKinds DEF ProxyStep, vars

WayInv == ProxyInv /\ PipeInv

LEMMA WayInvariant == Spec => []WayInv
<1>1. ProxyInit => WayInv
  BY SharedInit, ProxyTypeInit, PipeInit DEF WayInv, ProxyInv
<1>2. WayInv /\ [Next]_vars => WayInv'
  BY SharedStep, ProxyTypeStep, PipeStep DEF WayInv, ProxyInv
<1> QED
  BY <1>1, <1>2, PTL DEF Spec

\* An external service that got a message since boot can answer: whatever handlers do
\* to the bots between Handle and Enqueue, LastAccountID is written before the message
\* is enqueued to that token and is not reset before the next restart.
THEOREM ServedBotsCanAnswer == Spec => []ServedBotsKnowAnAccount
<1>1. ProxyInit => KnowInv
  BY DEF ProxyInit, KnowInv
<1>2. WayInv /\ KnowInv /\ [Next]_vars => KnowInv'
  BY KnowStep DEF WayInv, ProxyInv
<1>3. WayInv /\ KnowInv => ServedBotsKnowAnAccount
  BY DEF WayInv, ProxyInv, ProxyTypes, KnowInv, ServedBotsKnowAnAccount
<1> QED
  BY <1>1, <1>2, <1>3, WayInvariant, PTL DEF Spec

-----------------------------------------------------------------------------
(* ProxyBackends: no answer leaves through an account older than its message   *)

\* Messages an external service took or can take.
Delivered(m) ==
    \/ m \in taken
    \/ \E t \in Tokens : \E i \in DOMAIN queue[t] : queue[t][i] = m

\* The account was that of a message for the backend id, and no later message for it
\* was delivered.
NotedAt(id, account) ==
    \E k \in 1..Len(sent) :
        /\ sent[k].account = account
        /\ sent[k].backend = id
        /\ \A m \in 1..Len(sent) : Delivered(m) /\ sent[m].backend = id => m <= k

\* What the bot of a backend noted is that of its last delivered message or newer.
LastInv ==
    \A id \in DOMAIN bots :
        lastAccount[bots[id]] \in Accounts => NotedAt(id, lastAccount[bots[id]])

LEMMA LastInit == ProxyInit => LastInv
<1> SUFFICES ASSUME ProxyInit PROVE LastInv
  OBVIOUS
<1>1. DOMAIN bots = {}
  BY NothingFacts DEF ProxyInit, Init
<1> QED
  BY <1>1 DEF LastInv

\* What was noted stays so while no message is delivered and the past is kept.
LEMMA NotedKept ==
    ASSUME ProxyTypes, ProxyTypes', NEW id, NEW account, NotedAt(id, account),
           Len(sent) <= Len(sent'),
           \A m \in 1..Len(sent) : sent'[m] = sent[m],
           \A m \in 1..Len(sent') : Delivered(m)' => Delivered(m)
    PROVE  NotedAt(id, account)'
<1>1. \A m : Delivered(m) => m \in 1..Len(sent)
  BY DEF Delivered, ProxyTypes
<1>2. Len(sent) \in Nat /\ Len(sent') \in Nat
  BY LenProperties DEF ProxyTypes
<1>3. PICK k \in 1..Len(sent) :
        /\ sent[k].account = account
        /\ sent[k].backend = id
        /\ \A m \in 1..Len(sent) : Delivered(m) /\ sent[m].backend = id => m <= k
  BY DEF NotedAt
<1>4. k \in 1..Len(sent') /\ sent'[k] = sent[k]
  BY <1>2, <1>3
<1>5. \A m \in 1..Len(sent') : Delivered(m)' /\ sent'[m].backend = id => m <= k
  BY <1>1, <1>3
<1> QED
  BY <1>3, <1>4, <1>5 DEF NotedAt

LEMMA LastOwnStep ==
    ASSUME SharedInv, ProxyTypes, ProxyTypes', PipeInv, LastInv,
           ProxyStep, UNCHANGED registryVars
    PROVE  LastInv'
<1>1. bots' = bots
  BY DEF registryVars
<1>2. \A id \in DOMAIN bots : id \in Ids /\ bots[id] \in Tokens /\ Owns(id, bots[id])
  BY BotTokens
<1>3. Len(sent) \in Nat
  BY LenProperties DEF ProxyTypes
<1>4. ASSUME NEW id \in Ids, NEW account \in Accounts, Forward(id, account)
      PROVE  LastInv'
  <2>1. /\ sent' = Append(sent, [account |-> account, backend |-> id])
        /\ UNCHANGED <<lastAccount, queue, taken>>
    BY <1>4 DEF Forward
  <2>2. sent \in Seq(Messages) /\ [account |-> account, backend |-> id] \in Messages
    BY DEF ProxyTypes, Messages
  <2>3. Len(sent) <= Len(sent') /\ \A m \in 1..Len(sent) : sent'[m] = sent[m]
    BY <1>3, <2>1, <2>2, AppendProperties
  <2>4. \A m : Delivered(m)' => Delivered(m)
    BY <2>1 DEF Delivered
  <2>5. \A i \in DOMAIN bots : \A a : NotedAt(i, a) => NotedAt(i, a)'
    BY <2>3, <2>4, NotedKept
  <2> QED
    BY <1>1, <2>1, <2>5 DEF LastInv
<1>5. CASE Handle \/ \E message \in taken : Reply(message)
  <2>1. UNCHANGED <<sent, lastAccount, queue, taken>>
    BY <1>5 DEF Handle, Reply
  <2> QED
    BY <1>1, <2>1 DEF LastInv, NotedAt, Delivered
<1>6. CASE RecordStarts \/ RecordEnds
  <2>1. /\ pipe.at \in {"record", "write"} /\ UNCHANGED <<sent, queue, taken>>
    BY <1>6 DEF RecordStarts, RecordEnds
  <2>2. \A t \in Tokens :
            \/ lastAccount'[t] = lastAccount[t]
            \/ lastAccount'[t] = Torn
            \/ t = pipe.token /\ lastAccount'[t] = sent[Current].account
    BY <1>6 DEF RecordStarts, RecordEnds, ProxyTypes
  <2>3. \A m : Delivered(m)' <=> Delivered(m)
    BY <2>1 DEF Delivered
  <2>4. \A id \in Ids : \A a : NotedAt(id, a)' <=> NotedAt(id, a)
    BY <2>1, <2>3 DEF NotedAt
  <2> SUFFICES ASSUME NEW id \in DOMAIN bots, lastAccount'[bots[id]] \in Accounts
               PROVE  NotedAt(id, lastAccount'[bots[id]])
    BY <1>1, <1>2, <2>4 DEF LastInv
  <2>5. lastAccount'[bots[id]] # Torn
    BY ProxyAssumption
  <2>6. CASE lastAccount'[bots[id]] = lastAccount[bots[id]]
    BY <2>6 DEF LastInv
  <2>7. CASE bots[id] = pipe.token /\ lastAccount'[bots[id]] = sent[Current].account
    <3>1. id = sent[Current].backend
      BY <1>2, <2>1, <2>7 DEF PipeInv, Holding
    <3>2. Current = Len(sent) /\ Current \in 1..Len(sent)
      BY <2>1, CurrentFacts
    <3> QED
      BY <1>3, <2>7, <3>1, <3>2 DEF NotedAt
  <2> QED
    BY <1>2, <2>2, <2>5, <2>6, <2>7
<1>7. CASE Enqueue
  <2>1. /\ pipe.at = "append" /\ UNCHANGED <<sent, lastAccount, taken>>
        /\ queue' = [queue EXCEPT ![pipe.token] = Append(@, Current)]
    BY <1>7 DEF Enqueue
  <2>2. Current = Len(sent) /\ Current \in 1..Len(sent)
    BY <2>1, CurrentFacts
  <2>3. \A m : Delivered(m)' => Delivered(m) \/ m = Current
    <3> SUFFICES ASSUME NEW t \in Tokens, NEW i \in DOMAIN queue'[t]
                 PROVE  Delivered(queue'[t][i]) \/ queue'[t][i] = Current
      BY <2>1 DEF Delivered
    <3>1. queue[t] \in Seq(Nat) /\ Current \in Nat
      BY <2>2 DEF ProxyTypes
    <3>2. CASE queue'[t] = queue[t]
      BY <3>2 DEF Delivered
    <3>3. CASE queue'[t] = Append(queue[t], Current)
      <4> HIDE DEF Current
      <4>1. \/ i \in DOMAIN queue[t] /\ queue'[t][i] = queue[t][i]
            \/ queue'[t][i] = Current
        BY <3>1, <3>3, AppendProperties, LenProperties
      <4> QED
        BY <4>1 DEF Delivered
    <3> QED
      BY <2>1, <3>2, <3>3 DEF ProxyTypes
  <2> SUFFICES ASSUME NEW id \in DOMAIN bots, lastAccount[bots[id]] \in Accounts
               PROVE  NotedAt(id, lastAccount[bots[id]])'
    BY <1>1, <2>1 DEF LastInv
  <2>4. CASE id = sent[Current].backend
    <3>1. lastAccount[bots[id]] = sent[Current].account
      BY <2>1, <2>4, ProxyAssumption DEF PipeInv, Holding
    <3> QED
      BY <1>1, <1>3, <2>1, <2>2, <2>4, <3>1 DEF NotedAt
  <2>5. CASE id # sent[Current].backend
    <3>1. PICK k \in 1..Len(sent) :
            /\ sent[k].account = lastAccount[bots[id]]
            /\ sent[k].backend = id
            /\ \A m \in 1..Len(sent) : Delivered(m) /\ sent[m].backend = id => m <= k
      BY DEF LastInv, NotedAt
    <3>2. \A m \in 1..Len(sent) : Delivered(m)' /\ sent[m].backend = id => m <= k
      BY <2>3, <2>5, <3>1
    <3> QED
      BY <1>1, <2>1, <3>1, <3>2 DEF NotedAt
  <2> QED
    BY <2>4, <2>5
<1>8. ASSUME NEW token \in Tokens, Poll(token) PROVE LastInv'
  <2>1. /\ UNCHANGED <<sent, lastAccount>>
        /\ queue' = [queue EXCEPT ![token] = <<>>]
        /\ taken' = taken \cup {queue[token][j] : j \in DOMAIN queue[token]}
    BY <1>8 DEF Poll
  <2>2. \A t \in Tokens : queue'[t] = queue[t] \/ DOMAIN queue'[t] = {}
    BY <2>1 DEF ProxyTypes
  <2>3. \A m : Delivered(m)' => Delivered(m)
    BY <2>1, <2>2 DEF Delivered
  <2>4. \A id \in DOMAIN bots : \A a : NotedAt(id, a) => NotedAt(id, a)'
    BY <1>3, <2>1, <2>3, NotedKept
  <2> QED
    BY <1>1, <2>1, <2>4 DEF LastInv
<1> QED
  BY <1>4, <1>5, <1>6, <1>7, <1>8 DEF ProxyStep

LEMMA LastStep ==
    SharedInv /\ ProxyTypes /\ ProxyTypes' /\ PipeInv /\ LastInv /\ [Next]_vars
        => LastInv'
<1> SUFFICES ASSUME SharedInv, ProxyTypes, ProxyTypes', PipeInv, LastInv, [Next]_vars
             PROVE  LastInv'
  OBVIOUS
<1>1. CASE UNCHANGED vars
  BY <1>1 DEF vars, registryVars, proxyVars, LastInv, NotedAt, Delivered
<1>2. CASE UNCHANGED proxyVars /\ \E h \in Handlers : Advances(h) /\ OthersWait(h)
  <2>1. PICK h \in Handlers : Advances(h) /\ OthersWait(h)
    BY <1>2
  <2>2. \A id \in DOMAIN bots' :
            \/ id \in DOMAIN bots /\ bots'[id] = bots[id]
            \/ bots'[id] = nextToken /\ nextToken' = nextToken + 1
    BY <2>1, OwnsStep DEF SharedInv
  <2>3. UNCHANGED <<sent, lastAccount, queue, taken>>
    BY <1>2 DEF proxyVars
  <2>4. \A id : \A a : NotedAt(id, a) => NotedAt(id, a)'
    BY <2>3 DEF NotedAt, Delivered
  <2>5. nextToken' = nextToken + 1 => lastAccount[nextToken] = Empty
    <3>1. nextToken \in Nat \ {0}
      BY DEF SharedInv, RegInv, MemoryTypes
    <3>2. nextToken' - 1 <= MaxRequests
      BY TokenRangeStep DEF Generated
    <3>3. nextToken' = nextToken + 1 => nextToken \in Tokens
      BY <3>1, <3>2, RegistryAssumption DEF Tokens
    <3> QED
      BY <3>1, <3>3 DEF PipeInv
  <2> SUFFICES ASSUME NEW id \in DOMAIN bots', lastAccount[bots'[id]] \in Accounts
               PROVE  NotedAt(id, lastAccount[bots'[id]])
    BY <2>3, <2>4 DEF LastInv
  <2>6. id \in DOMAIN bots /\ bots'[id] = bots[id]
    BY <2>2, <2>5, ProxyAssumption
  <2> QED
    BY <2>6 DEF LastInv
<1>3. CASE Restart
  <2>1. /\ lastAccount' = [t \in Tokens |-> Empty]
        /\ bots' = botRows \/ DOMAIN bots' = {}
    BY <1>3, NothingFacts DEF Restart, RestartRegistry
  <2>2. \A id \in DOMAIN botRows : id \in Ids /\ Owns(id, botRows[id])
    BY DEF Owns, SharedInv, RegInv, TableTypes
  <2>3. \A id \in DOMAIN bots' : bots'[id] \in Tokens
    BY <2>1, <2>2, TokensBounded DEF SharedInv
  <2>4. \A id \in DOMAIN bots' : lastAccount'[bots'[id]] \notin Accounts
    BY <2>1, <2>3, ProxyAssumption
  <2> QED
    BY <2>4 DEF LastInv
<1> QED
  BY <1>1, <1>2, <1>3, LastOwnStep, ProxyKinds

LEMMA RepliesStep ==
    ProxyTypes /\ ProxyTypes' /\ LastInv /\ RepliesNeverThroughEarlierAccount
        /\ SharedInv /\ [Next]_vars => RepliesNeverThroughEarlierAccount'
<1> SUFFICES ASSUME ProxyTypes, ProxyTypes', LastInv, SharedInv, [Next]_vars,
                    RepliesNeverThroughEarlierAccount
             PROVE  RepliesNeverThroughEarlierAccount'
  OBVIOUS
<1>1. Len(sent) \in Nat /\ \A reply \in replies : reply[1] \in 1..Len(sent)
  BY LenProperties DEF ProxyTypes
<1>2. ASSUME NEW id \in Ids, NEW account \in Accounts, Forward(id, account)
      PROVE  RepliesNeverThroughEarlierAccount'
  <2>1. /\ sent' = Append(sent, [account |-> account, backend |-> id])
        /\ UNCHANGED replies
    BY <1>2 DEF Forward
  <2>2. sent \in Seq(Messages) /\ [account |-> account, backend |-> id] \in Messages
    BY DEF ProxyTypes, Messages
  <2>3. Len(sent') = Len(sent) + 1 /\ \A m \in 1..Len(sent) : sent'[m] = sent[m]
    BY <1>1, <2>1, <2>2, AppendProperties
  <2> SUFFICES ASSUME NEW reply \in replies
               PROVE  \E m \in reply[1]..Len(sent') :
                          /\ sent'[m].account = reply[2]
                          /\ sent'[m].backend = sent'[reply[1]].backend
    BY <2>1 DEF RepliesNeverThroughEarlierAccount
  <2>4. PICK m \in reply[1]..Len(sent) : /\ sent[m].account = reply[2]
                                         /\ sent[m].backend = sent[reply[1]].backend
    BY DEF RepliesNeverThroughEarlierAccount
  <2>5. m \in reply[1]..Len(sent') /\ m \in 1..Len(sent)
    BY <1>1, <2>3, <2>4
  <2> QED
    BY <1>1, <2>3, <2>4, <2>5
<1>3. ASSUME NEW message \in taken, Reply(message)
      PROVE  RepliesNeverThroughEarlierAccount'
  <2> DEFINE id == sent[message].backend
             account == lastAccount[bots[id]]
  <2>1. /\ id \in DOMAIN bots /\ account \in Accounts /\ UNCHANGED sent
        /\ replies' = {<<message, account>>}
    BY <1>3 DEF Reply
  <2>2. message \in 1..Len(sent) /\ Delivered(message)
    BY DEF ProxyTypes, Delivered
  <2>3. PICK k \in 1..Len(sent) :
          /\ sent[k].account = account
          /\ sent[k].backend = id
          /\ \A m \in 1..Len(sent) : Delivered(m) /\ sent[m].backend = id => m <= k
    BY <2>1 DEF LastInv, NotedAt
  <2>4. k \in message..Len(sent)
    BY <1>1, <2>2, <2>3
  <2> HIDE DEF account
  <2> QED
    BY <2>1, <2>3, <2>4 DEF RepliesNeverThroughEarlierAccount
<1>4. CASE \/ UNCHANGED proxyVars
           \/ Handle \/ RecordStarts \/ RecordEnds \/ Enqueue
           \/ \E token \in Tokens : Poll(token)
           \/ Restart
  <2>1. UNCHANGED <<sent, replies>>
    BY <1>4 DEF proxyVars, Handle, RecordStarts, RecordEnds, Enqueue, Poll, Restart
  <2> QED
    BY <2>1 DEF RepliesNeverThroughEarlierAccount
<1> QED
  BY <1>2, <1>3, <1>4, ProxyKinds DEF ProxyStep, vars

\* An answer leaves through the account of the message answered or of a later one for
\* its backend, never an earlier one: LastAccountID is overwritten before a message is
\* enqueued, a replaced bot starts without one, and no two backends share a token.
THEOREM NoReplyThroughEarlierAccount == Spec => []RepliesNeverThroughEarlierAccount
<1>1. ProxyInit => LastInv /\ RepliesNeverThroughEarlierAccount
  BY LastInit DEF ProxyInit, RepliesNeverThroughEarlierAccount
<1>2. WayInv /\ WayInv' /\ LastInv /\ [Next]_vars => LastInv'
  BY LastStep DEF WayInv, ProxyInv
<1>3. WayInv /\ WayInv' /\ LastInv /\ RepliesNeverThroughEarlierAccount /\ [Next]_vars
          => RepliesNeverThroughEarlierAccount'
  BY RepliesStep DEF WayInv, ProxyInv
<1> QED
  BY <1>1, <1>2, <1>3, WayInvariant, PTL DEF Spec
===============================================================================
