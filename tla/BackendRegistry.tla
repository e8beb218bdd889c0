---------------------------- MODULE BackendRegistry ----------------------------
(***************************************************************************)
(* The backends and what stands for them in memory: the backends and       *)
(* virtual_bots tables, the adapter factory (adapter/factory.go), the      *)
(* registry of virtual bots (ilink/registry.go), and the handlers that     *)
(* change them (api/backend_handler.go).                                   *)
(*                                                                         *)
(* A handler writes its table rows, and for a proxy the bot registry,      *)
(* without a lock; then it calls reloadAdapters, which holds the server's  *)
(* mutex while it empties the factory and fills it again from the tables.  *)
(* The pipeline looks an adapter up without that mutex, so it may see any  *)
(* moment of the refill.  Each access to the database, to the factory or   *)
(* to the registry is a step.                                              *)
(***************************************************************************)
EXTENDS Naturals, FiniteSets

CONSTANTS Handlers,    \* goroutines that serve backend requests
          Ids,         \* ids an administrator may give a backend
          Types,       \* types an administrator may give one: any text; the type
                       \* echo answers at once, as openai_compatible does
          MaxRequests  \* bound on the requests of a behaviour

Echo == "echo"         \* the id of the debug backend
NoOne == "no one"

ASSUME RegistryAssumption == Echo \notin Ids /\ NoOne \notin Handlers
                             /\ MaxRequests \in Nat

VARIABLES backends,  \* table: a function from ids to [type, enabled]
          botRows,   \* table virtual_bots: a function from ids to tokens
          bots,      \* ClientRegistry.bots: ids to the tokens of their bots
          nextToken, \* tokens below this one were generated
          adapters,  \* factory: ids to [type, wired], wired when the enqueue
                     \* function is set
          conns,     \* factory: ids with a connection adapter
          mu,        \* the handler that holds the server's mutex, or NoOne
          handler,   \* handler[h]: the request goroutine h serves
          requests,  \* requests begun so far
          failed,    \* history: a listing failed at boot or in the last refill,
                     \* or a request that had changed a table ended without a
                     \* refill since the last listing
          changedBy, \* history: the goroutine that last registered or removed
                     \* the bot of an id, until it wrote the row, or NoOne
          outdated   \* history: ids whose row was last to be written by a request
                     \* that failed to, or whose bot another request had
                     \* registered or removed in between; and ids whose row
                     \* could not be read at boot

registryVars == <<backends, botRows, bots, nextToken, adapters, conns, mu,
                  handler, requests, failed, changedBy, outdated>>

Known == {"ilink_proxy", "openai_compatible", "echo"}  \* RegisterAdapter
Idle == [at |-> "idle"]
Nothing == [i \in {} |-> {}]
Without(f, id) == [i \in DOMAIN f \ {id} |-> f[i]]
Put(f, id, value) == [i \in DOMAIN f \cup {id} |-> IF i = id THEN value ELSE f[i]]

EnabledRows(table) == [id \in {i \in DOMAIN table : table[i].enabled} |-> table[id]]

\* The enabled rows that get an adapter: of an unknown type there is none, and the
\* row is passed over
Loadable(table) ==
    [id \in {i \in DOMAIN table : table[i].enabled /\ table[i].type \in Known}
        |-> table[id]]

\* CreateAdapterFromDB: a new adapter has no enqueue function
NewAdapter(row) == [type |-> row.type, wired |-> FALSE]

EchoRow == [type |-> "echo", enabled |-> TRUE]

\* First start: the table is empty, and boot gives it the echo backend
Init ==
    /\ backends = Put(Nothing, Echo, EchoRow)
    /\ botRows = Nothing
    /\ bots = Nothing
    /\ nextToken = 1
    /\ adapters = Put(Nothing, Echo, NewAdapter(EchoRow))
    /\ conns = {}
    /\ mu = NoOne
    /\ handler = [h \in Handlers |-> Idle]
    /\ requests = 0
    /\ failed = FALSE
    /\ changedBy = [id \in Ids \cup {Echo} |-> NoOne]
    /\ outdated = {}

-----------------------------------------------------------------------------
\* A request arrives at goroutine h
Begin(h, request) ==
    /\ handler[h] = Idle
    /\ requests < MaxRequests
    /\ requests' = requests + 1
    /\ handler' = [handler EXCEPT ![h] = request]

Goto(h, place) == handler' = [handler EXCEPT ![h] = [at |-> place, id |-> @.id]]

\* h registers or removes the bot of its id
ChangesBot(h) == changedBy' = [changedBy EXCEPT ![handler[h].id] = h]

\* h wrote, or failed to write, the row of its id as it had left the bot
Settle(h, written) ==
    LET id == handler[h].id
        last == changedBy[id] = h
    IN  /\ outdated' = IF written /\ last THEN outdated \ {id} ELSE outdated \cup {id}
        /\ changedBy' = IF last THEN [changedBy EXCEPT ![id] = NoOne] ELSE changedBy

\* handleRegisterBackend up to CreateBackend; an id in use is refused
RegisterCreate(h) ==
    \E id \in Ids \ DOMAIN backends, type \in Types, enabled \in BOOLEAN :
        /\ Begin(h, [at |-> IF type = "ilink_proxy" THEN "bot" ELSE "reload", id |-> id])
        /\ backends' = Put(backends, id, [type |-> type, enabled |-> enabled])
        /\ UNCHANGED <<botRows, bots, nextToken, adapters, conns, mu, failed,
                       changedBy, outdated>>

\* ClientRegistry.Register: a bot that is there keeps its token
RegisterBot(h) ==
    /\ handler[h].at = "bot"
    /\ LET id == handler[h].id
           token == IF id \in DOMAIN bots THEN bots[id] ELSE nextToken
       IN  /\ bots' = Put(bots, id, token)
           /\ nextToken' = IF id \in DOMAIN bots THEN nextToken ELSE nextToken + 1
           /\ handler' = [handler EXCEPT ![h] =
                             [at |-> "save", id |-> id, token |-> token]]
    /\ ChangesBot(h)
    /\ UNCHANGED <<backends, botRows, adapters, conns, mu, requests, failed, outdated>>

\* Variant: the request ends without a reload
RegisterSaveOnly(h) ==
    /\ handler[h].at = "save"
    /\ botRows' = Put(botRows, handler[h].id, handler[h].token)
    /\ Settle(h, TRUE)
    /\ handler' = [handler EXCEPT ![h] = Idle]
    /\ UNCHANGED <<backends, bots, nextToken, adapters, conns, mu, requests,
                   failed>>

\* SaveVirtualBot, whose error is dropped
RegisterSave(h) ==
    /\ handler[h].at = "save"
    /\ \/ /\ botRows' = Put(botRows, handler[h].id, handler[h].token)
          /\ Settle(h, TRUE)
       \/ UNCHANGED botRows /\ Settle(h, FALSE)
    /\ Goto(h, "reload")
    /\ UNCHANGED <<backends, bots, nextToken, adapters, conns, mu, requests,
                   failed>>

\* handleUpdateBackend reads the row and changes the fields it was sent ...
UpdateRead(h) ==
    \E id \in DOMAIN backends :
        \E row \in [type : {backends[id].type} \cup Types,
                    enabled : BOOLEAN] :
            /\ Begin(h, [at |-> "update", id |-> id, row |-> row])
            /\ UNCHANGED <<backends, botRows, bots, nextToken, adapters, conns,
                           mu, failed, changedBy, outdated>>

\* ... and writes all of it back, where no row is no error; a failure ends the
\* request with nothing changed
UpdateWrite(h) ==
    /\ handler[h].at = "update"
    /\ LET id == handler[h].id
       IN  \/ /\ backends' = IF id \in DOMAIN backends
                             THEN [backends EXCEPT ![id] = handler[h].row]
                             ELSE backends
             /\ Goto(h, "reload")
          \/ /\ handler' = [handler EXCEPT ![h] = Idle]
             /\ UNCHANGED backends
    /\ UNCHANGED <<botRows, bots, nextToken, adapters, conns, mu, requests,
                   failed, changedBy, outdated>>

\* handleRemoveBackend: DeleteBackend ...
RemoveDelete(h) ==
    \E id \in Ids \cup {Echo} :
        /\ Begin(h, [at |-> "unregister", id |-> id])
        /\ backends' = Without(backends, id)
        /\ UNCHANGED <<botRows, bots, nextToken, adapters, conns, mu, failed,
                       changedBy, outdated>>

\* Variant: the bot stays registered
RemoveKeepsBot(h) ==
    /\ handler[h].at = "unregister"
    /\ ChangesBot(h)
    /\ Goto(h, "delete")
    /\ UNCHANGED <<backends, botRows, bots, nextToken, adapters, conns, mu,
                   requests, failed, outdated>>

\* ... Unregister ...
RemoveBot(h) ==
    /\ handler[h].at = "unregister"
    /\ bots' = Without(bots, handler[h].id)
    /\ ChangesBot(h)
    /\ Goto(h, "delete")
    /\ UNCHANGED <<backends, botRows, nextToken, adapters, conns, mu, requests,
                   failed, outdated>>

\* ... and DeleteVirtualBot, whose failure ends the request without a reload
RemoveSaved(h) ==
    /\ handler[h].at = "delete"
    /\ \/ /\ botRows' = Without(botRows, handler[h].id)
          /\ Settle(h, TRUE)
          /\ Goto(h, "reload")
          /\ UNCHANGED failed
       \/ /\ failed' = TRUE
          /\ Settle(h, FALSE)
          /\ handler' = [handler EXCEPT ![h] = Idle]
          /\ UNCHANGED botRows
    /\ UNCHANGED <<backends, bots, nextToken, adapters, conns, mu, requests>>

-----------------------------------------------------------------------------
\* Variant: the factory is not emptied first
ReloadOnTop(h) ==
    /\ handler[h].at = "reload"
    /\ mu = NoOne
    /\ mu' = h
    /\ Goto(h, "list")
    /\ UNCHANGED <<backends, botRows, bots, nextToken, adapters, conns, requests,
                   failed, changedBy, outdated>>

\* reloadAdapters: take the mutex, Reset the factory ...
ReloadReset(h) ==
    /\ handler[h].at = "reload"
    /\ mu = NoOne
    /\ mu' = h
    /\ adapters' = Nothing
    /\ conns' = {}
    /\ Goto(h, "list")
    /\ UNCHANGED <<backends, botRows, bots, nextToken, requests, failed, changedBy,
                   outdated>>

\* ... list the backends (a failure is logged, and none are loaded) ...
ReloadList(h) ==
    /\ handler[h].at = "list"
    /\ \/ /\ handler' = [handler EXCEPT ![h] = [at |-> "fill", id |-> @.id,
                                                rows |-> Loadable(backends)]]
          /\ failed' = FALSE
       \/ /\ handler' = [handler EXCEPT ![h] = [at |-> "fill", id |-> @.id,
                                                rows |-> Nothing]]
          /\ failed' = TRUE
    /\ UNCHANGED <<backends, botRows, bots, nextToken, adapters, conns, mu,
                   requests, changedBy, outdated>>

\* ... register the adapter of each ...
ReloadRegister(h) ==
    /\ handler[h].at = "fill"
    /\ \E id \in DOMAIN handler[h].rows :
          /\ adapters' = Put(adapters, id, NewAdapter(handler[h].rows[id]))
          /\ handler' = [handler EXCEPT ![h] = [at |-> "fill", id |-> @.id,
                                                rows |-> Without(@.rows, id)]]
    /\ UNCHANGED <<backends, botRows, bots, nextToken, conns, mu, requests,
                   failed, changedBy, outdated>>

\* ... list the virtual bots, or fail to, and register their connections ...
ReloadConnections(h) ==
    /\ handler[h].at = "fill"
    /\ DOMAIN handler[h].rows = {}
    /\ \/ conns' = DOMAIN botRows /\ UNCHANGED failed
       \/ failed' = TRUE /\ UNCHANGED conns
    /\ Goto(h, "echo")
    /\ UNCHANGED <<backends, botRows, bots, nextToken, adapters, mu, requests,
                   changedBy, outdated>>

\* Variant: the mutex is not released
ReloadEchoHoldsMutex(h) ==
    /\ handler[h].at = "echo"
    /\ adapters' = Put(adapters, Echo, NewAdapter(EchoRow))
    /\ handler' = [handler EXCEPT ![h] = Idle]
    /\ UNCHANGED <<backends, botRows, bots, nextToken, conns, mu, requests,
                   failed, changedBy, outdated>>

\* ... register the echo adapter, table or no table, and release the mutex
ReloadEcho(h) ==
    /\ handler[h].at = "echo"
    /\ adapters' = Put(adapters, Echo, NewAdapter(EchoRow))
    /\ handler' = [handler EXCEPT ![h] = Idle]
    /\ mu' = NoOne
    /\ UNCHANGED <<backends, botRows, bots, nextToken, conns, requests, failed,
                   changedBy, outdated>>

\* The process exits, at any point, and starts again (main.go): adapters from the
\* enabled rows, proxies wired by SetupProxyAdapters, connections and bots from
\* their rows.  A listing that fails is like an empty table; if no backend was
\* listed, the echo backend is registered, and its row created if that succeeds.
RestartRegistry ==
    /\ \E readBackends, readBots \in BOOLEAN :
          LET listed == IF readBackends THEN backends ELSE Nothing
          IN  /\ \/ UNCHANGED backends
                 \/ /\ DOMAIN listed = {} /\ Echo \notin DOMAIN backends
                    /\ backends' = Put(backends, Echo, EchoRow)
              /\ adapters' = IF DOMAIN listed = {}
                             THEN Put(Nothing, Echo, NewAdapter(EchoRow))
                             ELSE [id \in DOMAIN Loadable(listed) |->
                                      [type |-> listed[id].type,
                                       wired |-> listed[id].type = "ilink_proxy"]]
              /\ bots' = IF readBots THEN botRows ELSE Nothing
              /\ outdated' = IF readBots THEN {} ELSE DOMAIN botRows
              /\ failed' = ~(readBackends /\ readBots)
    /\ conns' = DOMAIN bots'
    /\ mu' = NoOne
    /\ handler' = [h \in Handlers |-> Idle]
    /\ changedBy' = [id \in Ids \cup {Echo} |-> NoOne]
    /\ UNCHANGED <<botRows, nextToken, requests>>

HandlerStep(h) ==
    \/ RegisterBot(h)
    \/ RegisterSave(h)
    \/ UpdateWrite(h)
    \/ RemoveBot(h)
    \/ RemoveSaved(h)
    \/ ReloadReset(h)
    \/ ReloadList(h)
    \/ ReloadRegister(h)
    \/ ReloadConnections(h)
    \/ ReloadEcho(h)

RegistryNext ==
    \/ \E h \in Handlers : \/ RegisterCreate(h)
                           \/ UpdateRead(h)
                           \/ RemoveDelete(h)
                           \/ HandlerStep(h)
    \/ RestartRegistry

RegistrySpec == Init /\ [][RegistryNext]_registryVars

\* Every goroutine that can take a step takes one; the mutex is handed over
\* (the requests being bounded, no handler can be overtaken for ever)
FairRegistrySpec == RegistrySpec /\ \A h \in Handlers : WF_registryVars(HandlerStep(h))

-----------------------------------------------------------------------------
Quiet == \A h \in Handlers : handler[h] = Idle

\* Type invariant; the mutex is held by exactly the handler that refills.
RegistryTypeOK ==
    /\ DOMAIN backends \subseteq Ids \cup {Echo}
    /\ DOMAIN botRows \subseteq Ids
    /\ DOMAIN bots \subseteq Ids
    /\ nextToken \in Nat \ {0}
    /\ \A id \in DOMAIN adapters : adapters[id].type \in Known
    /\ conns \subseteq Ids
    /\ \A h \in Handlers : (mu = h) <=> handler[h].at \in {"list", "fill", "echo"}
    /\ requests \in 0..MaxRequests
    /\ outdated \subseteq Ids \cup {Echo}

\* Once no request is in progress, the factory has an adapter of the right type
\* for each enabled backend of a known type and for no other, and a connection for
\* each virtual bot - however the requests overlapped, because each writes before
\* it reloads and the last reload lists after every write.  Excused: a listing that
\* failed at boot or in the last refill, a removal that failed halfway since, and
\* the echo adapter, which a reload registers without a row.
FactoryMatchesTables ==
    (Quiet /\ ~failed) =>
        /\ [id \in DOMAIN adapters \ {Echo} |-> adapters[id].type]
             = [id \in DOMAIN Loadable(backends) \ {Echo} |-> backends[id].type]
        /\ conns = DOMAIN botRows

\* The bot and the row of id are both there, with one token, or both not.
Agree(id) ==
    /\ id \in DOMAIN bots <=> id \in DOMAIN botRows
    /\ id \in DOMAIN bots => bots[id] = botRows[id]

\* Once no request is in progress, the bots that can authenticate are those of the
\* table, with the tokens of the table ("the token stays the same after a
\* restart", backend_handler.go:107), but for ids where the last request to write
\* the row failed to, or had been overtaken: another one registered or removed the
\* bot after it did and before it wrote the row.  A failed write and an overtaken
\* one are the only ways, and the next registration or removal of that backend that
\* is not overtaken sets it right, as does a restart.
BotsMatchRows == Quiet => \A id \in Ids \ outdated : Agree(id)

\* A message for an enabled backend is refused as unknown only if there is no adapter
\* for its type, a refill is under way or sure to come, a listing failed at boot or
\* in the last refill, or a removal failed halfway since.
MissingHasACause ==
    \A id \in DOMAIN EnabledRows(backends) :
        id \notin DOMAIN adapters =>
            \/ backends[id].type \notin Known
            \/ failed
            \/ mu # NoOne
            \/ \E h \in Handlers : handler[h].at \in {"bot", "save", "reload"}

\* Every request ends: no handler waits for ever for the mutex of another, also
\* when a database call fails while the mutex is held.
EveryRequestEnds == \A h \in Handlers : (handler[h] # Idle) ~> (handler[h] = Idle)

\* ilink_proxy.go:84: Handle enqueues the message to the virtual bot, and the
\* reply comes later.  For that the enqueue function must be set in every proxy
\* adapter the pipeline can find when no request is in progress.
ProxiesCanEnqueue ==
    Quiet => \A id \in DOMAIN adapters :
                 adapters[id].type = "ilink_proxy" => adapters[id].wired
=============================================================================
