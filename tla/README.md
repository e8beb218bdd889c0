# ClawBot Gateway: TLA+ models, checks and proofs

The gateway connects WeChat accounts (through the iLink API) to chat backends.
It polls each account, routes each message to a backend, and either answers at
once (an HTTP backend) or offers the message to an external service that polls
a *virtual bot* of the gateway and answers later (an `ilink_proxy` backend). An
admin API changes accounts, backends and rules while messages flow. The state
lives in memory and in SQLite, and boot rebuilds the first from the second.

This directory models the parts of that system whose steps interleave. Paths
below are relative to the repository root. `PROJECT.json` says, per definition,
which source lines it stands for, and lists the runs, the mutants (the bugs each
property would find), the findings, the hazards and the theorems.

## 1. The system

### Components

| component | code | state | operations |
|---|---|---|---|
| account connector | `internal/bot/account.go`, `internal/api/wechat_handler.go` | list of accounts with a cancel function each; one goroutine per account with its cursor; `msgChan` (1000); table of accounts, cursor per account | `AddAccount`, `RemoveAccount`, poll loop, QR login confirmed, save, disconnect |
| message pipeline | `internal/api/pipeline.go`, `main.go` | one goroutine, a WaitGroup, a context | receive, parse commands, route, forward, enqueue, answer, recover from a panic, drain |
| routing engine | `internal/route/router.go` | list of rules, session overrides, default backend | `AddRule`, `UpdateRule`, `RemoveRule`, `LoadRules`, `Route`, `SetUserBackend` |
| rule administration | `internal/api/route_handler.go`, `internal/database/route_rules.go` | table `route_rules` | create, update, delete, toggle, reorder, reload |
| backend registry | `internal/api/backend_handler.go`, `internal/adapter/factory.go`, `internal/ilink/registry.go` | tables `backends` and `virtual_bots`; factory of adapters and connections; registry of bots; server mutex | register, update, remove, `reloadAdapters` |
| virtual bot | `internal/ilink/registry.go`, `internal/ilink/handler.go` | queue, one-slot channel `notify`, `LastAccountID` | `Enqueue`, `Dequeue`, `getupdates`, `sendmessage` |
| user sessions | `internal/api/user_handler.go`, commands of the pipeline | override in the engine, table `user_sessions` | `/use`; admin switch, clear and mode |
| session context | `internal/session/context.go` | history per user and backend | get, add a turn, expire |
| QR login | `internal/bot/qrlogin.go`, `web/src/components/QrModal.tsx` | active scans, one goroutine each; the dialog | create, poll with refresh and deadline, check; the dialog opens, asks, fetches a new code |
| logs | `internal/log/log.go` | ring buffer per component, subscribers | append with merging, filter, stream |
| rate limits | `internal/ilink/ratelimit.go`, `internal/notify/handler.go`, `internal/api/token_handler.go` | token buckets, windows, lock-out counters | allow, clean up |
| the rest | sending, media, HTTP adapters, JWT, configuration, the other pages, desktop shell | none that interleaves | |

### How they interact

    iLink server --poll--> poll loop --msgChan--> processLoop --+--> HTTP backend --> answer
         ^                    |                      |          |
         |                 cursor -> SQLite       Router.Route  +--> proxy adapter --> VirtualBot.queue
         |                                           ^                                    |
         |                                   admin API (rules, backends,             getupdates
         |                                   accounts) <--> SQLite                        v
         +---- FindAccountCredentials(LastAccountID) <----- sendmessage ---------- external service

* The poll loops and the pipeline share only `msgChan`; when it is full a message
  is dropped.
* The admin requests write SQLite first and call the component in memory next,
  with no lock around both. The pipeline reads that memory between any two of
  their steps.
* The factory is emptied and refilled under a mutex that the pipeline does not
  take.
* `Enqueue` and `Dequeue` share the queue (under a lock) and `notify` (outside it).
* A user's choice of a backend is written by commands (engine only) and by admin
  requests (table first, engine next); boot restores the table's.
* At a signal `main` cancels the context of the pipeline, waits for its WaitGroup or
  15 s, shuts the API down and removes the accounts.
* A scan goroutine and the requests of the login dialog share the map of active
  scans; the dialog asks on a timer and its requests overtake each other.
* A goroutine that logs appends to a buffer under one lock and tells the streams
  under another.

### What is hard here

Interleaving of two requests on one account, rule or backend; reads of the factory
in the middle of a refill; an old poll loop beside the new one of the same account;
answers that parse but carry no cursor; wake-ups sent to a poll that does not wait yet; a crash between delivery and the
save of the cursor; boot rebuilding state by other code than the requests, and going on
without what it could not list; failed database calls in the middle of a request; the account an answer leaves through; a
panic, a cancelled context or a shutdown in the middle of a message; a login dialog
that hears the end of an older code; sessions that expire while a backend works with
them; limits across the moments they start anew.
`PROJECT.json` lists these at their lines, with the properties that cover them.

### What makes each component correct

* **Virtual bot queue**: each message goes to one poll, in order, and no poll sleeps
  beside a message.
* **Account connector**: one live loop per account; the cursor never runs ahead of
  the delivery; the table and the list agree; repeats need a cause; a listed account
  is polled.
* **Routing**: decisions follow the table: priority rules, then the user's choice,
  then the other rules by priority, then the default; never a half-applied change.
* **Backend registry**: at rest the factory and the registry of bots are what the
  tables say; requests end.
* **Proxy backends**: a message taken can be answered, and the answer leaves through
  the account its message came from.
* **Pipeline**: each message is ended with once, and not without an answer or a queue
  to be answered from; what was in flight at a signal is waited for; the loop always
  runs.
* **User sessions**: the choice in memory is the one a restart restores.
* **Session context**: one session per user and backend, its history whole and in
  order.
* **QR login**: a scan can be found by its code; a confirmed login is completed; a past
  login does not come back; the loop runs with the saved token.
* **Logs**: buffers account for all calls; streams get what buffers got.
* **Rate limits**: no stretch of time carries more than the limit says, whatever
  windows and clean-ups it crosses.

## 2. Modules

| module | models | composes |
|---|---|---|
| `Mailbox` | abstract specification of a virtual bot's queue | |
| `VirtualBotQueue` | `Enqueue`, `Dequeue`, `getupdates`, lock by lock | implements `Mailbox` |
| `VirtualBotQueueProofs` | the theorems | extends `VirtualBotQueue` |
| `Delivery` | abstract specification of what the connector promises the pipeline | |
| `AccountPolling` | accounts, poll loops, cursors, `msgChan`, crash and boot | implements `Delivery` |
| `AccountPollingProofs` | the theorems | extends `AccountPolling` |
| `Router` | the routing engine as pure operators on a list of rules | |
| `RouteRules` | rule requests, table and engine | extends `Router` |
| `RouteRulesProofs` | the theorems, those about `Router` included | extends `RouteRules` |
| `BackendRegistry` | backend requests, tables, factory, registry of bots | |
| `ProxyBackends` | messages through proxy adapters and back | extends `BackendRegistry` |
| `ProxyBackendsProofs` | the theorems about both | extends `ProxyBackends` |
| `Pipeline` | `processLoop`, commands, answers, users' choices, drain, crash, boot | extends `Router` |
| `PipelineProofs` | the theorems | extends `Pipeline` |
| `QRLogin` | scans, the login requests, the dialog, the token a loop runs with | |
| `QRLoginProofs` | the theorems | extends `QRLogin` |
| `SessionContext` | the map of sessions and its callers | |
| `LogBuffer` | buffers, streams, readers | |
| `LogBufferProofs` | the theorems | extends `LogBuffer` |
| `RateLimits` | token bucket, notification window, login pause | |
| `PerKeyProofs` | the theorems about the two maps that keep a state per key | extends `SessionContext`, `RateLimits` |
| `MC...` | values for TLC, symmetry | extends the module named |

A definition whose comment starts with "Variant" is a wrong form of the definition
after it. No specification uses it; it is the bug the mutants of `PROJECT.json`
put in.

### VirtualBotQueue

Messages are numbered as `Enqueue` appends them, so order is the order of numbers.
`queue` is `VirtualBot.queue`, `notify` is whether the channel holds its token,
`producer` and `consumer` say where each goroutine stands between two locked
regions, `batch` is the answer being written. `Enqueue` is two steps
(`EnqueueAppend` under the lock, `EnqueueSignal` after it), `Dequeue` up to three:
the fast path, the `select` (`WakeUp` or `TimerFires`), the second look
(`AfterWait`). `HangUp` is the client closing its connection: `Dequeue` ignores the
context, so the poll goes on and what it takes is `lost`. `delivered`, `lost` and
`wakeups` are history. The refinement maps the queue to `pending`, the answers being
written to `hand`; every step of `notify` and of the control is a stutter of the
mailbox.

### AccountPolling

A poll loop lives in a *slot*, so that the cancelled loop of a removed account can
run beside the new one. Its record holds its place in `accountPollLoop`, its own
cursor `buf`, the batch it delivers, and whether its context is done. A cursor is
the number of the last message fetched. `Poll(s)` is the disjunction of the places:
load the cursor, top of the loop, the failing answers with their pauses (a pause
that is cut by the context saves the cursor, as in the code), fetch, one step per message
pushed or dropped, then the cursor is advanced and saved. The code looks neither at the
HTTP status nor at whether the answer has a cursor: any JSON without `ret` and `errcode`
counts, and an empty `get_updates_buf` is saved like any other, which deletes the row; so
`Advance` may also take loop and row back to the beginning. A save that fails is only
logged (`SaveSyncBuf`), a cursor that cannot be read counts as none (`Load`). `rewound`
remembers the accounts fetched from the beginning for either reason, `unsaved` the failed
saves. A request is its database write (`QRConfirmed`, `SaveWechatAccount`,
`DisconnectAccount`), its call of the connector, and, for a saved account, its return,
which ends the context of the loop it started. `Crash` forgets the memory; `Boot` starts a
loop for every row, or, when the rows cannot be listed, for none. `overlapped`, `excused`
and `offered` are history: the causes that the properties allow and the effects they
bound. An account is `excused` from the time the connector was last told of it by a request
that was out of date (its save had failed, or another request had changed the row since)
and none that agrees with the table was still to call, or that boot could not list it; the
next call that agrees with the table ends that.

`Delivery` is the same component as the pipeline sees it: messages are *held* by the
server, offered to the channel in order and without a gap, and covered by a saved cursor
that says no more than what was offered. An account is *replayable* once something went
wrong with it (two loops, a failed read or save, an answer without a cursor, a crash), and only then is a message
offered again, one the saved cursor does not cover; it is *adrift* while two loops fetch it
or one that lost its cursor, and only then does the cursor go back or not
protect. Loops, slots, requests and the list do not occur in it: their steps are stutters.

### Router and RouteRules

A message is the set of tests it passes, so a condition is a test and a negation;
the five operators on the four fields of a message are one membership test. `Route`
is the three-layer decision of the code. `SortRules` is the exchange sort of the code, a
recursive function for each of its two loops: it compares priorities alone and does not
keep the order of rules of equal priority. In `RouteRules` a request is `Begin...` (validation and the SQL statement,
atomic in SQLite) and `Finish...` (the call of the engine), with `ReloadList` and
`LoadRules` for the requests that reload, and `ReloadFails`. `db` is the table,
`rules` the list of the engine. A request in progress remembers the table before it
(`before`). `stale` says that two requests overlapped, or that the table could not be
listed for a reload or at boot (the engine then starts empty), and that since then no
request that reloads ran alone and no restart listed the table; `flagsLost` that boot has
loaded the engine.

### BackendRegistry and ProxyBackends

Tables are functions from ids to rows. `adapters` maps an id to the type of its
adapter and to whether its enqueue function is set; `mu` is the mutex of
`reloadAdapters`. A request is one step per database call, each of which may fail
where the code has an error path, followed by the steps of the reload: reset, list,
register, connections, echo. The handlers accept any non-empty type, and a reload and a
boot pass over a row whose type has no adapter (`Loadable`). `RestartRegistry` may fail to
list the backends, which leaves `echo` alone, or the virtual bots, which leaves none.
`failed` says that a listing failed at boot or in the last refill, or that a removal ended
halfway since. `changedBy` names the request that last registered or removed a bot in
memory, until it writes the row, and `outdated` collects the ids whose row was last to be written by a request that
failed to or that another had overtaken in memory, and those boot could not read.
`ProxyBackends` adds `processLoop`, which keeps the
adapter and the bot it looked up while requests replace them, the write of
`LastAccountID` in two halves (a Go string is two words, and the write takes no lock
that the readers take), and the external service. A bot is its token; a removed and
registered id has a new bot with an empty queue, and a poll that found the old bot before
its removal goes on emptying the old queue.

### Pipeline

`loop.at` is the place of `processLoop` between two reads of state that others change:
received, parsing, using (`/use` looks the backend up twice), forwarding, in `Handle`,
with the reply, with an apology, finishing. A text is a command, the backend it names,
whether words follow, and the routing tests it passes; the user and the text of a
message are chosen where the code first looks at them. An answer (`Answer`) needs the
credentials of the account and, if it is sent with the pipeline's context, a context
that is not done; it may fail, which the code only logs (`fate` "unsent"), and a response
without a message, or with one of an unknown form, sends nothing (`SaysNothing`, `fate`
"silent"). `inFlight` is the WaitGroup, `main` the place of `main` in its
shutdown. `choice` is `Router.userBackends`; `table` is `user_sessions`, where a row
with an empty `backend_id` (`Blank`) is told from no row. A request on a user is two
steps: the statement, whose error is ignored, and the call of the engine. `fate` says
how the pipeline ended with each message; `orphaned`, `pledged` and `excused` are the
history the properties refer to. The rules stand still (`RouteRules` moves them), the
factory and the list of accounts change by single calls (their requests are in
`BackendRegistry` and `AccountPolling`), and the type of an adapter is left open:
`Handle` may return an answer, an error or nothing, or panic.

### QRLogin

A scan is named by the code it was created for and holds the code it polls now;
`active` is the map from codes to scans. `Ask` is one poll and what it keeps under the
lock, `Refresh` moves the scan to a new code, `Leave` is the deferred delete.
`handler[h]` is a request of the dialog on its way to the gateway, in it, or its answer
on the way back: `Check` copies the scan's state, `CheckSaves` writes the account,
`CheckAdds` calls `AddAccount`, and the answer changes whatever the dialog shows by
then: an answer "scanned" even starts the stopped timer of a dialog again
(`AnswerRevives`), and its button fetches another code (`DialogRenews`). The k-th
confirmation gives token k, so tokens are ordered by age; `past` holds the tokens that left
the table. `cause` says why the loop may run without the saved token: the last call of the
connector was out of date or boot could not list the account ("outdated"), or it was
refused because the account is listed ("refused").

### SessionContext, LogBuffer, RateLimits

Small modules written to be proved about. In `SessionContext` an id is the sequence of the
parts between its colons, and the key of a pair is the two sequences one behind the other:
`buildKey` joins two ids by a colon, so two pairs may have one key. A caller looks a session
up under the read lock (`Look`), makes one under the write lock after a second look
(`Create`), holds it while the backend works, adds a turn and leaves; anything may take
the session out of the map meanwhile. In `LogBuffer` a call finds its buffer and
appends (`Log`) and then tells the streams (`Notify`); a request copies one buffer
after the other (`Snap`). In `RateLimits` time is a number of ticks; the tokens of a
bucket, a float in the code, are counted in parts of which a tick refills one. `Mark`
starts counting at any moment, so a limit is a statement about every stretch of time.

## 3. Runs

| run | configuration and bounds | result |
|---|---|---|
| `queue` | 1 producer, 2 polls, 3 messages, with fairness | holds |
| `accounts` | 1 account, 2 slots, 2 requests, 2 messages, `msgChan` of 1, 1 fault (a crash, a failed read or save of the cursor, or an answer without one) | holds |
| `accounts_live` | 1 account, 2 slots, 1 request, 1 message, 1 fault, with fairness | holds |
| `accounts_listed` | the same, without fairness and faults | violated: finding 1 |
| `rules` | 3 rule bodies, up to 3 rules, 2 requests at a time, 4 in all, 4 messages | holds |
| `rules_restart` | 1 request at a time, 2 rules | violated: finding 2 |
| `registry` | 2 requests at a time, 3 in all, 1 id and `echo`, 3 types of which one is unknown, with fairness | holds |
| `registry_wired` | 1 request, the same types | violated: finding 3 |
| `proxy` | 2 requests at a time, 3 in all, 2 types, 2 accounts, 2 messages | holds |
| `proxy_reply` | 1 request, 2 accounts, 2 messages | violated: finding 4 |
| `pipeline` | 1 user, 1 backend, 8 texts, 1 priority rule, 2 messages, 2 requests, 1 upset | holds |
| `login` | 2 codes, 1 refresh, 2 requests at a time, 1 upset, with fairness | holds |

Why the bounds are enough. In the queue only the pipeline calls `Enqueue` today, and
two polls are what it takes for one to take what the other was woken for; three
messages give a batch of two beside a later one. The proofs cover every bound. In
`AccountPolling` two slots hold the old and the new loop of one account, two messages
make a batch that can be half delivered, and a channel of one makes drops happen;
accounts do not share anything but the channel. Two concurrent requests are the
smallest overlap in every admin module, and the request bounds allow a request before,
one beside and one after. The rule bodies are an ordinary rule, one with a smaller
priority number, and a priority rule with the same number as the first, with both
kinds of logic and a negation. In `Pipeline` two messages are one in flight and one
behind it, two requests are the smallest overlap, and the texts are one for each branch
of the parser; users and backends share nothing but the factory, so one of each will
do. One upset is a panic, an answer that is not sent, a response that says nothing, a
reset of the factory, a failed statement, a removed account or an unreadable table at
boot; signals, crashes and restarts are free. In `QRLogin`
two codes are an older and a newer one, fetched by the dialog or by a refresh, and two
requests are enough to overtake each other. `registry` has a type of each kind: proxy,
answering at once, unknown; `proxy` leaves the unknown one out, because a disabled row is
as much without an adapter. All these bounds are CONSTANTS.

**Symmetry** is used only in the runs that check no liveness (`accounts`, `rules`,
`proxy`, `pipeline`), on requests, slots and (in `proxy`) accounts, which no
definition tells apart.

**Deadlock** is checked wherever the runs do not set `CHECK_DEADLOCK FALSE`; none does:
in every model something can still happen in its last states (a poll, a restart, a
client).

**Fairness.** Goroutines that can run do run, so each step of a goroutine that waits
for nothing outside is weakly fair. `PromptSpec` leaves the 35 s timer of `Dequeue`
out, so that `WaiterGetsMessage` shows the wake-up to come from `Enqueue`;
`EveryPollAnswered` takes the timer as its hypothesis. In `AccountPolling`, `SF` on a
`Fetch` that finds messages says that the iLink server does not answer a loop with errors for ever. In
`BackendRegistry` weak fairness of each request is enough because the number of requests
is bounded, so nobody can be overtaken at the mutex for ever; `sync.RWMutex` hands
over to the longest waiting in any case. In `QRLogin` a scan, a request that is being
served and the timer of an open dialog are weakly fair: iLink does not answer with
errors for ever, and a dialog that asks goes on asking. Nothing is assumed about
clients, phones, administrators or crashes.

### Findings

1. `ListedIsPolled` (`internal/api/wechat_handler.go:181`): the loop of an account saved over
   the API gets the context of the request and ends with it; the account stays listed.
2. `PriorityRulesComeFirst` (`main.go:103`): boot loads rules without `IsPriority`.
3. `ProxiesCanEnqueue` (`internal/api/backend_handler.go:253`): any change of the backends
   leaves every proxy adapter without its enqueue function.
4. `RepliesThroughSource` (`internal/api/pipeline.go:388`): one `LastAccountID` per bot, so answers
   to one account can leave through another.

The other properties hold with the causes written in them. Where overlapping requests
or failed calls do leave memory and table different (`RecordsSynced`, `BotsMatchRows`,
`LoopHasSavedToken`, `MemoryMatchesDatabase`, `FactoryMatchesTables`, `ChoiceMatchesTable`),
the property says which histories do, and that the others, however they overlap, do not:
for accounts, bots and tokens only a request that was overtaken between its two halves or
whose write failed, for the factory only a failed listing or a removal that ended halfway,
and for all of them a boot that could not list the table. For rules any overlap is
excused until a reload runs alone, for a user's choice until a request on that user runs
alone, and for both until a restart.

### Where docs and code part

Seen while modelling, and without a run of their own; the models do what the code does.

* `main.go:251` and `internal/api/pipeline.go:108` say that in-flight messages are
  processed to their end at shutdown. `pipelineCancel()` comes first, so an answer that
  is sent with the pipeline's context is cut (`fate` "cut" of `Pipeline`).
* `README.md:213`, `docs/DESIGN.md:922` and the help text (`internal/api/pipeline.go:671`)
  call `/use` permanent. It changes memory only, and a restart restores the older saved
  choice, or none.
* `internal/api/user_handler.go:44`: a switch is saved before it is validated, the
  refusal is logged and the request answered with success; a restart then restores the
  refused choice. A mode request whose read fails writes a row with an empty backend.
* `docs/DESIGN.md:1243` promises a history per user and backend. `AddTurn` is called by
  `HandleDirectMessage` only, which nothing but tests calls. `SplitMessage`,
  `SendTextWithCredsChunked`, `SendOutgoingMessage`, `typingKeepalive` and `StopScan`
  have no caller either.
* `CleanupExpired` reads `LastActive` without the lock of the session, and `GetContext`
  does not renew it: a session can expire while a backend works with it.
* A refreshed QR code never reaches the dialog (`internal/bot/qrlogin.go:175`), which
  goes on asking for the old one and hears "unknown".
* A login of a listed account saves the new token, `AddAccount` refuses it and the loop
  keeps the old one; the dialog reports success, also when the save failed. A late
  answer about an older code closes a dialog that was opened again.
* `BufferGroup.Entries` sorts newest first and cuts before it filters
  (`internal/log/log.go:303`), while `web/src/pages/LogPage.tsx:131` expects oldest
  first; the page can show an entry twice, or miss one, between its first request and
  its stream.
* A cursor that cannot be read counts as none (`internal/database/db.go:160`): the
  account is polled from the beginning. So does an answer without `get_updates_buf`
  (`internal/bot/account.go:192`), whatever its HTTP status; saving it deletes the row
  (`internal/database/db.go:168`). The gateway's own iLink server never
  sends a cursor (`internal/ilink/handler.go:40`).
* Boot goes on without what it cannot list: no accounts (`main.go:207`), no rules
  (`main.go:98`), no backends but `echo` (`main.go:131`), no virtual bots (`main.go:163`),
  until the next restart or reload.
* A backend of any type is saved and enabled (`internal/api/backend_handler.go:76`, `:147`),
  but one of an unknown type gets no adapter (`internal/adapter/registry.go:31`) and the
  reload passes over it in silence.
* `internal/session/context.go:116` says that clearing a user matches its id exactly. The
  key of a session is the two ids joined by a colon, so clearing a user whose id has a
  colon clears nothing, clearing "a" also clears "a:b", and two pairs of ids can share a
  session. No other code restricts ids; those of WeChat users have no colon.
* A changed password is kept in memory only (`internal/api/token_handler.go:132`).
* Two bursts of notifications fit around the end of a window
  (`internal/notify/handler.go:54`).

## 4. Proofs

TLC checks a property for the bounds of a run; the theorems below hold for all values of
the constants that satisfy the `ASSUME` of the module named. An inductive invariant that
is stronger than the property is named and its need explained; each was checked by TLC
before it was proved. Every module first proves its types, strengthened by what the
steps need to keep them.

### VirtualBotQueueProofs

From `QueueAssumption` alone:

* `TypeCorrect`, the invariant all others build on.
* `QueueHoldsNewest`: the queue is the interval of the newest messages, in order. It
  is inductive given the types: `EnqueueAppend` adds `sent + 1`, and every other locked region
  empties the queue or leaves it.
* `WakeupNeverLost`: a message in the queue means a token, a signal about to be
  sent, or a woken `Dequeue` about to take the queue. The case that matters is
  `EnqueueSignal` with the channel full: the token that is there does the work.
* `MessagesConserved`: every message is in exactly one place, and each connection gets
  its messages in order. Neither half is inductive alone: that a batch taken is new to the
  poll and later than what it had needs the interval of `QueueHoldsNewest` and the disjointness of the
  other places, so the lemma `PlacesStep` carries both through each action.
* `ConnectionsInOrder`: the second half of that invariant.
* `QueueImplementsMailbox`: the initial state maps to an initial state and each
  step to a step or a stutter of `Mailbox` (`MailboxStep`), using the invariants above.
* `WakeupsAlwaysPaidFor`: the sum of the token, the producers about to signal and the
  wakeups used never exceeds the messages sent. The invariant `TokensPaidFor` counts the
  producers with `Cardinality`; only `EnqueueAppend` adds one, and it sends a message.

### AccountPollingProofs

The nine steps of a poll loop are six kinds (load the cursor, move, stop, fetch, deliver,
advance, the last with or without a cursor in the answer). `PollKinds` says once what each kind leaves of the loop, `NextKinds` does the
same for requests, boot and crash, and the proofs go by kinds.

* `TypeCorrect`.
* `NothingSkipped` from `CursorInv`: not only the cursor in the database was offered in
  full, but the one each loop holds, since it will be saved, and while a loop delivers
  everything before its next message.
* `OnePoller` from `PollerInv`: a loop that is not cancelled is the one the list names.
  The proof rests on `RemoveAccount`, which cancels and deletes the entry under one lock,
  and on `AddAccount`, which refuses a listed account.
* `CursorGoesForward`, an action property, from `RegressInv`: while an account has had no
  two loops at once, no failed read and no answer without a cursor, it has one loop, whose
  cursor is at or after the one in the database.
* `OfferedOnce` from `ReplayInv`: without a cause the messages offered are 1 up to where
  the loop stands, or without a loop up to the cursor in the database. The property says
  only that none was offered twice, which no step can be seen to keep without knowing
  where the next loop starts.
* `PollingImplementsDelivery`, the refinement. A delivery is an `Offer` because of
  `CursorInv` (no gap), `ReplayInv` (again only if replayable) and `RegressInv` (only above
  the saved cursor unless adrift); a save is a `Save` for the first and the last of these;
  and `ArrivedInv` says that cursors and batches never exceed what the server holds. An account that
  gets its second loop goes adrift by a step of its own (`PromiseMarred`).
* `ListedLoopsGoOn`, an action property: while an account stays listed, its loop goes on
  polling unless the request it was started in returns. That is finding 1 from the other
  side: nothing else parts the list from the loops, and an account that was added at boot
  or by a QR login, which pass `context.Background()`, is not exposed to it.
* `RecordsAgree` from `RecordInv`: table and list differ in an account only while a request
  that agrees with the table has yet to call the connector, or if the account is excused.
  Any number of requests may overlap: a statement makes its own request one that agrees and
  those against it ones that do not, and a call by one that does not agree is excused
  only if nobody is left to repair it.

### RouteRulesProofs

Two parts. The first is about the operators of `Router`, for lists of any length:

* `SortRulesSorts`: the exchange sort sorts and loses nothing. The loops are recursive
  functions on intervals. The lemma `Folded` shows that a function that hands a value on
  from index to index has a value everywhere, each in the set given for its index; it
  goes by the least index without one (`Least`: a set of numbers that has an element has
  a least one), so no induction principle is needed. `AddRuleFacts`, `UpdateRuleFacts`
  and `RemoveRuleFacts` say what the operations keep, how often an id occurs included.

The second is about the requests:

* `TypeCorrect`. That no rule is in the list three times needs `ListInv`: a reload may
  have listed a rule whose creator has not called `AddRule` yet, so such a rule is there
  once at most, and twice after that call.
* `OrderIsKept` (`SortedWithinClass`) with it: the list is in order of priority in each
  class, after `RemoveRule` and `UpdateRule` in place too.
* `EngineHasTheTable` from `AloneInv` and `MatchInv`: unless `stale`, a request is alone,
  the rows it has read are those of the table, and between its statement and its call the
  list matches the table *before* the statement.
* `RoutesAsTheTableSays` (`RoutesByTable`): if boot has dropped no flag either, a message
  then goes to a matching rule of least priority number in the first class that decides,
  whatever order the sort left rules of equal priority in.

### ProxyBackendsProofs

Every step of the registry but a restart is one goroutine's, and a kind of step says what
it does to the request. For `BackendRegistry`:

* `RegistryTypes`, with the mutex: it is held by exactly the goroutine that lists, fills
  or adds `echo`.
* `FactoryFollowsTables` from `FactoryInv`: the factory together with what a refill has
  still to register is what the tables say of the known types, unless a request is yet to
  list them or `failed`. The mutex keeps two refills apart: whoever lists finds the factory
  empty.
* `NoBackendIsLost` from `MissingInv`: an enabled backend of a known type that is not in the
  factory is about to be registered by a refill, or by a request on its way to one.
* `BotsFollowTable` from `BotsInv`: the request that changed a bot last (`changedBy`) knows
  what the bot is until it writes the row, and bot and row of an id that is not outdated
  agree unless some request is yet to write that row. A request that writes without having
  been the last makes the id outdated, the next that has been the last ends it; so no
  assumption about overlaps is needed.

For `ProxyBackends`, whose registry steps are the same kinds:

* `TypeCorrect`, with `TokenInv`: a request generates at most one token, counted with
  `Cardinality` over the requests about to generate one, and no token is given to two ids.
* `ServedBotsCanAnswer` from `PipeInv` and `KnowInv`: the account is noted before the
  message is enqueued, so neither a queue with a message nor a bot that was served is
  without one. `PipeInv` is about the moments in between: the token at hand belongs to the
  backend of the message, or to nobody since a handler replaced the bot.
* `NoReplyThroughEarlierAccount`, an action property, from `LastInv`: what a bot noted is
  the account of the last message delivered to it or of a later one. A token never moves
  to another id (`TokenInv`), so the order of messages of an id is the order of its notes.

### PipelineProofs

For any users, backends, texts, rules and handlers:

* `TypeCorrect`. That what `Route` returns names a backend rests on the first rule that
  matches being a rule, which follows from `Least`; the rules and the default name
  backends by `PipelineAssumption`.
* `CounterBalances`, `DrainWaits`, `NobodyIsIgnored` and `MessagesEndOnce` follow from
  one invariant, `MessageInv`: the counter says where `processLoop` stands; messages
  before the one at hand are ended with, those after it are open, and the place says
  which it is for the one at hand; while no account is listed every open message is
  known to have lost its account; what main waits for was counted; a process that is
  down runs no loop. `NobodyIsIgnored` tells an answer that was sent from one whose send
  failed, and both from a response with nothing to send. Lemmas treat a step from place to place, the end of a message and
  the death of the process; `LoopStep` goes through the actions.
* `ChoicesKept` from `ChoiceInv`: requests on one user know of each other or their user
  is excused; the row a request carries is in the table if its statement did not fail;
  only a switch or a clear in progress leaves choice and row different. `RequestBegins`
  and `RequestEnds` hold for any first and last step of a request, so the three kinds
  of requests only have to say what they write.
* `LoopGoesOnServing`: while the gateway serves, `processLoop` has not ended. It is the
  half of `LoopNeverStuck` that can be stated without `ENABLED`.

### QRLoginProofs

Three invariants that rest on the types, and only where said on each other (`QRInv`
joins them):

* `ScansAreFound` (`ActiveIsLive`) from `ScanInv`: besides what the property says, a scan
  at work polls a code that was issued, so two scans have different codes
  (`ScansDiffer`) and a new code is nobody's. `Refresh` and `CreateScan` are one lemma,
  `NewCodeKeepsScans`: a scan takes the newest code and gives up the one it had, if any.
* `LoopRunsWithSavedToken` from `AccountInv`, which is the property itself: it speaks of the
  moments when no request is about to tell the connector what the table says, so every
  statement puts it out of question until such a request calls. A call that agrees with
  the table is obeyed or refused, and a call that does not leaves it to one that does, or
  is noted in `cause`. That a request saves a token, and not nothing, comes from the
  types, which need `ScanInv` in `Check`.
* `NoLoginComesBack`, an action property, from `DialogInv`: a code is shown once, and until
  then only its own fetch knows it; requests are about codes that were shown; a code that
  is reported bound is one the dialog leaves, and it cannot come back to it, so every
  request was sent before its code was reported. The only other step that writes the
  table deletes the row.

### PerKeyProofs

`SessionContext` and `RateLimits` are maps from keys to a small state, and have no run:
their theorems cover every instance. For any users, backends, callers, sessions, turns
and limit:

* `SessionsFollowKeys`: a key's session, in the map or held, was made for ids with that
  key, whatever ids there are. A session is fresh when `Create` makes it, and it never
  changes its key.
* `SessionsStayOwn` and `ClearingForgetsTheUser`, if no user id has a colon (`PlainUsers`):
  what a caller holds was made for its very user and backend, and clearing a user takes
  all of its sessions and none of another. Then the first part of a key is the user and
  the rest the backend, so `buildKey` is injective (`PlainKeysDiffer`); without the
  assumption both are false.
* `HeldSessionsStayInMap`: what a caller holds is in the map or was taken out. The
  invariant adds that what was taken out stays out.
* `HistoriesKeepNewest`: the history is the newest turns added. The step is the lemma
  `RememberKeepsNewest`, for any history and limit.

Under `Limits` (a bucket is full again before it is swept; the limits are positive),
besides `LimitsTypeCorrect`:

* `BucketsLimit` from `BucketAccount`: what was got plus what is in the bucket never
  exceeds a full bucket and what was refilled. A swept bucket was full by then.
* `WindowsLimit` from `WindowAccount`: within the length of a window only the open
  window and the one before it count.
* `LoginsLimit` from `LoginAccount`: what was tried within a pause is in the counter.

### LogBufferProofs

For any components, loggers, streams, readers, capacity and slots; `LogBuffer` has no run
either:

* `BuffersAlwaysAccount`: the entries of a buffer are consecutive runs of calls up to
  the last one.
* `ViewsStayFresh`: each copy of a reader accounts for a number of calls between those
  made when the request began and those made by now.
* `StreamsAlwaysFollow`: what a stream is told was in a buffer before, and is told once;
  the invariant adds that a call not yet told belongs to one goroutine.

### What is only model-checked

Of the properties that hold, all are proved but these:

* liveness under fairness, which is out of the prover's reach: `WaiterGetsMessage` and
  `EveryPollAnswered` of the queue, `CancelledLoopStops` and `MessagesFetched` of
  `AccountPolling`, `EveryRequestEnds` of `BackendRegistry`, `LoginCompletes` of `QRLogin`;
* `LoopNeverStuck` of `Pipeline`, which is about `ENABLED`: that the loop has not ended is
  `LoopGoesOnServing`, that every other place has a next step is TLC's.

The four violated properties have TLC's counterexamples and no theorem.

## 5. Plan

Modelled: all components whose steps interleave. Proved: all safety properties of the
passing runs but the one about `ENABLED`, and the two refinements. What is left:

* the same invariants for the parts of `Pipeline` that other modules move: rules that
  change while a message is routed, and the factory while it is refilled, by composing it
  with `RouteRules` and `BackendRegistry`. `Pipeline` lets the factory change by any
  sequence of single calls, so for the factory its theorems hold of the composition
  already; for the rules it takes a variable in place of a constant.

## 6. Assumptions, and what is not modelled

* The constants are numbers and sets, and values that stand for nothing are not values of
  something else (`None` is no account, backend or slot; `Echo` no id that is registered;
  `Empty` and `Torn`, the accounts noted for no message and by half a write, no accounts).
  Three assumptions say more: `RulesAssumption`, that the bodies the requests may send are
  records of the fields the handlers bind; `PollingAssumption`, that `msgChan` has room for
  a message (1000 in the code); `PipelineAssumption`, that the standing rules and the
  default name ids of backends (`Backends` is the set of ids, registered or not, so any
  rule of the table does). TLC evaluates each of them in the runs. `PerKeyProofs` states
  its own where they are used: `Distinct` (ids are sequences of at least one part), `Limits`
  and, for two theorems, `PlainUsers`.
* SQLite statements are atomic. The lengths of timeouts and pauses are left out; what
  they allow to happen is not. Only `RateLimits` has time, in ticks.
* `QRLogin` has one account and one dialog; iLink never issues a code twice, only codes
  that were shown can be scanned, and the answers scaned and scaned_but_redirect are
  polled on like wait. `StopScan`, which has no caller, is left out.
* `Pipeline` leaves out wording, hints, typing and the transcription of voice messages.
* `LogBuffer` leaves out filters, sorting and paging, which are functions of what was
  copied, and the log file.
* Sending, media encryption, message conversion and the HTTP backends keep no state and
  are one request each. Cryptography, JWT and HTTP middleware are out of scope of a
  state machine. Settings are single SQL statements. The other pages of the web front
  end, the desktop shell and the scripts only use the API.
