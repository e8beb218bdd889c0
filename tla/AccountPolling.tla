--------------------------- MODULE AccountPolling ---------------------------
(***************************************************************************)
(* The WeChat accounts of the Connector (bot/account.go): the handlers     *)
(* that add and remove them (api/wechat_handler.go), one poll loop per     *)
(* account, the cursor each loop keeps in the database (SyncBuf), the      *)
(* bounded channel to the pipeline, and restarts (main.go).                *)
(*                                                                         *)
(* Messages of an account are numbered as the iLink server accepted them;  *)
(* a cursor (get_updates_buf) is the number of the last message fetched.   *)
(* A poll loop belongs to a slot, which AddAccount takes and a finished    *)
(* loop gives back, so that a removed account's old loop and the new loop  *)
(* of the same account can run side by side.  Delays are not timed: the    *)
(* failure counter only chooses between 3 s and 30 s and is left out.      *)
(***************************************************************************)
EXTENDS Naturals, Sequences, FiniteSets

CONSTANTS Accounts,     \* account ids
          Slots,        \* poll loops that may exist at once (a bound)
          Handlers,     \* API requests served at once (a bound)
          None,         \* no slot, no account
          MaxMessages,  \* bound on messages per account
          ChanCap,      \* capacity of msgChan (1000 in the code)
          MaxFaults     \* bound on crashes and failed calls for the cursor

ASSUME PollingAssumption ==
    /\ MaxMessages \in Nat /\ ChanCap \in Nat \ {0} /\ MaxFaults \in Nat
    /\ None \notin Accounts \cup Slots \cup Handlers

VARIABLES
    server,     \* server[a]: messages the iLink server holds for a (external)
    saved,      \* accounts in the database
    store,      \* store[a]: the cursor in the database
    up,         \* the process runs
    listed,     \* listed[a]: the slot of a's entry in Connector.accounts, or None
    loop,       \* loop[s]: the poll loop in slot s
    msgChan,    \* Connector.msgChan, messages as <<account, number>>
    handler,    \* handler[h]: the request h is serving
    offered,    \* offered[a]: messages that entered msgChan or, when it was
                \* full, were dropped in front of it (history)
    overlapped, \* accounts that had two unfinished loops at once (history)
    excused,    \* accounts that the latest call of the Connector, or the listing
                \* at boot, left other than the table says (history)
    rewound,    \* accounts that were fetched from the beginning: their cursor
                \* could not be read, or an answer came without one (history)
    unsaved,    \* accounts with a failed save of their cursor (history)
    crashes     \* process crashes so far

loopVars == <<listed, loop>>
ghosts   == <<overlapped, excused, rewound, unsaved>>
vars == <<server, saved, store, up, listed, loop, msgChan, handler, offered,
          overlapped, excused, rewound, unsaved, crashes>>

\* at: where the goroutine stands; buf: its cursor; next, upto: the messages of
\* the response it works on; cancelled: AccountInfo.Cancel was called, or the
\* parent context ended; parent: the request whose context it derives from.
NoLoop == [at |-> "none", account |-> None, buf |-> 0, next |-> 0, upto |-> 0,
           cancelled |-> FALSE, parent |-> None]
NewLoop(a, parent) ==
    [NoLoop EXCEPT !.at = "load", !.account = a, !.parent = parent]
\* The context of loop r has ended: whose child it was no longer matters.
Cancelled(r) == [r EXCEPT !.cancelled = r.at # "none", !.parent = None]

Idle == [at |-> "idle", account |-> None]

Alive(s) == loop[s].at # "none"
\* Another crash or failed database call is within the bound.
MoreFaults == crashes + Cardinality(rewound) + Cardinality(unsaved) < MaxFaults

FreeSlots == {s \in Slots : ~Alive(s) /\ \A a \in Accounts : listed[a] # s}

\* Variant: the loop is given the parent context, which Cancel does not end.
ParentContextOnly(s) == FALSE

\* ctx.Done() of the loop's context.
CtxDone(s) == loop[s].cancelled

Init ==
    /\ server = [a \in Accounts |-> 0]
    /\ saved = {}
    /\ store = [a \in Accounts |-> 0]
    /\ up = TRUE
    /\ listed = [a \in Accounts |-> None]
    /\ loop = [s \in Slots |-> NoLoop]
    /\ msgChan = <<>>
    /\ handler = [h \in Handlers |-> Idle]
    /\ offered = [a \in Accounts |-> {}]
    /\ overlapped = {}
    /\ excused = {}
    /\ rewound = {}
    /\ unsaved = {}
    /\ crashes = 0

-----------------------------------------------------------------------------
\* The iLink server accepts a message for account a.
Arrive(a) ==
    /\ server[a] < MaxMessages
    /\ server' = [server EXCEPT ![a] = @ + 1]
    /\ UNCHANGED <<saved, store, up, loopVars, msgChan, handler, offered, ghosts,
                   crashes>>

\* The pipeline receives from msgChan.
Consume ==
    /\ up /\ msgChan # <<>>
    /\ msgChan' = Tail(msgChan)
    /\ UNCHANGED <<server, saved, store, up, loopVars, handler, offered, ghosts,
                   crashes>>

-----------------------------------------------------------------------------
\* Start the poll loop of a and list the account.
StartLoop(a, parent) ==
    /\ \E s \in FreeSlots :
          /\ loop' = [loop EXCEPT ![s] = NewLoop(a, parent)]
          /\ listed' = [listed EXCEPT ![a] = s]
    /\ overlapped' = IF \E t \in Slots : loop[t].account = a
                     THEN overlapped \cup {a} ELSE overlapped

\* Variant: no search for the account among those listed.
AddAccountUnchecked(a, parent) == StartLoop(a, parent)

\* AddAccount: refuse an account that is listed.
AddAccount(a, parent) ==
    \/ /\ listed[a] # None
       /\ UNCHANGED <<listed, loop, overlapped>>
    \/ /\ listed[a] = None
       /\ StartLoop(a, parent)

\* Variant: the loop is cancelled, the entry stays.
RemoveAccountKeepsEntry(a) ==
    /\ listed[a] # None => loop' = [loop EXCEPT ![listed[a]] = Cancelled(@)]
    /\ listed[a] = None => loop' = loop
    /\ UNCHANGED listed

\* RemoveAccount: cancel the loop's context and drop the entry; the loop itself
\* is not waited for.
RemoveAccount(a) ==
    IF listed[a] = None
    THEN UNCHANGED <<listed, loop>>
    ELSE /\ loop' = [loop EXCEPT ![listed[a]] = Cancelled(@)]
         /\ listed' = [listed EXCEPT ![a] = None]

\* A request starts.
Begin(h, a, next) ==
    /\ up /\ handler[h] = Idle
    /\ handler' = [handler EXCEPT ![h] = [at |-> next, account |-> a]]

\* handleQRStatus, confirmed: a failed save is only logged and the account is
\* added all the same.
QRConfirmed(h, a) ==
    /\ Begin(h, a, "add")
    /\ \E ok \in BOOLEAN : saved' = IF ok THEN saved \cup {a} ELSE saved
    /\ UNCHANGED <<server, store, up, loopVars, msgChan, offered, ghosts, crashes>>

\* handleSaveWechatAccount: a failed save ends the request with 500.
SaveWechatAccount(h, a) ==
    /\ Begin(h, a, "addInRequest")
    /\ saved' = saved \cup {a}
    /\ UNCHANGED <<server, store, up, loopVars, msgChan, offered, ghosts, crashes>>

\* handleDisconnectAccount: the row first; a failed delete ends the request.
DisconnectAccount(h, a) ==
    /\ Begin(h, a, "remove")
    /\ saved' = saved \ {a}
    /\ UNCHANGED <<server, store, up, loopVars, msgChan, offered, ghosts, crashes>>

\* Request h is between its statement and its call of the Connector, and the
\* table says of the account what h is about to make the Connector do.
Adds(h) == handler[h].at \in {"add", "addInRequest"}
Agrees(h) == \/ Adds(h) /\ handler[h].account \in saved
             \/ handler[h].at = "remove" /\ handler[h].account \notin saved

\* Request h calls the Connector.  Its call is out of date if its save failed, or
\* if another request changed the row since; it is put right if a request that
\* agrees with the table has yet to make its call.
Settle(h) ==
    LET a == handler[h].account
    IN  excused' =
          IF Agrees(h) THEN excused \ {a}
          ELSE IF \E g \in Handlers : handler[g].account = a /\ Agrees(g) THEN excused
          ELSE excused \cup {a}

\* The second half of each handler: the Connector.  handleQRStatus passes
\* context.Background(), handleSaveWechatAccount the context of its request.
HandlerAdds(h) ==
    /\ \/ /\ handler[h].at = "add"
          /\ AddAccount(handler[h].account, None)
          /\ handler' = [handler EXCEPT ![h] = Idle]
       \/ /\ handler[h].at = "addInRequest"
          /\ AddAccount(handler[h].account, h)
          /\ handler' = [handler EXCEPT ![h].at = "return"]
    /\ Settle(h)
    /\ UNCHANGED <<server, saved, store, up, msgChan, offered, rewound, unsaved,
                   crashes>>

HandlerRemoves(h) ==
    /\ handler[h].at = "remove"
    /\ RemoveAccount(handler[h].account)
    /\ handler' = [handler EXCEPT ![h] = Idle]
    /\ Settle(h)
    /\ UNCHANGED <<server, saved, store, up, msgChan, offered, overlapped, rewound,
                   unsaved, crashes>>

\* handleSaveWechatAccount's request is answered; net/http cancels its context and
\* all below it.
HandlerReturns(h) ==
    /\ handler[h].at = "return"
    /\ handler' = [handler EXCEPT ![h] = Idle]
    /\ loop' = [s \in Slots |->
                   IF loop[s].parent = h THEN Cancelled(loop[s]) ELSE loop[s]]
    /\ UNCHANGED <<server, saved, store, up, listed, msgChan, offered, ghosts,
                   crashes>>

-----------------------------------------------------------------------------
\* The poll loop.  saveSyncBuf: a failed save is only logged.
SaveSyncBuf(a, n) ==
    \/ /\ store' = [store EXCEPT ![a] = n]
       /\ UNCHANGED unsaved
    \/ /\ store[a] # n /\ MoreFaults
       /\ UNCHANGED store
       /\ unsaved' = unsaved \cup {a}

\* saveSyncBuf and return: the last thing any loop does.
Stop(s) ==
    /\ SaveSyncBuf(loop[s].account, loop[s].buf)
    /\ loop' = [loop EXCEPT ![s] = NoLoop]

Goto(s, place) == loop' = [loop EXCEPT ![s].at = place]

\* loadSyncBuf: a cursor that cannot be read counts as none.
Load(s) ==
    LET a == loop[s].account
    IN  /\ loop[s].at = "load"
        /\ \/ /\ loop' = [loop EXCEPT ![s].buf = store[a], ![s].at = "top"]
              /\ UNCHANGED rewound
           \/ /\ store[a] # 0 /\ MoreFaults
              /\ loop' = [loop EXCEPT ![s].buf = 0, ![s].at = "top"]
              /\ rewound' = rewound \cup {a}
        /\ UNCHANGED <<server, saved, store, up, listed, msgChan, handler, offered,
                       overlapped, excused, unsaved, crashes>>

\* The head of the loop: stop if the context is done, else call getUpdates.
Top(s) ==
    /\ loop[s].at = "top"
    /\ IF CtxDone(s) THEN Stop(s) ELSE Goto(s, "polling") /\ UNCHANGED <<store, unsaved>>
    /\ UNCHANGED <<server, saved, up, listed, msgChan, handler, offered, overlapped,
                   excused, rewound, crashes>>

\* getUpdates fails: stop if that is because of the context, else pause.
PollError(s) ==
    /\ loop[s].at = "polling"
    /\ IF CtxDone(s) THEN Stop(s) ELSE Goto(s, "pause") /\ UNCHANGED <<store, unsaved>>
    /\ UNCHANGED <<server, saved, up, listed, msgChan, handler, offered, overlapped,
                   excused, rewound, crashes>>

\* Variant: the cursor is cleared with the session.
SessionExpiredClears(s) ==
    /\ loop[s].at = "polling"
    /\ Goto(s, "pause")
    /\ store' = [store EXCEPT ![loop[s].account] = 0]
    /\ UNCHANGED <<server, saved, up, listed, msgChan, handler, offered, ghosts,
                   crashes>>

\* ret/errcode -14, or -2 with "unknown error": save the cursor, pause 10 min.
SessionExpired(s) ==
    /\ loop[s].at = "polling"
    /\ Goto(s, "pause")
    /\ SaveSyncBuf(loop[s].account, loop[s].buf)
    /\ UNCHANGED <<server, saved, up, listed, msgChan, handler, offered, overlapped,
                   excused, rewound, crashes>>

\* Any other ret or errcode but 0.
Refused(s) ==
    /\ loop[s].at = "polling"
    /\ Goto(s, "pause")
    /\ UNCHANGED <<server, saved, store, up, listed, msgChan, handler, offered,
                   ghosts, crashes>>

\* Variant: nothing but the context ends a pause.
PauseEndsByContext(s) ==
    /\ loop[s].at = "pause"
    /\ CtxDone(s)
    /\ Stop(s)
    /\ UNCHANGED <<server, saved, up, listed, msgChan, handler, offered, overlapped,
                   excused, rewound, crashes>>

\* The pause ends by its timer or, if that is ready, by the context.
PauseEnds(s) ==
    /\ loop[s].at = "pause"
    /\ \/ Goto(s, "top") /\ UNCHANGED <<store, unsaved>>
       \/ CtxDone(s) /\ Stop(s)
    /\ UNCHANGED <<server, saved, up, listed, msgChan, handler, offered, overlapped,
                   excused, rewound, crashes>>

\* Variant: the new cursor is saved before its messages are delivered.
FetchAndSave(s) ==
    /\ loop[s].at = "polling"
    /\ \E n \in loop[s].buf .. server[loop[s].account] :
          /\ loop' = [loop EXCEPT ![s].at = "deliver", ![s].next = loop[s].buf + 1,
                                  ![s].upto = n]
          /\ store' = [store EXCEPT ![loop[s].account] = n]
    /\ UNCHANGED <<server, saved, up, listed, msgChan, handler, offered, ghosts,
                   crashes>>

\* getUpdates answers with the messages after the cursor, up to some point the
\* server chooses; possibly none.
Fetch(s) ==
    /\ loop[s].at = "polling"
    /\ \E n \in loop[s].buf .. server[loop[s].account] :
          loop' = [loop EXCEPT ![s].at = "deliver", ![s].next = loop[s].buf + 1,
                               ![s].upto = n]
    /\ UNCHANGED <<server, saved, store, up, listed, msgChan, handler, offered,
                   ghosts, crashes>>

\* Variant: a full channel takes the message all the same.
SendUnbounded(a, m) == msgChan' = Append(msgChan, <<a, m>>)

\* The non-blocking send: a full msgChan drops the message.
Send(a, m) ==
    IF Len(msgChan) < ChanCap THEN msgChan' = Append(msgChan, <<a, m>>)
    ELSE UNCHANGED msgChan

\* One message of the response.
Deliver(s) ==
    LET a == loop[s].account
        m == loop[s].next
    IN /\ loop[s].at = "deliver"
       /\ m <= loop[s].upto
       /\ Send(a, m)
       /\ offered' = [offered EXCEPT ![a] = @ \cup {m}]
       /\ loop' = [loop EXCEPT ![s].next = m + 1]
       /\ UNCHANGED <<server, saved, store, up, listed, handler, ghosts, crashes>>

\* Variant: saved, but not kept for the next request.
AdvanceStoreOnly(s) ==
    /\ loop[s].at = "deliver"
    /\ loop[s].next > loop[s].upto
    /\ store' = [store EXCEPT ![loop[s].account] = loop[s].upto]
    /\ loop' = [loop EXCEPT ![s].at = "top", ![s].next = 0, ![s].upto = 0]
    /\ UNCHANGED <<server, saved, up, listed, msgChan, handler, offered, ghosts,
                   crashes>>

\* buf = resp.GetUpdatesBuf; saveSyncBuf.
AdvanceTo(s, cursor) ==
    /\ loop[s].at = "deliver"
    /\ loop[s].next > loop[s].upto
    /\ SaveSyncBuf(loop[s].account, cursor)
    /\ loop' = [loop EXCEPT ![s].buf = cursor, ![s].at = "top",
                            ![s].next = 0, ![s].upto = 0]
    /\ UNCHANGED <<server, saved, up, listed, msgChan, handler, offered, overlapped,
                   excused, crashes>>

\* The response is all delivered.  Neither the HTTP status nor the cursor is
\* looked at before: any JSON without ret and errcode counts as a response, and
\* one without a cursor takes the loop, and the row, back to the beginning.
Advance(s) ==
    \/ AdvanceTo(s, loop[s].upto) /\ UNCHANGED rewound
    \/ /\ loop[s].upto # 0 /\ MoreFaults
       /\ AdvanceTo(s, 0)
       /\ rewound' = rewound \cup {loop[s].account}

-----------------------------------------------------------------------------
\* The process dies: all but the database is gone.  A graceful shutdown ends the
\* same way, as main does not wait for the loops it cancels.
Crash ==
    /\ up /\ MoreFaults
    /\ up' = FALSE
    /\ crashes' = crashes + 1
    /\ listed' = [a \in Accounts |-> None]
    /\ loop' = [s \in Slots |-> NoLoop]
    /\ msgChan' = <<>>
    /\ handler' = [h \in Handlers |-> Idle]
    /\ overlapped' = {}
    /\ excused' = {}
    /\ rewound' = {}
    /\ unsaved' = {}
    /\ UNCHANGED <<server, saved, store, offered>>

\* main: AddAccount(context.Background()) for every row of accounts.  When they
\* cannot be listed the gateway goes on without accounts.
Boot ==
    /\ ~up
    /\ up' = TRUE
    /\ \E rows \in {saved, {}} :
          /\ \E place \in [rows -> Slots] :
                /\ \A a, b \in rows : a # b => place[a] # place[b]
                /\ listed' = [a \in Accounts |-> IF a \in rows THEN place[a] ELSE None]
                /\ loop' = [s \in Slots |->
                               IF \E a \in rows : place[a] = s
                               THEN NewLoop(CHOOSE a \in rows : place[a] = s, None)
                               ELSE NoLoop]
          /\ excused' = saved \ rows
    /\ UNCHANGED <<server, saved, store, msgChan, handler, offered, overlapped,
                   rewound, unsaved, crashes>>

Poll(s) == Load(s) \/ Top(s) \/ PollError(s) \/ SessionExpired(s) \/ Refused(s)
           \/ PauseEnds(s) \/ Fetch(s) \/ Deliver(s) \/ Advance(s)

Serve(h) == HandlerAdds(h) \/ HandlerRemoves(h) \/ HandlerReturns(h)

Next ==
    \/ \E a \in Accounts : Arrive(a)
    \/ Consume
    \/ \E h \in Handlers, a \in Accounts :
          QRConfirmed(h, a) \/ SaveWechatAccount(h, a) \/ DisconnectAccount(h, a)
    \/ \E h \in Handlers : Serve(h)
    \/ \E s \in Slots : Poll(s)
    \/ Crash
    \/ Boot

Spec == Init /\ [][Next]_vars

\* Every goroutine that can run does; a poll that waits ends.  The server does
\* not answer with errors for ever: a loop that polls again and again fetches.
Fairness ==
    /\ \A s \in Slots :
          WF_vars(Poll(s)) /\ SF_vars(Fetch(s) /\ loop'[s].upto # loop[s].buf)
FairSpec == Spec /\ Fairness

-----------------------------------------------------------------------------
Numbers == 1..MaxMessages

Loops == [at : {"none", "load", "top", "polling", "pause", "deliver"},
          account : Accounts \cup {None},
          buf : 0..MaxMessages,
          next : 0..MaxMessages + 1,
          upto : 0..MaxMessages,
          cancelled : BOOLEAN,
          parent : Handlers \cup {None}]

Requests == [at : {"idle", "add", "addInRequest", "remove", "return"},
             account : Accounts \cup {None}]

\* Types; a finished loop leaves an empty slot; an entry of accounts names the
\* slot its own loop was started in; msgChan respects its capacity.
TypeOK ==
    /\ server \in [Accounts -> 0..MaxMessages]
    /\ saved \subseteq Accounts
    /\ store \in [Accounts -> 0..MaxMessages]
    /\ up \in BOOLEAN
    /\ listed \in [Accounts -> Slots \cup {None}]
    /\ loop \in [Slots -> Loops]
    /\ \A s \in Slots : Alive(s) <=> loop[s].account # None
    /\ \A a \in Accounts : listed[a] # None => loop[listed[a]].account \in {a, None}
    /\ msgChan \in Seq(Accounts \X Numbers) /\ Len(msgChan) <= ChanCap
    /\ handler \in [Handlers -> Requests]
    /\ offered \in [Accounts -> SUBSET Numbers]
    /\ overlapped \cup excused \cup rewound \cup unsaved \subseteq Accounts
    /\ crashes \in 0..MaxFaults

\* The cursor in the database is never ahead of the delivery: whatever it says
\* was fetched did enter msgChan, or was dropped there for want of room.  A
\* crash between delivery and save repeats messages but skips none.
CursorCovered ==
    \A a \in Accounts : 1..store[a] \subseteq offered[a]

\* At most one loop of an account goes on polling, however adds, removes and
\* restarts interleave; the other loops of that account are cancelled.
OneLivePoller ==
    \A s, t \in Slots :
        /\ Alive(s) /\ Alive(t) /\ loop[s].account = loop[t].account
        /\ ~loop[s].cancelled /\ ~loop[t].cancelled
        => s = t

\* The accounts table and the Connector's list agree on every account whose row
\* no request has changed without telling the Connector yet, however requests
\* overlap.  The exceptions: the accounts could not be listed at boot, or the
\* latest call of the Connector came from a request whose save had failed or
\* whose statement another request had undone before that call.
RecordsSynced ==
    \A a \in Accounts \ excused :
        up /\ (\A h \in Handlers : handler[h].account = a => handler[h].at = "return")
        => (a \in saved <=> listed[a] # None)

\* A loop has a message in hand that the pipeline was offered before only if two
\* loops of that account ran side by side, the cursor could not be read or saved,
\* the server answered without one, or the process crashed.
ReplayHasACause ==
    \A s \in Slots :
        LET a == loop[s].account
        IN  /\ loop[s].at = "deliver" /\ loop[s].next <= loop[s].upto
            /\ loop[s].next \in offered[a]
            => a \in overlapped \cup rewound \cup unsaved \/ crashes > 0

\* The cursor in the database goes back only if two loops of the account ran
\* side by side (the removed account's loop saves its cursor when it stops), if
\* it could not be read (a loop that starts without it saves its own), or if the
\* server answered without a cursor, which is saved like any other.
CursorRegressHasACause ==
    [][\A a \in Accounts : store'[a] < store[a] => a \in overlapped \cup rewound']_vars

\* A loop whose context is done stops: no pause, poll or retry ignores it.
CancelledLoopStops ==
    \A s \in Slots : loop[s].cancelled ~> ~loop[s].cancelled

Polled(a) == \E s \in Slots : loop[s].account = a /\ ~loop[s].cancelled

\* As long as an account has a loop that is not cancelled, each of its messages
\* reaches msgChan or is dropped there: errors, refusals, expiry, old loops and
\* other accounts do not stop it.
MessagesFetched ==
    \A a \in Accounts, m \in Numbers :
        (m <= server[a] /\ Polled(a)) ~> (m \in offered[a] \/ ~Polled(a))

\* "Add the account and start its own polling" (bot/account.go:16): an account
\* in the list has a loop that polls it.
ListedIsPolled ==
    \A a \in Accounts : listed[a] # None => Alive(listed[a])

\* The loops of all accounts together implement the promise to the pipeline.
Promise == INSTANCE Delivery
    WITH held <- server, inbox <- msgChan, cursor <- store, Capacity <- ChanCap,
         replayable <- IF crashes > 0 THEN Accounts
                       ELSE overlapped \cup rewound \cup unsaved,
         adrift <- overlapped \cup rewound

ImplementsDelivery == Promise!Spec
=============================================================================
