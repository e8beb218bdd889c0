----------------------------- MODULE ProxyBackends -----------------------------
(***************************************************************************)
(* Messages through proxy backends: the pipeline's processLoop             *)
(* (api/pipeline.go) hands a message to an adapter of BackendRegistry, a   *)
(* wired proxy adapter enqueues it to the virtual bot, the external        *)
(* service takes it and answers, and the answer leaves through the account *)
(* the bot noted last (LastAccountID).                                     *)
(*                                                                         *)
(* The processLoop is one goroutine.  It keeps the adapter and then the    *)
(* bot it looked up while handlers of BackendRegistry replace both.        *)
(* LastAccountID is written without a lock that its readers take, so a     *)
(* reader in between finds a string of two halves: Torn, which is the id   *)
(* of no account.  The queue is a sequence here; VirtualBotQueue models    *)
(* what happens inside it.  The accounts stay connected (AccountPolling    *)
(* models how they come and go).                                           *)
(***************************************************************************)
EXTENDS BackendRegistry, Sequences

CONSTANTS Accounts,    \* connected WeChat accounts
          MaxMessages  \* bound on the messages of a behaviour

Empty == ""      \* a LastAccountID that was never set
Torn == "torn"

ASSUME ProxyAssumption ==
    MaxMessages \in Nat /\ Empty \notin Accounts /\ Torn \notin Accounts

VARIABLES sent,        \* messages so far: sent[m] has the account m came
                       \* through and the backend it was routed to
          pipe,        \* where processLoop stands
          lastAccount, \* VirtualBot.LastAccountID, by token
          queue,       \* VirtualBot.queue, by token
          served,      \* tokens a message was taken with since boot
          taken,       \* messages the external services took
          replies      \* the last answer: the message and the account used

proxyVars == <<sent, pipe, lastAccount, queue, served, taken, replies>>
vars == <<registryVars, proxyVars>>

Tokens == 1..MaxRequests
Waiting == [at |-> "waiting"]

ProxyInit ==
    /\ Init
    /\ sent = <<>>
    /\ pipe = Waiting
    /\ lastAccount = [t \in Tokens |-> Empty]
    /\ queue = [t \in Tokens |-> <<>>]
    /\ served = {}
    /\ taken = {}
    /\ replies = {}

-----------------------------------------------------------------------------
\* forwardToBackend: find the adapter of the backend the message is routed to,
\* or tell the user there is none
Forward(id, account) ==
    /\ pipe = Waiting
    /\ Len(sent) < MaxMessages
    /\ sent' = Append(sent, [account |-> account, backend |-> id])
    /\ pipe' = IF id \in DOMAIN adapters
               THEN [at |-> "handle", adapter |-> adapters[id]] ELSE Waiting
    /\ UNCHANGED <<lastAccount, queue, served, taken, replies>>

\* The message processLoop works on, and the bot it has
Current == Len(sent)

\* Handle: a backend of another type answers at once; a proxy without an enqueue
\* function, or without a registered bot, is reported to the user as an error
Handle ==
    /\ pipe.at = "handle"
    /\ LET id == sent[Current].backend
       IN  pipe' = IF /\ pipe.adapter.type = "ilink_proxy"
                      /\ pipe.adapter.wired
                      /\ id \in DOMAIN bots
                   THEN [at |-> "record", token |-> bots[id]] ELSE Waiting
    /\ UNCHANGED <<sent, lastAccount, queue, served, taken, replies>>

\* Variant: the message is enqueued before its account is noted
RecordAfterEnqueue ==
    /\ pipe.at = "record"
    /\ queue' = [queue EXCEPT ![pipe.token] = Append(@, Current)]
    /\ pipe' = [at |-> "write", token |-> pipe.token]
    /\ UNCHANGED <<sent, lastAccount, served, taken, replies>>

\* enqueueToVirtualBot: write the first half of LastAccountID ...
RecordStarts ==
    /\ pipe.at = "record"
    /\ lastAccount' = IF lastAccount[pipe.token] = sent[Current].account
                      THEN lastAccount
                      ELSE [lastAccount EXCEPT ![pipe.token] = Torn]
    /\ pipe' = [at |-> "write", token |-> pipe.token]
    /\ UNCHANGED <<sent, queue, served, taken, replies>>

\* ... the second ...
RecordEnds ==
    /\ pipe.at = "write"
    /\ lastAccount' = [lastAccount EXCEPT ![pipe.token] = sent[Current].account]
    /\ pipe' = [at |-> "append", token |-> pipe.token]
    /\ UNCHANGED <<sent, queue, served, taken, replies>>

\* ... and Enqueue
Enqueue ==
    /\ pipe.at = "append"
    /\ queue' = [queue EXCEPT ![pipe.token] = Append(@, Current)]
    /\ pipe' = Waiting
    /\ UNCHANGED <<sent, lastAccount, served, taken, replies>>

-----------------------------------------------------------------------------
\* getupdates, which found the bot of the token (GetByToken) while it was registered
\* and may wait for messages past its removal: takes the queue
Poll(token) ==
    /\ queue[token] # <<>>
    /\ taken' = taken \cup {queue[token][i] : i \in DOMAIN queue[token]}
    /\ queue' = [queue EXCEPT ![token] = <<>>]
    /\ served' = served \cup {token}
    /\ UNCHANGED <<sent, pipe, lastAccount, replies>>

\* Variant: the answer is sent whether or not the account noted last exists
ReplyUnchecked(message) ==
    /\ message \in taken
    /\ sent[message].backend \in DOMAIN bots
    /\ replies' = {<<message, lastAccount[bots[sent[message].backend]]>>}
    /\ UNCHANGED <<sent, pipe, lastAccount, queue, served, taken>>

\* sendmessage: FindAccountCredentials looks for the account noted last, and
\* refuses the answer if there is none of that id
Reply(message) ==
    /\ message \in taken
    /\ sent[message].backend \in DOMAIN bots
    /\ LET account == lastAccount[bots[sent[message].backend]]
       IN  /\ account \in Accounts
           /\ replies' = {<<message, account>>}
    /\ UNCHANGED <<sent, pipe, lastAccount, queue, served, taken>>

\* A restart empties what memory held; the external services keep what they took
Restart ==
    /\ RestartRegistry
    /\ pipe' = Waiting
    /\ lastAccount' = [t \in Tokens |-> Empty]
    /\ queue' = [t \in Tokens |-> <<>>]
    /\ served' = {}
    /\ UNCHANGED <<sent, taken, replies>>

ProxyStep ==
    \/ \E id \in Ids, account \in Accounts : Forward(id, account)
    \/ Handle
    \/ RecordStarts
    \/ RecordEnds
    \/ Enqueue
    \/ \E token \in Tokens : Poll(token)
    \/ \E message \in taken : Reply(message)

RegistryStep ==
    \E h \in Handlers : \/ RegisterCreate(h)
                        \/ UpdateRead(h)
                        \/ RemoveDelete(h)
                        \/ HandlerStep(h)

Next ==
    \/ ProxyStep /\ UNCHANGED registryVars
    \/ RegistryStep /\ UNCHANGED proxyVars
    \/ Restart

Spec == ProxyInit /\ [][Next]_vars

-----------------------------------------------------------------------------
\* Type invariant of the part this module adds
TypeOK ==
    /\ \A m \in DOMAIN sent : sent[m] \in [account : Accounts, backend : Ids]
    /\ pipe.at \in {"waiting", "handle", "record", "write", "append"}
    /\ lastAccount \in [Tokens -> Accounts \cup {Empty, Torn}]
    /\ \A t \in Tokens : \A i \in DOMAIN queue[t] : queue[t][i] \in DOMAIN sent
    /\ taken \subseteq DOMAIN sent
    /\ replies \subseteq taken \X Accounts

\* An external service that got a message since boot can answer: its bot notes
\* an account before the first message is enqueued, and never loses it.
ServedBotsKnowAnAccount ==
    \A token \in served : lastAccount[token] # Empty

\* An answer never leaves through an account older than its message: the account
\* used is that of the message answered, or of a later one for that backend.
RepliesNeverThroughEarlierAccount ==
    \A reply \in replies :
        \E m \in reply[1]..Len(sent) :
            /\ sent[m].account = reply[2]
            /\ sent[m].backend = sent[reply[1]].backend

\* pipeline.go:302: the real account is matched exactly, so an answer leaves
\* through the account its message came from
RepliesThroughSource ==
    \A reply \in replies : reply[2] = sent[reply[1]].account
=============================================================================
