------------------------------- MODULE Pipeline -------------------------------
(***************************************************************************)
(* The message pipeline (api/pipeline.go), the users' choices of a backend *)
(* (api/user_handler.go, user_sessions) and the shutdown (main.go).        *)
(*                                                                         *)
(* processLoop is one goroutine: it takes a message off msgChan, counts it *)
(* in a WaitGroup, parses commands, routes what is no command, hands the   *)
(* text to a backend and answers.  Around it run the poll loops that fill  *)
(* the channel, the requests that change a user's choice (table first,     *)
(* engine next, no lock around both), the requests that change the factory *)
(* of adapters and the list of accounts, and main, which cancels the       *)
(* context of the pipeline, waits for the WaitGroup or 15 s, and exits.    *)
(*                                                                         *)
(* Messages are numbered as they arrive.  A text is the record             *)
(*   [cmd, arg, more, tests]                                               *)
(* of its command, the backend it names, whether words follow the name,    *)
(* and the routing tests it passes (see Router).  The engine's rules stand *)
(* still here (RouteRules models how they change), and what type of adapter *)
(* a backend has is left open (BackendRegistry).                           *)
(***************************************************************************)
EXTENDS Router

CONSTANTS Users,
          Backends,       \* backend ids
          Texts,          \* texts a user may write
          Rules,          \* Router.rules
          DefaultBackend, \* a backend, or None
          Handlers,       \* goroutines that serve the users' requests
          MaxMessages,    \* bound on the messages of a behaviour
          MaxRequests,    \* bound on the requests
          MaxUpsets       \* bound on panics, sends and database calls that fail,
                          \* responses that say nothing, resets of the factory and
                          \* removals of the account

ASSUME PipelineAssumption ==
    /\ None \notin Backends
    /\ DOMAIN Rules \subseteq Nat
    /\ \A i \in DOMAIN Rules : Rules[i].backend \in Backends
    /\ DefaultBackend \in Backends \cup {None}
    /\ MaxMessages \in Nat /\ MaxRequests \in Nat /\ MaxUpsets \in Nat

VARIABLES arrived,   \* messages that entered msgChan
          taken,     \* messages that left it: it holds taken+1 .. arrived
          loop,      \* where processLoop stands, and what it works with
          inFlight,  \* the counter of the WaitGroup
          main,      \* where main stands in its shutdown
          adapters,  \* ids in the factory
          listed,    \* whether the account of the messages is listed
          choice,    \* Router.userBackends, None where there is no entry
          table,     \* user_sessions: a backend, Blank, or NoRow
          handler,   \* handler[h]: the request goroutine h serves
          requests,  \* requests begun so far
          upsets,    \* upsets so far
          fate,      \* history: how the pipeline ended with each message
          orphaned,  \* history: messages whose account was not listed at some
                     \* time before the pipeline ended with them
          pledged,   \* history: the messages counted when main began to wait
          excused    \* history: users whose choice and row may differ, because
                     \* of /use, of a refused or failed switch, of a failed
                     \* database call or boot, or of requests that overlapped

messageVars == <<arrived, taken, loop, inFlight, fate, orphaned>>
sessionVars == <<choice, table, handler, requests, excused>>
vars == <<messageVars, sessionVars, main, adapters, listed, upsets, pledged>>

Blank == "blank"  \* a row with an empty backend_id
NoRow == "norow"
Open == "none"    \* the pipeline has not ended with the message

\* The choice boot makes of a row
RowChoice(row) == IF row \in {Blank, NoRow} THEN None ELSE row

Alive == main # "down"
Cancelled == main # "serving"    \* the pipeline's context is done

\* processLoop has taken a message and not ended with it
Busy == loop.at \notin {"select", "stopped", "panicked"}

\* The message is between wg.Add and wg.Done
Counted == Busy /\ loop.at # "received"

At(place) == [at |-> place]
Goto(place) == loop' = At(place)
Upset == upsets < MaxUpsets /\ upsets' = upsets + 1

Init ==
    /\ arrived = 0
    /\ taken = 0
    /\ loop = At("select")
    /\ inFlight = 0
    /\ main = "serving"
    /\ adapters = Backends
    /\ listed = TRUE
    /\ choice = [u \in Users |-> None]
    /\ table = [u \in Users |-> NoRow]
    /\ handler = [h \in Handlers |-> [at |-> "idle"]]
    /\ requests = 0
    /\ upsets = 0
    /\ fate = [m \in 1..MaxMessages |-> Open]
    /\ orphaned = {}
    /\ pledged = {}
    /\ excused = {}

-----------------------------------------------------------------------------
\* A poll loop pushes a message, in the end also one of a removed account
Arrive ==
    /\ Alive
    /\ arrived < MaxMessages
    /\ arrived' = arrived + 1
    /\ orphaned' = IF listed THEN orphaned ELSE orphaned \cup {arrived + 1}
    /\ UNCHANGED <<taken, loop, inFlight, fate, sessionVars, main, adapters,
                   listed, upsets, pledged>>

\* What the steps of processLoop leave alone
Others == <<arrived, orphaned, table, handler, requests, main, adapters,
            listed, pledged>>
Unread == <<Others, choice, excused, upsets>>

\* The select takes a message while there is one, the context done or not ...
Receive ==
    /\ Alive
    /\ loop.at = "select"
    /\ taken < arrived
    /\ taken' = taken + 1
    /\ Goto("received")
    /\ UNCHANGED <<inFlight, fate, Unread>>

\* ... and may end the loop when the context is done
Stop ==
    /\ Alive
    /\ loop.at = "select"
    /\ Cancelled
    /\ Goto("stopped")
    /\ UNCHANGED <<taken, inFlight, fate, Unread>>

\* Variant: the message is counted only when it goes to a backend
BeginUncounted ==
    /\ Alive
    /\ loop.at = "received"
    /\ IF listed THEN Goto("parse") /\ UNCHANGED <<inFlight, fate>>
       ELSE /\ Goto("finish")
            /\ inFlight' = inFlight + 1
            /\ fate' = [fate EXCEPT ![taken] = "skipped"]
    /\ UNCHANGED <<taken, Unread>>

\* processMessage begins: wg.Add, then a message is skipped when no account is
\* listed (IsRunning)
Begin ==
    /\ Alive
    /\ loop.at = "received"
    /\ inFlight' = inFlight + 1
    /\ IF listed THEN Goto("parse") /\ UNCHANGED fate
       ELSE /\ Goto("finish")
            /\ fate' = [fate EXCEPT ![taken] = "skipped"]
    /\ UNCHANGED <<taken, Unread>>

-----------------------------------------------------------------------------
(* Parse, and the branch of processMessage for its result.  The user u and the *)
(* text of the message are whatever they are: they are chosen here, where the  *)
(* code first reads them.                                                      *)

Parsing(text, cmds) == Alive /\ loop.at = "parse" /\ text.cmd \in cmds

\* Where a message goes: to a backend, or it is answered if there is none
SendTo(backend) ==
    loop' = IF backend = None THEN At("answer")
            ELSE [at |-> "forward", to |-> backend]

\* A text without a slash (a transcribed voice message has its prefix by now) is
\* routed.  The hint a rule's match sends first is left out.
RouteText(u, text) ==
    /\ Parsing(text, {"plain"})
    /\ SendTo(Route(Rules, DefaultBackend, text.tests, choice[u]).backend)
    /\ UNCHANGED <<taken, inFlight, fate, Unread>>

\* /use, /backends, /help: the answer is a status
Inform(text) ==
    /\ Parsing(text, {"info"})
    /\ Goto("answer")
    /\ UNCHANGED <<taken, inFlight, fate, Unread>>

\* The word after the slash: "/help b" is a command of b if b is registered, and
\* else one of a backend called help
Word(text) == IF text.cmd = "help" /\ text.arg \notin adapters THEN "help"
              ELSE text.arg

\* "/b text" and "/help b" go to b this once; "/b" alone asks for its status,
\* which is sent whether or not the context is done
ForwardOnce(text) ==
    /\ Parsing(text, {"slash", "help"})
    /\ Word(text) \in adapters
    /\ IF text.cmd = "help" \/ text.more THEN SendTo(Word(text))
                                         ELSE Goto("apologise")
    /\ UNCHANGED <<taken, inFlight, fate, Unread>>

\* Any other slash goes to the backend the user chose, or is answered
Unknown(u, text) ==
    /\ Parsing(text, {"slash", "help"})
    /\ Word(text) \notin adapters
    /\ SendTo(choice[u])
    /\ UNCHANGED <<taken, inFlight, fate, Unread>>

\* /use main clears the choice ...
UseMain(u, text) ==
    /\ Parsing(text, {"use"})
    /\ text.arg = "main"
    /\ choice' = [choice EXCEPT ![u] = None]
    /\ excused' = excused \cup {u}
    /\ Goto("answer")
    /\ UNCHANGED <<taken, inFlight, fate, Others, upsets>>

\* ... and /use b looks b up ...
UseBackend(u, text) ==
    /\ Parsing(text, {"use"})
    /\ text.arg # "main"
    /\ loop' = IF text.arg \in adapters
               THEN [at |-> "use", user |-> u, to |-> text.arg] ELSE At("answer")
    /\ UNCHANGED <<taken, inFlight, fate, Unread>>

\* ... and again in SetUserBackend.  Only the engine learns the choice.
UseSet ==
    /\ Alive
    /\ loop.at = "use"
    /\ IF loop.to \in adapters
       THEN /\ choice' = [choice EXCEPT ![loop.user] = loop.to]
            /\ excused' = excused \cup {loop.user}
       ELSE UNCHANGED <<choice, excused>>
    /\ Goto("answer")
    /\ UNCHANGED <<taken, inFlight, fate, Others, upsets>>

-----------------------------------------------------------------------------
\* The pipeline ends with its message; wg.Done is the next step
End(how) == fate' = [fate EXCEPT ![taken] = how] /\ Goto("finish")

\* An answer needs the credentials of the account and, if it is sent with the
\* pipeline's context, a context that is not done.  A send that fails is only logged.
Answer(withContext) ==
    /\ \/ /\ End(IF ~listed THEN "unanswerable"
                 ELSE IF withContext /\ Cancelled THEN "cut" ELSE "answered")
          /\ UNCHANGED upsets
       \/ /\ listed
          /\ ~(withContext /\ Cancelled)
          /\ End("unsent")
          /\ Upset
    /\ UNCHANGED <<taken, inFlight, Others, choice, excused>>

\* The answers of commands, and that of a message no backend is found for
AnswerCommand == Alive /\ loop.at = "answer" /\ Answer(TRUE)

\* The answer a backend gave
AnswerOfBackend == Alive /\ loop.at = "reply" /\ Answer(TRUE)

\* A missing backend, a failed one, a status: sent whatever the context
Apologise == Alive /\ loop.at = "apologise" /\ Answer(FALSE)

\* Variant: after the apology for a missing backend the code goes on
ForwardGoesOn ==
    /\ Alive
    /\ loop.at = "forward"
    /\ IF loop.to \in adapters
       THEN Goto("handle") /\ UNCHANGED fate
       ELSE /\ Goto("apologise")
            /\ fate' = [fate EXCEPT ![taken] = "answered"]
    /\ UNCHANGED <<taken, inFlight, Unread>>

\* Variant: a missing backend is only logged
ForwardSilently ==
    /\ Alive
    /\ loop.at = "forward"
    /\ loop' = IF loop.to \in adapters THEN At("handle")
                                       ELSE At("finish")
    /\ UNCHANGED <<taken, inFlight, fate, Unread>>

\* forwardToBackend looks the adapter up again
Forward ==
    /\ Alive
    /\ loop.at = "forward"
    /\ loop' = IF loop.to \in adapters THEN At("handle")
                                       ELSE At("apologise")
    /\ UNCHANGED <<taken, inFlight, fate, Unread>>

\* Handle returns within 120 s: with an error, with an answer ...
HandleReturns ==
    /\ Alive
    /\ loop.at = "handle"
    /\ Goto("apologise") \/ Goto("reply")
    /\ UNCHANGED <<taken, inFlight, fate, Unread>>

\* ... or, the message being in the queue of a virtual bot, without
HandedOver ==
    /\ Alive
    /\ loop.at = "handle"
    /\ End("handed")
    /\ UNCHANGED <<taken, inFlight, Unread>>

\* A response without a message, or with one of a type the pipeline does not know, is
\* not sent
SaysNothing ==
    /\ Alive
    /\ loop.at = "handle"
    /\ End("silent")
    /\ Upset
    /\ UNCHANGED <<taken, inFlight, Others, choice, excused>>

\* Variant: wg.Done is not deferred, so a panic leaves the message counted
PanicsCounted ==
    /\ Alive
    /\ loop.at = "handle"
    /\ Upset
    /\ Goto("panicked")
    /\ fate' = [fate EXCEPT ![taken] = "panicked"]
    /\ UNCHANGED <<taken, inFlight, Others, choice, excused>>

\* An adapter panics: the deferred wg.Done runs, Start recovers ...
Panics ==
    /\ Alive
    /\ loop.at = "handle"
    /\ Upset
    /\ Goto("panicked")
    /\ inFlight' = inFlight - 1
    /\ fate' = [fate EXCEPT ![taken] = "panicked"]
    /\ UNCHANGED <<taken, Others, choice, excused>>

\* Variant: the panic is recovered from and the loop not started again
RecoverOnly ==
    /\ Alive
    /\ loop.at = "panicked"
    /\ Goto("stopped")
    /\ UNCHANGED <<taken, inFlight, fate, Unread>>

\* ... and starts the loop again after a second
Recover ==
    /\ Alive
    /\ loop.at = "panicked"
    /\ Goto("select")
    /\ UNCHANGED <<taken, inFlight, fate, Unread>>

\* processMessage returns: wg.Done
Finish ==
    /\ Alive
    /\ loop.at = "finish"
    /\ inFlight' = inFlight - 1
    /\ Goto("select")
    /\ UNCHANGED <<taken, fate, Unread>>

Loop ==
    \/ Receive \/ Stop \/ Begin
    \/ \E text \in Texts :
           \/ Inform(text)
           \/ ForwardOnce(text)
           \/ \E u \in Users : \/ RouteText(u, text) \/ Unknown(u, text)
                             \/ UseMain(u, text) \/ UseBackend(u, text)
    \/ UseSet \/ Forward \/ HandleReturns \/ HandedOver \/ SaysNothing
    \/ Panics \/ Recover
    \/ AnswerCommand \/ AnswerOfBackend \/ Apologise \/ Finish

-----------------------------------------------------------------------------
(* The requests that change a user's choice.  alone says whether a request *)
(* has been the only one of its user since it began.                       *)

Serving(h, u) == handler[h].at # "idle" /\ handler[h].user = u

\* The request to give u the row; saved says whether the first step succeeded
Request(at, u, row, saved) ==
    [at |-> at, user |-> u, row |-> row, saved |-> saved, alone |-> TRUE]

\* A request begins, and spoils what the others of its user conclude
BeginRequest(h, record) ==
    LET u == record.user
        overlap == \E g \in Handlers : Serving(g, u)
    IN  /\ main \in {"serving", "waiting"}
        /\ handler[h].at = "idle"
        /\ requests < MaxRequests
        /\ requests' = requests + 1
        /\ handler' = [g \in Handlers |->
               IF g = h THEN [record EXCEPT !.alone = ~overlap]
               ELSE IF Serving(g, u) THEN [handler[g] EXCEPT !.alone = FALSE]
               ELSE handler[g]]
        /\ excused' = IF overlap THEN excused \cup {u} ELSE excused

\* The request ends; together says whether it leaves choice and row the same
EndRequest(h, together) ==
    LET r == handler[h]
    IN  /\ handler' = [handler EXCEPT ![h] = [at |-> "idle"]]
        /\ excused' = IF together /\ r.alone THEN excused \ {r.user}
                      ELSE IF together THEN excused ELSE excused \cup {r.user}

\* The statement that writes the row of u; an error is ignored
Write(u, row, saved) ==
    IF saved THEN table' = [table EXCEPT ![u] = row] /\ UNCHANGED upsets
             ELSE Upset /\ UNCHANGED table

SessionRequest == UNCHANGED <<messageVars, main, adapters, listed, pledged>>

\* handleSwitchUserBackend saves the choice, valid or not ...
SwitchSaves(h, u, row, saved) ==
    /\ BeginRequest(h, Request("switch", u, row, saved))
    /\ Write(u, row, saved)
    /\ UNCHANGED choice
    /\ SessionRequest

\* Variant: an empty choice is refused like an unknown backend
SwitchKeepsBlank(h) ==
    /\ Alive
    /\ handler[h].at = "switch"
    /\ LET u == handler[h].user
           row == handler[h].row
       IN  /\ IF row \in adapters
              THEN choice' = [choice EXCEPT ![u] = row] ELSE UNCHANGED choice
           /\ EndRequest(h, handler[h].saved /\ (row = Blank \/ row \in adapters))
    /\ UNCHANGED <<table, requests, upsets>>
    /\ SessionRequest

\* ... and tells the engine, which refuses a backend that is not registered; the
\* refusal is logged and the request answered with success
SwitchApplies(h) ==
    /\ Alive
    /\ handler[h].at = "switch"
    /\ LET u == handler[h].user
           row == handler[h].row
           accepted == row = Blank \/ row \in adapters
       IN  /\ choice' = IF accepted THEN [choice EXCEPT ![u] = RowChoice(row)]
                        ELSE choice
           /\ EndRequest(h, handler[h].saved /\ accepted)
    /\ UNCHANGED <<table, requests, upsets>>
    /\ SessionRequest

\* handleClearUserContext deletes the row, then the override
ClearDeletes(h, u, saved) ==
    /\ BeginRequest(h, Request("clear", u, NoRow, saved))
    /\ Write(u, NoRow, saved)
    /\ UNCHANGED choice
    /\ SessionRequest

ClearApplies(h) ==
    /\ Alive
    /\ handler[h].at = "clear"
    /\ choice' = [choice EXCEPT ![handler[h].user] = None]
    /\ EndRequest(h, handler[h].saved)
    /\ UNCHANGED <<table, requests, upsets>>
    /\ SessionRequest

\* handleSetUserRouteMode reads the row, an error counting as none, ...
ModeReads(h, u, read) ==
    /\ LET row == IF read /\ table[u] # NoRow THEN table[u] ELSE Blank
       IN  BeginRequest(h, Request("mode", u, row, read))
    /\ IF read THEN UNCHANGED upsets ELSE Upset
    /\ UNCHANGED <<table, choice>>
    /\ SessionRequest

\* ... and writes it back with the new mode.  The engine ignores modes.
ModeWrites(h, saved) ==
    /\ Alive
    /\ handler[h].at = "mode"
    /\ LET r == handler[h]
       IN  /\ Write(r.user, r.row, saved)
           /\ handler' = [handler EXCEPT ![h] = [at |-> "idle"]]
           /\ excused' = IF r.alone /\ r.saved THEN excused
                         ELSE excused \cup {r.user}
    /\ UNCHANGED <<choice, requests>>
    /\ SessionRequest

Requests ==
    \E h \in Handlers :
        \/ \E u \in Users, ok \in BOOLEAN :
               \/ \E row \in Backends \cup {Blank} : SwitchSaves(h, u, row, ok)
               \/ ClearDeletes(h, u, ok)
               \/ ModeReads(h, u, ok)
        \/ SwitchApplies(h)
        \/ ClearApplies(h)
        \/ \E ok \in BOOLEAN : ModeWrites(h, ok)

-----------------------------------------------------------------------------
\* What the requests of BackendRegistry do to the factory, one call at a time
FactoryResets ==
    /\ Alive
    /\ Upset
    /\ adapters' = {}
    /\ UNCHANGED <<messageVars, sessionVars, main, listed, pledged>>

FactoryRegisters(b) ==
    /\ Alive
    /\ b \notin adapters
    /\ adapters' = adapters \cup {b}
    /\ UNCHANGED <<messageVars, sessionVars, main, listed, upsets, pledged>>

\* Messages the pipeline has not ended with
OpenMessages == {m \in 1..arrived : fate[m] = Open}

\* The account is removed, and can be listed again by a new login
AccountRemoved ==
    /\ Alive
    /\ listed
    /\ Upset
    /\ listed' = FALSE
    /\ orphaned' = orphaned \cup OpenMessages
    /\ UNCHANGED <<arrived, taken, loop, inFlight, fate, sessionVars, main,
                   adapters, pledged>>

AccountListed ==
    /\ main = "serving"
    /\ ~listed
    /\ listed' = TRUE
    /\ UNCHANGED <<messageVars, sessionVars, main, adapters, upsets, pledged>>

-----------------------------------------------------------------------------
\* A signal: main cancels the pipeline's context and waits for the WaitGroup
Signal ==
    /\ main = "serving"
    /\ main' = "waiting"
    /\ pledged' = IF Counted THEN {taken} ELSE {}
    /\ UNCHANGED <<messageVars, sessionVars, adapters, listed, upsets>>

MainGoes(from, to) ==
    /\ main = from
    /\ main' = to
    /\ UNCHANGED <<messageVars, sessionVars, adapters, listed, upsets, pledged>>

\* Wait returned ...
Drained == inFlight = 0 /\ MainGoes("waiting", "drained")

\* ... or 15 s have passed
DrainTimesOut == MainGoes("waiting", "timedOut")

\* apiServer.Shutdown lets requests end until the same 15 s have passed (after a
\* drain that timed out they have), then the accounts are removed
AccountsRemoved ==
    /\ main \in {"drained", "timedOut"}
    /\ main' = "leaving"
    /\ listed' = FALSE
    /\ orphaned' = orphaned \cup OpenMessages
    /\ UNCHANGED <<arrived, taken, loop, inFlight, fate, sessionVars, adapters,
                   upsets, pledged>>

\* The process is gone, and what its memory held; only user_sessions stays
Dies ==
    /\ main' = "down"
    /\ fate' = [m \in 1..MaxMessages |->
                   IF m \in OpenMessages THEN "died" ELSE fate[m]]
    /\ taken' = arrived
    /\ Goto("stopped")
    /\ inFlight' = 0
    /\ listed' = FALSE
    /\ handler' = [h \in Handlers |-> [at |-> "idle"]]
    /\ pledged' = {}
    /\ UNCHANGED <<arrived, orphaned, choice, table, requests, excused, adapters,
                   upsets>>

Exit == main = "leaving" /\ Dies

Crash == Alive /\ Dies

\* Variant: an empty saved choice is restored as a choice
BootRestoresBlank(read) ==
    /\ main = "down"
    /\ main' = "serving"
    /\ choice' = [u \in Users |-> IF table[u] = NoRow \/ ~read THEN None ELSE table[u]]
    /\ excused' = IF read THEN {} ELSE Users
    /\ Goto("select")
    /\ listed' \in BOOLEAN
    /\ IF read /\ listed' THEN UNCHANGED upsets ELSE Upset
    /\ adapters' \in SUBSET Backends
    /\ UNCHANGED <<arrived, taken, inFlight, fate, orphaned, table, handler,
                   requests, pledged>>

\* Boot: every saved choice is restored, registered or not, or none if the table
\* cannot be read; the factory holds what the table of backends holds by now, if
\* anything; the saved account is listed unless its table cannot be read
Boot(read) ==
    /\ main = "down"
    /\ main' = "serving"
    /\ IF read
       THEN /\ choice' = [u \in Users |-> RowChoice(table[u])]
            /\ excused' = {}
       ELSE /\ choice' = [u \in Users |-> None]
            /\ excused' = Users
    /\ Goto("select")
    /\ listed' \in BOOLEAN
    /\ IF read /\ listed' THEN UNCHANGED upsets ELSE Upset
    /\ adapters' \in SUBSET Backends
    /\ UNCHANGED <<arrived, taken, inFlight, fate, orphaned, table, handler,
                   requests, pledged>>

Main ==
    \/ Signal \/ Drained \/ DrainTimesOut \/ AccountsRemoved \/ Exit
    \/ \E read \in BOOLEAN : Boot(read)

Surroundings ==
    \/ Arrive
    \/ FactoryResets
    \/ \E b \in Backends : FactoryRegisters(b)
    \/ AccountRemoved
    \/ AccountListed
    \/ Crash

Next == Loop \/ Requests \/ Main \/ Surroundings

Spec == Init /\ [][Next]_vars

-----------------------------------------------------------------------------
Places == {"select", "received", "parse", "use", "answer", "forward", "handle",
           "reply", "apologise", "finish", "panicked", "stopped"}

\* Type invariant
TypeOK ==
    /\ arrived \in 0..MaxMessages
    /\ taken \in 0..arrived
    /\ loop.at \in Places
    /\ loop.at = "use" => loop.user \in Users
    /\ loop.at \in {"use", "forward"} => loop.to \in Backends
    /\ inFlight \in Nat
    /\ main \in {"serving", "waiting", "drained", "timedOut", "leaving", "down"}
    /\ adapters \subseteq Backends
    /\ listed \in BOOLEAN
    /\ choice \in [Users -> Backends \cup {None}]
    /\ table \in [Users -> Backends \cup {Blank, NoRow}]
    /\ \A h \in Handlers :
           /\ handler[h].at \in {"idle", "switch", "clear", "mode"}
           /\ handler[h].at # "idle" => handler[h].user \in Users
           /\ handler[h].at \in {"switch", "mode"} =>
                  handler[h].row \in Backends \cup {Blank}
    /\ fate \in [1..MaxMessages ->
                    {Open, "answered", "unsent", "handed", "silent", "cut",
                     "skipped", "unanswerable", "panicked", "died"}]
    /\ orphaned \cup pledged \subseteq 1..arrived
    /\ excused \subseteq Users

\* wg.Add and wg.Done balance on every path through processMessage, a panic's
\* included: the counter main waits on counts the one message being processed.
WaitGroupBalanced == inFlight = IF Counted THEN 1 ELSE 0

\* pipeline.Wait: when main leaves its wait because the counter is zero, every
\* message that was being processed when the signal came has been ended with.
\* (A message processLoop had taken and not yet counted may still be running.)
DrainKeepsItsPromise ==
    main = "drained" => \A m \in pledged : fate[m] # Open

\* processMessage: the pipeline lets go of no message before it tried to send an answer
\* or a virtual bot has the message to answer it, unless the backend's response had
\* nothing to send, the gateway went down, an adapter panicked, or the account of the
\* message was removed meanwhile; and it sends in vain, its context done, only when the
\* gateway shuts down.  (That a send fails is an end of its own, unsent.)
NobodyIgnored ==
    \A m \in 1..taken :
        (~Busy \/ m # taken \/ loop.at = "finish") =>
            /\ fate[m] # Open
            /\ fate[m] \in {"skipped", "unanswerable"} => m \in orphaned
            /\ fate[m] = "cut" /\ m = taken /\ loop.at = "finish" => Cancelled

\* user_handler.go and main.go:99: with no request on a user in progress, the
\* user's choice in the engine is that of the row a restart will restore, unless
\* /use, a refused or failed request or overlapping ones drove them apart.
ChoiceMatchesTable ==
    \A u \in Users :
        (Alive /\ u \notin excused /\ \A h \in Handlers : ~Serving(h, u)) =>
            choice[u] = RowChoice(table[u])

\* processMessage returns after each answer: no message is ended with twice, so
\* no user gets two answers to one message.
OneEndPerMessage ==
    [][\A m \in 1..MaxMessages : fate[m] # Open => fate'[m] = fate[m]]_vars

\* Start: as long as the gateway serves, processLoop has a next step whenever a
\* message waits or is being processed, so no panic and no path of a message
\* leaves the channel without a reader.
LoopNeverStuck == (main = "serving" /\ (taken < arrived \/ Busy)) => ENABLED Loop

===============================================================================
