-------------------------------- MODULE QRLogin --------------------------------
(***************************************************************************)
(* Binding a WeChat account by QR code: the scans of QRCodeManager         *)
(* (bot/qrlogin.go), the requests of api/wechat_handler.go, the dialog of  *)
(* the admin page (web/src/components/QrModal.tsx), and the iLink service  *)
(* with the user's phone (external).                                       *)
(*                                                                         *)
(* A scan is a goroutine that polls iLink for the status of its code and   *)
(* shares its state under a lock, through the map active, with the         *)
(* requests by which the dialog asks.  The dialog asks on a timer and does *)
(* not wait for an answer before it asks again, so its requests overtake   *)
(* each other.  When one of them finds the code confirmed it saves the     *)
(* account and lists it; the connector refuses an account that is listed.  *)
(*                                                                         *)
(* Codes are numbered as iLink issues them, and there is one account: the  *)
(* k-th confirmation of a code gives it the token k.  A scan is named by   *)
(* the code it was created for.  Pauses are left out.                      *)
(***************************************************************************)
EXTENDS Naturals, FiniteSets

CONSTANTS Handlers,    \* goroutines that serve requests
          MaxCodes,    \* bound on the codes iLink issues
          MaxRefresh,  \* maxQRRefreshCount (3 in the code)
          MaxExpired,  \* times the dialog fetches a new code (3 in the page)
          MaxUpsets    \* bound on failed saves, disconnections and restarts

ASSUME LoginAssumption ==
    /\ MaxCodes \in Nat /\ MaxRefresh \in Nat /\ MaxExpired \in Nat
    /\ MaxUpsets \in Nat

VARIABLES issued,   \* codes iLink has issued
          ilink,    \* ilink[c]: "wait", "confirmed" or "expired"
          token,    \* token[c]: the token c was confirmed with, 0 before
          scan,     \* scan[c]: the goroutine created for code c
          active,   \* QRCodeManager.active: active[c] is a scan, or 0
          table,    \* the token in the accounts table, 0 without a row
          listed,   \* the token of the listed account's poll loop, 0 without
          handler,  \* handler[h]: the request goroutine h serves
          dialog,   \* the dialog: whether it is open, the code it shows, whether
                    \* it asks, codes expired, whether it offers to fetch another
                    \* code, and the code it reported bound
          shown,    \* codes the dialog has shown
          upsets,   \* upsets so far
          past,     \* history: tokens that left the table
          told,     \* history: codes the dialog reported bound
          cause     \* history: why the loop may not have the saved token:
                    \* "refused", the account was bound while another login of
                    \* it was listed; "outdated", the last call of the connector
                    \* was not about what the table says, or a boot could not
                    \* list the table; or "none"

service == <<issued, ilink, token>>
account == <<table, listed, past, told, cause>>
page == <<dialog, shown>>
vars == <<service, scan, active, account, handler, page, upsets>>

Codes == 1..MaxCodes
NewestToken == Cardinality({c \in Codes : token[c] # 0})

NoScan == [at |-> "none", code |-> 0, status |-> "wait", creds |-> 0,
           refreshes |-> 0]
Idle == [at |-> "idle"]
Closed == [open |-> FALSE, code |-> 0, asks |-> FALSE, expired |-> 0,
           offers |-> FALSE, bound |-> 0]
Upset == upsets < MaxUpsets /\ upsets' = upsets + 1

Init ==
    /\ issued = 0
    /\ ilink = [c \in Codes |-> "wait"]
    /\ token = [c \in Codes |-> 0]
    /\ scan = [c \in Codes |-> NoScan]
    /\ active = [c \in Codes |-> 0]
    /\ table = 0
    /\ listed = 0
    /\ handler = [h \in Handlers |-> Idle]
    /\ dialog = Closed
    /\ shown = {}
    /\ upsets = 0
    /\ past = {}
    /\ told = {}
    /\ cause = "none"

-----------------------------------------------------------------------------
(* iLink and the phone.  Only a code that was on the screen can be scanned.    *)
(* The answers scaned and scaned_but_redirect are polled on like wait.         *)

PhoneConfirms(c) ==
    /\ c \in shown
    /\ ilink[c] = "wait"
    /\ ilink' = [ilink EXCEPT ![c] = "confirmed"]
    /\ token' = [token EXCEPT ![c] = NewestToken + 1]
    /\ UNCHANGED <<issued, scan, active, account, handler, page, upsets>>

CodeExpires(c) ==
    /\ c <= issued
    /\ ilink[c] = "wait"
    /\ ilink' = [ilink EXCEPT ![c] = "expired"]
    /\ UNCHANGED <<issued, token, scan, active, account, handler, page, upsets>>

\* get_bot_qrcode gives a code nobody had before
Issue(c) == /\ c = issued + 1
            /\ issued' = c
            /\ UNCHANGED <<ilink, token>>

-----------------------------------------------------------------------------
\* CreateScan: nothing if the code is being polled
CreateScan(c) ==
    IF active[c] # 0 THEN UNCHANGED <<scan, active>>
    ELSE /\ scan' = [scan EXCEPT ![c] = [at |-> "ask", code |-> c, status |-> "wait",
                                         creds |-> 0, refreshes |-> 0]]
         /\ active' = [active EXCEPT ![c] = c]

ScanOnly == UNCHANGED <<account, handler, page, upsets>>

\* Scan s goes on to another place, with a code and a status
Moves(s, at, code, status) ==
    scan' = [scan EXCEPT ![s] = [at |-> at, code |-> code, status |-> status,
                                 creds |-> scan[s].creds,
                                 refreshes |-> scan[s].refreshes]]

\* What scan s is after a poll whose answer makes it keep creds.  It keeps the status,
\* and ends with a confirmed code or one expired too often.
Polled(s, creds) ==
    LET status == ilink[scan[s].code]
    IN  [at |-> IF status = "confirmed" THEN "leave"
                ELSE IF status # "expired" THEN "ask"
                ELSE IF scan[s].refreshes >= MaxRefresh THEN "leave" ELSE "refresh",
         code |-> scan[s].code,
         status |-> status,
         creds |-> creds,
         refreshes |-> scan[s].refreshes + (IF status = "expired" THEN 1 ELSE 0)]

\* Variant: the status is kept, the credentials are not
AskWithoutCreds(s) ==
    /\ scan[s].at = "ask"
    /\ scan' = [scan EXCEPT ![s] = Polled(s, scan[s].creds)]
    /\ UNCHANGED <<service, active>>
    /\ ScanOnly

\* One poll of get_qrcode_status, and what is kept of it under the lock.  A poll
\* that fails is repeated.
Ask(s) ==
    /\ scan[s].at = "ask"
    /\ LET code == scan[s].code
           creds == IF ilink[code] = "confirmed" THEN token[code] ELSE scan[s].creds
       IN  scan' = [scan EXCEPT ![s] = Polled(s, creds)]
    /\ UNCHANGED <<service, active>>
    /\ ScanOnly

\* 480 s after the scan began
Deadline(s) ==
    /\ scan[s].at = "ask"
    /\ Moves(s, "leave", scan[s].code, "expired")
    /\ UNCHANGED <<service, active>>
    /\ ScanOnly

\* Variant: the state stays reachable under the expired code
RefreshKeepsOld(s, c) ==
    /\ scan[s].at = "refresh"
    /\ Issue(c)
    /\ Moves(s, "ask", c, scan[s].status)
    /\ active' = [active EXCEPT ![c] = s]
    /\ ScanOnly

\* An expired code is replaced by a new one, of which the dialog hears nothing
Refresh(s, c) ==
    /\ scan[s].at = "refresh"
    /\ Issue(c)
    /\ Moves(s, "ask", c, scan[s].status)
    /\ active' = [active EXCEPT ![c] = s, ![scan[s].code] = 0]
    /\ ScanOnly

\* iLink fails to answer, or answers without a code
RefreshFails(s) ==
    /\ scan[s].at = "refresh"
    /\ \E at \in {"leave", "ask"} : Moves(s, at, scan[s].code, scan[s].status)
    /\ UNCHANGED <<service, active>>
    /\ ScanOnly

\* The goroutine ends: only a confirmed scan stays reachable
Leave(s) ==
    /\ scan[s].at = "leave"
    /\ IF scan[s].status = "confirmed"
       THEN /\ Moves(s, "done", scan[s].code, "confirmed")
            /\ UNCHANGED active
       ELSE /\ scan' = [scan EXCEPT ![s] = NoScan]
            /\ active' = [active EXCEPT ![scan[s].code] = 0]
    /\ UNCHANGED service
    /\ ScanOnly

ScanStep(s) ==
    \/ Ask(s)
    \/ \E c \in Codes : Refresh(s, c)
    \/ RefreshFails(s)
    \/ Leave(s)

-----------------------------------------------------------------------------
(* The dialog and the requests it sends.  handler[h] is a request on its way  *)
(* to the gateway, in it, or its answer on the way back.                      *)

Goto(h, record) == handler' = [handler EXCEPT ![h] = record]
Free(h) == handler[h].at = "idle"
Fetching == [at |-> "fetch"]

\* The dialog opens and fetches a code
DialogOpens(h) ==
    /\ Free(h)
    /\ ~dialog.open
    /\ dialog' = [Closed EXCEPT !.open = TRUE]
    /\ Goto(h, Fetching)
    /\ UNCHANGED <<service, scan, active, account, shown, upsets>>

DialogCloses ==
    /\ dialog.open
    /\ dialog' = Closed
    /\ UNCHANGED <<service, scan, active, account, shown, handler, upsets>>

\* The button by which the user fetches another code
DialogRenews(h) ==
    /\ Free(h)
    /\ dialog.offers
    /\ dialog' = [dialog EXCEPT !.code = 0, !.asks = FALSE, !.offers = FALSE]
    /\ Goto(h, Fetching)
    /\ UNCHANGED <<service, scan, active, account, shown, upsets>>

\* The timer of the dialog
DialogAsks(h) ==
    /\ Free(h)
    /\ dialog.asks
    /\ Goto(h, [at |-> "check", code |-> dialog.code,
               reported |-> dialog.code \in told])
    /\ UNCHANGED <<service, scan, active, account, page, upsets>>

\* handleGetQRCode: a code from iLink and a scan for it ...
Fetch(h, c) ==
    /\ handler[h].at = "fetch"
    /\ Issue(c)
    /\ CreateScan(c)
    /\ Goto(h, [at |-> "show", code |-> c])
    /\ UNCHANGED <<account, page, upsets>>

\* The request or its answer is lost; the scan it began goes on
FetchFails(h) ==
    /\ handler[h].at \in {"fetch", "show"}
    /\ Goto(h, Idle)
    /\ UNCHANGED <<service, scan, active, account, page, upsets>>

\* ... that the dialog shows, if it is still open
FetchShows(h) ==
    /\ handler[h].at = "show"
    /\ IF dialog.open
       THEN /\ dialog' = [dialog EXCEPT !.code = handler[h].code, !.asks = TRUE,
                                         !.offers = FALSE]
            /\ shown' = shown \cup {handler[h].code}
       ELSE UNCHANGED page
    /\ Goto(h, Idle)
    /\ UNCHANGED <<service, scan, active, account, upsets>>

\* Request h is between its statement and its call of the connector, and the token
\* it leaves, 0 for a disconnection, is the one in the table
Agrees(h) == handler[h].at \in {"add", "remove"} /\ handler[h].token = table

\* handleQRStatus: CheckStatus copies the scan's state
Check(h) ==
    /\ handler[h].at = "check"
    /\ LET s == active[handler[h].code]
           status == IF s = 0 THEN "unknown" ELSE scan[s].status
           creds == IF s = 0 THEN 0 ELSE scan[s].creds
       IN  IF status = "confirmed" /\ creds # 0
           THEN Goto(h, [at |-> "save", code |-> handler[h].code,
                         reported |-> handler[h].reported, token |-> creds])
           ELSE Goto(h, [at |-> "answer", code |-> handler[h].code,
                         status |-> status])
    /\ UNCHANGED <<service, scan, active, account, page, upsets>>

\* The token in the table changes
Store(t) ==
    /\ table' = t
    /\ past' = IF table \in {0, t} THEN past ELSE past \cup {table}

\* A confirmed login is saved; a failure is only logged
CheckSaves(h, saved) ==
    /\ handler[h].at = "save"
    /\ IF saved THEN Store(handler[h].token) /\ UNCHANGED upsets
       ELSE Upset /\ UNCHANGED <<table, past>>
    /\ Goto(h, [at |-> "add", code |-> handler[h].code,
               reported |-> handler[h].reported, token |-> handler[h].token])
    /\ UNCHANGED <<service, scan, active, listed, told, cause, page>>

\* Request h calls the connector, which refuses it or not.  A call that is not about
\* what the table says leaves it to a request that is, if one has yet to call.
Settle(h, refused) ==
    cause' = IF Agrees(h) THEN IF refused THEN "refused" ELSE "none"
             ELSE IF \E g \in Handlers : Agrees(g) THEN cause ELSE "outdated"

\* AddAccount starts a poll loop with the token, or refuses a listed account
CheckAdds(h) ==
    /\ handler[h].at = "add"
    /\ listed' = IF listed = 0 THEN handler[h].token ELSE listed
    /\ Settle(h, listed \notin {0, handler[h].token})
    /\ Goto(h, [at |-> "answer", code |-> handler[h].code,
                status |-> "confirmed"])
    /\ UNCHANGED <<service, scan, active, table, past, told, page, upsets>>

\* Variant: the dialog goes on asking after the success
AnswerGoesOn(h) ==
    /\ handler[h].at = "answer"
    /\ handler[h].status # "expired"
    /\ told' = IF handler[h].status = "confirmed" THEN told \cup {handler[h].code}
               ELSE told
    /\ Goto(h, Idle)
    /\ UNCHANGED <<service, scan, active, table, listed, past, cause, page, upsets>>

\* An answer other than expired: a confirmed code closes the dialog, whichever code
\* it shows by now; the others only change the caption, unknown not even that
AnswerArrives(h) ==
    /\ handler[h].at = "answer"
    /\ handler[h].status # "expired"
    /\ IF handler[h].status = "confirmed"
       THEN /\ dialog' = [Closed EXCEPT !.bound = handler[h].code]
            /\ told' = told \cup {handler[h].code}
       ELSE UNCHANGED <<dialog, told>>
    /\ Goto(h, Idle)
    /\ UNCHANGED <<service, scan, active, table, listed, past, cause, shown, upsets>>

\* The caption that a scanned code gets starts the timer again, for the code on the
\* screen, if the dialog had stopped asking
AnswerRevives(h) ==
    /\ handler[h].at = "answer"
    /\ handler[h].status = "wait"
    /\ dialog.code # 0
    /\ dialog' = [dialog EXCEPT !.asks = TRUE, !.offers = FALSE]
    /\ Goto(h, Idle)
    /\ UNCHANGED <<service, scan, active, account, shown, upsets>>

\* An expired code makes the dialog fetch another, a few times
AnswerExpired(h) ==
    /\ handler[h].at = "answer"
    /\ handler[h].status = "expired"
    /\ IF dialog.expired < MaxExpired
       THEN /\ dialog' = [dialog EXCEPT !.expired = @ + 1, !.code = 0, !.asks = FALSE]
            /\ Goto(h, Fetching)
       ELSE /\ dialog' = [dialog EXCEPT !.asks = FALSE, !.offers = dialog.open]
            /\ Goto(h, Idle)
    /\ UNCHANGED <<service, scan, active, account, shown, upsets>>

\* A request of the dialog, or its answer, is lost: the dialog stops asking
AskFails(h) ==
    /\ handler[h].at \in {"check", "answer"}
    /\ Upset
    /\ dialog' = [dialog EXCEPT !.asks = FALSE]
    /\ Goto(h, Idle)
    /\ UNCHANGED <<service, scan, active, account, shown>>

\* Variant: the poll loop is left running
DisconnectRemovesNothing(h) ==
    /\ handler[h].at = "remove"
    /\ Goto(h, Idle)
    /\ UNCHANGED <<service, scan, active, account, page, upsets>>

\* handleDisconnectAccount deletes the row, then removes the account
DisconnectDeletes(h) ==
    /\ Free(h)
    /\ table # 0
    /\ Upset
    /\ Store(0)
    /\ Goto(h, [at |-> "remove", token |-> 0])
    /\ UNCHANGED <<service, scan, active, listed, told, cause, page>>

DisconnectRemoves(h) ==
    /\ handler[h].at = "remove"
    /\ listed' = 0
    /\ Settle(h, FALSE)
    /\ Goto(h, Idle)
    /\ UNCHANGED <<service, scan, active, table, past, told, page, upsets>>

\* A restart forgets scans and requests and lists what it reads from the table, which
\* is nothing if it cannot; a dialog whose request broke off stops asking
Restart(read) ==
    /\ Upset
    /\ scan' = [c \in Codes |-> NoScan]
    /\ active' = [c \in Codes |-> 0]
    /\ listed' = IF read THEN table ELSE 0
    /\ cause' = IF read THEN "none" ELSE "outdated"
    /\ handler' = [h \in Handlers |-> Idle]
    /\ dialog' = IF \A h \in Handlers : Free(h) THEN dialog
                 ELSE [dialog EXCEPT !.asks = FALSE]
    /\ UNCHANGED <<service, table, past, told, shown>>

HandlerStep(h) ==
    \/ \E c \in Codes : Fetch(h, c)
    \/ FetchFails(h)
    \/ FetchShows(h)
    \/ Check(h)
    \/ \E saved \in BOOLEAN : CheckSaves(h, saved)
    \/ CheckAdds(h)
    \/ AnswerArrives(h)
    \/ AnswerRevives(h)
    \/ AnswerExpired(h)
    \/ DisconnectRemoves(h)

Next ==
    \/ \E c \in Codes : PhoneConfirms(c) \/ CodeExpires(c)
    \/ \E s \in Codes : ScanStep(s) \/ Deadline(s)
    \/ \E h \in Handlers : \/ HandlerStep(h)
                           \/ DialogOpens(h)
                           \/ DialogRenews(h)
                           \/ DialogAsks(h)
                           \/ AskFails(h)
                           \/ DisconnectDeletes(h)
    \/ DialogCloses
    \/ \E read \in BOOLEAN : Restart(read)

Spec == Init /\ [][Next]_vars

\* Goroutines run, iLink does not answer with errors for ever, and the timer of an
\* open dialog goes off
FairSpec ==
    /\ Spec
    /\ \A s \in Codes : WF_vars(ScanStep(s))
    /\ \A h \in Handlers : WF_vars(HandlerStep(h))
    /\ WF_vars(\E h \in Handlers : DialogAsks(h))

-----------------------------------------------------------------------------
\* CreateScan, its deferred delete and its refresh: an entry of active is the scan
\* that polls its code, or a confirmed one whose token a request can still fetch;
\* and no scan that polls, or that was confirmed, is without its entry.
ActiveIsLive ==
    /\ \A c \in Codes : active[c] # 0 =>
           /\ scan[active[c]].code = c
           /\ scan[active[c]].at = "done" =>
                  scan[active[c]].creds # 0 /\ scan[active[c]].creds = token[c]
    /\ \A s \in Codes : scan[s].at # "none" => active[scan[s].code] = s

\* handleQRStatus and QrModal.tsx: a confirmed code keeps its token for ever, yet a
\* login that was replaced or disconnected is saved again only by a request that
\* was sent before the dialog had reported it bound.
PastLoginsStayPast ==
    [][table' \in past /\ table' # table =>
          \E h \in Handlers : /\ handler[h].at = "save"
                              /\ handler[h].token = table'
                              /\ ~handler[h].reported]_vars

\* AddAccount and the accounts table: unless a request is about to tell the connector
\* what the table says, the poll loop runs with the token a restart would give it;
\* whatever order requests save and call in, only a last call that was out of date or
\* a boot that could not read the table breaks this, and a binding that is refused
\* because another login is listed leaves that other login polling.
LoopHasSavedToken ==
    (\A h \in Handlers : ~Agrees(h)) =>
        /\ cause = "none" => listed = table
        /\ cause = "refused" => listed \notin {0, table}

\* QrModal.tsx and CreateScan: a code that the user confirms while the dialog asks
\* for it gets the account listed, unless the dialog is left or a late answer to an
\* earlier code turns it away, a request fails, the scan's time runs out, or the
\* account is disconnected meanwhile or by a call that comes late.
LoginCompletes ==
    \A c \in Codes :
        (dialog.asks /\ dialog.code = c /\ ilink[c] = "confirmed" /\ active[c] # 0)
            ~> \/ listed # 0
               \/ active[c] = 0
               \/ dialog.open /\ ~dialog.asks
               \/ dialog.code # c /\ dialog.bound # c
               \/ cause = "outdated" \/ token[c] \in past

===============================================================================
