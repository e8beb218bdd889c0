---------------------------- MODULE QRLoginProofs ----------------------------
(***************************************************************************)
(* Theorems about QRLogin for all numbers of codes, requests, refreshes    *)
(* and upsets.  Three invariants rest on the types and not on each other:  *)
(* about scans and the map they are found through, about the requests that *)
(* change the account, and about the codes the dialog has shown.           *)
(***************************************************************************)
EXTENDS QRLogin, FiniteSetTheorems, TLAPS

-----------------------------------------------------------------------------
(* Types                                                                       *)

Statuses == {"wait", "confirmed", "expired"}

Scans ==
    [at : {"none", "ask", "refresh", "leave", "done"}, code : 0..MaxCodes,
     status : Statuses, creds : Nat, refreshes : Nat]

HandlerRecords ==
    [at : {"idle", "fetch"}]
    \cup [at : {"show"}, code : Codes]
    \cup [at : {"check"}, code : Codes, reported : BOOLEAN]
    \cup [at : {"save", "add"}, code : Codes, reported : BOOLEAN,
          token : Nat \ {0}]
    \cup [at : {"answer"}, code : Codes, status : Statuses \cup {"unknown"}]
    \cup [at : {"remove"}, token : {0}]

Dialogs ==
    [open : BOOLEAN, code : 0..MaxCodes, asks : BOOLEAN, expired : Nat,
     offers : BOOLEAN, bound : 0..MaxCodes]

\* A code has its token from the moment it is confirmed.
ServiceTypes ==
    /\ issued \in 0..MaxCodes
    /\ ilink \in [Codes -> Statuses]
    /\ token \in [Codes -> Nat]
    /\ \A c \in Codes : token[c] # 0 <=> ilink[c] = "confirmed"

AccountTypes ==
    /\ table \in Nat
    /\ listed \in Nat
    /\ past \subseteq Nat \ {0}

\* A dialog that asks has a code to ask for.
PageTypes ==
    /\ dialog \in Dialogs
    /\ shown \subseteq Codes
    /\ dialog.asks => dialog.code # 0

RequestTypes == handler \in [Handlers -> HandlerRecords]

OtherTypes ==
    /\ AccountTypes
    /\ PageTypes
    /\ RequestTypes


\* A request goes to its next place.
LEMMA Goes ==
    ASSUME RequestTypes, NEW h \in Handlers, NEW r \in HandlerRecords, Goto(h, r)
    PROVE  /\ RequestTypes'
           /\ handler'[h] = r
           /\ \A g \in Handlers \ {h} : handler'[g] = handler[g]
BY DEF RequestTypes, Goto

\* What a request at each place knows.
LEMMA RequestKnows ==
    ASSUME RequestTypes, NEW h \in Handlers
    PROVE  /\ handler[h].at \in {"idle", "fetch", "show", "check", "save", "add",
                                 "answer", "remove"}
           /\ handler[h].at \in {"show", "check", "save", "add", "answer"} =>
                  handler[h].code \in Codes
           /\ handler[h].at \in {"check", "save", "add"} =>
                  handler[h].reported \in BOOLEAN
           /\ handler[h].at \in {"save", "add"} => handler[h].token \in Nat \ {0}
           /\ handler[h].at = "remove" => handler[h].token = 0
BY DEF RequestTypes, HandlerRecords

LEMMA ServiceTypesStep == ServiceTypes /\ [Next]_vars => ServiceTypes'
<1> SUFFICES ASSUME ServiceTypes, [Next]_vars PROVE ServiceTypes'
  OBVIOUS
<1> USE DEF ServiceTypes
<1>1. ASSUME NEW c \in Codes, PhoneConfirms(c) PROVE ServiceTypes'
  <2>1. NewestToken \in Nat
    <3>1. IsFiniteSet(Codes)
      BY LoginAssumption, FS_Interval DEF Codes
    <3>2. IsFiniteSet({k \in Codes : token[k] # 0})
      BY <3>1, FS_Subset
    <3> QED
      BY <3>2, FS_CardinalityType DEF NewestToken
  <2>2. /\ ilink' = [ilink EXCEPT ![c] = "confirmed"] /\ issued' = issued
        /\ token' = [token EXCEPT ![c] = NewestToken + 1]
    BY <1>1 DEF PhoneConfirms
  <2> HIDE DEF NewestToken
  <2> QED
    BY <2>1, <2>2 DEF Statuses
<1>2. ASSUME NEW c \in Codes, CodeExpires(c) PROVE ServiceTypes'
  BY <1>2 DEF CodeExpires, Statuses
<1>3. ASSUME NEW c \in Codes, Issue(c) PROVE ServiceTypes'
  BY <1>3, LoginAssumption DEF Issue, Codes
<1>4. ASSUME UNCHANGED service PROVE ServiceTypes'
  BY <1>4 DEF service
<1>5. ASSUME NEW s \in Codes, ScanStep(s) \/ Deadline(s) PROVE ServiceTypes'
  BY <1>3, <1>4, <1>5 DEF ScanStep, Deadline, Ask, Refresh, RefreshFails, Leave
<1>6. ASSUME NEW h \in Handlers, HandlerStep(h) PROVE ServiceTypes'
  BY <1>3, <1>4, <1>6
     DEF HandlerStep, Fetch, FetchFails, FetchShows, Check, CheckSaves, CheckAdds,
         AnswerArrives, AnswerRevives, AnswerExpired, DisconnectRemoves
<1>7. ASSUME NEW h \in Handlers, \/ DialogOpens(h) \/ DialogRenews(h) \/ DialogAsks(h)
                                 \/ AskFails(h) \/ DisconnectDeletes(h)
      PROVE  ServiceTypes'
  BY <1>4, <1>7 DEF DialogOpens, DialogRenews, DialogAsks, AskFails, DisconnectDeletes
<1>8. CASE DialogCloses \/ (\E read \in BOOLEAN : Restart(read)) \/ UNCHANGED vars
  BY <1>4, <1>8 DEF DialogCloses, Restart, vars
<1> QED
  BY <1>1, <1>2, <1>5, <1>6, <1>7, <1>8 DEF Next

-----------------------------------------------------------------------------
(* Scans                                                                       *)

ScanTypes ==
    /\ scan \in [Codes -> Scans]
    /\ active \in [Codes -> 0..MaxCodes]

\* A scan that runs, or was confirmed, is found under the code it polls, which was
\* issued as the code it is named by was ...
FoundByCode(s) ==
    IF scan[s].at = "none" THEN scan[s].code = 0 /\ scan[s].status = "wait"
    ELSE /\ s <= issued
         /\ scan[s].code \in 1..issued
         /\ active[scan[s].code] = s

\* ... and it has credentials once its code is confirmed, which ends it.
KnowsToken(s) ==
    /\ scan[s].status = "confirmed" =>
           /\ scan[s].at \in {"leave", "done"}
           /\ scan[s].creds = token[scan[s].code]
           /\ scan[s].creds # 0
    /\ scan[s].at = "done" => scan[s].status = "confirmed"

Found == \A s \in Codes : FoundByCode(s)
Known == \A s \in Codes : KnowsToken(s)
EntriesPoint == \A c \in Codes : active[c] # 0 => scan[active[c]].code = c

ScanInv == ScanTypes /\ Found /\ Known /\ EntriesPoint
\* A scan that is at work has a code, and what the types say of it.
LEMMA ScanAtWork ==
    ASSUME ServiceTypes, ScanInv, NEW s \in Codes, scan[s].at # "none"
    PROVE  /\ scan[s].code \in 1..issued /\ scan[s].code \in Codes
           /\ active[scan[s].code] = s /\ s \in 1..issued
           /\ scan[s] \in Scans
<1>1. FoundByCode(s) /\ scan[s] \in Scans
  BY DEF ScanInv, ScanTypes, Found
<1>2. /\ scan[s].code \in 1..issued /\ active[scan[s].code] = s /\ s <= issued
  BY <1>1 DEF FoundByCode
<1>3. issued \in 0..MaxCodes
  BY DEF ServiceTypes
<1>4. scan[s].code \in Codes /\ s \in 1..issued
  BY <1>2, <1>3, LoginAssumption DEF Codes
<1> QED
  BY <1>1, <1>2, <1>4

\* Two scans at work have different codes.
LEMMA ScansDiffer ==
    ASSUME ServiceTypes, ScanInv, NEW s \in Codes, NEW t \in Codes, s # t,
           scan[s].at # "none"
    PROVE  scan[t].code # scan[s].code
<1>1. CASE scan[t].at = "none"
  BY <1>1, ScanAtWork DEF ScanInv, Found, FoundByCode
<1>2. CASE scan[t].at # "none"
  BY <1>2, ScanAtWork
<1> QED
  BY <1>1, <1>2

\* A scan that keeps its code: its entry stays.
LEMMA ScanGoesOn ==
    ASSUME ServiceTypes, ScanInv, NEW s \in Codes, scan[s].at # "none",
           NEW r \in Scans, r.at # "none", r.code = scan[s].code,
           r.status = "confirmed" =>
               /\ r.at \in {"leave", "done"}
               /\ r.creds = token[r.code]
               /\ r.creds # 0,
           r.at = "done" => r.status = "confirmed",
           scan' = [scan EXCEPT ![s] = r], UNCHANGED <<service, active>>
    PROVE  ScanInv'
<1>1. /\ scan'[s] = r /\ \A t \in Codes \ {s} : scan'[t] = scan[t]
      /\ issued' = issued /\ token' = token /\ active' = active
  BY DEF ScanInv, ScanTypes, service
<1>2. ScanTypes'
  BY DEF ScanInv, ScanTypes
<1>3. Found'
  BY <1>1, ScanAtWork DEF ScanInv, Found, FoundByCode
<1>4. Known'
  BY <1>1 DEF ScanInv, Known, KnowsToken
<1>5. EntriesPoint'
  <2> SUFFICES ASSUME NEW c \in Codes, active[c] # 0
               PROVE  scan'[active[c]].code = c
    BY <1>1 DEF EntriesPoint
  <2>1. active[c] \in Codes /\ scan[active[c]].code = c
    BY DEF ScanInv, ScanTypes, EntriesPoint, Codes
  <2> QED
    BY <1>1, <2>1
<1> QED
  BY <1>2, <1>3, <1>4, <1>5 DEF ScanInv

\* A poll.
LEMMA AskKeepsScans ==
    ASSUME ServiceTypes, ScanInv, NEW s \in Codes, Ask(s)
    PROVE  ScanInv'
<1> DEFINE code == scan[s].code
           creds == IF ilink[code] = "confirmed" THEN token[code] ELSE scan[s].creds
           r == Polled(s, creds)
<1>1. scan[s] \in Scans /\ code \in Codes /\ scan[s].at = "ask"
  BY ScanAtWork DEF Ask
<1>2. /\ ilink[code] \in Statuses /\ token[code] \in Nat /\ creds \in Nat
      /\ ilink[code] = "confirmed" => creds = token[code] /\ creds # 0
  BY <1>1 DEF ServiceTypes, Scans
<1>3. /\ r.at \in {"ask", "refresh", "leave"} /\ r.code = code
      /\ r.status = ilink[code] /\ r.creds = creds
      /\ ilink[code] = "confirmed" => r.at = "leave"
  BY DEF Polled
<1>4. r \in Scans
  <2>1. scan[s].refreshes \in Nat /\ code \in 0..MaxCodes
    BY <1>1 DEF Scans
  <2> QED
    BY <1>2, <2>1 DEF Polled, Scans, Statuses
<1>5. scan' = [scan EXCEPT ![s] = r] /\ UNCHANGED <<service, active>>
  BY DEF Ask
<1> HIDE DEF r, creds
<1> QED
  BY <1>1, <1>2, <1>3, <1>4, <1>5, ScanGoesOn

\* A step that keeps the code and the credentials.
LEMMA MoveKeepsScans ==
    ASSUME ServiceTypes, ScanInv, NEW s \in Codes, scan[s].at # "none",
           NEW at \in {"ask", "leave", "done"}, NEW status \in Statuses,
           at = "done" <=> status = "confirmed",
           status = "confirmed" => scan[s].status = "confirmed",
           Moves(s, at, scan[s].code, status), UNCHANGED <<service, active>>
    PROVE  ScanInv'
<1> DEFINE r == [at |-> at, code |-> scan[s].code, status |-> status,
                 creds |-> scan[s].creds, refreshes |-> scan[s].refreshes]
<1>1. scan[s] \in Scans /\ scan' = [scan EXCEPT ![s] = r]
  BY ScanAtWork DEF Moves
<1>2. r \in Scans
  BY <1>1 DEF Scans
<1>3. scan[s].status = "confirmed" =>
          scan[s].creds = token[scan[s].code] /\ scan[s].creds # 0
  BY DEF ScanInv, Known, KnowsToken
<1>4. /\ r.at = at /\ r.code = scan[s].code /\ r.status = status
      /\ r.creds = scan[s].creds
  OBVIOUS
<1> HIDE DEF r
<1> QED
  BY <1>1, <1>2, <1>3, <1>4, ScanGoesOn

\* The ends of a scan whose time is up or that was confirmed, and a failing refresh.
LEMMA OwnStepKeepsScans ==
    ASSUME ServiceTypes, ScanInv, NEW s \in Codes,
           \/ Deadline(s) \/ RefreshFails(s)
           \/ Leave(s) /\ scan[s].status = "confirmed"
    PROVE  ScanInv'
<1>1. /\ scan[s] \in Scans
      /\ scan[s].status = "confirmed" => scan[s].at \in {"leave", "done"}
  BY DEF ScanInv, ScanTypes, Known, KnowsToken
<1>2. CASE Deadline(s)
  <2>1. /\ scan[s].at = "ask" /\ Moves(s, "leave", scan[s].code, "expired")
        /\ UNCHANGED <<service, active>>
    BY <1>2 DEF Deadline
  <2> QED
    BY <2>1, MoveKeepsScans DEF Statuses
<1>3. CASE RefreshFails(s)
  <2>1. /\ scan[s].at = "refresh" /\ UNCHANGED <<service, active>>
    BY <1>3 DEF RefreshFails
  <2>2. PICK at \in {"leave", "ask"} : Moves(s, at, scan[s].code, scan[s].status)
    BY <1>3 DEF RefreshFails
  <2>3. scan[s].status \in Statuses /\ scan[s].status # "confirmed"
    BY <1>1, <2>1 DEF Scans
  <2> QED
    BY <2>1, <2>2, <2>3, MoveKeepsScans
<1>4. CASE Leave(s) /\ scan[s].status = "confirmed"
  <2>1. /\ scan[s].at = "leave" /\ Moves(s, "done", scan[s].code, "confirmed")
        /\ UNCHANGED <<service, active>>
    BY <1>4 DEF Leave
  <2> QED
    BY <1>4, <2>1, MoveKeepsScans DEF Statuses
<1> QED
  BY <1>2, <1>3, <1>4

\* The end of any other scan: its entry goes with it.
LEMMA LeavingKeepsScans ==
    ASSUME ServiceTypes, ScanInv, NEW s \in Codes, Leave(s),
           scan[s].status # "confirmed"
    PROVE  ScanInv'
<1>1. /\ scan' = [scan EXCEPT ![s] = NoScan] /\ scan[s].at # "none"
      /\ active' = [active EXCEPT ![scan[s].code] = 0]
      /\ issued' = issued /\ token' = token
  BY DEF Leave, service
<1>2. NoScan \in Scans
  BY LoginAssumption DEF NoScan, Scans, Statuses
<1>3. /\ scan'[s] = NoScan /\ \A t \in Codes \ {s} : scan'[t] = scan[t]
      /\ active'[scan[s].code] = 0
      /\ \A c \in Codes : c # scan[s].code => active'[c] = active[c]
  <2>1. /\ scan \in [Codes -> Scans] /\ active \in [Codes -> 0..MaxCodes]
        /\ scan[s].code \in Codes
    BY <1>1, ScanAtWork DEF ScanInv, ScanTypes
  <2> QED
    BY <1>1, <2>1
<1>4. ScanTypes'
  <2>1. 0 \in 0..MaxCodes
    BY LoginAssumption
  <2>2. scan' \in [Codes -> Scans]
    BY <1>1, <1>2 DEF ScanInv, ScanTypes
  <2>3. active' \in [Codes -> 0..MaxCodes]
    BY <1>1, <2>1 DEF ScanInv, ScanTypes
  <2> QED
    BY <2>2, <2>3 DEF ScanTypes
<1>5. Found'
  <2> SUFFICES ASSUME NEW t \in Codes PROVE FoundByCode(t)'
    BY DEF Found
  <2>1. CASE t = s
    BY <1>3, <2>1 DEF FoundByCode, NoScan
  <2>2. CASE t # s
    BY <1>1, <1>3, <2>2, ScansDiffer, ScanAtWork DEF ScanInv, Found, FoundByCode
  <2> QED
    BY <2>1, <2>2
<1>6. Known'
  BY <1>1, <1>3 DEF ScanInv, Known, KnowsToken, NoScan
<1>7. EntriesPoint'
  <2> SUFFICES ASSUME NEW c \in Codes, active'[c] # 0
               PROVE  scan'[active'[c]].code = c
    BY DEF EntriesPoint
  <2>1. active'[c] = active[c] /\ c # scan[s].code
    BY <1>3
  <2>2. active[c] \in Codes /\ scan[active[c]].code = c
    BY <2>1 DEF ScanInv, ScanTypes, EntriesPoint, Codes
  <2> QED
    BY <1>3, <2>1, <2>2
<1> QED
  BY <1>4, <1>5, <1>6, <1>7 DEF ScanInv

\* A scan takes the newest code, which nothing knew: it is a new scan, or one that
\* gives up its old code.
LEMMA NewCodeKeepsScans ==
    ASSUME ServiceTypes, ScanInv, NEW c \in Codes, Issue(c), NEW s \in Codes,
           NEW r \in Scans, r.at = "ask", r.code = c, r.status # "confirmed",
           scan' = [scan EXCEPT ![s] = r],
           \/ s = c /\ active' = [active EXCEPT ![c] = c]
           \/ /\ scan[s].at # "none"
              /\ active' = [active EXCEPT ![c] = s, ![scan[s].code] = 0]
    PROVE  ScanInv'
<1>1. /\ c = issued + 1 /\ issued' = c /\ token' = token /\ issued \in Nat
      /\ Codes \subseteq 0..MaxCodes /\ 0 \in 0..MaxCodes
  BY LoginAssumption DEF Issue, ServiceTypes, Codes
<1>2. /\ scan'[s] = r /\ \A t \in Codes \ {s} : scan'[t] = scan[t]
  BY DEF ScanInv, ScanTypes
<1>3. scan[s].at # "none" => scan[s].code \in Codes /\ scan[s].code # c /\ s \in 1..issued
  BY <1>1, ScanAtWork
<1>4. /\ active' \in [Codes -> 0..MaxCodes]
      /\ active'[c] = s
      /\ \A d \in Codes \ {c} :
            active'[d] = IF scan[s].at # "none" /\ scan[s].code = d THEN 0 ELSE active[d]
  <2>1. CASE s = c /\ active' = [active EXCEPT ![c] = c]
    <3>1. scan[s].at = "none"
      BY <1>1, <1>3, <2>1
    <3> QED
      BY <1>1, <2>1, <3>1 DEF ScanInv, ScanTypes
  <2>2. CASE /\ scan[s].at # "none"
             /\ active' = [active EXCEPT ![c] = s, ![scan[s].code] = 0]
    BY <1>1, <1>3, <2>2 DEF ScanInv, ScanTypes
  <2> QED
    BY <2>1, <2>2
<1>5. ScanTypes'
  BY <1>4 DEF ScanInv, ScanTypes
<1>6. Found'
  <2> SUFFICES ASSUME NEW t \in Codes PROVE FoundByCode(t)'
    BY DEF Found
  <2>1. CASE t = s
    <3>1. s <= c /\ c \in 1..c
      BY <1>1, <1>3
    <3> QED
      BY <1>1, <1>2, <1>4, <2>1, <3>1 DEF FoundByCode
  <2>2. CASE t # s
    <3>1. CASE scan[t].at = "none"
      BY <1>2, <2>2, <3>1 DEF ScanInv, Found, FoundByCode
    <3>2. CASE scan[t].at # "none"
      <4>1. /\ scan[t].code \in 1..issued /\ active[scan[t].code] = t /\ t <= issued
            /\ scan[t].code \in Codes \ {c}
        BY <1>1, <3>2, ScanAtWork
      <4>2. scan[s].at # "none" => scan[s].code # scan[t].code
        BY <2>2, <3>2, ScansDiffer
      <4> QED
        BY <1>1, <1>2, <1>4, <2>2, <3>2, <4>1, <4>2 DEF FoundByCode
    <3> QED
      BY <3>1, <3>2
  <2> QED
    BY <2>1, <2>2
<1>7. Known'
  BY <1>1, <1>2 DEF ScanInv, Known, KnowsToken
<1>8. EntriesPoint'
  <2> SUFFICES ASSUME NEW d \in Codes, active'[d] # 0
               PROVE  scan'[active'[d]].code = d
    BY DEF EntriesPoint
  <2>1. CASE d = c
    BY <1>2, <1>4, <2>1
  <2>2. CASE d # c
    <3>1. active'[d] = active[d] /\ ~(scan[s].at # "none" /\ scan[s].code = d)
      BY <1>4, <2>2
    <3>2. active[d] \in Codes /\ scan[active[d]].code = d
      BY <3>1 DEF ScanInv, ScanTypes, EntriesPoint, Codes
    <3>3. scan[active[d]].at # "none"
      BY <3>2, <1>1 DEF ScanInv, Found, FoundByCode, Codes
    <3> QED
      BY <1>2, <3>1, <3>2, <3>3
  <2> QED
    BY <2>1, <2>2
<1> QED
  BY <1>5, <1>6, <1>7, <1>8 DEF ScanInv

\* The service does not touch a token that is given.
LEMMA ServiceKeepsScans ==
    ASSUME ServiceTypes, ScanInv, UNCHANGED <<scan, active, issued>>,
           \A c \in Codes : token[c] # 0 => token'[c] = token[c]
    PROVE  ScanInv'
<1>1. ScanTypes' /\ Found' /\ EntriesPoint'
  BY DEF ScanInv, ScanTypes, Found, FoundByCode, EntriesPoint
<1>2. Known'
  <2> SUFFICES ASSUME NEW s \in Codes PROVE KnowsToken(s)'
    BY DEF Known
  <2>1. scan[s].at # "none" => scan[s].code \in Codes
    BY ScanAtWork
  <2> QED
    BY <2>1 DEF ScanInv, Known, KnowsToken
<1> QED
  BY <1>1, <1>2 DEF ScanInv

LEMMA ScanStepKeeps == ServiceTypes /\ ScanInv /\ [Next]_vars => ScanInv'
<1> SUFFICES ASSUME ServiceTypes, ScanInv, [Next]_vars PROVE ScanInv'
  OBVIOUS
<1>1. ASSUME NEW c \in Codes, PhoneConfirms(c) PROVE ScanInv'
  BY <1>1, ServiceKeepsScans DEF PhoneConfirms, ServiceTypes
<1>2. ASSUME UNCHANGED <<scan, active, issued, token>> PROVE ScanInv'
  BY <1>2, ServiceKeepsScans
<1>3. ASSUME NEW c \in Codes, CodeExpires(c) PROVE ScanInv'
  BY <1>2, <1>3 DEF CodeExpires
<1>4. ASSUME NEW s \in Codes, ScanStep(s) \/ Deadline(s) PROVE ScanInv'
  <2>1. ASSUME NEW c \in Codes, Refresh(s, c) PROVE ScanInv'
    <3> DEFINE r == [at |-> "ask", code |-> c, status |-> scan[s].status,
                     creds |-> scan[s].creds, refreshes |-> scan[s].refreshes]
    <3>1. /\ scan[s].at = "refresh" /\ Issue(c) /\ scan[s] \in Scans
          /\ scan' = [scan EXCEPT ![s] = r]
          /\ active' = [active EXCEPT ![c] = s, ![scan[s].code] = 0]
      BY <2>1 DEF Refresh, Moves, ScanInv, ScanTypes
    <3>2. /\ r \in Scans /\ r.at = "ask" /\ r.code = c /\ r.status = scan[s].status
      BY <3>1, LoginAssumption DEF Scans, Codes
    <3>3. scan[s].status # "confirmed"
      BY <3>1 DEF ScanInv, Known, KnowsToken
    <3>4. scan[s].at # "none"
      BY <3>1
    <3> HIDE DEF r
    <3> QED
      BY <3>1, <3>2, <3>3, <3>4, NewCodeKeepsScans
  <2> QED
    BY <1>4, <2>1, AskKeepsScans, OwnStepKeepsScans, LeavingKeepsScans DEF ScanStep
<1>5. ASSUME NEW h \in Handlers, NEW c \in Codes, Fetch(h, c) PROVE ScanInv'
  <2> DEFINE r == [at |-> "ask", code |-> c, status |-> "wait", creds |-> 0,
                   refreshes |-> 0]
  <2>1. Issue(c) /\ CreateScan(c) /\ c = issued + 1
    BY <1>5 DEF Fetch, Issue
  <2>2. active[c] = 0
    <3>1. ASSUME active[c] # 0 PROVE FALSE
      <4>1. active[c] \in Codes /\ scan[active[c]].code = c
        BY <3>1 DEF ScanInv, ScanTypes, EntriesPoint, Codes
      <4>2. scan[active[c]].code \in 0..issued /\ issued \in Nat
        BY <4>1, ScanAtWork DEF ScanInv, Found, FoundByCode, ServiceTypes
      <4> QED
        BY <2>1, <4>1, <4>2
    <3> QED
      BY <3>1
  <2>3. /\ scan' = [scan EXCEPT ![c] = r]
        /\ active' = [active EXCEPT ![c] = c]
    BY <2>1, <2>2 DEF CreateScan
  <2>4. /\ r \in Scans /\ r.at = "ask" /\ r.code = c /\ r.status = "wait"
    BY LoginAssumption DEF Scans, Codes, Statuses
  <2> HIDE DEF r
  <2> QED
    BY <2>1, <2>3, <2>4, NewCodeKeepsScans
<1>6. CASE \E read \in BOOLEAN : Restart(read)
  <2>1. NoScan \in Scans
    BY LoginAssumption DEF NoScan, Scans, Statuses
  <2>2. /\ scan' = [c \in Codes |-> NoScan] /\ active' = [c \in Codes |-> 0]
    BY <1>6 DEF Restart
  <2>3. ScanTypes'
    BY <2>1, <2>2, LoginAssumption DEF ScanTypes
  <2> QED
    BY <2>2, <2>3 DEF ScanInv, Found, FoundByCode, Known, KnowsToken, EntriesPoint,
                      NoScan
<1>7. ASSUME NEW h \in Handlers,
             \/ FetchFails(h) \/ FetchShows(h) \/ Check(h) \/ CheckAdds(h)
             \/ \E saved \in BOOLEAN : CheckSaves(h, saved)
             \/ AnswerArrives(h) \/ AnswerRevives(h) \/ AnswerExpired(h)
             \/ DialogOpens(h) \/ DialogRenews(h) \/ DialogAsks(h) \/ AskFails(h)
             \/ DisconnectRemoves(h) \/ DisconnectDeletes(h)
      PROVE  ScanInv'
  BY <1>2, <1>7
     DEF FetchFails, FetchShows, Check, CheckAdds, CheckSaves, AnswerArrives,
         AnswerRevives, AnswerExpired, DisconnectRemoves, DialogOpens, DialogRenews,
         DialogAsks, AskFails, DisconnectDeletes, service
<1>8. CASE DialogCloses \/ UNCHANGED vars
  BY <1>2, <1>8 DEF DialogCloses, vars, service
<1> QED
  BY <1>1, <1>3, <1>4, <1>5, <1>6, <1>7, <1>8 DEF Next, HandlerStep

-----------------------------------------------------------------------------
(* Types of the rest                                                           *)

\* Where each step of the requests and the dialog takes its request.
LEMMA RequestTypesStep ==
    ServiceTypes /\ ScanInv /\ PageTypes /\ RequestTypes /\ [Next]_vars => RequestTypes'
<1> SUFFICES ASSUME ServiceTypes, ScanInv, PageTypes, RequestTypes, [Next]_vars
             PROVE  RequestTypes'
  OBVIOUS
<1>1. Idle \in HandlerRecords /\ Fetching \in HandlerRecords
  BY DEF Idle, Fetching, HandlerRecords
<1>2. ASSUME UNCHANGED handler PROVE RequestTypes'
  BY <1>2 DEF RequestTypes
<1>3. ASSUME NEW h \in Handlers, NEW c \in Codes, Fetch(h, c) PROVE RequestTypes'
  <2>1. [at |-> "show", code |-> c] \in HandlerRecords
    BY DEF HandlerRecords
  <2> QED
    BY <1>3, <2>1, Goes DEF Fetch
<1>4. ASSUME NEW h \in Handlers, Goto(h, Idle) \/ Goto(h, Fetching) PROVE RequestTypes'
  BY <1>1, <1>4, Goes
<1>5. ASSUME NEW h \in Handlers, Check(h) PROVE RequestTypes'
  <2> DEFINE s == active[handler[h].code]
             status == IF s = 0 THEN "unknown" ELSE scan[s].status
             creds == IF s = 0 THEN 0 ELSE scan[s].creds
             saving == [at |-> "save", code |-> handler[h].code,
                        reported |-> handler[h].reported, token |-> creds]
             answering == [at |-> "answer", code |-> handler[h].code,
                           status |-> status]
  <2>1. handler[h].code \in Codes /\ handler[h].reported \in BOOLEAN
    BY <1>5, RequestKnows DEF Check
  <2>2. s = 0 \/ s \in Codes
    BY <2>1 DEF ScanInv, ScanTypes, Codes
  <2>3. status \in Statuses \cup {"unknown"} /\ creds \in Nat
    BY <2>2 DEF ScanInv, ScanTypes, Scans
  <2>4. \/ creds # 0 /\ Goto(h, saving)
        \/ Goto(h, answering)
    BY <1>5 DEF Check
  <2> HIDE DEF s, status, creds
  <2>5. CASE creds # 0 /\ Goto(h, saving)
    <3>1. saving \in HandlerRecords
      BY <2>1, <2>3, <2>5 DEF HandlerRecords
    <3> QED
      BY <2>5, <3>1, Goes
  <2>6. CASE Goto(h, answering)
    <3>1. answering \in HandlerRecords
      BY <2>1, <2>3 DEF HandlerRecords
    <3> QED
      BY <2>6, <3>1, Goes
  <2> QED
    BY <2>4, <2>5, <2>6
<1>6. ASSUME NEW h \in Handlers, NEW saved \in BOOLEAN, CheckSaves(h, saved)
      PROVE  RequestTypes'
  <2> DEFINE r == [at |-> "add", code |-> handler[h].code,
                   reported |-> handler[h].reported, token |-> handler[h].token]
  <2>1. r \in HandlerRecords /\ Goto(h, r)
    BY <1>6, RequestKnows DEF CheckSaves, HandlerRecords
  <2> QED
    BY <2>1, Goes
<1>7. ASSUME NEW h \in Handlers, CheckAdds(h) PROVE RequestTypes'
  <2> DEFINE r == [at |-> "answer", code |-> handler[h].code, status |-> "confirmed"]
  <2>1. r \in HandlerRecords /\ Goto(h, r)
    BY <1>7, RequestKnows DEF CheckAdds, HandlerRecords, Statuses
  <2> QED
    BY <2>1, Goes
<1>8. ASSUME NEW h \in Handlers, DialogAsks(h) PROVE RequestTypes'
  <2> DEFINE reported == dialog.code \in told
             r == [at |-> "check", code |-> dialog.code, reported |-> reported]
  <2>1. dialog.code \in Codes
    BY <1>8 DEF DialogAsks, PageTypes, Dialogs, Codes
  <2>2. reported \in BOOLEAN
    OBVIOUS
  <2>3. Goto(h, r)
    BY <1>8 DEF DialogAsks
  <2> HIDE DEF reported
  <2>4. r \in HandlerRecords
    BY <2>1, <2>2 DEF HandlerRecords
  <2> QED
    BY <2>3, <2>4, Goes
<1>9. ASSUME NEW h \in Handlers, DisconnectDeletes(h) PROVE RequestTypes'
  <2>1. [at |-> "remove", token |-> 0] \in HandlerRecords
    BY DEF HandlerRecords
  <2> QED
    BY <1>9, <2>1, Goes DEF DisconnectDeletes
<1>10. CASE \E read \in BOOLEAN : Restart(read)
  BY <1>1, <1>10 DEF Restart, RequestTypes
<1>11. ASSUME NEW h \in Handlers, \/ FetchFails(h) \/ FetchShows(h) \/ AnswerArrives(h)
                                  \/ AnswerRevives(h) \/ AnswerExpired(h)
                                  \/ DialogOpens(h) \/ DialogRenews(h) \/ AskFails(h)
                                  \/ DisconnectRemoves(h)
       PROVE  RequestTypes'
  BY <1>4, <1>11 DEF FetchFails, FetchShows, AnswerArrives, AnswerRevives,
                     AnswerExpired, DisconnectRemoves, DialogOpens, DialogRenews,
                     AskFails
<1>12. ASSUME NEW c \in Codes, PhoneConfirms(c) \/ CodeExpires(c) PROVE RequestTypes'
  BY <1>2, <1>12 DEF PhoneConfirms, CodeExpires
<1>13. ASSUME NEW s \in Codes, ScanStep(s) \/ Deadline(s) PROVE RequestTypes'
  BY <1>2, <1>13 DEF ScanStep, Deadline, Ask, Refresh, RefreshFails, Leave, ScanOnly
<1>14. CASE DialogCloses \/ UNCHANGED vars
  BY <1>2, <1>14 DEF DialogCloses, vars
<1> QED
  BY <1>3, <1>5, <1>6, <1>7, <1>8, <1>9, <1>10, <1>11, <1>12, <1>13, <1>14
     DEF Next, HandlerStep

LEMMA PageTypesStep == PageTypes /\ RequestTypes /\ [Next]_vars => PageTypes'
<1> SUFFICES ASSUME PageTypes, RequestTypes, [Next]_vars PROVE PageTypes'
  OBVIOUS
<1> USE DEF PageTypes
<1>1. ASSUME UNCHANGED page PROVE PageTypes'
  BY <1>1 DEF page
<1>2. Codes \subseteq 0..MaxCodes /\ 0 \in 0..MaxCodes /\ 0 \notin Codes
  BY LoginAssumption DEF Codes
<1>3. Closed \in Dialogs /\ ~Closed.asks
  BY <1>2 DEF Closed, Dialogs
<1>4. ASSUME NEW h \in Handlers, DialogOpens(h) PROVE PageTypes'
  <2>1. dialog' = [Closed EXCEPT !.open = TRUE] /\ shown' = shown
    BY <1>4 DEF DialogOpens
  <2> QED
    BY <1>3, <2>1 DEF Dialogs
<1>5. CASE DialogCloses
  BY <1>3, <1>5 DEF DialogCloses
<1>6. ASSUME NEW h \in Handlers, FetchShows(h) PROVE PageTypes'
  <2>1. handler[h].code \in Codes
    BY <1>6, RequestKnows DEF FetchShows
  <2>2. CASE dialog.open
    <3>1. /\ dialog' = [dialog EXCEPT !.code = handler[h].code, !.asks = TRUE,
                                       !.offers = FALSE]
          /\ shown' = shown \cup {handler[h].code}
      BY <1>6, <2>2 DEF FetchShows
    <3> QED
      BY <1>2, <2>1, <3>1 DEF Dialogs
  <2> QED
    BY <1>1, <1>6, <2>2 DEF FetchShows
<1>7. ASSUME NEW h \in Handlers, AnswerArrives(h) PROVE PageTypes'
  <2>1. handler[h].code \in Codes
    BY <1>7, RequestKnows DEF AnswerArrives
  <2>2. CASE handler[h].status = "confirmed"
    <3>1. dialog' = [Closed EXCEPT !.bound = handler[h].code] /\ shown' = shown
      BY <1>7, <2>2 DEF AnswerArrives
    <3> QED
      BY <1>2, <1>3, <2>1, <3>1 DEF Dialogs
  <2> QED
    BY <1>7, <2>2 DEF AnswerArrives
<1>8. ASSUME NEW h \in Handlers, AnswerExpired(h) PROVE PageTypes'
  <2>1. shown' = shown
    BY <1>8 DEF AnswerExpired
  <2>2. CASE dialog.expired < MaxExpired
    <3>1. dialog' = [dialog EXCEPT !.expired = @ + 1, !.code = 0, !.asks = FALSE]
      BY <1>8, <2>2 DEF AnswerExpired
    <3>2. dialog.expired + 1 \in Nat /\ dialog \in Dialogs
      BY DEF Dialogs
    <3>3. dialog' \in Dialogs /\ ~dialog'.asks
      BY <1>2, <3>1, <3>2 DEF Dialogs
    <3> QED
      BY <2>1, <3>3
  <2>3. CASE ~(dialog.expired < MaxExpired)
    BY <1>8, <2>1, <2>3 DEF AnswerExpired, Dialogs
  <2> QED
    BY <2>2, <2>3
<1>9. ASSUME NEW h \in Handlers, AskFails(h) \/ DialogRenews(h) \/ AnswerRevives(h)
      PROVE  PageTypes'
  <2>1. CASE AskFails(h)
    BY <2>1 DEF AskFails, Dialogs
  <2>2. CASE DialogRenews(h)
    <3>1. /\ dialog' = [dialog EXCEPT !.code = 0, !.asks = FALSE, !.offers = FALSE]
          /\ shown' = shown
      BY <2>2 DEF DialogRenews
    <3> QED
      BY <1>2, <3>1 DEF Dialogs
  <2>3. CASE AnswerRevives(h)
    <3>1. /\ dialog' = [dialog EXCEPT !.asks = TRUE, !.offers = FALSE] /\ shown' = shown
          /\ dialog.code # 0
      BY <2>3 DEF AnswerRevives
    <3> QED
      BY <3>1 DEF Dialogs
  <2> QED
    BY <1>9, <2>1, <2>2, <2>3
<1>10. CASE \E read \in BOOLEAN : Restart(read)
  <2>1. dialog' = dialog \/ dialog' = [dialog EXCEPT !.asks = FALSE]
    BY <1>10 DEF Restart
  <2> QED
    BY <1>10, <2>1 DEF Restart, Dialogs
<1>11. ASSUME NEW h \in Handlers,
              \/ FetchFails(h) \/ Check(h) \/ CheckAdds(h)
              \/ \E c \in Codes : Fetch(h, c)
              \/ \E saved \in BOOLEAN : CheckSaves(h, saved)
              \/ DisconnectRemoves(h) \/ DialogAsks(h) \/ DisconnectDeletes(h)
       PROVE  PageTypes'
  BY <1>1, <1>11 DEF FetchFails, Check, CheckAdds, Fetch, CheckSaves,
                     DisconnectRemoves, DialogAsks, DisconnectDeletes
<1>12. ASSUME NEW c \in Codes, PhoneConfirms(c) \/ CodeExpires(c) PROVE PageTypes'
  BY <1>1, <1>12 DEF PhoneConfirms, CodeExpires
<1>13. ASSUME NEW s \in Codes, ScanStep(s) \/ Deadline(s) PROVE PageTypes'
  BY <1>1, <1>13 DEF ScanStep, Deadline, Ask, Refresh, RefreshFails, Leave, ScanOnly
<1>14. CASE UNCHANGED vars
  BY <1>1, <1>14 DEF vars
<1> QED
  BY <1>4, <1>5, <1>6, <1>7, <1>8, <1>9, <1>10, <1>11, <1>12, <1>13, <1>14
     DEF Next, HandlerStep

LEMMA AccountTypesStep == AccountTypes /\ RequestTypes /\ [Next]_vars => AccountTypes'
<1> SUFFICES ASSUME AccountTypes, RequestTypes, [Next]_vars PROVE AccountTypes'
  OBVIOUS
<1> USE DEF AccountTypes
<1>1. ASSUME UNCHANGED <<table, listed, past>> PROVE AccountTypes'
  BY <1>1
<1>2. ASSUME NEW t \in Nat, Store(t) PROVE table' \in Nat /\ past' \subseteq Nat \ {0}
  BY <1>2 DEF Store
<1>3. ASSUME NEW h \in Handlers, NEW saved \in BOOLEAN, CheckSaves(h, saved)
      PROVE  AccountTypes'
  <2>1. handler[h].token \in Nat /\ UNCHANGED listed
    BY <1>3, RequestKnows DEF CheckSaves
  <2>2. CASE saved
    BY <1>2, <1>3, <2>1, <2>2 DEF CheckSaves
  <2>3. CASE ~saved
    BY <1>3, <2>1, <2>3 DEF CheckSaves
  <2> QED
    BY <2>2, <2>3
<1>4. ASSUME NEW h \in Handlers, CheckAdds(h) PROVE AccountTypes'
  BY <1>4, RequestKnows DEF CheckAdds
<1>5. ASSUME NEW h \in Handlers, DisconnectDeletes(h) PROVE AccountTypes'
  BY <1>2, <1>5 DEF DisconnectDeletes
<1>6. ASSUME NEW h \in Handlers, DisconnectRemoves(h) PROVE AccountTypes'
  BY <1>6 DEF DisconnectRemoves
<1>7. CASE \E read \in BOOLEAN : Restart(read)
  BY <1>7 DEF Restart
<1>8. ASSUME NEW h \in Handlers,
             \/ FetchFails(h) \/ FetchShows(h) \/ (\E c \in Codes : Fetch(h, c))
             \/ Check(h) \/ AnswerArrives(h) \/ AnswerRevives(h) \/ AnswerExpired(h)
             \/ DialogOpens(h) \/ DialogRenews(h) \/ DialogAsks(h) \/ AskFails(h)
      PROVE  AccountTypes'
  BY <1>1, <1>8 DEF FetchFails, FetchShows, Fetch, Check, AnswerArrives, AnswerRevives,
                    AnswerExpired, DialogOpens, DialogRenews, DialogAsks, AskFails,
                    account
<1>9. ASSUME NEW c \in Codes, PhoneConfirms(c) \/ CodeExpires(c) PROVE AccountTypes'
  BY <1>1, <1>9 DEF PhoneConfirms, CodeExpires, account
<1>10. ASSUME NEW s \in Codes, ScanStep(s) \/ Deadline(s) PROVE AccountTypes'
  BY <1>1, <1>10 DEF ScanStep, Deadline, Ask, Refresh, RefreshFails, Leave, ScanOnly,
                     account
<1>11. CASE DialogCloses \/ UNCHANGED vars
  BY <1>1, <1>11 DEF DialogCloses, vars, account
<1> QED
  BY <1>3, <1>4, <1>5, <1>6, <1>7, <1>8, <1>9, <1>10, <1>11 DEF Next, HandlerStep

-----------------------------------------------------------------------------
(* The account.  LoopHasSavedToken is inductive: it speaks of the requests that *)
(* have yet to tell the connector what the table says.                         *)

AccountInv == LoopHasSavedToken

\* A request that is at its call of the connector.
Calls(r) == r.at \in {"add", "remove"}

\* Where the answer of CheckStatus takes a request.
LEMMA CheckGoes ==
    ASSUME NEW h \in Handlers, Check(h)
    PROVE  \E r : /\ Goto(h, r) /\ r.at \in {"save", "answer"}
                  /\ r.code = handler[h].code
                  /\ r.at = "save" => r.reported = handler[h].reported
<1> DEFINE s == active[handler[h].code]
           status == IF s = 0 THEN "unknown" ELSE scan[s].status
           creds == IF s = 0 THEN 0 ELSE scan[s].creds
           saving == [at |-> "save", code |-> handler[h].code,
                      reported |-> handler[h].reported, token |-> creds]
           answering == [at |-> "answer", code |-> handler[h].code,
                         status |-> status]
<1>1. Goto(h, saving) \/ Goto(h, answering)
  BY DEF Check
<1>2. /\ saving.at = "save" /\ saving.code = handler[h].code
      /\ saving.reported = handler[h].reported
      /\ answering.at = "answer" /\ answering.code = handler[h].code
  OBVIOUS
<1> HIDE DEF saving, answering
<1> QED
  BY <1>1, <1>2

\* A step that changes neither table nor list, and no request that calls.
LEMMA OthersKeepAccount ==
    ASSUME AccountInv, UNCHANGED <<table, listed, cause>>,
           \A h \in Handlers :
               \/ handler'[h] = handler[h]
               \/ ~Calls(handler[h]) /\ ~Calls(handler'[h])
    PROVE  AccountInv'
<1>1. \A h \in Handlers : Agrees(h)' <=> Agrees(h)
  BY DEF Agrees, Calls
<1> QED
  BY <1>1 DEF AccountInv, LoopHasSavedToken

\* A request saves the account, or fails to and calls the connector nevertheless.
LEMMA SaveKeepsAccount ==
    ASSUME RequestTypes, AccountInv, NEW h \in Handlers, NEW saved \in BOOLEAN,
           CheckSaves(h, saved)
    PROVE  AccountInv'
<1> DEFINE r == [at |-> "add", code |-> handler[h].code,
                 reported |-> handler[h].reported, token |-> handler[h].token]
<1>1. r \in HandlerRecords /\ Goto(h, r) /\ handler[h].at = "save"
  BY RequestKnows DEF CheckSaves, HandlerRecords
<1>2. /\ handler'[h] = r /\ \A g \in Handlers \ {h} : handler'[g] = handler[g]
  BY <1>1, Goes
<1>3. /\ r.at = "add" /\ r.token = handler[h].token
      /\ listed' = listed /\ cause' = cause
  BY DEF CheckSaves
<1> HIDE DEF r
<1>4. CASE saved
  <2>1. table' = handler[h].token
    BY <1>4 DEF CheckSaves, Store
  <2>2. Agrees(h)'
    BY <1>2, <1>3, <2>1 DEF Agrees
  <2> QED
    BY <2>2 DEF AccountInv, LoopHasSavedToken
<1>5. CASE ~saved
  <2>1. table' = table
    BY <1>5 DEF CheckSaves
  <2>2. \A g \in Handlers : Agrees(g) => Agrees(g)'
    BY <1>1, <1>2, <2>1 DEF Agrees
  <2> QED
    BY <1>3, <2>1, <2>2 DEF AccountInv, LoopHasSavedToken
<1> QED
  BY <1>4, <1>5

\* A request calls the connector.
LEMMA CallKeepsAccount ==
    ASSUME RequestTypes, AccountInv, NEW h \in Handlers, NEW r \in HandlerRecords,
           Goto(h, r), ~Calls(r), table' = table, NEW refused \in BOOLEAN,
           Settle(h, refused),
           IF refused THEN listed' \notin {0, handler[h].token}
           ELSE listed' = handler[h].token
    PROVE  AccountInv'
<1>1. /\ handler'[h] = r /\ \A g \in Handlers \ {h} : handler'[g] = handler[g]
  BY Goes
<1>2. CASE Agrees(h)
  <2>1. /\ handler[h].token = table
        /\ cause' = IF refused THEN "refused" ELSE "none"
    BY <1>2 DEF Agrees, Settle
  <2> QED
    BY <2>1 DEF AccountInv, LoopHasSavedToken
<1>3. CASE ~Agrees(h) /\ \E g \in Handlers : Agrees(g)
  <2>1. PICK g \in Handlers : Agrees(g)
    BY <1>3
  <2>2. Agrees(g)'
    BY <1>1, <1>3, <2>1 DEF Agrees
  <2> QED
    BY <2>2 DEF AccountInv, LoopHasSavedToken
<1>4. CASE ~Agrees(h) /\ ~\E g \in Handlers : Agrees(g)
  <2>1. cause' = "outdated"
    BY <1>4 DEF Settle
  <2> QED
    BY <2>1 DEF AccountInv, LoopHasSavedToken
<1> QED
  BY <1>2, <1>3, <1>4

LEMMA AccountInvStep ==
    ScanInv /\ RequestTypes /\ AccountInv /\ [Next]_vars => AccountInv'
<1> SUFFICES ASSUME ScanInv, RequestTypes, AccountInv, [Next]_vars PROVE AccountInv'
  OBVIOUS
<1>1. ASSUME UNCHANGED <<table, listed, cause, handler>> PROVE AccountInv'
  BY <1>1, OthersKeepAccount
<1>2. Idle \in HandlerRecords /\ Idle.at = "idle" /\ Fetching.at = "fetch"
  BY DEF Idle, Fetching, HandlerRecords
<1>3. ASSUME NEW h \in Handlers, NEW r, Goto(h, r), ~Calls(handler[h]), ~Calls(r),
             UNCHANGED <<table, listed, cause>>
      PROVE  AccountInv'
  <2>1. handler'[h] = r /\ \A g \in Handlers \ {h} : handler'[g] = handler[g]
    BY <1>3 DEF Goto, RequestTypes
  <2> QED
    BY <1>3, <2>1, OthersKeepAccount
<1>4. ASSUME NEW h \in Handlers, CheckAdds(h) PROVE AccountInv'
  <2> DEFINE r == [at |-> "answer", code |-> handler[h].code, status |-> "confirmed"]
             refused == listed \notin {0, handler[h].token}
  <2>1. r \in HandlerRecords /\ Goto(h, r) /\ ~Calls(r)
    BY <1>4, RequestKnows DEF CheckAdds, HandlerRecords, Statuses, Calls
  <2>2. /\ table' = table /\ Settle(h, refused) /\ refused \in BOOLEAN
        /\ listed' = IF listed = 0 THEN handler[h].token ELSE listed
    BY <1>4 DEF CheckAdds
  <2>3. IF refused THEN listed' \notin {0, handler[h].token}
        ELSE listed' = handler[h].token
    BY <2>2
  <2> HIDE DEF r, refused
  <2> QED
    BY <2>1, <2>2, <2>3, CallKeepsAccount
<1>5. ASSUME NEW h \in Handlers, DisconnectRemoves(h) PROVE AccountInv'
  <2>1. /\ handler[h].at = "remove" /\ Goto(h, Idle) /\ listed' = 0
        /\ table' = table /\ Settle(h, FALSE)
    BY <1>5 DEF DisconnectRemoves
  <2>2. handler[h].token = 0 /\ ~Calls(Idle)
    BY <1>2, <2>1, RequestKnows DEF Calls
  <2> QED
    BY <1>2, <2>1, <2>2, CallKeepsAccount
<1>6. ASSUME NEW h \in Handlers, DisconnectDeletes(h) PROVE AccountInv'
  <2>1. handler'[h] = [at |-> "remove", token |-> 0] /\ table' = 0
    BY <1>6 DEF DisconnectDeletes, Store, Goto, RequestTypes
  <2>2. Agrees(h)'
    BY <2>1 DEF Agrees
  <2> QED
    BY <2>2 DEF AccountInv, LoopHasSavedToken
<1>7. ASSUME NEW read \in BOOLEAN, Restart(read) PROVE AccountInv'
  BY <1>7 DEF Restart, AccountInv, LoopHasSavedToken
<1>8. ASSUME NEW h \in Handlers,
             \/ FetchFails(h) \/ FetchShows(h) \/ AnswerArrives(h) \/ AnswerRevives(h)
             \/ AnswerExpired(h) \/ DialogOpens(h) \/ DialogRenews(h) \/ AskFails(h)
      PROVE  AccountInv'
  <2>1. Goto(h, Idle) \/ Goto(h, Fetching)
    BY <1>8 DEF FetchFails, FetchShows, AnswerArrives, AnswerRevives, AnswerExpired,
                DialogOpens, DialogRenews, AskFails
  <2>2. ~Calls(handler[h]) /\ ~Calls(Idle) /\ ~Calls(Fetching)
    BY <1>2, <1>8 DEF FetchFails, FetchShows, AnswerArrives, AnswerRevives,
                      AnswerExpired, DialogOpens, DialogRenews, AskFails, Free, Calls
  <2>3. UNCHANGED <<table, listed, cause>>
    BY <1>8 DEF FetchFails, FetchShows, AnswerArrives, AnswerRevives, AnswerExpired,
                DialogOpens, DialogRenews, AskFails, account
  <2> QED
    BY <1>3, <2>1, <2>2, <2>3
<1>9. ASSUME NEW h \in Handlers,
             Check(h) \/ DialogAsks(h) \/ \E c \in Codes : Fetch(h, c)
      PROVE  AccountInv'
  <2>1. /\ handler[h].at \in {"check", "idle", "fetch"}
        /\ UNCHANGED <<table, listed, cause>>
    BY <1>9 DEF Check, DialogAsks, Fetch, Free, account
  <2>2. PICK r : Goto(h, r) /\ r.at \in {"save", "answer", "check", "show"}
    <3>1. CASE Check(h)
      BY <3>1, CheckGoes
    <3>2. CASE DialogAsks(h)
      BY <3>2 DEF DialogAsks
    <3>3. CASE \E c \in Codes : Fetch(h, c)
      BY <3>3 DEF Fetch
    <3> QED
      BY <1>9, <3>1, <3>2, <3>3
  <2>3. ~Calls(handler[h]) /\ ~Calls(r)
    BY <2>1, <2>2 DEF Calls
  <2> QED
    BY <1>3, <2>1, <2>2, <2>3
<1>10. ASSUME NEW c \in Codes, PhoneConfirms(c) \/ CodeExpires(c) PROVE AccountInv'
  BY <1>1, <1>10 DEF PhoneConfirms, CodeExpires, account
<1>11. ASSUME NEW s \in Codes, ScanStep(s) \/ Deadline(s) PROVE AccountInv'
  BY <1>1, <1>11 DEF ScanStep, Deadline, Ask, Refresh, RefreshFails, Leave, ScanOnly,
                     account
<1>12. CASE DialogCloses \/ UNCHANGED vars
  BY <1>1, <1>12 DEF DialogCloses, vars, account
<1> QED
  BY <1>4, <1>5, <1>6, <1>7, <1>8, <1>9, <1>10, <1>11, <1>12, SaveKeepsAccount
     DEF Next, HandlerStep

-----------------------------------------------------------------------------
(* The dialog                                                                  *)

\* The dialog has a code it has shown; when one is reported bound it leaves it, so it
\* does not ask for it again.
PageFits ==
    /\ told \subseteq shown
    /\ shown \subseteq 1..issued
    /\ dialog.code # 0 => dialog.code \in shown
    /\ dialog.code \notin told

\* A code is shown once: until it is, only its own fetch knows it.  Every other
\* request was sent for a code that was shown, and not reported by then.
RequestFits(r) ==
    /\ r.at = "show" => r.code \in (1..issued) \ shown
    /\ r.at \in {"check", "save", "add", "answer"} => r.code \in shown
    /\ r.at \in {"check", "save"} => ~r.reported

FetchesDiffer ==
    \A g, h \in Handlers :
        (handler[g].at = "show" /\ handler[h].at = "show"
         /\ handler[g].code = handler[h].code) => g = h

DialogInv ==
    /\ PageFits
    /\ \A h \in Handlers : RequestFits(handler[h])
    /\ FetchesDiffer

\* A request goes to a place that fits, and the dialog keeps its code or leaves it.
LEMMA RequestKeepsDialog ==
    ASSUME RequestTypes, DialogInv, NEW h \in Handlers,
           NEW r \in HandlerRecords, Goto(h, r), r.at # "show", RequestFits(r),
           UNCHANGED <<issued, shown, told>>,
           dialog'.code \in {0, dialog.code}, issued \in Nat
    PROVE  DialogInv'
<1>1. handler'[h] = r /\ \A g \in Handlers \ {h} : handler'[g] = handler[g]
  BY Goes
<1>2. PageFits'
  <2>1. 0 \notin told
    BY DEF DialogInv, PageFits
  <2> QED
    BY <2>1 DEF DialogInv, PageFits
<1>3. \A g \in Handlers : RequestFits(handler[g])'
  <2> SUFFICES ASSUME NEW g \in Handlers PROVE RequestFits(handler[g])'
    OBVIOUS
  <2>1. CASE g = h
    BY <1>1, <2>1 DEF RequestFits
  <2>2. CASE g # h
    BY <1>1, <2>2 DEF DialogInv, RequestFits
  <2> QED
    BY <2>1, <2>2
<1>4. FetchesDiffer'
  BY <1>1 DEF DialogInv, FetchesDiffer
<1> QED
  BY <1>2, <1>3, <1>4 DEF DialogInv

\* A code may be issued, and the dialog may leave its code.
LEMMA PageKeepsDialog ==
    ASSUME DialogInv, UNCHANGED <<shown, told, handler>>,
           issued \in Nat, issued' = issued \/ issued' = issued + 1,
           dialog'.code \in {0, dialog.code}
    PROVE  DialogInv'
<1>1. 1..issued \subseteq 1..issued' /\ 0 \notin told
  BY DEF DialogInv, PageFits
<1>2. PageFits'
  BY <1>1 DEF DialogInv, PageFits
<1>3. \A g \in Handlers : RequestFits(handler[g])'
  BY <1>1 DEF DialogInv, RequestFits
<1> QED
  BY <1>2, <1>3 DEF DialogInv, FetchesDiffer

LEMMA DialogInvStep ==
    ASSUME ServiceTypes, PageTypes, RequestTypes, RequestTypes', DialogInv, [Next]_vars
    PROVE  DialogInv'
<1>1. issued \in Nat /\ dialog \in Dialogs
  BY DEF ServiceTypes, PageTypes
<1>2. ASSUME NEW h \in Handlers PROVE RequestFits(handler[h])
  BY <1>2 DEF DialogInv
<1>3. /\ Idle \in HandlerRecords /\ Idle.at = "idle" /\ RequestFits(Idle)
      /\ Fetching \in HandlerRecords /\ Fetching.at = "fetch" /\ RequestFits(Fetching)
  BY DEF Idle, Fetching, HandlerRecords, RequestFits
<1>4. ASSUME UNCHANGED <<page, told, handler>>,
             issued' = issued \/ \E c \in Codes : Issue(c)
      PROVE  DialogInv'
  BY <1>1, <1>4, PageKeepsDialog DEF Issue, page
<1>5. ASSUME NEW h \in Handlers, NEW c \in Codes, Fetch(h, c) PROVE DialogInv'
  <2> DEFINE r == [at |-> "show", code |-> c]
  <2>1. /\ r \in HandlerRecords /\ r.at = "show" /\ r.code = c /\ Goto(h, r)
        /\ c = issued + 1 /\ issued' = c /\ UNCHANGED <<dialog, shown, told>>
    BY <1>5 DEF Fetch, Issue, page, account, HandlerRecords
  <2> HIDE DEF r
  <2>2. handler'[h] = r /\ \A g \in Handlers \ {h} : handler'[g] = handler[g]
    BY <2>1, Goes
  <2>3. 1..issued \subseteq 1..c /\ c \in 1..c /\ c \notin 1..issued
    BY <1>1, <2>1
  <2>4. PageFits'
    BY <2>1, <2>3 DEF DialogInv, PageFits
  <2>5. \A g \in Handlers : RequestFits(handler[g])'
    <3> SUFFICES ASSUME NEW g \in Handlers PROVE RequestFits(handler[g])'
      OBVIOUS
    <3>1. CASE g = h
      BY <2>1, <2>2, <2>3, <3>1 DEF DialogInv, PageFits, RequestFits
    <3>2. CASE g # h
      BY <2>1, <2>2, <2>3, <3>2 DEF DialogInv, RequestFits
    <3> QED
      BY <3>1, <3>2
  <2>6. FetchesDiffer'
    <3>1. \A g \in Handlers : handler[g].at = "show" => handler[g].code # c
      BY <2>3 DEF DialogInv, RequestFits
    <3> QED
      BY <2>1, <2>2, <3>1 DEF DialogInv, FetchesDiffer
  <2> QED
    BY <2>4, <2>5, <2>6 DEF DialogInv
<1>6. ASSUME NEW h \in Handlers, FetchFails(h) PROVE DialogInv'
  BY <1>1, <1>3, <1>6, RequestKeepsDialog DEF FetchFails, service, account, page
<1>7. ASSUME NEW h \in Handlers, FetchShows(h) PROVE DialogInv'
  <2> DEFINE c == handler[h].code
  <2>1. /\ handler[h].at = "show" /\ Goto(h, Idle) /\ UNCHANGED <<issued, told>>
    BY <1>7 DEF FetchShows, service, account
  <2>2. CASE ~dialog.open
    BY <1>1, <1>3, <1>7, <2>1, <2>2, RequestKeepsDialog DEF FetchShows, page
  <2>3. CASE dialog.open
    <3>1. /\ dialog'.code = c /\ shown' = shown \cup {c}
      BY <1>1, <1>7, <2>3 DEF FetchShows, Dialogs
    <3>2. c \in (1..issued) \ shown
      BY <1>2, <2>1 DEF RequestFits
    <3>3. handler'[h] = Idle /\ \A g \in Handlers \ {h} : handler'[g] = handler[g]
      BY <1>3, <2>1, Goes
    <3>4. PageFits'
      BY <2>1, <3>1, <3>2 DEF DialogInv, PageFits
    <3>5. \A g \in Handlers : RequestFits(handler[g])'
      <4> SUFFICES ASSUME NEW g \in Handlers PROVE RequestFits(handler[g])'
        OBVIOUS
      <4>1. CASE g = h
        BY <1>3, <3>3, <4>1 DEF RequestFits
      <4>2. CASE g # h
        <5>1. handler[g].at = "show" => handler[g].code # c
          BY <2>1, <4>2 DEF DialogInv, FetchesDiffer
        <5> QED
          BY <1>2, <2>1, <3>1, <3>3, <4>2, <5>1 DEF RequestFits
      <4> QED
        BY <4>1, <4>2
    <3>6. FetchesDiffer'
      BY <1>3, <3>3 DEF DialogInv, FetchesDiffer
    <3> QED
      BY <3>4, <3>5, <3>6 DEF DialogInv
  <2> QED
    BY <2>2, <2>3
<1>8. ASSUME NEW h \in Handlers, NEW r \in HandlerRecords, Goto(h, r),
             handler[h].at \in {"check", "save", "add"},
             r.at \in {"save", "add", "answer"}, r.code = handler[h].code,
             r.at = "save" => r.reported = handler[h].reported /\ handler[h].at = "check",
             UNCHANGED <<issued, shown, told, dialog>>
      PROVE  DialogInv'
  <2>1. RequestFits(r)
    BY <1>2, <1>8 DEF RequestFits
  <2> QED
    BY <1>1, <1>8, <2>1, RequestKeepsDialog
<1>9. ASSUME NEW h \in Handlers, Check(h) PROVE DialogInv'
  <2>1. handler[h].at = "check" /\ UNCHANGED <<issued, shown, told, dialog>>
    BY <1>9 DEF Check, service, account, page
  <2>2. PICK r : /\ Goto(h, r) /\ r.at \in {"save", "answer"}
                 /\ r.code = handler[h].code
                 /\ r.at = "save" => r.reported = handler[h].reported
    BY <1>9, CheckGoes
  <2>3. r \in HandlerRecords
    BY <1>9, <2>2 DEF RequestTypes, Goto
  <2> QED
    BY <1>8, <2>1, <2>2, <2>3
<1>10. ASSUME NEW h \in Handlers, NEW saved \in BOOLEAN, CheckSaves(h, saved)
       PROVE  DialogInv'
  <2> DEFINE r == [at |-> "add", code |-> handler[h].code,
                   reported |-> handler[h].reported, token |-> handler[h].token]
  <2>1. r \in HandlerRecords /\ Goto(h, r) /\ handler[h].at = "save"
    BY <1>10, RequestKnows DEF CheckSaves, HandlerRecords
  <2>2. r.at = "add" /\ r.code = handler[h].code
        /\ UNCHANGED <<issued, shown, told, dialog>>
    BY <1>10 DEF CheckSaves, service, page
  <2> HIDE DEF r
  <2> QED
    BY <1>8, <2>1, <2>2
<1>11. ASSUME NEW h \in Handlers, CheckAdds(h) PROVE DialogInv'
  <2> DEFINE r == [at |-> "answer", code |-> handler[h].code, status |-> "confirmed"]
  <2>1. r \in HandlerRecords /\ Goto(h, r) /\ handler[h].at = "add"
    BY <1>11, RequestKnows DEF CheckAdds, HandlerRecords, Statuses
  <2>2. r.at = "answer" /\ r.code = handler[h].code
        /\ UNCHANGED <<issued, shown, told, dialog>>
    BY <1>11 DEF CheckAdds, service, page
  <2> HIDE DEF r
  <2> QED
    BY <1>8, <2>1, <2>2
<1>12. ASSUME NEW h \in Handlers, AnswerArrives(h) PROVE DialogInv'
  <2> DEFINE c == handler[h].code
  <2>1. /\ Goto(h, Idle) /\ UNCHANGED <<issued, shown>> /\ handler[h].at = "answer"
    BY <1>12 DEF AnswerArrives, service
  <2>2. CASE handler[h].status # "confirmed"
    BY <1>1, <1>3, <1>12, <2>1, <2>2, RequestKeepsDialog DEF AnswerArrives
  <2>3. CASE handler[h].status = "confirmed"
    <3>1. dialog' = [Closed EXCEPT !.bound = c] /\ told' = told \cup {c}
      BY <1>12, <2>3 DEF AnswerArrives
    <3>2. dialog'.code = 0
      BY <3>1 DEF Closed
    <3>3. c \in shown
      BY <1>2, <2>1 DEF RequestFits
    <3>4. PageFits'
      BY <2>1, <3>1, <3>2, <3>3 DEF DialogInv, PageFits
    <3>5. handler'[h] = Idle /\ \A g \in Handlers \ {h} : handler'[g] = handler[g]
      BY <1>3, <2>1, Goes
    <3>6. \A g \in Handlers : RequestFits(handler[g])'
      <4> SUFFICES ASSUME NEW g \in Handlers PROVE RequestFits(handler[g])'
        OBVIOUS
      <4>1. CASE g = h
        BY <1>3, <3>5, <4>1 DEF RequestFits
      <4>2. CASE g # h
        BY <1>2, <2>1, <3>5, <4>2 DEF RequestFits
      <4> QED
        BY <4>1, <4>2
    <3>7. FetchesDiffer'
      BY <1>3, <3>5 DEF DialogInv, FetchesDiffer
    <3> QED
      BY <3>4, <3>6, <3>7 DEF DialogInv
  <2> QED
    BY <2>2, <2>3
<1>13. ASSUME NEW h \in Handlers, Goto(h, Idle) \/ Goto(h, Fetching),
              UNCHANGED <<issued, shown, told>>,
              dialog'.code \in {0, dialog.code}
       PROVE  DialogInv'
  <2>1. CASE Goto(h, Idle)
    BY <1>1, <1>3, <1>13, <2>1, RequestKeepsDialog
  <2>2. CASE Goto(h, Fetching)
    BY <1>1, <1>3, <1>13, <2>2, RequestKeepsDialog
  <2> QED
    BY <1>13, <2>1, <2>2
<1>14. ASSUME NEW h \in Handlers, \/ AnswerExpired(h) \/ AnswerRevives(h) \/ AskFails(h)
                                  \/ DialogOpens(h) \/ DialogRenews(h)
                                  \/ DisconnectRemoves(h)
       PROVE  DialogInv'
  <2>1. /\ Goto(h, Idle) \/ Goto(h, Fetching)
        /\ UNCHANGED <<issued, shown, told>>
    BY <1>14 DEF AnswerExpired, AnswerRevives, AskFails, DialogOpens, DialogRenews,
                 DisconnectRemoves, service, account, page
  <2>2. \/ dialog' = dialog
        \/ dialog' = [dialog EXCEPT !.asks = FALSE]
        \/ dialog' = [dialog EXCEPT !.asks = FALSE, !.offers = dialog.open]
        \/ dialog' = [dialog EXCEPT !.asks = TRUE, !.offers = FALSE]
        \/ dialog' = [dialog EXCEPT !.expired = @ + 1, !.code = 0, !.asks = FALSE]
        \/ dialog' = [dialog EXCEPT !.code = 0, !.asks = FALSE, !.offers = FALSE]
        \/ dialog' = [Closed EXCEPT !.open = TRUE]
    BY <1>14 DEF AnswerExpired, AnswerRevives, AskFails, DialogOpens, DialogRenews,
                 DisconnectRemoves, page
  <2>3. dialog'.code \in {0, dialog.code}
    BY <1>1, <2>2 DEF Closed, Dialogs
  <2> QED
    BY <1>13, <2>1, <2>3
<1>15. ASSUME NEW h \in Handlers, DisconnectDeletes(h) PROVE DialogInv'
  <2> DEFINE r == [at |-> "remove", token |-> 0]
  <2>1. r \in HandlerRecords /\ r.at = "remove" /\ RequestFits(r)
    BY DEF HandlerRecords, RequestFits
  <2>2. Goto(h, r) /\ UNCHANGED <<issued, shown, told, dialog>>
    BY <1>15 DEF DisconnectDeletes, service, page
  <2> HIDE DEF r
  <2> QED
    BY <1>1, <2>1, <2>2, RequestKeepsDialog
<1>16. ASSUME NEW h \in Handlers, DialogAsks(h) PROVE DialogInv'
  <2> DEFINE reported == dialog.code \in told
             r == [at |-> "check", code |-> dialog.code, reported |-> reported]
  <2>1. Goto(h, r) /\ UNCHANGED <<issued, shown, told, dialog>> /\ dialog.asks
    BY <1>16 DEF DialogAsks, service, account, page
  <2>2. /\ r.at = "check" /\ r.code = dialog.code
        /\ r.reported = reported /\ ~reported /\ dialog.code \in shown
    BY <2>1 DEF DialogInv, PageFits, PageTypes
  <2>3. r \in HandlerRecords
    BY <1>16, <2>1 DEF RequestTypes, Goto
  <2> HIDE DEF r, reported
  <2>4. RequestFits(r)
    BY <2>2 DEF RequestFits
  <2> QED
    BY <1>1, <2>1, <2>2, <2>3, <2>4, RequestKeepsDialog
<1>17. CASE \E read \in BOOLEAN : Restart(read)
  <2>1. /\ UNCHANGED <<issued, shown, told>>
        /\ \A h \in Handlers : handler'[h] = Idle
    BY <1>17 DEF Restart, service
  <2>2. dialog' = dialog \/ dialog' = [dialog EXCEPT !.asks = FALSE]
    BY <1>17 DEF Restart
  <2>3. PageFits'
    BY <1>1, <2>1, <2>2 DEF DialogInv, PageFits, Dialogs
  <2>4. \A h \in Handlers : RequestFits(handler[h])'
    BY <1>3, <2>1 DEF RequestFits
  <2>5. FetchesDiffer'
    BY <1>3, <2>1 DEF FetchesDiffer
  <2> QED
    BY <2>3, <2>4, <2>5 DEF DialogInv
<1>18. CASE DialogCloses
  <2>1. /\ UNCHANGED <<issued, shown, told, handler>> /\ dialog' = Closed
    BY <1>18 DEF DialogCloses, service, account
  <2> QED
    BY <1>1, <2>1, PageKeepsDialog DEF Closed
<1>19. ASSUME NEW c \in Codes, PhoneConfirms(c) \/ CodeExpires(c) PROVE DialogInv'
  BY <1>4, <1>19 DEF PhoneConfirms, CodeExpires, account
<1>20. ASSUME NEW s \in Codes, ScanStep(s) \/ Deadline(s) PROVE DialogInv'
  BY <1>4, <1>20 DEF ScanStep, Deadline, Ask, Refresh, RefreshFails, Leave, ScanOnly,
                     account, service
<1>21. CASE UNCHANGED vars
  BY <1>4, <1>21 DEF vars, service, account
<1> QED
  BY <1>5, <1>6, <1>7, <1>9, <1>10, <1>11, <1>12, <1>14, <1>15, <1>16, <1>17, <1>18,
     <1>19, <1>20, <1>21 DEF Next, HandlerStep

-----------------------------------------------------------------------------
(* The theorems                                                                *)

QRTypes == ServiceTypes /\ AccountTypes /\ PageTypes /\ RequestTypes

QRInv == QRTypes /\ ScanInv /\ AccountInv /\ DialogInv

LEMMA InitHolds == Init => QRInv
<1> SUFFICES ASSUME Init PROVE QRInv
  OBVIOUS
<1> USE DEF Init
<1>1. 0 \in 0..MaxCodes
  BY LoginAssumption
<1>2. ServiceTypes
  BY <1>1 DEF ServiceTypes, Statuses
<1>3. NoScan \in Scans
  BY <1>1 DEF NoScan, Scans, Statuses
<1>4. ScanInv
  BY <1>1, <1>3 DEF ScanInv, ScanTypes, Found, FoundByCode, Known, KnowsToken,
                    EntriesPoint, NoScan
<1>5. AccountTypes
  BY DEF AccountTypes
<1>6. PageTypes
  BY <1>1 DEF PageTypes, Closed, Dialogs
<1>7. Idle \in HandlerRecords /\ Idle.at = "idle"
  BY DEF Idle, HandlerRecords
<1>8. RequestTypes
  BY <1>7 DEF RequestTypes
<1>9. AccountInv
  BY <1>7 DEF AccountInv, LoopHasSavedToken
<1>10. DialogInv
  BY <1>7 DEF DialogInv, PageFits, RequestFits, FetchesDiffer, Closed
<1> QED
  BY <1>2, <1>4, <1>5, <1>6, <1>8, <1>9, <1>10 DEF QRInv, QRTypes

LEMMA QRInvHolds == Spec => []QRInv
<1>1. QRInv /\ [Next]_vars => QRInv'
  <2> SUFFICES ASSUME QRInv, [Next]_vars PROVE QRInv'
    OBVIOUS
  <2>1. ServiceTypes' /\ ScanInv'
    BY ServiceTypesStep, ScanStepKeeps DEF QRInv, QRTypes
  <2>2. AccountTypes' /\ PageTypes' /\ RequestTypes'
    BY AccountTypesStep, PageTypesStep, RequestTypesStep DEF QRInv, QRTypes
  <2>3. AccountInv' /\ DialogInv'
    BY <2>2, AccountInvStep, DialogInvStep DEF QRInv, QRTypes
  <2> QED
    BY <2>1, <2>2, <2>3 DEF QRInv, QRTypes
<1> QED
  BY InitHolds, <1>1, PTL DEF Spec

\* However codes are fetched, refreshed, confirmed and given up, an entry of active is
\* the scan that polls its code or holds the token it was confirmed with, and no scan
\* that runs or was confirmed is lost.
THEOREM ScansAreFound == Spec => []ActiveIsLive
<1>1. QRInv => ActiveIsLive
  <2> SUFFICES ASSUME ScanInv PROVE ActiveIsLive
    BY DEF QRInv
  <2>1. ASSUME NEW c \in Codes, active[c] # 0
        PROVE  /\ scan[active[c]].code = c
               /\ scan[active[c]].at = "done" =>
                      scan[active[c]].creds # 0 /\ scan[active[c]].creds = token[c]
    <3>1. active[c] \in Codes /\ scan[active[c]].code = c
      BY <2>1 DEF ScanInv, ScanTypes, EntriesPoint, Codes
    <3> QED
      BY <3>1 DEF ScanInv, Known, KnowsToken
  <2>2. \A s \in Codes : scan[s].at # "none" => active[scan[s].code] = s
    BY DEF ScanInv, Found, FoundByCode
  <2> QED
    BY <2>1, <2>2 DEF ActiveIsLive
<1> QED
  BY QRInvHolds, <1>1, PTL

\* Whatever requests overtake each other, between them the poll loop runs with the
\* token a restart would give it, unless its last call was out of date or refused, or a
\* boot could not read the table.
THEOREM LoopRunsWithSavedToken == Spec => []LoopHasSavedToken
<1>1. QRInv => LoopHasSavedToken
  BY DEF QRInv, AccountInv
<1> QED
  BY QRInvHolds, <1>1, PTL

\* For all requests and dialogs, a login that was replaced or disconnected is saved
\* again only by a request sent before the dialog had reported it bound.
THEOREM NoLoginComesBack == Spec => PastLoginsStayPast
<1>1. ASSUME QRInv, [Next]_vars, table' \in past, table' # table
      PROVE  \E h \in Handlers : /\ handler[h].at = "save"
                                 /\ handler[h].token = table'
                                 /\ ~handler[h].reported
  <2>1. table' # 0
    BY <1>1 DEF QRInv, QRTypes, AccountTypes
  <2>2. ASSUME UNCHANGED table PROVE FALSE
    BY <1>1, <2>2
  <2>3. ASSUME NEW h \in Handlers, NEW saved \in BOOLEAN, CheckSaves(h, saved)
        PROVE  /\ handler[h].at = "save" /\ handler[h].token = table'
               /\ ~handler[h].reported
    <3>1. handler[h].at = "save" /\ (saved => table' = handler[h].token)
      BY <2>3 DEF CheckSaves, Store
    <3>2. ~saved => table' = table
      BY <2>3 DEF CheckSaves
    <3>3. ~handler[h].reported
      BY <1>1, <3>1 DEF QRInv, DialogInv, RequestFits
    <3> QED
      BY <1>1, <3>1, <3>2, <3>3
  <2>4. ASSUME NEW h \in Handlers, DisconnectDeletes(h) PROVE FALSE
    BY <2>1, <2>4 DEF DisconnectDeletes, Store
  <2>5. ASSUME NEW h \in Handlers,
               \/ FetchFails(h) \/ FetchShows(h) \/ \E c \in Codes : Fetch(h, c)
               \/ Check(h) \/ CheckAdds(h) \/ AnswerArrives(h) \/ AnswerRevives(h)
               \/ AnswerExpired(h) \/ DisconnectRemoves(h) \/ DialogOpens(h)
               \/ DialogRenews(h) \/ DialogAsks(h) \/ AskFails(h)
        PROVE  FALSE
    BY <2>2, <2>5 DEF FetchFails, FetchShows, Fetch, Check, CheckAdds, AnswerArrives,
                      AnswerRevives, AnswerExpired, DisconnectRemoves, DialogOpens,
                      DialogRenews, DialogAsks,
                      AskFails, account
  <2>6. ASSUME NEW c \in Codes,
               \/ PhoneConfirms(c) \/ CodeExpires(c) \/ ScanStep(c) \/ Deadline(c)
        PROVE  FALSE
    BY <2>2, <2>6 DEF PhoneConfirms, CodeExpires, ScanStep, Deadline, Ask, Refresh,
                      RefreshFails, Leave, ScanOnly, account
  <2>7. CASE DialogCloses \/ (\E read \in BOOLEAN : Restart(read)) \/ UNCHANGED vars
    BY <2>2, <2>7 DEF DialogCloses, Restart, vars, account
  <2> QED
    BY <1>1, <2>3, <2>4, <2>5, <2>6, <2>7 DEF Next, HandlerStep
<1>2. QRInv /\ [Next]_vars =>
          [table' \in past /\ table' # table =>
              \E h \in Handlers : /\ handler[h].at = "save"
                                  /\ handler[h].token = table'
                                  /\ ~handler[h].reported]_vars
  BY <1>1
<1> QED
  BY QRInvHolds, <1>2, PTL DEF Spec, PastLoginsStayPast

===============================================================================
