------------------------------- MODULE LogBuffer -------------------------------
(***************************************************************************)
(* The log in memory (log/log.go): a buffer for each component, into which *)
(* every goroutine that logs appends, the streams of the log page, and the *)
(* requests that read all buffers.                                         *)
(*                                                                         *)
(* bufferHandler.Handle appends under the lock of one buffer and tells the *)
(* streams under another lock, so what two goroutines log may reach a      *)
(* stream in the other order.  A reader copies one buffer after the other  *)
(* under the lock of the group: who wants to find its buffer waits, but    *)
(* who has found it appends between the copies.                            *)
(*                                                                         *)
(* What is logged is a level, a message and attributes taken together.     *)
(* The n-th call that logs for a component has the number n; an entry is   *)
(* a run of such calls, of which it keeps the first number (history).      *)
(***************************************************************************)
EXTENDS Naturals, Sequences

CONSTANTS Components, Texts,  \* what can be logged, and for whom
          Loggers,            \* goroutines that log
          Streams,            \* requests for /logs/stream
          Readers,            \* requests for /logs
          Capacity,           \* entries a buffer holds (1000)
          Slots,              \* entries a stream may lag behind (64)
          MaxLogged           \* bound on the calls for one component

VARIABLES buffer,      \* buffer[c]: the entries of component c, oldest first
          logger,      \* logger[g]: where in Handle goroutine g is, and its call
          subscribers, \* streams that are subscribed
          channel,     \* channel[s]: calls that stream s has yet to send
          reading,     \* requests that hold the lock of the group
          copied,      \* copied[r]: components of which r has a copy
          view,        \* view[r][c]: the copy r has of c's buffer
          logged,      \* history: calls for each component
          since        \* history: logged, when request r began

readers == <<reading, copied, view, since>>
vars == <<buffer, logger, subscribers, channel, readers, logged>>

Idle == [at |-> "idle"]
Call(c, text, n) == [component |-> c, text |-> text, number |-> n]
Nothing == [c \in Components |-> <<>>]
Zero == [c \in Components |-> 0]

Init ==
    /\ buffer = Nothing
    /\ logger = [g \in Loggers |-> Idle]
    /\ subscribers = {}
    /\ channel = [s \in Streams |-> <<>>]
    /\ reading = {}
    /\ copied = [r \in Readers |-> {}]
    /\ view = [r \in Readers |-> Nothing]
    /\ logged = Zero
    /\ since = [r \in Readers |-> Zero]

-----------------------------------------------------------------------------
\* The entry e stands for one call more
OneMore(e) == [e EXCEPT !.count = @ + 1]

Last(s) == s[Len(s)]

\* Buffer.Append: what equals the newest entry is counted there; otherwise the oldest
\* entry makes room and a new one is appended
Appended(entries, text, n) ==
    IF entries # <<>> /\ Last(entries).text = text
    THEN [entries EXCEPT ![Len(entries)] = OneMore(@)]
    ELSE Append(IF Len(entries) >= Capacity THEN Tail(entries) ELSE entries,
                [text |-> text, count |-> 1, first |-> n])

\* Handle finds its buffer: getOrCreate takes the lock of the group alone
Find(g, c, text) ==
    /\ logger[g] = Idle
    /\ reading = {}
    /\ logger' = [logger EXCEPT ![g] = [at |-> "append", component |-> c, text |-> text]]
    /\ UNCHANGED <<buffer, subscribers, channel, readers, logged>>

\* ... appends under the lock of the buffer ...
Log(g) ==
    /\ logger[g].at = "append"
    /\ LET c == logger[g].component
           text == logger[g].text
           n == logged[c] + 1
       IN  /\ n <= MaxLogged
           /\ logged' = [logged EXCEPT ![c] = n]
           /\ buffer' = [buffer EXCEPT ![c] = Appended(@, text, n)]
           /\ logger' = [logger EXCEPT ![g] =
                            [at |-> "notify", call |-> Call(c, text, n)]]
    /\ UNCHANGED <<subscribers, channel, readers>>

\* ... and tells the streams; one whose channel is full is skipped
Notify(g) ==
    /\ logger[g].at = "notify"
    /\ channel' = [s \in Streams |->
                      IF s \in subscribers /\ Len(channel[s]) < Slots
                      THEN Append(channel[s], logger[g].call) ELSE channel[s]]
    /\ logger' = [logger EXCEPT ![g] = Idle]
    /\ UNCHANGED <<buffer, subscribers, readers, logged>>

-----------------------------------------------------------------------------
\* handleLogStream: a new channel, sent on until the client is gone
Subscribe(s) ==
    /\ s \notin subscribers
    /\ subscribers' = subscribers \cup {s}
    /\ channel' = [channel EXCEPT ![s] = <<>>]
    /\ UNCHANGED <<buffer, logger, readers, logged>>

Send(s) ==
    /\ s \in subscribers
    /\ channel[s] # <<>>
    /\ channel' = [channel EXCEPT ![s] = Tail(@)]
    /\ UNCHANGED <<buffer, logger, subscribers, readers, logged>>

Unsubscribe(s) ==
    /\ s \in subscribers
    /\ subscribers' = subscribers \ {s}
    /\ UNCHANGED <<buffer, logger, channel, readers, logged>>

-----------------------------------------------------------------------------
UnchangedByReads == UNCHANGED <<buffer, logger, subscribers, channel, logged>>

\* BufferGroup.Entries without a component, and GetComponents: Snap copies the
\* buffers one by one while the lock of the group is held for reading
Lock(r) ==
    /\ r \notin reading
    /\ reading' = reading \cup {r}
    /\ copied' = [copied EXCEPT ![r] = {}]
    /\ since' = [since EXCEPT ![r] = logged]
    /\ UNCHANGED view
    /\ UnchangedByReads

Snap(r, c) ==
    /\ r \in reading
    /\ c \notin copied[r]
    /\ copied' = [copied EXCEPT ![r] = @ \cup {c}]
    /\ view' = [view EXCEPT ![r][c] = buffer[c]]
    /\ UNCHANGED <<reading, since>>
    /\ UnchangedByReads

Unlock(r) ==
    /\ r \in reading
    /\ copied[r] = Components
    /\ reading' = reading \ {r}
    /\ UNCHANGED <<copied, view, since>>
    /\ UnchangedByReads

\* Entries with a component: one copy, made without the lock of the group
SnapOne(r, c) ==
    /\ r \notin reading
    /\ copied' = [copied EXCEPT ![r] = {c}]
    /\ view' = [view EXCEPT ![r][c] = buffer[c]]
    /\ since' = [since EXCEPT ![r] = logged]
    /\ UNCHANGED reading
    /\ UnchangedByReads

Next ==
    \/ \E g \in Loggers : \/ \E c \in Components, text \in Texts : Find(g, c, text)
                          \/ Log(g)
                          \/ Notify(g)
    \/ \E s \in Streams : Subscribe(s) \/ Send(s) \/ Unsubscribe(s)
    \/ \E r \in Readers : \/ Lock(r)
                          \/ Unlock(r)
                          \/ \E c \in Components : Snap(r, c) \/ SnapOne(r, c)

Spec == Init /\ [][Next]_vars

-----------------------------------------------------------------------------
Entries == [text : Texts, count : Nat, first : Nat]
Calls == [component : Components, text : Texts, number : Nat]

Places ==
    {Idle} \cup [at : {"append"}, component : Components, text : Texts]
           \cup [at : {"notify"}, call : Calls]

\* The shape of the state.
TypeOK ==
    /\ buffer \in [Components -> Seq(Entries)]
    /\ logger \in [Loggers -> Places]
    /\ subscribers \subseteq Streams
    /\ channel \in [Streams -> Seq(Calls)]
    /\ reading \subseteq Readers
    /\ copied \in [Readers -> SUBSET Components]
    /\ view \in [Readers -> [Components -> Seq(Entries)]]
    /\ logged \in [Components -> Nat]
    /\ since \in [Readers -> [Components -> Nat]]

\* The entries account for every call up to the n-th but for those of entries that
\* made room: none is missing or counted twice in between, and no two neighbours
\* could have been one entry
AccountsFor(entries, n) ==
    /\ Len(entries) <= Capacity
    /\ n > 0 => entries # <<>>
    /\ entries # <<>> => Last(entries).first + Last(entries).count = n + 1
    /\ \A i \in 1..Len(entries) : entries[i].count > 0
    /\ \A i \in 1..Len(entries) - 1 :
           /\ entries[i + 1].first = entries[i].first + entries[i].count
           /\ entries[i + 1].text # entries[i].text

\* Append: whatever goroutines log at once, a buffer holds the newest entries, and
\* its counts add up to the calls they stand for.
BuffersAccount == \A c \in Components : AccountsFor(buffer[c], logged[c])

\* Snap and Entries: what a request has copied of a buffer was the buffer at one
\* moment since the request began.
ViewsAreFresh ==
    \A r \in Readers : \A c \in copied[r] :
        \E n \in since[r][c]..logged[c] : AccountsFor(view[r][c], n)

\* The calls in a channel, and those a goroutine is about to send there
InChannel(s) == {channel[s][i] : i \in 1..Len(channel[s])}
Pending == {logger[g].call : g \in {h \in Loggers : logger[h].at = "notify"}}

\* Handle: a call is in the buffer before it is on a stream, no stream has it twice,
\* and a slow stream holds up no one and lags behind by no more than its slots.
StreamsFollow ==
    /\ \A g, h \in Loggers : (g # h /\ logger[g].at = "notify" /\ logger[h].at = "notify")
           => logger[g].call # logger[h].call
    /\ \A call \in Pending : call.number <= logged[call.component]
    /\ \A s \in Streams :
           /\ Len(channel[s]) <= Slots
           /\ InChannel(s) \cap Pending = {}
           /\ \A i, j \in 1..Len(channel[s]) :
                  /\ channel[s][i].number <= logged[channel[s][i].component]
                  /\ i # j => channel[s][i] # channel[s][j]

===============================================================================
