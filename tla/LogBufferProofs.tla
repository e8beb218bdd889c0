---------------------------- MODULE LogBufferProofs ----------------------------
(***************************************************************************)
(* Theorems about LogBuffer for every set of components, goroutines,       *)
(* streams and requests and for every capacity.  That a buffer accounts    *)
(* for what was logged rests on what one append does to the entries; that  *)
(* a copy does, on the buffer it was taken of.                             *)
(***************************************************************************)
EXTENDS LogBuffer, SequenceTheorems, TLAPS

Sizes == Capacity \in Nat \ {0} /\ Slots \in Nat

-----------------------------------------------------------------------------
\* Counting one call more in the newest entry keeps the account.
LEMMA MergeAccounts ==
    ASSUME NEW s \in Seq(Entries), NEW n \in Nat, AccountsFor(s, n), s # <<>>
    PROVE  LET t == [s EXCEPT ![Len(s)] = OneMore(@)]
           IN  t \in Seq(Entries) /\ AccountsFor(t, n + 1)
<1> DEFINE e == OneMore(s[Len(s)])
           t == [s EXCEPT ![Len(s)] = e]
<1>1. Len(s) \in 1..Len(s) /\ s[Len(s)] \in Entries
  <2>1. Len(s) \in Nat \ {0}
    BY EmptySeq
  <2> QED
    BY <2>1, ElementOfSeq
<1>2. /\ e \in Entries /\ e.text = s[Len(s)].text /\ e.first = s[Len(s)].first
      /\ e.count = s[Len(s)].count + 1
  BY <1>1 DEF OneMore, Entries
<1> HIDE DEF e
<1>3. /\ t \in Seq(Entries) /\ Len(t) = Len(s) /\ t[Len(s)] = e
      /\ \A i \in 1..Len(s) - 1 : t[i] = s[i]
  BY <1>1, <1>2, ExceptSeq
<1> HIDE DEF t
<1>4. \A i \in 1..Len(s) : s[i] \in Entries /\ s[i].first \in Nat /\ s[i].count \in Nat
  <2>1. \A i \in 1..Len(s) : s[i] \in Entries
    BY ElementOfSeq
  <2> QED
    BY <2>1 DEF Entries
<1>5. Len(t) <= Capacity /\ t # <<>>
  <2>1. Len(t) # 0 /\ Len(<<>>) = 0
    BY <1>1, <1>3
  <2> QED
    BY <1>3, <2>1 DEF AccountsFor
<1>6. Last(t).first + Last(t).count = (n + 1) + 1
  <2>1. Last(t) = e /\ s[Len(s)].first + s[Len(s)].count = n + 1
    BY <1>3 DEF AccountsFor, Last
  <2> QED
    BY <1>1, <1>2, <1>4, <2>1
<1>7. \A i \in 1..Len(t) : t[i].count > 0
  BY <1>1, <1>2, <1>3, <1>4 DEF AccountsFor
<1>8. ASSUME NEW i \in 1..Len(t) - 1
      PROVE  t[i + 1].first = t[i].first + t[i].count /\ t[i + 1].text # t[i].text
  <2>1. t[i] = s[i] /\ i \in 1..Len(s) - 1
    BY <1>3
  <2>2. t[i + 1].first = s[i + 1].first /\ t[i + 1].text = s[i + 1].text
    BY <1>2, <1>3
  <2> QED
    BY <2>1, <2>2 DEF AccountsFor
<1>9. AccountsFor(t, n + 1)
  BY <1>5, <1>6, <1>7, <1>8 DEF AccountsFor
<1> QED
  BY <1>3, <1>9 DEF t, e

\* Leaving out the oldest entry keeps the account, if others remain to give it.
LEMMA TailAccounts ==
    ASSUME Sizes, NEW s \in Seq(Entries), NEW n \in Nat, AccountsFor(s, n), s # <<>>
    PROVE  /\ Tail(s) \in Seq(Entries) /\ Len(Tail(s)) = Len(s) - 1
           /\ \A i \in 1..Len(Tail(s)) : Tail(s)[i] = s[i + 1]
           /\ Tail(s) # <<>> => Last(Tail(s)) = Last(s) /\ AccountsFor(Tail(s), n)
<1> DEFINE t == Tail(s)
<1>1. /\ t \in Seq(Entries) /\ Len(t) = Len(s) - 1
      /\ \A i \in 1..Len(t) : t[i] = s[i + 1]
  BY HeadTailProperties
<1> HIDE DEF t
<1>2. ASSUME t # <<>> PROVE Last(t) = Last(s) /\ AccountsFor(t, n)
  <2>1. Len(t) \in Nat \ {0}
    BY <1>1, <1>2
  <2>2. Last(t) = Last(s)
    BY <1>1, <2>1 DEF Last
  <2>3. \A i \in 1..Len(t) : i + 1 \in 1..Len(s)
    BY <1>1
  <2>4. \A i \in 1..Len(t) : t[i].count > 0
    BY <1>1, <2>3 DEF AccountsFor
  <2>5. ASSUME NEW i \in 1..Len(t) - 1
        PROVE  t[i + 1].first = t[i].first + t[i].count /\ t[i + 1].text # t[i].text
    <3>1. i \in 1..Len(t) /\ i + 1 \in 1..Len(t) /\ i + 1 \in 1..Len(s) - 1
      BY <1>1
    <3>2. t[i] = s[i + 1] /\ t[i + 1] = s[(i + 1) + 1]
      BY <1>1, <3>1
    <3> QED
      BY <3>1, <3>2 DEF AccountsFor
  <2>6. Len(t) <= Capacity
    BY <1>1, <2>1 DEF AccountsFor, Sizes
  <2> QED
    BY <1>2, <2>2, <2>4, <2>5, <2>6 DEF AccountsFor
<1> QED
  BY <1>1, <1>2 DEF t

\* An entry of its own for the next call keeps the account, if there is room.
LEMMA NewEntryAccounts ==
    ASSUME Sizes, NEW s \in Seq(Entries), NEW n \in Nat, NEW text \in Texts,
           Len(s) < Capacity,
           s # <<>> => AccountsFor(s, n) /\ Last(s).text # text
    PROVE  LET t == Append(s, [text |-> text, count |-> 1, first |-> n + 1])
           IN  t \in Seq(Entries) /\ AccountsFor(t, n + 1)
<1> DEFINE e == [text |-> text, count |-> 1, first |-> n + 1]
           t == Append(s, e)
<1>1. e \in Entries /\ e.text = text /\ e.count = 1 /\ e.first = n + 1
  BY DEF Entries
<1> HIDE DEF e
<1>2. /\ t \in Seq(Entries) /\ Len(t) = Len(s) + 1 /\ t[Len(s) + 1] = e
      /\ \A i \in 1..Len(s) : t[i] = s[i]
  BY <1>1
<1> HIDE DEF t
<1>3. /\ Len(t) <= Capacity /\ t # <<>>
      /\ Last(t).first + Last(t).count = (n + 1) + 1
  BY <1>1, <1>2 DEF Last, Sizes
<1>4. ASSUME NEW i \in 1..Len(t) PROVE t[i].count > 0
  <2>1. CASE i \in 1..Len(s)
    BY <1>2, <2>1 DEF AccountsFor
  <2>2. CASE i = Len(s) + 1
    BY <1>1, <1>2, <2>2
  <2> QED
    BY <1>2, <2>1, <2>2
<1>5. ASSUME NEW i \in 1..Len(t) - 1
      PROVE  t[i + 1].first = t[i].first + t[i].count /\ t[i + 1].text # t[i].text
  <2>1. i \in 1..Len(s) /\ s # <<>>
    BY <1>2
  <2>2. CASE i = Len(s)
    BY <1>1, <1>2, <2>1, <2>2 DEF AccountsFor, Last
  <2>3. CASE i # Len(s)
    <3>1. i \in 1..Len(s) - 1 /\ t[i] = s[i] /\ t[i + 1] = s[i + 1]
      BY <1>2, <2>1, <2>3
    <3> QED
      BY <2>1, <3>1 DEF AccountsFor
  <2> QED
    BY <2>2, <2>3
<1>6. AccountsFor(t, n + 1)
  BY <1>3, <1>4, <1>5 DEF AccountsFor
<1> QED
  BY <1>2, <1>6 DEF t, e

\* An append keeps the account, whichever of its branches it takes.
LEMMA AppendedAccounts ==
    ASSUME Sizes, NEW s \in Seq(Entries), NEW n \in Nat, NEW text \in Texts,
           AccountsFor(s, n)
    PROVE  /\ Appended(s, text, n + 1) \in Seq(Entries)
           /\ AccountsFor(Appended(s, text, n + 1), n + 1)
<1>1. CASE s # <<>> /\ Last(s).text = text
  BY <1>1, MergeAccounts DEF Appended
<1>2. CASE ~(s # <<>> /\ Last(s).text = text)
  <2> DEFINE u == IF Len(s) >= Capacity THEN Tail(s) ELSE s
  <2>1. /\ u \in Seq(Entries) /\ Len(u) < Capacity
        /\ u # <<>> => AccountsFor(u, n) /\ Last(u).text # text
    <3>1. CASE Len(s) >= Capacity
      <4>1. s # <<>> /\ Len(s) <= Capacity
        BY <3>1 DEF Sizes, AccountsFor
      <4> QED
        BY <1>2, <3>1, <4>1, TailAccounts DEF Sizes
    <3>2. CASE ~(Len(s) >= Capacity)
      BY <1>2, <3>2 DEF Sizes
    <3> QED
      BY <3>1, <3>2
  <2>2. Appended(s, text, n + 1) =
            Append(u, [text |-> text, count |-> 1, first |-> n + 1])
    BY <1>2 DEF Appended
  <2> HIDE DEF u
  <2> QED
    BY <2>1, <2>2, NewEntryAccounts
<1> QED
  BY <1>1, <1>2

\* What a goroutine knows at each place in Handle.
LEMMA PlacesKnow ==
    ASSUME NEW x \in Places
    PROVE  /\ x.at = "append" => x.component \in Components /\ x.text \in Texts
           /\ x.at = "notify" => x.call \in Calls
<1>1. CASE x = Idle
  BY <1>1 DEF Idle
<1>2. CASE x \in [at : {"append"}, component : Components, text : Texts]
  BY <1>2
<1>3. CASE x \in [at : {"notify"}, call : Calls]
  BY <1>3
<1> QED
  BY <1>1, <1>2, <1>3 DEF Places

-----------------------------------------------------------------------------
\* Whatever goroutines log at once, every buffer is well typed and accounts for the
\* calls of its component.
THEOREM BuffersAlwaysAccount ==
    ASSUME Sizes PROVE Spec => [](TypeOK /\ BuffersAccount)
<1> DEFINE Inv == TypeOK /\ BuffersAccount
<1> USE DEF Sizes
<1>1. Init => Inv
  <2> SUFFICES ASSUME Init PROVE Inv
    OBVIOUS
  <2>1. AccountsFor(<<>>, 0)
    BY DEF AccountsFor
  <2>2. Nothing \in [Components -> Seq(Entries)] /\ Zero \in [Components -> Nat]
    BY DEF Nothing, Zero
  <2>3. BuffersAccount
    BY <2>1 DEF Init, BuffersAccount, Nothing, Zero
  <2> QED
    BY <2>2, <2>3 DEF Init, TypeOK, Places
<1>2. Inv /\ [Next]_vars => Inv'
  <2> SUFFICES ASSUME Inv, [Next]_vars PROVE Inv'
    OBVIOUS
  <2> USE DEF TypeOK, readers, UnchangedByReads
  <2>a. ASSUME UNCHANGED <<buffer, logged>> PROVE BuffersAccount'
    BY <2>a DEF BuffersAccount, AccountsFor, Last
  <2>1. ASSUME NEW g \in Loggers, NEW c \in Components, NEW text \in Texts,
               Find(g, c, text)
        PROVE  Inv'
    <3>1. logger' \in [Loggers -> Places]
      BY <2>1 DEF Find, Places
    <3> QED
      BY <2>1, <2>a, <3>1 DEF Find
  <2>2. ASSUME NEW g \in Loggers, Log(g) PROVE Inv'
    <3> DEFINE c == logger[g].component
               text == logger[g].text
               n == logged[c]
    <3>1. c \in Components /\ text \in Texts /\ n \in Nat
      BY <2>2, PlacesKnow DEF Log
    <3>2. /\ logged' = [logged EXCEPT ![c] = n + 1]
          /\ buffer' = [buffer EXCEPT ![c] = Appended(buffer[c], text, n + 1)]
          /\ logger' = [logger EXCEPT ![g] =
                           [at |-> "notify", call |-> Call(c, text, n + 1)]]
          /\ UNCHANGED <<subscribers, channel, readers>>
      BY <2>2 DEF Log
    <3> HIDE DEF c, text, n
    <3>3. /\ Appended(buffer[c], text, n + 1) \in Seq(Entries)
          /\ AccountsFor(Appended(buffer[c], text, n + 1), n + 1)
      BY <3>1, AppendedAccounts DEF BuffersAccount, n
    <3>4. ASSUME NEW d \in Components PROVE AccountsFor(buffer'[d], logged'[d])
      <4>1. CASE d = c
        BY <3>1, <3>2, <3>3, <4>1
      <4>2. CASE d # c
        BY <3>1, <3>2, <4>2 DEF BuffersAccount
      <4> QED
        BY <4>1, <4>2
    <3>5. BuffersAccount'
      BY <3>4 DEF BuffersAccount, AccountsFor, Last
    <3>6. [at |-> "notify", call |-> Call(c, text, n + 1)] \in Places
      BY <3>1 DEF Places, Calls, Call
    <3>7. logger' \in [Loggers -> Places]
      BY <3>2, <3>6
    <3>8. buffer' \in [Components -> Seq(Entries)] /\ logged' \in [Components -> Nat]
      BY <3>1, <3>2, <3>3
    <3> QED
      BY <3>2, <3>5, <3>7, <3>8
  <2>3. ASSUME NEW g \in Loggers, Notify(g) PROVE Inv'
    <3>1. logger[g].call \in Calls
      BY <2>3, PlacesKnow DEF Notify
    <3>2. channel' \in [Streams -> Seq(Calls)]
      BY <2>3, <3>1 DEF Notify
    <3>3. logger' \in [Loggers -> Places]
      BY <2>3 DEF Notify, Places
    <3> QED
      BY <2>3, <2>a, <3>2, <3>3 DEF Notify
  <2>4. ASSUME NEW s \in Streams, Subscribe(s) PROVE Inv'
    BY <2>4, <2>a DEF Subscribe
  <2>5. ASSUME NEW s \in Streams, Send(s) PROVE Inv'
    <3>1. Tail(channel[s]) \in Seq(Calls)
      BY <2>5, HeadTailProperties DEF Send
    <3> QED
      BY <2>5, <2>a, <3>1 DEF Send
  <2>6. ASSUME NEW s \in Streams, Unsubscribe(s) PROVE Inv'
    BY <2>6, <2>a DEF Unsubscribe
  <2>7. ASSUME NEW r \in Readers, Lock(r) PROVE Inv'
    BY <2>7, <2>a DEF Lock
  <2>8. ASSUME NEW r \in Readers, Unlock(r) PROVE Inv'
    BY <2>8, <2>a DEF Unlock
  <2>b. ASSUME NEW r \in Readers, NEW c \in Components,
               view' = [view EXCEPT ![r][c] = buffer[c]]
        PROVE  view' \in [Readers -> [Components -> Seq(Entries)]]
    BY <2>b
  <2>9. ASSUME NEW r \in Readers, NEW c \in Components, Snap(r, c) PROVE Inv'
    BY <2>9, <2>a, <2>b DEF Snap
  <2>10. ASSUME NEW r \in Readers, NEW c \in Components, SnapOne(r, c) PROVE Inv'
    BY <2>10, <2>a, <2>b DEF SnapOne
  <2>11. CASE UNCHANGED vars
    BY <2>11, <2>a DEF vars
  <2> QED
    BY <2>1, <2>2, <2>3, <2>4, <2>5, <2>6, <2>7, <2>8, <2>9, <2>10, <2>11 DEF Next
<1> QED
  BY <1>1, <1>2, PTL DEF Spec

-----------------------------------------------------------------------------
\* A request has nothing newer than what was logged since it began, and nothing older
\* than what was logged when it began.
SinceIsPast == \A r \in Readers : \A c \in Components : since[r][c] <= logged[c]

\* However the copies and the appends interleave, every copy a request has was its
\* buffer at one moment since the request began.
THEOREM ViewsStayFresh ==
    ASSUME Sizes PROVE Spec => []ViewsAreFresh
<1> DEFINE Inv == SinceIsPast /\ ViewsAreFresh
<1>1. Init => Inv
  BY DEF Init, SinceIsPast, ViewsAreFresh, Zero
<1>2. TypeOK /\ BuffersAccount /\ Inv /\ [Next]_vars => Inv'
  <2> SUFFICES ASSUME TypeOK, BuffersAccount, Inv, [Next]_vars PROVE Inv'
    OBVIOUS
  <2> USE DEF TypeOK, readers, UnchangedByReads
  <2>a. ASSUME UNCHANGED readers, \A c \in Components : logged'[c] \in Nat /\ logged[c] <= logged'[c]
        PROVE  Inv'
    <3>1. SinceIsPast'
      BY <2>a DEF SinceIsPast
    <3>2. ASSUME NEW r \in Readers, NEW c \in copied'[r]
          PROVE  \E n \in since'[r][c]..logged'[c] : AccountsFor(view'[r][c], n)
      <4>1. c \in Components
        BY <2>a, <3>2
      <4>2. PICK n \in since[r][c]..logged[c] : AccountsFor(view[r][c], n)
        BY <2>a, <3>2 DEF ViewsAreFresh
      <4>3. n \in since'[r][c]..logged'[c]
        BY <2>a, <4>1, <4>2
      <4> QED
        BY <2>a, <4>2, <4>3
    <3> QED
      BY <3>1, <3>2 DEF ViewsAreFresh, AccountsFor, Last
  <2>b. ASSUME NEW r \in Readers, NEW c \in Components,
               view' = [view EXCEPT ![r][c] = buffer[c]],
               \A q \in Readers : copied'[q] \subseteq
                   IF q = r THEN copied[q] \cup {c} ELSE copied[q],
               SinceIsPast', UNCHANGED <<buffer, logged>>,
               \A q \in Readers : q # r \/ copied'[r] # {c} => since'[q] = since[q]
        PROVE  Inv'
    <3>1. ASSUME NEW q \in Readers, NEW d \in copied'[q]
          PROVE  \E n \in since'[q][d]..logged'[d] : AccountsFor(view'[q][d], n)
      <4>1. CASE q = r /\ d = c
        <5>1. view'[q][d] = buffer[c] /\ AccountsFor(buffer[c], logged[c])
          BY <2>b, <4>1 DEF BuffersAccount
        <5>2. since'[q][d] <= logged'[d] /\ logged'[d] = logged[c]
          BY <2>b, <4>1 DEF SinceIsPast
        <5> QED
          BY <5>1, <5>2
      <4>2. CASE ~(q = r /\ d = c)
        <5>1. d \in copied[q] /\ view'[q][d] = view[q][d]
          BY <2>b, <3>1, <4>2
        <5>2. since'[q] = since[q]
          BY <2>b, <3>1, <4>2
        <5> QED
          BY <2>b, <5>1, <5>2 DEF ViewsAreFresh
      <4> QED
        BY <4>1, <4>2
    <3> QED
      BY <2>b, <3>1 DEF ViewsAreFresh, AccountsFor, Last
  <2>1. ASSUME NEW g \in Loggers, NEW c \in Components, NEW text \in Texts,
               Find(g, c, text)
        PROVE  Inv'
    BY <2>1, <2>a DEF Find
  <2>2. ASSUME NEW g \in Loggers, Log(g) PROVE Inv'
    <3> DEFINE c == logger[g].component
    <3>1. c \in Components /\ logged' = [logged EXCEPT ![c] = logged[c] + 1]
      BY <2>2, PlacesKnow DEF Log
    <3>2. UNCHANGED readers
      BY <2>2 DEF Log
    <3> HIDE DEF c
    <3>3. \A d \in Components : logged'[d] \in Nat /\ logged[d] <= logged'[d]
      BY <3>1
    <3> QED
      BY <2>a, <3>2, <3>3
  <2>3. ASSUME NEW g \in Loggers, Notify(g) PROVE Inv'
    BY <2>3, <2>a DEF Notify
  <2>4. ASSUME NEW s \in Streams, Subscribe(s) \/ Send(s) \/ Unsubscribe(s) PROVE Inv'
    BY <2>4, <2>a DEF Subscribe, Send, Unsubscribe
  <2>5. ASSUME NEW r \in Readers, Lock(r) PROVE Inv'
    <3>1. SinceIsPast'
      BY <2>5 DEF Lock, SinceIsPast
    <3>2. ASSUME NEW q \in Readers, NEW d \in copied'[q]
          PROVE  \E n \in since'[q][d]..logged'[d] : AccountsFor(view'[q][d], n)
      <4>1. q # r /\ d \in copied[q]
        BY <2>5, <3>2 DEF Lock
      <4>2. UNCHANGED <<since[q], view[q], logged>>
        BY <2>5, <4>1 DEF Lock
      <4> QED
        BY <4>1, <4>2 DEF ViewsAreFresh
    <3> QED
      BY <3>1, <3>2 DEF ViewsAreFresh, AccountsFor, Last
  <2>6. ASSUME NEW r \in Readers, NEW c \in Components, Snap(r, c) PROVE Inv'
    <3>1. SinceIsPast'
      BY <2>6 DEF Snap, SinceIsPast
    <3> QED
      BY <2>6, <2>b, <3>1 DEF Snap
  <2>7. ASSUME NEW r \in Readers, Unlock(r) PROVE Inv'
    <3>1. SinceIsPast'
      BY <2>7 DEF Unlock, SinceIsPast
    <3>2. UNCHANGED <<copied, view, since, logged>>
      BY <2>7 DEF Unlock
    <3>3. ASSUME NEW q \in Readers, NEW d \in copied'[q]
          PROVE  \E n \in since'[q][d]..logged'[d] : AccountsFor(view'[q][d], n)
      BY <3>2 DEF ViewsAreFresh
    <3> QED
      BY <3>1, <3>3 DEF ViewsAreFresh, AccountsFor, Last
  <2>8. ASSUME NEW r \in Readers, NEW c \in Components, SnapOne(r, c) PROVE Inv'
    <3>1. SinceIsPast'
      BY <2>8 DEF SnapOne, SinceIsPast
    <3> QED
      BY <2>8, <2>b, <3>1 DEF SnapOne
  <2>9. CASE UNCHANGED vars
    BY <2>9, <2>a DEF vars
  <2> QED
    BY <2>1, <2>2, <2>3, <2>4, <2>5, <2>6, <2>7, <2>8, <2>9 DEF Next
<1> QED
  BY <1>1, <1>2, BuffersAlwaysAccount, PTL DEF Spec

-----------------------------------------------------------------------------
\* No call is on its way to the streams twice, and each is in its buffer.
CallsAreOwn ==
    \A g, h \in Loggers :
        (g # h /\ logger[g].at = "notify" /\ logger[h].at = "notify")
            => logger[g].call # logger[h].call

PendingAreLogged == \A call \in Pending : call.number <= logged[call.component]

\* What StreamsFollow says of the channel x, where p are the calls on their way and
\* n the calls logged.
ChannelFollows(x, p, n) ==
    /\ Len(x) <= Slots
    /\ {x[i] : i \in 1..Len(x)} \cap p = {}
    /\ \A i, j \in 1..Len(x) : /\ x[i].number <= n[x[i].component]
                               /\ i # j => x[i] # x[j]

\* A call that is on its way and logged may be appended to a channel with room.
LEMMA SendKeepsChannel ==
    ASSUME Sizes, NEW x \in Seq(Calls), NEW p, NEW n, NEW call \in p \cap Calls,
           ChannelFollows(x, p, n), Len(x) < Slots,
           call.number <= n[call.component]
    PROVE  ChannelFollows(Append(x, call), p \ {call}, n)
<1> DEFINE y == Append(x, call)
<1>1. /\ Len(y) = Len(x) + 1 /\ y[Len(x) + 1] = call /\ Len(x) \in Nat
      /\ \A i \in 1..Len(x) : y[i] = x[i]
  OBVIOUS
<1> HIDE DEF y
<1>2. \A i \in 1..Len(x) : x[i] # call /\ x[i] \notin p
  BY DEF ChannelFollows
<1>3. \A i \in 1..Len(y) : i \in 1..Len(x) \/ i = Len(x) + 1
  BY <1>1
<1>4. {y[i] : i \in 1..Len(y)} \cap (p \ {call}) = {}
  BY <1>1, <1>2, <1>3
<1>5. \A i, j \in 1..Len(y) : i # j => y[i] # y[j]
  BY <1>1, <1>2, <1>3 DEF ChannelFollows
<1>6. \A i \in 1..Len(y) : y[i].number <= n[y[i].component]
  BY <1>1, <1>3 DEF ChannelFollows
<1>7. Len(y) <= Slots
  BY <1>1 DEF Sizes
<1>8. ChannelFollows(y, p \ {call}, n)
  BY <1>4, <1>5, <1>6, <1>7 DEF ChannelFollows
<1> QED
  BY <1>8 DEF y

\* Sending the oldest call keeps the channel.
LEMMA TailKeepsChannel ==
    ASSUME Sizes, NEW x \in Seq(Calls), NEW p, NEW n, ChannelFollows(x, p, n), x # <<>>
    PROVE  ChannelFollows(Tail(x), p, n)
<1> DEFINE y == Tail(x)
<1>1. /\ Len(y) = Len(x) - 1 /\ Len(x) \in Nat \ {0}
      /\ \A i \in 1..Len(y) : y[i] = x[i + 1] /\ i + 1 \in 1..Len(x)
  BY HeadTailProperties, EmptySeq
<1> HIDE DEF y
<1>2. Len(y) <= Slots
  BY <1>1 DEF Sizes, ChannelFollows
<1>3. {y[i] : i \in 1..Len(y)} \cap p = {}
  BY <1>1 DEF ChannelFollows
<1>4. \A i \in 1..Len(y) : y[i].number <= n[y[i].component]
  BY <1>1 DEF ChannelFollows
<1>5. ASSUME NEW i \in 1..Len(y), NEW j \in 1..Len(y), i # j PROVE y[i] # y[j]
  <2>1. y[i] = x[i + 1] /\ y[j] = x[j + 1] /\ i + 1 # j + 1
    BY <1>1, <1>5
  <2> QED
    BY <1>1, <2>1 DEF ChannelFollows
<1>6. ChannelFollows(y, p, n)
  BY <1>2, <1>3, <1>4, <1>5 DEF ChannelFollows
<1> QED
  BY <1>6 DEF y

\* A channel also follows fewer calls on their way, new calls, and a longer log.
LEMMA LogKeepsChannel ==
    ASSUME NEW x \in Seq(Calls), NEW p, NEW q, NEW n, NEW m, ChannelFollows(x, p, n),
           n \in [Components -> Nat], m \in [Components -> Nat],
           \A c \in Components : n[c] <= m[c],
           \A call \in q \ p : call.number > n[call.component]
    PROVE  ChannelFollows(x, q, m)
<1>1. ASSUME NEW i \in 1..Len(x)
      PROVE  x[i] \notin q /\ x[i].number <= m[x[i].component]
  <2>1. x[i] \in Calls /\ x[i].component \in Components /\ x[i].number \in Nat
    <3>1. x[i] \in Calls
      BY ElementOfSeq
    <3> QED
      BY <3>1 DEF Calls
  <2>2. x[i] \notin p /\ x[i].number <= n[x[i].component]
    BY DEF ChannelFollows
  <2> QED
    BY <2>1, <2>2
<1> QED
  BY <1>1 DEF ChannelFollows

\* Handle: streams follow the buffers, whichever goroutines and streams take part.
THEOREM StreamsAlwaysFollow ==
    ASSUME Sizes PROVE Spec => []StreamsFollow
<1> DEFINE Channels == \A s \in Streams : ChannelFollows(channel[s], Pending, logged)
           Inv == CallsAreOwn /\ PendingAreLogged /\ Channels
<1>1. Inv <=> StreamsFollow
  BY DEF StreamsFollow, CallsAreOwn, PendingAreLogged, ChannelFollows, InChannel
<1>2. Init => Inv
  BY DEF Init, CallsAreOwn, PendingAreLogged, Pending, ChannelFollows, Idle, Sizes
<1>3. TypeOK /\ TypeOK' /\ Inv /\ [Next]_vars => Inv'
  <2> SUFFICES ASSUME TypeOK, TypeOK', Inv, [Next]_vars PROVE Inv'
    OBVIOUS
  <2> USE Sizes DEF TypeOK, readers, UnchangedByReads
  <2>b. ASSUME UNCHANGED <<logger, logged>>,
               \A s \in Streams : ChannelFollows(channel'[s], Pending, logged)
        PROVE  Inv'
    <3>1. Pending' = Pending
      BY <2>b DEF Pending
    <3> QED
      BY <2>b, <3>1 DEF CallsAreOwn, PendingAreLogged, ChannelFollows
  <2>a. ASSUME UNCHANGED <<logger, logged, channel>> PROVE Inv'
    BY <2>a, <2>b
  <2>1. ASSUME NEW g \in Loggers, NEW c \in Components, NEW text \in Texts,
               Find(g, c, text)
        PROVE  Inv'
    <3>1. logger'[g].at = "append" /\ logger[g].at = "idle"
      BY <2>1 DEF Find, Idle
    <3>2. \A h \in Loggers \ {g} : logger'[h] = logger[h]
      BY <2>1 DEF Find
    <3>3. Pending' = Pending
      BY <3>1, <3>2 DEF Pending
    <3>4. CallsAreOwn'
      BY <3>1, <3>2 DEF CallsAreOwn
    <3>5. UNCHANGED <<channel, logged>>
      BY <2>1 DEF Find
    <3> QED
      BY <3>3, <3>4, <3>5 DEF PendingAreLogged, ChannelFollows
  <2>2. ASSUME NEW g \in Loggers, Log(g) PROVE Inv'
    <3> DEFINE c == logger[g].component
               call == Call(c, logger[g].text, logged[c] + 1)
    <3>1. c \in Components /\ logger[g].text \in Texts
      BY <2>2, PlacesKnow DEF Log
    <3>2. /\ logged' = [logged EXCEPT ![c] = logged[c] + 1]
          /\ logger' = [logger EXCEPT ![g] = [at |-> "notify", call |-> call]]
          /\ channel' = channel
      BY <2>2 DEF Log
    <3>3. call.component = c /\ call.number = logged[c] + 1
      BY DEF Call
    <3>4. logger[g].at = "append"
      BY <2>2 DEF Log
    <3> HIDE DEF c, call
    <3>5. /\ logger'[g].at = "notify" /\ logger'[g].call = call
          /\ \A h \in Loggers \ {g} : logger'[h] = logger[h]
      BY <3>2
    <3>6. Pending' = Pending \cup {call}
      BY <3>4, <3>5 DEF Pending
    <3>7. \A d \in Components : logged[d] <= logged'[d]
      BY <3>1, <3>2
    <3>8. ASSUME NEW other \in Pending
          PROVE  other # call /\ other.number <= logged'[other.component]
      <4>1. PICK h \in Loggers : logger[h].at = "notify" /\ other = logger[h].call
        BY DEF Pending
      <4>2. other \in Calls
        BY <4>1, PlacesKnow
      <4>3. other.component \in Components /\ other.number \in Nat
        BY <4>2 DEF Calls
      <4>4. other.number <= logged[other.component]
        BY DEF PendingAreLogged
      <4> QED
        BY <3>1, <3>3, <3>7, <4>3, <4>4
    <3>9. PendingAreLogged'
      <4>1. call.number <= logged'[call.component]
        BY <3>1, <3>2, <3>3
      <4> QED
        BY <3>6, <3>8, <4>1 DEF PendingAreLogged
    <3>10. CallsAreOwn'
      <4> SUFFICES ASSUME NEW k \in Loggers, NEW h \in Loggers, k # h,
                          logger'[k].at = "notify", logger'[h].at = "notify"
                   PROVE  logger'[k].call # logger'[h].call
        BY DEF CallsAreOwn
      <4>1. CASE k = g
        <5>1. logger'[h].call \in Pending
          BY <3>5, <4>1 DEF Pending
        <5> QED
          BY <3>5, <3>8, <4>1, <5>1
      <4>2. CASE h = g
        <5>1. logger'[k].call \in Pending
          BY <3>5, <4>2 DEF Pending
        <5> QED
          BY <3>5, <3>8, <4>2, <5>1
      <4>3. CASE k # g /\ h # g
        BY <3>5, <4>3 DEF CallsAreOwn
      <4> QED
        BY <4>1, <4>2, <4>3
    <3>11. ASSUME NEW s \in Streams
           PROVE  ChannelFollows(channel'[s], Pending', logged')
      <4>1. \A other \in Pending' \ Pending : other.number > logged[other.component]
        BY <3>1, <3>3, <3>6
      <4>2. channel'[s] \in Seq(Calls) /\ ChannelFollows(channel'[s], Pending, logged)
        BY <3>2
      <4> QED
        BY <3>7, <4>1, <4>2, LogKeepsChannel
    <3> QED
      BY <3>9, <3>10, <3>11 DEF ChannelFollows
  <2>3. ASSUME NEW g \in Loggers, Notify(g) PROVE Inv'
    <3> DEFINE call == logger[g].call
    <3>1. call \in Calls /\ call \in Pending
      BY <2>3, PlacesKnow DEF Notify, Pending
    <3>2. /\ logger'[g].at = "idle" /\ logged' = logged
          /\ \A h \in Loggers \ {g} : logger'[h] = logger[h]
      BY <2>3 DEF Notify, Idle
    <3>3. logger[g].at = "notify"
      BY <2>3 DEF Notify
    <3>4. Pending' = Pending \ {call}
      <4>1. \A h \in Loggers \ {g} : logger[h].at = "notify" => logger[h].call # call
        BY <3>3 DEF CallsAreOwn
      <4>2. logger'[g].at # "notify"
        BY <3>2
      <4>3. ASSUME NEW x \in Pending' PROVE x \in Pending /\ x # call
        <5>1. PICK h \in Loggers : logger'[h].at = "notify" /\ x = logger'[h].call
          BY DEF Pending
        <5>2. h # g /\ logger'[h] = logger[h]
          BY <3>2, <4>2, <5>1
        <5> QED
          BY <4>1, <5>1, <5>2 DEF Pending
      <4>4. ASSUME NEW x \in Pending, x # call PROVE x \in Pending'
        <5>1. PICK h \in Loggers : logger[h].at = "notify" /\ x = logger[h].call
          BY DEF Pending
        <5>2. h # g
          BY <4>4, <5>1
        <5> QED
          BY <3>2, <5>1, <5>2 DEF Pending
      <4> QED
        BY <4>3, <4>4
    <3>5. CallsAreOwn' /\ PendingAreLogged'
      BY <3>2, <3>4 DEF CallsAreOwn, PendingAreLogged
    <3>6. channel' = [s \in Streams |->
                         IF s \in subscribers /\ Len(channel[s]) < Slots
                         THEN Append(channel[s], call) ELSE channel[s]]
      BY <2>3 DEF Notify
    <3> HIDE DEF call
    <3>7. ASSUME NEW s \in Streams
          PROVE  ChannelFollows(channel'[s], Pending', logged')
      <4>1. CASE s \in subscribers /\ Len(channel[s]) < Slots
        <5>1. call.number <= logged[call.component]
          BY <3>1 DEF PendingAreLogged
        <5>2. ChannelFollows(channel[s], Pending, logged) /\ channel[s] \in Seq(Calls)
          OBVIOUS
        <5>3. ChannelFollows(Append(channel[s], call), Pending \ {call}, logged)
          BY <3>1, <4>1, <5>1, <5>2, SendKeepsChannel
        <5> QED
          BY <3>2, <3>4, <3>6, <4>1, <5>3
      <4>2. CASE ~(s \in subscribers /\ Len(channel[s]) < Slots)
        BY <3>2, <3>4, <3>6, <4>2 DEF ChannelFollows
      <4> QED
        BY <4>1, <4>2
    <3> QED
      BY <3>5, <3>7 DEF ChannelFollows
  <2>4. ASSUME NEW s \in Streams, Subscribe(s) PROVE Inv'
    <3>1. ChannelFollows(<<>>, Pending, logged)
      BY DEF ChannelFollows, Sizes
    <3>2. \A q \in Streams : ChannelFollows(channel'[q], Pending, logged)
      BY <2>4, <3>1 DEF Subscribe
    <3> QED
      BY <2>4, <2>b, <3>2 DEF Subscribe
  <2>5. ASSUME NEW s \in Streams, Send(s) PROVE Inv'
    <3>1. ChannelFollows(Tail(channel[s]), Pending, logged)
      BY <2>5, TailKeepsChannel DEF Send
    <3>2. \A q \in Streams : ChannelFollows(channel'[q], Pending, logged)
      BY <2>5, <3>1 DEF Send
    <3> QED
      BY <2>5, <2>b, <3>2 DEF Send
  <2>6. ASSUME NEW s \in Streams, Unsubscribe(s) PROVE Inv'
    BY <2>6, <2>a DEF Unsubscribe
  <2>7. ASSUME NEW r \in Readers, Lock(r) \/ Unlock(r) PROVE Inv'
    BY <2>7, <2>a DEF Lock, Unlock
  <2>8. ASSUME NEW r \in Readers, NEW c \in Components, Snap(r, c) \/ SnapOne(r, c)
        PROVE  Inv'
    BY <2>8, <2>a DEF Snap, SnapOne
  <2>9. CASE UNCHANGED vars
    BY <2>9, <2>a DEF vars
  <2> QED
    BY <2>1, <2>2, <2>3, <2>4, <2>5, <2>6, <2>7, <2>8, <2>9 DEF Next
<1> QED
  BY <1>1, <1>2, <1>3, BuffersAlwaysAccount, PTL DEF Spec

===============================================================================
