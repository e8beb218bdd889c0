------------------------- MODULE AccountPollingProofs -------------------------
(***************************************************************************)
(* Theorems about AccountPolling for all accounts, slots and handlers, any *)
(* capacity of msgChan and every number of messages and faults.            *)
(*                                                                         *)
(* The nine steps of a poll loop are six kinds: PollKinds says once what   *)
(* each kind leaves of the loop, and the proofs go by kinds.               *)
(***************************************************************************)
EXTENDS AccountPolling, FiniteSetTheorems, SequenceTheorems, TLAPS

-----------------------------------------------------------------------------
(* Types                                                                       *)

\* What the types need to be kept: a goroutine that works knows its account, a
\* loop that delivers has a next message, and faults can be counted.
Strengthened ==
    /\ \A h \in Handlers : handler[h].at = "idle" <=> handler[h].account = None
    /\ \A s \in Slots : loop[s].at = "deliver" =>
           loop[s].next \in 1..loop[s].upto + 1 /\ loop[s].buf <= loop[s].upto
    /\ IsFiniteSet(rewound) /\ IsFiniteSet(unsaved)

TypeInv == TypeOK /\ Strengthened

LEMMA TypeInit == Init => TypeInv
<1> SUFFICES ASSUME Init PROVE TypeInv
  OBVIOUS
<1>1. NoLoop \in Loops
  BY PollingAssumption DEF NoLoop, Loops
<1>2. Idle \in Requests
  BY DEF Idle, Requests
<1>3. <<>> \in Seq(Accounts \X Numbers) /\ Len(<<>>) = 0
  OBVIOUS
<1> QED
  BY <1>1, <1>2, <1>3, PollingAssumption, FS_EmptySet
     DEF Init, TypeInv, TypeOK, Strengthened, Alive, NoLoop, Idle, Numbers

-----------------------------------------------------------------------------
(* The kinds of steps of a poll loop                                           *)

Resting == {"top", "polling", "pause"}

\* saveSyncBuf was called or not, and failed or not.
Saves(a, n) ==
    \/ store' = [store EXCEPT ![a] = n] /\ UNCHANGED unsaved
    \/ UNCHANGED store /\ unsaved' = unsaved \cup {a} /\ MoreFaults

Keeps == UNCHANGED <<store, unsaved>>
NoNews == UNCHANGED <<msgChan, offered>>

\* The loop r of the slot becomes n.
Loads(r, n) ==
    /\ r.at = "load" /\ n.at = "top"
    /\ \/ n.buf = store[r.account] /\ UNCHANGED rewound
       \/ n.buf = 0 /\ rewound' = rewound \cup {r.account} /\ MoreFaults
    /\ Keeps /\ NoNews

Moves(r, n) ==
    /\ r.at \in Resting /\ n.at \in Resting
    /\ n.buf = r.buf
    /\ Saves(r.account, r.buf) \/ Keeps
    /\ UNCHANGED rewound /\ NoNews

Stops(r, n) ==
    /\ r.at \in Resting /\ n = NoLoop
    /\ Saves(r.account, r.buf)
    /\ UNCHANGED rewound /\ NoNews

Fetches(r, n) ==
    /\ r.at = "polling" /\ n.at = "deliver"
    /\ n.buf = r.buf /\ n.next = r.buf + 1
    /\ n.upto \in r.buf..server[r.account]
    /\ Keeps /\ UNCHANGED rewound /\ NoNews

Delivers(r, n) ==
    /\ r.at = "deliver" /\ n.at = "deliver"
    /\ r.next <= r.upto
    /\ n.buf = r.buf /\ n.upto = r.upto /\ n.next = r.next + 1
    /\ Send(r.account, r.next)
    /\ offered' = [offered EXCEPT ![r.account] = @ \cup {r.next}]
    /\ Keeps /\ UNCHANGED rewound

Advances(r, n) ==
    /\ r.at = "deliver" /\ n.at = "top"
    /\ r.next > r.upto
    /\ Saves(r.account, n.buf)
    /\ \/ n.buf = r.upto /\ UNCHANGED rewound
       \/ n.buf = 0 /\ rewound' = rewound \cup {r.account} /\ MoreFaults
    /\ NoNews

Steps(r, n) ==
    \/ Loads(r, n) \/ Moves(r, n) \/ Stops(r, n)
    \/ Fetches(r, n) \/ Delivers(r, n) \/ Advances(r, n)

\* Whatever a poll loop does, it is one of the six, and touches its own slot.
LEMMA PollKinds ==
    ASSUME TypeInv, NEW s \in Slots, Poll(s)
    PROVE  /\ UNCHANGED <<server, saved, up, listed, handler, overlapped, excused,
                          crashes>>
           /\ loop[s] \in Loops /\ loop[s].at # "none" /\ loop[s].account \in Accounts
           /\ loop'[s] \in Loops
           /\ loop' = [loop EXCEPT ![s] = loop'[s]]
           /\ \/ loop'[s] = NoLoop
              \/ /\ loop'[s].account = loop[s].account
                 /\ loop'[s].cancelled = loop[s].cancelled
                 /\ loop'[s].parent = loop[s].parent
           /\ Steps(loop[s], loop'[s])
<1> DEFINE r == loop[s]
           n == loop'[s]
           Same == /\ n.account = r.account /\ n.cancelled = r.cancelled
                   /\ n.parent = r.parent
           Frame == UNCHANGED <<server, saved, up, listed, handler, overlapped,
                                excused, crashes>>
           Slot == loop' = [loop EXCEPT ![s] = n]
           Goal == /\ Frame /\ n \in Loops /\ Slot /\ (n = NoLoop \/ Same)
                   /\ Steps(r, n)
<1>1. /\ loop \in [Slots -> Loops] /\ r \in Loops
      /\ store \in [Accounts -> 0..MaxMessages]
      /\ server \in [Accounts -> 0..MaxMessages]
      /\ MaxMessages \in Nat
      /\ r.at # "none" => r.account \in Accounts
      /\ r.at = "deliver" => r.next \in 1..r.upto + 1 /\ r.buf <= r.upto
  BY PollingAssumption DEF TypeInv, TypeOK, Strengthened, Loops, Alive
<1>2. NoLoop \in Loops
  BY <1>1 DEF NoLoop, Loops
<1>3. r.at # "none"
  BY DEF Poll, Load, Top, PollError, SessionExpired, Refused, PauseEnds, Fetch,
         Deliver, Advance, AdvanceTo
<1>4. /\ r.buf \in 0..MaxMessages /\ r.upto \in 0..MaxMessages
      /\ r.next \in 0..MaxMessages + 1
  BY <1>1 DEF Loops
<1> SUFFICES Goal
  BY <1>1, <1>3
<1> USE DEF Keeps, NoNews
<1>5. CASE Load(s)
  <2>1. Frame /\ Keeps /\ NoNews /\ r.at = "load"
    BY <1>5 DEF Load
  <2>2. CASE /\ loop' = [loop EXCEPT ![s].buf = store[r.account], ![s].at = "top"]
             /\ UNCHANGED rewound
    <3>1. Slot /\ n \in Loops
      BY <1>1, <1>3, <2>2 DEF Loops
    <3>2. Same /\ n.at = "top" /\ n.buf = store[r.account]
      BY <1>1, <1>3, <2>2 DEF Loops
    <3>3. Loads(r, n)
      BY <2>1, <2>2, <3>2 DEF Loads
    <3> QED
      BY <2>1, <3>1, <3>2, <3>3 DEF Steps
  <2>3. CASE /\ loop' = [loop EXCEPT ![s].buf = 0, ![s].at = "top"]
             /\ rewound' = rewound \cup {r.account} /\ MoreFaults
    <3>1. Slot
      BY <1>1, <1>3, <2>3 DEF Loops
    <3>2. n \in Loops
      <4>1. 0 \in 0..MaxMessages
        BY <1>1
      <4> QED
        BY <1>1, <4>1, <2>3 DEF Loops
    <3>3. Same /\ n.at = "top" /\ n.buf = 0
      BY <1>1, <1>3, <2>3 DEF Loops
    <3>4. Loads(r, n)
      BY <2>1, <2>3, <3>3 DEF Loads
    <3> QED
      BY <2>1, <3>1, <3>2, <3>3, <3>4 DEF Steps
  <2> QED
    BY <1>5, <2>2, <2>3 DEF Load
<1>6. ASSUME NEW place \in Resting, Goto(s, place) PROVE
        /\ Slot /\ n \in Loops /\ Same /\ n.at = place /\ n.buf = r.buf
  BY <1>1, <1>3, <1>6 DEF Goto, Resting, Loops
<1>7. ASSUME SaveSyncBuf(r.account, r.buf) PROVE Saves(r.account, r.buf)
  BY <1>7 DEF SaveSyncBuf, Saves
<1>8. ASSUME Stop(s), r.at \in Resting, UNCHANGED rewound, NoNews, Frame PROVE Goal
  <2>1. Slot /\ n = NoLoop
    BY <1>1, <1>8 DEF Stop
  <2>2. Saves(r.account, r.buf)
    BY <1>7, <1>8 DEF Stop
  <2> QED
    BY <1>2, <1>8, <2>1, <2>2 DEF Steps, Stops
<1>9. ASSUME NEW place \in Resting, Goto(s, place), r.at \in Resting,
             Saves(r.account, r.buf) \/ Keeps, UNCHANGED rewound, NoNews, Frame
      PROVE  Goal
  BY <1>6, <1>9 DEF Steps, Moves
<1>10. CASE Top(s) \/ PollError(s) \/ PauseEnds(s)
  <2>1. Frame /\ NoNews /\ UNCHANGED rewound /\ r.at \in Resting
    BY <1>10 DEF Top, PollError, PauseEnds, Resting
  <2>2. \/ Stop(s)
        \/ Keeps /\ \E place \in Resting : Goto(s, place)
    BY <1>10 DEF Top, PollError, PauseEnds, Resting
  <2> QED
    BY <1>8, <1>9, <2>1, <2>2
<1>11. CASE SessionExpired(s) \/ Refused(s)
  <2>1. Frame /\ NoNews /\ UNCHANGED rewound /\ r.at \in Resting
        /\ Goto(s, "pause")
    BY <1>11 DEF SessionExpired, Refused, ghosts, Resting
  <2>2. Saves(r.account, r.buf) \/ Keeps
    BY <1>7, <1>11 DEF SessionExpired, Refused, ghosts
  <2> QED
    BY <1>9, <2>1, <2>2 DEF Resting
<1>13. CASE Fetch(s)
  <2>1. PICK k \in r.buf .. server[r.account] :
            loop' = [loop EXCEPT ![s].at = "deliver", ![s].next = r.buf + 1,
                                 ![s].upto = k]
    BY <1>13 DEF Fetch
  <2>2. k \in 0..MaxMessages /\ k \in r.buf..server[r.account]
        /\ r.buf + 1 \in 0..MaxMessages + 1
    BY <1>1, <1>3, <1>4, <2>1
  <2>3. Slot /\ n \in Loops
    BY <1>1, <2>1, <2>2 DEF Loops
  <2>4. Same /\ n.at = "deliver" /\ n.buf = r.buf /\ n.next = r.buf + 1 /\ n.upto = k
    BY <1>1, <2>1 DEF Loops
  <2>5. Frame /\ Keeps /\ NoNews /\ UNCHANGED rewound /\ r.at = "polling"
    BY <1>13 DEF Fetch, ghosts
  <2> QED
    BY <2>2, <2>3, <2>4, <2>5 DEF Steps, Fetches
<1>14. CASE Deliver(s)
  <2>1. loop' = [loop EXCEPT ![s].next = r.next + 1] /\ r.at = "deliver"
        /\ r.next <= r.upto
    BY <1>14 DEF Deliver
  <2>2. r.next + 1 \in 0..MaxMessages + 1
    BY <1>1, <1>4, <2>1
  <2>3. Slot /\ n \in Loops
    BY <1>1, <2>1, <2>2 DEF Loops
  <2>4. Same /\ n.at = "deliver" /\ n.buf = r.buf /\ n.next = r.next + 1
        /\ n.upto = r.upto
    BY <1>1, <2>1 DEF Loops
  <2>5. Delivers(r, n) /\ Frame
    BY <1>14, <2>1, <2>4 DEF Deliver, Delivers, ghosts
  <2>6. Steps(r, n)
    BY <2>5 DEF Steps
  <2> QED
    BY <2>3, <2>4, <2>5, <2>6
<1>15. CASE Advance(s)
  <2>1. PICK k \in {r.upto, 0} :
            /\ AdvanceTo(s, k)
            /\ \/ k = r.upto /\ UNCHANGED rewound
               \/ k = 0 /\ rewound' = rewound \cup {r.account} /\ MoreFaults
    BY <1>15 DEF Advance
  <2>2. /\ loop' = [loop EXCEPT ![s].buf = k, ![s].at = "top",
                                ![s].next = 0, ![s].upto = 0]
        /\ r.at = "deliver" /\ r.next > r.upto
        /\ SaveSyncBuf(r.account, k)
        /\ Frame /\ NoNews
    BY <2>1 DEF AdvanceTo
  <2>3. k \in 0..MaxMessages
    BY <1>1, <1>4, <2>1
  <2>4. Slot /\ n \in Loops
    BY <1>1, <1>4, <2>2, <2>3 DEF Loops
  <2>5. Same /\ n.at = "top" /\ n.buf = k
    BY <1>1, <2>2 DEF Loops
  <2>6. Saves(r.account, k)
    BY <2>2 DEF SaveSyncBuf, Saves
  <2>7. Advances(r, n)
    BY <2>1, <2>2, <2>5, <2>6 DEF Advances
  <2> QED
    BY <2>2, <2>4, <2>5, <2>7 DEF Steps
<1> QED
  BY <1>1, <1>3, <1>5, <1>10, <1>11, <1>13, <1>14, <1>15 DEF Poll

-----------------------------------------------------------------------------
(* The types are kept                                                          *)

\* TypeInv by what is about the loops, about the requests, and about the rest.
LoopTypes ==
    /\ loop \in [Slots -> Loops]
    /\ listed \in [Accounts -> Slots \cup {None}]
    /\ \A s \in Slots : Alive(s) <=> loop[s].account # None
    /\ \A a \in Accounts : listed[a] # None => loop[listed[a]].account \in {a, None}
    /\ \A s \in Slots : loop[s].at = "deliver" =>
           loop[s].next \in 1..loop[s].upto + 1 /\ loop[s].buf <= loop[s].upto

RequestTypes ==
    /\ handler \in [Handlers -> Requests]
    /\ \A h \in Handlers : handler[h].at = "idle" <=> handler[h].account = None

ChannelTypes == msgChan \in Seq(Accounts \X Numbers) /\ Len(msgChan) <= ChanCap

FaultTypes ==
    /\ rewound \subseteq Accounts /\ unsaved \subseteq Accounts
    /\ IsFiniteSet(rewound) /\ IsFiniteSet(unsaved)
    /\ crashes \in 0..MaxFaults

OtherTypes ==
    /\ server \in [Accounts -> 0..MaxMessages]
    /\ saved \subseteq Accounts
    /\ store \in [Accounts -> 0..MaxMessages]
    /\ up \in BOOLEAN
    /\ offered \in [Accounts -> SUBSET Numbers]
    /\ overlapped \subseteq Accounts
    /\ excused \subseteq Accounts

LEMMA TypeParts ==
    TypeInv <=> LoopTypes /\ RequestTypes /\ ChannelTypes /\ FaultTypes /\ OtherTypes
BY DEF TypeInv, TypeOK, Strengthened, LoopTypes, RequestTypes, ChannelTypes,
       FaultTypes, OtherTypes

LEMMA PollTypes ==
    ASSUME TypeInv, NEW s \in Slots, Poll(s)
    PROVE  TypeInv'
<1> DEFINE r == loop[s]
           n == loop'[s]
           a == r.account
<1>1. /\ UNCHANGED <<server, saved, up, listed, handler, overlapped, excused, crashes>>
      /\ r \in Loops /\ r.at # "none" /\ a \in Accounts /\ n \in Loops
      /\ loop' = [loop EXCEPT ![s] = n]
      /\ n = NoLoop \/ n.account = a
      /\ Steps(r, n)
  BY PollKinds
<1>2. LoopTypes /\ RequestTypes /\ ChannelTypes /\ FaultTypes /\ OtherTypes
  BY TypeParts
<1>3. /\ r.buf \in 0..MaxMessages /\ r.upto \in 0..MaxMessages
      /\ r.at = "deliver" => r.next \in 1..r.upto + 1 /\ r.buf <= r.upto
      /\ MaxMessages \in Nat
  BY <1>1, <1>2, PollingAssumption DEF Loops, LoopTypes
<1> HIDE DEF r, n, a
<1>4. /\ n.at # "none" <=> n.account # None
      /\ n.at = "deliver" => n.next \in 1..n.upto + 1 /\ n.buf <= n.upto
  <2>1. NoLoop.at = "none" /\ NoLoop.account = None /\ a # None
    BY <1>1, PollingAssumption DEF NoLoop
  <2>2. CASE n = NoLoop
    BY <2>1, <2>2
  <2>3. CASE n # NoLoop
    BY <1>1, <1>3, <2>1, <2>3
       DEF Steps, Loads, Moves, Stops, Fetches, Delivers, Advances, Resting, Loops
  <2> QED
    BY <2>2, <2>3
<1>5. LoopTypes'
  BY <1>1, <1>2, <1>4 DEF LoopTypes, Alive, n, r, a, NoLoop
<1>6. RequestTypes'
  BY <1>1, <1>2 DEF RequestTypes
<1>7. store' \in [Accounts -> 0..MaxMessages]
  BY <1>1, <1>2, <1>3 DEF Steps, Loads, Moves, Stops, Fetches, Delivers, Advances,
                          Saves, Keeps, OtherTypes
<1>8. FaultTypes'
  <2>1. \/ UNCHANGED rewound \/ rewound' = rewound \cup {a}
    BY <1>1 DEF Steps, Loads, Moves, Stops, Fetches, Delivers, Advances, a
  <2>2. \/ UNCHANGED unsaved \/ unsaved' = unsaved \cup {a}
    BY <1>1 DEF Steps, Loads, Moves, Stops, Fetches, Delivers, Advances, Saves, Keeps, a
  <2>3. IsFiniteSet(rewound') /\ IsFiniteSet(unsaved')
    BY <1>2, <2>1, <2>2, FS_AddElement DEF FaultTypes
  <2> QED
    BY <1>1, <1>2, <2>1, <2>2, <2>3 DEF FaultTypes
<1>9. ChannelTypes' /\ OtherTypes'
  <2>1. CASE Delivers(r, n)
    <3>1. r.next \in Numbers
      BY <1>3, <2>1 DEF Delivers, Numbers
    <3>2. <<a, r.next>> \in Accounts \X Numbers
      BY <1>1, <3>1
    <3>3. ChannelTypes'
      <4>1. Len(msgChan) \in Nat /\ ChanCap \in Nat
        BY <1>2, LenProperties, PollingAssumption DEF ChannelTypes
      <4>2. CASE msgChan' = Append(msgChan, <<a, r.next>>) /\ Len(msgChan) < ChanCap
        <5>1. msgChan' \in Seq(Accounts \X Numbers) /\ Len(msgChan') = Len(msgChan) + 1
          BY <1>2, <3>2, <4>2, AppendProperties DEF ChannelTypes
        <5> QED
          BY <4>1, <4>2, <5>1 DEF ChannelTypes
      <4>3. CASE msgChan' = msgChan
        BY <1>2, <4>3 DEF ChannelTypes
      <4> QED
        BY <2>1, <4>2, <4>3 DEF Delivers, Send, a
    <3>4. offered' \in [Accounts -> SUBSET Numbers]
      BY <1>1, <1>2, <2>1, <3>1 DEF Delivers, OtherTypes, a
    <3> QED
      BY <1>1, <1>2, <1>7, <3>3, <3>4 DEF OtherTypes
  <2>2. CASE ~Delivers(r, n)
    <3>1. NoNews
      BY <1>1, <2>2 DEF Steps, Loads, Moves, Stops, Fetches, Advances
    <3> QED
      BY <1>1, <1>2, <1>7, <3>1 DEF OtherTypes, ChannelTypes, NoNews
  <2> QED
    BY <2>1, <2>2
<1> QED
  BY <1>5, <1>6, <1>8, <1>9 DEF TypeInv, TypeOK, Strengthened, LoopTypes,
       RequestTypes, ChannelTypes, FaultTypes, OtherTypes

\* A new loop of an account.
LEMMA NewLoopType ==
    ASSUME NEW a \in Accounts, NEW parent \in Handlers \cup {None}
    PROVE  /\ NewLoop(a, parent) \in Loops
           /\ NewLoop(a, parent).at = "load" /\ NewLoop(a, parent).account = a
           /\ NewLoop(a, parent).parent = parent
           /\ NewLoop(a, parent).cancelled = FALSE
<1>1. NoLoop \in Loops /\ NoLoop.cancelled = FALSE
  BY PollingAssumption DEF NoLoop, Loops
<1>2. \A r \in Loops :
          LET n == [r EXCEPT !.at = "load", !.account = a, !.parent = parent]
          IN  n \in Loops /\ n.at = "load" /\ n.account = a /\ n.parent = parent
              /\ n.cancelled = r.cancelled
  BY DEF Loops
<1> QED
  BY <1>1, <1>2 DEF NewLoop

\* A new loop: its slot is one nobody uses or lists.
LEMMA StartTypes ==
    ASSUME TypeInv, NEW a \in Accounts, NEW parent \in Handlers \cup {None},
           StartLoop(a, parent)
    PROVE  LoopTypes' /\ overlapped' \subseteq Accounts
<1>1. PICK s \in FreeSlots : /\ loop' = [loop EXCEPT ![s] = NewLoop(a, parent)]
                             /\ listed' = [listed EXCEPT ![a] = s]
  BY DEF StartLoop
<1>2. s \in Slots /\ ~Alive(s) /\ \A b \in Accounts : listed[b] # s
  BY DEF FreeSlots
<1>3. LoopTypes /\ OtherTypes
  BY TypeParts
<1>4. /\ NewLoop(a, parent) \in Loops
      /\ NewLoop(a, parent).at = "load" /\ NewLoop(a, parent).account = a
  BY NewLoopType
<1>5. a # None
  BY PollingAssumption
<1> QED
  BY <1>1, <1>2, <1>3, <1>4, <1>5 DEF LoopTypes, OtherTypes, Alive, StartLoop

\* A loop whose context ends is the same loop.
LEMMA CancelKeepsLoop ==
    ASSUME NEW r \in Loops
    PROVE  LET n == Cancelled(r)
           IN  /\ n \in Loops /\ n.at = r.at /\ n.account = r.account
               /\ n.buf = r.buf /\ n.next = r.next /\ n.upto = r.upto
               /\ n.cancelled = (r.at # "none")
BY DEF Loops, Cancelled

LEMMA RemoveTypes ==
    ASSUME TypeInv, NEW a \in Accounts, RemoveAccount(a)
    PROVE  LoopTypes'
<1>1. LoopTypes
  BY TypeParts
<1>2. CASE listed[a] = None
  BY <1>1, <1>2 DEF RemoveAccount, LoopTypes, Alive
<1>3. CASE listed[a] # None
  <2> DEFINE s == listed[a]
  <2>1. s \in Slots /\ loop[s] \in Loops /\ Alive(s) \in BOOLEAN
    BY <1>1, <1>3 DEF LoopTypes, Alive
  <2> DEFINE n == Cancelled(loop[s])
  <2>2. loop' = [loop EXCEPT ![s] = n] /\ listed' = [listed EXCEPT ![a] = None]
    BY <1>1, <1>3, <2>1 DEF RemoveAccount, LoopTypes
  <2>3. /\ n \in Loops /\ n.at = loop[s].at /\ n.account = loop[s].account
        /\ n.buf = loop[s].buf /\ n.next = loop[s].next /\ n.upto = loop[s].upto
    BY <2>1, CancelKeepsLoop
  <2> HIDE DEF n, s
  <2> QED
    BY <1>1, <2>1, <2>2, <2>3 DEF LoopTypes, Alive
<1> QED
  BY <1>2, <1>3

LEMMA ReturnTypes ==
    ASSUME TypeInv, NEW h \in Handlers, HandlerReturns(h)
    PROVE  LoopTypes'
<1>1. LoopTypes
  BY TypeParts
<1>2. \A s \in Slots :
          /\ loop'[s] \in Loops
          /\ loop'[s].at = loop[s].at /\ loop'[s].account = loop[s].account
          /\ loop'[s].buf = loop[s].buf /\ loop'[s].next = loop[s].next
          /\ loop'[s].upto = loop[s].upto
  <2> SUFFICES ASSUME NEW s \in Slots
               PROVE  /\ loop'[s] \in Loops
                      /\ loop'[s].at = loop[s].at /\ loop'[s].account = loop[s].account
                      /\ loop'[s].buf = loop[s].buf /\ loop'[s].next = loop[s].next
                      /\ loop'[s].upto = loop[s].upto
    OBVIOUS
  <2>1. loop[s] \in Loops
    BY <1>1 DEF LoopTypes
  <2>2. loop'[s] \in {loop[s], Cancelled(loop[s])}
    BY DEF HandlerReturns
  <2> QED
    BY <2>1, <2>2, CancelKeepsLoop
<1>3. loop' \in [Slots -> Loops] /\ UNCHANGED listed
  BY <1>2 DEF HandlerReturns
<1> QED
  BY <1>1, <1>2, <1>3 DEF LoopTypes, Alive

LEMMA BootTypes == ASSUME TypeInv, Boot PROVE LoopTypes'
<1>0. PICK rows \in {saved, {}} : \E place \in [rows -> Slots] :
          /\ \A a, b \in rows : a # b => place[a] # place[b]
          /\ listed' = [a \in Accounts |-> IF a \in rows THEN place[a] ELSE None]
          /\ loop' = [s \in Slots |->
                         IF \E a \in rows : place[a] = s
                         THEN NewLoop(CHOOSE a \in rows : place[a] = s, None)
                         ELSE NoLoop]
  BY DEF Boot
<1>1. PICK place \in [rows -> Slots] :
          /\ \A a, b \in rows : a # b => place[a] # place[b]
          /\ listed' = [a \in Accounts |-> IF a \in rows THEN place[a] ELSE None]
          /\ loop' = [s \in Slots |->
                         IF \E a \in rows : place[a] = s
                         THEN NewLoop(CHOOSE a \in rows : place[a] = s, None)
                         ELSE NoLoop]
  BY <1>0
<1>2. rows \subseteq Accounts
  BY TypeParts DEF OtherTypes
<1>3. \A a \in Accounts : /\ NewLoop(a, None) \in Loops
                          /\ NewLoop(a, None).at = "load"
                          /\ NewLoop(a, None).account = a
  <2> None \in Handlers \cup {None}
    OBVIOUS
  <2> QED
    BY NewLoopType
<1>4. NoLoop \in Loops /\ NoLoop.at = "none" /\ NoLoop.account = None
  BY PollingAssumption DEF NoLoop, Loops
<1>5. \A s \in Slots :
          \/ \E a \in rows : place[a] = s /\ loop'[s] = NewLoop(a, None)
          \/ loop'[s] = NoLoop /\ \A a \in rows : place[a] # s
  BY <1>1
<1>6. /\ loop' \in [Slots -> Loops]
      /\ \A s \in Slots : loop'[s].at \in {"load", "none"}
      /\ \A s \in Slots : loop'[s].at # "none" <=> loop'[s].account # None
  BY <1>1, <1>2, <1>3, <1>4, <1>5, PollingAssumption
<1>7. listed' \in [Accounts -> Slots \cup {None}]
  BY <1>1, <1>2
<1>8. \A a \in Accounts : listed'[a] # None => loop'[listed'[a]].account = a
  BY <1>1, <1>2, <1>3, <1>5
<1> QED
  BY <1>6, <1>7, <1>8 DEF LoopTypes, Alive

\* A request that comes, goes on or ends.
LEMMA RequestMoves ==
    ASSUME RequestTypes, NEW h \in Handlers, NEW r \in Requests,
           r.at = "idle" <=> r.account = None, handler' = [handler EXCEPT ![h] = r]
    PROVE  RequestTypes'
BY DEF RequestTypes

LEMMA IdleType == Idle \in Requests /\ Idle.at = "idle" /\ Idle.account = None
BY DEF Idle, Requests

LEMMA BeginTypes ==
    ASSUME RequestTypes, NEW h \in Handlers, NEW a \in Accounts,
           NEW next \in {"add", "addInRequest", "remove"}, Begin(h, a, next)
    PROVE  RequestTypes'
<1>1. handler' = [handler EXCEPT ![h] = [at |-> next, account |-> a]]
  BY DEF Begin
<1>2. [at |-> next, account |-> a] \in Requests /\ a # None
  BY PollingAssumption DEF Requests
<1> HIDE DEF Requests
<1> QED
  BY <1>1, <1>2 DEF RequestTypes

LEMMA TypeStep == TypeInv /\ [Next]_vars => TypeInv'
<1> SUFFICES ASSUME TypeInv, [Next]_vars PROVE TypeInv'
  OBVIOUS
<1>1. LoopTypes /\ RequestTypes /\ ChannelTypes /\ FaultTypes /\ OtherTypes
  BY TypeParts
<1>2. ASSUME LoopTypes', RequestTypes', ChannelTypes', FaultTypes', OtherTypes'
      PROVE  TypeInv'
  BY <1>2 DEF TypeInv, TypeOK, Strengthened, LoopTypes, RequestTypes, ChannelTypes,
              FaultTypes, OtherTypes
<1>3. ASSUME UNCHANGED <<listed, loop>> PROVE LoopTypes'
  BY <1>1, <1>3 DEF LoopTypes, Alive
<1>4. ASSUME UNCHANGED handler PROVE RequestTypes'
  BY <1>1, <1>4 DEF RequestTypes
<1>5. ASSUME UNCHANGED msgChan PROVE ChannelTypes'
  BY <1>1, <1>5 DEF ChannelTypes
<1>6. ASSUME UNCHANGED <<rewound, unsaved, crashes>> PROVE FaultTypes'
  BY <1>1, <1>6 DEF FaultTypes
<1>7. ASSUME UNCHANGED <<server, saved, store, up, offered, overlapped,
                         excused>>
      PROVE  OtherTypes'
  BY <1>1, <1>7 DEF OtherTypes
<1>8. CASE \E a \in Accounts : Arrive(a)
  <2>1. PICK a \in Accounts : Arrive(a)
    BY <1>8
  <2>2. UNCHANGED <<saved, store, up, loopVars, msgChan, handler, offered, ghosts,
                    crashes>>
        /\ server' = [server EXCEPT ![a] = @ + 1] /\ server[a] < MaxMessages
    BY <2>1 DEF Arrive
  <2>3. server' \in [Accounts -> 0..MaxMessages]
    BY <1>1, <2>2, PollingAssumption DEF OtherTypes
  <2>4. OtherTypes'
    BY <1>1, <2>2, <2>3 DEF OtherTypes, ghosts
  <2> QED
    BY <1>2, <1>3, <1>4, <1>5, <1>6, <2>2, <2>4 DEF loopVars, ghosts
<1>9. CASE Consume
  <2>1. msgChan # <<>> /\ msgChan' = Tail(msgChan)
        /\ UNCHANGED <<server, saved, store, up, loopVars, handler, offered, ghosts,
                       crashes>>
    BY <1>9 DEF Consume
  <2>2. ChannelTypes'
    <3>1. msgChan \in Seq(Accounts \X Numbers) /\ Len(msgChan) <= ChanCap
      BY <1>1 DEF ChannelTypes
    <3>2. Tail(msgChan) \in Seq(Accounts \X Numbers)
          /\ Len(Tail(msgChan)) = Len(msgChan) - 1 /\ Len(msgChan) \in Nat
      BY <2>1, <3>1, HeadTailProperties, LenProperties
    <3>3. ChanCap \in Nat
      BY PollingAssumption
    <3> QED
      BY <2>1, <3>1, <3>2, <3>3 DEF ChannelTypes
  <2> QED
    BY <1>2, <1>3, <1>4, <1>6, <1>7, <2>1, <2>2 DEF loopVars, ghosts
<1>10. CASE \E h \in Handlers, a \in Accounts :
                QRConfirmed(h, a) \/ SaveWechatAccount(h, a) \/ DisconnectAccount(h, a)
  <2>1. PICK h \in Handlers, a \in Accounts :
                QRConfirmed(h, a) \/ SaveWechatAccount(h, a) \/ DisconnectAccount(h, a)
    BY <1>10
  <2>2. /\ UNCHANGED <<server, store, up, loopVars, msgChan, offered, ghosts, crashes>>
        /\ \E next \in {"add", "addInRequest", "remove"} : Begin(h, a, next)
        /\ saved' \subseteq saved \cup {a}
    BY <2>1 DEF QRConfirmed, SaveWechatAccount, DisconnectAccount
  <2>3. RequestTypes'
    BY <1>1, <2>2, BeginTypes
  <2>4. OtherTypes'
    BY <1>1, <2>2 DEF OtherTypes, ghosts
  <2> QED
    BY <1>2, <1>3, <1>5, <1>6, <2>2, <2>3, <2>4 DEF loopVars, ghosts
<1>11. CASE \E h \in Handlers : Serve(h)
  <2>1. PICK h \in Handlers : HandlerAdds(h) \/ HandlerRemoves(h) \/ HandlerReturns(h)
    BY <1>11 DEF Serve
  <2>2. handler[h] \in Requests /\ Idle \in Requests
    BY <1>1, IdleType DEF RequestTypes
  <2>3. handler[h].at # "idle" => handler[h].account \in Accounts
    BY <1>1, <2>2 DEF RequestTypes, Requests
  <2>4. CASE HandlerAdds(h)
    <3>1. /\ UNCHANGED <<server, saved, up, store, msgChan, offered, rewound,
                         unsaved, crashes>>
          /\ excused' \subseteq excused \cup {handler[h].account}
          /\ handler[h].at \in {"add", "addInRequest"}
          /\ handler' = [handler EXCEPT ![h] = Idle]
             \/ handler' = [handler EXCEPT ![h].at = "return"]
          /\ \E parent \in Handlers \cup {None} : AddAccount(handler[h].account, parent)
      BY <2>4 DEF HandlerAdds, Settle
    <3>2. handler[h].account \in Accounts
      BY <2>3, <3>1
    <3>3. RequestTypes'
      <4>1. CASE handler' = [handler EXCEPT ![h] = Idle]
        BY <1>1, <4>1, IdleType, RequestMoves
      <4>2. CASE handler' = [handler EXCEPT ![h].at = "return"]
        <5> DEFINE r == [handler[h] EXCEPT !.at = "return"]
        <5>1. r \in Requests /\ r.at = "return" /\ r.account = handler[h].account
          BY <2>2 DEF Requests
        <5>2. handler' = [handler EXCEPT ![h] = r]
          BY <1>1, <4>2 DEF RequestTypes
        <5> HIDE DEF r
        <5>3. r.at = "idle" <=> r.account = None
          BY <3>2, <5>1, PollingAssumption
        <5> QED
          BY <1>1, <5>1, <5>2, <5>3, RequestMoves
      <4> QED
        BY <3>1, <4>1, <4>2
    <3>4. LoopTypes' /\ overlapped' \subseteq Accounts
      <4>1. PICK parent \in Handlers \cup {None} : AddAccount(handler[h].account, parent)
        BY <3>1
      <4>2. CASE UNCHANGED <<listed, loop, overlapped>>
        BY <1>1, <1>3, <4>2 DEF OtherTypes
      <4>3. CASE StartLoop(handler[h].account, parent)
        BY <3>2, <4>3, StartTypes
      <4> QED
        BY <4>1, <4>2, <4>3 DEF AddAccount
    <3>5. OtherTypes'
      BY <1>1, <3>1, <3>2, <3>4 DEF OtherTypes
    <3> QED
      BY <1>2, <1>5, <1>6, <3>1, <3>3, <3>4, <3>5
  <2>5. CASE HandlerRemoves(h)
    <3>1. /\ UNCHANGED <<server, saved, up, store, msgChan, offered, overlapped,
                         rewound, unsaved, crashes>>
          /\ excused' \subseteq excused \cup {handler[h].account}
          /\ handler[h].at = "remove"
          /\ handler' = [handler EXCEPT ![h] = Idle]
          /\ RemoveAccount(handler[h].account)
      BY <2>5 DEF HandlerRemoves, Settle
    <3>2. RequestTypes'
      BY <1>1, <3>1, IdleType, RequestMoves
    <3>3. LoopTypes'
      BY <2>3, <3>1, RemoveTypes
    <3>4. OtherTypes'
      BY <1>1, <2>3, <3>1 DEF OtherTypes
    <3> QED
      BY <1>2, <1>5, <1>6, <3>1, <3>2, <3>3, <3>4
  <2>6. CASE HandlerReturns(h)
    <3>1. /\ UNCHANGED <<server, saved, up, store, msgChan, offered, ghosts, crashes>>
          /\ handler' = [handler EXCEPT ![h] = Idle]
      BY <2>6 DEF HandlerReturns
    <3>2. RequestTypes'
      BY <1>1, <3>1, IdleType, RequestMoves
    <3>3. LoopTypes'
      BY <2>6, ReturnTypes
    <3> QED
      BY <1>2, <1>5, <1>6, <1>7, <3>1, <3>2, <3>3 DEF ghosts
  <2> QED
    BY <2>1, <2>4, <2>5, <2>6
<1>12. CASE \E s \in Slots : Poll(s)
  BY <1>12, PollTypes
<1>13. CASE Crash
  <2>1. /\ loop' = [s \in Slots |-> NoLoop] /\ listed' = [a \in Accounts |-> None]
        /\ handler' = [h \in Handlers |-> Idle] /\ msgChan' = <<>>
        /\ rewound' = {} /\ unsaved' = {} /\ overlapped' = {} /\ excused' = {}
        /\ up' = FALSE /\ crashes' = crashes + 1 /\ MoreFaults
        /\ UNCHANGED <<server, saved, store, offered>>
    BY <1>13 DEF Crash
  <2>2. NoLoop \in Loops /\ NoLoop.at = "none" /\ NoLoop.account = None
    BY PollingAssumption DEF NoLoop, Loops
  <2>3. LoopTypes'
    BY <2>1, <2>2 DEF LoopTypes, Alive
  <2>4. RequestTypes'
    BY <2>1, IdleType DEF RequestTypes
  <2>5. ChannelTypes'
    <3>1. <<>> \in Seq(Accounts \X Numbers) /\ Len(<<>>) = 0
      OBVIOUS
    <3> QED
      BY <2>1, <3>1, PollingAssumption DEF ChannelTypes
  <2>6. FaultTypes'
    <3>1. Cardinality(rewound) \in Nat /\ Cardinality(unsaved) \in Nat
      BY <1>1, FS_CardinalityType DEF FaultTypes
    <3>2. crashes + 1 \in 0..MaxFaults
      BY <1>1, <2>1, <3>1, PollingAssumption DEF FaultTypes, MoreFaults
    <3> QED
      BY <2>1, <3>2, FS_EmptySet DEF FaultTypes
  <2>7. OtherTypes'
    BY <1>1, <2>1 DEF OtherTypes
  <2> QED
    BY <1>2, <2>3, <2>4, <2>5, <2>6, <2>7
<1>14. CASE Boot
  <2>1. up' = TRUE /\ excused' \subseteq saved
        /\ UNCHANGED <<server, saved, store, msgChan, handler, offered, overlapped,
                       rewound, unsaved, crashes>>
    BY <1>14 DEF Boot
  <2>2. OtherTypes'
    BY <1>1, <2>1 DEF OtherTypes
  <2> QED
    BY <1>2, <1>4, <1>5, <1>6, <1>14, <2>1, <2>2, BootTypes
<1>15. CASE UNCHANGED vars
  BY <1>2, <1>3, <1>4, <1>5, <1>6, <1>7, <1>15 DEF vars
<1> QED
  BY <1>8, <1>9, <1>10, <1>11, <1>12, <1>13, <1>14, <1>15 DEF Next

LEMMA TypesInvariant == Spec => []TypeInv
BY TypeInit, TypeStep, PTL DEF Spec

\* Types, for every number of accounts, slots, handlers, messages and faults; with
\* them, that msgChan respects its capacity and that an entry of the list names
\* the slot its own loop was started in.
THEOREM TypeCorrect == Spec => []TypeOK
<1>1. TypeInv => TypeOK
  BY DEF TypeInv
<1> QED
  BY <1>1, TypesInvariant, PTL

-----------------------------------------------------------------------------
(* The kinds of steps of the system                                            *)

\* What the cursors and the delivery are about.
Quiet == UNCHANGED <<store, up, offered, rewound, unsaved, crashes>>

\* The loop of slot s becomes, or stays, the same loop at the same place.
SameLoop(s) ==
    /\ loop'[s].at = loop[s].at /\ loop'[s].account = loop[s].account
    /\ loop'[s].buf = loop[s].buf
    /\ loop'[s].next = loop[s].next /\ loop'[s].upto = loop[s].upto
    /\ Alive(s) /\ loop[s].cancelled => loop'[s].cancelled

\* A step of a request that starts no loop, of the server or of the pipeline: an
\* account leaves the list only with its loop cancelled.
KeepsLoops ==
    /\ \A s \in Slots : SameLoop(s)
    /\ \A a \in Accounts :
           \/ listed'[a] = listed[a]
           \/ listed[a] \in Slots /\ (Alive(listed[a]) => loop'[listed[a]].cancelled)
    /\ UNCHANGED overlapped /\ Quiet

\* A request that starts the loop of an account in a free slot.
StartsLoop ==
    \E a \in Accounts, s \in FreeSlots :
        /\ listed[a] = None
        /\ listed' = [listed EXCEPT ![a] = s]
        /\ loop' = [loop EXCEPT ![s] = loop'[s]]
        /\ loop'[s].account = a /\ loop'[s].at = "load" /\ loop'[s].buf = 0
        /\ overlapped' = IF \E t \in Slots : loop[t].account = a
                         THEN overlapped \cup {a} ELSE overlapped
        /\ Quiet

\* main starts the loops, each in a slot of its own.
BootsLoops ==
    /\ \A s \in Slots :
           \/ loop'[s] = NoLoop
           \/ /\ loop'[s].account \in Accounts /\ listed'[loop'[s].account] = s
              /\ loop'[s].at = "load" /\ loop'[s].buf = 0
    /\ UNCHANGED <<store, offered, overlapped, rewound, unsaved, crashes>>
    /\ ~up

CrashesLoops ==
    /\ loop' = [s \in Slots |-> NoLoop]
    /\ UNCHANGED <<store, offered>>
    /\ crashes' = crashes + 1 /\ overlapped' = {}

LEMMA NewLoopStarts ==
    ASSUME NEW a \in Accounts, NEW parent \in Handlers \cup {None}
    PROVE  NewLoop(a, parent).buf = 0
<1>1. NoLoop \in Loops /\ NoLoop.buf = 0
  BY PollingAssumption DEF NoLoop, Loops
<1>2. \A r \in Loops :
          [r EXCEPT !.at = "load", !.account = a, !.parent = parent].buf = r.buf
  BY DEF Loops
<1> QED
  BY <1>1, <1>2 DEF NewLoop

LEMMA AddKinds ==
    ASSUME TypeInv, NEW h \in Handlers, HandlerAdds(h)
    PROVE  StartsLoop \/ KeepsLoops
<1>1. LoopTypes /\ RequestTypes
  BY TypeParts
<1> DEFINE a == handler[h].account
<1>2. a \in Accounts
  BY <1>1 DEF HandlerAdds, RequestTypes, Requests
<1>3. Quiet
  BY DEF HandlerAdds, Quiet
<1>4. PICK parent \in Handlers \cup {None} : AddAccount(a, parent)
  BY DEF HandlerAdds
<1>5. CASE UNCHANGED <<listed, loop, overlapped>>
  BY <1>3, <1>5 DEF KeepsLoops, SameLoop
<1>6. CASE listed[a] = None /\ StartLoop(a, parent)
  <2>1. PICK s \in FreeSlots : /\ loop' = [loop EXCEPT ![s] = NewLoop(a, parent)]
                               /\ listed' = [listed EXCEPT ![a] = s]
    BY <1>6 DEF StartLoop
  <2>2. loop'[s] = NewLoop(a, parent)
    BY <1>1, <2>1 DEF LoopTypes, FreeSlots
  <2>3. loop'[s].account = a /\ loop'[s].at = "load" /\ loop'[s].buf = 0
    <3> HIDE DEF a
    <3>1. NewLoop(a, parent).account = a /\ NewLoop(a, parent).at = "load"
      BY <1>2, <1>4, NewLoopType
    <3>2. NewLoop(a, parent).buf = 0
      BY <1>2, <1>4, NewLoopStarts
    <3> QED
      BY <2>2, <3>1, <3>2
  <2> QED
    BY <1>2, <1>3, <1>6, <2>1, <2>2, <2>3 DEF StartsLoop, StartLoop
<1> QED
  BY <1>4, <1>5, <1>6 DEF AddAccount

LEMMA RemoveKinds ==
    ASSUME TypeInv, NEW h \in Handlers, HandlerRemoves(h)
    PROVE  KeepsLoops
<1>1. LoopTypes /\ RequestTypes
  BY TypeParts
<1> DEFINE a == handler[h].account
           s == listed[a]
<1>2. a \in Accounts
  BY <1>1 DEF HandlerRemoves, RequestTypes, Requests
<1>3. Quiet /\ UNCHANGED overlapped /\ RemoveAccount(a)
  BY DEF HandlerRemoves, ghosts, Quiet
<1>4. CASE s = None
  BY <1>3, <1>4 DEF KeepsLoops, SameLoop, RemoveAccount
<1>5. CASE s # None
  <2>1. s \in Slots /\ loop[s] \in Loops /\ Alive(s) \in BOOLEAN
    BY <1>1, <1>2, <1>5 DEF LoopTypes, Alive
  <2> DEFINE n == Cancelled(loop[s])
  <2>2. loop' = [loop EXCEPT ![s] = n] /\ listed' = [listed EXCEPT ![a] = None]
    BY <1>1, <1>3, <1>5, <2>1 DEF RemoveAccount, LoopTypes
  <2>3. /\ n.at = loop[s].at /\ n.account = loop[s].account /\ n.buf = loop[s].buf
        /\ n.next = loop[s].next /\ n.upto = loop[s].upto /\ n.cancelled = Alive(s)
    BY <2>1, CancelKeepsLoop DEF Alive
  <2> HIDE DEF n
  <2>4. \A t \in Slots : SameLoop(t)
    BY <1>1, <2>1, <2>2, <2>3 DEF SameLoop, LoopTypes
  <2>5. \A b \in Accounts :
           \/ listed'[b] = listed[b]
           \/ listed[b] \in Slots /\ (Alive(listed[b]) => loop'[listed[b]].cancelled)
    BY <1>1, <2>1, <2>2, <2>3 DEF LoopTypes
  <2> QED
    BY <1>3, <2>4, <2>5 DEF KeepsLoops
<1> QED
  BY <1>4, <1>5

LEMMA ReturnKinds ==
    ASSUME TypeInv, NEW h \in Handlers, HandlerReturns(h)
    PROVE  KeepsLoops
<1>1. LoopTypes
  BY TypeParts
<1>2. Quiet /\ UNCHANGED <<listed, overlapped>>
  BY DEF HandlerReturns, ghosts, Quiet
<1>3. ASSUME NEW s \in Slots PROVE SameLoop(s)
  <2>1. loop[s] \in Loops
    BY <1>1 DEF LoopTypes
  <2>2. loop'[s] \in {loop[s], Cancelled(loop[s])}
    BY DEF HandlerReturns
  <2> QED
    BY <2>1, <2>2, CancelKeepsLoop DEF SameLoop, Alive
<1> QED
  BY <1>2, <1>3 DEF KeepsLoops

LEMMA BootKinds == ASSUME TypeInv, Boot PROVE BootsLoops
<1>0. PICK rows \in {saved, {}} : \E place \in [rows -> Slots] :
          /\ listed' = [a \in Accounts |-> IF a \in rows THEN place[a] ELSE None]
          /\ loop' = [s \in Slots |->
                         IF \E a \in rows : place[a] = s
                         THEN NewLoop(CHOOSE a \in rows : place[a] = s, None)
                         ELSE NoLoop]
  BY DEF Boot
<1>1. PICK place \in [rows -> Slots] :
          /\ listed' = [a \in Accounts |-> IF a \in rows THEN place[a] ELSE None]
          /\ loop' = [s \in Slots |->
                         IF \E a \in rows : place[a] = s
                         THEN NewLoop(CHOOSE a \in rows : place[a] = s, None)
                         ELSE NoLoop]
  BY <1>0
<1>2. rows \subseteq Accounts
  BY TypeParts DEF OtherTypes
<1>3. \A a \in Accounts : /\ NewLoop(a, None).at = "load"
                          /\ NewLoop(a, None).account = a
                          /\ NewLoop(a, None).buf = 0
  <2> None \in Handlers \cup {None}
    OBVIOUS
  <2> QED
    BY NewLoopType, NewLoopStarts
<1>4. \A s \in Slots :
          \/ \E a \in rows : place[a] = s /\ loop'[s] = NewLoop(a, None)
          \/ loop'[s] = NoLoop
  BY <1>1
<1>5. \A s \in Slots :
           \/ loop'[s] = NoLoop
           \/ /\ loop'[s].account \in Accounts /\ listed'[loop'[s].account] = s
              /\ loop'[s].at = "load" /\ loop'[s].buf = 0
  BY <1>1, <1>2, <1>3, <1>4
<1> QED
  BY <1>5 DEF BootsLoops, Boot, ghosts

\* Every step is of one of these kinds.
LEMMA NextKinds ==
    ASSUME TypeInv, [Next]_vars
    PROVE  \/ \E s \in Slots : Poll(s)
           \/ StartsLoop \/ KeepsLoops \/ CrashesLoops \/ BootsLoops
<1>1. ASSUME UNCHANGED <<listed, loop, overlapped>>, Quiet PROVE KeepsLoops
  BY <1>1 DEF KeepsLoops, SameLoop
<1>2. CASE \E a \in Accounts : Arrive(a)
  BY <1>1, <1>2 DEF Arrive, loopVars, ghosts, Quiet
<1>3. CASE Consume
  BY <1>1, <1>3 DEF Consume, loopVars, ghosts, Quiet
<1>4. CASE \E h \in Handlers, a \in Accounts :
               QRConfirmed(h, a) \/ SaveWechatAccount(h, a) \/ DisconnectAccount(h, a)
  BY <1>1, <1>4 DEF QRConfirmed, SaveWechatAccount, DisconnectAccount, loopVars, ghosts, Quiet
<1>5. CASE \E h \in Handlers : Serve(h)
  BY <1>5, AddKinds, RemoveKinds, ReturnKinds DEF Serve
<1>6. CASE Crash
  BY <1>6 DEF Crash, CrashesLoops
<1>7. CASE Boot
  BY <1>7, BootKinds
<1>8. CASE UNCHANGED vars
  BY <1>1, <1>8 DEF vars, Quiet
<1> QED
  BY <1>2, <1>3, <1>4, <1>5, <1>6, <1>7, <1>8 DEF Next

-----------------------------------------------------------------------------
(* The cursor is never ahead of the delivery                                   *)

\* Messages 1..n of a are among those that sent says were offered to msgChan.
Covered(sent, a, n) == 1..n \subseteq sent[a]

\* Not only the cursor in the database but the one each loop holds, and while a
\* loop delivers, what is before its next message.
CursorInv ==
    /\ CursorCovered
    /\ \A s \in Slots : Alive(s) =>
           /\ Covered(offered, loop[s].account, loop[s].buf)
           /\ loop[s].at = "deliver" => Covered(offered, loop[s].account, loop[s].next - 1)

LEMMA CursorInit == Init => CursorInv
BY DEF Init, CursorInv, CursorCovered, Alive, NoLoop

LEMMA CursorPoll ==
    ASSUME TypeInv, CursorInv, NEW s \in Slots, Poll(s)
    PROVE  CursorInv'
<1> DEFINE r == loop[s]
           n == loop'[s]
           a == r.account
<1>1. /\ r \in Loops /\ r.at # "none" /\ a \in Accounts /\ n \in Loops
      /\ loop' = [loop EXCEPT ![s] = n]
      /\ n = NoLoop \/ n.account = a
      /\ Steps(r, n)
  BY PollKinds
<1>2. LoopTypes /\ OtherTypes
  BY TypeParts
<1>3. /\ r.buf \in Nat /\ r.upto \in Nat /\ r.next \in Nat
      /\ r.at = "deliver" => r.buf <= r.upto
      /\ store[a] \in Nat
  BY <1>1, <1>2, PollingAssumption DEF Loops, LoopTypes, OtherTypes
<1>4. /\ Covered(offered, a, r.buf) /\ Covered(offered, a, store[a])
      /\ r.at = "deliver" => Covered(offered, a, r.next - 1)
  BY <1>1 DEF CursorInv, CursorCovered, Covered, Alive
<1> HIDE DEF r, n, a
<1>5. \A b \in Accounts : offered[b] \subseteq offered'[b]
  BY <1>1, <1>2 DEF Steps, Loads, Moves, Stops, Fetches, Delivers, Advances, NoNews,
                    OtherTypes
<1>6. ASSUME NEW b \in Accounts, NEW k, Covered(offered, b, k) PROVE Covered(offered', b, k)
  BY <1>5, <1>6 DEF Covered
<1>7. CursorCovered'
  <2>1. CASE Saves(a, r.buf)
    BY <1>1, <1>2, <1>4, <1>5, <2>1 DEF Saves, CursorInv, CursorCovered, Covered, OtherTypes
  <2>2. CASE Keeps
    BY <1>5, <2>2 DEF Keeps, CursorInv, CursorCovered
  <2>3. CASE Advances(r, n)
    <3>1. Covered(offered, a, n.buf)
      BY <1>3, <1>4, <2>3 DEF Advances, Covered
    <3>2. Saves(a, n.buf)
      BY <2>3 DEF Advances, a
    <3> QED
      BY <1>1, <1>2, <1>5, <3>1, <3>2
         DEF Saves, CursorInv, CursorCovered, Covered, OtherTypes
  <2> QED
    BY <1>1, <2>1, <2>2, <2>3 DEF Steps, Loads, Moves, Stops, Fetches, Delivers, a
<1>8. n.at # "none" => /\ Covered(offered', a, n.buf)
                       /\ n.at = "deliver" => Covered(offered', a, n.next - 1)
  <2>1. CASE Loads(r, n)
    <3>1. Covered(offered, a, n.buf)
      BY <1>3, <1>4, <2>1 DEF Loads, Covered, a
    <3> QED
      BY <1>1, <1>6, <2>1, <3>1 DEF Loads
  <2>2. CASE Moves(r, n) \/ Stops(r, n)
    BY <1>1, <1>4, <1>6, <2>2 DEF Moves, Stops, Resting, NoLoop
  <2>3. CASE Fetches(r, n)
    BY <1>1, <1>3, <1>4, <1>6, <2>3 DEF Fetches
  <2>4. CASE Delivers(r, n)
    <3>1. /\ r.next \in offered'[a]
          /\ Covered(offered', a, r.next - 1) /\ Covered(offered', a, r.buf)
      BY <1>1, <1>2, <1>4, <1>6, <2>4 DEF Delivers, OtherTypes, a
    <3>2. Covered(offered', a, r.next)
      BY <1>3, <3>1 DEF Covered
    <3> QED
      BY <1>3, <2>4, <3>1, <3>2 DEF Delivers
  <2>5. CASE Advances(r, n)
    <3>1. Covered(offered, a, n.buf)
      BY <1>3, <1>4, <2>5 DEF Advances, Covered
    <3> QED
      BY <1>1, <1>6, <2>5, <3>1 DEF Advances
  <2> QED
    BY <1>1, <2>1, <2>2, <2>3, <2>4, <2>5 DEF Steps
<1>9. ASSUME NEW t \in Slots, Alive(t)'
      PROVE  /\ Covered(offered', loop'[t].account, loop'[t].buf)
             /\ loop'[t].at = "deliver" =>
                    Covered(offered', loop'[t].account, loop'[t].next - 1)
  <2>1. CASE t = s
    BY <1>1, <1>2, <1>8, <1>9, <2>1 DEF LoopTypes, Alive, n, NoLoop, Covered
  <2>2. CASE t # s
    <3>1. loop'[t] = loop[t] /\ Alive(t)
      BY <1>1, <1>2, <1>9, <2>2 DEF LoopTypes, Alive
    <3>2. loop[t].account \in Accounts
      BY <1>2, <3>1 DEF LoopTypes, Loops
    <3>3. Covered(offered, loop[t].account, loop[t].buf)
          /\ (loop[t].at = "deliver" => Covered(offered, loop[t].account, loop[t].next - 1))
      BY <3>1 DEF CursorInv
    <3> QED
      BY <1>5, <3>1, <3>2, <3>3 DEF Covered
  <2> QED
    BY <2>1, <2>2
<1> QED
  BY <1>7, <1>9 DEF CursorInv

LEMMA CursorStep == TypeInv /\ CursorInv /\ [Next]_vars => CursorInv'
<1> SUFFICES ASSUME TypeInv, CursorInv, [Next]_vars PROVE CursorInv'
  OBVIOUS
<1>1. LoopTypes
  BY TypeParts
<1>2. CASE \E s \in Slots : Poll(s)
  BY <1>2, CursorPoll
<1>3. CASE StartsLoop
  <2>1. UNCHANGED <<store, offered>>
    BY <1>3 DEF StartsLoop, Quiet
  <2>2. PICK s \in Slots : loop' = [loop EXCEPT ![s] = loop'[s]]
                           /\ loop'[s].at = "load" /\ loop'[s].buf = 0
    BY <1>3 DEF StartsLoop, FreeSlots
  <2> QED
    BY <1>1, <2>1, <2>2 DEF CursorInv, CursorCovered, Covered, Alive, LoopTypes
<1>4. CASE KeepsLoops
  BY <1>4 DEF KeepsLoops, SameLoop, Quiet, CursorInv, CursorCovered, Covered, Alive
<1>5. CASE CrashesLoops \/ BootsLoops
  <2>1. UNCHANGED <<store, offered>>
    BY <1>5 DEF CrashesLoops, BootsLoops
  <2>3. \A s \in Slots : \/ loop'[s] = NoLoop
                         \/ loop'[s].at = "load" /\ loop'[s].buf = 0
    <3>1. CASE CrashesLoops
      BY <3>1 DEF CrashesLoops
    <3>2. CASE BootsLoops
      BY <3>2 DEF BootsLoops
    <3> QED
      BY <1>5, <3>1, <3>2
  <2>2. NoLoop.at = "none"
    BY DEF NoLoop
  <2> QED
    BY <2>1, <2>2, <2>3 DEF CursorInv, CursorCovered, Covered, Alive
<1> QED
  BY <1>2, <1>3, <1>4, <1>5, NextKinds

\* The cursor in the database never says more than what entered msgChan or was
\* dropped in front of it: no crash, failed save or second loop skips a message.
THEOREM NothingSkipped == Spec => []CursorCovered
<1>1. CursorInv => CursorCovered
  BY DEF CursorInv
<1> QED
  BY <1>1, TypesInvariant, CursorInit, CursorStep, PTL DEF Spec

-----------------------------------------------------------------------------
(* One live loop per account                                                   *)

\* A loop that is not cancelled is the one the list names.
PollerInv ==
    \A s \in Slots : Alive(s) /\ ~loop[s].cancelled => listed[loop[s].account] = s

LEMMA PollerInit == Init => PollerInv
BY DEF Init, PollerInv, Alive, NoLoop

LEMMA PollerStep == TypeInv /\ PollerInv /\ [Next]_vars => PollerInv'
<1> SUFFICES ASSUME TypeInv, PollerInv, [Next]_vars PROVE PollerInv'
  OBVIOUS
<1>1. LoopTypes
  BY TypeParts
<1>2. NoLoop.at = "none"
  BY DEF NoLoop
<1>3. \A s \in Slots : Alive(s) => loop[s].account \in Accounts
  BY <1>1 DEF LoopTypes, Loops
<1>4. CASE \E s \in Slots : Poll(s)
  <2>1. PICK s \in Slots : Poll(s)
    BY <1>4
  <2>2. /\ UNCHANGED listed
        /\ loop' = [loop EXCEPT ![s] = loop'[s]] /\ loop[s].at # "none"
        /\ \/ loop'[s] = NoLoop
           \/ /\ loop'[s].account = loop[s].account
              /\ loop'[s].cancelled = loop[s].cancelled
    BY <2>1, PollKinds
  <2> QED
    BY <1>1, <1>2, <2>2 DEF PollerInv, Alive, LoopTypes
<1>5. CASE StartsLoop
  <2>1. PICK a \in Accounts, s \in FreeSlots :
            /\ listed[a] = None /\ listed' = [listed EXCEPT ![a] = s]
            /\ loop' = [loop EXCEPT ![s] = loop'[s]] /\ loop'[s].account = a
    BY <1>5 DEF StartsLoop
  <2>2. s \in Slots /\ None \notin Slots
    BY PollingAssumption DEF FreeSlots
  <2>3. ASSUME NEW t \in Slots, Alive(t)', ~loop'[t].cancelled
        PROVE  listed'[loop'[t].account] = t
    <3>1. CASE t = s
      BY <1>1, <2>1, <3>1 DEF LoopTypes
    <3>2. CASE t # s
      <4>1. loop'[t] = loop[t]
        BY <1>1, <2>1, <3>2 DEF LoopTypes
      <4>2. listed[loop[t].account] = t /\ loop[t].account \in Accounts
        BY <1>3, <2>3, <4>1 DEF PollerInv, Alive
      <4> QED
        BY <1>1, <2>1, <2>2, <4>1, <4>2 DEF LoopTypes
    <3> QED
      BY <3>1, <3>2
  <2> QED
    BY <2>3 DEF PollerInv
<1>6. CASE KeepsLoops
  <2>1. ASSUME NEW t \in Slots, Alive(t)', ~loop'[t].cancelled
        PROVE  listed'[loop'[t].account] = t
    <3>1. loop'[t].account = loop[t].account /\ Alive(t) /\ ~loop[t].cancelled
      BY <1>6, <2>1 DEF KeepsLoops, SameLoop, Alive
    <3>2. listed[loop[t].account] = t /\ loop[t].account \in Accounts
      BY <1>3, <3>1 DEF PollerInv
    <3> QED
      BY <1>6, <2>1, <3>1, <3>2 DEF KeepsLoops
  <2> QED
    BY <2>1 DEF PollerInv
<1>7. CASE CrashesLoops
  BY <1>2, <1>7 DEF CrashesLoops, PollerInv, Alive
<1>8. CASE BootsLoops
  BY <1>2, <1>8 DEF BootsLoops, PollerInv, Alive
<1> QED
  BY <1>4, <1>5, <1>6, <1>7, <1>8, NextKinds

\* However adds, removes, requests that end and restarts interleave, at most one
\* loop of an account goes on polling: it is the one the Connector lists.
THEOREM OnePoller == Spec => []OneLivePoller
<1>1. PollerInv => OneLivePoller
  BY DEF PollerInv, OneLivePoller
<1> QED
  BY <1>1, TypesInvariant, PollerInit, PollerStep, PTL DEF Spec

-----------------------------------------------------------------------------
(* The cursor in the database does not go back                                 *)

Only(a) == \A s, t \in Slots : loop[s].account = a /\ loop[t].account = a => s = t

\* Without two loops at once and a failed read, the loop of an account holds a
\* cursor at or after the one in the database.
RegressInv ==
    \A a \in Accounts \ (overlapped \cup rewound) :
        /\ Only(a)
        /\ \A s \in Slots : loop[s].account = a /\ loop[s].at # "load" =>
               store[a] <= loop[s].buf

LEMMA RegressInit == Init => RegressInv
BY PollingAssumption DEF Init, RegressInv, Only, NoLoop

\* What a loop saves is at or after the cursor in the database.
LEMMA SavesForward ==
    ASSUME TypeInv, RegressInv, NEW s \in Slots, Poll(s),
           loop[s].account \notin overlapped \cup rewound'
    PROVE  /\ store[loop[s].account] <= store'[loop[s].account]
           /\ loop'[s] # NoLoop => store'[loop[s].account] <= loop'[s].buf
<1> DEFINE r == loop[s]
           n == loop'[s]
           a == r.account
<1>1. /\ r \in Loops /\ r.at # "none" /\ a \in Accounts /\ n \in Loops
      /\ Steps(r, n)
  BY PollKinds
<1>2. LoopTypes /\ OtherTypes
  BY TypeParts
<1>3. /\ r.buf \in Nat /\ r.upto \in Nat /\ store[a] \in Nat
      /\ r.at = "deliver" => r.buf <= r.upto
  BY <1>1, <1>2, PollingAssumption DEF Loops, LoopTypes, OtherTypes
<1>4. rewound \subseteq rewound'
  BY <1>1 DEF Steps, Loads, Moves, Stops, Fetches, Delivers, Advances
<1>5. r.at # "load" => store[a] <= r.buf
  BY <1>1, <1>4 DEF RegressInv
<1>6. ASSUME NEW k \in Nat, Saves(a, k) PROVE store'[a] = k \/ store'[a] = store[a]
  BY <1>1, <1>2, <1>6 DEF Saves, OtherTypes
<1> HIDE DEF r, n
<1>7. CASE Loads(r, n)
  BY <1>3, <1>7 DEF Loads, Keeps, r, n
<1>8. CASE Moves(r, n) \/ Stops(r, n)
  <2>1. store'[a] = r.buf \/ store'[a] = store[a]
    BY <1>3, <1>6, <1>8 DEF Moves, Stops, Keeps
  <2>2. n = NoLoop \/ n.buf = r.buf
    BY <1>8 DEF Moves, Stops
  <2>3. store[a] <= r.buf
    BY <1>5, <1>8 DEF Moves, Stops, Resting
  <2> QED
    BY <1>3, <2>1, <2>2, <2>3 DEF r, n
<1>9. CASE Fetches(r, n) \/ Delivers(r, n)
  BY <1>3, <1>5, <1>9 DEF Fetches, Delivers, Keeps, r, n
<1>10. CASE Advances(r, n)
  <2>1. n.buf = r.upto /\ store[a] <= r.buf /\ r.buf <= r.upto
    BY <1>3, <1>5, <1>10 DEF Advances, r
  <2>2. store'[a] = r.upto \/ store'[a] = store[a]
    BY <1>3, <1>6, <1>10, <2>1 DEF Advances
  <2> QED
    BY <1>3, <2>1, <2>2 DEF r, n
<1> QED
  BY <1>1, <1>7, <1>8, <1>9, <1>10 DEF Steps, n

\* A poll step changes the cursor of its own account only, and that only by a save.
LEMMA PollsOwnCursor ==
    ASSUME TypeInv, NEW s \in Slots, Poll(s), NEW b \in Accounts,
           b # loop[s].account
    PROVE  store'[b] = store[b] /\ offered'[b] = offered[b]
<1>1. Steps(loop[s], loop'[s])
  BY PollKinds
<1>2. store \in [Accounts -> 0..MaxMessages] /\ offered \in [Accounts -> SUBSET Numbers]
  BY TypeParts DEF OtherTypes
<1>3. store'[b] = store[b]
  BY <1>1, <1>2 DEF Steps, Loads, Moves, Stops, Fetches, Delivers, Advances, Saves, Keeps
<1>4. offered'[b] = offered[b]
  BY <1>1, <1>2 DEF Steps, Loads, Moves, Stops, Fetches, Delivers, Advances, NoNews
<1> QED
  BY <1>3, <1>4

LEMMA RegressStep == TypeInv /\ RegressInv /\ [Next]_vars => RegressInv'
<1> SUFFICES ASSUME TypeInv, RegressInv, [Next]_vars PROVE RegressInv'
  OBVIOUS
<1>1. LoopTypes
  BY TypeParts
<1>2. NoLoop.account = None /\ None \notin Accounts
  BY PollingAssumption DEF NoLoop
<1>3. CASE \E s \in Slots : Poll(s)
  <2>1. PICK s \in Slots : Poll(s)
    BY <1>3
  <2>2. /\ UNCHANGED overlapped
        /\ loop[s].account \in Accounts
        /\ loop' = [loop EXCEPT ![s] = loop'[s]]
        /\ loop'[s] = NoLoop \/ loop'[s].account = loop[s].account
        /\ Steps(loop[s], loop'[s])
    BY <2>1, PollKinds
  <2>3. rewound \subseteq rewound'
    BY <2>2 DEF Steps, Loads, Moves, Stops, Fetches, Delivers, Advances
  <2>4. ASSUME NEW a \in Accounts \ (overlapped' \cup rewound')
        PROVE  /\ Only(a)'
               /\ \A t \in Slots : loop'[t].account = a /\ loop'[t].at # "load" =>
                      store'[a] <= loop'[t].buf
    <3>1. a \notin overlapped \cup rewound'
      BY <2>2, <2>4
    <3>2. /\ Only(a)
          /\ \A t \in Slots : loop[t].account = a /\ loop[t].at # "load" =>
                 store[a] <= loop[t].buf
      BY <2>2, <2>3, <2>4 DEF RegressInv
    <3>3. \A t \in Slots : t # s => loop'[t] = loop[t]
      BY <1>1, <2>2 DEF LoopTypes
    <3>4. Only(a)'
      BY <1>2, <2>2, <3>2, <3>3 DEF Only
    <3>5. CASE loop[s].account = a
      <4>1. loop'[s] # NoLoop => store'[a] <= loop'[s].buf
        BY <2>1, <3>1, <3>5, SavesForward
      <4>2. \A t \in Slots : loop'[t].account = a => t = s /\ loop'[s] # NoLoop
        BY <1>2, <3>2, <3>3, <3>5 DEF Only
      <4> QED
        BY <3>4, <4>1, <4>2
    <3>6. CASE loop[s].account # a
      <4>1. store'[a] = store[a]
        BY <2>1, <3>6, PollsOwnCursor
      <4>2. \A t \in Slots : loop'[t].account = a => t # s
        BY <1>2, <2>2, <3>6
      <4> QED
        BY <3>2, <3>3, <3>4, <4>1, <4>2
    <3> QED
      BY <3>5, <3>6
  <2> QED
    BY <2>4 DEF RegressInv
<1>4. CASE StartsLoop
  <2>1. PICK a \in Accounts, s \in Slots :
            /\ loop' = [loop EXCEPT ![s] = loop'[s]]
            /\ loop'[s].account = a /\ loop'[s].at = "load"
            /\ overlapped' = IF \E t \in Slots : loop[t].account = a
                             THEN overlapped \cup {a} ELSE overlapped
    BY <1>4 DEF StartsLoop, FreeSlots
  <2>2. UNCHANGED <<store, rewound>>
    BY <1>4 DEF StartsLoop, Quiet
  <2>3. \A t \in Slots : t # s => loop'[t] = loop[t]
    BY <1>1, <2>1 DEF LoopTypes
  <2>4. ASSUME NEW b \in Accounts \ (overlapped' \cup rewound')
        PROVE  /\ Only(b)'
               /\ \A t \in Slots : loop'[t].account = b /\ loop'[t].at # "load" =>
                      store'[b] <= loop'[t].buf
    <3>1. /\ Only(b)
          /\ \A t \in Slots : loop[t].account = b /\ loop[t].at # "load" =>
                 store[b] <= loop[t].buf
      BY <2>1, <2>2, <2>4 DEF RegressInv
    <3>2. b = a => \A t \in Slots : loop[t].account # b
      BY <2>1, <2>4
    <3>3. Only(b)'
      BY <2>1, <2>3, <3>1, <3>2 DEF Only
    <3> QED
      BY <2>1, <2>2, <2>3, <3>1, <3>3
  <2> QED
    BY <2>4 DEF RegressInv
<1>5. CASE KeepsLoops
  BY <1>5 DEF KeepsLoops, SameLoop, Quiet, RegressInv, Only
<1>6. CASE CrashesLoops
  BY <1>2, <1>6 DEF CrashesLoops, RegressInv, Only
<1>7. CASE BootsLoops
  BY <1>2, <1>7 DEF BootsLoops, RegressInv, Only
<1> QED
  BY <1>3, <1>4, <1>5, <1>6, <1>7, NextKinds

LEMMA RegressInvariant == Spec => []RegressInv
BY TypesInvariant, RegressInit, RegressStep, PTL DEF Spec

LEMMA ForwardStep ==
    TypeInv /\ RegressInv /\ [Next]_vars =>
        [\A a \in Accounts : store'[a] < store[a] => a \in overlapped \cup rewound']_vars
<1> SUFFICES ASSUME TypeInv, RegressInv, [Next]_vars,
                    NEW a \in Accounts, a \notin overlapped \cup rewound'
             PROVE  ~(store'[a] < store[a])
  OBVIOUS
<1>1. OtherTypes
  BY TypeParts
<1>2. store[a] \in Nat
  BY <1>1, PollingAssumption DEF OtherTypes
<1>3. CASE \E s \in Slots : Poll(s)
  <2>1. PICK s \in Slots : Poll(s)
    BY <1>3
  <2>4. CASE loop[s].account = a
    <3>1. store[a] <= store'[a]
      BY <2>1, <2>4, SavesForward
    <3>2. store'[a] \in Nat
      BY TypeStep, PollingAssumption DEF TypeInv, TypeOK
    <3> QED
      BY <1>2, <3>1, <3>2
  <2>5. CASE loop[s].account # a
    <3>1. store'[a] = store[a]
      BY <2>1, <2>5, PollsOwnCursor
    <3> QED
      BY <1>2, <3>1
  <2> QED
    BY <2>4, <2>5
<1>4. CASE ~\E s \in Slots : Poll(s)
  <2>1. UNCHANGED store
    BY <1>4, NextKinds DEF StartsLoop, KeepsLoops, CrashesLoops, BootsLoops, Quiet
  <2> QED
    BY <1>2, <2>1
<1> QED
  BY <1>3, <1>4

\* The cursor in the database goes back only after two loops of the account ran
\* side by side, after a read of it failed, or by an answer that has none.
THEOREM CursorGoesForward == Spec => CursorRegressHasACause
<1>1. TypeInv /\ RegressInv /\ [Next]_vars =>
          [\A a \in Accounts : store'[a] < store[a] => a \in overlapped \cup rewound']_vars
  BY ForwardStep
<1> QED
  BY <1>1, TypesInvariant, RegressInvariant, PTL DEF Spec, CursorRegressHasACause

-----------------------------------------------------------------------------
(* Messages are offered once                                                   *)

\* How far the loop of a slot has come: what it offered last.
Reached(s) ==
    CASE loop[s].at = "load" -> store[loop[s].account]
      [] loop[s].at = "deliver" -> loop[s].next - 1
      [] OTHER -> loop[s].buf

Replayable(a) == a \in overlapped \cup rewound \cup unsaved \/ crashes > 0

\* The messages of a were offered one after the other: as far as its loop has come,
\* or without one, as far as the cursor in the database says.
OfferedInTurn(a) ==
    /\ Only(a)
    /\ \A s \in Slots : loop[s].account = a => offered[a] = 1..Reached(s)
    /\ (\A s \in Slots : loop[s].account # a) => offered[a] = 1..store[a]

ReplayInv ==
    /\ \A a \in Accounts : Replayable(a) \/ OfferedInTurn(a)
    /\ ~up => crashes > 0

LEMMA ReplayInit == Init => ReplayInv
<1> SUFFICES ASSUME Init PROVE ReplayInv
  OBVIOUS
<1>1. \A s \in Slots : loop[s].account = None
  BY DEF Init, NoLoop
<1>2. up /\ \A a \in Accounts : offered[a] = {} /\ store[a] = 0
  BY DEF Init
<1>3. 1..0 = {}
  OBVIOUS
<1>4. \A a \in Accounts : OfferedInTurn(a)
  BY <1>1, <1>2, <1>3, PollingAssumption DEF OfferedInTurn, Only
<1> QED
  BY <1>2, <1>4 DEF ReplayInv

\* A poll step of an account that stays free of excuses goes on in turn.
LEMMA PollInTurn ==
    ASSUME TypeInv, NEW s \in Slots, Poll(s), NEW a, a = loop[s].account,
           OfferedInTurn(a), ~Replayable(a)'
    PROVE  OfferedInTurn(a)'
<1> DEFINE r == loop[s]
           n == loop'[s]
           reached == CASE n.at = "load" -> store'[n.account]
                        [] n.at = "deliver" -> n.next - 1
                        [] OTHER -> n.buf
<1>1. /\ r \in Loops /\ r.at # "none" /\ a \in Accounts /\ n \in Loops
      /\ loop' = [loop EXCEPT ![s] = n]
      /\ n = NoLoop \/ n.account = a
      /\ Steps(r, n)
  BY PollKinds
<1>2. LoopTypes /\ OtherTypes
  BY TypeParts
<1>3. /\ r.buf \in Nat /\ r.upto \in Nat /\ r.next \in Nat /\ store[a] \in Nat
      /\ r.at = "deliver" => r.next \in 1..r.upto + 1
  BY <1>1, <1>2, PollingAssumption DEF Loops, LoopTypes, OtherTypes
<1>4. /\ r.at = "load" => offered[a] = 1..store[a]
      /\ r.at = "deliver" => offered[a] = 1..r.next - 1
      /\ r.at \notin {"load", "deliver"} => offered[a] = 1..r.buf
  BY DEF OfferedInTurn, Reached
<1>5. \A t \in Slots : t # s => loop'[t] = loop[t] /\ loop[t].account # a
  BY <1>1, <1>2 DEF LoopTypes, OfferedInTurn, Only
<1>6. NoLoop.account = None /\ None # a
  BY <1>1, PollingAssumption DEF NoLoop
<1>7. Only(a)'
  BY <1>5 DEF Only
<1>8. a \notin rewound' /\ a \notin unsaved'
  BY DEF Replayable
<1>9. ASSUME NEW k, Saves(a, k) PROVE store'[a] = k
  BY <1>1, <1>2, <1>8, <1>9 DEF Saves, OtherTypes
<1> HIDE DEF r, n
<1>10. /\ n # NoLoop => offered'[a] = 1..reached
       /\ n = NoLoop => offered'[a] = 1..store'[a]
  <2>1. CASE Loads(r, n)
    <3>1. n.buf = store[a] /\ n.at = "top"
      BY <1>8, <2>1 DEF Loads, r
    <3> QED
      BY <1>4, <1>6, <2>1, <3>1 DEF Loads, NoNews, NoLoop
  <2>2. CASE Moves(r, n)
    BY <1>4, <2>2 DEF Moves, NoNews, Resting, NoLoop
  <2>3. CASE Stops(r, n)
    <3>1. store'[a] = r.buf
      BY <1>9, <2>3 DEF Stops, r
    <3> QED
      BY <1>4, <2>3, <3>1 DEF Stops, NoNews, Resting
  <2>4. CASE Fetches(r, n)
    BY <1>3, <1>4, <2>4 DEF Fetches, NoNews, NoLoop
  <2>5. CASE Delivers(r, n)
    <3>1. r.next \notin offered[a]
      BY <1>3, <1>4, <2>5 DEF Delivers
    <3>2. offered'[a] = offered[a] \cup {r.next}
      BY <1>1, <1>2, <1>4, <2>5, <3>1 DEF Delivers, OtherTypes, r
    <3>3. offered'[a] = 1..r.next
      <4>1. \A k \in Nat \ {0} : (1..k - 1) \cup {k} = 1..k
        OBVIOUS
      <4>2. r.next \in Nat \ {0} /\ offered[a] = 1..r.next - 1
        BY <1>3, <1>4, <2>5 DEF Delivers
      <4> QED
        BY <3>2, <4>1, <4>2
    <3> QED
      BY <1>3, <2>5, <3>2, <3>3 DEF Delivers, NoLoop
  <2>6. CASE Advances(r, n)
    <3>1. r.next - 1 = r.upto
      BY <1>3, <2>6 DEF Advances
    <3>2. n.buf = r.upto
      BY <1>8, <2>6 DEF Advances, r
    <3> QED
      BY <1>4, <2>6, <3>1, <3>2 DEF Advances, NoNews, NoLoop
  <2> QED
    BY <1>1, <2>1, <2>2, <2>3, <2>4, <2>5, <2>6 DEF Steps
<1>11. \A t \in Slots : loop'[t].account = a => t = s /\ n # NoLoop
  BY <1>5, <1>6 DEF n
<1>12. n # NoLoop => loop'[s].account = a
  BY <1>1 DEF n
<1> QED
  BY <1>7, <1>10, <1>11, <1>12 DEF OfferedInTurn, Reached, n

LEMMA ReplayStep == TypeInv /\ ReplayInv /\ [Next]_vars => ReplayInv'
<1> SUFFICES ASSUME TypeInv, ReplayInv, [Next]_vars PROVE ReplayInv'
  OBVIOUS
<1>1. LoopTypes /\ OtherTypes
  BY TypeParts
<1>2. NoLoop.account = None /\ None \notin Accounts
  BY PollingAssumption DEF NoLoop
<1>3. crashes \in Nat
  BY PollingAssumption DEF TypeInv, TypeOK
<1>4. CASE \E s \in Slots : Poll(s)
  <2>1. PICK s \in Slots : Poll(s)
    BY <1>4
  <2>2. /\ UNCHANGED <<up, overlapped, crashes>>
        /\ loop[s].account \in Accounts
        /\ loop' = [loop EXCEPT ![s] = loop'[s]]
        /\ loop'[s] = NoLoop \/ loop'[s].account = loop[s].account
        /\ Steps(loop[s], loop'[s])
    BY <2>1, PollKinds
  <2>3. rewound \subseteq rewound' /\ unsaved \subseteq unsaved'
    BY <2>2 DEF Steps, Loads, Moves, Stops, Fetches, Delivers, Advances, Saves, Keeps
  <2>4. ASSUME NEW a \in Accounts, ~Replayable(a)' PROVE OfferedInTurn(a)'
    <3>1. ~Replayable(a)
      BY <2>2, <2>3, <2>4 DEF Replayable
    <3>2. OfferedInTurn(a)
      BY <3>1 DEF ReplayInv
    <3>3. CASE a = loop[s].account
      BY <2>1, <2>4, <3>2, <3>3, PollInTurn
    <3>4. CASE a # loop[s].account
      <4>1. store'[a] = store[a] /\ offered'[a] = offered[a]
        BY <2>1, <3>2, <3>4, PollsOwnCursor DEF OfferedInTurn
      <4>2. \A t \in Slots :
               /\ loop'[t].account = a <=> loop[t].account = a
               /\ loop'[t].account = a => loop'[t] = loop[t]
        BY <1>1, <1>2, <2>2, <3>4 DEF LoopTypes
      <4>3. Only(a)'
        BY <3>2, <4>2 DEF OfferedInTurn, Only
      <4>4. \A t \in Slots : loop'[t].account = a => offered'[a] = 1..Reached(t)'
        BY <3>2, <4>1, <4>2 DEF OfferedInTurn, Reached
      <4>5. (\A t \in Slots : loop'[t].account # a) => offered'[a] = 1..store'[a]
        BY <3>2, <4>1, <4>2 DEF OfferedInTurn
      <4> QED
        BY <4>1, <4>3, <4>4, <4>5 DEF OfferedInTurn
    <3> QED
      BY <3>3, <3>4
  <2> QED
    BY <2>2, <2>4 DEF ReplayInv
<1>5. CASE StartsLoop
  <2>1. PICK a \in Accounts, s \in Slots :
            /\ loop' = [loop EXCEPT ![s] = loop'[s]]
            /\ loop'[s].account = a /\ loop'[s].at = "load"
            /\ overlapped' = IF \E t \in Slots : loop[t].account = a
                             THEN overlapped \cup {a} ELSE overlapped
            /\ ~Alive(s)
    BY <1>5 DEF StartsLoop, FreeSlots
  <2>2. Quiet
    BY <1>5 DEF StartsLoop
  <2>3. \A t \in Slots : t # s => loop'[t] = loop[t]
    BY <1>1, <2>1 DEF LoopTypes
  <2>4. ASSUME NEW b \in Accounts, ~Replayable(b)' PROVE OfferedInTurn(b)'
    <3>1. OfferedInTurn(b)
      BY <2>1, <2>2, <2>4 DEF Replayable, ReplayInv, Quiet
    <3>2. b = a => \A t \in Slots : loop[t].account # b
      BY <2>1, <2>4 DEF Replayable
    <3>3. loop[s].account # b
      BY <1>1, <1>2, <2>1 DEF LoopTypes
    <3>4. Only(b)'
      BY <2>1, <2>2, <2>3, <3>1, <3>2 DEF OfferedInTurn, Only, Quiet
    <3>5. CASE b = a
      <4>1. offered'[b] = 1..store'[b]
        BY <2>2, <3>1, <3>2, <3>5 DEF OfferedInTurn, Quiet
      <4>2. \A t \in Slots : loop'[t].account = b => t = s
        BY <2>3, <3>2, <3>5
      <4>3. Reached(s)' = store'[b]
        BY <2>1, <3>5 DEF Reached
      <4> QED
        BY <2>1, <3>4, <3>5, <4>1, <4>2, <4>3 DEF OfferedInTurn
    <3>6. CASE b # a
      <4>1. \A t \in Slots :
               /\ loop'[t].account = b <=> loop[t].account = b
               /\ loop'[t].account = b => Reached(t)' = Reached(t)
        BY <2>1, <2>2, <2>3, <3>3, <3>6 DEF Reached, Quiet
      <4> QED
        BY <2>2, <3>1, <3>4, <4>1 DEF OfferedInTurn, Quiet
    <3> QED
      BY <3>5, <3>6
  <2> QED
    BY <2>2, <2>4 DEF ReplayInv, Quiet
<1>6. CASE KeepsLoops
  <2>1. Quiet /\ UNCHANGED overlapped
    BY <1>6 DEF KeepsLoops
  <2>2. \A t \in Slots : loop'[t].account = loop[t].account /\ Reached(t)' = Reached(t)
    BY <1>6, <2>1 DEF KeepsLoops, SameLoop, Reached, Quiet
  <2>3. \A a \in Accounts : Replayable(a)' <=> Replayable(a)
    BY <2>1 DEF Replayable, Quiet
  <2>4. \A a \in Accounts : OfferedInTurn(a) => OfferedInTurn(a)'
    BY <2>1, <2>2 DEF OfferedInTurn, Only, Quiet
  <2> QED
    BY <2>1, <2>3, <2>4 DEF ReplayInv, Quiet
<1>7. CASE CrashesLoops \/ BootsLoops
  <2>1. crashes' > 0
    BY <1>3, <1>7 DEF CrashesLoops, BootsLoops, ReplayInv
  <2> QED
    BY <2>1 DEF ReplayInv, Replayable
<1> QED
  BY <1>4, <1>5, <1>6, <1>7, NextKinds

\* A message is offered to the pipeline again only after two loops of its account
\* ran side by side, its cursor could not be read or saved, an answer came without
\* one, or the process died.
THEOREM OfferedOnce == Spec => []ReplayHasACause
<1>1. TypeInv /\ ReplayInv => ReplayHasACause
  <2> SUFFICES ASSUME TypeInv, ReplayInv, NEW s \in Slots,
                      loop[s].at = "deliver", loop[s].next \in offered[loop[s].account],
                      ~Replayable(loop[s].account)
               PROVE  FALSE
    BY DEF ReplayHasACause, Replayable
  <2> DEFINE a == loop[s].account
  <2>1. a \in Accounts /\ loop[s].next \in Nat
    BY TypeParts, PollingAssumption DEF LoopTypes, Alive, Loops
  <2>2. offered[a] = 1..loop[s].next - 1
    BY <2>1 DEF ReplayInv, OfferedInTurn, Reached
  <2> QED
    BY <2>1, <2>2
<1> QED
  BY <1>1, TypesInvariant, ReplayInit, ReplayStep, PTL DEF Spec

-----------------------------------------------------------------------------
(* The table of accounts and the Connector's list                              *)

\* Request h has yet to call the Connector for account a, and will make it what the
\* table says.
Repairs(h, a) == handler[h].account = a /\ Agrees(h)

\* Table and list differ only while a request has yet to put that right.
RecordInv ==
    \A a \in Accounts \ excused :
        up /\ (\A h \in Handlers : ~Repairs(h, a)) => (a \in saved <=> listed[a] # None)

LEMMA RecordInit == Init => RecordInv
BY PollingAssumption DEF Init, RecordInv

\* The first half of a request: its row.
LEMMA BeginRecords ==
    ASSUME TypeInv, RecordInv, NEW h \in Handlers, NEW a \in Accounts,
           QRConfirmed(h, a) \/ SaveWechatAccount(h, a) \/ DisconnectAccount(h, a)
    PROVE  RecordInv'
<1>1. RequestTypes
  BY TypeParts
<1>2. PICK next \in {"add", "addInRequest", "remove"} :
          /\ handler[h] = Idle
          /\ handler' = [handler EXCEPT ![h] = [at |-> next, account |-> a]]
          /\ \/ saved' = saved
             \/ next = "remove" /\ saved' = saved \ {a}
             \/ next # "remove" /\ saved' = saved \cup {a}
  BY DEF QRConfirmed, SaveWechatAccount, DisconnectAccount, Begin
<1>3. UNCHANGED <<listed, up, excused>>
  BY DEF QRConfirmed, SaveWechatAccount, DisconnectAccount, loopVars, ghosts
<1>4. /\ handler'[h].at = next /\ handler'[h].account = a
      /\ \A g \in Handlers : g # h => handler'[g] = handler[g]
  BY <1>1, <1>2 DEF RequestTypes
<1>5. handler[h].account = None /\ None \notin Accounts
  BY <1>2, PollingAssumption DEF Idle
<1>6. ASSUME NEW b \in Accounts \ excused', up', \A k \in Handlers : ~Repairs(k, b)'
      PROVE  b \in saved' <=> listed'[b] # None
  <2>1. b \in saved' <=> b \in saved
    <3>1. CASE b = a
      <4>1. ~Repairs(h, a)'
        BY <1>6, <3>1
      <4> QED
        BY <1>2, <1>4, <3>1, <4>1 DEF Repairs, Agrees, Adds
    <3>2. CASE b # a
      BY <1>2, <3>2
    <3> QED
      BY <3>1, <3>2
  <2>2. ASSUME NEW k \in Handlers PROVE ~Repairs(k, b)
    <3>1. CASE k = h
      BY <1>5, <3>1 DEF Repairs
    <3>2. CASE k # h
      BY <1>4, <1>6, <2>1, <3>2 DEF Repairs, Agrees, Adds
    <3> QED
      BY <3>1, <3>2
  <2> QED
    BY <1>3, <1>6, <2>1, <2>2 DEF RecordInv
<1> QED
  BY <1>6 DEF RecordInv

\* The second half: the list.
LEMMA ServeRecords ==
    ASSUME TypeInv, RecordInv, NEW h \in Handlers, Serve(h)
    PROVE  RecordInv'
<1>1. RequestTypes /\ LoopTypes
  BY TypeParts
<1> DEFINE a == handler[h].account
<1>2. UNCHANGED <<saved, up>>
  BY DEF Serve, HandlerAdds, HandlerRemoves, HandlerReturns, ghosts
<1>3. handler[h].at # "idle" /\ a \in Accounts
  BY <1>1 DEF Serve, HandlerAdds, HandlerRemoves, HandlerReturns, RequestTypes, Requests
<1>4. None \notin Accounts /\ None \notin Slots
  BY PollingAssumption
<1>5. \A g \in Handlers : g # h => handler'[g] = handler[g]
  BY <1>1 DEF Serve, HandlerAdds, HandlerRemoves, HandlerReturns, RequestTypes
<1>6. \A b \in Accounts : b # a => listed'[b] = listed[b]
  <2>1. CASE HandlerAdds(h)
    BY <1>1, <1>3, <2>1 DEF HandlerAdds, AddAccount, StartLoop, LoopTypes
  <2>2. CASE HandlerRemoves(h)
    BY <1>1, <1>3, <2>2 DEF HandlerRemoves, RemoveAccount, LoopTypes
  <2>3. CASE HandlerReturns(h)
    BY <2>3 DEF HandlerReturns
  <2> QED
    BY <2>1, <2>2, <2>3 DEF Serve
<1>7. Agrees(h) => (a \in saved <=> listed'[a] # None)
  <2>1. CASE HandlerAdds(h)
    <3>1. \/ listed'[a] = listed[a] /\ listed[a] # None
          \/ \E s \in Slots : listed' = [listed EXCEPT ![a] = s]
      BY <2>1 DEF HandlerAdds, AddAccount, StartLoop, FreeSlots
    <3>2. listed'[a] # None
      BY <1>1, <1>3, <1>4, <3>1 DEF LoopTypes
    <3> QED
      BY <2>1, <3>2 DEF HandlerAdds, Agrees, Adds
  <2>2. CASE HandlerRemoves(h)
    <3>1. listed'[a] = None
      BY <1>1, <1>3, <2>2 DEF HandlerRemoves, RemoveAccount, LoopTypes
    <3> QED
      BY <2>2, <3>1 DEF HandlerRemoves, Agrees, Adds
  <2>3. CASE HandlerReturns(h)
    BY <2>3 DEF HandlerReturns, Agrees, Adds
  <2> QED
    BY <2>1, <2>2, <2>3 DEF Serve
<1>8. handler[h].at = "return" => UNCHANGED <<listed, excused>>
  BY DEF Serve, HandlerAdds, HandlerRemoves, HandlerReturns, ghosts
<1>9. handler[h].at # "return" =>
          \/ Agrees(h) /\ excused' = excused \ {a}
          \/ /\ ~Agrees(h) /\ excused' = excused
             /\ \E g \in Handlers : g # h /\ Repairs(g, a)
          \/ ~Agrees(h) /\ excused' = excused \cup {a}
  BY DEF Serve, HandlerAdds, HandlerRemoves, HandlerReturns, Settle, Repairs
<1> HIDE DEF a
<1>10. ASSUME NEW b \in Accounts \ excused', up', \A k \in Handlers : ~Repairs(k, b)'
       PROVE  b \in saved' <=> listed'[b] # None
  <2>1. \A k \in Handlers \ {h} : ~Repairs(k, b)
    BY <1>2, <1>5, <1>10 DEF Repairs, Agrees, Adds
  <2>2. ASSUME b \notin excused, ~Repairs(h, b), listed'[b] = listed[b]
        PROVE  b \in saved' <=> listed'[b] # None
    BY <1>2, <1>10, <2>1, <2>2 DEF RecordInv
  <2>3. CASE handler[h].at = "return"
    <3>1. ~Repairs(h, b)
      BY <2>3 DEF Repairs, Agrees, Adds
    <3> QED
      BY <1>8, <1>10, <2>2, <2>3, <3>1
  <2>4. CASE handler[h].at # "return" /\ b # a
    <3>1. ~Repairs(h, b)
      BY <2>4 DEF Repairs, a
    <3>2. b \notin excused
      BY <1>9, <1>10, <2>4
    <3> QED
      BY <1>6, <2>2, <2>4, <3>1, <3>2
  <2>5. CASE handler[h].at # "return" /\ b = a
    BY <1>2, <1>7, <1>9, <1>10, <2>1, <2>5
  <2> QED
    BY <2>3, <2>4, <2>5
<1> QED
  BY <1>10 DEF RecordInv

LEMMA RecordStep == TypeInv /\ RecordInv /\ [Next]_vars => RecordInv'
<1> SUFFICES ASSUME TypeInv, RecordInv, [Next]_vars PROVE RecordInv'
  OBVIOUS
<1>1. ASSUME UNCHANGED <<saved, up, listed, handler, excused>> PROVE RecordInv'
  BY <1>1 DEF RecordInv, Repairs, Agrees, Adds
<1>2. CASE (\E a \in Accounts : Arrive(a)) \/ Consume
  BY <1>1, <1>2 DEF Arrive, Consume, loopVars, ghosts
<1>3. CASE \E h \in Handlers, a \in Accounts :
               QRConfirmed(h, a) \/ SaveWechatAccount(h, a) \/ DisconnectAccount(h, a)
  BY <1>3, BeginRecords
<1>4. CASE \E h \in Handlers : Serve(h)
  BY <1>4, ServeRecords
<1>5. CASE \E s \in Slots : Poll(s)
  BY <1>1, <1>5, PollKinds
<1>6. CASE Crash
  BY <1>6 DEF Crash, RecordInv
<1>7. CASE Boot
  <2>0. PICK rows \in {saved, {}} :
            /\ \E place \in [rows -> Slots] :
                  /\ \A a, b \in rows : a # b => place[a] # place[b]
                  /\ listed' = [a \in Accounts |-> IF a \in rows THEN place[a] ELSE None]
                  /\ loop' = [s \in Slots |->
                                 IF \E a \in rows : place[a] = s
                                 THEN NewLoop(CHOOSE a \in rows : place[a] = s, None)
                                 ELSE NoLoop]
            /\ excused' = saved \ rows
    BY <1>7 DEF Boot
  <2>1. PICK place \in [rows -> Slots] :
            listed' = [a \in Accounts |-> IF a \in rows THEN place[a] ELSE None]
    BY <2>0
  <2>2. None \notin Slots
    BY PollingAssumption
  <2>3. \A a \in Accounts : a \in rows <=> listed'[a] # None
    BY <2>1, <2>2
  <2>4. saved' = saved
    BY <1>7 DEF Boot
  <2> QED
    BY <2>0, <2>3, <2>4 DEF RecordInv
<1>8. CASE UNCHANGED vars
  BY <1>1, <1>8 DEF vars
<1> QED
  BY <1>2, <1>3, <1>4, <1>5, <1>6, <1>7, <1>8 DEF Next

\* The table of accounts and the Connector's list name the same accounts, however
\* requests overlap, but for accounts that a request is working on, whose latest call
\* of the Connector was out of date, or that could not be listed at boot.
THEOREM RecordsAgree == Spec => []RecordsSynced
<1>1. TypeInv /\ RecordInv => RecordsSynced
  BY DEF RecordInv, RecordsSynced, Repairs, Agrees, Adds
<1> QED
  BY <1>1, TypesInvariant, RecordInit, RecordStep, PTL DEF Spec

-----------------------------------------------------------------------------
(* Nothing is fetched before it arrived                                        *)

\* What the cursors and the batches say was fetched is what the server has, and a
\* batch begins after the cursor of its loop.
ArrivedInv ==
    /\ \A a \in Accounts : store[a] <= server[a]
    /\ \A s \in Slots : Alive(s) =>
           /\ loop[s].buf <= server[loop[s].account]
           /\ loop[s].at = "deliver" =>
                  loop[s].upto <= server[loop[s].account] /\ loop[s].buf < loop[s].next

LEMMA ArrivedInit == Init => ArrivedInv
BY DEF Init, ArrivedInv, Alive, NoLoop

LEMMA ServerGrows ==
    ASSUME TypeInv, [Next]_vars
    PROVE  \A a \in Accounts : server[a] <= server'[a]
<1>1. server \in [Accounts -> 0..MaxMessages] /\ MaxMessages \in Nat
  BY TypeParts, PollingAssumption DEF OtherTypes
<1>2. ASSUME UNCHANGED server PROVE \A a \in Accounts : server[a] <= server'[a]
  BY <1>1, <1>2
<1>3. CASE \E a \in Accounts : Arrive(a)
  BY <1>1, <1>3 DEF Arrive
<1>4. CASE \E s \in Slots : Poll(s)
  BY <1>2, <1>4, PollKinds
<1>5. CASE \E h \in Handlers, a \in Accounts :
               QRConfirmed(h, a) \/ SaveWechatAccount(h, a) \/ DisconnectAccount(h, a)
  BY <1>2, <1>5 DEF QRConfirmed, SaveWechatAccount, DisconnectAccount
<1>6. CASE \E h \in Handlers : Serve(h)
  BY <1>2, <1>6 DEF Serve, HandlerAdds, HandlerRemoves, HandlerReturns
<1>7. CASE Consume \/ Crash \/ Boot \/ UNCHANGED vars
  BY <1>2, <1>7 DEF Consume, Crash, Boot, vars
<1> QED
  BY <1>3, <1>4, <1>5, <1>6, <1>7 DEF Next

LEMMA ArrivedPoll ==
    ASSUME TypeInv, ArrivedInv, NEW s \in Slots, Poll(s)
    PROVE  ArrivedInv'
<1> DEFINE r == loop[s]
           n == loop'[s]
           a == r.account
<1>1. /\ r \in Loops /\ r.at # "none" /\ a \in Accounts /\ n \in Loops
      /\ loop' = [loop EXCEPT ![s] = n]
      /\ n = NoLoop \/ n.account = a
      /\ UNCHANGED server
      /\ Steps(r, n)
  BY PollKinds
<1>2. LoopTypes /\ OtherTypes
  BY TypeParts
<1>3. /\ r.buf \in Nat /\ r.upto \in Nat /\ server[a] \in Nat
      /\ store[a] <= server[a] /\ r.buf <= server[a]
      /\ r.next \in Nat
      /\ r.at = "deliver" => r.upto <= server[a] /\ r.buf < r.next
  BY <1>1, <1>2, PollingAssumption DEF Loops, OtherTypes, ArrivedInv, Alive
<1>4. ASSUME NEW k \in Nat, k <= server[a], Saves(a, k)
      PROVE  \A b \in Accounts : store'[b] <= server[b]
  BY <1>1, <1>2, <1>4 DEF Saves, OtherTypes, ArrivedInv
<1>5. ASSUME Keeps PROVE \A b \in Accounts : store'[b] <= server[b]
  BY <1>5 DEF Keeps, ArrivedInv
<1> DEFINE Stored == \A b \in Accounts : store'[b] <= server[b]
           Within == n # NoLoop => /\ n.buf <= server[a]
                                   /\ n.at = "deliver" =>
                                          n.upto <= server[a] /\ n.buf < n.next
<1>6. NoLoop.at = "none"
  BY DEF NoLoop
<1> HIDE DEF r, n
<1>7. Stored /\ Within
  <2>1. CASE Loads(r, n)
    BY <1>3, <1>5, <2>1 DEF Loads, a
  <2>2. CASE Moves(r, n) \/ Stops(r, n)
    <3>1. Stored
      BY <1>3, <1>4, <1>5, <2>2 DEF Moves, Stops
    <3>2. Within
      BY <1>3, <2>2 DEF Moves, Stops, Resting
    <3> QED
      BY <3>1, <3>2
  <2>3. CASE Fetches(r, n)
    BY <1>3, <1>5, <2>3 DEF Fetches
  <2>4. CASE Delivers(r, n)
    BY <1>3, <1>5, <2>4 DEF Delivers
  <2>5. CASE Advances(r, n)
    BY <1>3, <1>4, <2>5 DEF Advances
  <2> QED
    BY <1>1, <2>1, <2>2, <2>3, <2>4, <2>5 DEF Steps
<1>8. ASSUME NEW t \in Slots, Alive(t)'
      PROVE  /\ loop'[t].buf <= server'[loop'[t].account]
             /\ loop'[t].at = "deliver" =>
                    /\ loop'[t].upto <= server'[loop'[t].account]
                    /\ loop'[t].buf < loop'[t].next
  <2>1. CASE t = s
    <3>1. n.at # "none" /\ loop'[t] = n
      BY <1>8, <2>1 DEF Alive, n
    <3> QED
      BY <1>1, <1>6, <1>7, <3>1
  <2>2. CASE t # s
    <3>1. loop'[t] = loop[t] /\ Alive(t)
      BY <1>1, <1>2, <1>8, <2>2 DEF LoopTypes, Alive
    <3> QED
      BY <1>1, <3>1 DEF ArrivedInv
  <2> QED
    BY <2>1, <2>2
<1> QED
  BY <1>1, <1>7, <1>8 DEF ArrivedInv

LEMMA ArrivedStep == TypeInv /\ ArrivedInv /\ [Next]_vars => ArrivedInv'
<1> SUFFICES ASSUME TypeInv, ArrivedInv, [Next]_vars PROVE ArrivedInv'
  OBVIOUS
<1>1. LoopTypes /\ OtherTypes
  BY TypeParts
<1>2. /\ \A a \in Accounts : server[a] <= server'[a] /\ server[a] \in Nat
                             /\ server'[a] \in Nat /\ store[a] \in Nat
      /\ \A s \in Slots : loop[s].buf \in Nat /\ loop[s].upto \in Nat
                          /\ (Alive(s) => loop[s].account \in Accounts)
  <2>1. server' \in [Accounts -> 0..MaxMessages]
    BY TypeStep, TypeParts DEF TypeInv, TypeOK
  <2> QED
    BY <1>1, <2>1, ServerGrows, PollingAssumption DEF LoopTypes, OtherTypes, Loops
<1>3. CASE \E s \in Slots : Poll(s)
  BY <1>3, ArrivedPoll
<1>4. ASSUME UNCHANGED store,
             NEW s \in Slots, Alive(s)',
             \/ SameLoop(s)
             \/ loop'[s].at = "load" /\ loop'[s].buf = 0 /\ loop'[s].account \in Accounts
      PROVE  /\ loop'[s].buf <= server'[loop'[s].account]
             /\ loop'[s].at = "deliver" =>
                    /\ loop'[s].upto <= server'[loop'[s].account]
                    /\ loop'[s].buf < loop'[s].next
  <2>1. CASE SameLoop(s)
    <3>1. Alive(s)
      BY <1>4, <2>1 DEF SameLoop, Alive
    <3>2. /\ loop[s].buf <= server[loop[s].account]
          /\ loop[s].at = "deliver" =>
                 loop[s].upto <= server[loop[s].account] /\ loop[s].buf < loop[s].next
          /\ loop[s].account \in Accounts
      BY <1>2, <3>1 DEF ArrivedInv
    <3>3. /\ loop[s].buf <= server'[loop[s].account]
          /\ loop[s].at = "deliver" =>
                 loop[s].upto <= server'[loop[s].account] /\ loop[s].buf < loop[s].next
      BY <1>2, <3>2
    <3> QED
      BY <2>1, <3>3 DEF SameLoop
  <2>2. CASE loop'[s].at = "load" /\ loop'[s].buf = 0 /\ loop'[s].account \in Accounts
    BY <1>2, <2>2
  <2> QED
    BY <1>4, <2>1, <2>2
<1>5. UNCHANGED store => \A a \in Accounts : store'[a] <= server'[a]
  BY <1>2 DEF ArrivedInv
<1>6. NoLoop.at = "none"
  BY DEF NoLoop
<1>7. CASE StartsLoop
  <2>1. UNCHANGED store
    BY <1>7 DEF StartsLoop, Quiet
  <2>2. PICK a \in Accounts, s \in Slots :
            /\ loop' = [loop EXCEPT ![s] = loop'[s]]
            /\ loop'[s].account = a /\ loop'[s].at = "load" /\ loop'[s].buf = 0
    BY <1>7 DEF StartsLoop, FreeSlots
  <2>3. \A t \in Slots : t = s \/ SameLoop(t)
    BY <1>1, <2>2 DEF LoopTypes, SameLoop
  <2> QED
    BY <1>4, <1>5, <2>1, <2>2, <2>3 DEF ArrivedInv
<1>8. CASE KeepsLoops
  <2>1. UNCHANGED store /\ \A s \in Slots : SameLoop(s)
    BY <1>8 DEF KeepsLoops, Quiet
  <2> QED
    BY <1>4, <1>5, <2>1 DEF ArrivedInv
<1>9. CASE CrashesLoops \/ BootsLoops
  <2>1. UNCHANGED store
    BY <1>9 DEF CrashesLoops, BootsLoops
  <2>2. \A s \in Slots : \/ loop'[s] = NoLoop
                         \/ /\ loop'[s].at = "load" /\ loop'[s].buf = 0
                            /\ loop'[s].account \in Accounts
    <3>1. CASE CrashesLoops
      BY <3>1 DEF CrashesLoops
    <3>2. CASE BootsLoops
      BY <3>2 DEF BootsLoops
    <3> QED
      BY <1>9, <3>1, <3>2
  <2>3. \A s \in Slots : Alive(s)' => loop'[s] # NoLoop
    BY <1>6 DEF Alive
  <2> QED
    BY <1>4, <1>5, <2>1, <2>2, <2>3 DEF ArrivedInv
<1> QED
  BY <1>3, <1>7, <1>8, <1>9, NextKinds

-----------------------------------------------------------------------------
(* The promise to the pipeline                                                 *)

\* What the refinement says of the accounts that something went wrong with.
Marred == IF crashes > 0 THEN Accounts ELSE overlapped \cup rewound \cup unsaved

LEMMA MarredMeansReplayable ==
    ASSUME NEW a \in Accounts PROVE a \in Marred <=> Replayable(a)
BY DEF Marred, Replayable

LEMMA PromiseInit == Init => Promise!Init
<1> SUFFICES ASSUME Init PROVE Promise!Init
  OBVIOUS
<1>1. ~(crashes > 0) /\ overlapped = {} /\ rewound = {} /\ unsaved = {}
  BY DEF Init
<1> QED
  BY <1>1 DEF Init, Promise!Init

LEMMA PromiseStutter ==
    UNCHANGED <<server, msgChan, offered, store, overlapped, rewound, unsaved, crashes>>
    => UNCHANGED Promise!vars
BY DEF Promise!vars

\* What goes wrong for one account.
LEMMA PromiseMarred ==
    ASSUME NEW a \in Accounts, UNCHANGED <<server, msgChan, offered, crashes>>,
           Marred' = Marred \cup {a},
           \/ UNCHANGED <<overlapped, rewound, store>>
           \/ /\ overlapped' \cup rewound' = overlapped \cup rewound \cup {a}
              /\ store' \in {store, [store EXCEPT ![a] = 0]}
    PROVE  Promise!Next
<1>1. CASE UNCHANGED <<overlapped, rewound, store>>
  <2>1. Promise!SaveFails(a)
    BY <1>1 DEF Promise!SaveFails, Marred
  <2> QED
    BY <2>1 DEF Promise!Next
<1>2. CASE /\ overlapped' \cup rewound' = overlapped \cup rewound \cup {a}
           /\ store' \in {store, [store EXCEPT ![a] = 0]}
  <2>1. Promise!GoAdrift(a)
    BY <1>2 DEF Promise!GoAdrift, Marred
  <2> QED
    BY <2>1 DEF Promise!Next
<1> QED
  BY <1>1, <1>2

\* A save of n, which succeeds or fails.
LEMMA PromiseSaves ==
    ASSUME NEW a \in Accounts, NEW n \in 0..server[a], Saves(a, n),
           UNCHANGED <<server, msgChan, offered, overlapped, rewound, crashes>>,
           Covered(offered, a, n),
           n >= store[a] \/ a \in overlapped \cup rewound
    PROVE  Promise!Next
<1>1. CASE store' = [store EXCEPT ![a] = n] /\ UNCHANGED unsaved
  <2>1. Promise!Save(a, n)
    BY <1>1 DEF Promise!Save, Covered
  <2> QED
    BY <2>1 DEF Promise!Next
<1>2. CASE UNCHANGED store /\ unsaved' = unsaved \cup {a}
  <2>1. Marred' = Marred \cup {a}
    BY <1>2 DEF Marred
  <2> QED
    BY <1>2, <2>1, PromiseMarred
<1> QED
  BY <1>1, <1>2 DEF Saves

LEMMA PromisePoll ==
    ASSUME TypeInv, CursorInv, RegressInv, ReplayInv, ArrivedInv, NEW s \in Slots, Poll(s)
    PROVE  [Promise!Next]_(Promise!vars)
<1> DEFINE r == loop[s]
           n == loop'[s]
           a == r.account
<1>1. /\ UNCHANGED <<server, overlapped, crashes>>
      /\ r \in Loops /\ r.at # "none" /\ a \in Accounts
      /\ Steps(r, n)
  BY PollKinds
<1>2. LoopTypes /\ OtherTypes
  BY TypeParts
<1>3. /\ r.buf \in 0..MaxMessages /\ r.upto \in 0..MaxMessages
      /\ r.next \in 0..MaxMessages + 1 /\ MaxMessages \in Nat
      /\ store[a] \in 0..MaxMessages /\ server[a] \in 0..MaxMessages
      /\ r.at = "deliver" => r.next \in 1..r.upto + 1 /\ r.buf <= r.upto
  BY <1>1, <1>2, PollingAssumption DEF Loops, LoopTypes, OtherTypes
<1>4. /\ Covered(offered, a, r.buf) /\ r.buf <= server[a]
      /\ r.at = "deliver" => Covered(offered, a, r.next - 1) /\ r.upto <= server[a]
  BY <1>1 DEF CursorInv, ArrivedInv, Alive
<1>5. r.at # "load" => store[a] <= r.buf \/ a \in overlapped \cup rewound
  BY <1>1 DEF RegressInv
<1> HIDE DEF r, n
<1>6. ASSUME NEW k \in 0..server[a], Saves(a, k), NoNews, UNCHANGED rewound,
             r.at # "load", k >= r.buf, Covered(offered, a, k)
      PROVE  Promise!Next
  <2>1. k >= store[a] \/ a \in overlapped \cup rewound
    BY <1>3, <1>5, <1>6
  <2>2. UNCHANGED <<server, msgChan, offered, overlapped, rewound, crashes>>
    BY <1>1, <1>6 DEF NoNews
  <2> HIDE DEF a
  <2> QED
    BY <1>1, <1>6, <2>1, <2>2, PromiseSaves
<1>7. ASSUME Keeps, NoNews, UNCHANGED rewound PROVE UNCHANGED Promise!vars
  BY <1>1, <1>7, PromiseStutter DEF Keeps, NoNews
<1>8. CASE Loads(r, n)
  <2>1. CASE UNCHANGED rewound
    BY <1>7, <1>8, <2>1 DEF Loads
  <2>2. CASE rewound' = rewound \cup {a}
    <3>1. Keeps /\ NoNews
      BY <1>8 DEF Loads
    <3>2. Marred' = Marred \cup {a}
      BY <1>1, <2>2, <3>1 DEF Marred, Keeps
    <3>3. overlapped' \cup rewound' = overlapped \cup rewound \cup {a}
      BY <1>1, <2>2
    <3> HIDE DEF a
    <3> QED
      BY <1>1, <3>1, <3>2, <3>3, PromiseMarred DEF Keeps, NoNews
  <2> QED
    BY <1>8, <2>1, <2>2 DEF Loads, a
<1>9. CASE Moves(r, n) \/ Stops(r, n)
  <2>1. (Saves(a, r.buf) \/ Keeps) /\ NoNews /\ UNCHANGED rewound /\ r.at # "load"
    BY <1>9 DEF Moves, Stops, Resting
  <2> QED
    BY <1>3, <1>4, <1>6, <1>7, <2>1
<1>10. CASE Fetches(r, n)
  BY <1>7, <1>10 DEF Fetches
<1>11. CASE Delivers(r, n)
  <2> DEFINE m == r.next
  <2>1. m \in 1..server[a] /\ 1..m - 1 \subseteq offered[a]
    BY <1>3, <1>4, <1>11 DEF Delivers, Covered
  <2>2. m > store[a] \/ a \in overlapped \cup rewound
    BY <1>1, <1>3, <1>5, <1>11 DEF Delivers, ArrivedInv, Alive, r
  <2>3. m \in offered[a] => a \in Marred
    <3>1. Replayable(a) \/ offered[a] = 1..m - 1
      BY <1>1, <1>11 DEF ReplayInv, OfferedInTurn, Reached, Delivers, r
    <3>2. m \notin 1..m - 1
      BY <2>1
    <3> QED
      BY <1>1, <3>1, <3>2, MarredMeansReplayable
  <2>4. /\ msgChan' = IF Len(msgChan) < ChanCap THEN Append(msgChan, <<a, m>>)
                      ELSE msgChan
        /\ offered' = [offered EXCEPT ![a] = @ \cup {m}]
        /\ UNCHANGED <<store, unsaved, rewound>>
    BY <1>11 DEF Delivers, Send, Keeps
  <2> HIDE DEF a, m
  <2>5. Promise!Offer(a, m)
    BY <1>1, <2>1, <2>2, <2>3, <2>4 DEF Promise!Offer, Marred
  <2> QED
    BY <1>1, <2>1, <2>5 DEF Promise!Next
<1>12. CASE Advances(r, n)
  <2>1. CASE n.buf = r.upto /\ UNCHANGED rewound
    <3>1. Covered(offered, a, r.upto)
      BY <1>3, <1>4, <1>12 DEF Advances, Covered
    <3>2. Saves(a, r.upto) /\ NoNews /\ r.at = "deliver"
      BY <1>12, <2>1 DEF Advances, a
    <3>3. r.upto \in 0..server[a] /\ r.upto >= r.buf
      BY <1>3, <1>4, <3>2
    <3> QED
      BY <1>6, <2>1, <3>1, <3>2, <3>3
  <2>2. CASE n.buf = 0 /\ rewound' = rewound \cup {a}
    <3>1. Saves(a, 0) /\ NoNews
      BY <1>12, <2>2 DEF Advances, a
    <3>2. store' \in {store, [store EXCEPT ![a] = 0]}
      BY <3>1 DEF Saves
    <3>3. Marred' = Marred \cup {a}
      <4>1. unsaved' = unsaved \/ unsaved' = unsaved \cup {a}
        BY <3>1 DEF Saves
      <4> QED
        BY <1>1, <2>2, <4>1 DEF Marred
    <3>4. overlapped' \cup rewound' = overlapped \cup rewound \cup {a}
      BY <1>1, <2>2
    <3>5. UNCHANGED <<server, msgChan, offered, crashes>>
      BY <1>1, <3>1 DEF NoNews
    <3> HIDE DEF a
    <3> QED
      BY <1>1, <3>2, <3>3, <3>4, <3>5, PromiseMarred
  <2> QED
    BY <1>12, <2>1, <2>2 DEF Advances, a
<1> QED
  BY <1>1, <1>8, <1>9, <1>10, <1>11, <1>12 DEF Steps

LEMMA PromiseStep ==
    TypeInv /\ CursorInv /\ RegressInv /\ ReplayInv /\ ArrivedInv /\ [Next]_vars =>
        [Promise!Next]_(Promise!vars)
<1> SUFFICES ASSUME TypeInv, CursorInv, RegressInv, ReplayInv, ArrivedInv, [Next]_vars
             PROVE  [Promise!Next]_(Promise!vars)
  OBVIOUS
<1>1. CASE \E s \in Slots : Poll(s)
  BY <1>1, PromisePoll
<1>2. CASE \E a \in Accounts : Arrive(a)
  <2>1. PICK a \in Accounts : Arrive(a)
    BY <1>2
  <2>2. Promise!Arrive(a)
    BY <2>1 DEF Arrive, Promise!Arrive, ghosts
  <2> QED
    BY <2>2 DEF Promise!Next
<1>3. CASE Consume
  <2>1. Promise!Receive
    BY <1>3 DEF Consume, Promise!Receive, ghosts
  <2> QED
    BY <2>1 DEF Promise!Next
<1>4. CASE \E h \in Handlers, a \in Accounts :
               QRConfirmed(h, a) \/ SaveWechatAccount(h, a) \/ DisconnectAccount(h, a)
  BY <1>4, PromiseStutter
     DEF QRConfirmed, SaveWechatAccount, DisconnectAccount, ghosts
<1>5. CASE \E h \in Handlers : Serve(h)
  <2>1. PICK h \in Handlers : Serve(h)
    BY <1>5
  <2>2. UNCHANGED <<server, msgChan, offered, store, rewound, unsaved, crashes>>
    BY <2>1 DEF Serve, HandlerAdds, HandlerRemoves, HandlerReturns, ghosts
  <2>3. StartsLoop \/ UNCHANGED overlapped
    BY <2>1, AddKinds DEF Serve, KeepsLoops, HandlerRemoves, HandlerReturns, ghosts
  <2>4. CASE UNCHANGED overlapped
    BY <2>2, <2>4, PromiseStutter
  <2>5. CASE StartsLoop
    <3>1. PICK a \in Accounts : UNCHANGED overlapped \/ overlapped' = overlapped \cup {a}
      BY <2>5 DEF StartsLoop
    <3>2. CASE UNCHANGED overlapped
      BY <2>4, <3>2
    <3>3. CASE overlapped' = overlapped \cup {a}
      <4>1. Marred' = Marred \cup {a}
        BY <2>2, <3>3 DEF Marred
      <4>2. overlapped' \cup rewound' = overlapped \cup rewound \cup {a}
        BY <2>2, <3>3
      <4> QED
        BY <2>2, <4>1, <4>2, PromiseMarred
    <3> QED
      BY <3>1, <3>2, <3>3
  <2> QED
    BY <2>3, <2>4, <2>5
<1>6. CASE Crash
  <2>1. crashes \in Nat /\ crashes' = crashes + 1
    BY <1>6, PollingAssumption, TypeParts DEF FaultTypes, Crash
  <2>2. Promise!Restart
    BY <1>6, <2>1 DEF Crash, Promise!Restart
  <2> QED
    BY <2>2 DEF Promise!Next
<1>7. CASE Boot \/ UNCHANGED vars
  BY <1>7, PromiseStutter DEF Boot, vars, ghosts
<1> QED
  BY <1>1, <1>2, <1>3, <1>4, <1>5, <1>6, <1>7 DEF Next

\* What the loops of all accounts do together, with the requests, crashes and boots
\* around them, is what Delivery promises: messages are offered in order without a gap,
\* again only after a cause, and only above the saved cursor as long as that can be
\* relied on.
THEOREM PollingImplementsDelivery == Spec => ImplementsDelivery
<1>1. Init => TypeInv /\ CursorInv /\ RegressInv /\ ReplayInv /\ ArrivedInv
  BY TypeInit, CursorInit, RegressInit, ReplayInit, ArrivedInit
<1>2. TypeInv /\ CursorInv /\ RegressInv /\ ReplayInv /\ ArrivedInv /\ [Next]_vars =>
          (TypeInv /\ CursorInv /\ RegressInv /\ ReplayInv /\ ArrivedInv)'
  BY TypeStep, CursorStep, RegressStep, ReplayStep, ArrivedStep
<1> QED
  BY <1>1, <1>2, PromiseInit, PromiseStep, PTL
     DEF Spec, ImplementsDelivery, Promise!Spec

-----------------------------------------------------------------------------
(* What can end the loop of a listed account                                   *)

Polls(s) == Alive(s) /\ ~loop[s].cancelled

\* While an account stays listed its loop goes on polling, whatever errors and
\* other requests it meets, unless the request it was started in returns.
OnlyReturnsEndListedLoops ==
    [][\A a \in Accounts, s \in Slots :
           listed[a] = s /\ listed'[a] = s /\ Polls(s) /\ ~Polls(s)'
           => \E h \in Handlers : HandlerReturns(h) /\ loop[s].parent = h]_vars

\* A loop whose context is not done does not stop by itself.
LEMMA PollsOn ==
    ASSUME TypeInv, NEW t \in Slots, Poll(t), NEW s \in Slots, Polls(s)
    PROVE  Polls(s)'
<1>1. loop' = [loop EXCEPT ![t] = loop'[t]] /\ loop \in [Slots -> Loops]
  BY PollKinds, TypeParts DEF LoopTypes
<1>2. CASE s # t
  BY <1>1, <1>2 DEF Polls, Alive
<1>3. CASE s = t
  <2>1. ~CtxDone(s) /\ loop[s] \in Loops
    BY <1>1 DEF Polls, CtxDone
  <2>2. loop'[s].at \in {"top", "polling", "pause", "deliver"}
    <3>1. CASE Load(s)
      BY <1>1, <2>1, <3>1 DEF Load, Loops
    <3>2. CASE Top(s) \/ PollError(s) \/ PauseEnds(s) \/ SessionExpired(s) \/ Refused(s)
      BY <1>1, <2>1, <3>2
         DEF Top, PollError, PauseEnds, SessionExpired, Refused, Goto, Loops
    <3>3. CASE Fetch(s) \/ Advance(s)
      BY <1>1, <2>1, <3>3 DEF Fetch, Advance, AdvanceTo, Loops
    <3>4. CASE Deliver(s)
      BY <1>1, <2>1, <3>4 DEF Deliver, Loops
    <3> QED
      BY <1>3, <3>1, <3>2, <3>3, <3>4 DEF Poll
  <2>3. loop'[s].cancelled = loop[s].cancelled
    BY <1>3, <2>2, PollKinds DEF NoLoop
  <2> QED
    BY <2>2, <2>3 DEF Polls, Alive
<1> QED
  BY <1>2, <1>3

LEMMA AddsElsewhere ==
    ASSUME TypeInv, NEW h \in Handlers, HandlerAdds(h), NEW s \in Slots, Polls(s)
    PROVE  Polls(s)'
<1>1. loop \in [Slots -> Loops]
  BY TypeParts DEF LoopTypes
<1>2. PICK parent \in Handlers \cup {None} : AddAccount(handler[h].account, parent)
  BY DEF HandlerAdds
<1> QED
  BY <1>1, <1>2 DEF AddAccount, StartLoop, FreeSlots, Polls, Alive

\* A request that removes another account cancels another loop.
LEMMA RemovesElsewhere ==
    ASSUME TypeInv, NEW h \in Handlers, HandlerRemoves(h), NEW a \in Accounts,
           NEW s \in Slots, listed[a] = s, listed'[a] = s, Polls(s)
    PROVE  Polls(s)'
<1> DEFINE b == handler[h].account
<1>1. LoopTypes /\ RequestTypes
  BY TypeParts
<1>2. b \in Accounts /\ RemoveAccount(b)
  BY <1>1 DEF HandlerRemoves, RequestTypes, Requests
<1>3. CASE listed[b] = None
  BY <1>2, <1>3 DEF RemoveAccount, Polls, Alive
<1>4. CASE listed[b] # None
  <2>1. loop' = [loop EXCEPT ![listed[b]] = Cancelled(@)]
        /\ listed' = [listed EXCEPT ![b] = None]
    BY <1>2, <1>4 DEF RemoveAccount
  <2>2. listed \in [Accounts -> Slots \cup {None}] /\ None \notin Slots
    BY <1>1, PollingAssumption DEF LoopTypes
  <2>3. a # b
    BY <1>2, <2>1, <2>2
  <2>4. loop[s].account = a
    BY <1>1, PollingAssumption DEF LoopTypes, Polls, Alive
  <2>5. listed[b] # s
    BY <1>1, <1>2, <1>4, <2>3, <2>4, PollingAssumption DEF LoopTypes
  <2>6. loop'[s] = loop[s]
    BY <1>1, <2>1, <2>5 DEF LoopTypes
  <2> QED
    BY <2>6 DEF Polls, Alive
<1> QED
  BY <1>3, <1>4

\* A request that returns ends no loop but those started in it.
LEMMA ReturnsEndTheirOwn ==
    ASSUME NEW h \in Handlers, HandlerReturns(h), NEW s \in Slots,
           Polls(s), ~Polls(s)'
    PROVE  loop[s].parent = h
<1>1. \/ loop'[s] = loop[s]
      \/ /\ loop[s].parent = h
         /\ loop'[s] = Cancelled(loop[s])
  BY Zenon DEF HandlerReturns
<1> QED
  BY <1>1 DEF Polls, Alive

LEMMA EndsStep ==
    TypeInv /\ [Next]_vars =>
        [\A a \in Accounts, s \in Slots :
             listed[a] = s /\ listed'[a] = s /\ Polls(s) /\ ~Polls(s)'
             => \E h \in Handlers : HandlerReturns(h) /\ loop[s].parent = h]_vars
<1> SUFFICES ASSUME TypeInv, [Next]_vars, NEW a \in Accounts, NEW s \in Slots,
                    listed[a] = s, listed'[a] = s, Polls(s), ~Polls(s)'
             PROVE  \E h \in Handlers : HandlerReturns(h) /\ loop[s].parent = h
  OBVIOUS
<1>1. LoopTypes /\ None \notin Slots
  BY TypeParts, PollingAssumption
<1>2. ASSUME UNCHANGED loop PROVE FALSE
  BY <1>2 DEF Polls, Alive
<1>3. CASE \E t \in Slots : Poll(t)
  BY <1>3, PollsOn
<1>4. CASE \E h \in Handlers : HandlerAdds(h) \/ HandlerRemoves(h)
  BY <1>4, AddsElsewhere, RemovesElsewhere
<1>5. CASE \E h \in Handlers : HandlerReturns(h)
  BY <1>5, ReturnsEndTheirOwn
<1>6. CASE Crash
  BY <1>1, <1>6 DEF Crash
<1>7. CASE Boot
  <2>0. PICK rows \in {saved, {}} : \E place \in [rows -> Slots] :
          /\ listed' = [x \in Accounts |-> IF x \in rows THEN place[x] ELSE None]
          /\ loop' = [t \in Slots |->
                         IF \E x \in rows : place[x] = t
                         THEN NewLoop(CHOOSE x \in rows : place[x] = t, None)
                         ELSE NoLoop]
    BY <1>7 DEF Boot
  <2>1. PICK place \in [rows -> Slots] :
          /\ listed' = [x \in Accounts |-> IF x \in rows THEN place[x] ELSE None]
          /\ loop' = [t \in Slots |->
                         IF \E x \in rows : place[x] = t
                         THEN NewLoop(CHOOSE x \in rows : place[x] = t, None)
                         ELSE NoLoop]
    BY <2>0
  <2>2. a \in rows /\ place[a] = s
    BY <1>1, <2>1
  <2>3. \E x \in rows : loop'[s] = NewLoop(x, None)
    BY <2>1, <2>2
  <2>4. rows \subseteq Accounts
    BY TypeParts DEF OtherTypes
  <2>5. \A x \in Accounts : NewLoop(x, None).at = "load" /\ ~NewLoop(x, None).cancelled
    <3>1. NoLoop \in Loops /\ ~NoLoop.cancelled
      BY PollingAssumption DEF NoLoop, Loops
    <3>2. \A r \in Loops, x \in Accounts :
              LET n == [r EXCEPT !.at = "load", !.account = x, !.parent = None]
              IN  n.at = "load" /\ n.cancelled = r.cancelled
      BY DEF Loops
    <3> QED
      BY <3>1, <3>2 DEF NewLoop
  <2>6. PICK x \in rows : loop'[s] = NewLoop(x, None)
    BY <2>3
  <2>7. x \in Accounts
    BY <2>4
  <2>8. loop'[s].at = "load" /\ ~loop'[s].cancelled
    BY <2>5, <2>6, <2>7
  <2> QED
    BY <2>8 DEF Polls, Alive
<1>8. CASE \/ UNCHANGED vars \/ Consume
           \/ \E x \in Accounts : Arrive(x)
           \/ \E h \in Handlers, x \in Accounts :
                  QRConfirmed(h, x) \/ SaveWechatAccount(h, x) \/ DisconnectAccount(h, x)
  BY <1>2, <1>8 DEF vars, Consume, Arrive, QRConfirmed, SaveWechatAccount,
                    DisconnectAccount, loopVars
<1> QED
  BY <1>3, <1>4, <1>5, <1>6, <1>7, <1>8 DEF Next, Serve

\* The poll loop of a listed account ends only because the request that started it
\* was answered: errors, expiry, failed saves and requests on other accounts leave
\* it polling (bot/account.go:92, api/wechat_handler.go:181).
THEOREM ListedLoopsGoOn == Spec => OnlyReturnsEndListedLoops
BY EndsStep, TypesInvariant, PTL DEF Spec, OnlyReturnsEndListedLoops
===============================================================================
