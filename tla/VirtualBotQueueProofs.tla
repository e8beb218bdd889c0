----------------------- MODULE VirtualBotQueueProofs -----------------------
(***************************************************************************)
(* Theorems about VirtualBotQueue for every set of producers and consumers *)
(* and every number of messages.  Each invariant is shown to be preserved  *)
(* by every step; the later ones use the earlier ones.                     *)
(***************************************************************************)
EXTENDS VirtualBotQueue, FiniteSetTheorems, TLAPS

-----------------------------------------------------------------------------
\* What the operators on sequences return.

\* Appending adds one element at the end and moves nothing.
LEMMA AppendElements ==
    ASSUME NEW S, NEW s \in Seq(S), NEW e \in S
    PROVE  /\ Append(s, e) \in Seq(S)
           /\ Len(Append(s, e)) = Len(s) + 1
           /\ Elements(Append(s, e)) = Elements(s) \cup {e}
<1> DEFINE t == Append(s, e)
<1>1. t \in Seq(S) /\ Len(t) = Len(s) + 1
  OBVIOUS
<1>2. DOMAIN t = DOMAIN s \cup {Len(s) + 1}
  BY <1>1
<1>3. /\ \A i \in DOMAIN s : t[i] = s[i]
      /\ t[Len(s) + 1] = e
  OBVIOUS
<1>4. Elements(t) = Elements(s) \cup {e}
  BY <1>2, <1>3, Zenon DEF Elements
<1> QED
  BY <1>1, <1>4

\* The empty sequence has no elements.
LEMMA EmptyElements == Elements(<<>>) = {}
BY DEF Elements

\* Every element has an index, and lies in the set the sequence is over.
LEMMA ElementsType ==
    ASSUME NEW S, NEW s \in Seq(S)
    PROVE  Elements(s) \subseteq S
BY DEF Elements

-----------------------------------------------------------------------------
\* Every reachable state is well typed, a batch exists only while its answer is
\* being written, and only an open request can have lost its client.
THEOREM TypeCorrect == Spec => []TypeOK
<1> USE QueueAssumption DEF Messages
<1>1. Init => TypeOK
  <2> SUFFICES ASSUME Init PROVE TypeOK
    OBVIOUS
  <2>1. sent \in 0..MaxMessages /\ wakeups \in Nat
    BY DEF Init
  <2>2. queue \in Seq(Messages) /\ batch \in [Consumers -> Seq(Messages)]
    BY DEF Init
  <2>3. \A c \in Consumers : batch[c] = <<>>
    BY DEF Init
  <2> QED
    BY <2>1, <2>2, <2>3 DEF Init, TypeOK
<1>2. TypeOK /\ [Next]_vars => TypeOK'
  <2> SUFFICES ASSUME TypeOK, [Next]_vars PROVE TypeOK'
    OBVIOUS
  <2> USE DEF TypeOK
  <2>1. ASSUME NEW p \in Producers, EnqueueAppend(p) PROVE TypeOK'
    <3>1. sent + 1 \in Messages /\ sent' \in 0..MaxMessages
      BY <2>1 DEF EnqueueAppend
    <3>2. queue' \in Seq(Messages)
      BY <2>1, <3>1, AppendElements DEF EnqueueAppend
    <3> QED
      BY <2>1, <3>1, <3>2 DEF EnqueueAppend
  <2>2. ASSUME NEW p \in Producers, EnqueueSignal(p) PROVE TypeOK'
    BY <2>2 DEF EnqueueSignal
  <2>3. ASSUME NEW c \in Consumers, Poll(c) PROVE TypeOK'
    BY <2>3 DEF Poll
  <2>a. ASSUME NEW c \in Consumers, TakeAll(c), consumer[c] # "idle"
        PROVE  TypeOK'
    <3>1. batch' \in [Consumers -> Seq(Messages)] /\ queue' \in Seq(Messages)
      BY <2>a DEF TakeAll
    <3>2. consumer' = [consumer EXCEPT ![c] = "respond"]
      BY <2>a DEF TakeAll
    <3>3. \A d \in Consumers : batch'[d] # <<>> => consumer'[d] = "respond"
      BY <2>a DEF TakeAll
    <3>4. gone' \subseteq {d \in Consumers : consumer'[d] # "idle"}
      BY <2>a, <3>2 DEF TakeAll
    <3> QED
      BY <2>a, <3>1, <3>2, <3>3, <3>4 DEF TakeAll
  <2>b. ASSUME NEW c \in Consumers, NEW next \in {"wait", "respond"},
               FindEmpty(c, next), consumer[c] \notin {"idle", "respond"}
        PROVE  TypeOK'
    <3>1. consumer' = [consumer EXCEPT ![c] = next] /\ UNCHANGED <<batch, gone>>
      BY <2>b DEF FindEmpty
    <3>2. \A d \in Consumers : batch'[d] # <<>> => consumer'[d] = "respond"
      BY <2>b, <3>1
    <3>3. gone' \subseteq {d \in Consumers : consumer'[d] # "idle"}
      BY <2>b, <3>1
    <3> QED
      BY <2>b, <3>1, <3>2, <3>3 DEF FindEmpty
  <2>4. ASSUME NEW c \in Consumers, FastPath(c) PROVE TypeOK'
    BY <2>4, <2>a, <2>b DEF FastPath
  <2>5. ASSUME NEW c \in Consumers, WakeUp(c) PROVE TypeOK'
    <3>1. consumer' = [consumer EXCEPT ![c] = "woken"] /\ UNCHANGED <<batch, gone>>
      BY <2>5 DEF WakeUp
    <3>2. \A d \in Consumers : batch'[d] # <<>> => consumer'[d] = "respond"
      BY <2>5, <3>1 DEF WakeUp
    <3>3. gone' \subseteq {d \in Consumers : consumer'[d] # "idle"}
      BY <2>5, <3>1
    <3>4. wakeups' = wakeups + 1
      BY <2>5, Zenon DEF WakeUp
    <3>5. consumer' \in [Consumers -> {"idle", "check", "wait", "woken", "expired",
                                       "respond"}]
      BY <3>1
    <3>6. UNCHANGED <<sent, queue, producer, batch, gone, delivered, lost>>
      BY <2>5 DEF WakeUp
    <3>7. wakeups' \in Nat
      BY <3>4
    <3>8. notify' \in BOOLEAN
      BY <2>5, Zenon DEF WakeUp
    <3> HIDE <2>5
    <3> QED
      BY <3>2, <3>3, <3>5, <3>6, <3>7, <3>8
  <2>6. ASSUME NEW c \in Consumers, TimerFires(c) PROVE TypeOK'
    BY <2>6 DEF TimerFires
  <2>7. ASSUME NEW c \in Consumers, AfterWait(c) PROVE TypeOK'
    BY <2>7, <2>a, <2>b DEF AfterWait
  <2>8. ASSUME NEW c \in Consumers, Respond(c) PROVE TypeOK'
    <3>1. Elements(batch[c]) \subseteq Messages
      BY ElementsType
    <3>2. delivered' \in [Consumers -> SUBSET Messages] /\ lost' \subseteq Messages
      BY <2>8, <3>1 DEF Respond
    <3>3. batch' = [batch EXCEPT ![c] = <<>>]
      BY <2>8 DEF Respond
    <3>4. consumer' = [consumer EXCEPT ![c] = "idle"] /\ gone' = gone \ {c}
      BY <2>8 DEF Respond
    <3>5. batch' \in [Consumers -> Seq(Messages)]
      BY <3>3
    <3>6. \A d \in Consumers : batch'[d] # <<>> => consumer'[d] = "respond"
      BY <3>3, <3>4
    <3>7. gone' \subseteq {d \in Consumers : consumer'[d] # "idle"}
      BY <3>4
    <3> QED
      BY <2>8, <3>2, <3>4, <3>5, <3>6, <3>7 DEF Respond
  <2>9. ASSUME NEW c \in Consumers, HangUp(c) PROVE TypeOK'
    BY <2>9 DEF HangUp
  <2>10. CASE UNCHANGED vars
    BY <2>10 DEF vars
  <2> QED
    BY <2>1, <2>2, <2>3, <2>4, <2>5, <2>6, <2>7, <2>8, <2>9, <2>10
       DEF Next, Enqueue, Dequeue
<1> QED
  BY <1>1, <1>2, PTL DEF Spec

-----------------------------------------------------------------------------
\* The queue always holds exactly the newest messages in Enqueue order.
THEOREM QueueHoldsNewest == Spec => []QueueIsNewest
<1>1. Init => QueueIsNewest
  BY DEF Init, QueueIsNewest
<1>2. TypeOK /\ QueueIsNewest /\ [Next]_vars => QueueIsNewest'
  <2> SUFFICES ASSUME TypeOK, QueueIsNewest, [Next]_vars PROVE QueueIsNewest'
    OBVIOUS
  <2>1. ASSUME NEW p \in Producers, EnqueueAppend(p) PROVE QueueIsNewest'
    BY <2>1 DEF EnqueueAppend, QueueIsNewest, TypeOK, Messages
  <2>2. ASSUME NEW c \in Consumers, TakeAll(c) PROVE QueueIsNewest'
    BY <2>2 DEF TakeAll, QueueIsNewest, TypeOK
  <2>3. CASE UNCHANGED <<sent, queue>>
    BY <2>3 DEF QueueIsNewest
  <2> QED
    BY <2>1, <2>2, <2>3
       DEF Next, Enqueue, Dequeue, EnqueueSignal, Poll, FastPath, FindEmpty,
           WakeUp, TimerFires, AfterWait, Respond, HangUp, vars
<1> QED
  BY <1>1, <1>2, TypeCorrect, PTL DEF Spec

-----------------------------------------------------------------------------
\* The wake-up protocol never leaves messages behind with everyone asleep.  The
\* formula is inductive by itself: Dequeue takes the whole queue once woken, and
\* a token leaves notify only into the hands of a woken Dequeue.
THEOREM WakeupNeverLost == Spec => []NoLostWakeup
<1>1. Init => NoLostWakeup
  BY DEF Init, NoLostWakeup
<1>2. TypeOK /\ NoLostWakeup /\ [Next]_vars => NoLostWakeup'
  <2> SUFFICES ASSUME TypeOK, NoLostWakeup, [Next]_vars PROVE NoLostWakeup'
    OBVIOUS
  <2> USE DEF TypeOK, NoLostWakeup
  <2>1. ASSUME NEW p \in Producers, EnqueueAppend(p) PROVE NoLostWakeup'
    BY <2>1 DEF EnqueueAppend
  <2>2. ASSUME NEW p \in Producers, EnqueueSignal(p) PROVE NoLostWakeup'
    BY <2>2 DEF EnqueueSignal
  <2>3. ASSUME NEW c \in Consumers, Poll(c) PROVE NoLostWakeup'
    BY <2>3 DEF Poll
  <2>4. ASSUME NEW c \in Consumers, FastPath(c) PROVE NoLostWakeup'
    BY <2>4 DEF FastPath, TakeAll, FindEmpty
  <2>5. ASSUME NEW c \in Consumers, WakeUp(c) PROVE NoLostWakeup'
    BY <2>5 DEF WakeUp
  <2>6. ASSUME NEW c \in Consumers, TimerFires(c) PROVE NoLostWakeup'
    BY <2>6 DEF TimerFires
  <2>7. ASSUME NEW c \in Consumers, AfterWait(c) PROVE NoLostWakeup'
    BY <2>7 DEF AfterWait, TakeAll, FindEmpty
  <2>8. ASSUME NEW c \in Consumers, Respond(c) PROVE NoLostWakeup'
    BY <2>8 DEF Respond
  <2>9. ASSUME NEW c \in Consumers, HangUp(c) PROVE NoLostWakeup'
    BY <2>9 DEF HangUp
  <2>10. CASE UNCHANGED vars
    BY <2>10 DEF vars
  <2> QED
    BY <2>1, <2>2, <2>3, <2>4, <2>5, <2>6, <2>7, <2>8, <2>9, <2>10
       DEF Next, Enqueue, Dequeue
<1> QED
  BY <1>1, <1>2, TypeCorrect, PTL DEF Spec

-----------------------------------------------------------------------------
\* One step of Conservation and InOrderPerConnection together: what a poll
\* takes is the whole queue, newer than all it took before, and what Enqueue
\* adds is newer than everything.
LEMMA PlacesStep ==
    ASSUME TypeOK, TypeOK', QueueIsNewest, Conservation, InOrderPerConnection,
           [Next]_vars
    PROVE  Conservation' /\ InOrderPerConnection'
<1> USE DEF Holding, Taken
<1> DEFINE Places == <<sent, queue, batch, delivered, lost>>
<1>1. ASSUME NEW p \in Producers, EnqueueAppend(p)
      PROVE  Conservation' /\ InOrderPerConnection'
  <2>1. /\ sent \in Nat /\ sent' = sent + 1
        /\ 1..sent' = 1..sent \cup {sent + 1}
        /\ UNCHANGED <<batch, delivered, lost>>
    BY <1>1 DEF EnqueueAppend, TypeOK
  <2>2. Elements(queue') = Elements(queue) \cup {sent + 1}
    BY <1>1, AppendElements DEF EnqueueAppend, TypeOK
  <2>3. \A c \in Consumers : Taken(c) \subseteq 1..sent
    BY DEF Conservation
  <2>4. lost \subseteq 1..sent
    BY DEF Conservation
  <2>5. Conservation'
    <3>1. /\ \A c \in Consumers : Holding(c)' = Holding(c) /\ Taken(c)' = Taken(c)
          /\ UNION {Taken(c)' : c \in Consumers} = UNION {Taken(c) : c \in Consumers}
          /\ sent + 1 \notin 1..sent
      BY <2>1
    <3>2. 1..sent' = Elements(queue') \cup lost' \cup UNION {Taken(c)' : c \in Consumers}
      BY <2>1, <2>2, <3>1 DEF Conservation
    <3>3. Elements(queue') \cap lost' = {}
      BY <2>1, <2>2, <2>4, <3>1 DEF Conservation
    <3>4. \A c \in Consumers :
             /\ Holding(c)' \cap delivered'[c] = {}
             /\ \A d \in Consumers \ {c} : Taken(c)' \cap Taken(d)' = {}
      BY <2>1, <3>1 DEF Conservation
    <3>5. \A c \in Consumers : Taken(c)' \cap (Elements(queue') \cup lost') = {}
      BY <2>1, <2>2, <2>3, <3>1 DEF Conservation
    <3> QED
      BY <3>2, <3>3, <3>4, <3>5, Zenon DEF Conservation
  <2>6. \A c \in Consumers : \A m \in Taken(c) : m < sent + 1
    BY <2>1, <2>3
  <2>7. InOrderPerConnection'
    BY <2>1, <2>2, <2>6 DEF InOrderPerConnection
  <2> QED
    BY <2>5, <2>7
<1>2. ASSUME NEW c \in Consumers, TakeAll(c), batch[c] = <<>>
      PROVE  Conservation' /\ InOrderPerConnection'
  <2>1. /\ Elements(queue') = {}
        /\ UNCHANGED <<sent, delivered, lost>>
        /\ Elements(batch[c]) = {} /\ batch'[c] = queue
        /\ \A d \in Consumers \ {c} : batch'[d] = batch[d]
    BY <1>2, EmptyElements DEF TakeAll, TypeOK
  <2>2. /\ Taken(c)' = delivered[c] \cup Elements(queue)
        /\ Taken(c) = delivered[c]
        /\ \A d \in Consumers \ {c} : Taken(d)' = Taken(d)
    BY <2>1
  <2>3. UNION {Taken(d)' : d \in Consumers}
           = Elements(queue) \cup UNION {Taken(d) : d \in Consumers}
    BY <2>2
  <2>4. \A d \in Consumers : Taken(d) \cap (Elements(queue) \cup lost) = {}
    BY DEF Conservation
  <2>a. 1..sent' = Elements(queue') \cup lost' \cup UNION {Taken(d)' : d \in Consumers}
    BY <2>1, <2>3 DEF Conservation
  <2>b. ASSUME NEW d \in Consumers
        PROVE  /\ Holding(d)' \cap delivered'[d] = {}
               /\ Taken(d)' \cap (Elements(queue') \cup lost') = {}
    BY <2>1, <2>2, <2>4 DEF Conservation
  <2>c. ASSUME NEW d \in Consumers, NEW e \in Consumers \ {d}
        PROVE  Taken(d)' \cap Taken(e)' = {}
    BY <2>2, <2>4 DEF Conservation
  <2>d. Conservation'
    <3>1. Elements(queue') \cap lost' = {}
      BY <2>1
    <3> QED
      BY <2>a, <2>b, <2>c, <3>1, Zenon DEF Conservation
  <2>5. \A i, j \in DOMAIN queue : i < j => queue[i] < queue[j]
    BY DEF QueueIsNewest, TypeOK
  <2>6. InOrderPerConnection'
    BY <2>1, <2>2, <2>5 DEF InOrderPerConnection
  <2> QED
    BY <2>d, <2>6
<1>3. ASSUME NEW c \in Consumers, Respond(c)
      PROVE  Conservation' /\ InOrderPerConnection'
  <2>1. /\ UNCHANGED <<sent, queue>>
        /\ Elements(batch'[c]) = {} /\ batch'[c] = <<>>
        /\ \A d \in Consumers \ {c} : batch'[d] = batch[d] /\ delivered'[d] = delivered[d]
    BY <1>3, EmptyElements DEF Respond, TypeOK
  <2>2. CASE c \in gone
    <3>1. delivered' = delivered /\ lost' = lost \cup Elements(batch[c])
      BY <1>3, <2>2 DEF Respond
    <3>2. Conservation'
      <4>1. /\ \A d \in Consumers \ {c} : Taken(d)' = Taken(d) /\ Holding(d)' = Holding(d)
            /\ Taken(c)' = delivered[c] /\ Holding(c)' = {}
            /\ Taken(c) = delivered[c] \cup Holding(c)
            /\ lost' = lost \cup Holding(c)
        BY <2>1, <3>1
      <4>2. 1..sent' = Elements(queue') \cup lost' \cup UNION {Taken(d)' : d \in Consumers}
        BY <2>1, <4>1 DEF Conservation
      <4>3. Elements(queue') \cap lost' = {}
        BY <2>1, <4>1 DEF Conservation
      <4>4. \A d \in Consumers :
               /\ Holding(d)' \cap delivered'[d] = {}
               /\ \A e \in Consumers \ {d} : Taken(d)' \cap Taken(e)' = {}
        BY <2>1, <3>1, <4>1 DEF Conservation
      <4>5. \A d \in Consumers : Taken(d)' \cap (Elements(queue') \cup lost') = {}
        BY <2>1, <4>1 DEF Conservation
      <4> QED
        BY <4>2, <4>3, <4>4, <4>5, Zenon DEF Conservation
    <3>3. InOrderPerConnection'
      BY <2>1, <3>1 DEF InOrderPerConnection
    <3> QED
      BY <3>2, <3>3
  <2>3. CASE c \notin gone
    <3>1. delivered'[c] = Taken(c) /\ lost' = lost
      BY <1>3, <2>3 DEF Respond, TypeOK
    <3>2. \A d \in Consumers : Taken(d)' = Taken(d)
      BY <2>1, <3>1
    <3>3. UNION {Taken(d)' : d \in Consumers} = UNION {Taken(d) : d \in Consumers}
      BY <3>2
    <3>a. \A d \in Consumers : Holding(d)' \cap delivered'[d] = {}
      BY <2>1 DEF Conservation
    <3>b. Conservation'
      <4>1. 1..sent' = Elements(queue') \cup lost' \cup UNION {Taken(d)' : d \in Consumers}
        BY <2>1, <3>1, <3>3 DEF Conservation
      <4>2. \A d \in Consumers :
               /\ Taken(d)' \cap (Elements(queue') \cup lost') = {}
               /\ \A e \in Consumers \ {d} : Taken(d)' \cap Taken(e)' = {}
        BY <2>1, <3>1, <3>2 DEF Conservation
      <4>3. Elements(queue') \cap lost' = {}
        BY <2>1, <3>1 DEF Conservation
      <4> QED
        BY <3>a, <4>1, <4>2, <4>3, Zenon DEF Conservation
    <3>4. InOrderPerConnection'
      BY <2>1, <3>1, <3>2 DEF InOrderPerConnection
    <3> QED
      BY <3>b, <3>4
  <2> QED
    BY <2>2, <2>3
<1>4. CASE UNCHANGED Places
  <2>1. \A c \in Consumers : Taken(c)' = Taken(c) /\ Holding(c)' = Holding(c)
    BY <1>4
  <2> QED
    BY <1>4, <2>1 DEF Conservation, InOrderPerConnection
<1>5. \A c \in Consumers : consumer[c] # "respond" => batch[c] = <<>>
  BY DEF TypeOK
<1> QED
  BY <1>1, <1>2, <1>3, <1>4, <1>5
     DEF Next, Enqueue, Dequeue, EnqueueSignal, Poll, FastPath, FindEmpty,
         WakeUp, TimerFires, AfterWait, HangUp, vars

\* No message is lost, duplicated or invented by the queue, and each connection
\* sees its messages in order.
THEOREM MessagesConserved == Spec => [](Conservation /\ InOrderPerConnection)
<1>1. Init => Conservation /\ InOrderPerConnection
  <2> SUFFICES ASSUME Init PROVE Conservation /\ InOrderPerConnection
    OBVIOUS
  <2>1. \A c \in Consumers : Taken(c) = {} /\ Holding(c) = {}
    BY EmptyElements DEF Init, Taken, Holding
  <2> QED
    BY <2>1, EmptyElements DEF Init, Conservation, InOrderPerConnection
<1>2. /\ TypeOK /\ TypeOK' /\ QueueIsNewest
      /\ Conservation /\ InOrderPerConnection /\ [Next]_vars
      => (Conservation /\ InOrderPerConnection)'
  BY PlacesStep
<1> QED
  BY <1>1, <1>2, TypeCorrect, QueueHoldsNewest, PTL DEF Spec

\* What one connection gets is in the order of the Enqueue calls.
THEOREM ConnectionsInOrder == Spec => []InOrderPerConnection
BY MessagesConserved, PTL

-----------------------------------------------------------------------------
\* Producers between their append and their send
Signalling == {p \in Producers : producer[p] = "signal"}

\* Every Enqueue pays for one send at most, and every token for one wake-up.
\* That finitely many producers are about to send makes their number count.
TokensPaidFor == IsFiniteSet(Signalling) /\ WakeupsPaidFor

\* Wake-ups never outnumber messages, however polls and Enqueue calls interleave.
THEOREM WakeupsAlwaysPaidFor == Spec => []WakeupsPaidFor
<1> DEFINE Token == IF notify THEN 1 ELSE 0
<1>1. Init => TokensPaidFor
  <2> SUFFICES ASSUME Init PROVE TokensPaidFor
    OBVIOUS
  <2>1. Signalling = {}
    BY DEF Init, Signalling
  <2>2. Cardinality(Signalling) = 0 /\ IsFiniteSet(Signalling)
    BY <2>1, FS_EmptySet
  <2> QED
    BY <2>2 DEF Init, TokensPaidFor, WakeupsPaidFor, Signalling
<1>2. TypeOK /\ TokensPaidFor /\ [Next]_vars => TokensPaidFor'
  <2> SUFFICES ASSUME TypeOK, TokensPaidFor, [Next]_vars PROVE TokensPaidFor'
    OBVIOUS
  <2>t. /\ IsFiniteSet(Signalling) /\ Cardinality(Signalling) \in Nat
        /\ sent \in Nat /\ wakeups \in Nat /\ notify \in BOOLEAN
        /\ wakeups + Token + Cardinality(Signalling) <= sent
    BY FS_CardinalityType DEF TypeOK, TokensPaidFor, WakeupsPaidFor, Signalling
  <2>1. ASSUME NEW p \in Producers, EnqueueAppend(p) PROVE TokensPaidFor'
    <3>1. Signalling' = Signalling \cup {p} /\ p \notin Signalling
      BY <2>1 DEF EnqueueAppend, Signalling, TypeOK
    <3>2. IsFiniteSet(Signalling') /\ Cardinality(Signalling') = Cardinality(Signalling) + 1
      BY <2>t, <3>1, FS_AddElement
    <3>3. sent' = sent + 1 /\ wakeups' = wakeups /\ Token' = Token
      BY <2>1 DEF EnqueueAppend
    <3>4. wakeups' + Token' + Cardinality(Signalling') <= sent'
      BY <2>t, <3>2, <3>3
    <3> QED
      BY <3>2, <3>4 DEF TokensPaidFor, WakeupsPaidFor, Signalling
  <2>2. ASSUME NEW p \in Producers, EnqueueSignal(p) PROVE TokensPaidFor'
    <3>1. Signalling' = Signalling \ {p} /\ p \in Signalling
      BY <2>2 DEF EnqueueSignal, Signalling, TypeOK
    <3>2. IsFiniteSet(Signalling') /\ Cardinality(Signalling') = Cardinality(Signalling) - 1
      BY <2>t, <3>1, FS_RemoveElement
    <3>3. sent' = sent /\ wakeups' = wakeups /\ Token' = 1
      BY <2>2 DEF EnqueueSignal
    <3>4. wakeups' + Token' + Cardinality(Signalling') <= sent'
      BY <2>t, <3>2, <3>3
    <3> QED
      BY <3>2, <3>4 DEF TokensPaidFor, WakeupsPaidFor, Signalling
  <2>3. ASSUME NEW c \in Consumers, WakeUp(c) PROVE TokensPaidFor'
    <3>1. Signalling' = Signalling /\ sent' = sent
      BY <2>3 DEF WakeUp, Signalling
    <3>2. wakeups' = wakeups + 1 /\ Token = 1 /\ Token' = 0
      BY <2>3 DEF WakeUp
    <3>3. wakeups' + Token' + Cardinality(Signalling') <= sent'
      BY <2>t, <3>1, <3>2
    <3> QED
      BY <2>t, <3>1, <3>3 DEF TokensPaidFor, WakeupsPaidFor, Signalling
  <2>4. CASE UNCHANGED <<sent, notify, producer, wakeups>>
    BY <2>4 DEF TokensPaidFor, WakeupsPaidFor, Signalling
  <2> QED
    BY <2>1, <2>2, <2>3, <2>4
       DEF Next, Enqueue, Dequeue, Poll, FastPath, TakeAll, FindEmpty, TimerFires,
           AfterWait, Respond, HangUp, vars
<1>3. TokensPaidFor => WakeupsPaidFor
  BY DEF TokensPaidFor
<1> QED
  BY <1>1, <1>2, <1>3, TypeCorrect, PTL DEF Spec

-----------------------------------------------------------------------------
\* Every step of the queue is a step of the mailbox or changes nothing there:
\* EnqueueAppend puts, a locked region that finds messages takes, Respond hands
\* over, and signals, timers and empty answers are invisible.
LEMMA MailboxStep ==
    ASSUME TypeOK, [Next]_vars
    PROVE  [Abstract!Next]_(Abstract!vars)
<1> DEFINE Got == UNION {delivered[c] : c \in Consumers}
<1>1. ASSUME NEW p \in Producers, EnqueueAppend(p)
      PROVE  Abstract!Put
  BY <1>1 DEF EnqueueAppend, Abstract!Put
<1>2. ASSUME NEW c \in Consumers, TakeAll(c), batch[c] = <<>>
      PROVE  Abstract!Take(c)
  BY <1>2 DEF TakeAll, Abstract!Take
<1>3. ASSUME NEW c \in Consumers, Respond(c)
      PROVE  Abstract!HandOver(c) \/ UNCHANGED Abstract!vars
  <2>1. /\ batch' = [batch EXCEPT ![c] = <<>>]
        /\ UNCHANGED <<sent, queue>>
    BY <1>3 DEF Respond
  <2>2. CASE c \in gone
    <3>1. Got' = Got /\ lost' = lost \cup Elements(batch[c])
      BY <1>3, <2>2 DEF Respond
    <3>2. CASE batch[c] = <<>>
      BY <2>1, <3>1, <3>2, EmptyElements DEF TypeOK, Abstract!vars
    <3>3. CASE batch[c] # <<>>
      BY <2>1, <3>1, <3>3 DEF Abstract!HandOver, Abstract!Elements, Elements
    <3> QED
      BY <3>2, <3>3
  <2>3. CASE c \notin gone
    <3>1. lost' = lost /\ delivered' = [delivered EXCEPT ![c] = @ \cup Elements(batch[c])]
      BY <1>3, <2>3 DEF Respond
    <3>2. Got' = Got \cup Elements(batch[c])
      BY <3>1 DEF TypeOK
    <3>3. CASE batch[c] = <<>>
      BY <2>1, <3>1, <3>2, <3>3, EmptyElements DEF TypeOK, Abstract!vars
    <3>4. CASE batch[c] # <<>>
      BY <2>1, <3>1, <3>2, <3>4 DEF Abstract!HandOver, Abstract!Elements, Elements
    <3> QED
      BY <3>3, <3>4
  <2> QED
    BY <2>2, <2>3
<1>4. CASE UNCHANGED <<sent, queue, batch, delivered, lost>>
  BY <1>4 DEF Abstract!vars
<1>5. \A c \in Consumers : consumer[c] # "respond" => batch[c] = <<>>
  BY DEF TypeOK
<1> QED
  BY <1>1, <1>2, <1>3, <1>4, <1>5
     DEF Next, Enqueue, Dequeue, EnqueueSignal, Poll, FastPath, FindEmpty,
         WakeUp, TimerFires, AfterWait, HangUp, vars, Abstract!Next

\* The queue between Enqueue and Dequeue behaves like the abstract mailbox.
THEOREM QueueImplementsMailbox == Spec => ImplementsMailbox
<1>1. Init => Abstract!Init
  <2> SUFFICES ASSUME Init PROVE Abstract!Init
    OBVIOUS
  <2>1. UNION {delivered[c] : c \in Consumers} = {}
    BY DEF Init
  <2> QED
    BY <2>1 DEF Init, Abstract!Init
<1>2. TypeOK /\ [Next]_vars => [Abstract!Next]_(Abstract!vars)
  BY MailboxStep
<1> QED
  BY <1>1, <1>2, TypeCorrect, PTL DEF Spec, ImplementsMailbox, Abstract!Spec
=============================================================================
