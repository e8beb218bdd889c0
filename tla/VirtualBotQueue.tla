--------------------------- MODULE VirtualBotQueue ---------------------------
(***************************************************************************)
(* The queue of one VirtualBot (ilink/registry.go) between the goroutines  *)
(* that call Enqueue and the getupdates requests that call Dequeue         *)
(* (ilink/handler.go).  Today one goroutine calls Enqueue, the pipeline's  *)
(* processLoop; the type is written for any number, and so is this module. *)
(*                                                                         *)
(* Enqueue appends under queueMu, unlocks, and only then sends on the      *)
(* notify channel (capacity 1, never blocking): the two halves are two     *)
(* steps here.  Dequeue looks at the queue, unlocks, waits for notify or   *)
(* for its 35 s timer, locks again and takes what is there: each region    *)
(* between two scheduling points is one step.  Dequeue does not watch its  *)
(* request, so a client that hangs up leaves the goroutine waiting.        *)
(***************************************************************************)
EXTENDS Naturals, Sequences, FiniteSets

CONSTANTS Producers,   \* goroutines that call Enqueue
          Consumers,   \* goroutines that serve getupdates
          MaxMessages  \* bound on the messages enqueued in a behaviour

ASSUME QueueAssumption == MaxMessages \in Nat

VARIABLES sent,      \* messages appended so far; the k-th one is number k
          queue,     \* VirtualBot.queue
          notify,    \* the notify channel holds a token
          producer,  \* producer[p]: "idle", or "signal" between append and send
          consumer,  \* consumer[c]: where the goroutine of request c stands
          batch,     \* batch[c]: the messages Dequeue returned to request c
          gone,      \* requests whose client hung up
          delivered, \* delivered[c]: messages written to a client by goroutine c
          lost,      \* messages written to a connection that was closed
          wakeups    \* tokens received from notify so far

vars == <<sent, queue, notify, producer, consumer, batch, gone, delivered,
          lost, wakeups>>

Elements(s) == {s[i] : i \in DOMAIN s}

Init ==
    /\ sent = 0
    /\ queue = <<>>
    /\ notify = FALSE
    /\ producer = [p \in Producers |-> "idle"]
    /\ consumer = [c \in Consumers |-> "idle"]
    /\ batch = [c \in Consumers |-> <<>>]
    /\ gone = {}
    /\ delivered = [c \in Consumers |-> {}]
    /\ lost = {}
    /\ wakeups = 0

-----------------------------------------------------------------------------
\* Enqueue: append under the lock ...
EnqueueAppend(p) ==
    /\ producer[p] = "idle"
    /\ sent < MaxMessages
    /\ sent' = sent + 1
    /\ queue' = Append(queue, sent + 1)
    /\ producer' = [producer EXCEPT ![p] = "signal"]
    /\ UNCHANGED <<notify, consumer, batch, gone, delivered, lost, wakeups>>

\* Variant: notify without its buffer, so that a send reaches only a goroutine
\* that has come as far as its select.
EnqueueSignalUnbuffered(p) ==
    /\ producer[p] = "signal"
    /\ notify' \in {notify, \E c \in Consumers : consumer[c] = "wait"}
    /\ producer' = [producer EXCEPT ![p] = "idle"]
    /\ UNCHANGED <<sent, queue, consumer, batch, gone, delivered, lost, wakeups>>

\* ... then a send that is dropped when the channel already holds a token.
EnqueueSignal(p) ==
    /\ producer[p] = "signal"
    /\ notify' = TRUE
    /\ producer' = [producer EXCEPT ![p] = "idle"]
    /\ UNCHANGED <<sent, queue, consumer, batch, gone, delivered, lost, wakeups>>

-----------------------------------------------------------------------------
\* A client sends getupdates; its token was found and Dequeue is entered.
Poll(c) ==
    /\ consumer[c] = "idle"
    /\ consumer' = [consumer EXCEPT ![c] = "check"]
    /\ UNCHANGED <<sent, queue, notify, producer, batch, gone, delivered, lost,
                   wakeups>>

\* Variants: the queue is not cleared; only its head is taken; a token is put
\* back for the next waiter.
TakeAllKeeps(c) ==
    /\ queue # <<>>
    /\ batch' = [batch EXCEPT ![c] = queue]
    /\ consumer' = [consumer EXCEPT ![c] = "respond"]
    /\ UNCHANGED <<sent, queue, notify, producer, gone, delivered, lost, wakeups>>

TakeHead(c) ==
    /\ queue # <<>>
    /\ batch' = [batch EXCEPT ![c] = <<Head(queue)>>]
    /\ queue' = Tail(queue)
    /\ consumer' = [consumer EXCEPT ![c] = "respond"]
    /\ UNCHANGED <<sent, notify, producer, gone, delivered, lost, wakeups>>

TakeAllAndSignal(c) ==
    /\ queue # <<>>
    /\ batch' = [batch EXCEPT ![c] = queue]
    /\ queue' = <<>>
    /\ consumer' = [consumer EXCEPT ![c] = "respond"]
    /\ notify' = TRUE
    /\ UNCHANGED <<sent, producer, gone, delivered, lost, wakeups>>

\* The body of every locked region of Dequeue: take all and return.
TakeAll(c) ==
    /\ queue # <<>>
    /\ batch' = [batch EXCEPT ![c] = queue]
    /\ queue' = <<>>
    /\ consumer' = [consumer EXCEPT ![c] = "respond"]
    /\ UNCHANGED <<sent, notify, producer, gone, delivered, lost, wakeups>>

\* The queue is empty in a locked region: go on to the given place.
FindEmpty(c, next) ==
    /\ queue = <<>>
    /\ consumer' = [consumer EXCEPT ![c] = next]
    /\ UNCHANGED <<sent, queue, notify, producer, batch, gone, delivered, lost,
                   wakeups>>

\* The fast path: take what is there or start to wait.  Place "wait" begins at
\* the unlock, before the select is reached.
FastPath(c) ==
    /\ consumer[c] = "check"
    /\ TakeAll(c) \/ FindEmpty(c, "wait")

\* select takes the notify case ...
WakeUp(c) ==
    /\ consumer[c] = "wait"
    /\ notify
    /\ notify' = FALSE
    /\ wakeups' = wakeups + 1
    /\ consumer' = [consumer EXCEPT ![c] = "woken"]
    /\ UNCHANGED <<sent, queue, producer, batch, gone, delivered, lost>>

\* ... or the timer case, which it may do while notify is ready as well.
TimerFires(c) ==
    /\ consumer[c] = "wait"
    /\ consumer' = [consumer EXCEPT ![c] = "expired"]
    /\ UNCHANGED <<sent, queue, notify, producer, batch, gone, delivered, lost,
                   wakeups>>

\* Variant: an empty queue after the wait means to wait again.
AfterWaitRetries(c) ==
    /\ consumer[c] \in {"woken", "expired"}
    /\ TakeAll(c) \/ FindEmpty(c, "wait")

\* After either case: lock, take all, or return with nothing.
AfterWait(c) ==
    /\ consumer[c] \in {"woken", "expired"}
    /\ TakeAll(c) \/ FindEmpty(c, "respond")

\* Variants: what a closed connection did not read goes back to the end of the
\* queue; the state of a closed connection outlives it.
RespondRequeues(c) ==
    /\ consumer[c] = "respond"
    /\ IF c \in gone
       THEN /\ queue' = queue \o batch[c]
            /\ UNCHANGED delivered
       ELSE /\ delivered' = [delivered EXCEPT ![c] = @ \cup Elements(batch[c])]
            /\ UNCHANGED queue
    /\ batch' = [batch EXCEPT ![c] = <<>>]
    /\ consumer' = [consumer EXCEPT ![c] = "idle"]
    /\ gone' = gone \ {c}
    /\ UNCHANGED <<sent, lost, notify, producer, wakeups>>

RespondForgets(c) ==
    /\ consumer[c] = "respond"
    /\ lost' = IF c \in gone THEN lost \cup Elements(batch[c]) ELSE lost
    /\ delivered' = IF c \in gone THEN delivered
                    ELSE [delivered EXCEPT ![c] = @ \cup Elements(batch[c])]
    /\ batch' = [batch EXCEPT ![c] = <<>>]
    /\ consumer' = [consumer EXCEPT ![c] = "idle"]
    /\ UNCHANGED <<sent, queue, gone, notify, producer, wakeups>>

\* handleGetUpdates writes the answer; nothing is put back if nobody reads it.
Respond(c) ==
    /\ consumer[c] = "respond"
    /\ IF c \in gone
       THEN /\ lost' = lost \cup Elements(batch[c])
            /\ UNCHANGED delivered
       ELSE /\ delivered' = [delivered EXCEPT ![c] = @ \cup Elements(batch[c])]
            /\ UNCHANGED lost
    /\ batch' = [batch EXCEPT ![c] = <<>>]
    /\ consumer' = [consumer EXCEPT ![c] = "idle"]
    /\ gone' = gone \ {c}
    /\ UNCHANGED <<sent, queue, notify, producer, wakeups>>

\* The client closes the connection; Dequeue does not notice.
HangUp(c) ==
    /\ consumer[c] # "idle"
    /\ c \notin gone
    /\ gone' = gone \cup {c}
    /\ UNCHANGED <<sent, queue, notify, producer, consumer, batch, delivered,
                   lost, wakeups>>

Enqueue(p) == EnqueueAppend(p) \/ EnqueueSignal(p)
Dequeue(c) == FastPath(c) \/ WakeUp(c) \/ TimerFires(c) \/ AfterWait(c)

Next ==
    \/ \E p \in Producers : Enqueue(p)
    \/ \E c \in Consumers : Poll(c) \/ Dequeue(c) \/ Respond(c) \/ HangUp(c)

Spec == Init /\ [][Next]_vars

\* Goroutines that can run do run, and a receiver that waits on a channel that
\* holds a token gets it.  Nothing makes a client poll, and the timer is left
\* out: what follows must not need it.
PromptFairness ==
    /\ \A p \in Producers : WF_vars(EnqueueSignal(p))
    /\ \A c \in Consumers :
          /\ WF_vars(FastPath(c))
          /\ WF_vars(WakeUp(c))
          /\ WF_vars(AfterWait(c))
          /\ WF_vars(Respond(c))

PromptSpec == Spec /\ PromptFairness

-----------------------------------------------------------------------------
Messages == 1..MaxMessages

\* Types, and which local state goes with which place in the code.
TypeOK ==
    /\ sent \in 0..MaxMessages
    /\ queue \in Seq(Messages)
    /\ notify \in BOOLEAN
    /\ producer \in [Producers -> {"idle", "signal"}]
    /\ consumer \in [Consumers -> {"idle", "check", "wait", "woken", "expired",
                                   "respond"}]
    /\ batch \in [Consumers -> Seq(Messages)]
    /\ \A c \in Consumers : batch[c] # <<>> => consumer[c] = "respond"
    /\ gone \subseteq {c \in Consumers : consumer[c] # "idle"}
    /\ delivered \in [Consumers -> SUBSET Messages]
    /\ lost \subseteq Messages
    /\ wakeups \in Nat

\* The queue holds exactly the newest messages, each once, in the order of
\* their Enqueue calls: no locked region of Dequeue drops one, keeps one it
\* returned, or reorders them.
QueueIsNewest ==
    /\ Len(queue) <= sent
    /\ \A i \in DOMAIN queue : queue[i] = sent - Len(queue) + i

\* What left the queue through request slot c and was not lost.
Holding(c) == Elements(batch[c])
Taken(c) == Holding(c) \cup delivered[c]

\* Every message that Enqueue accepted is in exactly one place: the queue, one
\* getupdates answer being written, a client, or a closed connection.
\* Concurrent polls never both return it, and none of them drops it.
Conservation ==
    /\ 1..sent = Elements(queue) \cup lost \cup UNION {Taken(c) : c \in Consumers}
    /\ Elements(queue) \cap lost = {}
    /\ \A c \in Consumers :
          /\ Holding(c) \cap delivered[c] = {}
          /\ Taken(c) \cap (Elements(queue) \cup lost) = {}
          /\ \A d \in Consumers \ {c} : Taken(c) \cap Taken(d) = {}

\* One connection that polls again and again sees the messages in the order of
\* their Enqueue calls, whatever other polls run beside it.
InOrderPerConnection ==
    \A c \in Consumers :
       /\ \A m \in delivered[c], n \in Holding(c) : m < n
       /\ \A m \in Taken(c), n \in Elements(queue) : m < n
       /\ \A i, j \in DOMAIN batch[c] : i < j => batch[c][i] < batch[c][j]

\* The wake-up protocol of Enqueue and Dequeue: messages never lie in the queue
\* while all there is to do is to sleep.  Either a token is in notify, or an
\* Enqueue is about to send one, or a woken Dequeue is about to take the queue.
NoLostWakeup ==
    queue # <<>> =>
       \/ notify
       \/ \E p \in Producers : producer[p] = "signal"
       \/ \E c \in Consumers : consumer[c] = "woken"

\* A token is paid for by an Enqueue: early empty answers ("woken, nothing
\* there") are bounded by the messages enqueued, so a polling client cannot be
\* driven into a busy loop by stale tokens.
WakeupsPaidFor ==
    wakeups + (IF notify THEN 1 ELSE 0)
            + Cardinality({p \in Producers : producer[p] = "signal"}) <= sent

\* A getupdates that waits is answered early by the arrival of a message,
\* without help from its timer: a message in the queue while somebody waits is
\* soon taken.
WaiterGetsMessage ==
    \A c \in Consumers :
       (queue # <<>> /\ consumer[c] = "wait") ~> queue = <<>>

\* Every getupdates is answered, message or not, if the runtime fires the 35 s
\* timer of Dequeue: neither the other polls nor the producers can starve it.
EveryPollAnswered ==
    (\A c \in Consumers : WF_vars(TimerFires(c))) =>
        \A c \in Consumers : consumer[c] = "check" ~> consumer[c] = "idle"

\* The queue implements the mailbox.
Abstract == INSTANCE Mailbox
    WITH put <- sent, pending <- queue, hand <- batch,
         received <- UNION {delivered[c] : c \in Consumers}, dropped <- lost

ImplementsMailbox == Abstract!Spec
=============================================================================
