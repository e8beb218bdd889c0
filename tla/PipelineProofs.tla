---------------------------- MODULE PipelineProofs ----------------------------
(***************************************************************************)
(* Theorems about Pipeline for all users, backends, texts and rules and    *)
(* every number of messages, requests and upsets.  The first half is about *)
(* messages: processLoop is the only one that ends with a message, and     *)
(* what a step may do depends on the place where it stands.  The second    *)
(* half is about users' choices, which two requests and the commands       *)
(* change in an order nobody controls.                                     *)
(***************************************************************************)
EXTENDS Pipeline, FiniteSetTheorems, TLAPS

-----------------------------------------------------------------------------
(* Messages                                                                    *)

\* The places between the decision to handle a message and its end
Inner == {"parse", "use", "answer", "forward", "handle", "reply", "apologise"}

Fates == {Open, "answered", "unsent", "handed", "silent", "cut", "skipped",
          "unanswerable", "panicked", "died"}

MessageTypes ==
    /\ arrived \in 0..MaxMessages
    /\ taken \in 0..arrived
    /\ loop.at \in Places
    /\ fate \in [1..MaxMessages -> Fates]
    /\ inFlight \in Nat
    /\ Busy => taken # 0

\* The pipeline has ended with a message, and skips one only if it has no account
Ended(m) ==
    /\ fate[m] # Open
    /\ fate[m] \in {"skipped", "unanswerable"} => m \in orphaned

\* Messages before the one at hand are ended with, those after it are not, and the
\* place of processLoop says which it is for the one at hand.
MessagesInTurn ==
    \A m \in 1..MaxMessages :
        IF m > taken \/ (m = taken /\ Busy /\ loop.at # "finish")
        THEN fate[m] = Open ELSE Ended(m)

\* While no account is listed, every message that waits has been without one.
OrphansKnown ==
    ~listed => \A m \in 1..arrived : fate[m] = Open => m \in orphaned

\* What main waits for was counted; the next message is not, until Begin.
PledgeKept ==
    \A m \in pledged : m \in 1..taken /\ (m = taken => loop.at # "received")

\* A process that is down runs no processLoop and holds no message.
DownIsStopped == main = "down" => loop.at = "stopped" /\ taken = arrived

MessageInv ==
    /\ MessageTypes
    /\ WaitGroupBalanced
    /\ MessagesInTurn
    /\ OrphansKnown
    /\ PledgeKept
    /\ DownIsStopped
    /\ DrainKeepsItsPromise

\* An invariant of messages looks at these variables only, and at no more of listed
\* than whether the account is gone.
LEMMA MessagesUntouched ==
    ASSUME MessageInv, UNCHANGED <<messageVars, pledged>>,
           main' = main, listed' \in {listed, TRUE}
    PROVE  MessageInv'
<1> USE DEF messageVars
<1>1. MessageTypes'
  BY DEF MessageInv, MessageTypes, Busy
<1>2. WaitGroupBalanced'
  BY DEF MessageInv, WaitGroupBalanced, Counted, Busy
<1>3. MessagesInTurn'
  BY DEF MessageInv, MessagesInTurn, Ended, Busy
<1>4. OrphansKnown'
  BY DEF MessageInv, OrphansKnown
<1>5. PledgeKept' /\ DownIsStopped' /\ DrainKeepsItsPromise'
  BY DEF MessageInv, PledgeKept, DownIsStopped, DrainKeepsItsPromise
<1> QED
  BY <1>1, <1>2, <1>3, <1>4, <1>5 DEF MessageInv

\* processLoop goes from place to place with the same message.
LEMMA PlaceToPlace ==
    ASSUME MessageInv, Alive, loop'.at \in Places, Counted <=> Counted',
           Busy <=> Busy', loop.at # "finish", loop'.at \notin {"finish", "received"},
           UNCHANGED <<arrived, taken, inFlight, fate, orphaned, pledged, main, listed>>
    PROVE  MessageInv'
<1>1. MessageTypes'
  BY DEF MessageInv, MessageTypes
<1>2. WaitGroupBalanced'
  BY DEF MessageInv, WaitGroupBalanced
<1>3. MessagesInTurn'
  BY DEF MessageInv, MessagesInTurn, Ended
<1>4. OrphansKnown'
  BY DEF MessageInv, OrphansKnown
<1>5. PledgeKept' /\ DownIsStopped' /\ DrainKeepsItsPromise'
  BY DEF MessageInv, PledgeKept, DownIsStopped, DrainKeepsItsPromise, Alive
<1> QED
  BY <1>1, <1>2, <1>3, <1>4, <1>5 DEF MessageInv

\* processLoop ends with the message at hand.
LEMMA MessageEnds ==
    ASSUME MessageInv, Alive, loop.at \in Inner \cup {"received"},
           NEW how \in Fates \ {Open}, fate' = [fate EXCEPT ![taken] = how],
           how \in {"skipped", "unanswerable"} => ~listed,
           \/ /\ loop'.at = "finish"
              /\ inFlight' = IF loop.at = "received" THEN inFlight + 1 ELSE inFlight
           \/ /\ loop'.at = "panicked" /\ loop.at # "received"
              /\ inFlight' = inFlight - 1,
           UNCHANGED <<arrived, taken, orphaned, pledged, main, listed>>
    PROVE  MessageInv'
<1> USE PipelineAssumption DEF Inner, Busy, Counted
<1>0. Busy /\ taken \in 1..MaxMessages /\ taken \in 1..arrived /\ fate[taken] = Open
  <2>1. Busy /\ taken \in 1..MaxMessages /\ taken \in 1..arrived
    BY DEF MessageInv, MessageTypes
  <2> QED
    BY <2>1 DEF MessageInv, MessagesInTurn
<1>1. fate' \in [1..MaxMessages -> Fates]
  BY DEF MessageInv, MessageTypes
<1>2. inFlight' \in Nat /\ WaitGroupBalanced'
  BY DEF MessageInv, MessageTypes, WaitGroupBalanced
<1>3. MessageTypes'
  BY <1>0, <1>1, <1>2 DEF MessageInv, MessageTypes, Places
<1>4. /\ fate'[taken] = how
      /\ \A m \in 1..MaxMessages : m # taken => fate'[m] = fate[m]
  BY <1>0 DEF MessageInv, MessageTypes
<1>5. how \in {"skipped", "unanswerable"} => taken \in orphaned
  BY <1>0 DEF MessageInv, OrphansKnown
<1>6. MessagesInTurn'
  <2> SUFFICES ASSUME NEW m \in 1..MaxMessages
               PROVE  IF m > taken THEN fate'[m] = Open ELSE Ended(m)'
    BY DEF MessagesInTurn
  <2>1. CASE m = taken
    BY <1>0, <1>4, <1>5, <2>1 DEF Ended
  <2>2. CASE m # taken
    BY <1>4, <2>2 DEF Ended, MessageInv, MessagesInTurn
  <2> QED
    BY <2>1, <2>2
<1>7. OrphansKnown'
  BY <1>0, <1>4 DEF MessageInv, MessageTypes, OrphansKnown
<1>8. PledgeKept' /\ DownIsStopped'
  BY DEF MessageInv, PledgeKept, DownIsStopped, Alive
<1>9. DrainKeepsItsPromise'
  BY <1>0, <1>4 DEF MessageInv, MessageTypes, PledgeKept, DrainKeepsItsPromise
<1> QED
  BY <1>2, <1>3, <1>6, <1>7, <1>8, <1>9 DEF MessageInv

\* The process goes down, and every open message with it.
LEMMA MessagesDie == ASSUME MessageInv, Dies PROVE MessageInv'
<1> USE PipelineAssumption DEF Dies, Goto, At
<1>1. /\ loop' = [at |-> "stopped"] /\ taken' = arrived /\ arrived' = arrived
      /\ inFlight' = 0 /\ main' = "down" /\ pledged' = {} /\ orphaned' = orphaned
  OBVIOUS
<1>2. \A m \in 1..MaxMessages :
         fate'[m] = IF m <= arrived /\ fate[m] = Open THEN "died" ELSE fate[m]
  BY DEF OpenMessages, MessageInv, MessageTypes
<1>3. MessageTypes'
  <2>1. fate' \in [1..MaxMessages -> Fates]
    BY DEF MessageInv, MessageTypes, Fates
  <2> QED
    BY <1>1, <2>1 DEF MessageInv, MessageTypes, Places, Busy
<1>4. WaitGroupBalanced'
  BY <1>1 DEF WaitGroupBalanced, Counted, Busy
<1>5. MessagesInTurn'
  <2> SUFFICES ASSUME NEW m \in 1..MaxMessages
               PROVE  IF m > arrived THEN fate'[m] = Open ELSE Ended(m)'
    BY <1>1 DEF MessagesInTurn, Busy
  <2>1. fate[m] = Open \/ Ended(m)
    BY DEF MessageInv, MessagesInTurn
  <2>2. m > arrived => fate[m] = Open
    BY DEF MessageInv, MessageTypes, MessagesInTurn
  <2>3. arrived \in Nat
    BY DEF MessageInv, MessageTypes
  <2> QED
    BY <1>1, <1>2, <2>1, <2>2, <2>3 DEF Ended, Open
<1>6. OrphansKnown'
  BY <1>1, <1>2 DEF OrphansKnown, Open, MessageInv, MessageTypes
<1>7. PledgeKept' /\ DownIsStopped' /\ DrainKeepsItsPromise'
  BY <1>1 DEF PledgeKept, DownIsStopped, DrainKeepsItsPromise
<1> QED
  BY <1>3, <1>4, <1>5, <1>6, <1>7 DEF MessageInv

\* Each step of processLoop.
LEMMA LoopStep == ASSUME MessageInv, Loop PROVE MessageInv'
<1> USE DEF Unread, Others, Goto, At
<1>t. loop.at \in Places
  BY DEF MessageInv, MessageTypes
<1>1. CASE Receive
  <2>1. /\ taken \in Nat /\ taken' = taken + 1 /\ taken' \in 1..arrived
        /\ loop'.at = "received" /\ ~Busy /\ Busy' /\ ~Counted /\ ~Counted'
        /\ Alive
        /\ UNCHANGED <<arrived, orphaned, pledged, main, listed, inFlight, fate>>
    BY <1>1 DEF Receive, MessageInv, MessageTypes, Busy, Counted
  <2>2. MessageTypes'
    BY <2>1 DEF MessageInv, MessageTypes, Places
  <2>3. WaitGroupBalanced'
    BY <2>1 DEF MessageInv, WaitGroupBalanced
  <2>4. MessagesInTurn'
    BY <2>1 DEF MessageInv, MessageTypes, MessagesInTurn, Ended
  <2>5. OrphansKnown' /\ DownIsStopped' /\ DrainKeepsItsPromise'
    BY <2>1 DEF MessageInv, OrphansKnown, DownIsStopped, DrainKeepsItsPromise, Alive
  <2>6. PledgeKept'
    BY <2>1 DEF MessageInv, PledgeKept
  <2> QED
    BY <2>2, <2>3, <2>4, <2>5, <2>6 DEF MessageInv
<1>2. CASE Stop
  BY <1>2, PlaceToPlace DEF Stop, Busy, Counted, Places
<1>3. CASE Begin
  <2>1. CASE listed
    <3>1. /\ loop.at = "received" /\ loop'.at = "parse" /\ inFlight' = inFlight + 1
          /\ Alive /\ UNCHANGED <<arrived, taken, fate, orphaned, pledged, main, listed>>
      BY <1>3, <2>1 DEF Begin
    <3>2. MessageTypes' /\ WaitGroupBalanced'
      BY <3>1 DEF MessageInv, MessageTypes, WaitGroupBalanced, Counted, Busy, Places
    <3>3. MessagesInTurn'
      BY <3>1 DEF MessageInv, MessagesInTurn, Ended, Busy
    <3>4. OrphansKnown' /\ PledgeKept' /\ DownIsStopped' /\ DrainKeepsItsPromise'
      BY <3>1 DEF MessageInv, OrphansKnown, PledgeKept, DownIsStopped,
                  DrainKeepsItsPromise, Alive
    <3> QED
      BY <3>2, <3>3, <3>4 DEF MessageInv
  <2>2. CASE ~listed
    <3>1. "skipped" \in Fates \ {Open}
      BY DEF Fates, Open
    <3> QED
      BY <1>3, <2>2, <3>1, MessageEnds DEF Begin
  <2> QED
    BY <2>1, <2>2
<1>4. ASSUME loop.at \in Inner, loop'.at \in Inner, Alive,
             UNCHANGED <<taken, inFlight, fate, arrived, orphaned, pledged, main, listed>>
      PROVE  MessageInv'
  BY <1>4, PlaceToPlace DEF Inner, Busy, Counted, Places
<1>5. ASSUME NEW text \in Texts,
             \/ Inform(text) \/ ForwardOnce(text)
             \/ \E u \in Users : \/ RouteText(u, text) \/ Unknown(u, text)
                                 \/ UseMain(u, text) \/ UseBackend(u, text)
      PROVE  MessageInv'
  BY <1>4, <1>5 DEF RouteText, Inform, ForwardOnce, Unknown, UseMain, UseBackend,
                    Parsing, SendTo, Inner
<1>6. ASSUME UseSet \/ Forward \/ HandleReturns PROVE MessageInv'
  BY <1>4, <1>6 DEF UseSet, Forward, HandleReturns, Inner
<1>7. ASSUME loop.at \in Inner, Alive, NEW how \in Fates \ {Open}, End(how),
             how \in {"skipped", "unanswerable"} => ~listed,
             UNCHANGED <<taken, inFlight, arrived, orphaned, pledged, main, listed>>
      PROVE  MessageInv'
  BY <1>7, MessageEnds DEF End, Inner
<1>8. ASSUME AnswerCommand \/ AnswerOfBackend \/ Apologise \/ HandedOver \/ SaysNothing
      PROVE  MessageInv'
  <2>2. ASSUME NEW context \in BOOLEAN, Answer(context), Alive, loop.at \in Inner
        PROVE  MessageInv'
    <3>1. UNCHANGED <<taken, inFlight, arrived, orphaned, pledged, main, listed>>
      BY <2>2 DEF Answer
    <3>2. CASE End("unsent")
      <4>1. "unsent" \in Fates \ {Open}
        BY DEF Fates, Open
      <4> QED
        BY <1>7, <2>2, <3>1, <3>2, <4>1
    <3> DEFINE how == IF ~listed THEN "unanswerable"
                      ELSE IF context /\ Cancelled THEN "cut" ELSE "answered"
    <3>3. /\ how \in Fates \ {Open}
          /\ how \in {"skipped", "unanswerable"} => ~listed
      BY DEF Fates, Open
    <3>4. End(how) \/ End("unsent")
      BY <2>2 DEF Answer
    <3> HIDE DEF how
    <3> QED
      BY <1>7, <2>2, <3>1, <3>2, <3>3, <3>4
  <2>3. "handed" \in Fates \ {Open} /\ "silent" \in Fates \ {Open}
    BY DEF Fates, Open
  <2>4. CASE HandedOver \/ SaysNothing
    BY <1>7, <2>3, <2>4 DEF HandedOver, SaysNothing, Inner
  <2> QED
    BY <1>8, <2>2, <2>4 DEF AnswerCommand, AnswerOfBackend, Apologise, Inner
<1>9. CASE Panics
  <2>1. "panicked" \in Fates \ {Open}
    BY DEF Fates, Open
  <2> QED
    BY <1>9, <2>1, MessageEnds DEF Panics, Inner
<1>10. CASE Recover
  BY <1>10, PlaceToPlace DEF Recover, Busy, Counted, Places
<1>11. CASE Finish
  <2>1. /\ loop.at = "finish" /\ loop'.at = "select" /\ inFlight' = inFlight - 1
        /\ Alive /\ UNCHANGED <<arrived, taken, fate, orphaned, pledged, main, listed>>
    BY <1>11 DEF Finish
  <2>2. MessageTypes' /\ WaitGroupBalanced'
    BY <2>1 DEF MessageInv, MessageTypes, WaitGroupBalanced, Counted, Busy, Places
  <2>3. MessagesInTurn'
    BY <2>1 DEF MessageInv, MessagesInTurn, Ended, Busy
  <2>4. OrphansKnown' /\ PledgeKept' /\ DownIsStopped' /\ DrainKeepsItsPromise'
    BY <2>1 DEF MessageInv, OrphansKnown, PledgeKept, DownIsStopped,
                DrainKeepsItsPromise, Alive
  <2> QED
    BY <2>2, <2>3, <2>4 DEF MessageInv
<1> QED
  BY <1>1, <1>2, <1>3, <1>5, <1>6, <1>8, <1>9, <1>10, <1>11 DEF Loop

\* Each step changes one side of what the invariant relates, and it survives.
LEMMA MessageStep == ASSUME MessageInv, [Next]_vars PROVE MessageInv'
<1> USE PipelineAssumption
<1>1. CASE Loop
  BY <1>1, LoopStep
<1>2. CASE Requests
  BY <1>2, MessagesUntouched
     DEF Requests, SwitchSaves, SwitchApplies, ClearDeletes, ClearApplies,
         ModeReads, ModeWrites, SessionRequest
<1>3. CASE Signal
  <2>1. /\ main' = "waiting" /\ main = "serving"
        /\ pledged' = IF Counted THEN {taken} ELSE {}
        /\ UNCHANGED <<messageVars, listed>>
    BY <1>3 DEF Signal
  <2>2. PledgeKept'
    BY <2>1 DEF MessageInv, MessageTypes, PledgeKept, Counted, Busy, messageVars
  <2>3. MessageTypes' /\ WaitGroupBalanced'
    BY <2>1 DEF MessageInv, MessageTypes, WaitGroupBalanced, Counted, Busy, messageVars
  <2>4. MessagesInTurn'
    BY <2>1 DEF MessageInv, MessagesInTurn, Ended, Busy, messageVars
  <2>5. OrphansKnown' /\ DownIsStopped' /\ DrainKeepsItsPromise'
    BY <2>1 DEF MessageInv, OrphansKnown, DownIsStopped, DrainKeepsItsPromise,
                messageVars
  <2> QED
    BY <2>2, <2>3, <2>4, <2>5 DEF MessageInv
<1>a. ASSUME NEW to, main # "down", main' = to, to # "down",
             UNCHANGED <<messageVars, pledged>>, listed' = listed,
             to = "drained" => inFlight = 0
      PROVE  MessageInv'
  <2> USE DEF messageVars
  <2>1. MessageTypes' /\ WaitGroupBalanced'
    BY <1>a DEF MessageInv, MessageTypes, WaitGroupBalanced, Counted, Busy
  <2>2. MessagesInTurn'
    BY <1>a DEF MessageInv, MessagesInTurn, Ended, Busy
  <2>3. OrphansKnown' /\ PledgeKept' /\ DownIsStopped'
    BY <1>a DEF MessageInv, OrphansKnown, PledgeKept, DownIsStopped
  <2>4. ASSUME to = "drained", NEW m \in pledged PROVE fate[m] # Open
    <3>1. m \in 1..taken /\ (m = taken => loop.at # "received") /\ ~Counted
      BY <1>a, <2>4 DEF MessageInv, PledgeKept, WaitGroupBalanced
    <3>2. m \in 1..MaxMessages /\ ~(m > taken)
      BY <3>1 DEF MessageInv, MessageTypes
    <3> QED
      BY <3>1, <3>2 DEF MessageInv, MessagesInTurn, Ended, Counted
  <2>5. DrainKeepsItsPromise'
    BY <1>a, <2>4 DEF DrainKeepsItsPromise
  <2> QED
    BY <2>1, <2>2, <2>3, <2>5 DEF MessageInv
<1>4. CASE Drained \/ DrainTimesOut
  BY <1>4, <1>a DEF Drained, DrainTimesOut, MainGoes
<1>b. ASSUME listed' = FALSE, orphaned' = orphaned \cup OpenMessages,
             main # "down", main' \notin {"down", "drained"} \/ main' = main,
             UNCHANGED <<arrived, taken, loop, inFlight, fate, pledged>>
      PROVE  MessageInv'
  <2>1. MessageTypes' /\ WaitGroupBalanced'
    BY <1>b DEF MessageInv, MessageTypes, WaitGroupBalanced, Counted, Busy
  <2>2. MessagesInTurn'
    BY <1>b DEF MessageInv, MessagesInTurn, Ended, Busy
  <2>3. OrphansKnown'
    BY <1>b DEF OrphansKnown, OpenMessages
  <2>4. PledgeKept' /\ DownIsStopped' /\ DrainKeepsItsPromise'
    BY <1>b DEF MessageInv, PledgeKept, DownIsStopped, DrainKeepsItsPromise
  <2> QED
    BY <2>1, <2>2, <2>3, <2>4 DEF MessageInv
<1>5. CASE AccountsRemoved
  BY <1>5, <1>b DEF AccountsRemoved
<1>6. CASE AccountRemoved
  BY <1>6, <1>b DEF AccountRemoved, Alive
<1>7. CASE Exit \/ Crash
  BY <1>7, MessagesDie DEF Exit, Crash
<1>8. ASSUME NEW read \in BOOLEAN, Boot(read) PROVE MessageInv'
  <2>1. /\ main = "down" /\ main' = "serving" /\ listed' \in BOOLEAN
        /\ loop.at = "stopped" /\ loop'.at = "select" /\ taken = arrived
        /\ UNCHANGED <<arrived, taken, inFlight, fate, orphaned, pledged>>
    BY <1>8 DEF Boot, Goto, At, MessageInv, DownIsStopped
  <2>2. MessageTypes' /\ WaitGroupBalanced'
    BY <2>1 DEF MessageInv, MessageTypes, WaitGroupBalanced, Counted, Busy, Places
  <2>3. MessagesInTurn'
    BY <2>1 DEF MessageInv, MessagesInTurn, Ended, Busy
  <2>4. OrphansKnown'
    BY <2>1 DEF MessageInv, MessageTypes, MessagesInTurn, Ended, Busy, OrphansKnown
  <2>5. PledgeKept' /\ DownIsStopped' /\ DrainKeepsItsPromise'
    BY <2>1 DEF MessageInv, PledgeKept, DownIsStopped, DrainKeepsItsPromise
  <2> QED
    BY <2>2, <2>3, <2>4, <2>5 DEF MessageInv
<1>9. CASE Arrive
  <2>1. /\ arrived < MaxMessages /\ arrived' = arrived + 1
        /\ orphaned' = IF listed THEN orphaned ELSE orphaned \cup {arrived + 1}
        /\ main # "down"
        /\ UNCHANGED <<taken, loop, inFlight, fate, main, listed, pledged>>
    BY <1>9 DEF Arrive, Alive
  <2>2. MessageTypes' /\ WaitGroupBalanced'
    BY <2>1 DEF MessageInv, MessageTypes, WaitGroupBalanced, Counted, Busy
  <2>3. MessagesInTurn'
    BY <2>1 DEF MessageInv, MessagesInTurn, Ended, Busy
  <2>4. OrphansKnown'
    BY <2>1 DEF MessageInv, MessageTypes, OrphansKnown
  <2>5. PledgeKept' /\ DownIsStopped' /\ DrainKeepsItsPromise'
    BY <2>1 DEF MessageInv, PledgeKept, DownIsStopped, DrainKeepsItsPromise
  <2> QED
    BY <2>2, <2>3, <2>4, <2>5 DEF MessageInv
<1>10. ASSUME \/ FactoryResets \/ AccountListed
              \/ \E b \in Backends : FactoryRegisters(b)
       PROVE  MessageInv'
  BY <1>10, MessagesUntouched DEF FactoryResets, AccountListed, FactoryRegisters
<1>11. CASE UNCHANGED vars
  BY <1>11, MessagesUntouched DEF vars
<1> QED
  BY <1>1, <1>2, <1>3, <1>4, <1>5, <1>6, <1>7, <1>8, <1>9, <1>10, <1>11
     DEF Next, Main, Surroundings

LEMMA MessageInit == Init => MessageInv
<1> SUFFICES ASSUME Init PROVE MessageInv
  OBVIOUS
<1> USE PipelineAssumption DEF Init, At, Busy
<1>1. MessageTypes
  BY DEF MessageTypes, Places, Fates
<1>2. WaitGroupBalanced /\ MessagesInTurn /\ OrphansKnown
  BY DEF WaitGroupBalanced, Counted, MessagesInTurn, OrphansKnown
<1>3. PledgeKept /\ DownIsStopped /\ DrainKeepsItsPromise
  BY DEF PledgeKept, DownIsStopped, DrainKeepsItsPromise
<1> QED
  BY <1>1, <1>2, <1>3 DEF MessageInv

LEMMA MessagesInvariant == Spec => []MessageInv
BY MessageInit, MessageStep, PTL DEF Spec

\* The counter main waits on is exactly the message being processed, on every path
\* through processMessage.
THEOREM CounterBalances == Spec => []WaitGroupBalanced
BY MessagesInvariant, PTL DEF MessageInv

\* When main is told that nothing is in flight, what was counted at the signal has
\* been ended with.
THEOREM DrainWaits == Spec => []DrainKeepsItsPromise
BY MessagesInvariant, PTL DEF MessageInv

\* The message at hand was answered in vain only if the context is done.
CutIsCancelled == loop.at = "finish" /\ fate[taken] = "cut" => Cancelled

LEMMA CutStep == ASSUME MessageInv, CutIsCancelled, [Next]_vars PROVE CutIsCancelled'
<1> USE PipelineAssumption
<1>1. ASSUME loop'.at # "finish" PROVE CutIsCancelled'
  BY <1>1 DEF CutIsCancelled
<1>2. ASSUME UNCHANGED <<loop, taken, fate>>, main' = main \/ main' # "serving"
      PROVE  CutIsCancelled'
  BY <1>2 DEF CutIsCancelled, Cancelled
<1>3. ASSUME Busy, NEW how, fate' = [fate EXCEPT ![taken] = how], UNCHANGED <<taken, main>>,
             how = "cut" => Cancelled
      PROVE  CutIsCancelled'
  <2>1. fate'[taken] = how
    <3>1. taken \in 1..MaxMessages /\ fate \in [1..MaxMessages -> Fates]
      BY <1>3 DEF MessageInv, MessageTypes
    <3> QED
      BY <1>3, <3>1
  <2> QED
    BY <1>3, <2>1 DEF CutIsCancelled, Cancelled
<1>4. CASE Loop
  <2> USE DEF Unread, Others, Goto, At
  <2>1. CASE Begin
    <3>1. CASE listed
      BY <1>1, <2>1, <3>1 DEF Begin
    <3>2. CASE ~listed
      BY <1>3, <2>1, <3>2 DEF Begin, Busy
    <3> QED
      BY <3>1, <3>2
  <2>2. ASSUME NEW context \in BOOLEAN, Answer(context),
               loop.at \in {"answer", "reply", "apologise"}
        PROVE  CutIsCancelled'
    <3>1. PICK how : fate' = [fate EXCEPT ![taken] = how] /\ (how = "cut" => Cancelled)
      BY <2>2 DEF Answer, End
    <3>2. Busy /\ UNCHANGED <<taken, main>>
      BY <2>2 DEF Answer, Busy
    <3> QED
      BY <1>3, <3>1, <3>2
  <2>3. CASE HandedOver \/ SaysNothing
    BY <1>3, <2>3 DEF HandedOver, SaysNothing, End, Busy
  <2>4. CASE \/ Receive \/ Stop \/ UseSet \/ Forward \/ HandleReturns \/ Panics
             \/ Recover \/ Finish
    BY <1>1, <2>4 DEF Receive, Stop, UseSet, Forward, HandleReturns, Panics, Recover,
                      Finish
  <2>5. ASSUME NEW text \in Texts,
               \/ Inform(text) \/ ForwardOnce(text)
               \/ \E u \in Users : \/ RouteText(u, text) \/ Unknown(u, text)
                                   \/ UseMain(u, text) \/ UseBackend(u, text)
        PROVE  CutIsCancelled'
    BY <1>1, <2>5 DEF RouteText, Inform, ForwardOnce, Unknown, UseMain, UseBackend,
                      SendTo
  <2> QED
    BY <1>4, <2>1, <2>2, <2>3, <2>4, <2>5
       DEF Loop, AnswerCommand, AnswerOfBackend, Apologise
<1>5. CASE Requests
  BY <1>2, <1>5
     DEF Requests, SwitchSaves, SwitchApplies, ClearDeletes, ClearApplies,
         ModeReads, ModeWrites, SessionRequest, messageVars
<1>6. CASE Signal \/ Drained \/ DrainTimesOut \/ AccountsRemoved
  BY <1>2, <1>6 DEF Signal, Drained, DrainTimesOut, AccountsRemoved, MainGoes,
                    messageVars
<1>7. CASE Exit \/ Crash \/ \E read \in BOOLEAN : Boot(read)
  BY <1>1, <1>7 DEF Exit, Crash, Dies, Boot, Goto, At
<1>8. CASE \/ Arrive \/ FactoryResets \/ AccountRemoved \/ AccountListed
           \/ \E b \in Backends : FactoryRegisters(b)
  BY <1>2, <1>8 DEF Arrive, FactoryResets, AccountRemoved, AccountListed,
                    FactoryRegisters, messageVars
<1>9. CASE UNCHANGED vars
  BY <1>2, <1>9 DEF vars, messageVars
<1> QED
  BY <1>4, <1>5, <1>6, <1>7, <1>8, <1>9 DEF Next, Main, Surroundings

\* No message is let go before an answer was sent, or was tried to be sent, or a virtual
\* bot has it to answer, without one of the causes; and an answer is sent with a context
\* that is done only in a shutdown.
THEOREM NobodyIsIgnored == Spec => []NobodyIgnored
<1>1. MessageInv /\ CutIsCancelled => NobodyIgnored
  BY PipelineAssumption
     DEF MessageInv, MessageTypes, MessagesInTurn, Ended, NobodyIgnored, CutIsCancelled
<1>2. Init => CutIsCancelled
  BY DEF Init, At, CutIsCancelled
<1>3. Spec => []CutIsCancelled
  BY <1>2, CutStep, MessagesInvariant, PTL DEF Spec
<1> QED
  BY <1>1, <1>3, MessagesInvariant, PTL

\* A message that was ended with stays as it ended, in each step.
LEMMA EndsStay ==
    ASSUME MessageInv, [Next]_vars, NEW m \in 1..MaxMessages, fate[m] # Open
    PROVE  fate'[m] = fate[m]
<1> USE PipelineAssumption
<1>0. fate \in [1..MaxMessages -> Fates]
  BY DEF MessageInv, MessageTypes
<1>1. ASSUME Busy, loop.at # "finish", NEW how, fate' = [fate EXCEPT ![taken] = how]
      PROVE  fate'[m] = fate[m]
  <2>1. m # taken
    BY <1>1 DEF MessageInv, MessagesInTurn
  <2> QED
    BY <1>0, <1>1, <2>1
<1>2. CASE Loop
  <2>1. UNCHANGED fate \/ Begin \/ AnswerCommand \/ AnswerOfBackend \/ Apologise
          \/ HandedOver \/ SaysNothing \/ Panics
    BY <1>2 DEF Loop, Unread, Receive, Stop, RouteText, Inform, ForwardOnce, Unknown,
                UseMain, UseBackend, UseSet, Forward, HandleReturns, Recover, Finish
  <2>2. CASE Begin
    BY <1>1, <2>2 DEF Begin, Busy, Goto
  <2>3. CASE \/ AnswerCommand \/ AnswerOfBackend \/ Apologise
             \/ HandedOver \/ SaysNothing \/ Panics
    BY <1>1, <2>3 DEF AnswerCommand, AnswerOfBackend, Apologise, HandedOver,
                      SaysNothing, Panics, Answer, End, Busy
  <2> QED
    BY <2>1, <2>2, <2>3
<1>3. CASE Exit \/ Crash
  BY <1>0, <1>3 DEF Exit, Crash, Dies, OpenMessages
<1>4. ASSUME UNCHANGED fate PROVE fate'[m] = fate[m]
  BY <1>4
<1>5. CASE Requests
  BY <1>4, <1>5
     DEF Requests, SwitchSaves, SwitchApplies, ClearDeletes, ClearApplies,
         ModeReads, ModeWrites, SessionRequest, messageVars
<1>6. CASE Signal \/ Drained \/ DrainTimesOut \/ AccountsRemoved
             \/ \E read \in BOOLEAN : Boot(read)
  BY <1>4, <1>6 DEF Signal, Drained, DrainTimesOut, AccountsRemoved, Boot, MainGoes,
                    messageVars
<1>7. CASE \/ Arrive \/ FactoryResets \/ AccountRemoved \/ AccountListed
           \/ \E b \in Backends : FactoryRegisters(b)
  BY <1>4, <1>7 DEF Arrive, FactoryResets, AccountRemoved, AccountListed,
                    FactoryRegisters, messageVars
<1>8. CASE UNCHANGED vars
  BY <1>4, <1>8 DEF vars, messageVars
<1> QED
  BY <1>2, <1>3, <1>5, <1>6, <1>7, <1>8 DEF Next, Main, Surroundings

\* No message is ended with twice.
THEOREM MessagesEndOnce == Spec => OneEndPerMessage
<1>1. MessageInv /\ [Next]_vars =>
          [\A m \in 1..MaxMessages : fate[m] # Open => fate'[m] = fate[m]]_vars
  BY EndsStay
<1> QED
  BY <1>1, MessagesInvariant, PTL DEF Spec, OneEndPerMessage

-----------------------------------------------------------------------------
(* Choices                                                                     *)

Rows == Backends \cup {Blank, NoRow}

RequestRecords ==
    [at : {"switch", "mode"}, user : Users, row : Backends \cup {Blank},
     saved : BOOLEAN, alone : BOOLEAN]
    \cup [at : {"clear"}, user : Users, row : {NoRow}, saved : BOOLEAN,
          alone : BOOLEAN]

SessionTypes ==
    /\ adapters \subseteq Backends
    /\ choice \in [Users -> Backends \cup {None}]
    /\ table \in [Users -> Rows]
    /\ handler \in [Handlers -> [at : {"idle"}] \cup RequestRecords]

Working(h) == handler[h].at # "idle"

\* Requests on one user know of each other, or their user is excused.
RequestsKnow ==
    \A h \in Handlers : Working(h) =>
        /\ handler[h].alone =>
               \A g \in Handlers \ {h} : ~Serving(g, handler[h].user)
        /\ ~handler[h].alone => handler[h].user \in excused

\* The row a request works with is in the table, if its first step did not fail.
RowsWritten ==
    \A h \in Handlers : Working(h) /\ handler[h].alone /\ handler[h].saved =>
        RowChoice(table[handler[h].user]) = RowChoice(handler[h].row)

\* Only a request that is about to change the choice leaves it different.
ChoicesMatch ==
    \A u \in Users \ excused :
        (Alive /\ \A h \in Handlers : Serving(h, u) => handler[h].at = "mode") =>
            choice[u] = RowChoice(table[u])

ChoiceInv ==
    /\ SessionTypes
    /\ RequestsKnow
    /\ RowsWritten
    /\ ChoicesMatch
    /\ main = "down" => \A h \in Handlers : ~Working(h)

\* The first step of a request.
LEMMA RequestBegins ==
    ASSUME ChoiceInv, NEW h \in Handlers, NEW record \in RequestRecords,
           record.alone, BeginRequest(h, record), UNCHANGED <<choice, adapters, main>>,
           table' \in [Users -> Rows],
           \A v \in Users \ {record.user} : table'[v] = table[v],
           record.saved => RowChoice(table'[record.user]) = RowChoice(record.row),
           record.at = "mode" => table' = table
    PROVE  ChoiceInv'
<1> DEFINE u == record.user
           overlap == \E g \in Handlers : Serving(g, u)
<1> HIDE DEF overlap
<1>1. /\ main \in {"serving", "waiting"} /\ ~Working(h)
      /\ excused' = IF overlap THEN excused \cup {u} ELSE excused
      /\ handler' = [g \in Handlers |->
             IF g = h THEN [record EXCEPT !.alone = ~overlap]
             ELSE IF Serving(g, u) THEN [handler[g] EXCEPT !.alone = FALSE]
             ELSE handler[g]]
  BY DEF BeginRequest, Working, overlap
<1>2. u \in Users /\ overlap \in BOOLEAN
  BY DEF RequestRecords, overlap
<1>3. /\ handler'[h] \in RequestRecords
      /\ handler'[h].at = record.at /\ handler'[h].user = u
      /\ handler'[h].row = record.row /\ handler'[h].saved = record.saved
      /\ handler'[h].alone = ~overlap
  BY <1>1, <1>2 DEF RequestRecords
<1>4. ASSUME NEW g \in Handlers \ {h}, Serving(g, u)
      PROVE  /\ handler'[g] \in RequestRecords
             /\ handler'[g].at = handler[g].at /\ handler'[g].user = u
             /\ ~handler'[g].alone /\ overlap
  <2>1. handler[g] \in RequestRecords
    BY <1>4 DEF ChoiceInv, SessionTypes, Serving
  <2>2. handler'[g] = [handler[g] EXCEPT !.alone = FALSE]
    BY <1>1, <1>4
  <2>3. overlap
    BY <1>4 DEF overlap
  <2> QED
    BY <1>4, <2>1, <2>2, <2>3 DEF RequestRecords, Serving
<1>5. ASSUME NEW g \in Handlers \ {h}, ~Serving(g, u)
      PROVE  handler'[g] = handler[g]
  BY <1>1, <1>5
<1>6. SessionTypes'
  <2>1. \A g \in Handlers : handler'[g] \in [at : {"idle"}] \cup RequestRecords
    BY <1>3, <1>4, <1>5 DEF ChoiceInv, SessionTypes
  <2>2. handler' \in [Handlers -> [at : {"idle"}] \cup RequestRecords]
    BY <1>1, <2>1
  <2> QED
    BY <2>2 DEF ChoiceInv, SessionTypes
<1>7. RequestsKnow'
  <2> SUFFICES ASSUME NEW g \in Handlers, Working(g)'
               PROVE  /\ handler'[g].alone => \A f \in Handlers \ {g} :
                             ~(Working(f)' /\ handler'[f].user = handler'[g].user)
                      /\ ~handler'[g].alone => handler'[g].user \in excused'
    BY DEF RequestsKnow, Serving, Working
  <2>1. CASE g = h
    <3>1. ~overlap => \A f \in Handlers \ {h} : ~(Working(f)' /\ handler'[f].user = u)
      BY <1>4, <1>5 DEF overlap, Serving, Working
    <3>2. overlap => u \in excused'
      BY <1>1
    <3> QED
      BY <1>2, <1>3, <2>1, <3>1, <3>2
  <2>2. CASE g # h /\ Serving(g, u)
    BY <1>1, <1>4, <2>2
  <2>3. CASE g # h /\ ~Serving(g, u)
    <3>1. Working(g) /\ handler'[g] = handler[g] /\ handler[g].user # u
      BY <1>5, <2>3 DEF Working, Serving
    <3>2. \A f \in Handlers : Working(f)' /\ handler'[f].user = handler[g].user
                                  => f # h /\ Serving(f, handler[g].user)
      BY <1>3, <1>4, <1>5, <3>1 DEF Working, Serving
    <3>3. /\ handler[g].alone =>
                \A f \in Handlers \ {g} : ~Serving(f, handler[g].user)
          /\ ~handler[g].alone => handler[g].user \in excused
      BY <3>1 DEF ChoiceInv, RequestsKnow
    <3>4. handler'[g].alone => \A f \in Handlers \ {g} :
              ~(Working(f)' /\ handler'[f].user = handler'[g].user)
      <4> SUFFICES ASSUME handler'[g].alone, NEW f \in Handlers \ {g},
                          Working(f)', handler'[f].user = handler'[g].user
                   PROVE  FALSE
        OBVIOUS
      <4>1. Serving(f, handler[g].user)
        BY <3>1, <3>2
      <4> QED
        BY <3>1, <3>3, <4>1
    <3>5. handler'[g].alone \/ handler'[g].user \in excused'
      <4>1. \A v : v \in excused => v \in excused'
        BY <1>1, <1>2
      <4>2. handler[g].alone \/ handler[g].user \in excused
        BY <3>3
      <4> QED
        BY <3>1, <4>1, <4>2
    <3> QED
      BY <3>4, <3>5
  <2> QED
    BY <2>1, <2>2, <2>3
<1>8. RowsWritten'
  <2> SUFFICES ASSUME NEW g \in Handlers, Working(g)', handler'[g].alone,
                      handler'[g].saved
               PROVE  RowChoice(table'[handler'[g].user]) = RowChoice(handler'[g].row)
    BY DEF RowsWritten, Working, RowChoice
  <2>1. CASE g = h
    BY <1>3, <2>1
  <2>2. CASE g # h /\ Serving(g, u)
    BY <1>4, <2>2
  <2>3. CASE g # h /\ ~Serving(g, u)
    <3>1. Working(g) /\ handler'[g] = handler[g] /\ handler[g].user # u
      BY <1>5, <2>3 DEF Working, Serving
    <3>2. handler[g].user \in Users
      BY <3>1 DEF ChoiceInv, SessionTypes, RequestRecords, Working
    <3>3. RowChoice(table[handler[g].user]) = RowChoice(handler[g].row)
      BY <3>1 DEF ChoiceInv, RowsWritten
    <3> QED
      BY <3>1, <3>2, <3>3
  <2> QED
    BY <2>1, <2>2, <2>3
<1>9. ChoicesMatch'
  <2> SUFFICES ASSUME NEW v \in Users \ excused',
                      \A g \in Handlers : Working(g)' /\ handler'[g].user = v
                                              => handler'[g].at = "mode"
               PROVE  choice'[v] = RowChoice(table'[v])
    BY DEF ChoicesMatch, Serving, Working, RowChoice
  <2>1. v \notin excused
    BY <1>1
  <2>2. Working(h)' /\ (v = u => record.at = "mode" /\ ~overlap)
    BY <1>1, <1>3 DEF Working, RequestRecords
  <2>3. table'[v] = table[v]
    BY <2>2
  <2>4. \A g \in Handlers : Serving(g, v) => handler[g].at = "mode"
    BY <1>1, <1>4, <1>5, <2>2 DEF Serving, Working, overlap
  <2>5. choice[v] = RowChoice(table[v])
    BY <1>1, <2>1, <2>4 DEF ChoiceInv, ChoicesMatch, Alive
  <2> QED
    BY <2>3, <2>5
<1> QED
  BY <1>1, <1>6, <1>7, <1>8, <1>9 DEF ChoiceInv

\* The last step of a request.
LEMMA RequestEnds ==
    ASSUME ChoiceInv, Alive, NEW h \in Handlers, Working(h),
           handler' = [handler EXCEPT ![h] = [at |-> "idle"]],
           UNCHANGED <<adapters, main>>,
           choice' \in [Users -> Backends \cup {None}],
           table' \in [Users -> Rows],
           \A v \in Users \ {handler[h].user} :
               /\ choice'[v] = choice[v] /\ table'[v] = table[v]
               /\ v \in excused => v \in excused',
           ~handler[h].alone => handler[h].user \in excused',
           handler[h].user \notin excused' =>
               choice'[handler[h].user] = RowChoice(table'[handler[h].user])
    PROVE  ChoiceInv'
<1> DEFINE u == handler[h].user
<1>1. handler \in [Handlers -> [at : {"idle"}] \cup RequestRecords]
  BY DEF ChoiceInv, SessionTypes
<1>2. \A g \in Handlers : Working(g)' => g # h /\ handler'[g] = handler[g] /\ Working(g)
  BY <1>1 DEF Working
<1>3. \A g \in Handlers : Working(g) =>
          handler[g].user \in Users /\ Serving(g, handler[g].user)
  BY <1>1 DEF Working, RequestRecords, Serving
<1>4. \A g \in Handlers \ {h} : Working(g) /\ handler[g].user = u =>
          ~handler[g].alone /\ ~handler[h].alone
  BY <1>3 DEF ChoiceInv, RequestsKnow
<1>5. SessionTypes'
  BY <1>1 DEF ChoiceInv, SessionTypes
<1>6. RequestsKnow'
  <2> SUFFICES ASSUME NEW g \in Handlers, Working(g)'
               PROVE  /\ handler'[g].alone => \A f \in Handlers \ {g} :
                             ~(Working(f)' /\ handler'[f].user = handler'[g].user)
                      /\ ~handler'[g].alone => handler'[g].user \in excused'
    BY DEF RequestsKnow, Serving, Working
  <2>1. g # h /\ handler'[g] = handler[g] /\ Working(g)
    BY <1>2
  <2>2. /\ handler[g].alone => \A f \in Handlers \ {g} : ~Serving(f, handler[g].user)
        /\ ~handler[g].alone => handler[g].user \in excused
    BY <2>1 DEF ChoiceInv, RequestsKnow
  <2>3. handler'[g].alone => \A f \in Handlers \ {g} :
            ~(Working(f)' /\ handler'[f].user = handler'[g].user)
    BY <1>2, <1>3, <2>1, <2>2
  <2>4. ~handler'[g].alone => handler'[g].user \in excused'
    BY <1>3, <1>4, <2>1, <2>2
  <2> QED
    BY <2>3, <2>4
<1>7. RowsWritten'
  <2> SUFFICES ASSUME NEW g \in Handlers, Working(g)', handler'[g].alone,
                      handler'[g].saved
               PROVE  RowChoice(table'[handler'[g].user]) = RowChoice(handler'[g].row)
    BY DEF RowsWritten, Working, RowChoice
  <2>1. g # h /\ handler'[g] = handler[g] /\ Working(g) /\ handler[g].user # u
    BY <1>2, <1>4
  <2>2. RowChoice(table[handler[g].user]) = RowChoice(handler[g].row)
    BY <2>1 DEF ChoiceInv, RowsWritten
  <2> QED
    BY <1>3, <2>1, <2>2
<1>8. ChoicesMatch'
  <2> SUFFICES ASSUME NEW v \in Users \ excused',
                      \A g \in Handlers : Working(g)' /\ handler'[g].user = v
                                              => handler'[g].at = "mode"
               PROVE  choice'[v] = RowChoice(table'[v])
    BY DEF ChoicesMatch, Serving, Working, RowChoice
  <2>1. CASE v = u
    BY <2>1
  <2>2. CASE v # u
    <3>1. v \notin excused /\ choice'[v] = choice[v] /\ table'[v] = table[v]
      BY <2>2
    <3>2. \A g \in Handlers : Serving(g, v) => handler[g].at = "mode"
      <4> SUFFICES ASSUME NEW g \in Handlers, Serving(g, v)
                   PROVE  handler[g].at = "mode"
        OBVIOUS
      <4>1. g # h /\ Working(g)
        BY <2>2 DEF Serving, Working
      <4>2. handler'[g] = handler[g]
        BY <1>1, <4>1
      <4> QED
        BY <4>1, <4>2 DEF Serving, Working
    <3>3. choice[v] = RowChoice(table[v])
      BY <3>1, <3>2 DEF ChoiceInv, ChoicesMatch
    <3> QED
      BY <3>1, <3>3
  <2> QED
    BY <2>1, <2>2
<1> QED
  BY <1>5, <1>6, <1>7, <1>8 DEF ChoiceInv, Alive

\* A /use excuses its user.
LEMMA UseKeeps ==
    ASSUME ChoiceInv, UNCHANGED <<table, handler, adapters, main>>, NEW u,
           NEW c \in Backends \cup {None},
           choice' = [choice EXCEPT ![u] = c], excused' = excused \cup {u}
    PROVE  ChoiceInv'
<1>1. SessionTypes'
  BY DEF ChoiceInv, SessionTypes
<1>2. RequestsKnow'
  BY DEF ChoiceInv, RequestsKnow, Working, Serving
<1>3. RowsWritten'
  BY DEF ChoiceInv, RowsWritten, Working, RowChoice
<1>4. ChoicesMatch'
  BY DEF ChoiceInv, SessionTypes, ChoicesMatch, Serving, Alive, RowChoice
<1> QED
  BY <1>1, <1>2, <1>3, <1>4 DEF ChoiceInv, Working

\* What changes no choice, no row and no request.
LEMMA ElsewhereKeeps ==
    ASSUME ChoiceInv, UNCHANGED <<choice, table, handler, excused>>,
           adapters' \subseteq Backends, (main' = "down") <=> (main = "down")
    PROVE  ChoiceInv'
<1>1. SessionTypes'
  BY DEF ChoiceInv, SessionTypes
<1>2. RequestsKnow'
  BY DEF ChoiceInv, RequestsKnow, Working, Serving
<1>3. RowsWritten'
  BY DEF ChoiceInv, RowsWritten, Working, RowChoice
<1>4. ChoicesMatch'
  BY DEF ChoiceInv, ChoicesMatch, Serving, Alive, RowChoice
<1> QED
  BY <1>1, <1>2, <1>3, <1>4 DEF ChoiceInv, Working

LEMMA ChoiceInit == Init => ChoiceInv
BY DEF Init, ChoiceInv, SessionTypes, Rows, RequestsKnow, RowsWritten,
       ChoicesMatch, Working, Serving, RowChoice

\* The steps of processLoop: only /use touches a choice.
LEMMA LoopKeepsChoices == ChoiceInv /\ Loop => ChoiceInv'
<1> SUFFICES ASSUME ChoiceInv, Loop PROVE ChoiceInv'
  OBVIOUS
<1> USE DEF Unread, Others
<1>1. ASSUME UNCHANGED <<Others, choice, excused>> PROVE ChoiceInv'
  BY <1>1, ElsewhereKeeps DEF ChoiceInv, SessionTypes
<1>2. CASE Receive \/ Stop \/ Begin \/ Forward \/ HandleReturns \/ HandedOver \/ SaysNothing
           \/ Recover \/ Finish
  BY <1>1, <1>2 DEF Receive, Stop, Begin, Forward, HandleReturns, HandedOver, SaysNothing,
                    Recover, Finish
<1>3. CASE AnswerCommand \/ AnswerOfBackend \/ Apologise
  BY <1>1, <1>3 DEF AnswerCommand, AnswerOfBackend, Apologise, Answer
<1>4. CASE \E text \in Texts : Inform(text) \/ ForwardOnce(text)
  BY <1>1, <1>4 DEF Inform, ForwardOnce
<1>5. CASE \E text \in Texts, u \in Users :
               RouteText(u, text) \/ Unknown(u, text) \/ UseBackend(u, text)
  BY <1>1, <1>5 DEF RouteText, Unknown, UseBackend
<1>6. CASE Panics
  BY <1>6, ElsewhereKeeps DEF Panics, ChoiceInv, SessionTypes
<1>7. CASE \E text \in Texts, u \in Users : UseMain(u, text)
  BY <1>7, UseKeeps DEF UseMain
<1>8. CASE UseSet
  <2>1. CASE loop.to \in adapters
    <3>1. loop.to \in Backends \cup {None}
      BY <2>1 DEF ChoiceInv, SessionTypes
    <3> QED
      BY <1>8, <2>1, <3>1, UseKeeps DEF UseSet
  <2>2. CASE loop.to \notin adapters
    BY <1>8, <2>2, ElsewhereKeeps DEF UseSet, ChoiceInv, SessionTypes
  <2> QED
    BY <2>1, <2>2
<1> QED
  BY <1>2, <1>3, <1>4, <1>5, <1>6, <1>7, <1>8 DEF Loop

\* The requests.
LEMMA RequestsKeepChoices == ChoiceInv /\ Requests => ChoiceInv'
<1> SUFFICES ASSUME ChoiceInv, Requests PROVE ChoiceInv'
  OBVIOUS
<1>1. SessionTypes
  BY DEF ChoiceInv
<1>2. ASSUME NEW h \in Handlers, NEW u \in Users, NEW ok \in BOOLEAN,
             NEW row \in Backends \cup {Blank}, SwitchSaves(h, u, row, ok)
      PROVE  ChoiceInv'
  <2> DEFINE record == Request("switch", u, row, ok)
  <2>1. record \in RequestRecords /\ record.alone /\ record.user = u
        /\ record.row = row /\ record.saved = ok /\ record.at = "switch"
    BY DEF Request, RequestRecords
  <2>2. BeginRequest(h, record) /\ UNCHANGED <<choice, adapters, main>>
        /\ Write(u, row, ok)
    BY <1>2 DEF SwitchSaves, SessionRequest
  <2>3. /\ table' \in [Users -> Rows]
        /\ \A v \in Users \ {u} : table'[v] = table[v]
        /\ ok => table'[u] = row
    BY <1>1, <2>2 DEF Write, SessionTypes, Rows
  <2> HIDE DEF record
  <2>4. ok => RowChoice(table'[u]) = RowChoice(row)
    BY <2>3
  <2> QED
    BY <2>1, <2>2, <2>3, <2>4, RequestBegins
<1>3. ASSUME NEW h \in Handlers, NEW u \in Users, NEW ok \in BOOLEAN,
             ClearDeletes(h, u, ok)
      PROVE  ChoiceInv'
  <2> DEFINE record == Request("clear", u, NoRow, ok)
  <2>1. record \in RequestRecords /\ record.alone /\ record.user = u
        /\ record.row = NoRow /\ record.saved = ok /\ record.at = "clear"
    BY DEF Request, RequestRecords
  <2>2. BeginRequest(h, record) /\ UNCHANGED <<choice, adapters, main>>
        /\ Write(u, NoRow, ok)
    BY <1>3 DEF ClearDeletes, SessionRequest
  <2>3. /\ table' \in [Users -> Rows]
        /\ \A v \in Users \ {u} : table'[v] = table[v]
        /\ ok => table'[u] = NoRow
    BY <1>1, <2>2 DEF Write, SessionTypes, Rows
  <2> HIDE DEF record
  <2>4. ok => RowChoice(table'[u]) = RowChoice(NoRow)
    BY <2>3
  <2> QED
    BY <2>1, <2>2, <2>3, <2>4, RequestBegins
<1>4. ASSUME NEW h \in Handlers, NEW u \in Users, NEW ok \in BOOLEAN,
             ModeReads(h, u, ok)
      PROVE  ChoiceInv'
  <2> DEFINE row == IF ok /\ table[u] # NoRow THEN table[u] ELSE Blank
             record == Request("mode", u, row, ok)
  <2>1. row \in Backends \cup {Blank}
    BY <1>1 DEF SessionTypes, Rows
  <2>2. ok => RowChoice(table[u]) = RowChoice(row)
    BY DEF RowChoice
  <2>3. BeginRequest(h, record) /\ UNCHANGED <<choice, adapters, main, table>>
    BY <1>4 DEF ModeReads, SessionRequest
  <2> HIDE DEF row
  <2>4. record \in RequestRecords /\ record.alone /\ record.user = u
        /\ record.row = row /\ record.saved = ok /\ record.at = "mode"
    BY <2>1 DEF Request, RequestRecords
  <2>5. table' = table /\ table' \in [Users -> Rows]
    BY <1>1, <2>3 DEF SessionTypes
  <2> HIDE DEF record
  <2>6. ok => RowChoice(table'[u]) = RowChoice(row)
    BY <2>2, <2>5
  <2> QED
    BY <2>3, <2>4, <2>5, <2>6, RequestBegins
<1>5. ASSUME NEW h \in Handlers, Working(h)
      PROVE  /\ handler[h] \in RequestRecords
             /\ handler[h].user \in Users
             /\ ~handler[h].alone => handler[h].user \in excused
             /\ handler[h].alone /\ handler[h].saved =>
                    RowChoice(table[handler[h].user]) = RowChoice(handler[h].row)
  BY <1>1, <1>5 DEF ChoiceInv, SessionTypes, RequestRecords, Working,
                    RequestsKnow, RowsWritten
<1>6. ASSUME NEW h \in Handlers, SwitchApplies(h)
      PROVE  ChoiceInv'
  <2> DEFINE r == handler[h]
             accepted == r.row = Blank \/ r.row \in adapters
  <2>1. Working(h) /\ r.at = "switch"
    BY <1>6 DEF SwitchApplies, Working
  <2>2. /\ Alive /\ UNCHANGED <<adapters, main, table>>
        /\ handler' = [handler EXCEPT ![h] = [at |-> "idle"]]
        /\ choice' = IF accepted THEN [choice EXCEPT ![r.user] = RowChoice(r.row)]
                     ELSE choice
        /\ excused' = IF r.saved /\ accepted /\ r.alone THEN excused \ {r.user}
                      ELSE IF r.saved /\ accepted THEN excused
                      ELSE excused \cup {r.user}
    BY <1>6 DEF SwitchApplies, SessionRequest, EndRequest
  <2>3. /\ r \in RequestRecords /\ r.user \in Users
        /\ ~r.alone => r.user \in excused
        /\ r.alone /\ r.saved => RowChoice(table[r.user]) = RowChoice(r.row)
    BY <1>5, <2>1
  <2>4. RowChoice(r.row) \in Backends \cup {None}
    BY <2>1, <2>3 DEF RequestRecords, RowChoice
  <2>5. r.saved \in BOOLEAN /\ r.alone \in BOOLEAN /\ accepted \in BOOLEAN
    BY <2>3 DEF RequestRecords
  <2>6. /\ choice' \in [Users -> Backends \cup {None}]
        /\ accepted => choice'[r.user] = RowChoice(r.row)
        /\ \A v \in Users \ {r.user} : choice'[v] = choice[v]
    BY <1>1, <2>2, <2>3, <2>4 DEF SessionTypes
  <2> HIDE DEF accepted
  <2>7. /\ \A v \in Users \ {r.user} : v \in excused => v \in excused'
        /\ ~r.alone => r.user \in excused'
        /\ r.user \notin excused' => r.saved /\ accepted /\ r.alone
    BY <2>2, <2>3, <2>5
  <2>8. r.user \notin excused' => choice'[r.user] = RowChoice(table'[r.user])
    BY <2>2, <2>3, <2>6, <2>7
  <2>9. table' \in [Users -> Rows]
    BY <1>1, <2>2 DEF SessionTypes
  <2> QED
    BY <2>1, <2>2, <2>6, <2>7, <2>8, <2>9, RequestEnds
<1>7. ASSUME NEW h \in Handlers, ClearApplies(h)
      PROVE  ChoiceInv'
  <2> DEFINE r == handler[h]
  <2>1. Working(h) /\ r.at = "clear"
    BY <1>7 DEF ClearApplies, Working
  <2>2. /\ Alive /\ UNCHANGED <<adapters, main, table>>
        /\ handler' = [handler EXCEPT ![h] = [at |-> "idle"]]
        /\ choice' = [choice EXCEPT ![r.user] = None]
        /\ excused' = IF r.saved /\ r.alone THEN excused \ {r.user}
                      ELSE IF r.saved THEN excused ELSE excused \cup {r.user}
    BY <1>7 DEF ClearApplies, SessionRequest, EndRequest
  <2>3. /\ r \in RequestRecords /\ r.user \in Users
        /\ ~r.alone => r.user \in excused
        /\ r.alone /\ r.saved => RowChoice(table[r.user]) = RowChoice(r.row)
    BY <1>5, <2>1
  <2>4. RowChoice(r.row) = None
    BY <2>1, <2>3 DEF RequestRecords, RowChoice
  <2>5. r.saved \in BOOLEAN /\ r.alone \in BOOLEAN
    BY <2>3 DEF RequestRecords
  <2>6. /\ choice' \in [Users -> Backends \cup {None}]
        /\ choice'[r.user] = None
        /\ \A v \in Users \ {r.user} : choice'[v] = choice[v]
    BY <1>1, <2>2, <2>3 DEF SessionTypes
  <2>7. /\ \A v \in Users \ {r.user} : v \in excused => v \in excused'
        /\ ~r.alone => r.user \in excused'
        /\ r.user \notin excused' => r.saved /\ r.alone
    BY <2>2, <2>3, <2>5
  <2>8. r.user \notin excused' => choice'[r.user] = RowChoice(table'[r.user])
    BY <2>2, <2>3, <2>4, <2>6, <2>7
  <2>9. table' \in [Users -> Rows]
    BY <1>1, <2>2 DEF SessionTypes
  <2> QED
    BY <2>1, <2>2, <2>6, <2>7, <2>8, <2>9, RequestEnds
<1>8. ASSUME NEW h \in Handlers, NEW saved \in BOOLEAN, ModeWrites(h, saved)
      PROVE  ChoiceInv'
  <2> DEFINE r == handler[h]
  <2>1. Working(h) /\ r.at = "mode"
    BY <1>8 DEF ModeWrites, Working
  <2>2. /\ Alive /\ UNCHANGED <<adapters, main, choice>>
        /\ handler' = [handler EXCEPT ![h] = [at |-> "idle"]]
        /\ table' = IF saved THEN [table EXCEPT ![r.user] = r.row] ELSE table
        /\ excused' = IF r.alone /\ r.saved THEN excused
                      ELSE excused \cup {r.user}
    BY <1>8 DEF ModeWrites, SessionRequest, Write
  <2>3. /\ r \in RequestRecords /\ r.user \in Users
        /\ ~r.alone => r.user \in excused
        /\ r.alone /\ r.saved => RowChoice(table[r.user]) = RowChoice(r.row)
    BY <1>5, <2>1
  <2>4. r.row \in Rows /\ r.saved \in BOOLEAN /\ r.alone \in BOOLEAN
    BY <2>1, <2>3 DEF RequestRecords, Rows
  <2>5. /\ table' \in [Users -> Rows]
        /\ table'[r.user] \in {table[r.user], r.row}
        /\ \A v \in Users \ {r.user} : table'[v] = table[v]
    BY <1>1, <2>2, <2>3, <2>4 DEF SessionTypes
  <2>6. /\ \A v \in Users : v \in excused => v \in excused'
        /\ r.user \notin excused' => r.saved /\ r.alone
    BY <2>2, <2>3, <2>4
  <2>7. r.user \notin excused' => choice'[r.user] = RowChoice(table'[r.user])
    <3> SUFFICES ASSUME r.user \notin excused'
                 PROVE  choice'[r.user] = RowChoice(table'[r.user])
      OBVIOUS
    <3>1. r.user \notin excused /\ r.saved /\ r.alone
      BY <2>3, <2>6
    <3>2. \A g \in Handlers : Serving(g, r.user) => handler[g].at = "mode"
      BY <2>1, <3>1 DEF ChoiceInv, RequestsKnow
    <3>3. choice[r.user] = RowChoice(table[r.user])
      BY <2>2, <2>3, <3>1, <3>2 DEF ChoiceInv, ChoicesMatch
    <3>4. RowChoice(table'[r.user]) = RowChoice(table[r.user])
      BY <2>3, <2>5, <3>1
    <3> QED
      BY <2>2, <3>3, <3>4
  <2>8. choice' \in [Users -> Backends \cup {None}]
    BY <1>1, <2>2 DEF SessionTypes
  <2> QED
    BY <2>1, <2>2, <2>3, <2>5, <2>6, <2>7, <2>8, RequestEnds
<1> QED
  BY <1>2, <1>3, <1>4, <1>6, <1>7, <1>8 DEF Requests

\* A crash or an exit: no request survives it.
LEMMA DyingKeepsChoices == ChoiceInv /\ Dies => ChoiceInv'
<1> SUFFICES ASSUME ChoiceInv, Dies PROVE ChoiceInv'
  OBVIOUS
<1>1. /\ main' = "down" /\ UNCHANGED <<choice, table, adapters>>
      /\ handler' = [h \in Handlers |-> [at |-> "idle"]]
  BY DEF Dies
<1>2. \A h \in Handlers : ~Working(h)'
  BY <1>1 DEF Working
<1> QED
  BY <1>1, <1>2 DEF ChoiceInv, SessionTypes, RequestsKnow, RowsWritten,
                    ChoicesMatch, Working, Alive

\* A boot: the choices are made of the rows, or every user is excused.
LEMMA BootKeepsChoices ==
    ASSUME ChoiceInv, NEW read \in BOOLEAN, Boot(read)
    PROVE  ChoiceInv'
<1>1. /\ main = "down" /\ adapters' \subseteq Backends
      /\ UNCHANGED <<table, handler>>
      /\ \/ choice' = [u \in Users |-> RowChoice(table[u])]
         \/ choice' = [u \in Users |-> None] /\ excused' = Users
  BY DEF Boot
<1>2. \A h \in Handlers : ~Working(h)'
  BY <1>1 DEF ChoiceInv, Working
<1>3. SessionTypes'
  <2>1. \A u \in Users : RowChoice(table[u]) \in Backends \cup {None}
    BY DEF ChoiceInv, SessionTypes, Rows, RowChoice
  <2> QED
    BY <1>1, <2>1 DEF ChoiceInv, SessionTypes
<1>4. ChoicesMatch'
  BY <1>1 DEF ChoicesMatch, RowChoice
<1> QED
  BY <1>2, <1>3, <1>4 DEF ChoiceInv, RequestsKnow, RowsWritten, Working

LEMMA ChoiceStep == ChoiceInv /\ [Next]_vars => ChoiceInv'
<1> SUFFICES ASSUME ChoiceInv, [Next]_vars PROVE ChoiceInv'
  OBVIOUS
<1> USE DEF vars, messageVars, sessionVars
<1>1. adapters \subseteq Backends
  BY DEF ChoiceInv, SessionTypes
<1>2. CASE Loop \/ Requests
  BY <1>2, LoopKeepsChoices, RequestsKeepChoices
<1>3. CASE Signal \/ Drained \/ DrainTimesOut \/ AccountsRemoved
  BY <1>1, <1>3, ElsewhereKeeps
     DEF Signal, Drained, DrainTimesOut, MainGoes, AccountsRemoved
<1>4. CASE Exit \/ Crash
  BY <1>4, DyingKeepsChoices DEF Exit, Crash
<1>5. CASE \E read \in BOOLEAN : Boot(read)
  BY <1>5, BootKeepsChoices
<1>6. CASE Arrive \/ FactoryResets \/ AccountRemoved \/ AccountListed
  BY <1>1, <1>6, ElsewhereKeeps
     DEF Arrive, FactoryResets, AccountRemoved, AccountListed
<1>7. CASE \E b \in Backends : FactoryRegisters(b)
  BY <1>1, <1>7, ElsewhereKeeps DEF FactoryRegisters
<1>8. CASE UNCHANGED vars
  BY <1>1, <1>8, ElsewhereKeeps
<1> QED
  BY <1>2, <1>3, <1>4, <1>5, <1>6, <1>7, <1>8 DEF Next, Main, Surroundings

LEMMA ChoicesInvariant == Spec => []ChoiceInv
BY ChoiceInit, ChoiceStep, PTL DEF Spec

\* A user with no request in progress has, in the engine, the choice a restart
\* will restore, unless what excuses it came in between: for every number of
\* users, of backends and of requests served at once.
THEOREM ChoicesKept == Spec => []ChoiceMatchesTable
<1>1. ChoiceInv => ChoiceMatchesTable
  BY DEF ChoiceInv, ChoicesMatch, ChoiceMatchesTable
<1> QED
  BY <1>1, ChoicesInvariant, PTL

-----------------------------------------------------------------------------
(* Types.  What processLoop works with beside its place comes from a text, a   *)
(* choice or a rule, and is a user or a backend.                               *)

\* Sets of numbers have least elements: the intervals up to them do.
LEMMA Least ==
    ASSUME NEW T, T \subseteq Nat, T # {}
    PROVE  \E n \in T : \A m \in T : n <= m
<1> DEFINE Below == {1..n : n \in T}
<1>1. Below \subseteq FiniteSubsetsOf(Nat) /\ Below # {}
  <2>1. \A n \in T : IsFiniteSet(1..n) /\ 1..n \subseteq Nat
    BY FS_Interval
  <2> QED
    BY <2>1 DEF FiniteSubsetsOf
<1>2. PICK I \in Below : \A J \in Below : ~ (<<J, I>> \in StrictSubsetOrdering(Nat))
  <2> HIDE DEF Below
  <2> QED
    BY <1>1, FS_StrictSubsetOrderingWellFounded, WFMin
<1>3. PICK n \in T : I = 1..n
  OBVIOUS
<1>4. \A m \in T : ~ (1..m \subseteq 1..n /\ 1..m # 1..n)
  <2> SUFFICES ASSUME NEW m \in T, 1..m \subseteq 1..n, 1..m # 1..n PROVE FALSE
    OBVIOUS
  <2>1. 1..m \in Below /\ 1..m \in SUBSET Nat /\ 1..n \in SUBSET Nat
    OBVIOUS
  <2>2. <<1..m, 1..n>> \in (SUBSET Nat) \X (SUBSET Nat)
    BY <2>1
  <2> HIDE DEF Below
  <2>3. <<1..m, 1..n>> \notin StrictSubsetOrdering(Nat)
    BY <1>2, <1>3, <2>1
  <2> QED
    BY <2>2, <2>3 DEF StrictSubsetOrdering
<1>5. ASSUME NEW m \in T, ~ (n <= m) PROVE FALSE
  <2>1. n \in 1..n /\ n \notin 1..m /\ 1..m \subseteq 1..n
    BY <1>5
  <2> QED
    BY <1>4, <2>1
<1> QED
  BY <1>5

\* Route decides for a backend, or for none.
LEMMA RouteFindsABackend ==
    ASSUME NEW message, NEW override \in Backends \cup {None}
    PROVE  Route(Rules, DefaultBackend, message, override).backend
               \in Backends \cup {None}
<1>1. ASSUME NEW P, P \subseteq DOMAIN Rules, P # {}
      PROVE  FirstOf(P) \in DOMAIN Rules
  <2>1. PICK n \in P : \A m \in P : n <= m
    BY <1>1, Least, PipelineAssumption
  <2> QED
    BY <1>1, <2>1 DEF FirstOf
<1>2. ASSUME NEW P, P \subseteq DOMAIN Rules, P # {}
      PROVE  ByRule(Rules[FirstOf(P)]).backend \in Backends
  BY <1>1, <1>2, PipelineAssumption DEF ByRule, Decision
<1>3. \A c \in BOOLEAN : Hits(Rules, message, c) \subseteq DOMAIN Rules
  BY DEF Hits
<1> HIDE DEF Hits, ByRule
<1> QED
  BY <1>2, <1>3, PipelineAssumption DEF Route, Decision

LoopTypes ==
    /\ loop.at = "use" => loop.user \in Users
    /\ loop.at \in {"use", "forward"} => loop.to \in Backends

OtherTypes ==
    /\ main \in {"serving", "waiting", "drained", "timedOut", "leaving", "down"}
    /\ listed \in BOOLEAN
    /\ orphaned \subseteq 1..arrived
    /\ excused \subseteq Users

TypeInv == LoopTypes /\ OtherTypes

\* Only a text or a choice takes processLoop to /use or to a backend.
LEMMA LoopTypesStep ==
    ASSUME MessageTypes, SessionTypes, TypeInv, [Next]_vars
    PROVE  LoopTypes'
<1> USE DEF TypeInv, LoopTypes, Goto, At
<1>1. ASSUME loop'.at \notin {"use", "forward"} PROVE LoopTypes'
  BY <1>1
<1>2. ASSUME NEW b \in Backends \cup {None}, SendTo(b) PROVE LoopTypes'
  BY <1>2 DEF SendTo
<1>3. ASSUME NEW u \in Users PROVE choice[u] \in Backends \cup {None}
  BY DEF SessionTypes
<1>4. adapters \subseteq Backends
  BY DEF SessionTypes
<1>5. ASSUME NEW text \in Texts, NEW u \in Users, RouteText(u, text)
      PROVE  LoopTypes'
  BY <1>2, <1>3, <1>5, RouteFindsABackend DEF RouteText
<1>6. ASSUME NEW text \in Texts, NEW u \in Users, Unknown(u, text)
      PROVE  LoopTypes'
  BY <1>2, <1>3, <1>6 DEF Unknown
<1>7. ASSUME NEW text \in Texts, NEW u \in Users, UseBackend(u, text)
      PROVE  LoopTypes'
  BY <1>4, <1>7 DEF UseBackend
<1>8. ASSUME NEW text \in Texts, NEW u \in Users, UseMain(u, text)
      PROVE  LoopTypes'
  BY <1>1, <1>8 DEF UseMain
<1>9. ASSUME NEW text \in Texts, ForwardOnce(text) PROVE LoopTypes'
  <2>1. Word(text) \in Backends
    BY <1>4, <1>9 DEF ForwardOnce
  <2> QED
    BY <1>1, <1>2, <1>9, <2>1 DEF ForwardOnce
<1>10. ASSUME NEW text \in Texts, Inform(text) PROVE LoopTypes'
  BY <1>1, <1>10 DEF Inform
<1>11. CASE \/ Receive \/ Stop \/ Begin \/ UseSet \/ Forward \/ HandleReturns
            \/ HandedOver \/ SaysNothing \/ Panics \/ Recover \/ AnswerCommand
            \/ AnswerOfBackend \/ Apologise \/ Finish
  BY <1>1, <1>11
     DEF Receive, Stop, Begin, UseSet, Forward, HandleReturns, HandedOver, SaysNothing, Panics,
         Recover, AnswerCommand, AnswerOfBackend, Apologise, Answer, End, Finish
<1>12. ASSUME UNCHANGED loop PROVE LoopTypes'
  BY <1>12
<1>13. CASE Requests
  BY <1>12, <1>13
     DEF Requests, SwitchSaves, SwitchApplies, ClearDeletes, ClearApplies,
         ModeReads, ModeWrites, SessionRequest, messageVars
<1>14. CASE Main
  BY <1>1, <1>12, <1>14
     DEF Main, Signal, Drained, DrainTimesOut, MainGoes, AccountsRemoved, Exit,
         Dies, Boot, messageVars
<1>15. CASE Surroundings
  BY <1>1, <1>12, <1>15
     DEF Surroundings, Arrive, FactoryResets, FactoryRegisters, AccountRemoved,
         AccountListed, Crash, Dies, messageVars
<1>16. CASE UNCHANGED vars
  BY <1>12, <1>16 DEF vars, messageVars
<1> QED
  BY <1>5, <1>6, <1>7, <1>8, <1>9, <1>10, <1>11, <1>13, <1>14, <1>15, <1>16
     DEF Next, Loop

LEMMA OtherTypesStep ==
    ASSUME MessageTypes, SessionTypes, TypeInv, [Next]_vars
    PROVE  OtherTypes'
<1> USE DEF TypeInv, OtherTypes
<1>1. CASE Loop
  <2>1. UNCHANGED <<arrived, orphaned, main, listed>>
    BY <1>1 DEF Loop, Inform, ForwardOnce, RouteText, Unknown, UseMain, UseBackend,
                Receive, Stop, Begin, UseSet, Forward, HandleReturns, HandedOver, SaysNothing,
                Panics, Recover, AnswerCommand, AnswerOfBackend, Apologise, Answer,
                Finish, Unread, Others
  <2>2. \/ excused' = excused
        \/ \E u \in Users : excused' = excused \cup {u}
    BY <1>1 DEF Loop, Inform, ForwardOnce, RouteText, Unknown, UseMain, UseBackend,
                Receive, Stop, Begin, UseSet, Forward, HandleReturns, HandedOver, SaysNothing,
                Panics, Recover, AnswerCommand, AnswerOfBackend, Apologise, Answer,
                Finish, Unread, LoopTypes
  <2> QED
    BY <2>1, <2>2
<1>2. CASE Requests
  <2>1. UNCHANGED <<arrived, orphaned, main, listed>>
    BY <1>2 DEF Requests, SwitchSaves, SwitchApplies, ClearDeletes, ClearApplies,
                ModeReads, ModeWrites, SessionRequest, messageVars
  <2>2. ASSUME NEW h \in Handlers, handler[h].at # "idle"
        PROVE  handler[h].user \in Users
    BY <2>2 DEF SessionTypes, RequestRecords
  <2>3. ASSUME NEW h \in Handlers, NEW u \in Users, NEW at, NEW row, NEW saved,
               BeginRequest(h, Request(at, u, row, saved))
        PROVE  excused' \subseteq Users
    BY <2>3 DEF BeginRequest, Request
  <2>4. ASSUME NEW h \in Handlers, handler[h].at # "idle",
               \/ \E together : EndRequest(h, together)
               \/ \E ok \in BOOLEAN : ModeWrites(h, ok)
        PROVE  excused' \subseteq Users
    BY <2>2, <2>4 DEF EndRequest, ModeWrites
  <2>5. excused' \subseteq Users
    BY <1>2, <2>3, <2>4 DEF Requests, SwitchSaves, SwitchApplies, ClearDeletes,
                            ClearApplies, ModeReads, ModeWrites
  <2> QED
    BY <2>1, <2>5
<1>3. CASE Main
  <2>1. OpenMessages \subseteq 1..arrived
    BY DEF OpenMessages
  <2> QED
    BY <1>3, <2>1
       DEF Main, Signal, Drained, DrainTimesOut, MainGoes, AccountsRemoved, Exit,
           Dies, Boot, messageVars, sessionVars
<1>4. CASE Surroundings
  <2>1. arrived \in Nat /\ OpenMessages \subseteq 1..arrived
    BY PipelineAssumption DEF MessageTypes, OpenMessages
  <2>2. CASE Arrive
    <3>1. /\ arrived' = arrived + 1 /\ UNCHANGED <<main, listed, excused>>
          /\ orphaned' \subseteq orphaned \cup {arrived + 1}
      BY <2>2 DEF Arrive, sessionVars
    <3> QED
      BY <2>1, <3>1
  <2>3. CASE FactoryResets \/ AccountListed \/ \E b \in Backends : FactoryRegisters(b)
    BY <2>3 DEF FactoryResets, FactoryRegisters, AccountListed, messageVars,
                sessionVars
  <2>4. CASE AccountRemoved
    BY <2>1, <2>4 DEF AccountRemoved, sessionVars
  <2>5. CASE Crash
    BY <2>5 DEF Crash, Dies
  <2> QED
    BY <1>4, <2>2, <2>3, <2>4, <2>5 DEF Surroundings
<1>5. CASE UNCHANGED vars
  BY <1>5 DEF vars, messageVars, sessionVars
<1> QED
  BY <1>1, <1>2, <1>3, <1>4, <1>5 DEF Next

\* The types of the message pipeline: also that what a rule, a choice or a command
\* hands to forwardToBackend is a backend's id, and that a counter of sync.WaitGroup
\* is never negative (which would panic).
THEOREM TypeCorrect == Spec => []TypeOK
<1>1. Init => TypeInv
  BY DEF Init, TypeInv, LoopTypes, OtherTypes, At
<1>2. MessageInv /\ ChoiceInv /\ TypeInv /\ [Next]_vars => TypeInv'
  BY LoopTypesStep, OtherTypesStep DEF MessageInv, ChoiceInv, TypeInv
<1>3. MessageInv /\ ChoiceInv /\ TypeInv => TypeOK
  <2> SUFFICES ASSUME MessageInv, ChoiceInv, TypeInv PROVE TypeOK
    OBVIOUS
  <2>1. pledged \subseteq 1..arrived
    BY PipelineAssumption DEF MessageInv, MessageTypes, PledgeKept
  <2>2. \A h \in Handlers :
           /\ handler[h].at \in {"idle", "switch", "clear", "mode"}
           /\ handler[h].at # "idle" => handler[h].user \in Users
           /\ handler[h].at \in {"switch", "mode"} =>
                  handler[h].row \in Backends \cup {Blank}
    BY DEF ChoiceInv, SessionTypes, RequestRecords
  <2> QED
    BY <2>1, <2>2 DEF MessageInv, MessageTypes, Fates, ChoiceInv, SessionTypes,
                      Rows, TypeInv, LoopTypes, OtherTypes, TypeOK
<1> QED
  BY <1>1, <1>2, <1>3, MessagesInvariant, ChoicesInvariant, PTL DEF Spec

-----------------------------------------------------------------------------
(* The loop and the context                                                    *)

\* processLoop ends only after main has cancelled its context.
LoopServes == main = "serving" => loop.at # "stopped"

LEMMA ServesStep == LoopServes /\ [Next]_vars => LoopServes'
<1> SUFFICES ASSUME LoopServes, [Next]_vars, main' = "serving"
             PROVE  loop'.at # "stopped"
  BY DEF LoopServes
<1> USE DEF Goto, At
<1>1. ASSUME UNCHANGED <<main, loop>> PROVE loop'.at # "stopped"
  BY <1>1 DEF LoopServes
<1>2. CASE Loop
  <2>1. main = "serving"
    BY <1>2 DEF Loop, Unread, Others, Receive, Stop, Begin, RouteText, Inform,
                ForwardOnce, Unknown, UseMain, UseBackend, UseSet, Forward,
                HandleReturns, HandedOver, SaysNothing, Panics, Recover, AnswerCommand,
                AnswerOfBackend, Apologise, Answer, Finish
  <2>2. CASE Receive \/ Begin \/ UseSet \/ Forward \/ HandleReturns \/ HandedOver \/ SaysNothing
             \/ Panics \/ Recover \/ AnswerCommand \/ AnswerOfBackend \/ Apologise
             \/ Finish
    BY <2>2 DEF Receive, Begin, UseSet, Forward, HandleReturns, HandedOver, SaysNothing, Panics,
                Recover, AnswerCommand, AnswerOfBackend, Apologise, Answer, End, Finish
  <2>3. CASE Stop
    BY <2>1, <2>3 DEF Stop, Cancelled
  <2>4. CASE \E text \in Texts :
                 \/ Inform(text)
                 \/ ForwardOnce(text)
                 \/ \E u \in Users : \/ RouteText(u, text) \/ Unknown(u, text)
                                   \/ UseMain(u, text) \/ UseBackend(u, text)
    BY <2>4 DEF Inform, ForwardOnce, RouteText, Unknown, UseMain, UseBackend, SendTo
  <2> QED
    BY <1>2, <2>2, <2>3, <2>4 DEF Loop
<1>3. CASE Requests
  BY <1>1, <1>3
     DEF Requests, SwitchSaves, SwitchApplies, ClearDeletes, ClearApplies,
         ModeReads, ModeWrites, SessionRequest, messageVars
<1>4. CASE Signal \/ Drained \/ DrainTimesOut \/ AccountsRemoved \/ Exit \/ Crash
  BY <1>4 DEF Signal, Drained, DrainTimesOut, AccountsRemoved, MainGoes, Exit, Crash,
              Dies
<1>5. CASE \E read \in BOOLEAN : Boot(read)
  BY <1>5 DEF Boot
<1>6. CASE \/ Arrive \/ FactoryResets \/ AccountRemoved \/ AccountListed
           \/ \E b \in Backends : FactoryRegisters(b)
  BY <1>1, <1>6 DEF Arrive, FactoryResets, AccountRemoved, AccountListed,
                    FactoryRegisters, messageVars
<1>7. CASE UNCHANGED vars
  BY <1>1, <1>7 DEF vars, messageVars
<1> QED
  BY <1>2, <1>3, <1>4, <1>5, <1>6, <1>7 DEF Next, Main, Surroundings

\* While the gateway serves, processLoop has not ended: a panic of an adapter, an
\* account that is removed or an empty factory do not end it (api/pipeline.go:70).
THEOREM LoopGoesOnServing == Spec => []LoopServes
<1>1. Init => LoopServes
  BY DEF Init, LoopServes, At
<1> QED
  BY <1>1, ServesStep, PTL DEF Spec
===============================================================================
