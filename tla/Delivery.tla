------------------------------ MODULE Delivery ------------------------------
(***************************************************************************)
(* What the Connector (bot/account.go) promises the pipeline: the messages *)
(* of each account are offered to msgChan in order and without a gap, once *)
(* unless something went wrong, and then only those that the saved cursor  *)
(* does not cover, unless it cannot be relied on.  Poll loops, requests    *)
(* and the list of accounts do not appear here; AccountPolling implements  *)
(* this specification.                                                     *)
(***************************************************************************)
EXTENDS Naturals, Sequences

CONSTANTS Accounts,
          MaxMessages,  \* bound on the messages of an account
          Capacity      \* room in the channel

VARIABLES held,        \* held[a]: messages the server has for a, numbered from 1
          inbox,       \* the channel to the pipeline
          offered,     \* offered[a]: messages that entered it or found it full
          cursor,      \* cursor[a]: how far the saved cursor says a was fetched
          replayable,  \* accounts that something went wrong with
          adrift       \* accounts that are fetched by two, or from the beginning

vars == <<held, inbox, offered, cursor, replayable, adrift>>

Init ==
    /\ held = [a \in Accounts |-> 0]
    /\ inbox = <<>>
    /\ offered = [a \in Accounts |-> {}]
    /\ cursor = [a \in Accounts |-> 0]
    /\ replayable = {}
    /\ adrift = {}

Arrive(a) ==
    /\ held[a] < MaxMessages
    /\ held' = [held EXCEPT ![a] = @ + 1]
    /\ UNCHANGED <<inbox, offered, cursor, replayable, adrift>>

\* Message m is offered after all that came before it; a full channel drops it.
Offer(a, m) ==
    /\ 1..m - 1 \subseteq offered[a]
    /\ m \in offered[a] => a \in replayable /\ (m > cursor[a] \/ a \in adrift)
    /\ inbox' = IF Len(inbox) < Capacity THEN Append(inbox, <<a, m>>) ELSE inbox
    /\ offered' = [offered EXCEPT ![a] = @ \cup {m}]
    /\ UNCHANGED <<held, cursor, replayable, adrift>>

Receive ==
    /\ inbox # <<>>
    /\ inbox' = Tail(inbox)
    /\ UNCHANGED <<held, offered, cursor, replayable, adrift>>

\* The cursor covers only what was offered, and goes forward.
Save(a, n) ==
    /\ 1..n \subseteq offered[a]
    /\ n >= cursor[a] \/ a \in adrift
    /\ cursor' = [cursor EXCEPT ![a] = n]
    /\ UNCHANGED <<held, inbox, offered, replayable, adrift>>

SaveFails(a) ==
    /\ replayable' = replayable \cup {a}
    /\ UNCHANGED <<held, inbox, offered, cursor, adrift>>

\* The account is fetched by two, or from the beginning; in the latter case the
\* saved cursor may be lost with it.
GoAdrift(a) ==
    /\ replayable' = replayable \cup {a}
    /\ adrift' = adrift \cup {a}
    /\ cursor' \in {cursor, [cursor EXCEPT ![a] = 0]}
    /\ UNCHANGED <<held, inbox, offered>>

\* The process ends; whoever fetches next starts at the saved cursor.
Restart ==
    /\ inbox' = <<>>
    /\ replayable' = Accounts
    /\ adrift' = {}
    /\ UNCHANGED <<held, offered, cursor>>

Next ==
    \/ Receive
    \/ Restart
    \/ \E a \in Accounts :
           \/ Arrive(a) \/ SaveFails(a) \/ GoAdrift(a)
           \/ \E m \in 1..held[a] : Offer(a, m)
           \/ \E n \in 0..held[a] : Save(a, n)

Spec == Init /\ [][Next]_vars
=============================================================================
