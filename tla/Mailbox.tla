------------------------------ MODULE Mailbox ------------------------------
(***************************************************************************)
(* What the message queue of a virtual bot (ilink/registry.go, VirtualBot) *)
(* promises to the pipeline that fills it and to the getupdates requests   *)
(* that empty it: a FIFO mailbox in which a taker always leaves with       *)
(* everything that is pending, in one step.  Threads, locks, the notify    *)
(* channel and timers do not appear here; VirtualBotQueue implements this  *)
(* specification.                                                          *)
(***************************************************************************)
EXTENDS Naturals, Sequences

CONSTANTS Consumers,   \* the getupdates requests that can be open at once
          MaxMessages  \* bound on the number of messages ever put

VARIABLES put,      \* number of messages put so far; message k is the k-th
          pending,  \* messages put and not yet taken, oldest first
          hand,     \* hand[c]: what consumer c took and has not handed on
          received, \* messages that reached a client
          dropped   \* messages taken for a client that had gone away

vars == <<put, pending, hand, received, dropped>>

Elements(s) == {s[i] : i \in DOMAIN s}

Init ==
    /\ put = 0
    /\ pending = <<>>
    /\ hand = [c \in Consumers |-> <<>>]
    /\ received = {}
    /\ dropped = {}

Put ==
    /\ put < MaxMessages
    /\ put' = put + 1
    /\ pending' = Append(pending, put + 1)
    /\ UNCHANGED <<hand, received, dropped>>

\* A consumer with empty hands takes all there is.
Take(c) ==
    /\ pending # <<>>
    /\ hand[c] = <<>>
    /\ hand' = [hand EXCEPT ![c] = pending]
    /\ pending' = <<>>
    /\ UNCHANGED <<put, received, dropped>>

HandOver(c) ==
    /\ hand[c] # <<>>
    /\ hand' = [hand EXCEPT ![c] = <<>>]
    /\ \/ /\ received' = received \cup Elements(hand[c])
          /\ UNCHANGED dropped
       \/ /\ dropped' = dropped \cup Elements(hand[c])
          /\ UNCHANGED received
    /\ UNCHANGED <<put, pending>>

Next == Put \/ \E c \in Consumers : Take(c) \/ HandOver(c)

Spec == Init /\ [][Next]_vars
=============================================================================
