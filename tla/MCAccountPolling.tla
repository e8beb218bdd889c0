-------------------------- MODULE MCAccountPolling --------------------------
(***************************************************************************)
(* AccountPolling for TLC: one account, so that all slots can hold loops   *)
(* of that account, and a channel with room for a single message.          *)
(***************************************************************************)
EXTENDS AccountPolling, TLC

\* Slots and requests are interchangeable (used by the safety run only).
Symmetry == Permutations(Slots) \cup Permutations(Handlers)
=============================================================================
