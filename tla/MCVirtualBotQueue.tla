------------------------- MODULE MCVirtualBotQueue -------------------------
(* VirtualBotQueue for TLC: the pipeline enqueues, two polls are in flight. *)
EXTENDS VirtualBotQueue

MCProducers == {"pipeline"}
MCConsumers == {"poll1", "poll2"}
=============================================================================
