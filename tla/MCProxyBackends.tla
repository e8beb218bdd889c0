---------------------------- MODULE MCProxyBackends ----------------------------
(* ProxyBackends for TLC.  Handlers and accounts are interchangeable. *)
EXTENDS ProxyBackends, TLC

Symmetry == Permutations(Handlers) \cup Permutations(Accounts)
=============================================================================
