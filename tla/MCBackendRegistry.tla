--------------------------- MODULE MCBackendRegistry ---------------------------
(* BackendRegistry for TLC: two requests at a time, about one id and "echo". *)
EXTENDS BackendRegistry
=============================================================================
