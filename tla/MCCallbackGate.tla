--------------------------- MODULE MCCallbackGate ----------------------------
(* CallbackGate on a few calls and waiters, given in the configuration.      *)
EXTENDS CallbackGate
=============================================================================
