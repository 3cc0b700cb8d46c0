------------------------- MODULE MCClientLifecycle -------------------------
(* Instances of ClientLifecycle for TLC: one goroutine that starts and      *)
(* stops the client again and again, or two that get into each other's way. *)
EXTENDS ClientLifecycle
CONSTANTS c1, c2
=============================================================================
