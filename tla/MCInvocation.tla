--------------------------- MODULE MCInvocation ---------------------------
(* Two clients, the first of them root, and three calls. *)
EXTENDS Invocation, TLC

CONSTANTS c1, c2, k1, k2, k3

MCCaller == (k1 :> c1) @@ (k2 :> c2) @@ (k3 :> c2)
=============================================================================
