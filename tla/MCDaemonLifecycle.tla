------------------------- MODULE MCDaemonLifecycle -------------------------
(* Model-checking instance of DaemonLifecycle. *)
EXTENDS DaemonLifecycle
=============================================================================
