----------------------------- MODULE MCLifecycle -----------------------------
(* The lifecycle of one agent process for TLC; the constants are model values
   and numbers. *)
EXTENDS Lifecycle
=============================================================================
