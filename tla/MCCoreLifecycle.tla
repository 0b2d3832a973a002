-------------------------- MODULE MCCoreLifecycle --------------------------
(* Small instances of CoreLifecycle for TLC. *)
EXTENDS CoreLifecycle
=============================================================================
