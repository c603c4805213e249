----------------------------- MODULE MCLifecycle -----------------------------
(***************************************************************************)
(* The instance of the process for TLC.                                    *)
(***************************************************************************)
EXTENDS Lifecycle
=============================================================================
