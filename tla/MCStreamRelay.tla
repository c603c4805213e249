--------------------------- MODULE MCStreamRelay ---------------------------
(***************************************************************************)
(* Instances of the stream relay for TLC.  The inductive invariant of the  *)
(* proofs is checked here as well.                                         *)
(***************************************************************************)
EXTENDS StreamRelay
=============================================================================
