----------------------------- MODULE MCUsageScan -----------------------------
(***************************************************************************)
(* Instances of the stream scan for TLC: a marker that overlaps itself,    *)
(* two usages, one of them reported on lines with and without a return.    *)
(***************************************************************************)
EXTENDS UsageScan, TLC

MarkerOverlapping == <<"a", "b", "a">>

TwoUsages == <<"a">> :> 1 @@ <<"a", "r">> :> 1 @@ <<"b", "a">> :> 2
=============================================================================
