---------------------------- MODULE MCGapTracker ----------------------------
(* GapTracker for TLC: how much the sender sends before and after a restart. *)
EXTENDS GapTracker

FewAfterRestart == <<4, 2>>
=============================================================================
