----------------------------- MODULE MCReplLinks -----------------------------
(* One peer reached over dialled links and an accepted one, for TLC.  The      *)
(* accepted link carries the address the peer advertises, the dialled ones the *)
(* address it is configured under.                                             *)
EXTENDS ReplLinks, TLC

CONSTANTS accept, peer, advertised, configured

MCNode    == [l \in Links |-> peer]
MCAddr    == [l \in Links |-> IF l = accept THEN advertised ELSE configured]
MCInbound == [l \in Links |-> l = accept]
MCWriters == Permutations(Writers)
=============================================================================
