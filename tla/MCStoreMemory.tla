--------------------------- MODULE MCStoreMemory ---------------------------
(***************************************************************************)
(* k1 and k2 share a shard, k3 has one of its own.  A behaviour begins     *)
(* with both keys of the first shard or with one key in each, and with the *)
(* memory used up.                                                         *)
(***************************************************************************)
EXTENDS StoreMemory
CONSTANTS k1, k2, k3

MCShard == k1 :> 1 @@ k2 :> 1 @@ k3 :> 2

Full == k1 :> Entry("list", 1, 1) @@ k2 :> Entry("string", 0, 1) @@ k3 :> NoEntry
Spread == k1 :> Entry("string", 2, 1) @@ k2 :> NoEntry @@ k3 :> Entry("string", 1, 1)
Mixed == k1 :> NoEntry @@ k2 :> Entry("string", 2, 1) @@ k3 :> Entry("list", 0, 1)

MCStart == ({"volatile-random"} \X {Full})
           \cup ({"volatile-lru", "volatile-ttl"} \X {Spread})
           \cup ({"noeviction", "allkeys-lru"} \X {Mixed})

MCReloads == {<<"noeviction", "allkeys-lru">>}
=============================================================================
