----------------------------- MODULE MCSharedStart ----------------------------
(***************************************************************************)
(* A small instance of SharedStart: the pool of three bytes holds two of   *)
(* the drivers that ask for two, one and two, and another asks for more    *)
(* than there is.                                                          *)
(***************************************************************************)
EXTENDS SharedStart

CONSTANTS d1, d2, d3, d4, r1, r2

Shards == 0..(NShards - 1)
Limits == [d \in Drivers |-> IF d = d4 THEN Capacity + 1 ELSE IF d = d2 THEN 1 ELSE 2]
Shard == [r \in Reads |-> IF r = r2 THEN NShards - 1 ELSE 0]
===============================================================================
