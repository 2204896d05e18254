--------------------------- MODULE MCOrderedPrefetch --------------------------
(***************************************************************************)
(* Configurations for TLC: ranges within, across and behind the end of the *)
(* file, and some that validate refuses.                                   *)
(***************************************************************************)
EXTENDS OrderedPrefetch

Small == [offset : {0, 2, 7}, length : {0, 3, 5, 7}, chunk : 0..2, window : {1, 3},
          max_bytes : 1..4]
Deep == [offset : {1}, length : {7}, chunk : {2, 3}, window : {4, 5}, max_bytes : {7, 8, 13}]
Ranges == Small \cup Deep
===============================================================================
