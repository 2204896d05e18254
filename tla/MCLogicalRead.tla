---------------------------- MODULE MCLogicalRead -----------------------------
(***************************************************************************)
(* Small instances of LogicalRead.  With u64::MAX = 31 and MAX_READ_LEN =  *)
(* 8 every request near a boundary is enumerated: offsets 0..16 straddle   *)
(* i64::MAX = 15, and 31 is the stream sentinel; alignments include the    *)
(* illegal 0 and 3 and the too large 16.                                   *)
(***************************************************************************)
EXTENDS LogicalRead

MCRequests ==
  [offset : {0, 1, 3, 4, 11, 13, 15, 16, 31}, len : {0, 1, 3, 6, 8, 9}, align : {0, 1, 2, 3, 4, 16},
   stream : {FALSE}]
  \cup [offset : {31}, len : {0, 2, 8, 9}, align : {1}, stream : {TRUE}]

MCChanging == [offset : {0, 3}, len : {3, 6}, align : {1, 4}, stream : {FALSE}]

MCFileLens == {0, 2, 5, 8, 14}
===============================================================================
