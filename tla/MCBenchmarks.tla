----------------------------- MODULE MCBenchmarks -----------------------------
(***************************************************************************)
(* Three processes that prepare a file; concurrent reads of files of one   *)
(* to three blocks, by more tasks than operations too; streams over files  *)
(* of up to seven units, with chunks that do and do not divide them.       *)
(***************************************************************************)
EXTENDS Benchmarks

Concurrent == [file_size : {2, 4, 5, 6, 8}, read_size : 0..4, concurrency : 0..3,
               total_ops : {0, 1, 3, 4}, warmup_ops : {0, 2}]
Streams == [strategy : {"std_buffered", "std_odirect", "uring_read_at", "uring_read_at_direct"},
            size : {0, 4, 5, 7}, chunk : 0..4, qd : {1, 2, 3}, align : {2},
            warmup_runs : {0, 1}, verify : BOOLEAN]
===============================================================================
