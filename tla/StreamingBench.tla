---------------------------- MODULE StreamingBench ----------------------------
(***************************************************************************)
(* The streaming benchmark (src/examples/streaming_bench/linux.rs): one    *)
(* file read end to end, by a sequential buffered or O_DIRECT loop or by   *)
(* io_uring reads of which qd are in flight, in warm-up runs and then a    *)
(* measured one over the same open file.  Meanwhile another program may    *)
(* cut or extend the file and a read may fail.  Sizes count in units.      *)
(***************************************************************************)
EXTENDS Integers, FiniteSets

CONSTANTS
    Configs,              \* [strategy, size, chunk, qd, align, warmup_runs, verify]
    MAX_CHUNK, MAX_QD, Aligns, MaxFile,
    Lengths,              \* lengths another program may give the file
    MayFail               \* offsets at which a read may fail

Direct == {"std_odirect", "uring_read_at_direct"}
Uring  == {"uring_read_at", "uring_read_at_direct"}

VARIABLES
    cfg,
    file_len, cursor,     \* the file's length, and the position of the open file
    phase, warmups,       \* where `run` is, and how many warm-ups are left
    off,                  \* run_std_odirect: where it reads next
    idx, set,             \* run_uring: the next chunk, and the tasks by their offset
    total, covered        \* the run's bytes, counted, and how often each was read

loop == <<off, idx, set, total, covered>>
vars == <<cfg, file_len, cursor, phase, warmups, loop>>

Smaller(a, b) == IF a < b THEN a ELSE b
Larger(a, b)  == IF a < b THEN b ELSE a

\* validate
Valid(c) ==
  /\ c.size \in 1..MaxFile /\ c.chunk \in 1..MAX_CHUNK /\ c.qd \in 1..MAX_QD
  /\ c.align \in Aligns
  /\ c.strategy \in Direct => c.chunk % c.align = 0

Init ==
  /\ cfg \in Configs
  /\ file_len = cfg.size /\ cursor = 0 /\ warmups = cfg.warmup_runs
  /\ phase = IF Valid(cfg) THEN "prepare" ELSE "rejected"
  /\ off = 0 /\ idx = 0 /\ set = {} /\ total = 0 /\ covered = [b \in 0..(cfg.size - 1) |-> 0]

\* The runtime, the open file and the driver, each of which may fail.
Prepare ==
  /\ phase = "prepare" /\ phase' \in {"unprepared", "run"}
  /\ UNCHANGED <<cfg, file_len, cursor, warmups, loop>>

\* Another program changes the file's length.
Resize ==
  /\ file_len = cfg.size /\ file_len' \in Lengths
  /\ UNCHANGED <<cfg, cursor, phase, warmups, loop>>

\* What a read of len bytes at o returns.
ReadAt(o, len) == Smaller(len, Larger(0, file_len - o))

\* A run counts n more bytes, those at o.
Count(o, n) ==
  /\ total' = total + n
  /\ covered' = [b \in DOMAIN covered |-> covered[b] + IF b \in o..(o + n - 1) THEN 1 ELSE 0]

\* A run ends in an error.
Err == phase' = "failed" /\ UNCHANGED <<cursor, loop>>

\* Defect: a read that returns nothing is tried again.
Stops_not(n) == FALSE

Stops(n) == n = 0

\* run_std_buffered reads where the last read ended, until nothing comes; with `verify` the
\* content must be that at `total`, and the file holds it only up to its first size.
Buffered ==
  /\ cfg.strategy = "std_buffered" /\ phase = "run"
  /\ LET n == ReadAt(cursor, cfg.chunk)
         verified == cfg.verify => cursor = total /\ cursor + n <= cfg.size
     IN  \/ /\ Stops(n)
            /\ phase' = "ran" /\ UNCHANGED <<cursor, loop>>
         \/ /\ ~Stops(n) /\ verified
            /\ cursor' = cursor + n /\ Count(cursor, n) /\ UNCHANGED <<phase, off, idx, set>>
         \/ /\ cursor \in MayFail \/ ~verified
            /\ Err
  /\ UNCHANGED <<cfg, file_len, warmups>>

\* run_std_odirect reads up to the size; what comes from behind it does not count.  External:
\* a read at an offset that is not aligned may fail.
ODirect ==
  /\ cfg.strategy = "std_odirect" /\ phase = "run"
  /\ LET n == ReadAt(off, cfg.chunk)
     IN  \/ /\ off >= cfg.size \/ Stops(n)
            /\ phase' = "ran" /\ UNCHANGED loop
         \/ /\ off < cfg.size /\ ~Stops(n)
            /\ off' = off + n /\ Count(off, Smaller(n, cfg.size - off))
            /\ UNCHANGED <<phase, idx, set>>
         \/ /\ off < cfg.size /\ (off \in MayFail \/ off % cfg.align # 0)
            /\ Err
  /\ UNCHANGED <<cfg, file_len, cursor, warmups>>

-------------------------------------------------------------------------------
Room == Cardinality(set) < cfg.qd

\* (0..size).step_by(chunk)
More == idx * cfg.chunk < cfg.size

Pending == -1
Failed  == -2

\* run_uring spawns a task: up to qd at first, then one for each that is joined.
SpawnChunk ==
  /\ cfg.strategy \in Uring /\ phase = "run" /\ Room /\ More
  /\ set' = set \cup {[off |-> idx * cfg.chunk, got |-> Pending]}
  /\ idx' = idx + 1
  /\ UNCHANGED <<cfg, file_len, cursor, phase, warmups, off, total, covered>>

\* A task's read returns, in any order; with `verify` a short one is an error.
ReadChunk ==
  /\ phase = "run"
  /\ \E t \in set :
       LET len == Smaller(cfg.chunk, cfg.size - t.off)
           n == ReadAt(t.off, len)
       IN  /\ t.got = Pending
           /\ \E got \in (IF cfg.verify /\ n # len THEN {Failed} ELSE {n})
                         \cup (IF t.off \in MayFail THEN {Failed} ELSE {}) :
                set' = (set \ {t}) \cup {[t EXCEPT !.got = got]}
  /\ UNCHANGED <<cfg, file_len, cursor, phase, warmups, off, idx, total, covered>>

\* join_next: a task that ended is counted; an error ends the run.
JoinChunk ==
  /\ phase = "run" /\ ~(Room /\ More)
  /\ \E t \in set :
       \/ /\ t.got \notin {Pending, Failed}
          /\ set' = set \ {t} /\ Count(t.off, t.got)
          /\ UNCHANGED <<phase, cursor, off, idx>>
       \/ t.got = Failed /\ Err
  /\ UNCHANGED <<cfg, file_len, cursor, warmups>>

\* join_next has no task left.
UringEnds ==
  /\ cfg.strategy \in Uring /\ phase = "run" /\ set = {} /\ ~More
  /\ phase' = "ran"
  /\ UNCHANGED <<cfg, file_len, cursor, warmups, loop>>

-------------------------------------------------------------------------------
Complete == total = cfg.size

\* Defect: the file's position stays where the warm-up left it.
Rewound_not == cursor

\* rewind
Rewound == 0

\* run: a warm-up and the measured run must each come to the size of the file.
RunEnds ==
  /\ phase = "ran"
  /\ \/ /\ ~Complete /\ Err /\ UNCHANGED warmups
     \/ /\ Complete /\ warmups > 0
        /\ warmups' = warmups - 1 /\ cursor' = Rewound /\ phase' = "run"
        /\ off' = 0 /\ idx' = 0 /\ set' = {} /\ total' = 0
        /\ covered' = [b \in DOMAIN covered |-> 0]
     \/ /\ Complete /\ warmups = 0
        /\ phase' = "reported" /\ UNCHANGED <<warmups, cursor, loop>>
  /\ UNCHANGED <<cfg, file_len>>

Run == Prepare \/ Buffered \/ ODirect \/ SpawnChunk \/ ReadChunk \/ JoinChunk \/ UringEnds
       \/ RunEnds

Next == Run \/ Resize

Spec == Init /\ [][Next]_vars

-------------------------------------------------------------------------------
\* A row is printed only for a run that read every byte of the file once, whatever the
\* strategy, the order in which its chunks ended and the file's changes of length.
ReportedIsWhole == phase = "reported" => \A b \in DOMAIN covered : covered[b] = 1

\* No more than qd reads are in flight, so no more than qd buffers are live.
DepthBound == Cardinality(set) <= cfg.qd

\* Warm-ups do not disturb what follows, and a geometry that validate accepts can be read:
\* the benchmark fails only if the file was changed or a read failed.
FailureHasCause ==
  phase = "failed" => \/ file_len # cfg.size
                      \/ {off, cursor} \cap MayFail # {}
                      \/ \E t \in set : t.off \in MayFail
===============================================================================
