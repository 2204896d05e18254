---------------------------- MODULE ConcurrentBench ---------------------------
(***************************************************************************)
(* The concurrent positioned-read benchmark                                *)
(* (src/examples/concurrent_pread_bench/linux.rs): a list of offsets dealt *)
(* out to concurrent tasks, in a warm-up and in a measured run, and the    *)
(* teardown behind them.  Meanwhile another program may truncate the file  *)
(* and operations may fail.  Sizes count in units, Block of them a block.  *)
(***************************************************************************)
EXTENDS Integers, FiniteSets

CONSTANTS
    Configs,              \* [file_size, read_size, concurrency, total_ops, warmup_ops]
    Block,                \* 4096
    MAX_READ_SIZE, MAX_CONCURRENCY, MaxFile,
    Truncated,            \* lengths the file may be cut to
    MayFail               \* operations of which the open or the read may fail

VARIABLES
    cfg,
    file_len,             \* the file's length
    phase,                \* where `main` is
    offs,                 \* the offset of each operation of the run in progress
    task,                 \* per task of the run: [from, at, end, state]
    read,                 \* per operation of the run: how often it was done
    lats                  \* latencies `run` has collected

vars == <<cfg, file_len, phase, offs, task, read, lats>>

Smaller(a, b) == IF a < b THEN a ELSE b

\* validate (the number of shards concerns the driver)
Valid(c) ==
  /\ c.read_size \in 1..MAX_READ_SIZE /\ c.file_size <= MaxFile
  /\ c.file_size >= c.read_size + Block
  /\ c.concurrency \in 1..MAX_CONCURRENCY /\ c.total_ops > 0

Blocks(c) == (c.file_size - c.read_size) \div Block

\* offsets: some block for each operation.
Offsets(c, ops) == [0..(ops - 1) -> {b * Block : b \in 0..(Blocks(c) - 1)}]

Init ==
  /\ cfg \in Configs
  /\ file_len = cfg.file_size
  /\ phase = IF Valid(cfg) THEN "prepare" ELSE "rejected"
  /\ offs \in IF ~Valid(cfg) THEN {<<>>}
              ELSE Offsets(cfg, IF cfg.warmup_ops # 0 THEN cfg.warmup_ops ELSE cfg.total_ops)
  /\ task = <<>> /\ read = [i \in DOMAIN offs |-> 0] /\ lats = 0

\* Prepared::new opens the file and starts the driver, or fails; no warm-up if none is
\* asked for.
Prepare ==
  /\ phase = "prepare"
  /\ phase' \in {"unprepared", IF cfg.warmup_ops # 0 THEN "warmup" ELSE "measure"}
  /\ UNCHANGED <<cfg, file_len, offs, task, read, lats>>

\* Another program truncates the file.
Truncate ==
  /\ file_len' \in {l \in Truncated : l < file_len}
  /\ UNCHANGED <<cfg, phase, offs, task, read, lats>>

-------------------------------------------------------------------------------
Tasks == 0..(cfg.concurrency - 1)
NOps == Cardinality(DOMAIN offs)

\* div_ceil
PerTask == (NOps + cfg.concurrency - 1) \div cfg.concurrency

\* run: the operations are dealt out and the tasks spawned.
Spawn ==
  /\ phase \in {"warmup", "measure"} /\ task = <<>>
  /\ task' = [t \in Tasks |-> LET from == Smaller(t * PerTask, NOps)
                              IN  [from |-> from, at |-> from, end |-> Smaller(from + PerTask, NOps),
                                   state |-> "running"]]
  /\ UNCHANGED <<cfg, file_len, phase, offs, read, lats>>

\* What the read needs of the file is there.
Fits(i) == offs[i] + cfg.read_size <= file_len

\* An operation of a task: the whole read, or an error, which ends the task.
Operate(t) ==
  /\ t \in DOMAIN task /\ task[t].state = "running" /\ task[t].at < task[t].end
  /\ LET i == task[t].at
     IN  \/ /\ Fits(i)
            /\ read' = [read EXCEPT ![i] = @ + 1]
            /\ task' = [task EXCEPT ![t].at = @ + 1]
         \/ /\ i \in MayFail \/ ~Fits(i)
            /\ task' = [task EXCEPT ![t].state = "error"]
            /\ UNCHANGED read
  /\ UNCHANGED <<cfg, file_len, phase, offs, lats>>

\* join_next has nothing more to return.
Last(t) == \A u \in Tasks \ {t} : task[u].state = "joined"

\* join_next returns a task that is done, and `run` its latencies or its error; on an
\* error the set of tasks is dropped, which aborts the rest.
Join(t) ==
  /\ phase \in {"warmup", "measure"} /\ t \in DOMAIN task
  /\ \/ /\ task[t].state = "running" /\ task[t].at = task[t].end
        /\ lats' = lats + (task[t].end - task[t].from)
        /\ task' = [task EXCEPT ![t].state = "joined"]
        /\ phase' = IF Last(t) THEN (IF phase = "warmup" THEN "warm" ELSE "shutdown") ELSE phase
     \/ /\ task[t].state = "error"
        /\ task' = [u \in Tasks |-> [task[u] EXCEPT !.state = "joined"]]
        /\ phase' = "failed"
        /\ UNCHANGED lats
  /\ UNCHANGED <<cfg, file_len, offs, read>>

\* The measured run follows; both lists come from the same generator.
Measure ==
  /\ phase = "warm" /\ phase' = "measure"
  /\ offs' \in {o \in Offsets(cfg, cfg.total_ops) :
                  \A i \in DOMAIN o \cap DOMAIN offs : o[i] = offs[i]}
  /\ task' = <<>> /\ read' = [i \in DOMAIN offs' |-> 0] /\ lats' = 0
  /\ UNCHANGED <<cfg, file_len>>

\* The driver and the runtime are dropped, then the row is printed.
Report ==
  /\ phase = "shutdown" /\ phase' = "reported"
  /\ UNCHANGED <<cfg, file_len, offs, task, read, lats>>

-------------------------------------------------------------------------------
Main == Prepare \/ Spawn \/ Measure \/ Report \/ \E t \in DOMAIN task : Operate(t) \/ Join(t)

Next == Main \/ Truncate

Spec == Init /\ [][Next]_vars

-------------------------------------------------------------------------------
\* A row is printed only for a run that did each operation once, in full, and whose tasks
\* had all ended when the driver was dropped ("All operation tasks have joined").
ReportedIsWhole ==
  phase \in {"shutdown", "reported"} =>
    /\ lats = cfg.total_ops
    /\ \A i \in DOMAIN offs : read[i] = 1
    /\ \A t \in DOMAIN task : task[t].state = "joined"

\* A configuration that validate accepts gives reads the file can satisfy: the benchmark
\* fails only if the file is cut or an operation fails.
FailureHasCause ==
  phase = "failed" => \/ file_len < cfg.file_size
                      \/ \E t \in DOMAIN task : task[t].at < task[t].end /\ task[t].at \in MayFail
===============================================================================
