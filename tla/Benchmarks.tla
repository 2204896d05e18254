------------------------------- MODULE Benchmarks -----------------------------
(***************************************************************************)
(* The benchmark programs side by side: in a behaviour either several      *)
(* processes prepare their file (BenchFile), or one of the two programs    *)
(* runs over a file that is prepared (ConcurrentBench, StreamingBench).    *)
(***************************************************************************)
EXTENDS BenchFile

CONSTANTS
    ConcurrentConfigs, Block, MAX_READ_SIZE, MAX_CONCURRENCY, MaxFile, Truncated, FailingOps,
    StreamConfigs, MAX_CHUNK, MAX_QD, Aligns, Lengths, FailingOffsets

VARIABLES
    program,                             \* which of the three this behaviour shows
    cfg, file_len, phase,                \* of both programs
    offs, task, read, lats,              \* of the concurrent one
    cursor, warmups, off, idx, set, total, covered

concurrent == <<offs, task, read, lats>>
streaming == <<cursor, warmups, off, idx, set, total, covered>>
allvars == <<vars, program, cfg, file_len, phase, concurrent, streaming>>

C == INSTANCE ConcurrentBench WITH Configs <- ConcurrentConfigs, MayFail <- FailingOps
S == INSTANCE StreamingBench WITH Configs <- StreamConfigs, MayFail <- FailingOffsets

NoFileRun == Init /\ path = NoFile
NoConcurrent == offs = <<>> /\ task = <<>> /\ read = <<>> /\ lats = 0
NoStream == cursor = 0 /\ warmups = 0 /\ off = 0 /\ idx = 0 /\ set = {} /\ total = 0 /\ covered = <<>>

BenchInit ==
  \/ program = "file" /\ Init /\ cfg = <<>> /\ file_len = 0 /\ phase = "none" /\ NoConcurrent /\ NoStream
  \/ program = "concurrent" /\ C!Init /\ NoFileRun /\ NoStream
  \/ program = "streaming" /\ S!Init /\ NoFileRun /\ NoConcurrent

BenchNext ==
  \/ program = "file" /\ Next /\ UNCHANGED <<program, cfg, file_len, phase, concurrent, streaming>>
  \/ program = "concurrent" /\ C!Next /\ UNCHANGED <<vars, program, streaming>>
  \/ program = "streaming" /\ S!Next /\ UNCHANGED <<vars, program, concurrent>>

\* A program runs on: its tasks run, and `main` joins them.
RunsOn ==
  \/ program = "concurrent" /\ C!Main /\ UNCHANGED <<vars, program, streaming>>
  \/ program = "streaming" /\ S!Run /\ UNCHANGED <<vars, program, concurrent>>

BenchSpec == BenchInit /\ [][BenchNext]_allvars /\ WF_allvars(RunsOn)

-------------------------------------------------------------------------------
\* The concurrent benchmark prints a row only for a run that did each operation once, in
\* full, and whose tasks had ended ("All operation tasks have joined").
ConcurrentIsWhole == program = "concurrent" => C!ReportedIsWhole

\* What its validate accepts gives reads the file can satisfy: it fails only if the file is
\* cut or an operation fails.
ConcurrentFailsForCause == program = "concurrent" => C!FailureHasCause

\* The streaming benchmark prints a row only for a run that read every byte once, whatever
\* the strategy, the order in which chunks ended and the file's changes of length.
StreamIsWhole == program = "streaming" => S!ReportedIsWhole

\* No more than qd of its reads are in flight, so no more than qd buffers are live.
StreamDepth == program = "streaming" => S!DepthBound

\* Its warm-ups do not disturb what follows, and a geometry its validate accepts can be
\* read: it fails only if the file was changed or a read failed.
StreamFailsForCause == program = "streaming" => S!FailureHasCause

\* What either benchmark ends with is earned: a row by a whole run within its depth, an error
\* by a cause outside it.
OutcomeHonest ==
  /\ ConcurrentIsWhole /\ ConcurrentFailsForCause
  /\ StreamIsWhole /\ StreamDepth /\ StreamFailsForCause

\* However operations are dealt out, and although the file is cut under them, both end.
BenchEnds == <>(program = "file" \/ phase \in {"rejected", "unprepared", "failed", "reported"})
===============================================================================
