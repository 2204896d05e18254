---------------------------- MODULE OrderedPrefetch ---------------------------
(***************************************************************************)
(* OrderedReader (src/examples/ordered_prefetch/reader.rs): a window of    *)
(* prefetched reads that complete in any order and are delivered in file   *)
(* order, and the consumer of linux.rs that verifies what it is given.     *)
(*                                                                         *)
(* poll_next runs in steps (one per slot filled or polled), so that reads  *)
(* complete between any two of them.  A slot holds the handle of its read: *)
(* `answer` is what the read completed with, `waker` whether the handle    *)
(* will wake the consumer.  The bytes of a chunk are given by its range.   *)
(***************************************************************************)
EXTENDS Integers, Sequences

CONSTANTS
    Configs,              \* configurations the reader may be made with
    MAX_WINDOW, MAX_CHUNK,
    MaxI64, MaxU64,       \* i64::MAX and u64::MAX
    FileLen,              \* length of the file
    Faults, Oversized     \* offsets whose read may fail, or return too much

ASSUME PrefetchAssumption ==
  /\ Configs \subseteq [offset : Nat, length : Nat, chunk : Nat, window : Nat, max_bytes : Nat]
  /\ {MAX_WINDOW, MAX_CHUNK, MaxI64, MaxU64, FileLen} \subseteq Nat

VARIABLES
    config, end,          \* of the reader
    next_offset, reserved, slots, stop_scheduling, finished,
    pc, index,            \* where the consumer's call is, and the slot it polls
    woken,                \* the consumer's task is to be polled again
    outcome,              \* what next returned last
    delivered, verdict    \* of the consumer: bytes taken, and what it found

range    == <<config, end>>
reader   == <<range, next_offset, reserved, slots, stop_scheduling, finished>>
consumer == <<outcome, delivered, verdict>>
vars     == <<reader, pc, index, woken, consumer>>

Smaller(a, b) == IF a < b THEN a ELSE b
Larger(a, b)  == IF a < b THEN b ELSE a

NoAnswer == -2
Error    == -1            \* an Err; Ok(bytes) is the number of bytes

None == [kind |-> "none", offset |-> 0, len |-> 0]
Failed == [kind |-> "error", offset |-> 0, len |-> 0]
Data(offset, len) == [kind |-> "chunk", offset |-> offset, len |-> len]

\* Defect: the end of the range is not checked.
Valid_unchecked(c) == /\ c.chunk \in 1..MAX_CHUNK /\ c.window \in 1..MAX_WINDOW
                      /\ c.max_bytes \in c.chunk..(MAX_WINDOW * MAX_CHUNK)

\* Config::validate
Valid(c) ==
  /\ c.chunk # 0 /\ c.chunk <= MAX_CHUNK /\ c.window # 0 /\ c.window <= MAX_WINDOW
  /\ c.max_bytes >= c.chunk /\ c.max_bytes <= MAX_WINDOW * MAX_CHUNK
  /\ c.offset + c.length <= MaxU64 /\ c.offset + c.length <= MaxI64

\* OrderedReader::new, which starts nothing.
Init ==
  /\ config \in Configs
  /\ end = IF Valid(config) THEN config.offset + config.length ELSE 0
  /\ next_offset = config.offset /\ reserved = 0 /\ slots = <<>>
  /\ stop_scheduling = FALSE /\ finished = FALSE
  /\ pc = IF Valid(config) THEN "idle" ELSE "rejected"
  /\ index = 1 /\ woken = FALSE
  /\ outcome = None /\ delivered = 0 /\ verdict = "ok"

-------------------------------------------------------------------------------
(* External: the source, which reads the whole range or up to the end.     *)

RangeOrEof(offset, len) == Smaller(len, Larger(0, FileLen - offset))

Answers(slot) == {RangeOrEof(slot.offset, slot.len)}
                 \cup (IF slot.offset \in Faults THEN {Error} ELSE {})
                 \cup (IF slot.offset \in Oversized THEN {slot.len + 1} ELSE {})

\* A read completes, in any order, and wakes the task that polled its handle.
Complete(i) ==
  /\ i \in DOMAIN slots /\ slots[i].answer = NoAnswer
  /\ \E a \in Answers(slots[i]) : slots' = [slots EXCEPT ![i].answer = a]
  /\ woken' = (woken \/ slots[i].waker)
  /\ UNCHANGED <<range, next_offset, reserved, stop_scheduling, finished, pc, index, consumer>>

-------------------------------------------------------------------------------
(* OrderedReader::next and poll_next.                                      *)

\* The consumer awaits next(), or its task is woken: poll_next begins.
PollNext ==
  /\ pc = "idle" \/ (pc = "pending" /\ woken)
  /\ woken' = FALSE
  /\ pc' = IF finished THEN "got" ELSE "fill"
  /\ outcome' = IF finished THEN None ELSE outcome
  /\ UNCHANGED <<reader, index, delivered, verdict>>

NextLen == Smaller(end - next_offset, config.chunk)

\* Defect: a slot is opened as long as any byte of the limit is left.
HasRoom_anybyte == reserved < config.max_bytes

HasRoom == NextLen <= config.max_bytes - reserved

MayFill == ~stop_scheduling /\ next_offset < end /\ Len(slots) < config.window /\ HasRoom

\* One turn of fill_window's loop.
Fill ==
  /\ pc = "fill" /\ MayFill
  /\ slots' = Append(slots, [offset |-> next_offset, len |-> NextLen, state |-> "pending",
                             answer |-> NoAnswer, waker |-> FALSE])
  /\ reserved' = reserved + NextLen /\ next_offset' = next_offset + NextLen
  /\ UNCHANGED <<range, stop_scheduling, finished, pc, index, woken, consumer>>

\* The slot after its handle was polled: more bytes than asked for are an error.
Polled(slot) ==
  IF slot.state = "ready" THEN slot
  ELSE IF slot.answer = NoAnswer THEN [slot EXCEPT !.waker = TRUE]
  ELSE [slot EXCEPT !.state = "ready",
                    !.answer = IF slot.answer > slot.len THEN Error ELSE slot.answer]

\* An error or a short read, behind which nothing can be delivered.
Terminal(slot) == slot.state = "ready" /\ slot.answer # slot.len

\* Defect: the last slot is not polled.
LastPolled_short == Len(slots) - 1

\* Defect: once every handle has been polled, only the first is polled again.
LastPolled_front == IF slots # <<>> /\ \A i \in DOMAIN slots : slots[i].waker THEN 1 ELSE Len(slots)

LastPolled == Len(slots)

\* One turn of poll_next's loop; it ends at a terminal slot.
PollSlot ==
  /\ pc = "poll" /\ index <= LastPolled
  /\ LET slot == Polled(slots[index])
     IN  /\ slots' = [slots EXCEPT ![index] = slot]
         /\ stop_scheduling' = (stop_scheduling \/ Terminal(slot))
         /\ pc' = IF Terminal(slot) THEN "cut" ELSE "poll"
         /\ index' = IF Terminal(slot) THEN index ELSE index + 1
  /\ UNCHANGED <<range, next_offset, reserved, finished, woken, consumer>>

\* The terminal slot is the last to stay.
Kept == index

\* The slots behind the terminal one are dropped, from the back.
CutSlot ==
  /\ pc = "cut" /\ Len(slots) > Kept
  /\ reserved' = reserved - slots[Len(slots)].len
  /\ slots' = SubSeq(slots, 1, Len(slots) - 1)
  /\ UNCHANGED <<range, next_offset, stop_scheduling, finished, pc, index, woken, consumer>>

\* The loops end, each when its condition fails.
LoopEnds ==
  /\ \/ pc = "fill" /\ ~MayFill /\ pc' = "poll" /\ index' = 1
     \/ pc = "poll" /\ index > LastPolled /\ pc' = "front" /\ UNCHANGED index
     \/ pc = "cut" /\ Len(slots) <= Kept /\ pc' = "front" /\ UNCHANGED index
  /\ UNCHANGED <<reader, woken, consumer>>

\* No slot is left (the range is delivered), or the first is still pending.
FrontBlocks ==
  /\ pc = "front"
  /\ \/ slots = <<>> /\ finished' = TRUE /\ outcome' = None /\ pc' = "got"
     \/ /\ slots # <<>> /\ slots[1].state = "pending" /\ pc' = "pending"
        /\ UNCHANGED <<finished, outcome>>
  /\ UNCHANGED <<range, next_offset, reserved, slots, stop_scheduling, index, woken,
                 delivered, verdict>>

\* Defect: a short chunk does not end the reader.
EndsAt_error(slot) == slot.answer = Error

\* An error or a short chunk finishes the reader.
EndsAt(slot) == slot.answer < slot.len

\* The first slot is delivered.
FrontReady ==
  /\ pc = "front" /\ slots # <<>> /\ slots[1].state = "ready"
  /\ LET slot == slots[1]
     IN  /\ reserved' = reserved - slot.len
         /\ finished' = EndsAt(slot)
         /\ outcome' = IF slot.answer = Error THEN Failed
                       ELSE IF slot.answer = 0 THEN None ELSE Data(slot.offset, slot.answer)
  /\ slots' = Tail(slots) /\ pc' = "got"
  /\ UNCHANGED <<range, next_offset, stop_scheduling, index, woken, delivered, verdict>>

-------------------------------------------------------------------------------
(* The consumer of linux.rs.                                               *)

\* The pending future of next() is dropped (the reader keeps every slot), or the reader
\* itself, with every handle.
Drop ==
  /\ \/ pc = "pending" /\ pc' = "idle" /\ UNCHANGED slots
     \/ pc = "idle" /\ pc' = "dropped" /\ slots' = <<>>
  /\ UNCHANGED <<range, next_offset, reserved, stop_scheduling, finished, index, woken, consumer>>

\* The length of the reference read.
Wanted == Smaller(end - (config.offset + delivered), config.chunk)

\* What it says of the outcome: it reads the same range itself.
Judge ==
  LET expected == config.offset + delivered
  IN  IF outcome.kind = "chunk"
      THEN IF outcome.offset # expected THEN "non-contiguous"
           ELSE IF outcome.len # RangeOrEof(expected, Wanted) THEN "mismatch" ELSE verdict
      ELSE IF outcome.kind = "error" THEN "failed"
      ELSE IF verdict = "ok" /\ expected < end /\ RangeOrEof(expected, 1) # 0 THEN "premature"
      ELSE verdict

Consume ==
  /\ pc = "got"
  /\ verdict' = Judge
  /\ delivered' = delivered + (IF outcome.kind = "chunk" THEN outcome.len ELSE 0)
  /\ pc' = "idle"
  /\ UNCHANGED <<reader, index, woken, outcome>>

-------------------------------------------------------------------------------
Step == \/ PollNext \/ Fill \/ PollSlot \/ CutSlot \/ LoopEnds
        \/ FrontBlocks \/ FrontReady \/ Consume

Next == Step \/ Drop \/ \E i \in DOMAIN slots : Complete(i)

Spec == Init /\ [][Next]_vars

\* The consumer goes on, and the read at the front completes.
FairSpec == Spec /\ WF_vars(Step) /\ WF_vars(Complete(1))
-------------------------------------------------------------------------------
Kinds == {"none", "chunk", "error"}

\* Every variable has its type; no subtraction of `reserved` goes below zero.
TypeOK ==
  /\ {end, next_offset, reserved, delivered} \subseteq Nat /\ index \in Nat \ {0}
  /\ slots \in Seq([offset : Nat, len : Nat \ {0}, state : {"pending", "ready"},
                    answer : Int, waker : BOOLEAN])
  /\ {stop_scheduling, finished, woken} \subseteq BOOLEAN
  /\ pc \in {"idle", "fill", "poll", "cut", "front", "pending", "got", "rejected", "dropped"}
  /\ outcome \in [kind : Kinds, offset : Nat, len : Nat]
  /\ verdict \in {"ok", "failed", "non-contiguous", "mismatch", "premature"}

\* What the slots cover of the file, which is contiguous.
Covered == IF slots = <<>> THEN 0
           ELSE slots[Len(slots)].offset + slots[Len(slots)].len - slots[1].offset

\* "their combined requested lengths never exceed MAX_BYTES, and their combined count
\* never exceeds WINDOW", pending and ready slots alike; and what is reserved is what the
\* slots cover, so that none of the limit is lost to slots dropped behind an error.
WindowBound ==
  pc # "dropped" => /\ reserved = Covered
                    /\ Len(slots) <= config.window /\ reserved <= config.max_bytes

\* No read is asked for outside the range, or past what a file offset can hold.
ReadsInRange ==
  \A i \in DOMAIN slots : /\ slots[i].offset >= config.offset
                          /\ slots[i].offset + slots[i].len <= config.offset + config.length
                          /\ slots[i].offset + slots[i].len <= MaxI64

\* The checks of linux.rs never fail: chunks are contiguous and match a positioned read of
\* the same range, and without an error the end is not reported while there is more.
Verified == verdict \in {"ok", "failed"}

\* The end of what was delivered, the chunk not yet consumed included.
Delivered == config.offset + delivered
             + (IF pc = "got" /\ outcome.kind = "chunk" THEN outcome.len ELSE 0)

\* The abstract reader this one implements.
Abstract == INSTANCE SequentialRead WITH pos <- Delivered, ended <- finished,
                                         Faults <- Faults \cup Oversized

\* The prefetching reader delivers exactly what a sequential one would: each outcome is the
\* next of the sequence, whatever order the reads complete in, and it is fused at the end.
Sequential == Abstract!Spec

\* A consumer that goes on polling comes to the end, even if it abandons calls of next().
Ends == <>(finished \/ pc \in {"rejected", "dropped"})
===============================================================================
