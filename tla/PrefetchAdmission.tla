--------------------------- MODULE PrefetchAdmission --------------------------
(***************************************************************************)
(* OrderedPrefetch over ReadAdmission: the reader of                       *)
(* src/examples/ordered_prefetch whose source is UringDriver::read_at, so  *)
(* that its slots compete, with each other and with the reads of other     *)
(* tasks, for the count permits of several shards and one byte budget.     *)
(*                                                                         *)
(* A read of the reader is named by its offset.  What a call of the reader *)
(* does inside the driver's admission runs to its end before the reader    *)
(* goes on; the driver's threads, those that shut it down and the other    *)
(* tasks interleave with it.  A read that admission refuses, or whose      *)
(* shard fails, ends its slot with an error.                               *)
(***************************************************************************)
EXTENDS ReadAdmission

CONSTANTS
    Others,               \* reads of other tasks
    Configs, MAX_WINDOW, MAX_CHUNK, MaxI64, MaxU64, FileLen, Faults, Oversized

VARIABLES
    config, end, next_offset, reserved, slots, stop_scheduling, finished,
    phase, index, woken, outcome, delivered, verdict

R == INSTANCE OrderedPrefetch WITH pc <- phase

resting == <<config, end, next_offset, reserved, stop_scheduling, finished, phase, index,
             outcome, delivered, verdict>>
allvars == <<vars, resting, slots, woken>>

Mine == Reads \ Others

\* Whatever the reader may ask for is a read.
ASSUME ReaderAssumption ==
  /\ Others \subseteq Reads /\ FileLen \in Nat
  /\ Configs \subseteq [offset : Nat, length : Nat, chunk : Nat, window : Nat, max_bytes : Nat]
  /\ \A c \in Configs : \A k \in 0..c.length :
       c.chunk # 0 /\ k * c.chunk < c.length => c.offset + k * c.chunk \in Mine

PrefetchInit == Init /\ R!Init

\* The reader's task is inside submit, or inside the drop of a handle.
Inside == \E r \in Mine : pc[r] \in {"check", "scan", "scanned", "trybytes", "sending", "unwinding"}

\* A waiter is granted its permits, or its semaphore is closed.
Called(r) == \/ pc[r] \in {"granted", "bgranted"}
             \/ pc[r] = "queued" /\ count[owner[r]].closed
             \/ pc[r] = "bqueued" /\ bytes.closed

\* A poll of the handle has something to do.
Pollable(r) == pc[r] \in {"deferred", "bytes"} \/ Called(r)

CalledReads == {r \in Mine : Called(r)}
EndedReads == {r \in Mine : pc[r] \in {"refused", "failed", "leaked"}}

\* What a step of admission means for the reader: a read that ends there has an error for
\* its slot, and a handle that was polled wakes the task.
Tells ==
  LET over == EndedReads' \ EndedReads
  IN  /\ slots' = [i \in DOMAIN slots |-> IF slots[i].offset \in over
                                          THEN [slots[i] EXCEPT !.answer = R!Error] ELSE slots[i]]
      /\ woken' = (woken \/ \E i \in DOMAIN slots :
                              /\ slots[i].waker
                              /\ slots[i].offset \in over \cup (CalledReads' \ CalledReads))
      /\ UNCHANGED resting

\* (self.source)(next_offset, len): read_at binds the read to a shard.
FillSlot == ~Inside /\ R!Fill /\ Submit(next_offset)

\* ReadHandle::poll of the slot whose turn it is, in its admission.
PollHandle ==
  /\ ~Inside /\ phase = "poll" /\ index <= R!LastPolled /\ slots[index].state = "pending"
  /\ Pollable(slots[index].offset) /\ Poll(slots[index].offset)
  /\ Tells

\* The same poll comes to the result, if there is one.
PollResult ==
  /\ ~Inside
  /\ R!PollSlot
  /\ slots[index].state = "ready" \/ ~Pollable(slots[index].offset)
  /\ UNCHANGED vars

\* Defect: the handle is set aside instead of dropped.
CutHandle_keeping == ~Inside /\ R!CutSlot /\ UNCHANGED vars

\* A slot is dropped with its handle: one that waits gives back what it was assigned.
CutHandle ==
  /\ ~Inside /\ R!CutSlot
  /\ LET r == slots[Len(slots)].offset
     IN  IF pc[r] \in Deferred THEN DropWaiting(r) ELSE UNCHANGED vars

ReaderStep ==
  /\ ~Inside
  /\ R!PollNext \/ R!LoopEnds \/ R!FrontBlocks \/ R!FrontReady \/ R!Consume
  /\ UNCHANGED vars

AbandonNext == phase = "pending" /\ R!Drop /\ UNCHANGED vars

\* A read ends: its result is sent, then its permits are dropped.
CompleteRead(r) ==
  /\ Complete(r)
  /\ \/ \E i \in DOMAIN slots : slots[i].offset = r /\ R!Complete(i)
     \/ (\A i \in DOMAIN slots : slots[i].offset # r) /\ UNCHANGED <<resting, slots, woken>>

\* Whoever is inside the admission, or returns permits, goes on.
RunOn(r) == Running(r) /\ Tells

OtherTask(o) == (Submit(o) \/ Poll(o) \/ DropWaiting(o)) /\ Tells

\* Shards fail, threads exit, and others shut the driver down.
Driver == \/ \E s \in Shards : (BeginDrain(s) \/ Exit(s)) /\ Tells
          \/ \E c \in Closers : (RequestShutdown(c) \/ Close(c)) /\ Tells

-------------------------------------------------------------------------------
Consumer == FillSlot \/ PollHandle \/ PollResult \/ CutHandle \/ ReaderStep

PrefetchNext ==
  \/ Consumer \/ AbandonNext
  \/ \E r \in Reads : CompleteRead(r) \/ RunOn(r)
  \/ \E o \in Others : OtherTask(o)
  \/ Driver

PrefetchSpec == PrefetchInit /\ [][PrefetchNext]_allvars

\* What goes on by itself: the consumer polls, the other tasks poll their reads, reads end
\* (or their shard gives up on them), and no thread stops within a call.
OthersPoll == \E o \in Others : Poll(o) /\ Tells
Reading == \E r \in Reads : CompleteRead(r) \/ RunOn(r)
Stopping == \/ \E s \in Shards : ((thread[s] = "asked" /\ BeginDrain(s)) \/ Exit(s)) /\ Tells
            \/ \E c \in Closers : Close(c) /\ Tells

FairPrefetch == /\ PrefetchSpec
                /\ WF_allvars(Consumer) /\ WF_allvars(OthersPoll)
                /\ WF_allvars(Reading) /\ WF_allvars(Stopping)

-------------------------------------------------------------------------------
\* An active consumer is never deadlocked by its own tail ("the head then waits for bytes
\* reserved by the tail; the tail must be repolled to submit and eventually release them",
\* and poll_next polls every slot each time), by a shard that fails, or by a shutdown.
ConsumerEnds == <>(finished \/ phase = "rejected")

\* In the end no read, of the reader or of the others, is left deferred: it is admitted,
\* told that admission is closed, or dropped.  Count and byte permits do not deadlock, slots dropped behind an
\* error give back what they were assigned, and leaked permits leave nobody waiting.
DeferredSettles == <>[](\A r \in Reads : pc[r] \notin Deferred)
===============================================================================
