------------------------ MODULE PrefetchAdmissionProofs -----------------------
(***************************************************************************)
(* The ordered reader of PrefetchAdmission is one of the callers that      *)
(* ReadAdmission is about: whatever the reader's window, its chunks and    *)
(* the other tasks do, admission sees nothing but submits, polls and       *)
(* drops, so what is proved of admission holds beside the reader.          *)
(***************************************************************************)
EXTENDS PrefetchAdmission, AdmissionProofs

\* A slot of the reader, whose future is of the read at its offset.
Slot == [offset : Reads \cap Nat, len : Int, state : {"pending", "ready"}, answer : Int, waker : BOOLEAN]

\* Where the next chunk begins: so many chunks behind the first, or at the end.
OnGrid == \/ next_offset = end
          \/ \E k \in Nat : k <= next_offset - config.offset /\ next_offset = config.offset + k * config.chunk

\* Every slot of the reader is for a read that admission knows.
ReaderInv ==
  /\ config \in Configs /\ index \in Nat \ {0} /\ slots \in Seq(Slot)
  /\ phase # "rejected" => /\ config.chunk # 0 /\ end = config.offset + config.length
                           /\ next_offset \in Nat /\ OnGrid

\* A sequence whose elements are replaced one by one is one.
LEMMA ReplacedSlots ==
  ASSUME NEW S, NEW q \in Seq(S), NEW f, f = [i \in DOMAIN q |-> f[i]], \A i \in DOMAIN q : f[i] \in S
  PROVE  f \in Seq(S)
<1>1. DOMAIN q = 1..Len(q) /\ Len(q) \in Nat
  OBVIOUS
<1>2. f \in [1..Len(q) -> S]
  BY <1>1
<1> QED
  BY <1>1, <1>2

\* What the reader asks for next is a read of its own.
LEMMA NextIsRead ==
  ASSUME ReaderInv, phase # "rejected", next_offset < end
  PROVE  next_offset \in Reads \cap Nat
<1>1. config \in Configs /\ config.chunk # 0 /\ end = config.offset + config.length /\ next_offset \in Nat
  BY DEF ReaderInv
<1>2. config.offset \in Nat /\ config.length \in Nat /\ config.chunk \in Nat
  BY <1>1, ReaderAssumption
<1>3. PICK k \in Nat : k <= next_offset - config.offset /\ next_offset = config.offset + k * config.chunk
  BY <1>1, <1>2 DEF ReaderInv, OnGrid
<1>4. k * config.chunk \in Nat
  BY <1>2
<1> DEFINE d == k * config.chunk
<1>5. d \in Nat /\ next_offset = config.offset + d
  BY <1>3, <1>4
<1> HIDE DEF d
<1>6. k \in 0..config.length /\ d < config.length
  BY <1>1, <1>2, <1>3, <1>5
<1>7. config.offset + k * config.chunk \in Mine
  BY <1>1, <1>6, ReaderAssumption DEF d
<1> QED
  BY <1>1, <1>3, <1>7 DEF Mine

\* A chunk further the next offset is on the grid, or at the end.
LEMMA GridStep ==
  ASSUME ReaderInv, phase # "rejected", next_offset < end, next_offset' = next_offset + R!NextLen,
         UNCHANGED <<config, end>>
  PROVE  next_offset' \in Nat /\ OnGrid'
<1>1. config \in Configs /\ config.chunk # 0 /\ end = config.offset + config.length /\ next_offset \in Nat
  BY DEF ReaderInv
<1>2. config.offset \in Nat /\ config.length \in Nat /\ config.chunk \in Nat
  BY <1>1, ReaderAssumption
<1>3. PICK k \in Nat : k <= next_offset - config.offset /\ next_offset = config.offset + k * config.chunk
  BY <1>1, <1>2 DEF ReaderInv, OnGrid
<1>4. R!NextLen = end - next_offset \/ R!NextLen = config.chunk
  BY DEF R!NextLen, R!Smaller
<1>5. CASE R!NextLen = end - next_offset
  <2>1. next_offset' = end /\ end' = end /\ end \in Nat
    BY <1>1, <1>2, <1>5
  <2> QED
    BY <2>1 DEF OnGrid
<1>6. CASE R!NextLen = config.chunk
  <2>1. next_offset' = next_offset + config.chunk
    BY <1>6
  <2> DEFINE d == k * config.chunk
             e == (k + 1) * config.chunk
  <2>2. e = d + config.chunk /\ d \in Nat
    BY <1>2
  <2>3. next_offset = config.offset + d /\ k <= next_offset - config.offset
    BY <1>3
  <2> HIDE DEF d, e
  <2>4. k + 1 \in Nat /\ k + 1 <= next_offset' - config.offset /\ next_offset' = config.offset + e
    BY <1>1, <1>2, <2>1, <2>2, <2>3
  <2>5. \E x \in Nat : x <= next_offset' - config'.offset /\ next_offset' = config'.offset + x * config'.chunk
    <3> WITNESS k + 1 \in Nat
    <3> QED
      BY <2>4 DEF e
  <2> QED
    BY <1>1, <1>2, <2>1, <2>5 DEF OnGrid
<1> QED
  BY <1>4, <1>5, <1>6

\* What admission tells the reader moves none of its slots.
LEMMA TellsReader ==
  ASSUME ReaderInv, Tells
  PROVE  ReaderInv'
<1>1. slots' \in Seq(Slot)
  <2> DEFINE over == EndedReads' \ EndedReads
  <2>1. slots' = [i \in DOMAIN slots |-> IF slots[i].offset \in over
                                          THEN [slots[i] EXCEPT !.answer = R!Error] ELSE slots[i]]
    BY DEF Tells
  <2> HIDE DEF over
  <2>2. slots \in Seq(Slot)
    BY DEF ReaderInv
  <2>3. R!Error \in Int
    BY DEF R!Error
  <2>4. \A x \in Slot : [x EXCEPT !.answer = R!Error] \in Slot
    BY <2>3 DEF Slot
  <2>5. \A i \in DOMAIN slots : slots[i] \in Slot
    BY <2>2
  <2>6. \A i \in DOMAIN slots : slots'[i] \in Slot
    BY <2>1, <2>4, <2>5
  <2>7. slots' = [i \in DOMAIN slots |-> slots'[i]]
    BY <2>1
  <2> QED
    BY <2>2, <2>6, <2>7, ReplacedSlots
<1>2. UNCHANGED <<config, end, next_offset, phase, index>>
  BY DEF Tells, resting
<1> QED
  BY <1>1, <1>2 DEF ReaderInv, OnGrid

\* A read that completes answers its slot.
LEMMA AnswerReader ==
  ASSUME ReaderInv, NEW i, R!Complete(i)
  PROVE  ReaderInv'
<1>1. slots \in Seq(Slot) /\ i \in DOMAIN slots
  BY DEF ReaderInv, R!Complete
<1>2. slots[i] \in Slot
  BY <1>1
<1>3. PICK a \in R!Answers(slots[i]) : slots' = [slots EXCEPT ![i].answer = a]
  BY DEF R!Complete
<1>4. slots[i].offset \in Nat /\ slots[i].len \in Int /\ FileLen \in Nat
  BY <1>2, ReaderAssumption DEF Slot
<1>5. R!RangeOrEof(slots[i].offset, slots[i].len) \in Int
  BY <1>4 DEF R!RangeOrEof, R!Smaller, R!Larger
<1>6. a \in Int
  BY <1>4, <1>5 DEF R!Answers, R!Error
<1>7. [slots[i] EXCEPT !.answer = a] \in Slot
  BY <1>2, <1>6 DEF Slot
<1>8. slots' = [slots EXCEPT ![i] = [slots[i] EXCEPT !.answer = a]]
  BY <1>3
<1>9. slots' \in Seq(Slot)
  BY <1>1, <1>7, <1>8
<1>10. UNCHANGED <<config, end, next_offset, phase, index>>
  BY DEF R!Complete, R!range
<1> QED
  BY <1>9, <1>10 DEF ReaderInv, OnGrid

\* The reader's own steps: polling, delivering and dropping what it has.
LEMMA ReaderSteps ==
  ASSUME ReaderInv, R!PollSlot \/ R!CutSlot \/ R!PollNext \/ R!LoopEnds \/ R!FrontBlocks
                    \/ R!FrontReady \/ R!Consume \/ (phase = "pending" /\ R!Drop)
  PROVE  ReaderInv'
<1> USE DEF R!range, R!reader, R!consumer
<1>0. slots \in Seq(Slot) /\ index \in Nat \ {0}
  BY DEF ReaderInv
<1>1. CASE R!PollSlot
  <2>1. phase = "poll" /\ index <= Len(slots)
    BY <1>1 DEF R!PollSlot, R!LastPolled
  <2>2. slots[index] \in Slot
    BY <1>0, <2>1
  <2>3. R!Polled(slots[index]) \in Slot
    <3>1. R!Error \in Int
      BY DEF R!Error
    <3> DEFINE x == slots[index]
    <3>2. x.answer \in Int
      BY <2>2 DEF Slot
    <3> HIDE DEF x
    <3>3. [x EXCEPT !.waker = TRUE] \in Slot
      BY <2>2 DEF Slot, x
    <3>4. \A a \in Int : [x EXCEPT !.state = "ready", !.answer = a] \in Slot
      BY <2>2 DEF Slot, x
    <3> QED
      BY <2>2, <3>1, <3>2, <3>3, <3>4 DEF R!Polled, x
  <2>4. slots' = [slots EXCEPT ![index] = R!Polled(slots[index])]
        /\ UNCHANGED <<config, end, next_offset>> /\ phase' # "rejected"
        /\ (index' = index \/ index' = index + 1)
    BY <1>1 DEF R!PollSlot
  <2>5. slots' \in Seq(Slot) /\ index' \in Nat \ {0}
    BY <1>0, <2>1, <2>3, <2>4
  <2> QED
    BY <2>1, <2>4, <2>5 DEF ReaderInv, OnGrid
<1>2. CASE R!CutSlot
  <2>1. slots' = SubSeq(slots, 1, Len(slots) - 1) /\ Len(slots) > index
        /\ UNCHANGED <<config, end, next_offset, phase, index>>
    BY <1>2 DEF R!CutSlot, R!Kept
  <2>2. slots' \in Seq(Slot)
    BY <1>0, <2>1
  <2> QED
    BY <2>1, <2>2 DEF ReaderInv, OnGrid
<1>3. CASE R!FrontReady
  <2>1. slots' = Tail(slots) /\ slots # <<>> /\ phase = "front" /\ phase' = "got"
        /\ UNCHANGED <<config, end, next_offset, index>>
    BY <1>3 DEF R!FrontReady
  <2>2. slots' \in Seq(Slot)
    BY <1>0, <2>1
  <2> QED
    BY <2>1, <2>2 DEF ReaderInv, OnGrid
<1>4. CASE R!PollNext \/ R!LoopEnds \/ R!FrontBlocks \/ R!Consume \/ (phase = "pending" /\ R!Drop)
  <2>1. UNCHANGED <<config, end, next_offset, slots>> /\ phase # "rejected" /\ (index' = index \/ index' = 1)
    BY <1>4 DEF R!PollNext, R!LoopEnds, R!FrontBlocks, R!Consume, R!Drop
  <2> QED
    BY <1>0, <2>1 DEF ReaderInv, OnGrid
<1> QED
  BY <1>1, <1>2, <1>3, <1>4

\* Each step of the two together is one of admission's, or none there.
LEMMA ClientStep ==
  ASSUME ReaderInv, [PrefetchNext]_allvars
  PROVE  ReaderInv' /\ [Next]_vars
<1>0. slots \in Seq(Slot) /\ index \in Nat \ {0} /\ Others \subseteq Reads
  BY ReaderAssumption DEF ReaderInv
<1>1. CASE UNCHANGED allvars
  <2>1. UNCHANGED vars /\ UNCHANGED <<config, end, next_offset, phase, index, slots>>
    BY <1>1 DEF allvars, resting
  <2> QED
    BY <2>1 DEF ReaderInv, OnGrid
<1>2. CASE FillSlot
  <2>1. phase = "fill" /\ next_offset < end /\ Submit(next_offset)
        /\ UNCHANGED <<config, end, phase, index>> /\ next_offset' = next_offset + R!NextLen
        /\ slots' = Append(slots, [offset |-> next_offset, len |-> R!NextLen, state |-> "pending",
                                    answer |-> R!NoAnswer, waker |-> FALSE])
    BY <1>2 DEF FillSlot, R!Fill, R!MayFill, R!range
  <2>2. next_offset \in Reads \cap Nat
    BY <2>1, NextIsRead
  <2>3. next_offset' \in Nat /\ OnGrid'
    BY <2>1, GridStep
  <2>4. R!NextLen \in Int /\ R!NoAnswer \in Int
    <3>1. config \in Configs /\ end \in Int
      BY <2>1, ReaderAssumption DEF ReaderInv
    <3> QED
      BY <2>2, <3>1, ReaderAssumption DEF R!NextLen, R!Smaller, R!NoAnswer
  <2>5. slots' \in Seq(Slot)
    <3>1. [offset |-> next_offset, len |-> R!NextLen, state |-> "pending",
           answer |-> R!NoAnswer, waker |-> FALSE] \in Slot
      BY <2>2, <2>4 DEF Slot
    <3> QED
      BY <1>0, <2>1, <3>1
  <2> QED
    BY <2>1, <2>2, <2>3, <2>5 DEF ReaderInv, Next
<1>3. CASE PollHandle
  <2>1. index <= Len(slots) /\ Poll(slots[index].offset) /\ Tells
    BY <1>3 DEF PollHandle, R!LastPolled
  <2>2. slots[index] \in Slot
    BY <1>0, <2>1
  <2>3. slots[index].offset \in Reads
    BY <2>2 DEF Slot
  <2> QED
    BY <2>1, <2>3, TellsReader DEF Next
<1>4. CASE CutHandle
  <2> DEFINE r == slots[Len(slots)].offset
  <2>1. R!CutSlot /\ Len(slots) > index /\ (DropWaiting(r) \/ UNCHANGED vars)
    BY <1>4 DEF CutHandle, R!CutSlot, R!Kept
  <2>2. slots[Len(slots)] \in Slot
    BY <1>0, <2>1
  <2>3. r \in Reads
    BY <2>2 DEF Slot
  <2> HIDE DEF r
  <2> QED
    BY <2>1, <2>3, ReaderSteps DEF Next
<1>5. CASE PollResult \/ ReaderStep \/ AbandonNext
  <2>1. UNCHANGED vars
    BY <1>5 DEF PollResult, ReaderStep, AbandonNext
  <2>2. ReaderInv'
    BY <1>5, ReaderSteps DEF PollResult, ReaderStep, AbandonNext
  <2> QED
    BY <2>1, <2>2
<1>6. ASSUME NEW r \in Reads, CompleteRead(r) PROVE ReaderInv' /\ Next
  <2>1. Next
    BY <1>6 DEF CompleteRead, Next
  <2>2. CASE \E i \in DOMAIN slots : R!Complete(i)
    BY <2>1, <2>2, AnswerReader
  <2>3. CASE UNCHANGED <<resting, slots, woken>>
    BY <2>1, <2>3 DEF resting, ReaderInv, OnGrid
  <2> QED
    BY <1>6, <2>2, <2>3 DEF CompleteRead
<1>7. ASSUME NEW r \in Reads, RunOn(r) \/ (r \in Others /\ OtherTask(r)) PROVE ReaderInv' /\ Next
  BY <1>7, TellsReader DEF RunOn, OtherTask, Next
<1>8. CASE Driver
  BY <1>8, TellsReader DEF Driver, Next
<1> QED
  BY <1>0, <1>1, <1>2, <1>3, <1>4, <1>5, <1>6, <1>7, <1>8 DEF PrefetchNext, Consumer

\* A reader that prefetches through the driver is one more caller of its admission: whatever
\* it and the other tasks do there, ReadAdmission allows, so that what is proved of
\* admission holds beside it (fill_window, poll_next and the drops of its slots).
THEOREM ReaderIsCaller == PrefetchSpec => Spec
<1>1. PrefetchInit => Init /\ ReaderInv
  <2> SUFFICES ASSUME PrefetchInit PROVE ReaderInv
    BY DEF PrefetchInit
  <2>1. R!Init
    BY DEF PrefetchInit
  <2>2. config \in Configs /\ config.offset \in Nat /\ config.length \in Nat /\ config.chunk \in Nat
    BY <2>1, ReaderAssumption DEF R!Init
  <2>3. slots \in Seq(Slot) /\ index \in Nat \ {0}
    BY <2>1 DEF R!Init
  <2>4. ASSUME phase # "rejected" PROVE R!Valid(config)
    BY <2>1, <2>4 DEF R!Init
  <2>5. ASSUME phase # "rejected"
        PROVE  config.chunk # 0 /\ end = config.offset + config.length /\ next_offset = config.offset
    BY <2>1, <2>4, <2>5 DEF R!Init, R!Valid
  <2>6. ASSUME phase # "rejected" PROVE OnGrid
    <3>1. 0 <= next_offset - config.offset /\ next_offset = config.offset + 0 * config.chunk
      BY <2>2, <2>5, <2>6
    <3> QED
      BY <3>1 DEF OnGrid
  <2> QED
    BY <2>2, <2>3, <2>5, <2>6 DEF ReaderInv
<1>2. ReaderInv /\ [PrefetchNext]_allvars => ReaderInv' /\ [Next]_vars
  BY ClientStep
<1> QED
  BY <1>1, <1>2, PTL DEF PrefetchSpec, Spec

\* So admission closes, and shards are passed over, beside a reader as without it.
COROLLARY AdmissionBesideReader == PrefetchSpec => [](ClosedForAll /\ PassesOnlyClosed)
BY ReaderIsCaller, AdmissionCloses, ClosedShardsArePassed, PTL
===============================================================================
