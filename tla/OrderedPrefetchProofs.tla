------------------------- MODULE OrderedPrefetchProofs ------------------------
(***************************************************************************)
(* OrderedReader keeps its window and its accounting, and delivers what a  *)
(* sequential reader would, for every configuration, every file and every  *)
(* order in which reads complete or fail.                                  *)
(***************************************************************************)
EXTENDS OrderedPrefetch, SequenceTheorems, TLAPS

Slot == [offset : Nat, len : Nat \ {0}, state : {"pending", "ready"}, answer : Int,
         waker : BOOLEAN]

EndOf(s) == s.offset + s.len

\* The range is the configured one, and the reader has not gone past it.
RangeInv ==
  /\ config \in Configs
  /\ pc \in {"rejected", "dropped"} => slots = <<>>
  /\ pc # "rejected" => /\ Valid(config) /\ end = config.offset + config.length
                        /\ config.offset <= next_offset /\ next_offset <= end

\* The slots tile the range up to next_offset, unless an error or a short read has cut it.
InRange ==
  \A i \in 1..Len(slots) : /\ config.offset <= slots[i].offset
                           /\ EndOf(slots[i]) <= next_offset
                           /\ slots[i].len = Smaller(end - slots[i].offset, config.chunk)

Contiguous == \A i \in 1..(Len(slots) - 1) : slots[i + 1].offset = EndOf(slots[i])

Ordered == \A i, j \in 1..Len(slots) : i < j => EndOf(slots[i]) <= slots[j].offset

OpenEnd ==
  /\ ~stop_scheduling /\ slots # <<>> => EndOf(slots[Len(slots)]) = next_offset
  /\ pc = "cut" => stop_scheduling

Tiled == InRange /\ Contiguous /\ Ordered /\ OpenEnd

\* What a slot says of the file: a read that is done returned the range or what the file has
\* of it, or failed where it may.
Honest(s) ==
  \/ s.state = "pending" /\ s.answer = NoAnswer
  \/ s.state = "pending" /\ s.answer \in Answers(s)
  \/ s.state = "ready" /\ s.answer = RangeOrEof(s.offset, s.len)
  \/ s.state = "ready" /\ s.answer = Error /\ s.offset \in Faults \cup Oversized

Answered == \A i \in 1..Len(slots) : Honest(slots[i])

Geometry == TypeOK /\ RangeInv /\ Tiled /\ Answered /\ WindowBound

-------------------------------------------------------------------------------
(* The window and its accounting.                                          *)

\* What the type invariant says of a slot.
LEMMA SlotType ==
  ASSUME TypeOK
  PROVE  /\ slots \in Seq(Slot) /\ Len(slots) \in Nat /\ DOMAIN slots = 1..Len(slots)
         /\ \A i \in 1..Len(slots) :
              /\ slots[i] \in Slot
              /\ slots[i].offset \in Nat /\ slots[i].len \in Nat /\ slots[i].len > 0
              /\ slots[i].answer \in Int /\ slots[i].state \in {"pending", "ready"}
         /\ slots # <<>> <=> Len(slots) > 0
         /\ end \in Nat /\ next_offset \in Nat /\ reserved \in Nat /\ delivered \in Nat
         /\ index \in Nat /\ index > 0
         /\ stop_scheduling \in BOOLEAN /\ finished \in BOOLEAN /\ woken \in BOOLEAN
<1>1. slots \in Seq(Slot)
  BY DEF TypeOK, Slot
<1>2. Len(slots) \in Nat /\ DOMAIN slots = 1..Len(slots) /\ (slots # <<>> <=> Len(slots) > 0)
  BY <1>1
<1>3. ASSUME NEW i \in 1..Len(slots)
      PROVE  /\ slots[i] \in Slot
             /\ slots[i].offset \in Nat /\ slots[i].len \in Nat /\ slots[i].len > 0
             /\ slots[i].answer \in Int /\ slots[i].state \in {"pending", "ready"}
  <2>1. slots[i] \in Slot
    BY <1>1, <1>2
  <2> QED
    BY <2>1 DEF Slot
<1>4. /\ end \in Nat /\ next_offset \in Nat /\ reserved \in Nat /\ delivered \in Nat
      /\ index \in Nat /\ index > 0
      /\ stop_scheduling \in BOOLEAN /\ finished \in BOOLEAN /\ woken \in BOOLEAN
  BY DEF TypeOK
<1> QED
  BY <1>1, <1>2, <1>3, <1>4

\* What validate has made sure of.
LEMMA ValidConfig ==
  ASSUME RangeInv
  PROVE  /\ config.offset \in Nat /\ config.length \in Nat /\ config.chunk \in Nat
         /\ config.window \in Nat /\ config.max_bytes \in Nat
         /\ pc # "rejected" => /\ config.chunk > 0 /\ config.window > 0
                               /\ config.chunk <= config.max_bytes
                               /\ end = config.offset + config.length /\ end <= MaxI64
<1>1. /\ config.offset \in Nat /\ config.length \in Nat /\ config.chunk \in Nat
      /\ config.window \in Nat /\ config.max_bytes \in Nat
  BY PrefetchAssumption DEF RangeInv
<1>2. ASSUME pc # "rejected"
      PROVE  /\ config.chunk > 0 /\ config.window > 0 /\ config.chunk <= config.max_bytes
             /\ end = config.offset + config.length /\ end <= MaxI64
  BY <1>1, <1>2 DEF RangeInv, Valid
<1> QED
  BY <1>1, <1>2

\* Giving back what the first slot had reserved leaves what the others cover.
LEMMA GiveBackFirst ==
  ASSUME NEW r \in Nat, NEW first \in Nat, NEW f \in Nat, NEW o \in Nat, NEW l \in Nat,
         r = o + l - first, first + f <= o
  PROVE  r - f \in Nat /\ r - f <= r /\ r - f = o + l - (first + f)
OBVIOUS

\* Steps that neither open nor remove a slot keep the tiling and the accounting.
LEMMA ShapeKept ==
  ASSUME Geometry, UNCHANGED <<config, end, next_offset, reserved>>,
         Len(slots') = Len(slots), slots' = <<>> <=> slots = <<>>,
         \A i \in 1..Len(slots) : slots'[i].offset = slots[i].offset /\ slots'[i].len = slots[i].len,
         stop_scheduling => stop_scheduling', pc \notin {"rejected", "dropped"},
         pc' \notin {"rejected", "dropped"}, pc' = "cut" => stop_scheduling'
  PROVE  RangeInv' /\ Tiled' /\ WindowBound'
<1>1. /\ Len(slots) \in Nat /\ slots # <<>> <=> Len(slots) > 0
      /\ \A i \in 1..Len(slots) : slots[i].offset \in Nat /\ slots[i].len \in Nat
  BY SlotType DEF Geometry
<1>2. RangeInv'
  BY DEF Geometry, RangeInv
<1>3. Tiled'
  <2>1. InRange'
    BY <1>1 DEF Geometry, Tiled, InRange, EndOf
  <2>2. Contiguous'
    BY <1>1 DEF Geometry, Tiled, Contiguous, EndOf
  <2>3. Ordered'
    BY <1>1 DEF Geometry, Tiled, Ordered, EndOf
  <2>4. OpenEnd'
    BY <1>1 DEF Geometry, Tiled, OpenEnd, EndOf
  <2> QED
    BY <2>1, <2>2, <2>3, <2>4 DEF Tiled
<1>4. WindowBound'
  BY <1>1 DEF Geometry, WindowBound, Covered
<1> QED
  BY <1>2, <1>3, <1>4

\* The source returns what was asked for or less.
LEMMA RangeType ==
  ASSUME NEW o \in Nat, NEW l \in Nat
  PROVE  RangeOrEof(o, l) \in Nat /\ RangeOrEof(o, l) <= l
BY PrefetchAssumption DEF RangeOrEof, Smaller, Larger

\* An answer is a number, and an honest one that is taken is no larger than asked for.
LEMMA AnswerType ==
  ASSUME NEW s \in Slot
  PROVE  /\ Answers(s) \subseteq Int
         /\ \A a \in Answers(s) : \/ a = RangeOrEof(s.offset, s.len)
                                  \/ a = Error /\ s.offset \in Faults
                                  \/ a > s.len /\ s.offset \in Oversized
         /\ Honest(s) /\ s.state = "ready" /\ s.answer # Error => s.answer \in Nat /\ s.answer <= s.len
<1>1. s.offset \in Nat /\ s.len \in Nat
  BY DEF Slot
<1>2. RangeOrEof(s.offset, s.len) \in Nat /\ RangeOrEof(s.offset, s.len) <= s.len
  BY <1>1, RangeType, Zenon
<1>3. Answers(s) \subseteq Int
  BY <1>1, <1>2 DEF Answers, Error
<1>4. \A a \in Answers(s) : \/ a = RangeOrEof(s.offset, s.len)
                            \/ a = Error /\ s.offset \in Faults
                            \/ a > s.len /\ s.offset \in Oversized
  BY <1>1 DEF Answers
<1>5. Honest(s) /\ s.state = "ready" /\ s.answer # Error => s.answer \in Nat /\ s.answer <= s.len
  BY <1>2 DEF Honest
<1> QED
  BY <1>3, <1>4, <1>5

\* A read that completes changes only what its slot holds.
LEMMA GeometryComplete ==
  ASSUME Geometry, NEW i \in DOMAIN slots, Complete(i)
  PROVE  Geometry'
<1> USE DEF range, reader, consumer
<1>1. TypeOK /\ RangeInv /\ Answered
  BY DEF Geometry
<1>2. /\ slots \in Seq(Slot) /\ Len(slots) \in Nat /\ i \in 1..Len(slots) /\ DOMAIN slots = 1..Len(slots)
      /\ \A j \in 1..Len(slots) : slots[j] \in Slot
  BY <1>1, SlotType
<1>3. PICK a \in Answers(slots[i]) : slots' = [slots EXCEPT ![i].answer = a]
  BY Zenon DEF Complete
<1>4. a \in Int
  BY <1>2, <1>3, AnswerType
<1>5. /\ slots' \in Seq(Slot) /\ Len(slots') = Len(slots)
      /\ slots'[i] = [slots[i] EXCEPT !.answer = a]
      /\ \A j \in 1..Len(slots) : j # i => slots'[j] = slots[j]
  <2>1. [slots[i] EXCEPT !.answer = a] \in Slot
    BY <1>2, <1>4, Zenon DEF Slot
  <2> QED
    BY <1>2, <1>3, <2>1
<1>6. TypeOK'
  <2>1. slots' \in Seq([offset : Nat, len : Nat \ {0}, state : {"pending", "ready"},
                    answer : Int, waker : BOOLEAN])
    BY <1>5 DEF Slot
  <2>2. woken' \in BOOLEAN
    BY <1>1, <1>2 DEF Complete, TypeOK, Slot
  <2> QED
    BY <1>1, <2>1, <2>2 DEF Complete, TypeOK
<1>7. /\ slots'[i].offset = slots[i].offset /\ slots'[i].len = slots[i].len
      /\ slots'[i].state = slots[i].state /\ slots'[i].answer = a
  BY <1>2, <1>5 DEF Slot
<1>8. slots[i].answer = NoAnswer /\ slots[i].state = "pending"
  <2>1. slots[i].answer = NoAnswer /\ Honest(slots[i])
    BY <1>1, <1>2 DEF Complete, Answered
  <2>2. RangeOrEof(slots[i].offset, slots[i].len) \in Nat
    BY <1>2, RangeType, Zenon DEF Slot
  <2> QED
    BY <2>1, <2>2 DEF Honest, NoAnswer, Error
<1>9. Answered'
  <2>1. a \in Answers(slots'[i])
    BY <1>3, <1>7 DEF Answers
  <2>2. Honest(slots'[i])
    BY <1>7, <1>8, <2>1 DEF Honest
  <2> QED
    BY <1>1, <1>5, <2>2 DEF Answered
<1>10. RangeInv' /\ Tiled' /\ WindowBound'
  <2>1. pc \notin {"rejected", "dropped"} /\ slots # <<>> /\ slots' # <<>>
    BY <1>1, <1>2, <1>5 DEF RangeInv
  <2>2. \A j \in 1..Len(slots) : slots'[j].offset = slots[j].offset /\ slots'[j].len = slots[j].len
    BY <1>5, <1>7, Zenon
  <2>3. pc = "cut" => stop_scheduling
    BY DEF Geometry, Tiled, OpenEnd
  <2> QED
    BY <1>5, <2>1, <2>2, <2>3, ShapeKept DEF Complete
<1> QED
  BY <1>6, <1>9, <1>10 DEF Geometry

\* Polling a handle keeps its slot honest: an answer that is too long becomes an error.
LEMMA PolledHonest ==
  ASSUME NEW s \in Slot, Honest(s)
  PROVE  /\ Polled(s) \in Slot /\ Honest(Polled(s))
         /\ Polled(s).offset = s.offset /\ Polled(s).len = s.len
         /\ s.state = "ready" => Polled(s) = s
<1> DEFINE a == IF s.answer > s.len THEN Error ELSE s.answer
           taken == [s EXCEPT !.state = "ready", !.answer = a]
           waits == [s EXCEPT !.waker = TRUE]
<1>1. s.offset \in Nat /\ s.len \in Nat /\ s.answer \in Int /\ s.state \in {"pending", "ready"}
  BY DEF Slot
<1>2. CASE s.state = "ready"
  BY <1>2 DEF Polled
<1>3. CASE s.state = "pending" /\ s.answer = NoAnswer
  <2>1. Polled(s) = waits
    BY <1>3 DEF Polled
  <2>2. /\ waits \in Slot /\ waits.offset = s.offset /\ waits.len = s.len
        /\ waits.state = s.state /\ waits.answer = s.answer
    BY <1>1, Zenon DEF Slot
  <2> QED
    BY <1>3, <2>1, <2>2 DEF Honest
<1>4. CASE s.state = "pending" /\ s.answer # NoAnswer
  <2>1. Polled(s) = taken
    BY <1>4 DEF Polled
  <2>2. /\ taken \in Slot /\ taken.offset = s.offset /\ taken.len = s.len
        /\ taken.state = "ready" /\ taken.answer = a
    <3>1. a \in Int
      BY <1>1 DEF Error
    <3> HIDE DEF a
    <3> QED
      BY <3>1, Zenon DEF Slot
  <2>3. s.answer \in Answers(s)
    BY <1>4 DEF Honest
  <2>4. \/ s.answer = RangeOrEof(s.offset, s.len) /\ s.answer <= s.len
        \/ s.answer = Error /\ s.offset \in Faults
        \/ s.answer > s.len /\ s.offset \in Oversized
    BY <1>1, <2>3, AnswerType, RangeType, Zenon
  <2>5. Honest(taken)
    BY <1>1, <2>2, <2>4 DEF Honest
  <2> QED
    BY <1>4, <2>1, <2>2, <2>5
<1> QED
  BY <1>1, <1>2, <1>3, <1>4

\* A turn of the poll loop changes only what the slot holds.
LEMMA GeometryPollSlot ==
  ASSUME Geometry, PollSlot
  PROVE  Geometry'
<1> USE DEF range, reader, consumer
<1> DEFINE slot == Polled(slots[index])
<1>1. TypeOK /\ RangeInv /\ Answered
  BY DEF Geometry
<1>2. /\ slots \in Seq(Slot) /\ Len(slots) \in Nat /\ DOMAIN slots = 1..Len(slots)
      /\ \A j \in 1..Len(slots) : slots[j] \in Slot
      /\ index \in Nat /\ index > 0 /\ stop_scheduling \in BOOLEAN
  BY <1>1, SlotType
<1>3. /\ pc = "poll" /\ index \in 1..Len(slots)
      /\ slots' = [slots EXCEPT ![index] = slot]
      /\ stop_scheduling' = (stop_scheduling \/ Terminal(slot))
      /\ pc' = IF Terminal(slot) THEN "cut" ELSE "poll"
      /\ index' = IF Terminal(slot) THEN index ELSE index + 1
      /\ UNCHANGED <<range, next_offset, reserved, finished, woken, consumer>>
  BY <1>2 DEF PollSlot, LastPolled
<1>4. /\ slot \in Slot /\ Honest(slot) /\ slot.offset = slots[index].offset
      /\ slot.len = slots[index].len
  BY <1>1, <1>2, <1>3, PolledHonest DEF Answered
<1>5. /\ slots' \in Seq(Slot) /\ Len(slots') = Len(slots) /\ slots'[index] = slot
      /\ \A j \in 1..Len(slots) : j # index => slots'[j] = slots[j]
  BY <1>2, <1>3, <1>4
<1>6. TypeOK'
  <2>1. slots' \in Seq([offset : Nat, len : Nat \ {0}, state : {"pending", "ready"},
                    answer : Int, waker : BOOLEAN])
    BY <1>5 DEF Slot
  <2>2. stop_scheduling' \in BOOLEAN
    BY <1>2, <1>3 DEF Terminal
  <2>3. index' \in Nat \ {0} /\ pc' \in {"poll", "cut"}
    <3> HIDE DEF slot
    <3> QED
      BY <1>2, <1>3
  <2>4. UNCHANGED <<end, next_offset, reserved, delivered, finished, woken, outcome, verdict>>
    BY <1>3
  <2> QED
    BY <1>1, <2>1, <2>2, <2>3, <2>4 DEF TypeOK
<1>7. Answered'
  BY <1>1, <1>4, <1>5 DEF Answered
<1>8. RangeInv' /\ Tiled' /\ WindowBound'
  <2>1. slots # <<>> /\ slots' # <<>>
    BY <1>2, <1>3, <1>5
  <2>2. \A j \in 1..Len(slots) : slots'[j].offset = slots[j].offset /\ slots'[j].len = slots[j].len
    BY <1>4, <1>5
  <2> QED
    BY <1>3, <1>5, <2>1, <2>2, ShapeKept, Zenon
<1> QED
  BY <1>6, <1>7, <1>8 DEF Geometry

\* A slot is opened behind the last one, and where the limits leave room for it.
LEMMA GeometryFill ==
  ASSUME Geometry, Fill
  PROVE  Geometry'
<1> USE DEF range, reader, consumer
<1> DEFINE slot == [offset |-> next_offset, len |-> NextLen, state |-> "pending",
                    answer |-> NoAnswer, waker |-> FALSE]
           n == Len(slots)
<1>1. TypeOK /\ RangeInv /\ Answered /\ Tiled /\ WindowBound
  BY DEF Geometry
<1>2. /\ slots \in Seq(Slot) /\ n \in Nat /\ (slots # <<>> <=> n > 0)
      /\ \A j \in 1..n : slots[j] \in Slot /\ slots[j].offset \in Nat /\ slots[j].len \in Nat
      /\ end \in Nat /\ next_offset \in Nat /\ reserved \in Nat
  BY <1>1, SlotType
<1>3. /\ pc = "fill" /\ pc' = "fill" /\ ~stop_scheduling /\ ~stop_scheduling'
      /\ next_offset < end /\ n < config.window /\ NextLen <= config.max_bytes - reserved
      /\ slots' = Append(slots, slot) /\ reserved' = reserved + NextLen
      /\ next_offset' = next_offset + NextLen /\ UNCHANGED <<config, end>>
  BY DEF Fill, MayFill, HasRoom
<1>4. /\ config.offset \in Nat /\ config.chunk \in Nat /\ config.chunk > 0
      /\ config.window \in Nat /\ config.max_bytes \in Nat
  BY <1>1, <1>3, ValidConfig
<1>5. /\ NextLen \in Nat /\ NextLen > 0 /\ next_offset + NextLen <= end
      /\ NextLen = Smaller(end - next_offset, config.chunk)
  BY <1>2, <1>3, <1>4 DEF NextLen, Smaller
<1>6. slot \in Slot /\ Honest(slot)
  BY <1>2, <1>5 DEF Slot, NoAnswer, Honest
<1>7. /\ slots' \in Seq(Slot) /\ Len(slots') = n + 1 /\ slots' # <<>>
      /\ slots'[n + 1] = slot /\ \A j \in 1..n : slots'[j] = slots[j]
  BY <1>2, <1>3, <1>6
<1>8. TypeOK'
  <2>1. slots' \in Seq([offset : Nat, len : Nat \ {0}, state : {"pending", "ready"},
                    answer : Int, waker : BOOLEAN])
    BY <1>7 DEF Slot
  <2>2. {end, next_offset, reserved, delivered}' \subseteq Nat
    <3>1. end' \in Nat /\ next_offset' \in Nat /\ reserved' \in Nat
      BY <1>2, <1>3, <1>5
    <3>2. delivered' \in Nat
      BY <1>1 DEF TypeOK, Fill
    <3> QED
      BY <3>1, <3>2
  <2> QED
    BY <1>1, <2>1, <2>2 DEF TypeOK, Fill
<1>9. Answered'
  BY <1>1, <1>2, <1>6, <1>7 DEF Answered
<1>10. RangeInv'
  <2>1. Valid(config) /\ config \in Configs /\ end = config.offset + config.length
    BY <1>1, <1>3 DEF RangeInv
  <2>2. config.offset <= next_offset' /\ next_offset' <= end
    BY <1>1, <1>2, <1>3, <1>4, <1>5 DEF RangeInv
  <2> QED
    BY <1>3, <2>1, <2>2 DEF RangeInv
<1>11. slot.offset = next_offset /\ slot.len = NextLen
  OBVIOUS
<1>12. config.offset <= next_offset
  BY <1>1, <1>3 DEF RangeInv
<1>13. Tiled'
  <2>1. ASSUME NEW i \in 1..Len(slots')
        PROVE  /\ config.offset <= slots'[i].offset /\ EndOf(slots'[i]) <= next_offset'
               /\ slots'[i].len = Smaller(end - slots'[i].offset, config.chunk)
    <3>1. CASE i = n + 1
      BY <1>2, <1>3, <1>5, <1>7, <1>11, <1>12, <3>1 DEF EndOf
    <3>2. CASE i \in 1..n
      BY <1>1, <1>2, <1>3, <1>5, <1>7, <3>2 DEF EndOf, Tiled, InRange
    <3> QED
      BY <1>2, <1>7, <3>1, <3>2
  <2>2. ASSUME NEW i \in 1..(Len(slots') - 1)
        PROVE  slots'[i + 1].offset = EndOf(slots'[i])
    <3>1. CASE i = n
      BY <1>1, <1>2, <1>3, <1>7, <1>11, <3>1 DEF Tiled, OpenEnd
    <3>2. CASE i \in 1..(n - 1)
      BY <1>1, <1>2, <1>7, <3>2 DEF Tiled, Contiguous
    <3> QED
      BY <1>2, <1>7, <3>1, <3>2
  <2>3. EndOf(slots'[Len(slots')]) = next_offset'
    BY <1>3, <1>7, <1>11 DEF EndOf
  <2>4. ASSUME NEW i \in 1..Len(slots'), NEW j \in 1..Len(slots'), i < j
        PROVE  EndOf(slots'[i]) <= slots'[j].offset
    <3>1. i \in 1..n /\ slots'[i] = slots[i]
      BY <1>2, <1>7, <2>4
    <3>2. CASE j = n + 1
      BY <1>1, <1>7, <1>11, <3>1, <3>2 DEF Tiled, InRange
    <3>3. CASE j \in 1..n
      BY <1>1, <1>7, <2>4, <3>1, <3>3 DEF Tiled, Ordered
    <3> QED
      BY <1>2, <1>7, <3>2, <3>3
  <2>5. InRange' /\ Contiguous' /\ Ordered'
    BY <1>3, <2>1, <2>2, <2>4, Zenon DEF InRange, Contiguous, Ordered
  <2> QED
    BY <1>3, <2>3, <2>5 DEF Tiled, OpenEnd
<1>14. WindowBound'
  <2>1. reserved' = Covered'
    <3>1. CASE n = 0
      BY <1>1, <1>2, <1>3, <1>5, <1>7, <1>11, <3>1 DEF WindowBound, Covered
    <3>2. CASE n > 0
      <4>1. /\ slots # <<>> /\ slots[1].offset \in Nat
            /\ slots[n].offset \in Nat /\ slots[n].len \in Nat
        BY <1>2, <3>2
      <4>2. reserved = Covered
        BY <1>1, <1>3 DEF WindowBound
      <4>3. Covered = slots[n].offset + slots[n].len - slots[1].offset
        BY <4>1 DEF Covered
      <4>4. slots[n].offset + slots[n].len = next_offset
        BY <1>1, <1>3, <4>1 DEF Tiled, OpenEnd, EndOf
      <4>5. Covered' = next_offset + NextLen - slots[1].offset
        BY <1>2, <1>7, <1>11, <3>2 DEF Covered
      <4>6. reserved = next_offset - slots[1].offset
        BY <1>2, <4>1, <4>2, <4>3, <4>4
      <4>7. reserved' = reserved + NextLen /\ NextLen \in Nat /\ next_offset \in Nat
        BY <1>2, <1>3, <1>5
      <4> QED
        BY <4>1, <4>5, <4>6, <4>7
    <3> QED
      BY <1>2, <3>1, <3>2
  <2>2. Len(slots') <= config'.window
    BY <1>2, <1>3, <1>4, <1>7
  <2>3. reserved' <= config'.max_bytes
    <3>1. /\ reserved' = reserved + NextLen /\ NextLen <= config.max_bytes - reserved
          /\ reserved \in Nat /\ NextLen \in Nat /\ config.max_bytes \in Nat /\ config' = config
      BY <1>2, <1>3, <1>4, <1>5
    <3> QED
      BY <3>1
  <2> QED
    BY <2>1, <2>2, <2>3 DEF WindowBound
<1> QED
  BY <1>8, <1>9, <1>10, <1>13, <1>14 DEF Geometry

\* A slot behind the terminal one is dropped, and what it had reserved is given back.
LEMMA GeometryCutSlot ==
  ASSUME Geometry, CutSlot
  PROVE  Geometry'
<1> USE DEF range, reader, consumer
<1> DEFINE n == Len(slots)
<1>1. TypeOK /\ RangeInv /\ Answered /\ Tiled /\ WindowBound
  BY DEF Geometry
<1>2. /\ slots \in Seq(Slot) /\ n \in Nat /\ index \in Nat /\ index > 0 /\ reserved \in Nat
      /\ \A j \in 1..n : slots[j] \in Slot /\ slots[j].offset \in Nat /\ slots[j].len \in Nat
  BY <1>1, SlotType
<1>3. /\ pc = "cut" /\ pc' = "cut" /\ n > 1 /\ stop_scheduling /\ stop_scheduling'
      /\ reserved' = reserved - slots[n].len /\ slots' = SubSeq(slots, 1, n - 1)
      /\ UNCHANGED <<config, end, next_offset>>
  BY <1>1, <1>2 DEF CutSlot, Kept, Tiled, OpenEnd
<1>4. /\ slots' \in Seq(Slot) /\ Len(slots') = n - 1 /\ slots' # <<>>
      /\ \A j \in 1..(n - 1) : slots'[j] = slots[j]
  <2>1. \A j \in 1..(n - 1) : slots[j] \in Slot
    BY <1>2
  <2>2. /\ slots' \in Seq(Slot) /\ Len(slots') = IF 1 <= n - 1 THEN (n - 1) - 1 + 1 ELSE 0
        /\ \A j \in 1..((n - 1) - 1 + 1) : slots'[j] = slots[1 + j - 1]
    BY <1>2, <1>3, <2>1, SubSeqProperties
  <2>3. (n - 1) - 1 + 1 = n - 1 /\ 1 <= n - 1 /\ \A j \in 1..(n - 1) : 1 + j - 1 = j
    BY <1>2, <1>3
  <2>4. Len(slots') = n - 1 /\ \A j \in 1..(n - 1) : slots'[j] = slots[j]
    BY <2>2, <2>3
  <2>5. slots' # <<>>
    BY <2>2, <2>3, <2>4
  <2> QED
    BY <2>2, <2>4, <2>5
<1>5. /\ slots # <<>> /\ slots[1].offset \in Nat /\ slots[n].offset \in Nat
      /\ slots[n].len \in Nat /\ slots[n - 1].offset \in Nat /\ slots[n - 1].len \in Nat
  BY <1>2, <1>3
<1>6. slots[n].offset = slots[n - 1].offset + slots[n - 1].len
  <2>1. n - 1 \in 1..(n - 1) /\ (n - 1) + 1 = n
    BY <1>2, <1>3
  <2> QED
    BY <1>1, <2>1 DEF Tiled, Contiguous, EndOf
<1>7. slots[1].offset + slots[1].len <= slots[n].offset /\ slots[1].len \in Nat
  BY <1>1, <1>2, <1>3 DEF Tiled, Ordered, EndOf
<1>8. reserved = slots[n].offset + slots[n].len - slots[1].offset
  BY <1>1, <1>3, <1>5 DEF WindowBound, Covered
<1>9. reserved' \in Nat /\ reserved' <= reserved /\ reserved' = Covered'
  <2>1. Covered' = slots[n - 1].offset + slots[n - 1].len - slots[1].offset
    BY <1>2, <1>3, <1>4 DEF Covered
  <2>2. reserved \in Nat /\ reserved' = reserved - slots[n].len
    BY <1>2, <1>3
  <2>3. slots[1].offset <= slots[n].offset
    BY <1>5, <1>7
  <2>4. slots[1].offset \in Nat /\ slots[n].offset \in Nat /\ slots[n].len \in Nat
    BY <1>5
  <2> HIDE DEF n
  <2>5. Covered' = slots[n].offset - slots[1].offset
    BY <1>5, <1>6, <2>1
  <2> QED
    BY <1>8, <2>2, <2>3, <2>4, <2>5
<1>10. TypeOK'
  <2>1. slots' \in Seq([offset : Nat, len : Nat \ {0}, state : {"pending", "ready"},
                    answer : Int, waker : BOOLEAN])
    BY <1>4 DEF Slot
  <2> QED
    BY <1>1, <1>9, <2>1 DEF TypeOK, CutSlot
<1>11. RangeInv'
  BY <1>1, <1>3 DEF RangeInv
<1>12. Answered'
  BY <1>1, <1>2, <1>4 DEF Answered
<1>13. Tiled'
  <2>1. InRange' /\ Contiguous'
    BY <1>1, <1>2, <1>3, <1>4 DEF Tiled, InRange, Contiguous
  <2>2. Ordered'
    <3>1. \A i \in 1..(n - 1) : i \in 1..n /\ slots'[i] = slots[i]
      BY <1>2, <1>4
    <3> QED
      BY <1>1, <1>4, <3>1 DEF Tiled, Ordered
  <2> QED
    BY <1>3, <2>1, <2>2 DEF Tiled, OpenEnd
<1>14. WindowBound'
  <2>1. config.window \in Nat /\ config.max_bytes \in Nat
    BY <1>1, ValidConfig
  <2> QED
    BY <1>1, <1>2, <1>3, <1>4, <1>9, <2>1 DEF WindowBound
<1> QED
  BY <1>10, <1>11, <1>12, <1>13, <1>14 DEF Geometry

\* The first slot is delivered, and what it had reserved is given back.
LEMMA GeometryFrontReady ==
  ASSUME Geometry, FrontReady
  PROVE  Geometry'
<1> USE DEF range, reader, consumer
<1> DEFINE n == Len(slots)
<1>1. TypeOK /\ RangeInv /\ Answered /\ Tiled /\ WindowBound
  BY DEF Geometry
<1>2. /\ slots \in Seq(Slot) /\ n \in Nat /\ (slots # <<>> <=> n > 0) /\ reserved \in Nat
      /\ \A j \in 1..n : /\ slots[j] \in Slot /\ slots[j].offset \in Nat /\ slots[j].len \in Nat
                         /\ slots[j].answer \in Int
  BY <1>1, SlotType
<1>3. /\ pc = "front" /\ pc' = "got" /\ n > 0 /\ slots # <<>> /\ slots[1].state = "ready"
      /\ reserved' = reserved - slots[1].len /\ slots' = Tail(slots)
      /\ finished' = EndsAt(slots[1])
      /\ outcome' = IF slots[1].answer = Error THEN Failed
                    ELSE IF slots[1].answer = 0 THEN None ELSE Data(slots[1].offset, slots[1].answer)
      /\ UNCHANGED <<config, end, next_offset, stop_scheduling, index, woken, delivered, verdict>>
  BY <1>2 DEF FrontReady
<1>4. /\ slots' \in Seq(Slot) /\ Len(slots') = n - 1 /\ (slots' # <<>> <=> n > 1)
      /\ \A j \in 1..(n - 1) : slots'[j] = slots[j + 1]
  <2>1. /\ slots' \in Seq(Slot) /\ Len(slots') = n - 1
        /\ \A j \in 1..Len(slots') : slots'[j] = slots[j + 1]
    BY <1>2, <1>3, HeadTailProperties
  <2>2. n \in Nat /\ n > 0
    BY <1>2, <1>3
  <2>3. slots' # <<>> <=> Len(slots') > 0
    BY <2>1
  <2> QED
    BY <2>1, <2>2, <2>3
<1>5. /\ slots[1].offset \in Nat /\ slots[1].len \in Nat
      /\ slots[n].offset \in Nat /\ slots[n].len \in Nat
  BY <1>2, <1>3
<1>6. reserved = slots[n].offset + slots[n].len - slots[1].offset
  BY <1>1, <1>3, <1>5 DEF WindowBound, Covered
<1>7. reserved' \in Nat /\ reserved' <= reserved /\ reserved' = Covered'
  <2>1. CASE n = 1
    BY <1>3, <1>4, <1>5, <1>6, <2>1 DEF Covered
  <2>2. CASE n > 1
    <3>1. slots[2].offset = slots[1].offset + slots[1].len
      BY <1>1, <1>2, <2>2 DEF Tiled, Contiguous, EndOf
    <3>2. Covered' = slots[n].offset + slots[n].len - slots[2].offset
      <4>1. slots'[1] = slots[2] /\ slots'[n - 1] = slots[n] /\ slots' # <<>>
        BY <1>2, <1>4, <2>2
      <4> QED
        BY <1>4, <4>1 DEF Covered
    <3>3. slots[1].offset + slots[1].len <= slots[n].offset
      BY <1>1, <1>2, <2>2 DEF Tiled, Ordered, EndOf
    <3>4. reserved \in Nat /\ reserved' = reserved - slots[1].len
      BY <1>2, <1>3
    <3> HIDE DEF n
    <3> QED
      BY <1>5, <1>6, <3>1, <3>2, <3>3, <3>4, GiveBackFirst
  <2>3. n = 1 \/ n > 1
    <3>1. n \in Nat /\ n > 0
      BY <1>2, <1>3
    <3> HIDE DEF n
    <3> QED
      BY <3>1
  <2> QED
    BY <2>1, <2>2, <2>3
<1>8. finished' \in BOOLEAN /\ outcome' \in [kind : Kinds, offset : Nat, len : Nat]
  <2>1. slots[1].answer # Error => slots[1].answer \in Nat
    BY <1>1, <1>2, <1>3, AnswerType DEF Answered
  <2> QED
    BY <1>3, <1>5, <2>1 DEF EndsAt, Kinds, None, Failed, Data
<1>9. TypeOK'
  <2>1. slots' \in Seq([offset : Nat, len : Nat \ {0}, state : {"pending", "ready"},
                    answer : Int, waker : BOOLEAN])
    BY <1>4 DEF Slot
  <2> QED
    BY <1>1, <1>3, <1>7, <1>8, <2>1 DEF TypeOK
<1>10. RangeInv'
  BY <1>1, <1>3 DEF RangeInv
<1>11. Answered'
  BY <1>1, <1>2, <1>4 DEF Answered
<1>12. Tiled'
  <2>1. \A j \in 1..(n - 1) : j + 1 \in 1..n /\ slots'[j] = slots[j + 1]
    BY <1>2, <1>4
  <2>2. InRange'
    BY <1>1, <1>3, <1>4, <2>1 DEF Tiled, InRange
  <2>3. Contiguous'
    <3>1. ASSUME NEW j \in 1..(Len(slots') - 1) PROVE slots'[j + 1].offset = EndOf(slots'[j])
      <4>1. j \in 1..(n - 1) /\ j + 1 \in 1..(n - 1)
        BY <1>2, <1>4
      <4> QED
        BY <1>1, <2>1, <4>1 DEF Tiled, Contiguous
    <3> QED
      BY <3>1 DEF Contiguous
  <2>4. Ordered'
    <3>1. ASSUME NEW i \in 1..Len(slots'), NEW j \in 1..Len(slots'), i < j
          PROVE  EndOf(slots'[i]) <= slots'[j].offset
      <4>1. i \in 1..(n - 1) /\ j \in 1..(n - 1) /\ i + 1 < j + 1
        BY <1>2, <1>4, <3>1
      <4> QED
        BY <1>1, <2>1, <4>1 DEF Tiled, Ordered
    <3> QED
      BY <3>1 DEF Ordered
  <2>5. OpenEnd'
    <3>1. ASSUME slots' # <<>> PROVE slots'[Len(slots')] = slots[n]
      BY <1>2, <1>4, <3>1
    <3> QED
      BY <1>1, <1>3, <3>1 DEF Tiled, OpenEnd
  <2> QED
    BY <2>2, <2>3, <2>4, <2>5 DEF Tiled
<1>13. WindowBound'
  <2>1. config.window \in Nat /\ config.max_bytes \in Nat
    BY <1>1, ValidConfig
  <2> QED
    BY <1>1, <1>2, <1>3, <1>4, <1>7, <2>1 DEF WindowBound
<1> QED
  BY <1>9, <1>10, <1>11, <1>12, <1>13 DEF Geometry

\* The steps that leave the slots alone: the loops' ends, a poll that begins or blocks, and
\* the consumer taking what it was given.
LEMMA GeometryNoSlot ==
  ASSUME Geometry, PollNext \/ LoopEnds \/ FrontBlocks \/ Consume
  PROVE  Geometry'
<1> USE DEF range, reader, consumer
<1>1. TypeOK /\ Answered /\ Tiled
  BY DEF Geometry
<1>2. /\ UNCHANGED <<config, end, next_offset, reserved, slots, stop_scheduling>>
      /\ pc \notin {"rejected", "dropped"} /\ pc' \notin {"rejected", "dropped", "cut"}
  BY DEF PollNext, LoopEnds, FrontBlocks, Consume
<1>3. RangeInv' /\ Tiled' /\ WindowBound'
  BY <1>2, ShapeKept
<1>4. Answered'
  BY <1>1, <1>2 DEF Answered
<1>5. TypeOK'
  <2>1. CASE PollNext \/ LoopEnds \/ FrontBlocks
    <3>1. None \in [kind : Kinds, offset : Nat, len : Nat]
      BY DEF None, Kinds
    <3>2. CASE PollNext
      BY <1>1, <1>2, <3>1, <3>2, Zenon DEF TypeOK, PollNext
    <3>3. CASE LoopEnds
      BY <1>1, <1>2, <3>3 DEF TypeOK, LoopEnds
    <3>4. CASE FrontBlocks
      BY <1>1, <1>2, <3>1, <3>4, Zenon DEF TypeOK, FrontBlocks
    <3> QED
      BY <2>1, <3>2, <3>3, <3>4
  <2>2. CASE Consume
    <3>1. delivered' \in Nat
      <4>1. delivered \in Nat /\ outcome.len \in Nat
        BY <1>1 DEF TypeOK
      <4> QED
        BY <2>2, <4>1 DEF Consume
    <3>2. verdict' \in {"ok", "failed", "non-contiguous", "mismatch", "premature"}
      BY <1>1, <2>2 DEF TypeOK, Consume, Judge, Wanted
    <3> QED
      BY <1>1, <1>2, <2>2, <3>1, <3>2 DEF TypeOK, Consume
  <2> QED
    BY <2>1, <2>2
<1> QED
  BY <1>3, <1>4, <1>5 DEF Geometry

\* A future of next() that is dropped leaves the reader as it is; dropping the reader drops
\* every slot.
LEMMA GeometryDrop ==
  ASSUME Geometry, Drop
  PROVE  Geometry'
<1> USE DEF range, reader, consumer
<1>1. TypeOK /\ Answered /\ Tiled /\ RangeInv
  BY DEF Geometry
<1>2. UNCHANGED <<config, end, next_offset, reserved, stop_scheduling>>
  BY DEF Drop
<1>3. CASE pc = "pending" /\ pc' = "idle" /\ UNCHANGED slots
  <2>1. RangeInv' /\ Tiled' /\ WindowBound'
    BY <1>2, <1>3, ShapeKept
  <2>2. Answered' /\ TypeOK'
    BY <1>1, <1>3 DEF Answered, TypeOK, Drop
  <2> QED
    BY <2>1, <2>2 DEF Geometry
<1>4. CASE pc = "idle" /\ pc' = "dropped" /\ slots' = <<>>
  <2>1. TypeOK'
    BY <1>1, <1>4 DEF TypeOK, Drop
  <2>2. RangeInv'
    BY <1>1, <1>2, <1>4 DEF RangeInv
  <2>3. Tiled' /\ Answered'
    BY <1>4 DEF Tiled, InRange, Contiguous, Ordered, OpenEnd, Answered
  <2>4. WindowBound'
    BY <1>4 DEF WindowBound
  <2> QED
    BY <2>1, <2>2, <2>3, <2>4 DEF Geometry
<1> QED
  BY <1>3, <1>4 DEF Drop

\* A reader that was just made has opened nothing; one whose configuration is refused never does.
LEMMA GeometryInit == Init => Geometry
<1> SUFFICES ASSUME Init PROVE Geometry
  OBVIOUS
<1>1. /\ config \in Configs /\ config.offset \in Nat /\ config.length \in Nat
      /\ config.window \in Nat /\ config.max_bytes \in Nat
  BY PrefetchAssumption DEF Init
<1>2. slots = <<>> /\ Len(slots) = 0
  BY DEF Init
<1>3. TypeOK
  <2>1. end \in Nat
    BY <1>1 DEF Init
  <2>2. outcome \in [kind : Kinds, offset : Nat, len : Nat]
    BY DEF Init, None, Kinds
  <2>3. slots \in Seq([offset : Nat, len : Nat \ {0}, state : {"pending", "ready"},
                      answer : Int, waker : BOOLEAN])
    BY <1>2
  <2>4. {end, next_offset, reserved, delivered} \subseteq Nat /\ index \in Nat \ {0}
    BY <1>1, <2>1 DEF Init
  <2>5. {stop_scheduling, finished, woken} \subseteq BOOLEAN /\ pc \in {"idle", "rejected"}
    BY Zenon DEF Init
  <2>6. verdict = "ok"
    BY DEF Init
  <2> QED
    BY <2>2, <2>3, <2>4, <2>5, <2>6 DEF TypeOK
<1>4. RangeInv
  BY <1>1 DEF Init, RangeInv
<1>5. Tiled /\ Answered
  BY <1>2 DEF Init, Tiled, InRange, Contiguous, Ordered, OpenEnd, Answered
<1>6. WindowBound
  BY <1>1, <1>2 DEF Init, WindowBound, Covered
<1> QED
  BY <1>3, <1>4, <1>5, <1>6 DEF Geometry

\* Every step keeps the tiling and the accounting.
LEMMA GeometryStep == Geometry /\ [Next]_vars => Geometry'
<1> SUFFICES ASSUME Geometry, [Next]_vars PROVE Geometry'
  OBVIOUS
<1>1. CASE Step
  BY <1>1, GeometryNoSlot, GeometryFill, GeometryPollSlot, GeometryCutSlot, GeometryFrontReady
     DEF Step
<1>2. CASE Drop
  BY <1>2, GeometryDrop
<1>3. ASSUME NEW i \in DOMAIN slots, Complete(i) PROVE Geometry'
  BY <1>3, GeometryComplete
<1>4. CASE UNCHANGED vars
  BY <1>4 DEF vars, range, reader, consumer, Geometry, TypeOK, RangeInv, Tiled, InRange,
              Contiguous, Ordered, OpenEnd, Answered, WindowBound, Covered
<1> QED
  BY <1>1, <1>2, <1>3, <1>4 DEF Next

\* Whatever is configured and however the reads complete, the window and the byte limit hold
\* over pending and ready slots together, and what is reserved is what the slots cover.
THEOREM WindowHolds == Spec => []WindowBound
<1>1. Geometry => WindowBound
  BY DEF Geometry
<1> QED
  BY <1>1, GeometryInit, GeometryStep, PTL DEF Spec

\* No read is asked for outside the configured range, or past what a file offset can hold.
THEOREM RangeHolds == Spec => []ReadsInRange
<1>1. Geometry => ReadsInRange
  <2> SUFFICES ASSUME Geometry PROVE ReadsInRange
    OBVIOUS
  <2>1. TypeOK /\ RangeInv /\ Tiled
    BY DEF Geometry
  <2> SUFFICES ASSUME NEW i \in DOMAIN slots
               PROVE  /\ slots[i].offset >= config.offset
                      /\ slots[i].offset + slots[i].len <= config.offset + config.length
                      /\ slots[i].offset + slots[i].len <= MaxI64
    BY DEF ReadsInRange
  <2>2. i \in 1..Len(slots) /\ slots[i].offset \in Nat /\ slots[i].len \in Nat /\ slots # <<>>
    BY <2>1, SlotType
  <2>3. pc # "rejected"
    BY <2>1, <2>2 DEF RangeInv
  <2>4. /\ config.offset <= slots[i].offset /\ slots[i].offset + slots[i].len <= next_offset
        /\ next_offset <= end /\ next_offset \in Nat /\ end \in Nat
    BY <2>1, <2>2, <2>3, SlotType DEF Tiled, InRange, RangeInv, EndOf
  <2>5. end = config.offset + config.length /\ end <= MaxI64 /\ config.offset \in Nat
    BY <2>1, <2>3, ValidConfig
  <2>6. MaxI64 \in Nat
    BY PrefetchAssumption
  <2> QED
    BY <2>2, <2>4, <2>5, <2>6
<1> QED
  BY <1>1, GeometryInit, GeometryStep, PTL DEF Spec

-------------------------------------------------------------------------------
(* The order of delivery: OrderedReader implements SequentialRead.         *)

\* An error or a short read is the last slot, but for those poll_next is about to drop.
NoneBehind ==
  \A i \in 1..Len(slots) : Terminal(slots[i]) =>
    stop_scheduling /\ (IF pc = "cut" THEN i >= index ELSE i = Len(slots))

\* It is kept until it is delivered: scheduling is stopped for a slot that is still there.
TerminalKept ==
  /\ pc = "cut" => index <= Len(slots) /\ Terminal(slots[index]) /\ ~finished
  /\ stop_scheduling /\ ~finished /\ pc \notin {"cut", "dropped"} =>
       slots # <<>> /\ Terminal(slots[Len(slots)])

\* The first slot is the next to be delivered, and where there is none the range is done.
Front ==
  /\ slots # <<>> => slots[1].offset = Delivered
  /\ slots = <<>> /\ ~stop_scheduling /\ pc \notin {"rejected", "dropped"} => next_offset = Delivered
  /\ slots = <<>> /\ pc \in {"poll", "front"} => next_offset = end
  /\ finished => slots = <<>> /\ pc \in {"idle", "got", "dropped"}

\* The outcome is the next of the sequence.
Told ==
  /\ pc = "got" /\ outcome.kind = "chunk" =>
       /\ outcome.offset = config.offset + delivered
       /\ outcome.len = RangeOrEof(outcome.offset, Smaller(end - outcome.offset, config.chunk))
  /\ pc = "got" /\ outcome.kind # "chunk" => finished

\* An end that is reported is one.
ToldEnd ==
  finished => \/ Delivered >= end
              \/ RangeOrEof(Delivered, 1) = 0
              \/ verdict = "failed"
              \/ pc = "got" /\ outcome.kind = "error"

Delivery == NoneBehind /\ TerminalKept /\ Front /\ Told /\ ToldEnd /\ Verified

-------------------------------------------------------------------------------
(* Steps that tell the consumer nothing.                                   *)

Quiet == /\ UNCHANGED <<config, end, delivered, outcome, finished, verdict>>
         /\ pc = "got" <=> pc' = "got"

\* They leave what was delivered, and what was said of it.
LEMMA QuietTold ==
  ASSUME Told, ToldEnd, Verified, Quiet
  PROVE  Told' /\ ToldEnd' /\ Verified' /\ Delivered' = Delivered
<1>1. Delivered' = Delivered
  BY DEF Quiet, Delivered
<1> QED
  BY <1>1 DEF Quiet, Told, ToldEnd, Verified

\* A read that completes is not one poll_next has taken.
LEMMA DeliveryComplete ==
  ASSUME Geometry, Delivery, NEW i \in DOMAIN slots, Complete(i)
  PROVE  Delivery'
<1> USE DEF range, reader, consumer
<1>1. /\ slots \in Seq(Slot) /\ Len(slots) \in Nat /\ DOMAIN slots = 1..Len(slots)
      /\ \A j \in 1..Len(slots) : slots[j] \in Slot
      /\ (slots # <<>> <=> Len(slots) > 0)
  BY SlotType DEF Geometry
<1>2. /\ slots[i].answer = NoAnswer /\ Quiet
      /\ UNCHANGED <<pc, index, next_offset, stop_scheduling>>
      /\ \E a \in Answers(slots[i]) : slots' = [slots EXCEPT ![i].answer = a]
  BY Zenon DEF Complete, Quiet
<1>3. slots[i].state = "pending"
  <2>1. slots[i] \in Slot /\ Honest(slots[i])
    BY <1>1 DEF Geometry, Answered
  <2>2. RangeOrEof(slots[i].offset, slots[i].len) # NoAnswer
    BY <2>1, RangeType DEF Slot, NoAnswer
  <2> QED
    BY <1>2, <2>1, <2>2 DEF Honest, NoAnswer, Error
<1>4. /\ Len(slots') = Len(slots) /\ (slots' = <<>> <=> slots = <<>>)
      /\ \A j \in 1..Len(slots) : /\ slots'[j].offset = slots[j].offset
                                  /\ Terminal(slots'[j]) <=> Terminal(slots[j])
  <2>1. PICK a \in Answers(slots[i]) : slots' = [slots EXCEPT ![i].answer = a]
    BY <1>2, Zenon
  <2>2. slots[i] \in Slot
    BY <1>1
  <2>3. /\ [slots[i] EXCEPT !.answer = a].offset = slots[i].offset
        /\ [slots[i] EXCEPT !.answer = a].state = "pending"
    BY <1>3, <2>2 DEF Slot
  <2>4. /\ slots'[i] = [slots[i] EXCEPT !.answer = a] /\ Len(slots') = Len(slots)
        /\ \A j \in 1..Len(slots) : j # i => slots'[j] = slots[j]
    BY <1>1, <2>1
  <2>5. slots' = <<>> <=> slots = <<>>
    BY <1>1, <2>1
  <2> QED
    BY <1>3, <2>3, <2>4, <2>5, Zenon DEF Terminal
<1>5. Told' /\ ToldEnd' /\ Verified' /\ Delivered' = Delivered
  BY <1>2, QuietTold DEF Delivery
<1>6. NoneBehind' /\ TerminalKept'
  BY <1>1, <1>2, <1>4 DEF Delivery, NoneBehind, TerminalKept, Quiet
<1>7. Front'
  BY <1>1, <1>2, <1>4, <1>5 DEF Delivery, Front, Quiet
<1> QED
  BY <1>5, <1>6, <1>7 DEF Delivery

\* A slot is opened behind slots that are whole, at the place the consumer will have come to.
LEMMA DeliveryFill ==
  ASSUME Geometry, Delivery, Fill
  PROVE  Delivery'
<1> USE DEF range, reader, consumer
<1> DEFINE slot == [offset |-> next_offset, len |-> NextLen, state |-> "pending",
                    answer |-> NoAnswer, waker |-> FALSE]
           n == Len(slots)
<1>1. /\ slots \in Seq(Slot) /\ n \in Nat /\ (slots # <<>> <=> n > 0)
      /\ next_offset \in Nat
  BY SlotType DEF Geometry
<1>2. /\ pc = "fill" /\ pc' = "fill" /\ ~stop_scheduling /\ ~stop_scheduling'
      /\ slots' = Append(slots, slot) /\ Quiet
  BY DEF Fill, MayFill, Quiet
<1>3. /\ Len(slots') = n + 1 /\ slots' # <<>> /\ slots'[n + 1] = slot
      /\ \A j \in 1..n : slots'[j] = slots[j]
  BY <1>1, <1>2
<1>4. Told' /\ ToldEnd' /\ Verified' /\ Delivered' = Delivered
  BY <1>2, QuietTold DEF Delivery
<1>5. NoneBehind'
  <2> SUFFICES ASSUME NEW j \in 1..Len(slots'), Terminal(slots'[j]) PROVE FALSE
    BY DEF NoneBehind
  <2>1. j \in 1..n \/ j = n + 1
    BY <1>1, <1>3
  <2>2. j # n + 1
    BY <1>3 DEF Terminal
  <2> QED
    BY <1>2, <1>3, <2>1, <2>2 DEF Delivery, NoneBehind
<1>6. TerminalKept'
  BY <1>2 DEF TerminalKept
<1>7. Front'
  <2>1. ~finished /\ ~finished'
    BY <1>2 DEF Delivery, Front, Quiet
  <2>2. slots'[1].offset = Delivered
    <3>1. CASE n = 0
      BY <1>1, <1>2, <1>3, <3>1 DEF Delivery, Front
    <3>2. CASE n > 0
      BY <1>1, <1>3, <3>2 DEF Delivery, Front
    <3> QED
      BY <1>1, <3>1, <3>2
  <2> QED
    BY <1>3, <1>4, <2>1, <2>2 DEF Front
<1> QED
  BY <1>4, <1>5, <1>6, <1>7 DEF Delivery

\* A turn of the poll loop stops scheduling at the first slot that is not whole.
LEMMA DeliveryPollSlot ==
  ASSUME Geometry, Delivery, PollSlot
  PROVE  Delivery'
<1> USE DEF range, reader, consumer
<1> DEFINE slot == Polled(slots[index])
<1>1. /\ slots \in Seq(Slot) /\ Len(slots) \in Nat /\ (slots # <<>> <=> Len(slots) > 0)
      /\ \A j \in 1..Len(slots) : slots[j] \in Slot /\ Honest(slots[j])
      /\ index \in Nat /\ index > 0 /\ stop_scheduling \in BOOLEAN
  BY SlotType DEF Geometry, Answered
<1>2. /\ pc = "poll" /\ index \in 1..Len(slots) /\ slots' = [slots EXCEPT ![index] = slot]
      /\ stop_scheduling' = (stop_scheduling \/ Terminal(slot))
      /\ pc' = IF Terminal(slot) THEN "cut" ELSE "poll"
      /\ index' = IF Terminal(slot) THEN index ELSE index + 1
      /\ Quiet /\ UNCHANGED next_offset
  BY <1>1 DEF PollSlot, LastPolled, Quiet
<1>3. slot.offset = slots[index].offset
  BY <1>1, <1>2, PolledHonest
<1>4. Terminal(slots[index]) => slot = slots[index]
  BY DEF Polled, Terminal
<1>5. /\ Len(slots') = Len(slots) /\ slots' # <<>> /\ slots # <<>> /\ slots'[index] = slot
      /\ \A j \in 1..Len(slots) : j # index => slots'[j] = slots[j]
  BY <1>1, <1>2
<1> HIDE DEF slot
<1>6. Told' /\ ToldEnd' /\ Verified' /\ Delivered' = Delivered
  BY <1>2, QuietTold DEF Delivery
<1>7. ~finished /\ ~finished'
  BY <1>2 DEF Delivery, Front, Quiet
<1>8. Front'
  <2>1. slots'[1].offset = slots[1].offset
    BY <1>1, <1>2, <1>3, <1>5
  <2> QED
    BY <1>5, <1>6, <1>7, <2>1 DEF Delivery, Front
<1>9. NoneBehind'
  <2> SUFFICES ASSUME NEW j \in 1..Len(slots'), Terminal(slots'[j])
               PROVE  stop_scheduling' /\ (IF pc' = "cut" THEN j >= index' ELSE j = Len(slots'))
    BY DEF NoneBehind
  <2>1. CASE j = index
    <3>1. Terminal(slot)
      BY <1>5, <2>1
    <3>2. stop_scheduling' /\ pc' = "cut" /\ index' = j
      BY <1>2, <2>1, <3>1, Zenon
    <3>3. j \in Nat
      BY <1>1, <2>1
    <3> QED
      BY <3>2, <3>3
  <2>2. CASE j # index
    <3>1. j = Len(slots) /\ stop_scheduling
      BY <1>2, <1>5, <2>2, Zenon DEF Delivery, NoneBehind
    <3>2. stop_scheduling'
      BY <1>2, <3>1, Zenon
    <3>3. j = Len(slots') /\ j \in Nat /\ index <= j
      <4>1. index \in 1..Len(slots)
        BY <1>2
      <4> QED
        BY <1>1, <1>5, <3>1, <4>1
    <3>4. pc' = "cut" => index' = index
      BY <1>2
    <3> QED
      BY <1>1, <3>2, <3>3, <3>4
  <2> QED
    BY <2>1, <2>2
<1>10. TerminalKept'
  <2>1. CASE Terminal(slot)
    BY <1>1, <1>2, <1>5, <1>7, <2>1 DEF TerminalKept
  <2>2. CASE ~Terminal(slot)
    <3>1. stop_scheduling' => Terminal(slots[Len(slots)])
      BY <1>2, <1>7, <2>2, Zenon DEF Delivery, TerminalKept
    <3>2. stop_scheduling' => Len(slots) # index
      BY <1>4, <2>2, <3>1
    <3>3. stop_scheduling' => Terminal(slots'[Len(slots')])
      BY <1>1, <1>5, <3>1, <3>2
    <3> QED
      BY <1>2, <1>5, <2>2, <3>3, Zenon DEF TerminalKept
  <2> QED
    BY <2>1, <2>2
<1> QED
  BY <1>6, <1>8, <1>9, <1>10 DEF Delivery

\* A slot behind the terminal one is dropped from the back; the terminal one stays.
LEMMA DeliveryCutSlot ==
  ASSUME Geometry, Delivery, CutSlot
  PROVE  Delivery'
<1> USE DEF range, reader, consumer
<1> DEFINE n == Len(slots)
<1>1. /\ slots \in Seq(Slot) /\ n \in Nat /\ index \in Nat /\ index > 0
      /\ \A j \in 1..n : slots[j] \in Slot
  BY SlotType DEF Geometry
<1>2. /\ pc = "cut" /\ pc' = "cut" /\ n > index /\ slots' = SubSeq(slots, 1, n - 1)
      /\ Quiet /\ UNCHANGED <<stop_scheduling, index>>
  BY DEF CutSlot, Kept, Quiet
<1>3. /\ Len(slots') = n - 1 /\ slots' # <<>> /\ slots # <<>>
      /\ \A j \in 1..(n - 1) : slots'[j] = slots[j]
  <2>1. \A j \in 1..(n - 1) : slots[j] \in Slot
    BY <1>1
  <2>2. /\ slots' \in Seq(Slot) /\ Len(slots') = IF 1 <= n - 1 THEN (n - 1) - 1 + 1 ELSE 0
        /\ \A j \in 1..((n - 1) - 1 + 1) : slots'[j] = slots[1 + j - 1]
    BY <1>1, <1>2, <2>1, SubSeqProperties
  <2>3. (n - 1) - 1 + 1 = n - 1 /\ 1 <= n - 1 /\ \A j \in 1..(n - 1) : 1 + j - 1 = j
    BY <1>1, <1>2
  <2>4. Len(slots') = n - 1 /\ \A j \in 1..(n - 1) : slots'[j] = slots[j]
    BY <2>2, <2>3
  <2>5. slots' # <<>> /\ slots # <<>>
    <3>1. slots' # <<>>
      BY <2>2, <2>3, <2>4
    <3>2. slots # <<>>
      BY <1>1, <1>2
    <3> QED
      BY <3>1, <3>2
  <2> QED
    BY <2>4, <2>5
<1>4. Told' /\ ToldEnd' /\ Verified' /\ Delivered' = Delivered
  BY <1>2, QuietTold DEF Delivery
<1>5. NoneBehind'
  <2>1. \A j \in 1..(n - 1) : j \in 1..n /\ slots'[j] = slots[j]
    BY <1>1, <1>3
  <2> QED
    BY <1>2, <1>3, <2>1 DEF Delivery, NoneBehind
<1>6. TerminalKept'
  <2>1. index \in 1..(n - 1) /\ index <= n - 1
    BY <1>1, <1>2
  <2> QED
    BY <1>2, <1>3, <2>1 DEF Delivery, TerminalKept, Quiet
<1>7. Front'
  <2>1. 1 \in 1..(n - 1)
    BY <1>1, <1>2
  <2> QED
    BY <1>2, <1>3, <1>4, <2>1 DEF Delivery, Front, Quiet
<1> QED
  BY <1>4, <1>5, <1>6, <1>7 DEF Delivery

\* Where no slot could be opened and none is there, the whole range was scheduled.
LEMMA FilledToEnd ==
  ASSUME Geometry, Delivery, pc = "fill", ~MayFill, slots = <<>>
  PROVE  next_offset = end
<1>1. /\ ~stop_scheduling
  BY DEF Delivery, TerminalKept, Front
<1>2. /\ config.chunk \in Nat /\ config.max_bytes \in Nat /\ config.window \in Nat
      /\ config.window > 0 /\ config.chunk <= config.max_bytes
  BY ValidConfig DEF Geometry
<1>3. next_offset \in Nat /\ end \in Nat /\ next_offset <= end
  BY SlotType DEF Geometry, RangeInv
<1>4. Len(slots) = 0 /\ reserved = 0
  BY DEF Geometry, WindowBound, Covered
<1>5. NextLen <= config.chunk /\ NextLen \in Int
  BY <1>2, <1>3 DEF NextLen, Smaller
<1>6. HasRoom
  BY <1>2, <1>4, <1>5 DEF HasRoom
<1>7. ~(next_offset < end)
  BY <1>1, <1>2, <1>4, <1>6 DEF MayFill
<1> QED
  BY <1>3, <1>7

\* The loops end with the range scheduled, every slot polled, or none behind the terminal one.
LEMMA DeliveryLoopEnds ==
  ASSUME Geometry, Delivery, LoopEnds
  PROVE  Delivery'
<1> USE DEF range, reader, consumer
<1>1. /\ UNCHANGED <<slots, next_offset, stop_scheduling>> /\ Quiet
      /\ pc \in {"fill", "poll", "cut"} /\ pc' \in {"poll", "front"}
  BY DEF LoopEnds, Quiet
<1>2. Told' /\ ToldEnd' /\ Verified' /\ Delivered' = Delivered
  BY <1>1, QuietTold DEF Delivery
<1>3. /\ Len(slots) \in Nat /\ index \in Nat
  BY SlotType DEF Geometry
<1>4. pc = "cut" => index = Len(slots)
  BY <1>1, <1>3 DEF LoopEnds, Kept, Delivery, TerminalKept
<1>5. NoneBehind'
  <2> SUFFICES ASSUME NEW j \in 1..Len(slots), Terminal(slots[j])
               PROVE  stop_scheduling /\ j = Len(slots)
    BY <1>1 DEF NoneBehind
  <2>1. CASE pc = "cut"
    BY <1>3, <1>4, <2>1 DEF Delivery, NoneBehind
  <2>2. CASE pc # "cut"
    BY <2>2 DEF Delivery, NoneBehind
  <2> QED
    BY <2>1, <2>2
<1>6. slots # <<>> \/ pc # "cut"
  BY <1>3, <1>4, SlotType, Zenon DEF Geometry
<1>7. TerminalKept'
  BY <1>1, <1>3, <1>4, <1>6 DEF Delivery, TerminalKept, Quiet
<1>8. Front'
  <2>1. slots = <<>> => next_offset = end
    BY <1>1, <1>6, FilledToEnd DEF LoopEnds, Delivery, Front
  <2> QED
    BY <1>1, <1>2, <2>1 DEF Delivery, Front, Quiet
<1> QED
  BY <1>2, <1>5, <1>7, <1>8 DEF Delivery

\* Dropping the future of next() loses nothing of what was read.
LEMMA DeliveryDrop ==
  ASSUME Geometry, Delivery, Drop
  PROVE  Delivery'
<1> USE DEF range, reader, consumer
<1>1. UNCHANGED <<next_offset, stop_scheduling>> /\ Quiet
  BY DEF Drop, Quiet
<1>2. Told' /\ ToldEnd' /\ Verified' /\ Delivered' = Delivered
  BY <1>1, QuietTold DEF Delivery
<1>3. CASE pc = "pending" /\ pc' = "idle" /\ UNCHANGED slots
  BY <1>1, <1>2, <1>3 DEF Delivery, NoneBehind, TerminalKept, Front, Quiet
<1>4. CASE pc = "idle" /\ pc' = "dropped" /\ slots' = <<>>
  BY <1>1, <1>2, <1>4 DEF Delivery, NoneBehind, TerminalKept, Front, Quiet
<1> QED
  BY <1>3, <1>4 DEF Drop

-------------------------------------------------------------------------------
(* Steps that tell the consumer something, and what it makes of it.        *)

\* A poll begins, or a reader that is finished says so again.
LEMMA DeliveryPollNext ==
  ASSUME Geometry, Delivery, PollNext
  PROVE  Delivery' /\ (Abstract!End \/ UNCHANGED <<config, Delivered, finished, outcome>>)
<1> USE DEF range, reader, consumer
<1>1. /\ pc \in {"idle", "pending"} /\ pc' = IF finished THEN "got" ELSE "fill"
      /\ outcome' = IF finished THEN None ELSE outcome
      /\ UNCHANGED <<config, end, next_offset, reserved, slots, stop_scheduling, finished,
                     delivered, verdict>>
  BY DEF PollNext
<1>2. Delivered' = Delivered
  BY <1>1 DEF Delivered, None
<1>3. NoneBehind' /\ TerminalKept'
  BY <1>1 DEF Delivery, NoneBehind, TerminalKept
<1>4. Front' /\ ToldEnd'
  BY <1>1, <1>2 DEF Delivery, Front, ToldEnd
<1>5. Told' /\ Verified'
  BY <1>1 DEF Delivery, Told, Verified, None
<1>6. finished => Abstract!End
  BY <1>1, <1>2 DEF Abstract!End, Abstract!None, None
<1> QED
  BY <1>1, <1>2, <1>3, <1>4, <1>5, <1>6 DEF Delivery

\* No slot is left, and the range is delivered; or the first one is awaited.
LEMMA DeliveryFrontBlocks ==
  ASSUME Geometry, Delivery, FrontBlocks
  PROVE  Delivery' /\ (Abstract!End \/ UNCHANGED <<config, Delivered, finished, outcome>>)
<1> USE DEF range, reader, consumer
<1>1. /\ pc = "front"
      /\ UNCHANGED <<config, end, next_offset, slots, stop_scheduling, delivered, verdict>>
  BY DEF FrontBlocks
<1>2. CASE slots = <<>> /\ finished' = TRUE /\ outcome' = None /\ pc' = "got"
  <2>1. Delivered' = Delivered
    BY <1>1, <1>2 DEF Delivered, None
  <2>2. Delivered = end /\ ~finished
    BY <1>1, <1>2 DEF Delivery, Front, TerminalKept
  <2>3. /\ end \in Nat /\ config.chunk \in Nat /\ config.offset \in Nat /\ config.length \in Nat
        /\ end = config.offset + config.length
    BY <1>1, SlotType, ValidConfig DEF Geometry
  <2>4. NoneBehind' /\ TerminalKept' /\ Front' /\ Told' /\ Verified'
    BY <1>1, <1>2, <2>1 DEF Delivery, NoneBehind, TerminalKept, Front, Told, Verified, None
  <2>5. ToldEnd'
    BY <1>1, <2>1, <2>2, <2>3 DEF ToldEnd
  <2>6. Abstract!Want = 0
    BY <2>2, <2>3 DEF Abstract!Want, Abstract!Smaller
  <2>7. Abstract!RangeOrEof(Delivered, Abstract!Want) = 0
    BY <2>2, <2>3, <2>6, PrefetchAssumption
       DEF Abstract!RangeOrEof, Abstract!Smaller, Abstract!Larger
  <2>8. Abstract!End
    BY <1>1, <1>2, <2>1, <2>7 DEF Abstract!End, Abstract!None, None
  <2> QED
    BY <2>4, <2>5, <2>8 DEF Delivery
<1>3. CASE slots # <<>> /\ pc' = "pending" /\ UNCHANGED <<finished, outcome>>
  <2>1. Delivered' = Delivered
    BY <1>1, <1>3 DEF Delivered
  <2> QED
    BY <1>1, <1>3, <2>1 DEF Delivery, NoneBehind, TerminalKept, Front, Told, ToldEnd, Verified
<1> QED
  BY <1>2, <1>3, Zenon DEF FrontBlocks

\* The consumer's checks agree with what it was told.
LEMMA DeliveryConsume ==
  ASSUME Geometry, Delivery, Consume
  PROVE  Delivery' /\ UNCHANGED <<config, Delivered, finished, outcome>>
<1> USE DEF range, reader, consumer
<1>1. /\ pc = "got" /\ pc' = "idle" /\ verdict' = Judge
      /\ delivered' = delivered + (IF outcome.kind = "chunk" THEN outcome.len ELSE 0)
      /\ UNCHANGED <<config, end, next_offset, slots, stop_scheduling, finished, outcome>>
  BY DEF Consume
<1>2. /\ config.offset \in Nat /\ delivered \in Nat /\ outcome.len \in Nat /\ end \in Nat
      /\ outcome.kind \in {"none", "chunk", "error"}
  BY SlotType, ValidConfig DEF Geometry, TypeOK, Kinds
<1>3. Delivered' = Delivered
  BY <1>1, <1>2 DEF Delivered
<1>4. /\ verdict' \in {"ok", "failed"} /\ (verdict = "failed" => verdict' = "failed")
      /\ (outcome.kind = "error" => verdict' = "failed")
  <2>1. CASE outcome.kind = "chunk"
    BY <1>1, <2>1 DEF Delivery, Told, Verified, Judge, Wanted
  <2>2. CASE outcome.kind = "error"
    BY <1>1, <2>2 DEF Judge, Wanted
  <2>3. CASE outcome.kind = "none"
    <3>1. finished /\ Delivered = config.offset + delivered
      BY <1>1, <1>2, <2>3 DEF Delivery, Told, Delivered
    <3>2. verdict = "ok" => ~(config.offset + delivered < end)
                            \/ RangeOrEof(config.offset + delivered, 1) = 0
      BY <1>2, <2>3, <3>1 DEF Delivery, ToldEnd
    <3> QED
      BY <1>1, <2>3, <3>2 DEF Delivery, Verified, Judge, Wanted
  <2> QED
    BY <1>2, <2>1, <2>2, <2>3
<1>5. NoneBehind' /\ TerminalKept' /\ Front'
  BY <1>1, <1>3 DEF Delivery, NoneBehind, TerminalKept, Front
<1>6. Told' /\ ToldEnd' /\ Verified'
  BY <1>1, <1>3, <1>4 DEF Delivery, Told, ToldEnd, Verified
<1> QED
  BY <1>1, <1>3, <1>5, <1>6 DEF Delivery

\* What a sequential reader asks for at the first slot, and what the slot says of it.
LEMMA FirstSlot ==
  ASSUME Geometry, Delivery, pc = "front", slots # <<>>, slots[1].state = "ready"
  PROVE  /\ slots[1] \in Slot /\ slots[1].offset = Delivered /\ ~finished
         /\ slots[1].len = Abstract!Want /\ slots[1].len = Smaller(end - Delivered, config.chunk)
         /\ \/ slots[1].answer = RangeOrEof(Delivered, slots[1].len) /\ slots[1].answer \in Nat
            \/ slots[1].answer = Error /\ Delivered \in Faults \cup Oversized
         /\ slots[1].answer # slots[1].len => Len(slots) = 1
<1>1. /\ Len(slots) \in Nat /\ Len(slots) > 0 /\ slots[1] \in Slot
      /\ slots[1].offset \in Nat /\ slots[1].len \in Nat
  BY SlotType DEF Geometry
<1>2. slots[1].offset = Delivered /\ ~finished
  BY DEF Delivery, Front
<1>3. /\ config.offset \in Nat /\ config.length \in Nat /\ config.chunk \in Nat
      /\ end = config.offset + config.length
  BY ValidConfig DEF Geometry
<1>4. slots[1].len = Smaller(end - Delivered, config.chunk)
  BY <1>1, <1>2 DEF Geometry, Tiled, InRange
<1>5. slots[1].len = Abstract!Want
  BY <1>1, <1>2, <1>3, <1>4 DEF Smaller, Abstract!Want, Abstract!Smaller
<1>6. \/ slots[1].answer = RangeOrEof(Delivered, slots[1].len) /\ slots[1].answer \in Nat
      \/ slots[1].answer = Error /\ Delivered \in Faults \cup Oversized
  <2>1. Honest(slots[1])
    BY <1>1 DEF Geometry, Answered
  <2>2. RangeOrEof(slots[1].offset, slots[1].len) \in Nat
    BY <1>1, RangeType, Zenon
  <2> QED
    BY <1>2, <2>1, <2>2 DEF Honest
<1>7. slots[1].answer # slots[1].len => Len(slots) = 1
  <2>1. 1 \in 1..Len(slots)
    BY <1>1
  <2> QED
    BY <2>1 DEF Delivery, NoneBehind, Terminal
<1> QED
  BY <1>1, <1>2, <1>4, <1>5, <1>6, <1>7

\* A short read ends at the end of the file.
LEMMA ShortIsEof ==
  ASSUME NEW o \in Nat, NEW l \in Nat, RangeOrEof(o, l) < l
  PROVE  RangeOrEof(o + RangeOrEof(o, l), 1) = 0
BY PrefetchAssumption DEF RangeOrEof, Smaller, Larger

\* The first slot is what a sequential reader delivers next: its chunk, the end, or the failure.
LEMMA DeliveryFrontReady ==
  ASSUME Geometry, Delivery, FrontReady
  PROVE  Delivery' /\ (Abstract!Deliver \/ Abstract!End \/ Abstract!Fail)
<1> USE DEF range, reader, consumer
<1> DEFINE n == Len(slots)
           slot == slots[1]
<1>1. /\ pc = "front" /\ pc' = "got" /\ slots # <<>> /\ slot.state = "ready"
      /\ slots' = Tail(slots) /\ finished' = (slot.answer < slot.len)
      /\ outcome' = IF slot.answer = Error THEN Failed
                    ELSE IF slot.answer = 0 THEN None ELSE Data(slot.offset, slot.answer)
      /\ UNCHANGED <<config, end, next_offset, stop_scheduling, delivered, verdict>>
  BY DEF FrontReady, EndsAt
<1>2. /\ slot \in Slot /\ slot.offset = Delivered /\ ~finished
      /\ slot.len = Abstract!Want /\ slot.len = Smaller(end - Delivered, config.chunk)
      /\ \/ slot.answer = RangeOrEof(Delivered, slot.len) /\ slot.answer \in Nat
         \/ slot.answer = Error /\ Delivered \in Faults \cup Oversized
      /\ slot.answer # slot.len => n = 1
  BY <1>1, FirstSlot
<1>3. /\ slots \in Seq(Slot) /\ n \in Nat /\ n > 0 /\ slot.offset \in Nat /\ slot.len \in Nat
      /\ slot.len > 0 /\ config.offset \in Nat /\ delivered \in Nat
      /\ Delivered = config.offset + delivered
  BY <1>1, SlotType, ValidConfig DEF Geometry, Delivered
<1>4. /\ Len(slots') = n - 1 /\ (slots' # <<>> <=> n > 1)
      /\ \A j \in 1..(n - 1) : slots'[j] = slots[j + 1]
  <2>1. /\ slots' \in Seq(Slot) /\ Len(slots') = n - 1
        /\ \A j \in 1..Len(slots') : slots'[j] = slots[j + 1]
    BY <1>1, <1>3, HeadTailProperties
  <2>2. n \in Nat /\ n > 0
    BY <1>3
  <2>3. slots' # <<>> <=> Len(slots') > 0
    BY <2>1
  <2> QED
    BY <2>1, <2>2, <2>3
<1>5. Delivered' = Delivered + (IF slot.answer = Error THEN 0 ELSE slot.answer)
  BY <1>1, <1>2, <1>3 DEF Delivered, Failed, None, Data
<1>6. NoneBehind'
  <2> SUFFICES ASSUME NEW j \in 1..(n - 1), Terminal(slots[j + 1])
               PROVE  stop_scheduling /\ j = n - 1
    BY <1>1, <1>4, Zenon DEF NoneBehind
  <2>1. j + 1 \in 1..n
    BY <1>3
  <2>2. stop_scheduling /\ j + 1 = n
    BY <1>1, <2>1, Zenon DEF Delivery, NoneBehind
  <2> QED
    BY <1>3, <2>2
<1>7. /\ n > 1 => slots'[1].offset = slot.offset + slot.len
      /\ n = 1 /\ ~stop_scheduling => slot.offset + slot.len = next_offset
  <2>1. n > 1 => slots'[1] = slots[2] /\ slots[2].offset = slot.offset + slot.len
    BY <1>3, <1>4 DEF Geometry, Tiled, Contiguous, EndOf
  <2> QED
    BY <1>1, <2>1 DEF Geometry, Tiled, OpenEnd, EndOf
<1>8. slot.answer # slot.len => stop_scheduling
  <2>1. 1 \in 1..n
    BY <1>3
  <2> QED
    BY <1>1, <2>1 DEF Delivery, NoneBehind, Terminal
<1>9. /\ stop_scheduling => Terminal(slots[n]) /\ (n > 1 => slots'[n - 1] = slots[n])
      /\ Terminal(slot) <=> slot.answer # slot.len
  <2>1. n > 1 => n - 1 \in 1..(n - 1) /\ (n - 1) + 1 = n
    BY <1>3
  <2> QED
    BY <1>1, <1>2, <1>4, <2>1 DEF Delivery, TerminalKept, Terminal
<1>10. n = 1 => slots[n] = slot
  OBVIOUS
<1> HIDE DEF n, slot
<1>11. \/ slot.answer = Error /\ finished'
       \/ slot.answer \in Nat /\ slot.answer <= slot.len /\ (finished' <=> slot.answer # slot.len)
  <2>1. Delivered \in Nat /\ slot.len \in Nat /\ finished' = (slot.answer < slot.len)
    BY <1>1, <1>2, <1>3
  <2>2. RangeOrEof(Delivered, slot.len) <= slot.len
    BY <2>1, RangeType
  <2>3. CASE slot.answer = Error
    <3>1. slot.answer < slot.len
      BY <2>1, <2>3 DEF Error
    <3> QED
      BY <2>1, <2>3, <3>1, Zenon
  <2>4. CASE slot.answer = RangeOrEof(Delivered, slot.len) /\ slot.answer \in Nat
    <3>1. slot.answer <= slot.len /\ (slot.answer < slot.len <=> slot.answer # slot.len)
      BY <2>1, <2>2, <2>4
    <3> QED
      BY <2>1, <2>4, <3>1, Zenon
  <2> QED
    BY <1>2, <2>3, <2>4
<1>12. TerminalKept'
  <2> SUFFICES ASSUME stop_scheduling, ~finished'
               PROVE  slots' # <<>> /\ Terminal(slots'[Len(slots')])
    BY <1>1 DEF TerminalKept
  <2>1. n # 1
    BY <1>9, <1>10, <1>11
  <2> QED
    BY <1>3, <1>4, <1>9, <2>1
<1>13. Front'
  <2>1. ASSUME slot.answer = slot.len PROVE Delivered' = slot.offset + slot.len
    BY <1>2, <1>3, <1>5, <2>1 DEF Error
  <2>2. finished' => n = 1
    BY <1>2, <1>3, <1>11 DEF Error
  <2> QED
    BY <1>1, <1>2, <1>3, <1>4, <1>7, <1>8, <2>1, <2>2 DEF Front
<1>14. Told'
  <2>1. slot.answer = 0 \/ slot.answer = Error => finished'
    BY <1>3, <1>11 DEF Error
  <2> QED
    BY <1>1, <1>2, <1>3, <2>1 DEF Told, Failed, None, Data
<1>15. ToldEnd'
  <2> SUFFICES ASSUME finished', slot.answer # Error
               PROVE  RangeOrEof(Delivered', 1) = 0
    BY <1>1 DEF ToldEnd, Failed
  <2>1. slot.answer = RangeOrEof(Delivered, slot.len) /\ slot.answer < slot.len
    BY <1>1, <1>2, Zenon
  <2>2. Delivered \in Nat /\ Delivered' = Delivered + slot.answer
    BY <1>2, <1>3, <1>5
  <2> QED
    BY <1>3, <2>1, <2>2, ShortIsEof
<1>16. Verified'
  BY <1>1 DEF Delivery, Verified
<1>17. Abstract!Deliver \/ Abstract!End \/ Abstract!Fail
  <2>1. Abstract!RangeOrEof(Delivered, Abstract!Want) = RangeOrEof(Delivered, slot.len)
    BY <1>2 DEF RangeOrEof, Smaller, Larger, Abstract!RangeOrEof, Abstract!Smaller,
                Abstract!Larger
  <2>2. CASE slot.answer = Error
    <3>1. Delivered' = Delivered /\ outcome' = Failed /\ finished'
      BY <1>1, <1>2, <1>3, <1>5, <1>11, <2>2 DEF Error
    <3>2. Delivered \in Faults \cup Oversized /\ Abstract!Want > 0
      BY <1>2, <1>3, <2>2 DEF Error
    <3> QED
      BY <1>1, <1>2, <3>1, <3>2 DEF Abstract!Fail, Abstract!Failed, Failed
  <2>3. CASE slot.answer = 0
    <3>1. Delivered' = Delivered /\ outcome' = None /\ finished'
      BY <1>1, <1>2, <1>3, <1>5, <1>11, <2>3 DEF Error
    <3>2. Abstract!RangeOrEof(Delivered, Abstract!Want) = 0
      BY <1>2, <2>1, <2>3 DEF Error
    <3> QED
      BY <1>1, <3>1, <3>2 DEF Abstract!End, Abstract!None, None
  <2>4. CASE slot.answer \in Nat /\ slot.answer > 0
    BY <1>1, <1>2, <1>3, <1>5, <2>1, <2>4 DEF Abstract!Deliver, Abstract!Data, Data, Error
  <2> QED
    BY <1>2, <2>2, <2>3, <2>4
<1> QED
  BY <1>6, <1>12, <1>13, <1>14, <1>15, <1>16, <1>17 DEF Delivery

-------------------------------------------------------------------------------
\* A reader that was just made is where a sequential one begins.
LEMMA DeliveryInit == Init => Delivery /\ Abstract!Init
<1> SUFFICES ASSUME Init PROVE Delivery /\ Abstract!Init
  OBVIOUS
<1>1. /\ slots = <<>> /\ Len(slots) = 0 /\ ~finished /\ ~stop_scheduling /\ outcome = None
      /\ pc \in {"idle", "rejected"} /\ delivered = 0 /\ next_offset = config.offset
      /\ verdict = "ok" /\ finished = FALSE
  BY DEF Init
<1>2. Delivered = config.offset
  <2>1. config.offset \in Nat
    BY PrefetchAssumption DEF Init
  <2> QED
    BY <1>1, <2>1 DEF Delivered
<1>3. Delivery
  BY <1>1, <1>2 DEF Delivery, NoneBehind, TerminalKept, Front, Told, ToldEnd, Verified
<1>4. Abstract!Init
  BY <1>1, <1>2 DEF Abstract!Init, Abstract!None, None
<1> QED
  BY <1>3, <1>4

\* Every step keeps the invariant, and is a step of the sequential reader or nothing to it.
LEMMA DeliveryStep ==
  Geometry /\ Delivery /\ [Next]_vars => Delivery' /\ [Abstract!Next]_(Abstract!vars)
<1> SUFFICES ASSUME Geometry, Delivery, [Next]_vars
             PROVE  Delivery' /\ [Abstract!Next]_(Abstract!vars)
  OBVIOUS
<1> USE DEF Abstract!Next, Abstract!vars
<1>1. ASSUME Quiet PROVE UNCHANGED Abstract!vars
  BY <1>1, QuietTold DEF Delivery, Quiet
<1>2. CASE PollNext
  BY <1>2, DeliveryPollNext
<1>3. CASE Fill
  BY <1>1, <1>3, DeliveryFill DEF Fill, Quiet, range, consumer
<1>4. CASE PollSlot
  BY <1>1, <1>4, DeliveryPollSlot DEF PollSlot, Quiet, range, consumer
<1>5. CASE CutSlot
  BY <1>1, <1>5, DeliveryCutSlot DEF CutSlot, Quiet, range, consumer
<1>6. CASE LoopEnds
  BY <1>1, <1>6, DeliveryLoopEnds DEF LoopEnds, Quiet, reader, range, consumer
<1>7. CASE FrontBlocks
  BY <1>7, DeliveryFrontBlocks
<1>8. CASE FrontReady
  BY <1>8, DeliveryFrontReady
<1>9. CASE Consume
  BY <1>9, DeliveryConsume
<1>10. CASE Drop
  BY <1>1, <1>10, DeliveryDrop DEF Drop, Quiet, range, consumer
<1>11. ASSUME NEW i \in DOMAIN slots, Complete(i)
       PROVE  Delivery' /\ [Abstract!Next]_(Abstract!vars)
  BY <1>1, <1>11, DeliveryComplete, Zenon DEF Complete, Quiet, range, consumer
<1>12. CASE UNCHANGED vars
  <2>1. Quiet /\ UNCHANGED <<slots, stop_scheduling, index, pc, next_offset>>
    BY <1>12 DEF vars, reader, range, consumer, Quiet
  <2>2. Told' /\ ToldEnd' /\ Verified' /\ Delivered' = Delivered
    BY <2>1, QuietTold DEF Delivery
  <2> QED
    BY <1>1, <2>1, <2>2 DEF Delivery, NoneBehind, TerminalKept, Front, Quiet
<1> QED
  BY <1>2, <1>3, <1>4, <1>5, <1>6, <1>7, <1>8, <1>9, <1>10, <1>11, <1>12 DEF Next, Step

\* The checks of linux.rs never fail, in any file and for any range, chunk, window and limit:
\* chunks are contiguous and are what a positioned read returns, and no end is premature.
THEOREM DeliveryVerified == Spec => []Verified
<1>1. Geometry /\ Delivery => Verified
  BY DEF Delivery
<1>2. Init => Geometry /\ Delivery
  BY GeometryInit, DeliveryInit
<1>3. Geometry /\ Delivery /\ [Next]_vars => Geometry' /\ Delivery'
  BY GeometryStep, DeliveryStep
<1> QED
  BY <1>1, <1>2, <1>3, PTL DEF Spec

\* The prefetching reader implements the sequential one.
THEOREM PrefetchIsSequential == Spec => Sequential
<1>1. Init => Geometry /\ Delivery /\ Abstract!Init
  BY GeometryInit, DeliveryInit
<1>2. Geometry /\ Delivery /\ [Next]_vars => Geometry' /\ Delivery' /\ [Abstract!Next]_(Abstract!vars)
  BY GeometryStep, DeliveryStep
<1> QED
  BY <1>1, <1>2, PTL DEF Spec, Sequential, Abstract!Spec
===============================================================================
