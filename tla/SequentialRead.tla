---------------------------- MODULE SequentialRead ----------------------------
(***************************************************************************)
(* What OrderedReader::next promises its consumer                          *)
(* (src/examples/ordered_prefetch/reader.rs): the range as if it were read *)
(* chunk after chunk, each read after the one before it was delivered.     *)
(***************************************************************************)
EXTENDS Integers

CONSTANTS
    FileLen,              \* length of the file
    Faults                \* offsets whose read may fail

VARIABLES
    config,               \* the range and the chunk
    pos,                  \* end of what was delivered
    ended,                \* nothing more comes
    outcome               \* what next returned last

vars == <<config, pos, ended, outcome>>

Smaller(a, b) == IF a < b THEN a ELSE b
Larger(a, b)  == IF a < b THEN b ELSE a

\* A positioned read of len bytes returns the whole range or what the file has of it.
RangeOrEof(offset, len) == Smaller(len, Larger(0, FileLen - offset))

None == [kind |-> "none", offset |-> 0, len |-> 0]
Failed == [kind |-> "error", offset |-> 0, len |-> 0]
Data(offset, len) == [kind |-> "chunk", offset |-> offset, len |-> len]

\* What is asked for at the position.
Want == Smaller(config.chunk, config.offset + config.length - pos)

Init == pos = config.offset /\ ended = FALSE /\ outcome = None

\* The chunk at the position; one that is short is the last.
Deliver ==
  /\ ~ended /\ RangeOrEof(pos, Want) > 0
  /\ outcome' = Data(pos, RangeOrEof(pos, Want))
  /\ pos' = pos + RangeOrEof(pos, Want)
  /\ ended' = (RangeOrEof(pos, Want) < Want)
  /\ UNCHANGED config

\* The end of the range or of the file, again and again.
End ==
  /\ ended \/ RangeOrEof(pos, Want) = 0
  /\ outcome' = None /\ ended' = TRUE
  /\ UNCHANGED <<config, pos>>

\* A failed read ends the sequence at its place.
Fail ==
  /\ ~ended /\ Want > 0 /\ pos \in Faults
  /\ outcome' = Failed /\ ended' = TRUE
  /\ UNCHANGED <<config, pos>>

Next == Deliver \/ End \/ Fail

Spec == Init /\ [][Next]_vars
===============================================================================
