----------------------------- MODULE MCUringShard -----------------------------
(***************************************************************************)
(* Small instances of UringShard: buffered reads of Want bytes.            *)
(***************************************************************************)
EXTENDS UringShard, TLC

CONSTANT Want

MCShape == [r \in Reads |-> [offset |-> 0, nread |-> 0, head |-> 0, want |-> Want,
                             region_len |-> Want, align |-> 1,
                             transient_retries |-> 0, cancel_requested |-> FALSE]]

Symmetry == Permutations(MayDrop) \cup Permutations(Reads \ MayDrop)

\* A byte short, the rest, or a transient error.
ShortAndTransient == {1, 2, -EAGAIN}
\* Every read completes at once and in full.
Complete == {1}
===============================================================================
