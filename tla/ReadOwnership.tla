---------------------------- MODULE ReadOwnership -----------------------------
(***************************************************************************)
(* What a shard promises about its reads, without rings, queues or turns:  *)
(*                                                                         *)
(*   - a read's buffer belongs to the driver from acceptance until it is   *)
(*     reclaimed or leaked, and it is reclaimed only between kernel reads; *)
(*   - a read is answered at most once, and successfully only in the step  *)
(*     that reclaims its buffer;                                           *)
(*   - a refused read never reaches the kernel, a leaked one never         *)
(*     succeeds and its buffer is never reused.                            *)
(***************************************************************************)
CONSTANT Reads

VARIABLES
    owner,     \* per read: "nobody", "driver", "reclaimed" or "leaked"
    io,        \* per read: may the kernel write to the buffer?
    answer     \* per read: "none", or what its caller is told

vars == <<owner, io, answer>>

Failures == {"err", "gone"}

Init == /\ owner = [r \in Reads |-> "nobody"]
        /\ io = [r \in Reads |-> FALSE]
        /\ answer = [r \in Reads |-> "none"]

Accept(r) == /\ owner[r] = "nobody" /\ answer[r] = "none"
             /\ owner' = [owner EXCEPT ![r] = "driver"]
             /\ UNCHANGED <<io, answer>>

Start(r) == /\ owner[r] = "driver" /\ ~io[r]
            /\ io' = [io EXCEPT ![r] = TRUE]
            /\ UNCHANGED <<owner, answer>>

Complete(r) == /\ io[r]
               /\ io' = [io EXCEPT ![r] = FALSE]
               /\ UNCHANGED <<owner, answer>>

\* The one step that frees a buffer; the caller may have gone.
Reclaim(r) == /\ owner[r] = "driver" /\ ~io[r] /\ answer[r] = "none"
              /\ owner' = [owner EXCEPT ![r] = "reclaimed"]
              /\ \E a \in {"none", "ok"} \cup Failures : answer' = [answer EXCEPT ![r] = a]
              /\ UNCHANGED io

Refuse(S) == /\ \A r \in S : owner[r] = "nobody" /\ answer[r] = "none"
             /\ \E a \in Failures : answer' = [r \in Reads |-> IF r \in S THEN a ELSE answer[r]]
             /\ UNCHANGED <<owner, io>>

\* Bounded drain: every read still owned is leaked at once, its caller told or gone.
Leak == LET stranded == {r \in Reads : owner[r] = "driver"}
        IN  /\ owner' = [r \in Reads |-> IF r \in stranded THEN "leaked" ELSE owner[r]]
            /\ \E told \in SUBSET stranded :
                 /\ \A r \in told : answer[r] = "none"
                 /\ answer' = [r \in Reads |-> IF r \in told THEN "err" ELSE answer[r]]
            /\ UNCHANGED io

Next == \/ \E r \in Reads : Accept(r) \/ Start(r) \/ Complete(r) \/ Reclaim(r)
        \/ \E S \in SUBSET Reads : Refuse(S)
        \/ Leak

Spec == Init /\ [][Next]_vars
===============================================================================
