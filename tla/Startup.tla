------------------------------- MODULE Startup --------------------------------
(***************************************************************************)
(* Starting a driver (src/src/driver.rs): `start_with_limits` and          *)
(* `start_shard` over several shards, each step of which may fail, and the *)
(* probe read of the first shard (`probe_real_read`, `open_probe_file`,    *)
(* `drain_probe_cqe`) against a kernel that may fail, lie, be interrupted  *)
(* or never answer.  On a failure `?` drops the ring of the shard being    *)
(* started and joins the shards already running.  What becomes of the      *)
(* reservation the driver starts with is in SharedStart.                   *)
(***************************************************************************)
EXTENDS Integers

CONSTANTS
    NShards,
    ExtArg,           \* does the kernel take a timeout with the wait (EXT_ARG)
    Signals           \* may signals interrupt the wait

Shards == 0..(NShards - 1)

VARIABLES
    pc,               \* the next step of the starting thread
    shard,            \* the shard being started
    ring, thread,     \* per shard
    counts,           \* semaphores registered with the byte admission
    file, named,      \* the probe file, and whether it has a name in temp_dir
    buf,              \* the probe buffer
    op, data,         \* the probe read, and what its completion says
    deadline          \* PROBE_TIMEOUT has passed

probe == <<file, named, buf, op, data, deadline>>
shards == <<ring, thread, counts>>
vars == <<pc, shard, ring, thread, counts, probe>>

Init ==
  /\ pc = "reserve" /\ shard = 0
  /\ ring = [s \in Shards |-> "none"] /\ thread = [s \in Shards |-> "none"]
  /\ counts = {}
  /\ file = "none" /\ named = FALSE /\ buf = "none" /\ op = "none" /\ data = "none"
  /\ deadline = FALSE

\* `?` in start_shard: its ring is dropped; start_with_limits goes on to drop `started`.
Fail ==
  /\ ring' = [ring EXCEPT ![shard] = IF @ = "open" THEN "dropped" ELSE @]
  /\ pc' = "cleanup"
  /\ UNCHANGED <<shard, thread, counts>>

Go(next) == pc' = next /\ UNCHANGED <<shard, shards>>

-------------------------------------------------------------------------------
\* probe_and_start_with_shared_budget: invalid limits, or a pool without room.
Reserve ==
  /\ pc = "reserve"
  /\ pc' \in {"ring", "failed"}
  /\ UNCHANGED <<shard, ring, thread, counts, probe>>

\* IoUring::new and the NODROP test.
NewRing ==
  /\ pc = "ring"
  /\ \/ /\ ring' = [ring EXCEPT ![shard] = "open"]
        /\ pc' = IF shard = 0 THEN "open" ELSE "efd"
        /\ UNCHANGED <<shard, thread, counts>>
     \/ Fail
  /\ UNCHANGED probe

\* open_probe_file: O_TMPFILE, or a named file created exclusively.
OpenProbeFile ==
  /\ pc = "open"
  /\ \/ file' = "open" /\ named' \in BOOLEAN /\ Go("write")
     \/ Fail /\ UNCHANGED <<file, named>>
  /\ UNCHANGED <<buf, op, data, deadline>>

\* write_all(pattern)?
WriteProbeFile ==
  /\ pc = "write"
  /\ \/ Go(IF named THEN "unlink" ELSE "push") /\ UNCHANGED file
     \/ file' = "closed" /\ Fail
  /\ UNCHANGED <<named, buf, op, data, deadline>>

UnlinkProbeFile ==
  /\ pc = "unlink"
  /\ named' = FALSE
  /\ Go("push")
  /\ UNCHANGED <<file, buf, op, data, deadline>>

PushProbe ==
  /\ pc = "push"
  /\ buf' = "owned" /\ op' = "queued"
  /\ Go("wait")
  /\ UNCHANGED <<file, named, data, deadline>>

-------------------------------------------------------------------------------
(* drain_probe_cqe, and what probe_real_read does with its outcome.        *)

\* Defect: the buffer and the file are dropped with the error.
LeakProbe_dropping == buf' = "freed" /\ file' = "closed"

\* mem::forget of buffer and file.
LeakProbe == buf' = "leaked" /\ file' = "leaked"


Expired == deadline

WaitExpired ==
  /\ pc = "wait" /\ Expired
  /\ LeakProbe /\ Fail
  /\ UNCHANGED <<named, op, data, deadline>>

\* The enter hands the SQE to the kernel, once, and waits.
WaitEnters ==
  /\ pc = "wait" /\ ~Expired
  /\ op' = IF op = "queued" THEN "kernel" ELSE op
  /\ Go("waiting")
  /\ UNCHANGED <<file, named, buf, data, deadline>>

\* The enter fails otherwise than by a signal or a timeout.
WaitFails ==
  /\ pc = "wait" /\ ~Expired
  /\ LeakProbe /\ Fail
  /\ UNCHANGED <<named, op, data, deadline>>

\* A completion, EINTR, or ETIME: look for the completion, else wait again.
WaitReturns ==
  /\ pc = "waiting"
  /\ \/ op = "posted" /\ Go("check")
     \/ op # "posted" /\ Signals /\ Go("wait")
     \/ op # "posted" /\ ExtArg /\ deadline /\ Go("wait")
  /\ UNCHANGED probe

\* res == pattern.len() and buf == pattern.
DataMatches == data = "pattern"

CheckProbe ==
  /\ pc = "check"
  /\ buf' = "freed" /\ file' = "closed"
  /\ \/ data = "error" /\ Fail
     \/ data # "error" /\ ~DataMatches /\ Fail
     \/ data # "error" /\ DataMatches /\ Go("efd")
  /\ UNCHANGED <<named, op, data, deadline>>

\* External: the kernel completes the probe read, rightly or not.
KernelCompletes ==
  /\ op = "kernel"
  /\ op' = "posted" /\ data' \in {"pattern", "garbage", "error"}
  /\ UNCHANGED <<pc, shard, shards, file, named, buf, deadline>>

DeadlinePasses ==
  /\ pc \in {"wait", "waiting"} /\ ~deadline
  /\ deadline' = TRUE
  /\ UNCHANGED <<pc, shard, shards, file, named, buf, op, data>>

-------------------------------------------------------------------------------
\* Both eventfds, and the registration of one with the ring; the io-wq limit is
\* best effort and cannot fail the start.
NewEventFds ==
  /\ pc = "efd"
  /\ Go("admit") \/ Fail
  /\ UNCHANGED probe

\* admission.register(&sem)
RegisterCount ==
  /\ pc = "admit"
  /\ counts' = counts \cup {shard} /\ pc' = "spawn"
  /\ UNCHANGED <<shard, ring, thread, probe>>

\* The thread takes the ring and a reference to the byte admission.
SpawnThread ==
  /\ pc = "spawn"
  /\ \/ /\ thread' = [thread EXCEPT ![shard] = "running"]
        /\ shard' = shard + 1
        /\ pc' = IF shard + 1 = NShards THEN "ok" ELSE "ring"
        /\ UNCHANGED <<ring, counts>>
     \/ Fail
  /\ UNCHANGED probe

Running == {s \in Shards : thread[s] \in {"running", "asked"}}

\* Shard::drop of each started shard in turn: ask, then join.
JoinNext ==
  /\ pc = "cleanup"
  /\ \E s \in Running :
       /\ thread[s] = "running" /\ \A t \in Running : s <= t
       /\ thread' = [thread EXCEPT ![s] = "asked"]
  /\ UNCHANGED <<pc, shard, ring, counts, probe>>

\* A thread that was asked has nothing in flight: it exits and drops what it holds.
ThreadExits(s) ==
  /\ thread[s] = "asked"
  /\ thread' = [thread EXCEPT ![s] = "exited"]
  /\ ring' = [ring EXCEPT ![s] = "dropped"]
  /\ UNCHANGED <<pc, shard, counts, probe>>

\* Defect: the started shards are asked to stop, and detached.
Joined_asked == \A s \in Running : thread[s] = "asked"

Joined == Running = {}

\* `started` is gone, and with it the starter's own reference to the admission.
EndCleanup ==
  /\ pc = "cleanup" /\ Joined
  /\ pc' = "failed"
  /\ UNCHANGED <<shard, ring, thread, counts, probe>>

-------------------------------------------------------------------------------
Starter == \/ Reserve \/ NewRing \/ OpenProbeFile \/ WriteProbeFile \/ UnlinkProbeFile \/ PushProbe
           \/ WaitExpired \/ WaitEnters \/ WaitFails \/ WaitReturns \/ CheckProbe
           \/ NewEventFds \/ RegisterCount \/ SpawnThread \/ JoinNext \/ EndCleanup

Next == Starter \/ KernelCompletes \/ DeadlinePasses \/ \E s \in Shards : ThreadExits(s)

Spec == Init /\ [][Next]_vars

-------------------------------------------------------------------------------
\* The probe buffer and its file are never dropped while the kernel may still use
\* them, whatever ends the wait ("leak over UAF", probe_real_read).
ProbeBufferSafe == op = "kernel" => buf \in {"owned", "leaked"} /\ file \in {"open", "leaked"}

\* A driver is returned only after the probe brought the pattern back, with every
\* shard running on a ring of its own and registered with the admission, and the probe
\* file has no name left.
StartedIsUsable ==
  pc = "ok" => /\ data = "pattern" /\ counts = Shards /\ ~named
               /\ \A s \in Shards : ring[s] = "open" /\ thread[s] = "running"
===============================================================================
