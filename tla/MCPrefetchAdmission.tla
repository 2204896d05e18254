-------------------------- MODULE MCPrefetchAdmission -------------------------
(***************************************************************************)
(* Small instances of PrefetchAdmission, one per scenario.  The reader     *)
(* shares its driver with another task, sees a shard fail, or has the      *)
(* driver shut down under it.  Without the reader three tasks compete, or  *)
(* two on a driver with a shard that fails; and a task meets a shutdown    *)
(* while a shard fails, or one by two threads.  A read or two take the     *)
(* whole byte budget, so that all wait for each other.                     *)
(***************************************************************************)
EXTENDS PrefetchAdmission

VARIABLE scenario

Foreign == {100, 101, 102}
AllReads == {0, 2, 4} \cup Foreign
Lengths == [r \in Reads |-> IF r \in {0, 2, 100, 102} THEN 2 ELSE 1]
Reader == [offset |-> 0, length |-> 5, chunk |-> 2, window |-> 2, max_bytes |-> 4]
Brief == [Reader EXCEPT !.length = 2]
NoReader == [Reader EXCEPT !.chunk = 0]
MCConfigs == {Reader, Brief, NoReader}

Scenario(cfg, others, fails, stoppers) ==
  [config |-> cfg, others |-> others, fails |-> fails, stoppers |-> stoppers]

Scenarios ==
  {Scenario(Reader, {100}, {}, {}), Scenario(Reader, {}, {0}, {}), Scenario(Brief, {}, {}, {200}),
   Scenario(NoReader, Foreign, {}, {}), Scenario(NoReader, {100, 101}, {0}, {}),
   Scenario(NoReader, {100}, {0}, {200}), Scenario(NoReader, {100}, {}, {200, 201})}

\* Who takes part in the scenario; another task reads before the reader does.
Bound ==
  /\ \A r \in Others : pc[r] # pc'[r] => r \in scenario.others
  /\ \A r \in Others : pc[r] = "idle" /\ pc'[r] # "idle" => next_offset = 0
  /\ \A s \in Shards : thread[s] = "running" /\ thread'[s] = "draining" => s \in scenario.fails
  /\ \A c \in Stoppers : closer[c] # closer'[c] => c \in scenario.stoppers
  /\ UNCHANGED scenario

MCvars == <<allvars, scenario>>
MCInit == PrefetchInit /\ scenario \in Scenarios /\ config = scenario.config
MCNext == PrefetchNext /\ Bound

MCSpec ==
  /\ MCInit /\ [][MCNext]_MCvars
  /\ WF_MCvars(Consumer /\ Bound) /\ WF_MCvars(OthersPoll /\ Bound)
  /\ WF_MCvars(Reading /\ Bound) /\ WF_MCvars(Stopping /\ Bound)
===============================================================================
