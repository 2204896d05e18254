------------------------------- MODULE BenchFile ------------------------------
(***************************************************************************)
(* The benchmark's file (ensure_file, create_file and open_read of         *)
(* src/examples/concurrent_pread_bench/linux.rs; streaming_bench has the   *)
(* same): made if the path is free, reused if it is right, and removed     *)
(* again if making it fails.  Several benchmark processes, and a user who  *)
(* puts a file of their own at the path, act on it at once.                *)
(***************************************************************************)
EXTENDS Integers, FiniteSets

CONSTANTS
    Procs,                \* benchmark processes
    Size,                 \* the file size asked for, in pieces written at once
    User, UserSize,       \* another program, the size of its file (one that is not
                          \* regular is refused like one of the wrong size)
    Crashes               \* processes that may be killed

VARIABLES
    path,                 \* the file at the path, named by its creator, or NoFile
    length,               \* per creator: how much of its file is written
    ensured,              \* per process: the file it found or made, or NoFile
    pc                    \* per process

vars == <<path, length, ensured, pc>>

NoFile == "none"
Creators == Procs \cup {User}

ASSUME BenchFileAssumption ==
  /\ Size \in Nat \ {0} /\ UserSize \in Nat
  /\ User \notin Procs /\ NoFile \notin Creators /\ Crashes \subseteq Procs

Init ==
  /\ path \in {NoFile, User}
  /\ length = [c \in Creators |-> IF c = User THEN UserSize ELSE 0]
  /\ ensured = [p \in Procs |-> NoFile]
  /\ pc = [p \in Procs |-> "stat"]

\* The user makes, or takes away, a file of their own, never over another.
UserMoves ==
  /\ \/ path = NoFile /\ path' = User
     \/ path = User /\ path' = NoFile
  /\ UNCHANGED <<length, ensured, pc>>

SizeMatches(f) == length[f] = Size

\* ensure_file: a wrong size is an error, a right one is reused, no file is made.
Stat(p) ==
  /\ pc[p] = "stat"
  /\ pc' = [pc EXCEPT ![p] = IF path = NoFile THEN "create"
                             ELSE IF SizeMatches(path) THEN "ensured" ELSE "refused"]
  /\ ensured' = IF pc'[p] = "ensured" THEN [ensured EXCEPT ![p] = path] ELSE ensured
  /\ UNCHANGED <<path, length>>


\* create_new: O_EXCL
Exclusive == TRUE

\* create_file opens the path: a file that is there is an error like any other.
Open(p) ==
  /\ pc[p] = "create"
  /\ pc' = [pc EXCEPT ![p] = IF path # NoFile /\ Exclusive THEN "remove" ELSE "write"]
  /\ path' = IF path = NoFile THEN p ELSE path
  /\ length' = IF path = NoFile \/ Exclusive THEN length ELSE [length EXCEPT ![path] = 0]
  /\ UNCHANGED ensured

\* write_all of a piece, or sync_all behind the last; either may fail.
Write(p) ==
  /\ pc[p] = "write"
  /\ \/ /\ length[p] < Size
        /\ length' = [length EXCEPT ![p] = @ + 1]
        /\ UNCHANGED <<ensured, pc>>
     \/ /\ length[p] = Size
        /\ pc' = [pc EXCEPT ![p] = "ensured"] /\ ensured' = [ensured EXCEPT ![p] = p]
        /\ UNCHANGED length
     \/ /\ pc' = [pc EXCEPT ![p] = "remove"]
        /\ UNCHANGED <<length, ensured>>
  /\ UNCHANGED path

Removed == NoFile

\* remove_file(path), whatever create_file failed with.
Remove(p) ==
  /\ pc[p] = "remove"
  /\ path' = Removed
  /\ pc' = [pc EXCEPT ![p] = "failed"]
  /\ UNCHANGED <<length, ensured>>

\* open_read
OpenRead(p) ==
  /\ pc[p] = "ensured"
  /\ pc' = [pc EXCEPT ![p] = IF path = NoFile THEN "refused" ELSE "reading"]
  /\ UNCHANGED <<path, length, ensured>>

Crash(p) ==
  /\ p \in Crashes /\ pc[p] \in {"stat", "create", "write", "remove", "ensured"}
  /\ pc' = [pc EXCEPT ![p] = "killed"]
  /\ UNCHANGED <<path, length, ensured>>

Run(p) == Stat(p) \/ Open(p) \/ Write(p) \/ Remove(p) \/ OpenRead(p)

Next == UserMoves \/ \E p \in Procs : Run(p) \/ Crash(p)

Spec == Init /\ [][Next]_vars

-------------------------------------------------------------------------------
\* "leave nothing behind": a process that failed has no file of its own at the path.
NothingLeftBehind == \A p \in Procs : pc[p] = "failed" => path # p

\* A benchmark never takes for its file one that another is still writing, or was killed
\* while writing: what it found or made has the size asked for, then and later.
EnsuredIsWhole == \A p \in Procs : ensured[p] # NoFile => length[ensured[p]] = Size


\* "An existing path is left untouched": no step of a benchmark takes away the user's file.
LeftUntouched == [][\A p \in Procs : Run(p) => (path = User => path' = User)]_vars
===============================================================================
