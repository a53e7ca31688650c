------------------------------- MODULE TaskLock -------------------------------
(***************************************************************************)
(* The queue in a file, for agents that are processes of their own: every  *)
(* mutation runs under an exclusive lock on a sibling file, reads the list *)
(* from the file, and replaces the file by renaming a temporary one.       *)
(*                                                                         *)
(* Code: team/src/task_lock.rs. A process may crash anywhere and start     *)
(* again, and any read or write may fail.                                  *)
(***************************************************************************)
EXTENDS TaskQueue

VARIABLES
  file,    \* the list the file holds
  tmp,     \* whose list the temporary file holds, "none" or "left" over
  holder,  \* who holds the lock, or NoOne
  pc,      \* where each process is in with_locked
  mem,     \* the list in its memory
  got,     \* the task its claim got, or 0
  won      \* history: the tasks claimed in the file, in order

vars == <<file, tmp, holder, pc, mem, got, won>>

Init ==
  /\ file = Empty /\ tmp = "none"
  /\ holder = NoOne
  /\ pc = [a \in Agents |-> "idle"]
  /\ mem = [a \in Agents |-> Empty]
  /\ got = [a \in Agents |-> 0]
  /\ won = << >>

Goes(a, place) == pc' = [pc EXCEPT ![a] = place]

Call(a) ==
  /\ pc[a] = "idle"
  /\ Goes(a, "lock")
  /\ UNCHANGED <<file, tmp, holder, mem, got, won>>

(* RwLock::write blocks until no process holds the lock.                   *)
LockTaken(a) == TRUE \* mutation of LockFree
LockFree(a) == holder = NoOne

Lock(a) ==
  /\ pc[a] = "lock" /\ LockFree(a)
  /\ holder' = a
  /\ Goes(a, "locked")
  /\ UNCHANGED <<file, tmp, mem, got, won>>

(* load_from_file, and the closure on the list it read.                    *)
Applied(a, list, id) ==
  /\ pc[a] = "locked"
  /\ mem' = [mem EXCEPT ![a] = list]
  /\ got' = [got EXCEPT ![a] = id]
  /\ Goes(a, "loaded")
  /\ UNCHANGED <<file, tmp, holder, won>>

LoadCreate(a) == Len(file) < MaxTasks /\ Applied(a, Create(file), 0)

LoadUpdate(a) == \E id \in Ids, c \in Changes : Applied(a, Update(file, id, c), 0)

LoadClaim(a) ==
  \E id \in Ids : id \in Available(file) /\ Applied(a, Claim(file, id, a), id)

LoadTake(a) ==
  \/ Available(file) = {} /\ Applied(a, file, 0)
  \/ \E id \in Ids : IsNext(file, id) /\ Applied(a, TakeOwner(file, id, a), id)

(* save_to_file: the temporary file is written, then renamed.              *)
WriteTmpUnlocked(a) == \* mutation of WriteTmp
  /\ pc[a] = "loaded" /\ tmp' = a /\ holder' = NoOne /\ Goes(a, "written")
  /\ UNCHANGED <<file, mem, got, won>>
WriteTmp(a) ==
  /\ pc[a] = "loaded"
  /\ tmp' = a
  /\ Goes(a, "written")
  /\ UNCHANGED <<file, holder, mem, got, won>>

Rename(a) ==
  /\ pc[a] = "written" /\ tmp \in Agents
  /\ file' = mem[tmp]
  /\ tmp' = "none"
  /\ won' = IF got[a] = 0 THEN won ELSE Append(won, got[a])
  /\ Goes(a, "saved")
  /\ UNCHANGED <<holder, mem, got>>

(* The call ends and drops the lock.                                       *)
Ends(a) ==
  /\ mem' = [mem EXCEPT ![a] = Empty]
  /\ got' = [got EXCEPT ![a] = 0]
  /\ holder' = IF holder = a THEN NoOne ELSE holder
  /\ Goes(a, "idle")
  /\ UNCHANGED <<file, won>>

Return(a) == pc[a] = "saved" /\ Ends(a) /\ UNCHANGED tmp

(* A read or write fails, or the process crashes and the system drops its  *)
(* lock: a temporary file may be left over, whole or in part.              *)
Abort(a) ==
  /\ pc[a] # "idle" /\ Ends(a)
  /\ \/ tmp' = IF tmp = a THEN "left" ELSE tmp
     \/ pc[a] = "loaded" /\ tmp' = "left"

Step(a) ==
  \/ Call(a) \/ Lock(a)
  \/ LoadCreate(a) \/ LoadUpdate(a) \/ LoadClaim(a) \/ LoadTake(a)
  \/ WriteTmp(a) \/ Rename(a) \/ Return(a) \/ Abort(a)

Next == \E a \in Agents : Step(a)

Spec == Init /\ [][Next]_vars

-----------------------------------------------------------------------------
Places == {"idle", "lock", "locked", "loaded", "written", "saved"}

(* Type: lists of well-formed tasks, one state per process.                *)
TypeOK ==
  /\ file \in Seq(Task) /\ won \in Seq(Ids)
  /\ mem \in [Agents -> Seq(Task)]
  /\ tmp \in Agents \cup {"none", "left"}
  /\ holder \in Agents \cup {NoOne}
  /\ pc \in [Agents -> Places]
  /\ got \in [Agents -> Ids \cup {0}]

(* Only the holder of the lock is past it, and what it renames is the      *)
(* temporary file it wrote: never another's, nor one left over by a crash. *)
OneWriter ==
  \A a \in Agents :
    /\ pc[a] \in {"locked", "loaded", "written", "saved"} => holder = a
    /\ pc[a] = "written" => tmp = a

(* task_lock.rs: a claim that returns a task has its owner set on disk,    *)
(* after every order of crashes and failed writes of other processes.      *)
ClaimOnDisk ==
  \A a \in Agents : pc[a] = "saved" /\ got[a] # 0 => file[got[a]].owner = a

(* Every rename of the file is one call on one shared list: the file is a  *)
(* TaskBoard, and no crash or error shows as anything but nothing.         *)
Board == INSTANCE TaskBoard WITH tasks <- file
IsTaskBoard == Board!Spec

(* No task in the file is claimed twice (TaskBoard).                       *)
ClaimsExclusive == Board!ClaimsExclusive

(* What a task says it blocks really waits for it (TaskBoard).             *)
EdgesBacked == Board!EdgesBacked

=============================================================================
