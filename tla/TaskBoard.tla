------------------------------ MODULE TaskBoard ------------------------------
(***************************************************************************)
(* The queue the agents of a session share: every call takes the mutex of  *)
(* the list, so it is one step. It is also what a queue in a file promises *)
(* to the processes that share it (TaskLock).                              *)
(*                                                                         *)
(* Code: tools/src/builtin/task.rs, core/src/task.rs.                      *)
(***************************************************************************)
EXTENDS TaskQueue

VARIABLES
  tasks,  \* the list
  won     \* history: the ids of the successful claims, in order

vars == <<tasks, won>>

Init == tasks = Empty /\ won = << >>

CreateTask ==
  /\ Len(tasks) < MaxTasks
  /\ tasks' = Create(tasks)
  /\ UNCHANGED won

UpdateTask(id, c) ==
  /\ tasks' = Update(tasks, id, c)
  /\ UNCHANGED won

(* TaskClaim with a task_id.                                               *)
ClaimTask(agent, id) ==
  /\ id \in Available(tasks)
  /\ tasks' = Claim(tasks, id, agent)
  /\ won' = Append(won, id)

(* TaskClaim without one, and claim_task of the file.                      *)
ClaimNext(agent, id) == IsNext(tasks, id) /\ ClaimTask(agent, id)

TakeNext(agent, id) ==
  /\ IsNext(tasks, id)
  /\ tasks' = TakeOwner(tasks, id, agent)
  /\ won' = Append(won, id)

Step(agent) ==
  \/ CreateTask
  \/ \E id \in Ids, c \in Changes : UpdateTask(id, c)
  \/ \E id \in Ids : ClaimTask(agent, id) \/ ClaimNext(agent, id) \/ TakeNext(agent, id)

Next == \E agent \in Agents : Step(agent)

Spec == Init /\ [][Next]_vars

-----------------------------------------------------------------------------
(* Type: a list of well-formed tasks, claims of tasks on the list.         *)
TypeOK ==
  /\ tasks \in Seq(Task) /\ Len(tasks) <= MaxTasks
  /\ won \in Seq(Ids)

(* task.rs: two agents racing for a task cannot both win. No task is       *)
(* claimed twice, whatever updates other agents make in between.           *)
ClaimsExclusive == \A i, j \in DOMAIN won : won[i] = won[j] => i = j

(* A claimed task has an owner and is on the list: no call takes the owner *)
(* of a task away.                                                         *)
ClaimedOwned == \A i \in DOMAIN won : won[i] \in DOMAIN tasks /\ tasks[won[i]].owner # NoOne

(* An edge recorded on the blocker is recorded on the blocked task too, so *)
(* what a task says it blocks really waits for it.                         *)
EdgesBacked ==
  \A id \in DOMAIN tasks : \A other \in tasks[id].blocks :
    other \in DOMAIN tasks /\ id \in tasks[other].blocked_by

=============================================================================
