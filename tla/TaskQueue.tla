------------------------------ MODULE TaskQueue ------------------------------
(***************************************************************************)
(* The work queue: tasks with an owner and a dependency graph, and what    *)
(* each call on the queue does to it.                                      *)
(*                                                                         *)
(* Code: core/src/task.rs. A queue is the sequence of its tasks; the id of *)
(* a task is its position, as create counts ids from 1 and no task is ever *)
(* removed. Subjects and descriptions are left out.                        *)
(***************************************************************************)
EXTENDS Integers, Sequences

CONSTANTS
  Agents,    \* the owners a task may have
  NoOne,     \* owner: None
  MaxTasks,  \* bound on the tasks created
  Changes    \* the updates that are made, members of Change

Ids == 1 .. MaxTasks
Statuses == {"pending", "in_progress", "completed", "deleted"}
Task == [status : Statuses, owner : Agents \cup {NoOne},
         blocked_by : SUBSET Ids, blocks : SUBSET Ids]

(* The arguments of update: "same" and NoOne leave a field unchanged, and  *)
(* at most one edge is added in each direction.                            *)
Change == [status : Statuses \cup {"same"}, owner : Agents \cup {NoOne},
           add_blocked_by : Ids \cup {0}, add_blocks : Ids \cup {0}]

ASSUME TaskQueueAssumption ==
  /\ MaxTasks \in Nat \ {0}
  /\ NoOne \notin Agents
  /\ Changes \subseteq Change

Empty == << >>

Create(list) ==
  Append(list, [status |-> "pending", owner |-> NoOne, blocked_by |-> {}, blocks |-> {}])

(* get and get_mut see no deleted task.                                    *)
Has(list, id) == id \in DOMAIN list /\ list[id].status # "deleted"

IsBlocked(list, id) ==
  \E dep \in list[id].blocked_by : Has(list, dep) /\ list[dep].status # "completed"

IgnoresOwner(list) == \* mutation of Available
  {id \in DOMAIN list : list[id].status = "pending" /\ ~IsBlocked(list, id)}
Available(list) ==
  {id \in DOMAIN list :
     list[id].status = "pending" /\ list[id].owner = NoOne /\ ~IsBlocked(list, id)}

(* The first of available_tasks().                                         *)
IsNext(list, id) == id \in Available(list) /\ \A other \in Available(list) : id <= other

Delete(list, id) ==
  IF id \in DOMAIN list THEN [list EXCEPT ![id].status = "deleted"] ELSE list

OnlyOtherSide(list, id, dep) == \* mutation of AddBlockedBy
  IF Has(list, dep) THEN [list EXCEPT ![dep].blocks = @ \cup {id}] ELSE list
AddBlockedBy(list, id, dep) ==
  LET blocked == [list EXCEPT ![id].blocked_by = @ \cup {dep}]
  IN  IF ~Has(list, id) THEN list
      ELSE IF Has(list, dep) THEN [blocked EXCEPT ![dep].blocks = @ \cup {id}]
      ELSE blocked

SetsAbsent(list, id, c) == \* mutation of SetFields
  [list EXCEPT ![id].status = c.status, ![id].owner = c.owner]
SetFields(list, id, c) ==
  [list EXCEPT ![id].status = IF c.status = "same" THEN @ ELSE c.status,
               ![id].owner = IF c.owner = NoOne THEN @ ELSE c.owner]

Update(list, id, c) ==
  LET set == SetFields(list, id, c)
      up == IF c.add_blocked_by = 0 THEN set ELSE AddBlockedBy(set, id, c.add_blocked_by)
  IN  IF c.status = "deleted" THEN Delete(list, id)
      ELSE IF ~Has(list, id) THEN list
      ELSE IF c.add_blocks = 0 THEN up
      ELSE AddBlockedBy(up, c.add_blocks, id)

(* claim, for a task that is available.                                    *)
Claim(list, id, agent) ==
  [list EXCEPT ![id].owner = agent, ![id].status = "in_progress"]

(* The claim of task_lock.rs: an update of the owner alone.                *)
TakeOwner(list, id, agent) == [list EXCEPT ![id].owner = agent]

=============================================================================
