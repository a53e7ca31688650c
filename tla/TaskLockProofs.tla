---------------------------- MODULE TaskLockProofs ----------------------------
(***************************************************************************)
(* The shared queue for every set of agents, every number of tasks and     *)
(* every set of updates (types, exclusive claims, backed edges), and the   *)
(* queue in a file, which implements it for every number of processes:     *)
(* each rename is one call of TaskBoard on the list in the file, and every *)
(* other step, failure and crash is a stutter.                             *)
(*                                                                         *)
(* A claim is exclusive because it takes only an unowned task and because  *)
(* no call takes an owner away: ClaimedOwned is the strengthening. The     *)
(* invariant of the file: one process is past the lock, the temporary file *)
(* is its own when it renames it, and its memory is the result of a call   *)
(* on the list the file still holds.                                       *)
(***************************************************************************)
EXTENDS TaskLock, TLAPS

-----------------------------------------------------------------------------
(* The calls on a list.                                                    *)

(* new is a list with the tasks of list, in which no task lost its owner   *)
(* and no edge its backing.                                                *)
Extends(list, new) ==
  /\ new \in Seq(Task) /\ Len(new) = Len(list)
  /\ \A id \in DOMAIN list : list[id].owner # NoOne => new[id].owner # NoOne

Backed(list) ==
  \A id \in DOMAIN list : \A other \in list[id].blocks :
    other \in DOMAIN list /\ id \in list[other].blocked_by

(* A function on the positions of a list that yields tasks is a list.      *)
LEMMA IsList ==
  ASSUME NEW list \in Seq(Task), NEW new \in [DOMAIN list -> Task]
  PROVE  new \in Seq(Task) /\ Len(new) = Len(list) /\ DOMAIN new = DOMAIN list
<1>1. DOMAIN list = 1 .. Len(list) /\ Len(list) \in Nat
  OBVIOUS
<1> QED BY <1>1

(* Overwriting the fields of one task.                                     *)
LEMMA OneTask ==
  ASSUME NEW list \in Seq(Task), NEW id \in DOMAIN list, NEW task \in Task,
         list[id].owner # NoOne => task.owner # NoOne
  PROVE  Extends(list, [list EXCEPT ![id] = task])
<1> DEFINE new == [list EXCEPT ![id] = task]
<1>1. \A k \in DOMAIN list : list[k] \in Task
  OBVIOUS
<1>2. new \in [DOMAIN list -> Task]
  BY <1>1
<1>3. new \in Seq(Task) /\ Len(new) = Len(list)
  BY <1>2, IsList
<1>4. \A k \in DOMAIN list : list[k].owner # NoOne => new[k].owner # NoOne
  OBVIOUS
<1> QED BY <1>3, <1>4 DEF Extends

LEMMA ExtendsTransitive ==
  ASSUME NEW a \in Seq(Task), NEW b, NEW c, Extends(a, b), Extends(b, c)
  PROVE  Extends(a, c)
BY DEF Extends

LEMMA ExtendsSame == ASSUME NEW list \in Seq(Task) PROVE Extends(list, list)
BY DEF Extends

(* The calls that overwrite one task.                                      *)
LEMMA DeleteExtends ==
  ASSUME NEW list \in Seq(Task), NEW id \in Ids
  PROVE  Extends(list, Delete(list, id)) /\ (Backed(list) => Backed(Delete(list, id)))
<1>1. CASE id \notin DOMAIN list
  BY <1>1, ExtendsSame DEF Delete
<1>2. CASE id \in DOMAIN list
  <2> DEFINE task == [list[id] EXCEPT !.status = "deleted"]
             new == [list EXCEPT ![id] = task]
  <2>1. list[id] \in Task
    BY <1>2
  <2>2. task \in Task /\ task.owner = list[id].owner
        /\ task.blocks = list[id].blocks /\ task.blocked_by = list[id].blocked_by
    BY <2>1 DEF Task, Statuses
  <2>3. Delete(list, id) = new
    BY <1>2 DEF Delete
  <2>4. Extends(list, new)
    BY <1>2, <2>2, OneTask
  <2>5. DOMAIN new = DOMAIN list
        /\ \A k \in DOMAIN list : new[k].blocks = list[k].blocks
                                  /\ new[k].blocked_by = list[k].blocked_by
    BY <2>2
  <2>6. Backed(list) => Backed(new)
    BY <2>5 DEF Backed
  <2> QED BY <2>3, <2>4, <2>6
<1> QED BY <1>1, <1>2

LEMMA SetFieldsExtends ==
  ASSUME NEW list \in Seq(Task), NEW id \in DOMAIN list, NEW c \in Change,
         c.status # "deleted"
  PROVE  /\ Extends(list, SetFields(list, id, c))
         /\ Backed(list) => Backed(SetFields(list, id, c))
<1> DEFINE status == IF c.status = "same" THEN list[id].status ELSE c.status
           owner == IF c.owner = NoOne THEN list[id].owner ELSE c.owner
           task == [list[id] EXCEPT !.status = status, !.owner = owner]
           new == [list EXCEPT ![id] = task]
<1>1. list[id] \in Task
  OBVIOUS
<1>2. status \in Statuses /\ owner \in Agents \cup {NoOne}
      /\ (list[id].owner # NoOne => owner # NoOne)
  BY <1>1 DEF Change, Task
<1>3. task \in Task /\ task.owner = owner
      /\ task.blocks = list[id].blocks /\ task.blocked_by = list[id].blocked_by
  BY <1>1, <1>2 DEF Task
<1>4. SetFields(list, id, c) = new
  BY DEF SetFields
<1>5. Extends(list, new)
  BY <1>2, <1>3, OneTask
<1>6. DOMAIN new = DOMAIN list
      /\ \A k \in DOMAIN list : new[k].blocks = list[k].blocks
                                /\ new[k].blocked_by = list[k].blocked_by
  BY <1>3
<1>7. Backed(list) => Backed(new)
  BY <1>6 DEF Backed
<1> QED BY <1>4, <1>5, <1>7

LEMMA AddBlockedByExtends ==
  ASSUME NEW list \in Seq(Task), NEW id \in Ids, NEW dep \in Ids
  PROVE  /\ Extends(list, AddBlockedBy(list, id, dep))
         /\ Backed(list) => Backed(AddBlockedBy(list, id, dep))
<1>1. CASE ~Has(list, id)
  BY <1>1, ExtendsSame DEF AddBlockedBy
<1>2. CASE Has(list, id)
  <2> DEFINE task == [list[id] EXCEPT !.blocked_by = @ \cup {dep}]
             blocked == [list EXCEPT ![id] = task]
  <2>1. id \in DOMAIN list /\ list[id] \in Task
    BY <1>2 DEF Has
  <2>2. task \in Task /\ task.owner = list[id].owner /\ task.blocks = list[id].blocks
        /\ task.blocked_by = list[id].blocked_by \cup {dep}
    BY <2>1 DEF Task
  <2>3. Extends(list, blocked)
    BY <2>1, <2>2, OneTask
  <2>4. blocked \in Seq(Task) /\ DOMAIN blocked = DOMAIN list
    BY <2>3 DEF Extends
  <2>5. \A k \in DOMAIN list : blocked[k].blocks = list[k].blocks
                               /\ list[k].blocked_by \subseteq blocked[k].blocked_by
    BY <2>2
  <2>6. dep \in blocked[id].blocked_by
    BY <2>1, <2>2
  <2>7. Backed(list) => Backed(blocked)
    BY <2>4, <2>5 DEF Backed
  <2>8. CASE ~Has(list, dep)
    <3>1. AddBlockedBy(list, id, dep) = blocked
      BY <1>2, <2>8 DEF AddBlockedBy
    <3> QED BY <3>1, <2>3, <2>7
  <2>9. CASE Has(list, dep)
    <3> DEFINE blocker == [blocked[dep] EXCEPT !.blocks = @ \cup {id}]
               new == [blocked EXCEPT ![dep] = blocker]
    <3>1. AddBlockedBy(list, id, dep) = new
      BY <1>2, <2>9 DEF AddBlockedBy
    <3>2. dep \in DOMAIN blocked /\ blocked[dep] \in Task
      BY <2>4, <2>9 DEF Has
    <3>3. blocker \in Task /\ blocker.owner = blocked[dep].owner
          /\ blocker.blocks = blocked[dep].blocks \cup {id}
          /\ blocker.blocked_by = blocked[dep].blocked_by
      BY <3>2 DEF Task
    <3>4. Extends(blocked, new)
      BY <2>4, <3>2, <3>3, OneTask
    <3>5. Extends(list, new)
      BY <2>3, <2>4, <3>4, ExtendsTransitive
    <3>6. DOMAIN new = DOMAIN blocked
          /\ \A k \in DOMAIN blocked :
               /\ new[k].blocked_by = blocked[k].blocked_by
               /\ new[k].blocks \subseteq blocked[k].blocks \cup (IF k = dep THEN {id} ELSE {})
      BY <3>3
    <3>7. ASSUME Backed(list) PROVE Backed(new)
      <4> HIDE DEF new, blocked
      <4>1. Backed(blocked) /\ DOMAIN new = DOMAIN list
        BY <2>4, <2>7, <3>6, <3>7
      <4>2. ASSUME NEW k \in DOMAIN list, NEW other \in new[k].blocks
            PROVE  other \in DOMAIN list /\ k \in new[other].blocked_by
        <5>1. CASE other \in blocked[k].blocks
          BY <2>4, <3>6, <4>1, <5>1 DEF Backed
        <5>2. CASE other \notin blocked[k].blocks
          <6>1. k = dep /\ other = id
            BY <2>4, <3>6, <4>2, <5>2
          <6> QED BY <2>1, <2>4, <2>6, <3>6, <6>1
        <5> QED BY <5>1, <5>2
      <4> QED BY <4>1, <4>2 DEF Backed
    <3> QED BY <3>1, <3>5, <3>7
  <2> QED BY <2>8, <2>9
<1> QED BY <1>1, <1>2

LEMMA UpdateExtends ==
  ASSUME NEW list \in Seq(Task), NEW id \in Ids, NEW c \in Change
  PROVE  /\ Extends(list, Update(list, id, c))
         /\ Backed(list) => Backed(Update(list, id, c))
<1> DEFINE set == SetFields(list, id, c)
           up == IF c.add_blocked_by = 0 THEN set ELSE AddBlockedBy(set, id, c.add_blocked_by)
           new == IF c.add_blocks = 0 THEN up ELSE AddBlockedBy(up, c.add_blocks, id)
<1>1. CASE c.status = "deleted"
  BY <1>1, DeleteExtends DEF Update
<1>2. CASE c.status # "deleted" /\ ~Has(list, id)
  BY <1>2, ExtendsSame DEF Update
<1>3. CASE c.status # "deleted" /\ Has(list, id)
  <2>1. id \in DOMAIN list /\ c.add_blocked_by \in Ids \cup {0} /\ c.add_blocks \in Ids \cup {0}
    BY <1>3 DEF Has, Change
  <2>2. Extends(list, set) /\ (Backed(list) => Backed(set))
    BY <1>3, <2>1, SetFieldsExtends
  <2>3. set \in Seq(Task)
    BY <2>2 DEF Extends
  <2>4. Extends(set, up) /\ (Backed(set) => Backed(up))
    BY <2>1, <2>3, ExtendsSame, AddBlockedByExtends
  <2>5. up \in Seq(Task)
    BY <2>4 DEF Extends
  <2>6. Extends(up, new) /\ (Backed(up) => Backed(new))
    BY <2>1, <2>5, ExtendsSame, AddBlockedByExtends
  <2>7. Update(list, id, c) = new
    BY <1>3 DEF Update
  <2>8. Extends(list, up)
    BY <2>2, <2>3, <2>4, ExtendsTransitive
  <2>9. Extends(list, new)
    BY <2>5, <2>6, <2>8, ExtendsTransitive
  <2> QED BY <2>2, <2>4, <2>6, <2>7, <2>9
<1> QED BY <1>1, <1>2, <1>3

(* A claim, of either kind, gives an available task its first owner.       *)
LEMMA ClaimExtends ==
  ASSUME NEW list \in Seq(Task), NEW id \in Available(list), NEW agent \in Agents,
         NEW new \in {Claim(list, id, agent), TakeOwner(list, id, agent)}
  PROVE  /\ Extends(list, new) /\ new[id].owner = agent
         /\ Backed(list) => Backed(new)
<1> DEFINE claimed == [list[id] EXCEPT !.owner = agent, !.status = "in_progress"]
           owned == [list[id] EXCEPT !.owner = agent]
           Result(task) == [list EXCEPT ![id] = task]
<1>1. id \in DOMAIN list /\ list[id] \in Task
  BY DEF Available
<1>2. \A task \in {claimed, owned} :
        /\ task \in Task /\ task.owner = agent
        /\ task.blocks = list[id].blocks /\ task.blocked_by = list[id].blocked_by
  BY <1>1 DEF Task, Statuses
<1>3. PICK task \in {claimed, owned} : new = Result(task)
  BY DEF Claim, TakeOwner
<1>4. agent # NoOne
  BY TaskQueueAssumption
<1>5. Extends(list, new)
  BY <1>1, <1>2, <1>3, <1>4, OneTask
<1>6. new[id].owner = agent
  BY <1>1, <1>2, <1>3
<1>7. DOMAIN new = DOMAIN list
      /\ \A k \in DOMAIN list : new[k].blocks = list[k].blocks
                                /\ new[k].blocked_by = list[k].blocked_by
  BY <1>2, <1>3
<1>8. Backed(list) => Backed(new)
  BY <1>7 DEF Backed
<1> QED BY <1>5, <1>6, <1>8

LEMMA CreateExtends ==
  ASSUME NEW list \in Seq(Task)
  PROVE  /\ Create(list) \in Seq(Task) /\ Len(Create(list)) = Len(list) + 1
         /\ \A id \in DOMAIN list : Create(list)[id] = list[id]
         /\ Backed(list) => Backed(Create(list))
<1> DEFINE task == [status |-> "pending", owner |-> NoOne, blocked_by |-> {}, blocks |-> {}]
           new == Append(list, task)
<1>1. task \in Task /\ task.blocks = {}
  BY DEF Task, Statuses
<1>2. new \in Seq(Task) /\ Len(new) = Len(list) + 1 /\ new[Len(list) + 1] = task
      /\ \A id \in DOMAIN list : new[id] = list[id]
  BY <1>1
<1>3. DOMAIN new = 1 .. Len(list) + 1 /\ DOMAIN list = 1 .. Len(list) /\ Len(list) \in Nat
  BY <1>2
<1>4. ASSUME Backed(list), NEW id \in DOMAIN new, NEW other \in new[id].blocks
      PROVE  other \in DOMAIN new /\ id \in new[other].blocked_by
  <2> HIDE DEF new, task
  <2>1. id # Len(list) + 1
    BY <1>1, <1>2, <1>4
  <2>2. id \in DOMAIN list /\ new[id] = list[id]
    BY <1>2, <1>3, <2>1
  <2>3. other \in DOMAIN list /\ id \in list[other].blocked_by
    BY <1>4, <2>2 DEF Backed
  <2> QED BY <1>2, <1>3, <2>3
<1>5. Backed(list) => Backed(new)
  BY <1>4 DEF Backed
<1>6. Create(list) = new
  BY DEF Create
<1> QED BY <1>2, <1>5, <1>6

-----------------------------------------------------------------------------
(* The shared queue.                                                       *)

(* The operators of the shared queue are those of the file's.              *)
LEMMA SameOperators ==
  ASSUME NEW list, NEW id, NEW c, NEW agent
  PROVE  /\ Board!Empty = Empty /\ Board!Ids = Ids /\ Board!Task = Task
         /\ Board!Create(list) = Create(list)
         /\ Board!Update(list, id, c) = Update(list, id, c)
         /\ Board!Available(list) = Available(list)
         /\ Board!IsNext(list, id) <=> IsNext(list, id)
         /\ Board!Claim(list, id, agent) = Claim(list, id, agent)
         /\ Board!TakeOwner(list, id, agent) = TakeOwner(list, id, agent)
BY DEF Empty, Ids, Task, Statuses, Create, Update, Available, IsNext, Claim, TakeOwner,
       Has, IsBlocked, Delete, AddBlockedBy, SetFields,
       Board!Empty, Board!Ids, Board!Task, Board!Statuses, Board!Create, Board!Update,
       Board!Available, Board!IsNext, Board!Claim, Board!TakeOwner, Board!Has,
       Board!IsBlocked, Board!Delete, Board!AddBlockedBy, Board!SetFields

BoardInv ==
  /\ file \in Seq(Task) /\ Len(file) <= MaxTasks /\ won \in Seq(Ids)
  /\ Board!ClaimsExclusive /\ Board!ClaimedOwned

(* What a call on the shared queue does to the list and the claims.        *)
LEMMA BoardCalls ==
  ASSUME Board!Next
  PROVE  \/ Len(file) < MaxTasks /\ file' = Create(file) /\ UNCHANGED won
         \/ \E id \in Ids, c \in Changes : file' = Update(file, id, c) /\ UNCHANGED won
         \/ \E id \in Available(file), agent \in Agents :
              /\ file' \in {Claim(file, id, agent), TakeOwner(file, id, agent)}
              /\ won' = Append(won, id)
<1> PICK agent \in Agents : Board!Step(agent)
  BY DEF Board!Next
<1>1. CASE Board!CreateTask
  BY <1>1, SameOperators DEF Board!CreateTask
<1>2. ASSUME NEW id \in Ids, NEW c \in Changes, Board!UpdateTask(id, c)
      PROVE  file' = Update(file, id, c) /\ UNCHANGED won
  BY <1>2, SameOperators DEF Board!UpdateTask
<1>3. ASSUME NEW id \in Ids, Board!ClaimTask(agent, id)
      PROVE  id \in Available(file) /\ file' = Claim(file, id, agent) /\ won' = Append(won, id)
  BY <1>3, SameOperators DEF Board!ClaimTask
<1>4. ASSUME NEW id \in Ids, Board!TakeNext(agent, id)
      PROVE  id \in Available(file) /\ file' = TakeOwner(file, id, agent) /\ won' = Append(won, id)
  BY <1>4, SameOperators DEF Board!TakeNext, IsNext
<1>5. Board!Ids = Ids
  BY SameOperators
<1> QED BY <1>1, <1>2, <1>3, <1>4, <1>5 DEF Board!Step, Board!ClaimNext

(* A step that keeps owners and claims nothing keeps the invariant.        *)
LEMMA QuietStep ==
  ASSUME BoardInv, Extends(file, file'), UNCHANGED won
  PROVE  BoardInv'
<1>1. file' \in Seq(Task) /\ Len(file') = Len(file) /\ DOMAIN file' = DOMAIN file
  BY DEF BoardInv, Extends
<1>2. Board!ClaimsExclusive'
  BY DEF BoardInv, Board!ClaimsExclusive
<1>3. Board!ClaimedOwned'
  BY <1>1 DEF BoardInv, Board!ClaimedOwned, Extends
<1> QED BY <1>1, <1>2, <1>3 DEF BoardInv

(* A claim of an unowned task adds an id that was not claimed before.      *)
LEMMA ClaimStep ==
  ASSUME BoardInv, NEW agent \in Agents, NEW id \in Available(file),
         file' \in {Claim(file, id, agent), TakeOwner(file, id, agent)},
         won' = Append(won, id)
  PROVE  BoardInv'
<1>1. file \in Seq(Task) /\ won \in Seq(Ids) /\ Len(file) <= MaxTasks
  BY DEF BoardInv
<1>2. Extends(file, file') /\ file'[id].owner = agent
  BY <1>1, ClaimExtends
<1>3. file' \in Seq(Task) /\ Len(file') = Len(file) /\ DOMAIN file' = DOMAIN file
  BY <1>1, <1>2 DEF Extends
<1>4. id \in DOMAIN file /\ file[id].owner = NoOne /\ id \in Ids
  BY <1>1, TaskQueueAssumption DEF Available, Ids
<1>5. won' \in Seq(Ids) /\ Len(won') = Len(won) + 1 /\ won'[Len(won) + 1] = id
      /\ \A i \in 1 .. Len(won) : won'[i] = won[i]
  BY <1>1, <1>4
<1>6. \A i \in 1 .. Len(won) : won[i] # id
  BY <1>1, <1>4 DEF BoardInv, Board!ClaimedOwned
<1>7. Board!ClaimsExclusive'
  BY <1>1, <1>5, <1>6 DEF BoardInv, Board!ClaimsExclusive
<1>8. agent # NoOne
  BY TaskQueueAssumption
<1>9. Board!ClaimedOwned'
  <2> SUFFICES ASSUME NEW i \in DOMAIN won'
               PROVE  won'[i] \in DOMAIN file' /\ file'[won'[i]].owner # NoOne
    BY DEF Board!ClaimedOwned
  <2>1. CASE i = Len(won) + 1
    BY <1>2, <1>3, <1>4, <1>5, <1>8, <2>1
  <2>2. CASE i # Len(won) + 1
    <3>1. i \in DOMAIN won /\ won'[i] = won[i]
      BY <1>1, <1>5, <2>2
    <3>2. won[i] \in DOMAIN file /\ file[won[i]].owner # NoOne
      BY <3>1 DEF BoardInv, Board!ClaimedOwned
    <3> QED BY <1>2, <1>3, <3>1, <3>2 DEF Extends
  <2> QED BY <2>1, <2>2
<1> QED BY <1>1, <1>3, <1>5, <1>7, <1>9 DEF BoardInv

(* Every call on the shared list keeps types, exclusive claims and owners. *)
THEOREM BoardInvariant == Board!Spec => []BoardInv
<1>1. Board!Init => BoardInv
  BY TaskQueueAssumption
     DEF Board!Init, BoardInv, Board!ClaimsExclusive, Board!ClaimedOwned, Board!Empty
<1>2. ASSUME BoardInv, [Board!Next]_(Board!vars) PROVE BoardInv'
  <2>1. file \in Seq(Task) /\ won \in Seq(Ids) /\ Len(file) <= MaxTasks
    BY <1>2 DEF BoardInv
  <2>2. CASE Len(file) < MaxTasks /\ file' = Create(file) /\ UNCHANGED won
    <3>1. file' \in Seq(Task) /\ Len(file') = Len(file) + 1
          /\ \A id \in DOMAIN file : file'[id] = file[id]
      BY <2>1, <2>2, CreateExtends
    <3>2. Len(file') <= MaxTasks
      BY <2>1, <2>2, <3>1, TaskQueueAssumption
    <3>3. Board!ClaimsExclusive'
      BY <1>2, <2>2 DEF BoardInv, Board!ClaimsExclusive
    <3>4. Board!ClaimedOwned'
      BY <1>2, <2>1, <2>2, <3>1 DEF BoardInv, Board!ClaimedOwned
    <3> QED BY <2>1, <2>2, <3>1, <3>2, <3>3, <3>4 DEF BoardInv
  <2>3. ASSUME NEW id \in Ids, NEW c \in Changes,
               file' = Update(file, id, c), UNCHANGED won
        PROVE  BoardInv'
    <3>1. Extends(file, file')
      BY <2>1, <2>3, UpdateExtends, TaskQueueAssumption
    <3> QED BY <1>2, <2>3, <3>1, QuietStep
  <2>4. CASE UNCHANGED Board!vars
    BY <1>2, <2>1, <2>4, ExtendsSame, QuietStep DEF Board!vars
  <2> QED BY <1>2, <2>2, <2>3, <2>4, BoardCalls, ClaimStep
<1> QED BY <1>1, <1>2, PTL DEF Board!Spec

(* No task is ever claimed twice, for every number of agents and tasks and *)
(* every order of claims and updates.                                      *)
THEOREM ClaimsExclusiveHolds == Board!Spec => []ClaimsExclusive
<1>1. BoardInv => ClaimsExclusive
  BY DEF BoardInv, ClaimsExclusive
<1> QED BY <1>1, BoardInvariant, PTL

(* Every edge recorded on a blocker is recorded on the blocked task.       *)
THEOREM EdgesBackedHolds == Board!Spec => []EdgesBacked
<1>1. Board!Init => Backed(file)
  BY DEF Board!Init, Board!Empty, Backed
<1>2. ASSUME BoardInv, Backed(file), [Board!Next]_(Board!vars) PROVE Backed(file')
  <2>1. file \in Seq(Task)
    BY <1>2 DEF BoardInv
  <2>2. CASE file' = Create(file)
    BY <1>2, <2>1, <2>2, CreateExtends
  <2>3. ASSUME NEW id \in Ids, NEW c \in Changes, file' = Update(file, id, c)
        PROVE  Backed(file')
    BY <1>2, <2>1, <2>3, UpdateExtends, TaskQueueAssumption
  <2>4. ASSUME NEW id \in Available(file), NEW agent \in Agents,
               file' \in {Claim(file, id, agent), TakeOwner(file, id, agent)}
        PROVE  Backed(file')
    BY <1>2, <2>1, <2>4, ClaimExtends
  <2>5. CASE UNCHANGED Board!vars
    BY <1>2, <2>5 DEF Board!vars
  <2> QED BY <1>2, <2>2, <2>3, <2>4, <2>5, BoardCalls
<1>3. Board!Init => EdgesBacked
  BY <1>1 DEF Backed, EdgesBacked, Board!EdgesBacked
<1>4. BoardInv /\ EdgesBacked /\ [Board!Next]_(Board!vars) => EdgesBacked'
  BY <1>2 DEF Backed, EdgesBacked, Board!EdgesBacked
<1> QED BY <1>3, <1>4, BoardInvariant, PTL DEF Board!Spec

-----------------------------------------------------------------------------
(* The queue in the file.                                                  *)

(* Types, the contents of the memory apart: it is a function.              *)
Shape ==
  /\ pc \in [Agents -> Places]
  /\ mem \in [Agents -> {mem[a] : a \in Agents}]
  /\ got \in [Agents -> Ids \cup {0}]
  /\ tmp \in Agents \cup {"none", "left"}

(* list and id are what a call of a makes of the file and of its claim.    *)
IsResult(a, list, id) ==
  \/ id = 0 /\ Len(file) < MaxTasks /\ list = Create(file)
  \/ id = 0 /\ \E t \in Ids, c \in Changes : list = Update(file, t, c)
  \/ id = 0 /\ list = file
  \/ id \in Ids \cap Available(file) /\ list = Claim(file, id, a)
  \/ id \in Ids /\ IsNext(file, id) /\ list = TakeOwner(file, id, a)

Outcome(a) == IsResult(a, mem[a], got[a])

InMemory == \A a \in Agents : pc[a] \in {"loaded", "written"} => Outcome(a)

LockInv == Shape /\ OneWriter /\ InMemory

LEMMA Initially == Init => LockInv
BY DEF Init, LockInv, Shape, OneWriter, InMemory, Places

(* Steps that leave the file alone and move one process.                   *)
LEMMA CallKeeps == ASSUME LockInv, NEW a \in Agents, Call(a) PROVE LockInv'
BY DEF Call, Goes, LockInv, Shape, Places, OneWriter, InMemory, Outcome, IsResult

LEMMA LockKeeps == ASSUME LockInv, NEW a \in Agents, Lock(a) PROVE LockInv'
BY TaskQueueAssumption DEF Lock, LockFree, Goes, LockInv, Shape, Places, OneWriter, InMemory, Outcome, IsResult

LEMMA WriteKeeps == ASSUME LockInv, NEW a \in Agents, WriteTmp(a) PROVE LockInv'
BY DEF WriteTmp, Goes, LockInv, Shape, Places, OneWriter, InMemory, Outcome, IsResult

LEMMA EndsKeeps ==
  ASSUME LockInv, NEW a \in Agents, Ends(a), tmp' \in {tmp, "left"},
         tmp' # tmp => tmp = a \/ pc[a] = "loaded"
  PROVE  LockInv'
BY DEF Ends, Goes, LockInv, Shape, Places, OneWriter, InMemory, Outcome, IsResult

(* The steps that apply a call to the list they read under the lock.       *)
LEMMA AppliedKeeps ==
  ASSUME LockInv, NEW a \in Agents, NEW list, NEW id \in Ids \cup {0},
         Applied(a, list, id), IsResult(a, list, id)
  PROVE  LockInv'
<1>1. /\ mem'[a] = list /\ got'[a] = id
      /\ \A b \in Agents \ {a} : mem'[b] = mem[b] /\ got'[b] = got[b] /\ pc'[b] = pc[b]
      /\ pc' = [pc EXCEPT ![a] = "loaded"] /\ pc[a] = "locked"
      /\ UNCHANGED <<file, tmp, holder>>
  BY DEF Applied, Goes, LockInv, Shape
<1>2. Shape'
  BY <1>1 DEF Applied, LockInv, Shape, Places
<1>3. OneWriter'
  BY <1>1 DEF LockInv, Shape, OneWriter
<1>4. Outcome(a)'
  BY <1>1 DEF Outcome, IsResult
<1>5. InMemory'
  <2> SUFFICES ASSUME NEW b \in Agents, pc'[b] \in {"loaded", "written"}, b # a
               PROVE  Outcome(b)'
    BY <1>4 DEF InMemory
  <2>1. Outcome(b)
    BY <1>1 DEF LockInv, InMemory
  <2> QED BY <1>1, <2>1 DEF Outcome, IsResult
<1> QED BY <1>2, <1>3, <1>5 DEF LockInv

LEMMA LoadKeeps ==
  ASSUME LockInv, NEW a \in Agents,
         LoadCreate(a) \/ LoadUpdate(a) \/ LoadClaim(a) \/ LoadTake(a)
  PROVE  LockInv'
<1>1. CASE LoadCreate(a)
  BY <1>1, AppliedKeeps DEF LoadCreate, IsResult
<1>2. CASE LoadUpdate(a)
  BY <1>2, AppliedKeeps DEF LoadUpdate, IsResult
<1>3. CASE LoadClaim(a)
  BY <1>3, AppliedKeeps DEF LoadClaim, IsResult
<1>4. CASE LoadTake(a)
  BY <1>4, AppliedKeeps DEF LoadTake, IsResult
<1> QED BY <1>1, <1>2, <1>3, <1>4

(* The rename changes the file, and only its caller is past the lock.      *)
LEMMA RenameKeeps == ASSUME LockInv, NEW a \in Agents, Rename(a) PROVE LockInv'
<1>1. Shape' /\ OneWriter'
  BY DEF Rename, Goes, LockInv, Shape, Places, OneWriter
<1>2. \A b \in Agents : pc'[b] \notin {"loaded", "written"}
  BY TaskQueueAssumption DEF Rename, Goes, LockInv, Shape, OneWriter
<1> QED BY <1>1, <1>2 DEF LockInv, InMemory

THEOREM LockInvariant == Spec => []LockInv
<1>1. ASSUME LockInv, [Next]_vars PROVE LockInv'
  <2>1. ASSUME NEW a \in Agents, Step(a) PROVE LockInv'
    <3>1. CASE Return(a)
      BY <1>1, <3>1, EndsKeeps DEF Return
    <3>2. CASE Abort(a)
      BY <1>1, <3>2, EndsKeeps DEF Abort
    <3> QED BY <1>1, <2>1, <3>1, <3>2, CallKeeps, LockKeeps, LoadKeeps, WriteKeeps,
               RenameKeeps DEF Step
  <2>2. CASE UNCHANGED vars
    BY <1>1, <2>2 DEF vars, LockInv, Shape, OneWriter, InMemory, Outcome, IsResult
  <2> QED BY <1>1, <2>1, <2>2 DEF Next
<1> QED BY <1>1, Initially, PTL DEF Spec

(* Only the holder of the lock is past it, and it renames its own file.    *)
THEOREM OneWriterHolds == Spec => []OneWriter
<1>1. LockInv => OneWriter
  BY DEF LockInv
<1> QED BY <1>1, LockInvariant, PTL

(* A rename is one call of the shared queue.                               *)
LEMMA RenameIsCall ==
  ASSUME LockInv, NEW a \in Agents, Rename(a)
  PROVE  [Board!Next]_(Board!vars)
<1>1. tmp = a /\ file' = mem[a] /\ Outcome(a)
      /\ won' = IF got[a] = 0 THEN won ELSE Append(won, got[a])
  BY DEF Rename, LockInv, OneWriter, InMemory
<1>2. CASE got[a] = 0 /\ Len(file) < MaxTasks /\ mem[a] = Create(file)
  BY <1>1, <1>2, SameOperators DEF Board!Next, Board!Step, Board!CreateTask
<1>3. CASE got[a] = 0 /\ \E id \in Ids, c \in Changes : mem[a] = Update(file, id, c)
  BY <1>1, <1>3, SameOperators DEF Board!Next, Board!Step, Board!UpdateTask
<1>4. CASE got[a] = 0 /\ mem[a] = file
  BY <1>1, <1>4 DEF Board!vars
<1>5. CASE got[a] \in Ids \cap Available(file) /\ mem[a] = Claim(file, got[a], a)
  <2>1. Board!ClaimTask(a, got[a])
    BY <1>1, <1>5, TaskQueueAssumption, SameOperators DEF Board!ClaimTask, Ids
  <2> QED BY <1>5, <2>1, SameOperators DEF Board!Next, Board!Step
<1>6. CASE got[a] \in Ids /\ IsNext(file, got[a]) /\ mem[a] = TakeOwner(file, got[a], a)
  <2>1. Board!TakeNext(a, got[a])
    BY <1>1, <1>6, TaskQueueAssumption, SameOperators DEF Board!TakeNext, Ids
  <2> QED BY <1>6, <2>1, SameOperators DEF Board!Next, Board!Step
<1> QED BY <1>1, <1>2, <1>3, <1>4, <1>5, <1>6 DEF Outcome, IsResult

(* The list in the file behaves as the list under the mutex does, through  *)
(* every interleaving, failed write and crash.                             *)
THEOREM FileIsTaskBoard == Spec => IsTaskBoard
<1>1. Init => Board!Init
  BY SameOperators DEF Init, Board!Init
<1>2. ASSUME LockInv, [Next]_vars PROVE [Board!Next]_(Board!vars)
  <2>1. ASSUME NEW a \in Agents, Step(a) PROVE [Board!Next]_(Board!vars)
    <3>1. CASE Rename(a)
      BY <1>2, <3>1, RenameIsCall
    <3>2. CASE ~Rename(a)
      <4>1. UNCHANGED <<file, won>>
        BY <2>1, <3>2 DEF Step, Call, Lock, LoadCreate, LoadUpdate, LoadClaim, LoadTake,
                          Applied, WriteTmp, Return, Abort, Ends
      <4> QED BY <4>1 DEF Board!vars
    <3> QED BY <3>1, <3>2
  <2>2. CASE UNCHANGED vars
    BY <2>2 DEF vars, Board!vars
  <2> QED BY <1>2, <2>1, <2>2 DEF Next
<1> QED BY <1>1, <1>2, LockInvariant, PTL DEF Spec, IsTaskBoard, Board!Spec

(* No task in the file is claimed twice (team/src/task_lock.rs).           *)
THEOREM FileClaimsExclusive == Spec => []ClaimsExclusive
BY FileIsTaskBoard, ClaimsExclusiveHolds, PTL DEF IsTaskBoard

(* What a task in the file says it blocks waits for it                     *)
(* (team/src/task_lock.rs).                                                *)
THEOREM FileEdgesBacked == Spec => []EdgesBacked
BY FileIsTaskBoard, EdgesBackedHolds, PTL DEF IsTaskBoard

(* What a process holds in memory is a list, and a claim that returns a    *)
(* task has its owner set on disk: nobody can have replaced the file since.*)
DiskInv ==
  /\ holder \in Agents \cup {NoOne}
  /\ \A a \in Agents : mem[a] \in Seq(Task)
  /\ ClaimOnDisk

(* The result of a call on a list is a list.                               *)
LEMMA ResultIsList ==
  ASSUME file \in Seq(Task), NEW a \in Agents, NEW list, NEW id, IsResult(a, list, id)
  PROVE  list \in Seq(Task)
<1>1. CASE list = Create(file)
  BY <1>1, CreateExtends
<1>2. CASE \E t \in Ids, c \in Changes : list = Update(file, t, c)
  BY <1>2, UpdateExtends, TaskQueueAssumption DEF Extends
<1>3. CASE id \in Available(file) /\ list \in {Claim(file, id, a), TakeOwner(file, id, a)}
  BY <1>3, ClaimExtends DEF Extends
<1> QED BY <1>1, <1>2, <1>3 DEF IsResult, IsNext

(* A rename puts the claim of its caller on disk.                          *)
LEMMA RenameClaims ==
  ASSUME LockInv, file \in Seq(Task), NEW a \in Agents, Rename(a), got[a] # 0
  PROVE  file'[got[a]].owner = a
<1>1. file' = mem[a] /\ Outcome(a)
  BY DEF Rename, LockInv, OneWriter, InMemory
<1>2. /\ got[a] \in Available(file)
      /\ mem[a] \in {Claim(file, got[a], a), TakeOwner(file, got[a], a)}
  BY <1>1 DEF Outcome, IsResult, IsNext
<1> QED BY <1>1, <1>2, ClaimExtends

LEMMA DiskStep ==
  ASSUME LockInv, BoardInv, DiskInv, NEW a \in Agents, Step(a)
  PROVE  DiskInv'
<1>1. file \in Seq(Task) /\ \A b \in Agents : mem[b] \in Seq(Task)
  BY DEF BoardInv, DiskInv
<1>2. CASE \E list, id : Applied(a, list, id) /\ IsResult(a, list, id)
  <2>1. PICK list, id : Applied(a, list, id) /\ IsResult(a, list, id)
    BY <1>2
  <2>2. list \in Seq(Task)
    BY <1>1, <2>1, ResultIsList
  <2>3. /\ UNCHANGED <<file, holder>> /\ pc'[a] = "loaded"
        /\ \A b \in Agents : mem'[b] = IF b = a THEN list ELSE mem[b]
        /\ \A b \in Agents \ {a} : got'[b] = got[b] /\ pc'[b] = pc[b]
    BY <2>1 DEF Applied, Goes, LockInv, Shape
  <2> QED BY <1>1, <2>2, <2>3 DEF DiskInv, ClaimOnDisk
<1>3. CASE LoadCreate(a) \/ LoadUpdate(a) \/ LoadClaim(a) \/ LoadTake(a)
  <2>1. LoadCreate(a) => \E list, id : Applied(a, list, id) /\ IsResult(a, list, id)
    BY DEF LoadCreate, IsResult
  <2>2. LoadUpdate(a) => \E list, id : Applied(a, list, id) /\ IsResult(a, list, id)
    BY DEF LoadUpdate, IsResult
  <2>3. LoadClaim(a) => \E list, id : Applied(a, list, id) /\ IsResult(a, list, id)
    BY DEF LoadClaim, IsResult
  <2>4. LoadTake(a) => \E list, id : Applied(a, list, id) /\ IsResult(a, list, id)
    BY DEF LoadTake, IsResult
  <2> QED BY <1>2, <1>3, <2>1, <2>2, <2>3, <2>4
<1>4. CASE Rename(a)
  <2>1. /\ UNCHANGED <<holder, mem, got>> /\ pc'[a] = "saved"
        /\ \A b \in Agents \ {a} : pc'[b] = pc[b]
        /\ holder = a
    BY <1>4 DEF Rename, Goes, LockInv, Shape, OneWriter
  <2>2. \A b \in Agents \ {a} : pc'[b] # "saved"
    BY <2>1 DEF LockInv, OneWriter
  <2>3. got[a] # 0 => file'[got[a]].owner = a
    BY <1>1, <1>4, RenameClaims
  <2> QED BY <2>1, <2>2, <2>3 DEF DiskInv, ClaimOnDisk
<1>5. CASE Call(a) \/ Lock(a) \/ WriteTmp(a)
  <2>1. /\ UNCHANGED <<file, mem, got>> /\ holder' \in {holder, a} /\ pc'[a] # "saved"
        /\ \A b \in Agents \ {a} : pc'[b] = pc[b]
    BY <1>5 DEF Call, Lock, WriteTmp, Goes, LockInv, Shape
  <2> QED BY <2>1 DEF DiskInv, ClaimOnDisk
<1>6. CASE Return(a) \/ Abort(a)
  <2>1. /\ UNCHANGED file /\ holder' \in {holder, NoOne} /\ pc'[a] = "idle"
        /\ \A b \in Agents : mem'[b] = IF b = a THEN Empty ELSE mem[b]
        /\ \A b \in Agents \ {a} : got'[b] = got[b] /\ pc'[b] = pc[b]
    BY <1>6 DEF Return, Abort, Ends, Goes, LockInv, Shape
  <2>2. Empty \in Seq(Task)
    BY DEF Empty
  <2> QED BY <1>1, <2>1, <2>2 DEF DiskInv, ClaimOnDisk
<1> QED BY <1>3, <1>4, <1>5, <1>6 DEF Step

LEMMA DiskInvariant == Spec => [](LockInv /\ BoardInv /\ DiskInv)
<1>1. Init => DiskInv
  BY DEF Init, DiskInv, ClaimOnDisk, Empty
<1>2. ASSUME LockInv, BoardInv, DiskInv, [Next]_vars PROVE DiskInv'
  <2>1. CASE UNCHANGED vars
    BY <1>2, <2>1 DEF vars, DiskInv, ClaimOnDisk
  <2> QED BY <1>2, <2>1, DiskStep DEF Next
<1> QED BY <1>1, <1>2, LockInvariant, FileIsTaskBoard, BoardInvariant, PTL
       DEF Spec, IsTaskBoard

(* A claim that returned a task has its owner set on disk, after every     *)
(* order of crashes and failed writes of other processes                   *)
(* (team/src/task_lock.rs).                                                *)
THEOREM ClaimOnDiskHolds == Spec => []ClaimOnDisk
<1>1. DiskInv => ClaimOnDisk
  BY DEF DiskInv
<1> QED BY <1>1, DiskInvariant, PTL

(* The file and every process's copy of it are lists of well-formed tasks. *)
THEOREM FileTyped == Spec => []TypeOK
<1>1. LockInv /\ BoardInv /\ DiskInv => TypeOK
  BY DEF LockInv, Shape, BoardInv, DiskInv, TypeOK
<1> QED BY <1>1, DiskInvariant, PTL

=============================================================================
