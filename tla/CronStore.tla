------------------------------ MODULE CronStore ------------------------------
(***************************************************************************)
(* The jobs that fire prompts into the session: the store and its file     *)
(* (crates/tools/src/builtin/cron.rs), the task the scheduler runs for     *)
(* each job (crates/cron/src/scheduler.rs), and the poll of the session    *)
(* loop that turns what has fired into user turns                          *)
(* (crates/agents/src/runtime.rs, crates/tui/src/runner/repl.rs).          *)
(*                                                                         *)
(* The store is a mutex, which a tool holds to create or delete a job and  *)
(* the session loop to delete the one-shot jobs that have fired; jobs fire *)
(* without it.  A file cut short is read as no jobs, so it is {} here.     *)
(* Other processes, which share the file, are left out.                    *)
(***************************************************************************)
EXTENDS Integers, Sequences, FiniteSets

CONSTANTS
  MaxJobs,   \* bound on the jobs ever created
  MaxFires   \* bound on the length of the queue of fired prompts

ASSUME CronAssumption == MaxJobs \in Nat /\ MaxFires \in Nat

VARIABLES
  jobs,     \* the jobs of the store, each with its task in the scheduler
  nextId,   \* the number of the next job's id
  late,     \* deleted jobs whose cancelled task still has its push to make
  queue,    \* the fired prompts (FiredPromptQueue)
  file,     \* the durable jobs a process that starts would load
  store,    \* who holds the mutex of the store: free, tool, or repl
  writing,  \* the file is open, truncated, and not yet written
  turn,     \* the session loop: idle, draining the queue, or busy with a query
  batch,    \* the fires drained from the queue
  at,       \* the place in batch of the next one to look up
  waiting,  \* prompts of the batch that wait in the command queue
  up,       \* the process runs
  born,     \* history: how many jobs have been created
  ran,      \* history: the jobs whose prompt has been given to a query
  stale,    \* history: the last write of the file failed
  kept      \* history: jobs a failed write has left in the file

storeVars == <<jobs, nextId, store>>
fileVars == <<file, writing, stale, kept>>
replVars == <<turn, batch, at, waiting, ran>>
vars == <<storeVars, fileVars, replVars, late, queue, up, born>>

\* A job: its prompt, told from others by the order of creation, and its id,
\* which another job may have in another process.
Jobs == [n : 1..MaxJobs, id : 1..MaxJobs, recurring : BOOLEAN, durable : BOOLEAN]

Durable(js) == {j \in js : j.durable}

TypeOK ==
  /\ jobs \subseteq Jobs
  /\ nextId \in 1..(MaxJobs + 1)
  /\ late \subseteq Jobs
  /\ queue \in Seq(Jobs)
  /\ file \subseteq Durable(Jobs)
  /\ store \in {"free", "tool", "repl"}
  /\ writing \in BOOLEAN
  /\ turn \in {"idle", "draining", "busy"}
  /\ batch \in Seq(Jobs)
  /\ at \in 1..(Len(batch) + 1)
  /\ waiting \in Seq(Jobs)
  /\ up \in BOOLEAN
  /\ born \in 0..MaxJobs
  /\ ran \subseteq Jobs
  /\ stale \in BOOLEAN
  /\ kept \subseteq Jobs

\* Nothing of a process but its file outlives it.
Down ==
  /\ jobs' = {} /\ nextId' = 1 /\ late' = {} /\ queue' = <<>>
  /\ store' = "free" /\ writing' = FALSE /\ stale' = FALSE
  /\ turn' = "idle" /\ batch' = <<>> /\ at' = 1 /\ waiting' = <<>>

Init ==
  /\ jobs = {} /\ nextId = 1 /\ late = {} /\ queue = <<>>
  /\ file = {}
  /\ store = "free" /\ writing = FALSE
  /\ turn = "idle" /\ batch = <<>> /\ at = 1 /\ waiting = <<>>
  /\ up = FALSE
  /\ born = 0 /\ ran = {} /\ stale = FALSE /\ kept = {}

-----------------------------------------------------------------------------
(* The store and its file                                                  *)

\* persist_durable: the file is opened, which empties it, or cannot be.
Save(js) ==
  \/ /\ file' = {} /\ writing' = TRUE
     /\ UNCHANGED <<stale, kept>>
  \/ /\ stale' = TRUE
     /\ kept' = kept \cup (file \ Durable(js))
     /\ UNCHANGED <<file, writing>>

\* The holder of the store changes the jobs, and saves when a durable one is
\* concerned; a tool that need not write has returned.
Change(js, durable, who) ==
  /\ jobs' = js
  /\ IF durable THEN Save(js) ELSE UNCHANGED fileVars
  /\ store' = IF who = "tool" /\ ~writing' THEN "free" ELSE who

\* The file is written, or the write fails and leaves it cut short.
WriteEnd(ok) ==
  /\ writing
  /\ file' = IF ok THEN Durable(jobs) ELSE file
  /\ stale' = ~ok
  /\ writing' = FALSE
  /\ store' = IF store = "tool" THEN "free" ELSE store
  /\ UNCHANGED <<jobs, nextId, kept, replVars, late, queue, up, born>>

NextIdFromCount == Cardinality(jobs) + 1 \* mutation of NextId
NextId == nextId

\* CronCreate: the task runs from here on.
Create(recurring, durable) ==
  /\ up /\ store = "free"
  /\ born < MaxJobs
  /\ LET j == [n |-> born + 1, id |-> NextId,
               recurring |-> recurring, durable |-> durable]
     IN  Change(jobs \cup {j}, durable, "tool")
  /\ nextId' = nextId + 1
  /\ born' = born + 1
  /\ UNCHANGED <<replVars, late, queue, up>>

\* A cancelled task that has woken makes its push all the same.
Cancel(j) == late' \in {late, late \cup {j}}

\* CronDelete.
Delete(j) ==
  /\ up /\ store = "free"
  /\ Cancel(j)
  /\ Change(jobs \ {j}, j.durable, "tool")
  /\ UNCHANGED <<nextId, replVars, queue, up, born>>

\* The task of a job pushes its prompt, at every match of its expression: a
\* one-shot job too, until it is deleted.
Push(j) ==
  /\ Len(queue) < MaxFires
  /\ queue' = Append(queue, j)
  /\ UNCHANGED <<storeVars, fileVars, replVars, up, born>>
Fire(j) == Push(j) /\ UNCHANGED late
LateFire(j) == Push(j) /\ late' = late \ {j}

-----------------------------------------------------------------------------
(* The session loop                                                        *)

\* The user submits a prompt, or a query is running for any other reason.
Submit ==
  /\ up /\ turn = "idle"
  /\ turn' = "busy"
  /\ UNCHANGED <<storeVars, fileVars, batch, at, waiting, ran, late, queue, up, born>>

\* The tick: idle, with nothing typed and nothing in the command queue.
Drain ==
  /\ up /\ turn = "idle" /\ waiting = <<>>
  /\ queue # <<>>
  /\ turn' = "draining"
  /\ batch' = queue /\ at' = 1
  /\ queue' = <<>>
  /\ UNCHANGED <<storeVars, fileVars, waiting, ran, late, up, born>>

ConsumedInMemory(f) == \* mutation of Consumed: a durable job is left alone
  {j \in jobs : j.id = f.id /\ ~j.recurring /\ ~j.durable}

\* The one-shot job of a drained fire, which is looked up by its id.
Consumed(f) == {j \in jobs : j.id = f.id /\ ~j.recurring}

\* The next fire of the batch: its one-shot job is deleted.
Consume ==
  /\ turn = "draining" /\ at <= Len(batch)
  /\ store \in {"free", "repl"} /\ ~writing
  /\ LET gone == Consumed(batch[at])
     IN  /\ Change(jobs \ gone, Durable(gone) # {}, "repl")
         /\ late' \in {late, late \cup gone}
  /\ at' = at + 1
  /\ UNCHANGED <<nextId, turn, batch, waiting, ran, queue, up, born>>

\* The first prompt of the batch starts a query, the others wait their turn.
Inject ==
  /\ turn = "draining" /\ at > Len(batch) /\ ~writing
  /\ turn' = "busy"
  /\ ran' = ran \cup {Head(batch)}
  /\ waiting' = Tail(batch)
  /\ batch' = <<>> /\ at' = 1
  /\ store' = "free"
  /\ UNCHANGED <<jobs, nextId, fileVars, late, queue, up, born>>

\* The query returns; a prompt that waits starts the next one.
Return ==
  /\ turn = "busy"
  /\ IF waiting = <<>>
     THEN turn' = "idle" /\ UNCHANGED <<waiting, ran>>
     ELSE /\ ran' = ran \cup {Head(waiting)}
          /\ waiting' = Tail(waiting)
          /\ UNCHANGED turn
  /\ UNCHANGED <<storeVars, fileVars, batch, at, late, queue, up, born>>

\* The user takes the waiting prompts back, or a new session drops them.
DropWaiting ==
  /\ up /\ turn # "draining" /\ waiting # <<>>
  /\ waiting' = <<>>
  /\ UNCHANGED <<storeVars, fileVars, turn, batch, at, ran, late, queue, up, born>>

-----------------------------------------------------------------------------
(* The process                                                             *)

\* reload_durable: the jobs of the file, and ids beyond theirs.
Start ==
  /\ ~up
  /\ up' = TRUE
  /\ jobs' = file
  /\ nextId' \in 1..(MaxJobs + 1)
  /\ \A j \in file : j.id < nextId'
  /\ nextId' = 1 \/ \E j \in file : j.id = nextId' - 1
  /\ UNCHANGED <<store, fileVars, replVars, late, queue, born>>

\* The process ends or dies, perhaps while it writes the file.
Stop ==
  /\ up
  /\ up' = FALSE
  /\ Down
  /\ UNCHANGED <<file, kept, ran, born>>

Tools == \/ \E recurring, durable \in BOOLEAN : Create(recurring, durable)
         \/ \E j \in jobs : Delete(j)
Fires == \/ \E j \in jobs : Fire(j)
         \/ \E j \in late : LateFire(j)
Loop == Submit \/ Drain \/ Consume \/ Inject \/ Return \/ DropWaiting

Next == \/ Tools
        \/ \E ok \in BOOLEAN : WriteEnd(ok)
        \/ Fires
        \/ Loop
        \/ Start
        \/ Stop

Spec == Init /\ [][Next]_vars

-----------------------------------------------------------------------------
(* Properties                                                              *)

\* The elements of a sequence.
In(f, s) == \E i \in 1..Len(s) : s[i] = f

(* What has fired tells its job from every other: a fire that is drained has  *)
(* the id of a job of the store only if it is that job's, however long it was *)
(* queued and whatever has been deleted and created since.                    *)
FiresTellJobs ==
  \A f \in Jobs :
    f \in late \/ In(f, queue) \/ In(f, batch) =>
      /\ f.id < nextId
      /\ \A j \in jobs : j.id = f.id => j = f

(* The jobs a restart would load are the durable jobs of the store, whenever  *)
(* the file is not being written and its last write has not failed.           *)
DurableOnDisk ==
  up /\ ~writing /\ ~stale => file = Durable(jobs)

\* A one-shot job that is neither in the store nor in the file.
Gone(j) == ~j.recurring => j \in kept \/ (j \notin jobs /\ j \notin file)

(* fire once then auto-delete: a one-shot job whose prompt has been given to  *)
(* a query, or waits for it, is out of the store and out of the file: its     *)
(* task is not started again and no restart brings it back, unless the write  *)
(* that should have taken it out of the file failed.  A second fire that was  *)
(* in the queue by then, or that its aborted task still pushes, does run it   *)
(* again.                                                                     *)
OneShotGone ==
  \A j \in Jobs : j \in ran \/ In(j, waiting) => Gone(j)

\* Ids are given out once in a process, and those of the file differ.
IdsDiffer ==
  /\ \A j \in jobs : j.id < nextId
  /\ \A j, k \in jobs : j.id = k.id => j = k
  /\ \A j, k \in file : j.id = k.id => j = k

\* Creation is counted: a job to come is none that is known.
BornCounts ==
  /\ nextId <= born + 1
  /\ \A j \in jobs \cup file : j.id <= j.n
  /\ \A j \in Jobs :
       \/ j \in jobs \cup file \cup ran \cup kept \cup late
       \/ In(j, queue) \/ In(j, batch) \/ In(j, waiting)
       => j.n <= born

\* No process, no jobs, no fires, no prompts.
DownIsClear ==
  ~up => /\ jobs = {} /\ late = {}
         /\ queue = <<>> /\ batch = <<>> /\ waiting = <<>>
         /\ turn = "idle"

\* While the process runs, the file has its jobs and what failed writes left;
\* the file is empty while it is written, and only its holder writes it.
FileKnown ==
  /\ up => file \subseteq jobs \cup kept
  /\ writing => file = {} /\ store # "free"
  /\ store = "repl" => turn = "draining"

\* What the loop has gone through of the batch, which is not empty.
BatchGone ==
  /\ turn = "draining" => batch # <<>>
  /\ \A i \in 1..(at - 1) : Gone(batch[i])

(* What every step of the store, the scheduler and the session loop keeps.    *)
CronInv ==
  /\ TypeOK
  /\ IdsDiffer
  /\ BornCounts
  /\ DownIsClear
  /\ FileKnown
  /\ BatchGone
  /\ FiresTellJobs
  /\ DurableOnDisk
  /\ OneShotGone
=============================================================================
