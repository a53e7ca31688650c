# crab-code: a TLA+ model of the agent's core

This directory holds TLA+ specifications of the core of crab-code, the TLC runs
that check them on small instances and TLAPS proofs of the results that matter
most. Paths below are relative to `src/`.

## 1. The system

crab-code is an agentic command-line assistant. The user's prompt starts a
*query*: the engine sends the conversation to a model, executes the tools the
reply asks for, sends their results back, and repeats until a reply asks for no
tool. Agents may form teams: a main agent spawns teammates, each a task with a
query loop of its own, and exchanges messages with them.

Everything runs on a multi-threaded tokio runtime (`crates/cli/src/main.rs:109`),
so two tasks may run between any two awaits of a third, and a panic unwinds one
task (no profile sets `panic = "abort"`).

### Components

| component | state it keeps | operations | what makes it correct |
|---|---|---|---|
| assistant turn (`engine/loop.rs`, `streaming.rs`, `tool_orchestration.rs`) | the stream's blocks, eager tasks, batch results, plan mode, cancellation tokens | stream, retry, eager spawn, abort, concurrent and sequential batch, result message | every tool_use is answered exactly once, runs at most once, mutating tools run alone, plan mode and a failed Bash stop the tools they should, a cancelled turn ends |
| query loop (`engine/loop.rs`) | conversation, retry counters, active model, token cap, circuit breaker | request, prompt-too-long recovery, fallback, max_tokens recovery, Stop hooks, compaction | each request is a well-paired conversation, bounded recoveries, exactly one end event, cancellation ends the query |
| conversation (`core/conversation.rs`, `session/`) | messages, turn ranges, usage anchors | push, pop, truncate, compaction strategies, repair, resume | tool_use and tool_result stay paired, what must be kept is kept |
| team runner (`agents/teams/`, `team/backend/spawner.rs`, `team/mailbox.rs`) | teammates, their inboxes, result, marker and exit channels, awaited set | spawn, kill, route, await results, shutdown | every awaited teammate yields exactly one result, no one waits for ever |
| task board (`core/task.rs`, `team/task_lock.rs`) | tasks with status, owner and dependencies; a file lock | create, update, claim, claim_next, delete | one owner per task, a blocked task is never claimed |
| session and prompts (`tui/runner/repl.rs`, `tui/app/`, `agents/runtime.rs`, `agents/coordinator/permission_sync.rs`) | the screen, the cards shown and held back, the conversation a query has taken, pending replies, entries of the teammates' requests | submit, interrupt, new session, quit, ask, coalesce, answer | only the user allows a call, one prompt per tool for the whole team, an asker gets a verdict, a query's conversation comes back |
| background jobs (`core/job.rs`, `tools/builtin/bash.rs`) | background jobs, output buffers | spawn, kill, finish, read | a job ends in one final state |
| cron (`tools/builtin/cron.rs`, `cron/scheduler.rs`, `agents/runtime.rs`) | jobs, a task for each, the queue of fired prompts, a file of the durable jobs | create, delete, fire, drain, reload | a fire tells its job, a one-shot job is gone once its prompt has run, a restart loads the durable jobs |
| MCP calls and reconnection (`tools/builtin/mcp_tool.rs`, `mcp/manager.rs`, `mcp/health.rs`) | clients under a mutex each, the manager's current clients, attempts | call, reconnect, give up | a call returns, no connection is left open behind the manager, a call is repeated once at most |
| remote server (`remote/`) | sessions, subscribers | attach, detach, dispatch | one controller per session |
| permission decision (`core/permission/`) | rules, mode | decide | deny wins, plan mode never writes |
| API client (`api/`) | retry policy, rate limit | stream, retry, back off | bounded retries |
| session store (`session/history.rs`, `agents/runtime.rs`) | a snapshot and a crash log for each session | append, save, new session, switch, resume | what was said can be resumed after a crash at any step, and the calls of its results with it |
| file history (`session/file_history.rs`) | copies of edited files | snapshot, rewind | a rewind restores what was there |
| memory, skills, plugins, hooks, config, auth, commands, fs, sandbox, ide, acp, telemetry, utils | files, registries, settings | load, merge, look up, run | mostly sequential, see section 9 |
| rendering, CLI (`tui/components`, `cli/`) | what is drawn, arguments | render, start | see section 9 |

### How they interact

- The REPL (`tui/src/runner/repl.rs`) takes one event at a time: a key, an event
  of the agents, the conversation a query gives back. A prompt spawns the *query
  task*, which takes the conversation away from the session and gives it back
  over `conv_return`; an empty placeholder stays behind.
- The query task runs `query_loop`, one assistant turn after the other. A turn
  spawns a task for each tool it may start while the response is streaming. A
  `CancellationToken` shared with the REPL reaches all of them.
- A tool that needs permission sends an event to the REPL and awaits a oneshot
  channel; the dispatcher in `agents/src/runtime.rs` maps a reply to its channel.
  Teammates go through `PermissionSyncManager`, which lets one of them ask and the
  others watch.
- Team tools only leave *markers* in their results. When the query has returned
  the REPL scans the new part of the conversation for them and calls the team
  runner, from within its own loop, which may wait for teammates.
- The runner and the teammates meet in bounded channels: an inbox per teammate,
  one channel each for results, markers and exit notices.
- Agents share a task list under a mutex; processes of their own would share it
  in a file under a lock.
- Each message of a query is appended to the crash log as it is said; when the
  query has given its conversation back, the REPL writes the snapshot and removes
  the log. So do a new session and a switch of sessions.
- A job's task pushes its prompt when its time comes. An idle tick of the REPL
  drains the queue, deletes the one-shot jobs, and submits the prompts.
- All agents share the adapters of MCP tools. An adapter has the client of its
  server from the start of the session; the caller whose call fails in transit
  reconnects under the mutex of the manager and calls again on the client it made.

### What is hard

Tools that outlive the stream attempt they belong to; a batch in which reads
overlap, writes must not, and each may be answered from four places; three
recoveries with counters of their own; compaction that moves messages while
others hold indices into them; channels that fill up in a cycle; tasks that
panic before they report; files replaced by processes that may crash between
two of them; fires that outlive their jobs; a reconnection that must wait for the
calls of others; a loop that waits, within one of its handlers, for tasks that wait for that loop.
The list with lines is `hazards` in `PROJECT.json`.

## 2. Modules and plan

| module | stands for | rests on |
|---|---|---|
| `ToolTurn` | one assistant turn with its stream attempts and its tools | |
| `TurnContract` | what the query loop relies on in a turn; `ToolTurn` implements it | |
| `Conversation` | the conversation and the compaction strategies, as operators | |
| `SessionConversation` | the conversation over the queries of a session | `Conversation` |
| `QueryLoop` | the loop around the turns, its recoveries and its end | |
| `TeamRunner` | the runner, the teammates and their channels | |
| `TaskQueue` | the task list, as operators | |
| `TaskBoard` | the list shared under a mutex | `TaskQueue` |
| `TaskLock` | the list in a locked file; implements `TaskBoard` | `TaskQueue`, `TaskBoard` |
| `Repl` | the session: REPL, query tasks, teammates, prompts | |
| `SessionStore` | the files of the sessions, against the handlers and queries that write them | |
| `SessionSwitch` | the same with what a switch of sessions sets aside | `SessionStore` |
| `CronStore` | the jobs, their file, their fires and the tick that drains them | |
| `McpServer` | calls to MCP servers and the reconnection | |
| `*Proofs` | theorems about the module they are named after; `SessionConversationProofs` also about `QueryLoop`, `TaskLockProofs` also about `TaskBoard` | that module |
| `MC*` | constants for TLC | that module |

They were written in this order, from the inside out: a turn, the conversation
it works on, the loop of turns, then the actors around it. What one module does
in detail is one step of the next: a tool turn is a step of `QueryLoop` and of
`SessionConversation`, a query is a process of `Repl`, a teammate's turn a step
of `TeamRunner`.

Next steps, in the order of what they would tell:

1. `FileHistory`: snapshots of edited files, their numbering and eviction, and
   rewind.
2. `Jobs`: background commands and their final status, under a kill.
3. `RemoteDispatch`: the two bounded channels of a connection, which wait for each
   other; then the hook watcher, and the permission matrix as an operator.

## 3. How the models follow the code

`PROJECT.json` maps every definition to its lines. An action is what a task does
from one await (or one unlock) to the next, with everything it calls on the way;
calls that never yield are operators. Names are the code's where there is one.
Variables marked *history* are not in the code: they record what a property
speaks of. A definition with the comment *mutation* is a defect that some
property must notice; no action uses it.

**ToolTurn.** A call is a pair of stream attempt and slot, because a retried
stream issues new ids. `phase` is the place in `query_loop`: streaming, back-off,
collecting the eager tasks, the concurrent group, the sequential group. `call`
gives the state of each call, eager task or not. Blocks arrive one by one
(`StreamBlock`); a block that is concurrency-safe, parsed, without a
hook and outright allowed becomes a task at once. A tool is concurrency-safe when
it is read-only (`core/src/tool.rs:110`), which only test tools override, so nothing
that mutates starts early. A failed attempt aborts its tasks without awaiting them,
so one that a worker is polling runs on: `Stale` calls finish while the next
attempt streams. The permission and the hooks of a
call are abstracted to how it stands with the gates (`clear`, `guarded`,
`malformed`); a guarded call may be let through or denied, and its prompt is
not interrupted by a cancellation in the sequential group, as in the code.
Plan mode is computed for the whole batch before it runs.

**TurnContract** keeps a status per call: asked, running, answered, void. A call
of an abandoned attempt is void, whatever its task still does.

**Conversation** and **SessionConversation.** A message is a record of role,
cost, the id of a tool_use or a tool_result and a few flags; costs stand for
tokens. The strategies are the ones the default configuration reaches, and each
ends with the repair of pairing, as in the code. An id stands for the calls of
one message. The steps are those of `query_loop` (reply, tool turn, compaction
automatic or forced; `GoOn`: the query goes on after an answer that was cut short, or
that a Stop hook sent back) and of the REPL (submit, undo, marker scan).

**QueryLoop.** `pc` is the place in the loop; a request is one
`stream_with_retry`, whose inside is `ToolTurn`'s, and yields an answer, a cut
answer, calls, or one of the errors the loop tells apart. Of the history and of
the crash log it keeps the kind of the last message. The percentage is cast to
`u8` as in the code, so 260 % wraps to 4 %.

**TeamRunner.** `at` says where the one task of the runner awaits; teammates are
ids that are never used again. A teammate's turn is one step that sends at most
one marker. `select!` with `biased` is a poll of the results, then of the exits.

**TaskQueue**, **TaskBoard**, **TaskLock.** The list is a sequence of records with
status, owner and both directions of the dependencies. A call on the shared list
is one step. On a file it is lock, load and apply, write the temporary file,
rename, return, and each may fail or be the last thing the process does;
`TaskLock` maps the content of the file to the list of `TaskBoard`.

**Repl.** A query is an epoch. An agent is `off`, `run`ning, in `prompt` (it raised
a request), `follow`ing another's, in `clear` (its answer is published, its entry
not yet removed) or at its end. A request is told from another by its tool, and
so is a grant. `TakeRequest` shows a card, holds it back while the user types, or
answers from a grant; `Allow`, `AllowAlways`, `Deny` answer the front card and the
dispatcher passes the reply on. `Return` is the arm that gets the conversation
back and handles the team; `repl = "team"` while it awaits ephemeral teammates.
The queue of typed prompts is not kept: a queued prompt may or may not follow at
each return. A teammate's turn may end with an end event of the first query's epoch,
whose channel the teammates are given (`runtime.rs:654`). `Quit` is the key, which
awaits the query; `ExitCommand` is `/exit`, which does not. `Drop` is a prompt whose future a cancelled batch drops, which only
happens to tools in `ReadTools`.

**SessionStore.** A message is a number and what it says: a prompt, a call, a result,
a reply or a nudge. `snap` and `log` are the two files of a session id; the session
saves under `id`, and a query appends under the id it was started with. The handlers
of the REPL that save are spread over their writes (`Begin`, `Write`, `Truncate`, and
what each does last), each of which may fail or be the last thing the process does;
`Start` is a new process that resumes a session, which reads the log after the
snapshot and repairs the pairing. A query compacts, calls, answers and may panic.
`SessionSwitch` adds what the switch set aside.

**CronStore.** A job is its number in the order of creation, which no property of the
code depends on, and its id, which a later process may give out again. Its fires are
the jobs themselves; the loop looks a drained fire up by id alone. `store` is the
mutex, held over the write of the file, which is truncated by one step (`Save`) and
written by another (`WriteEnd`). `late` holds deleted jobs whose aborted task is past
its sleep. A file cut short is `{}`, since it is read as no jobs. The REPL is `idle`,
`draining` (from the drain to the injection, with a step for each fire) or `busy`.

**McpServer.** `pc` is the place in `McpTool::execute`; a client is its server and a
number, 1 for the adapter's own. Mutexes are where the callers are: `Holds` for the
clients, `manager` for the manager. A call may be executed and not answered, fail
with an error the adapter takes for a lost connection (`Lost`) or another (`Fail`).
Back-off is a step. The server end of a connection is the action `Drop`.

## 4. The runs

| run | instance | shows |
|---|---|---|
| `turn_batch` | 1 attempt, 3 calls, 2 concurrent reads, 8 kinds of block | `NoOrphan`, `MutatorAlone`, `EnterGatesBatch`, `PlanModeGatesTurn`, `FailedBashStopsWrites` |
| `turn_retry` | 2 attempts, 2 calls, 1 concurrent read, 4 kinds of block | `RunsOnce`, the inductive invariant, the contract, and that a cancelled turn ends |
| `session_compaction` | window 14, 5 messages, 2 tool turns, prompts that nearly fill the window in two | `OnlyUndoOrphans`, `TurnRangesTile`, the order of compaction and scan, and what each strategy keeps (`CompactionSound`) |
| `query_loop` | five fill levels, fallback and plan model | bounded recoveries, one end event, answered calls, cancellation |
| `team` | 2 teammates, 2 markers a turn, capacities 2, 2, 1, 2 | `NoResultLost`, `SupervisedWork`, `CallsReturn` |
| `task_lock` | 2 processes, 2 tasks | `OneWriter`, `ClaimOnDisk`, `ClaimsExclusive`, `EdgesBacked`, the refinement, no deadlock |
| `repl` | 2 queries, 2 resident teammates, 1 tool, 2 requests | `AllowedByUser`, `OnePrompt`, `AskersReturn` |
| `session_store` | 2 session ids, 3 messages | `TurnSurvivesCrash`, `ResumePaired`, `LogHoldsTheTail` and the inductive invariant |
| `cron` | 2 jobs, 2 queued fires | `CronInv` (ids, the file, what is drained), `OneShotGone`, no deadlock |
| `mcp` | 2 agents, 2 servers, 3 connections to each, 2 attempts | `McpInv` (no connection left open, one repetition, on a later connection), `EveryCallReturns` |

The other two runs end in a violation, see section 7. The type of the state is part of
`TurnInv`, `LoopInv`, `StoreInv`, `CronInv` and `McpInv`, of `SupervisedWork`'s
proof in `TeamRunner`, and a property of its own elsewhere; the comment above a
property states it in words.

Why these bounds are enough for what they ask:

- *turn_batch*: three calls are the least that have a read before, between and
  after a mutating call, a plan call before and after, and a failed Bash followed
  by another; two concurrent reads leave a third one waiting for a place. *turn_retry*:
  two attempts give one abandoned attempt whose tasks are still at work; the
  second can be the fallback model's.
- *session_compaction*: with the costs chosen, two prompts with a tool turn pass
  each threshold of the context check (70, 80, 90, 95 percent), so each strategy is
  reached. Two ids let a handled and an unhandled marker be in the history at once.
- *query_loop*: the levels are one for each outcome of the check, and one beyond
  256 percent; all counters run to the code's own limits.
- *team*: two teammates give a result that arrives while another is awaited, a
  message between teammates and a replacement by name. Capacities of one or two let
  each channel be full.
- *task_lock*: two processes are enough for a lost update, two tasks for an edge.
- *repl*: a leader that is killed leaves followers only if it is resident, and one
  whose wait cannot be put down to the REPL only if the follower is resident too.
  A second query starts from the queue of prompts, or while the first is forgotten
  (section 7). Two requests let an answer meet the wrong one. The tool is one whose
  prompt may be dropped, but need not be: no fairness asks for it, so a tool whose prompt
  stays is covered; a second tool would only have an entry and a grant of its own.
  No ephemeral teammate is in this instance: waiting for one only keeps the REPL in
  `team` for longer, which residents that are killed do as well. `OnePrompt`
  and `AllowedByUser` are proved for any number of agents, tools and prompts.
- *session_store*: three messages are a prompt, a call and its result, the least
  that a cut can separate; a second id is what a new session or a switch needs. The
  four properties are proved for any number of both.
- *cron*: two jobs let an id be given out again and a fire meet another's job; two
  fires let a job fire again before its first is drained. Both properties are proved
  for any numbers.
- *mcp*: two agents are the least that can wait for each other, two servers let one
  hold the manager that the other needs; three connections give the adapter's, the
  one made by the first reconnection, and one that replaces it under a call.

`CHECK_DEADLOCK FALSE` stands where the model really ends: a turn answered or
failed, a query returned, a runner shut down, a REPL that quit, a history or a
number of prompts at its bound, a session that nobody uses any more. `TaskLock` and
`CronStore` never stop and are checked for deadlock.

## 5. Fairness

All fairness is weak but for the mutexes of `McpServer`. `SessionStore` and
`CronStore` state no liveness: no save, fire or start has to come.

- *ToolTurn*: a stream yields an event or runs into the idle timeout; spawned tasks
  are polled, a cancelled future is dropped, a sequential call returns. Nothing is
  assumed of a concurrency-safe tool that is not cancelled, nor of the user, who
  need not cancel: `CancelEndsTurn` shows that those tools cannot hold up a
  cancelled turn. A sequential call is awaited to its end in the code, so a Bash
  that never returns does hold it up, and its return has to be assumed.
- *QueryLoop*: the loop makes steps (the fairness of the turn it contains). A Stop
  hook may ask for more for ever; what the cancellation ends is this, too.
- *TeamRunner*: the runner and each teammate make steps: a teammate's turn ends. The
  main agent need not do anything. `CallsReturn` names its two exceptions in its
  statement, a sender on a full channel and a teammate that panicked: both are
  reachable and real (section 8).
- *Repl*: agents that can make a step do, the work of each ends, the REPL handles
  what it has, and the user answers the card on the screen. Nothing makes an agent
  ask, a future be dropped, a key other than the answer be pressed. The exceptions of
  `AskersReturn` are in its statement (`Stuck`) and listed in section 8.
- *McpServer*: callers make steps, and servers answer or fail every call they have.
  The mutexes are strongly fair, since tokio's queue their waiters in order. Nobody
  need call, nothing need be lost. The assumption on the servers is real: a call to
  a server that stays silent has no timeout in this code, and it keeps the client's
  mutex; a caller that reconnects then waits for it with the manager locked.

## 6. What is proved

The theorems hold for every value of the constants that satisfies the named
assumptions: positive bounds, disjoint sets of names, `Blocks` a set of blocks.

- `ToolTurnProofs`: `TypeOK`, `NoOrphan`, `RunsOnce`, `MutatorAlone`, for any
  number of attempts, calls and concurrent reads. None is inductive: that the
  batch leaves no call without result depends on where the eager tasks stood when
  the batch started. `TurnInv` adds just that: what has run (`RunsInv`), that
  calls to come are absent (`FutureInv`), where a call may be before the batch
  (`StreamInv`) and, once it started, the four places a call of the message can
  be in (`BatchInv`). `MutatorAlone` follows because the sequential group runs the
  least of its slots and only after the concurrent group has ended.
  `GatesInv` on top of it gives `EnterGatesBatch`, `PlanModeGatesTurn` and
  `FailedBashStopsWrites`: a gated batch has run no mutating tool, the sequential
  group starts its calls in order (`OrderInv`: what comes after a call still to
  answer has not run, which is why a Bash that fails can still stop it), and after
  a failed Bash what is left can only be interrupted (`FailInv`).
  `ImplementsContractHolds` is the refinement of `TurnContract`, one lemma per action:
  an action moves one call, several, or none of the message, and by `TurnInv` the
  answers the abstract turn gives when the batch ends are one for each call.
- `TeamRunnerProofs`: `SupervisedWork`, for any number of teammates and any
  capacity. A teammate off the roster was removed upon an exit notice, a kill or
  a shutdown; the invariant says what the presence of an exit notice or a
  cancellation tells about its sender, so that none of them still serves.
  `NoResultLost` needs one fact more (`CountInv`): outside the places that lead to
  the fold the batch is empty, so the batch that a new wait begins drops nothing.
- `TaskLockProofs`, first about `TaskBoard`, which `TaskLock` instantiates:
  `ClaimsExclusive`, since a claimed task has an owner that no call clears, and
  `EdgesBacked`, with the type of the list and the bounds of the edges under
  creation, update and deletion. Then, about the file, `TypeOK`, `OneWriter`,
  `ClaimOnDisk`, and the refinement `FileIsTaskBoard`: the lock invariant says that
  the process past the lock holds in memory one call's result on the present file,
  so a rename is a step of `TaskBoard` and the rest stutters. `FileClaimsExclusive`
  and `FileEdgesBacked` then follow from the theorems about `TaskBoard`.
- `McpServerProofs`: `McpInv`, for any number of agents, servers, connections and
  attempts. It is not inductive: that a connection made leaves none behind needs
  that whoever reconnects took the client out of the manager, and that an attempt
  not yet executed was not counted (`Steady`). Each step is shown to keep the facts
  of its caller and to disturb nobody else's, which is what the two mutexes are for.
- `ReplProofs`: `OnePrompt` and `AllowedByUser`, for any number of queries, teammates,
  tools and prompts, and the type of the state. The invariant of the first is
  ownership: who is in `prompt` or `clear` owns the entry of its tool, and no two own
  the same request; dropping the owner leaves the entry behind, which is why a newcomer
  follows and does not ask. That of the second (`AllowInv`) is that a request not yet
  taken, on the screen or held back is in one of the three places, once, and has no
  answer: so no second reply meets it, and what was said of it is what its asker
  publishes and everyone who joined it receives.
- `SessionStoreProofs`: `StoreInv`, `TurnSurvivesCrash`, `ResumePaired`,
  `LogHoldsTheTail`, for any number of sessions and messages. The invariant says for
  each place of the handlers which of the two files of a session has a message of the
  conversation: the log until the snapshot is written, then both, then the snapshot;
  and that what a process resumes is paired whichever of them a crash left.
- `CronStoreProofs`: `CronInv` and `OneShotGone`, for any number of jobs and fires.
  That a one-shot job is gone when its prompt runs is an invariant of the drained
  batch up to the fire looked up last (`BatchGone`); it rests on the file having
  no jobs but the store's and what a failed write left (`FileKnown`), and lasts
  because no job of the past is created again (`BornCounts`).
- `SessionConversationProofs`: every property of the run `session_compaction`, for
  any window, summary costs and bounds: `TypeOK`, `OnlyUndoOrphans`,
  `TurnRangesTile`, `MarkersHandledOnce`, `CompactionSound`. The last part of the
  module is an induction over the steps of a session as in the others, with `IInv`:
  ids are single and a result is in the message after its call (`Tame`), all ids
  were given out and no result of an undone turn comes back (`Known`), with a
  client the pairs are whole up to the undo (`Whole`), without one the ranges tile
  the messages and every user message begins a range (`Tiled`; without that
  `pop_last_turn` could cut a range in two), and while a query runs the results
  handled before stay where the scan at its end does not look (`InPlace`). The
  last is the delicate one: the scan starts from an index taken before the query,
  and a compaction moves messages under it. A summary puts two messages in the
  place of those it replaces, so a result moves towards the beginning unless a
  single message was replaced. Then it moves one place further, and only once: from then on the list
  is led by a summary pair, and the next summary replaces at least these two
  (`Led`). The place at the index is the prompt's, so one place is what there is.
  What each compaction strategy leaves true is `Keeps`, shown of each strategy and
  of the repair, and closed under doing one after the other. The strategies select
  messages (`Pick`), and the lemmas about the selection of a sequence by a set of
  indices (`Enumeration`, `PickElements`, `PickEqual`, `PickInterval`) come first.
- The same module, about `QueryLoop`: `RequestsBounded`, `OutcomeReported`,
  `CallsAnswered`, for any fill levels and models. `RequestsSpent` makes the bound
  inductive: each request is paid for by a retry counter, up to one or two that
  depend on the place of the loop; a cut answer resets one counter and uses up five of the other.

Two things about these proofs. The induction theorems of the library take an
operator as a parameter, which no installed prover can instantiate; where a lemma
counts (the truncation adds messages from the end, one by one) the induction is
over a set instead: the numbers for which the claim fails have a least one
(`LeastNumber`, from the well-founded order of the naturals). And no module that is
proved about has a RECURSIVE operator: `GreedyFromEnd` and `Rebuild` are recursive
functions.

Only model-checked: liveness (`CancelEndsTurn`, `CancelEndsQuery`, `CallsReturn`,
`AskersReturn`, `EveryCallReturns`), which needs ENABLED and so is out of the
prover's reach.

## 7. Findings

Each is a run that violates one property, and a statement of the code's
documentation that says otherwise; `findings` quotes them.

- `repl_conversation` (two queries, no teammate): Enter between the end event of
  a query and its return overwrites the channel on which the conversation comes
  back; the new query runs on the empty placeholder.

- `session_switch` (two sessions): the id under which the REPL saves is a constant of
  its loop. After a switch the conversation of the target is written over the
  snapshot of the session it left, whose messages are then nowhere.

## 8. Further disagreements

Stated in the modules under the heading *What the documentation says* (or, in
`Repl`, *do not hold*), and not run: TLC finds each of them violated.

- `ToolTurn`: a message that enters and then leaves plan mode, in a turn that starts
  outside it. The comment of `apply_plan_mode_transitions` has the batch gated when an
  EnterPlanMode "appears in the message and is not later cancelled by an
  `ExitPlanMode`" (`loop.rs:567`); the code never lifts the gate within a batch
  (`loop.rs:570`). `ExitCancelsGate` is the comment's reading, violated by the message
  EnterPlanMode, ExitPlanMode. `EnterGatesBatch` is what the code does, and it is
  the stricter: it lets no write run that the comment would stop, and stops some that
  the comment would let run.
- `ToolTurn`: a task of an abandoned attempt reports its result during the next
  one (`NoStaleToolResult`, `streaming.rs:179`); tools of a discarded message have
  run (`DiscardedToolsNeverRun`); eager tools and some blocked ones have no
  PostToolUse hook (`PostHooksForAllTools`).
- `SessionConversation`: Ctrl+C between a tool turn and the next request. The loop
  returns with the results, a user message, at the end; the REPL takes it for the
  unanswered prompt and pops it (`repl.rs:221`), and the next prompt is sent after
  calls without results (`RequestsPaired`), against `loop.rs:508`. The scan for the
  team's requests starts at a length taken before the query (`repl.rs:236`): after a
  compaction within it, requests lie before that index and are never carried out
  (`MarkersHandled`), against `runtime.rs:719`.
- `SessionConversation`: the number of turn ranges falls behind the number of user
  messages, and a strategy then keeps fewer turns than configured
  (`RecentTurnsPreserved`); errors are not kept (`ToolErrorsPreserved`);
  truncation may drop the last turn (`TruncationKeepsLastTurn`); the usage anchor
  may lie beyond the end (`AnchorInHistory`).
- `QueryLoop`: a failing fallback leaves through `?` and skips the StopFailure hook
  (`FailureHookFires`, `loop.rs:354`); messages of recoveries and Stop hooks are
  not in the crash log (`LogComplete`); not every stream error leads to the
  fallback (`FallbackTried`).
- `TeamRunner`: an exit notice may be handled although a result of its sender is in the
  channel (`ResultsFirst`); the exit notice is sent after `task.await` in the same
  task, so a panic skips it and the turn that awaits this teammate never ends,
  although `spawner.rs:106` says panics are reported (`PanicsAreReported`). Blocked senders, which `CallsReturn` excludes: the exit
  channel is emptied only while awaiting, so a kill or a shutdown may wait for
  a teammate that waits for a place; so may the runner and a teammate with full
  inboxes.
- `Repl`: the REPL awaits an ephemeral teammate inside its own event loop, the teammate
  awaits a card that only the next pass of this loop would show, and keys are not read
  either (`RequestsTaken`, `repl.rs:236`), against `runtime.rs:655`.
- `Repl`: the end of a query, or of a teammate's turn during the first query, makes
  the screen idle while a teammate's card is in the queue, and keys no longer reach it (`CardsAnswerable`, `update.rs:1315`); an entry
  whose asker was dropped answers later askers for good (`EntriesAwaited`); quitting
  may wait for a query that waits for a card held back (`QuitEnds`,
  `repl.rs:413`); a new session drops the cards held back, whose askers wait on.
- `SessionStore`, whose properties except these cases by name or allow for them: a new
  session or a switch while a query runs saves the empty placeholder and removes the
  log, although `runtime.rs:463` means that a crash loses no turn; a query that panics
  leaves the placeholder behind, and the next save writes it; a crash between the
  snapshot and the removal of the log brings back what an undo removed, or
  what is in the snapshot a second time (`history.rs:586`).
- Found beside `SessionStore` and not in it: `truncate_jsonl` takes no lock; the cost
  file of a session is listed as a session `X.cost`, and reading it as one sets it
  aside as corrupt; the `/resume` command discards the switch it has built
  (`tui/src/runner/slash.rs:203`).
- `CronStore`: a one-shot job that fires again before its first fire is drained runs
  twice, although `runtime.rs:611` says "so they run exactly once"; it is lost if the
  process dies, or a new session clears the queue of prompts, between its deletion and
  its turn. A fire in the queue runs although its job has been deleted. A
  crash while the file is written in place loses all durable jobs, which should
  "persist to disk and survive restarts" (`cron.rs:396`).
- `McpServer`: the fresh client may have been closed by another caller's restart by the
  time its lock is had, although `mcp_tool.rs:142` means that the retry does not go to
  a dead transport; a server may execute a call, lose the answer, and execute it again,
  although `manager.rs:316` has it that "the worst case is one extra reconnect
  attempt" (`ReissuedLater` bounds it to that one repetition); an adapter whose first client is closed reconnects a healthy
  server at each call, closing the client others have; attempts, once used up, are
  never given back.

## 9. Not modelled

- *Inside the modelled parts.* Wording and tokens of messages; the strategies that
  only a non-default configuration selects; what a tool does; the scope of a grant
  within a tool; the back-off time; more than one marker per teammate turn; the
  panic of a query task, which loses the conversation it took; switching between
  stored sessions (in `SessionStore` only); the overlays of the screen. What the session
store, cron and MCP leave out is in the notes of their components. The task list in a file is modelled
  although the interactive session shares its list in memory. A dead agent's claim
  stays, since no call clears an owner; a cycle of dependencies blocks its tasks; a
  blocker that is not on the list counts as completed: these follow from the
  operators of `TaskQueue` and are no property's subject.
- *Planned* (section 2): file history, background jobs, remote dispatch, the hook watcher, the permission matrix.
- *Left out*: the API clients and their wire formats, transports, running hooks and
  sandboxed commands (I/O, whose outcomes are choices in the models); memory,
  skills, plugins, configuration, prompts, telemetry (sequential, read at start);
  authentication (HTTP, except that two calls may refresh a token at once); drawing.
