------------------------------ MODULE ToolTurn ------------------------------
(***************************************************************************)
(* One assistant turn of the engine: the response is streamed, tools that  *)
(* are safe to overlap are spawned while it is still streaming, a failed   *)
(* stream aborts them and is retried, and once the stream is complete the  *)
(* calls that did not run yet are executed - the concurrency-safe ones in  *)
(* parallel, the others one after the other - until every tool_use of the  *)
(* message has its tool_result.                                            *)
(*                                                                         *)
(* Code: engine/src/loop.rs (stream_with_retry, stream_response,           *)
(* apply_plan_mode_transitions, build_tool_result_message),                *)
(* engine/src/streaming.rs, engine/src/tool_orchestration.rs.              *)
(*                                                                         *)
(* A call is a pair <<attempt, slot>>: every attempt streams a new message *)
(* with tool_use ids of its own.                                           *)
(***************************************************************************)
EXTENDS Integers, Sequences, FiniteSets

CONSTANTS
  MaxAttempts,   \* stream attempts of the turn: retries, and those of the fallback model
  MaxCalls,      \* bound on the tool_use blocks of one message
  MaxConcurrent, \* MAX_CONCURRENT_READS
  Blocks         \* the tool_use blocks the model may emit

Tools == {"read", "write", "bash", "enter", "exit"}

(* How the call stands with the gates: "clear" (input parses, permission   *)
(* Allow, no PreToolUse hook), "guarded" (a PreToolUse hook matches it, or *)
(* its permission is Deny or AskUser) or "malformed" (input is not JSON).  *)
Paths == {"clear", "guarded", "malformed"}

ASSUME ToolTurnAssumption ==
  /\ MaxAttempts \in Nat \ {0}
  /\ MaxCalls \in Nat \ {0}
  /\ MaxConcurrent \in Nat \ {0}
  /\ Blocks \subseteq [tool : Tools, path : Paths]

Calls == (1 .. MaxAttempts) \X (1 .. MaxCalls)

VARIABLES
  phase,      \* where query_loop is in this turn
  attempt,    \* the running stream attempt
  blocks,     \* the tool_use blocks received in this attempt, in order
  call,       \* the state of every call
  outcome,    \* the result held for a call: inline_results and batch_results
  runs,       \* history: how often Tool::execute was entered for a call
  hooked,     \* history: calls whose PostToolUse(Failure) hooks were run
  cancelled,  \* the query's CancellationToken
  planMode,   \* LoopState::plan_mode
  gate,       \* plan_mode_for_batch
  todo,       \* slots of the concurrent group not admitted yet
  writes,     \* slots of the sequential group still to answer
  writesOff   \* write_batch_token, cancelled by a failed Bash

streamVars == <<attempt, blocks>>
planVars == <<planMode, gate>>
groupVars == <<todo, writes, writesOff>>
vars == <<phase, streamVars, call, outcome, runs, hooked, cancelled, planVars,
          groupVars>>

Phases == {"streaming", "backoff", "collecting", "concurrent", "sequential",
           "answered", "failed"}

CallStates == {"absent",    \* not in the message
               "deferred",  \* in the message, left to the batch
               "spawned",   \* eager task created, not polled yet
               "running",   \* ToolUseStart sent, inside the tool
               "finished",  \* eager task: tool returned, ToolResult not sent
               "answered",  \* its result exists
               "panicked",  \* eager task panicked
               "aborted",   \* eager task dropped by abort_all
               "checked"}   \* sequential call past the cancellation check

Outcomes == {"none", "ok", "error"}

Slots == 1 .. Len(blocks)
Id(s) == <<attempt, s>>

ConcurrencySafe(b) == b.tool \in {"read", "enter", "exit"}
Mutating(b) == b.tool \in {"write", "bash"}

(* spawn_if_eligible: only a concurrency-safe block whose input parsed,    *)
(* without a matching hook and with an outright Allow runs while streaming.*)
Eligible(b) == ConcurrencySafe(b) /\ b.path = "clear"

(* apply_plan_mode_transitions: whether the batch is gated, and the plan   *)
(* mode the next turn starts in, set by the message's last plan call.      *)
PlanSlots == {s \in Slots : blocks[s].tool \in {"enter", "exit"}}
NextPlanMode ==
  IF PlanSlots = {}
  THEN planMode
  ELSE \E s \in PlanSlots : /\ \A t \in PlanSlots : t <= s
                            /\ blocks[s].tool = "enter"

(* Mutations of BatchGated: the mode on entry, the mode on exit.           *)
BatchGatedOnEntry == planMode
BatchGatedOnExit == NextPlanMode
BatchGated == planMode \/ \E s \in Slots : blocks[s].tool = "enter"

(* skip_ids: calls answered inline and calls whose input is malformed.     *)
InlineWithoutPanicked == {s \in Slots : call[Id(s)] = "answered"} \* mutation
Inline == {s \in Slots : call[Id(s)] \in {"answered", "panicked"}}
Malformed == {s \in Slots : blocks[s].path = "malformed"}
SkippedMalformed == Malformed \* mutation: inline results are forgotten
Skipped == Inline \cup Malformed

(* An eager task that has not ended.                                       *)
Live == {"spawned", "running", "finished"}

(* A call of an attempt that was given up.                                 *)
Stale(c) == c[1] # attempt \/ phase \in {"backoff", "failed"}

Init ==
  /\ phase = "streaming"
  /\ attempt = 1
  /\ blocks = << >>
  /\ call = [c \in Calls |-> "absent"]
  /\ outcome = [c \in Calls |-> "none"]
  /\ runs = [c \in Calls |-> 0]
  /\ hooked = {}
  /\ cancelled = FALSE
  /\ planMode \in BOOLEAN
  /\ gate = FALSE
  /\ todo = {}
  /\ writes = {}
  /\ writesOff = FALSE

-----------------------------------------------------------------------------
(* The stream.                                                             *)

(* A content block is complete: spawn it eagerly or leave it to the batch. *)
StreamBlock(b) ==
  /\ phase = "streaming" /\ ~cancelled
  /\ Len(blocks) < MaxCalls
  /\ blocks' = Append(blocks, b)
  /\ call' = [call EXCEPT ![<<attempt, Len(blocks) + 1>>] =
                IF Eligible(b) THEN "spawned" ELSE "deferred"]
  /\ UNCHANGED <<phase, attempt, outcome, runs, hooked, cancelled, planVars,
                 groupVars>>

AttemptLeft == attempt < MaxAttempts

(* A transport error, an error event, or the end of the stream before      *)
(* MessageStop: abort_all. JoinHandle::abort takes effect at the task's    *)
(* next suspension, so the tasks some worker is polling at this moment     *)
(* (polled) run on for a while.                                            *)
StreamFail ==
  /\ phase = "streaming" /\ ~cancelled
  /\ \E polled \in SUBSET {s \in Slots : call[Id(s)] \in Live} :
       call' = [c \in Calls |->
                  IF c[1] = attempt /\ call[c] \in Live /\ c[2] \notin polled
                  THEN "aborted" ELSE call[c]]
  /\ \/ phase' = "failed"
     \/ AttemptLeft /\ phase' = "backoff"
  /\ UNCHANGED <<streamVars, outcome, runs, hooked, cancelled, planVars,
                 groupVars>>

(* The backoff is over (the sleep does not look at the token): retry.      *)
Retry ==
  /\ phase = "backoff"
  /\ phase' = "streaming"
  /\ attempt' = attempt + 1
  /\ blocks' = << >>
  /\ UNCHANGED <<call, outcome, runs, hooked, cancelled, planVars, groupVars>>

(* MessageStop, or the cancellation seen at the next event or at the end   *)
(* of the stream.                                                          *)
StreamEnd ==
  /\ phase = "streaming"
  /\ phase' = "collecting"
  /\ UNCHANGED <<streamVars, call, outcome, runs, hooked, cancelled, planVars,
                 groupVars>>

(* The same, with a last block that got no ContentBlockStop but whose      *)
(* buffer parses: it joins the message and is left to the batch.           *)
StreamEndOpenBlock(b) ==
  /\ phase = "streaming"
  /\ Len(blocks) < MaxCalls
  /\ b.path # "malformed"
  /\ phase' = "collecting"
  /\ blocks' = Append(blocks, b)
  /\ call' = [call EXCEPT ![<<attempt, Len(blocks) + 1>>] = "deferred"]
  /\ UNCHANGED <<attempt, outcome, runs, hooked, cancelled, planVars, groupVars>>

-----------------------------------------------------------------------------
(* Eager tasks, those of an abandoned attempt included.                    *)

(* The call runs in a task of its own, not in the batch.                   *)
Eager(c) == Stale(c) \/ phase \in {"streaming", "collecting"}

taskFrame == <<phase, streamVars, hooked, cancelled, planVars, groupVars>>

TaskStart(c) ==
  /\ call[c] = "spawned"
  /\ call' = [call EXCEPT ![c] = "running"]
  /\ runs' = [runs EXCEPT ![c] = @ + 1]
  /\ UNCHANGED <<outcome, taskFrame>>

(* The tool returns, or its child token wins the select.                   *)
TaskFinish(c) ==
  /\ Eager(c) /\ call[c] = "running"
  /\ call' = [call EXCEPT ![c] = "finished"]
  /\ UNCHANGED <<outcome, runs, taskFrame>>

(* Send ToolResult and return the output to the JoinHandle.                *)
TaskReport(c) ==
  /\ call[c] = "finished"
  /\ call' = [call EXCEPT ![c] = "answered"]
  /\ UNCHANGED <<outcome, runs, taskFrame>>

TaskPanic(c) ==
  /\ Eager(c) /\ call[c] = "running"
  /\ call' = [call EXCEPT ![c] = "panicked"]
  /\ UNCHANGED <<outcome, runs, taskFrame>>

(* An aborted task reaches a suspension point and is dropped.              *)
TaskDrop(c) ==
  /\ Stale(c) /\ call[c] \in Live
  /\ call' = [call EXCEPT ![c] = "aborted"]
  /\ UNCHANGED <<outcome, runs, taskFrame>>

(* collect_all returned; plan-mode transitions; partition of the rest.     *)
CollectInline ==
  /\ phase = "collecting"
  /\ \A s \in Slots : call[Id(s)] \notin Live
  /\ \E good \in SUBSET {s \in Inline : call[Id(s)] = "answered"} :
       outcome' = [c \in Calls |->
                     IF c[1] = attempt /\ c[2] \in Inline
                     THEN IF c[2] \in good THEN "ok" ELSE "error"
                     ELSE outcome[c]]
  /\ todo' = {s \in Slots \ Skipped : ConcurrencySafe(blocks[s])}
  /\ writes' = {s \in Slots \ Skipped : ~ConcurrencySafe(blocks[s])}
  /\ gate' = BatchGated
  /\ planMode' = NextPlanMode
  /\ phase' = "concurrent"
  /\ UNCHANGED <<streamVars, call, runs, hooked, cancelled, writesOff>>

-----------------------------------------------------------------------------
(* The concurrent group: at most MaxConcurrent invoke_tool futures at once.*)

InFlight == {s \in Slots : ConcurrencySafe(blocks[s]) /\ call[Id(s)] = "running"}

Answer(s, o) ==
  /\ call' = [call EXCEPT ![Id(s)] = "answered"]
  /\ outcome' = [outcome EXCEPT ![Id(s)] = o]

Admit(s) ==
  /\ phase = "concurrent" /\ s \in todo
  /\ Cardinality(InFlight) < MaxConcurrent
  /\ todo' = todo \ {s}

ConcurrentStart(s) ==
  /\ Admit(s)
  /\ call' = [call EXCEPT ![Id(s)] = "running"]
  /\ runs' = [runs EXCEPT ![Id(s)] = @ + 1]
  /\ UNCHANGED <<phase, streamVars, outcome, hooked, cancelled, planVars,
                 writes, writesOff>>

(* The PreToolUse hook denies the call: nothing runs after it.             *)
ConcurrentDeny(s) ==
  /\ Admit(s)
  /\ blocks[s].path = "guarded"
  /\ Answer(s, "error")
  /\ UNCHANGED <<phase, streamVars, runs, hooked, cancelled, planVars, writes,
                 writesOff>>

(* The permission check refuses it: a failed execution, post-hooks run.    *)
ConcurrentRefuse(s) ==
  /\ Admit(s)
  /\ blocks[s].path = "guarded"
  /\ Answer(s, "error")
  /\ hooked' = hooked \cup {Id(s)}
  /\ UNCHANGED <<phase, streamVars, runs, cancelled, planVars, writes, writesOff>>

ConcurrentFinish(s) ==
  /\ phase = "concurrent" /\ s \in InFlight
  /\ \E o \in {"ok", "error"} : Answer(s, o)
  /\ hooked' = hooked \cup {Id(s)}
  /\ UNCHANGED <<phase, streamVars, runs, cancelled, planVars, groupVars>>

(* The cancelled batch token wins the select, before the tool or inside it.*)
InterruptsNothing(s) == FALSE \* mutation: a tool under way ignores the token
Interrupts(s) == phase = "concurrent" /\ s \in InFlight

ConcurrentCancel(s) ==
  /\ cancelled
  /\ \/ Admit(s)
     \/ Interrupts(s) /\ UNCHANGED todo
  /\ Answer(s, "error")
  /\ UNCHANGED <<phase, streamVars, runs, hooked, cancelled, planVars, writes,
                 writesOff>>

GroupStarted == todo = {} \* mutation: the futures are not awaited
GroupDone == todo = {} /\ InFlight = {}

ConcurrentDone ==
  /\ phase = "concurrent" /\ GroupDone
  /\ phase' = "sequential"
  /\ UNCHANGED <<streamVars, call, outcome, runs, hooked, cancelled, planVars,
                 groupVars>>

-----------------------------------------------------------------------------
(* The sequential group, in the order of the message.                      *)

AtHead(s, state) ==
  /\ phase = "sequential"
  /\ s \in writes /\ \A t \in writes : s <= t
  /\ call[Id(s)] = state

headFrame == <<phase, streamVars, cancelled, planVars, todo>>

(* write_batch_token is a child of the query's token.                      *)
WritesCancelled == cancelled \/ writesOff

SequentialCheck(s) ==
  /\ AtHead(s, "deferred") /\ ~WritesCancelled
  /\ call' = [call EXCEPT ![Id(s)] = "checked"]
  /\ UNCHANGED <<headFrame, outcome, runs, hooked, writes, writesOff>>

RemainingHead(s) == {s} \* mutation: only the current call gets a result
Remaining(s) == writes

(* Synthetic results for every remaining call.                             *)
SequentialInterrupt(s) ==
  /\ AtHead(s, "deferred") /\ WritesCancelled
  /\ LET Left(c) == c[1] = attempt /\ c[2] \in Remaining(s)
     IN  /\ call' = [c \in Calls |-> IF Left(c) THEN "answered" ELSE call[c]]
         /\ outcome' = [c \in Calls |-> IF Left(c) THEN "error" ELSE outcome[c]]
  /\ writes' = {}
  /\ UNCHANGED <<headFrame, runs, hooked, writesOff>>

PlanBlocks(b) == gate /\ Mutating(b)

(* The plan-mode gate or the PreToolUse hook answers for the tool.         *)
SequentialBlock(s) ==
  /\ AtHead(s, "checked")
  /\ PlanBlocks(blocks[s]) \/ blocks[s].path = "guarded"
  /\ Answer(s, "error")
  /\ writes' = writes \ {s}
  /\ UNCHANGED <<headFrame, runs, hooked, writesOff>>

AbortsNoSiblings(b, o) == FALSE \* mutation: a failed Bash cancels nothing
AbortsSiblings(b, o) == b.tool = "bash" /\ o = "error"

(* The executor's permission check refuses it: a failure like any other.   *)
SequentialRefuse(s) ==
  /\ AtHead(s, "checked")
  /\ ~PlanBlocks(blocks[s]) /\ blocks[s].path = "guarded"
  /\ writesOff' = (writesOff \/ AbortsSiblings(blocks[s], "error"))
  /\ Answer(s, "error")
  /\ hooked' = hooked \cup {Id(s)}
  /\ writes' = writes \ {s}
  /\ UNCHANGED <<headFrame, runs>>

SequentialStart(s) ==
  /\ AtHead(s, "checked")
  /\ ~PlanBlocks(blocks[s])
  /\ call' = [call EXCEPT ![Id(s)] = "running"]
  /\ runs' = [runs EXCEPT ![Id(s)] = @ + 1]
  /\ UNCHANGED <<headFrame, outcome, hooked, writes, writesOff>>

SequentialFinish(s) ==
  /\ AtHead(s, "running")
  /\ \E o \in {"ok", "error"} :
       /\ Answer(s, o)
       /\ writesOff' = (writesOff \/ AbortsSiblings(blocks[s], o))
  /\ hooked' = hooked \cup {Id(s)}
  /\ writes' = writes \ {s}
  /\ UNCHANGED <<headFrame, runs>>

(* build_tool_result_message: the turn is complete.                        *)
SequentialDone ==
  /\ phase = "sequential" /\ writes = {}
  /\ phase' = "answered"
  /\ UNCHANGED <<streamVars, call, outcome, runs, hooked, cancelled, planVars,
                 groupVars>>

(* The user interrupts.                                                    *)
Cancel ==
  /\ phase \notin {"answered", "failed"} /\ ~cancelled
  /\ cancelled' = TRUE
  /\ UNCHANGED <<phase, streamVars, call, outcome, runs, hooked, planVars,
                 groupVars>>

-----------------------------------------------------------------------------

StreamStep ==
  \/ \E b \in Blocks : StreamBlock(b) \/ StreamEndOpenBlock(b)
  \/ StreamFail \/ StreamEnd

TaskStep(c) ==
  TaskStart(c) \/ TaskFinish(c) \/ TaskReport(c) \/ TaskPanic(c) \/ TaskDrop(c)

ConcurrentStep(s) ==
  \/ ConcurrentStart(s) \/ ConcurrentDeny(s) \/ ConcurrentRefuse(s)
  \/ ConcurrentFinish(s) \/ ConcurrentCancel(s)

SequentialStep(s) ==
  \/ SequentialCheck(s) \/ SequentialInterrupt(s) \/ SequentialBlock(s)
  \/ SequentialRefuse(s) \/ SequentialStart(s) \/ SequentialFinish(s)

Next ==
  \/ StreamStep \/ Retry \/ CollectInline
  \/ \E c \in Calls : TaskStep(c)
  \/ \E s \in Slots : ConcurrentStep(s) \/ SequentialStep(s)
  \/ ConcurrentDone \/ SequentialDone
  \/ Cancel

Spec == Init /\ [][Next]_vars

(* The stream yields or times out (the API client's idle timeout), tasks   *)
(* are scheduled, a cancelled future is polled, and a call of the          *)
(* sequential group, which no token interrupts, returns. Nothing is        *)
(* assumed of a concurrency-safe tool that is not cancelled.               *)
Fairness ==
  /\ WF_vars(StreamStep) /\ WF_vars(Retry) /\ WF_vars(CollectInline)
  /\ \A c \in Calls : /\ WF_vars(TaskStart(c)) /\ WF_vars(TaskReport(c))
                      /\ WF_vars(cancelled /\ TaskFinish(c))
  /\ \A s \in 1 .. MaxCalls : WF_vars(s \in Slots /\ ConcurrentCancel(s))
  /\ WF_vars(ConcurrentDone) /\ WF_vars(\E s \in Slots : SequentialStep(s)) /\ WF_vars(SequentialDone)

FairSpec == Spec /\ Fairness

-----------------------------------------------------------------------------
(* Properties.                                                             *)

TypeOK ==
  /\ phase \in Phases
  /\ attempt \in 1 .. MaxAttempts
  /\ blocks \in Seq(Blocks) /\ Len(blocks) <= MaxCalls
  /\ call \in [Calls -> CallStates]
  /\ outcome \in [Calls -> Outcomes]
  /\ runs \in [Calls -> Nat]
  /\ hooked \subseteq Calls
  /\ cancelled \in BOOLEAN
  /\ planMode \in BOOLEAN /\ gate \in BOOLEAN
  /\ todo \subseteq Slots
  /\ writes \subseteq Slots
  /\ writesOff \in BOOLEAN

(* When the tool-result message is assembled every tool_use has a result   *)
(* from one of the three sources: the backfill of                          *)
(* build_tool_result_message, and its debug_assert, is never reached,      *)
(* whatever was streamed, skipped, blocked, cancelled or panicked.         *)
NoOrphan ==
  phase = "answered" =>
    \A s \in Slots : outcome[Id(s)] # "none" \/ s \in Malformed

(* No call is executed twice: what ran while streaming is skipped by the   *)
(* batch, and an aborted task is not run again under the same id.          *)
RunsOnce == \A c \in Calls : runs[c] <= 1

(* While a mutating tool runs no other call of its message does.           *)
MutatorAlone ==
  \A s, t \in Slots :
    /\ s # t
    /\ Mutating(blocks[s]) /\ call[Id(s)] = "running"
    => call[Id(t)] \notin Live

(* An EnterPlanMode anywhere in the message keeps every mutating tool of   *)
(* the same message from running, whatever plan call follows it: this is   *)
(* what apply_plan_mode_transitions does, which never lifts the gate of a  *)
(* batch. Its comment says otherwise of an EnterPlanMode that is cancelled *)
(* by a later ExitPlanMode: see ExitCancelsGate below.                     *)
EnterGatesBatch ==
  (\E t \in Slots : blocks[t].tool = "enter") =>
    \A s \in Slots : Mutating(blocks[s]) => runs[Id(s)] = 0

(* In a turn that starts in plan mode no mutating tool runs, even after an *)
(* ExitPlanMode of the same message.                                       *)
PlanModeGatesTurn ==
  planMode => [](\A s \in Slots : Mutating(blocks[s]) => runs[Id(s)] = 0)

(* After a Bash call that ran and failed, no later call of the sequential  *)
(* group is executed.                                                      *)
FailedBashStopsWrites ==
  \A s, t \in Slots :
    /\ s < t /\ ~ConcurrencySafe(blocks[t])
    /\ blocks[s].tool = "bash" /\ runs[Id(s)] = 1 /\ outcome[Id(s)] = "error"
    => runs[Id(t)] = 0

(* A cancelled turn ends, with no help from the tools that may overlap.    *)
Ended == phase \in {"answered", "failed"}
CancelEndsTurn == cancelled ~> Ended

(* What the query loop relies on: the turn implements the contract of      *)
(* TurnContract. A call of an abandoned attempt counts as void.            *)
Held(c) ==
  \/ outcome[c] # "none"
  \/ c[2] \in Malformed /\ phase \notin {"streaming", "collecting"}

callStatus ==
  [c \in Calls |->
     CASE call[c] = "absent" -> "none"
       [] call[c] # "absent" /\ Stale(c) -> "void"
       [] OTHER ->
            IF call[c] # "running" /\ Held(c) THEN "answered"
            ELSE IF call[c] \in {"deferred", "spawned", "checked"}
                 THEN "asked" ELSE "running"]

Contract == INSTANCE TurnContract WITH status <- callStatus, ended <- Ended

ImplementsContract == Contract!Spec

-----------------------------------------------------------------------------
(* The inductive invariant behind NoOrphan, RunsOnce, MutatorAlone and     *)
(* ImplementsContract: where each call may stand in each phase.            *)

Waiting == {"absent", "deferred", "spawned", "checked"}

(* A call that did not start has not run, and no call starts twice.        *)
RunsInv == \A c \in Calls : /\ runs[c] <= 1
                            /\ call[c] \in Waiting => runs[c] = 0

(* Nothing is known of the calls that are still to be streamed.            *)
FutureInv ==
  \A c \in Calls :
    c[1] > attempt \/ (c[1] = attempt /\ c[2] > Len(blocks)) => call[c] = "absent"

(* Until the batch starts only eager tasks move, and no result is held.    *)
StreamInv ==
  phase \in {"streaming", "collecting", "backoff", "failed"} =>
    /\ todo = {} /\ writes = {}
    /\ phase = "backoff" => AttemptLeft
    /\ \A c \in Calls : outcome[c] = "none"
    /\ \A s \in Slots : /\ call[Id(s)] \notin {"absent", "checked"}
                        /\ call[Id(s)] = "aborted" => Stale(Id(s))
                        /\ ~Eligible(blocks[s]) => call[Id(s)] = "deferred"

(* Once it has started, a call of the message is in one of these places.   *)
InConcurrentGroup(s) ==
  /\ phase = "concurrent" /\ ConcurrencySafe(blocks[s]) /\ s \notin Malformed \cup writes
  /\ outcome[Id(s)] = "none"
  /\ \/ s \in todo /\ call[Id(s)] = "deferred"
     \/ s \notin todo /\ call[Id(s)] = "running"
InSequentialGroup(s) ==
  /\ phase \in {"concurrent", "sequential"}
  /\ ~ConcurrencySafe(blocks[s]) /\ s \in writes /\ s \notin Malformed \cup todo
  /\ outcome[Id(s)] = "none"
  /\ \/ call[Id(s)] = "deferred"
     \/ /\ phase = "sequential" /\ call[Id(s)] \in {"checked", "running"}
        /\ \A t \in writes : s <= t
IsMalformed(s) ==
  /\ s \in Malformed /\ s \notin todo \cup writes
  /\ call[Id(s)] = "deferred"
IsAnswered(s) ==
  /\ outcome[Id(s)] # "none" /\ s \notin todo \cup writes
  /\ call[Id(s)] \in {"answered", "panicked"}

BatchInv ==
  phase \in {"concurrent", "sequential", "answered"} =>
    /\ \A c \in Calls : outcome[c] # "none" => c[1] = attempt
    /\ \A s \in Slots : \/ InConcurrentGroup(s) \/ InSequentialGroup(s)
                        \/ IsMalformed(s) \/ IsAnswered(s)

TurnInv == TypeOK /\ RunsInv /\ FutureInv /\ StreamInv /\ BatchInv

-----------------------------------------------------------------------------
(* What the documentation says and the code does not do.                   *)

(* loop.rs, apply_plan_mode_transitions: "The batch is gated whenever plan *)
(* mode is active on entry or any EnterPlanMode appears in the message and *)
(* is not later cancelled by an ExitPlanMode". A message that enters and   *)
(* then leaves plan mode, in a turn that starts outside it, is gated by    *)
(* the code all the same.                                                  *)
UncancelledEnter ==
  \E s \in Slots : /\ blocks[s].tool = "enter"
                   /\ \A t \in Slots : t > s => blocks[t].tool # "exit"
ExitCancelsGate ==
  [][CollectInline => gate' = (planMode \/ UncancelledEnter)]_vars

(* streaming.rs: the tasks of a doomed attempt "must not survive to emit   *)
(* stale ToolResult events against the next attempt".                      *)
NoStaleToolResult ==
  [][\A c \in Calls :
       call[c] = "finished" /\ call'[c] = "answered" => c[1] = attempt]_vars

(* architecture.md: when a stream ends without MessageStop "the partial    *)
(* message is discarded and its tools never run".                          *)
DiscardedToolsNeverRun == \A c \in Calls : Stale(c) => runs[c] = 0

(* architecture.md: every tool invocation, "inline or batched", passes     *)
(* "PreToolUse/PostToolUse hooks for all tools".                           *)
PostHooksForAllTools ==
  phase = "answered" =>
    \A s \in Slots : runs[Id(s)] > 0 /\ ~cancelled => Id(s) \in hooked

=============================================================================
