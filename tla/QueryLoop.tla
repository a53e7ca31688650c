------------------------------ MODULE QueryLoop ------------------------------
(***************************************************************************)
(* query_loop: from one user prompt to the end of the query. Each round    *)
(* checks the context window, sends a request, and recovers from a prompt  *)
(* that is too long, an overloaded model, an output cut at max_tokens and  *)
(* a Stop hook that wants more; a reply with tool calls leads to a tool    *)
(* turn (ToolTurn) and a further round.                                    *)
(*                                                                         *)
(* Code: engine/src/loop.rs, session/src/context.rs.                       *)
(*                                                                         *)
(* A request stands for one stream_with_retry: its attempts are those of   *)
(* ToolTurn. Of the conversation and of the crash log the model keeps the  *)
(* kind of the last message; what compaction does to the history is        *)
(* SessionConversation's subject. The two have no name in common, so that  *)
(* one module can extend both.                                             *)
(***************************************************************************)
EXTENDS Integers

CONSTANTS
  Percents,    \* the fill levels of the context window, in percent
  HasFallback, \* a fallback model is configured
  HasPlanModel \* a plan model is configured

ASSUME QueryLoopAssumption ==
  Percents \subseteq Nat /\ HasFallback \in BOOLEAN /\ HasPlanModel \in BOOLEAN

MaxPtlRetries == 3
MaxOutputTokenRetries == 3

VARIABLES
  pc,            \* where the loop is
  result,        \* "none", then "ok" or "error"
  cancelled,     \* the query's cancellation token
  ptlRetries,    \* ptl_retries
  outputRetries, \* output_token_retries
  escalated,     \* effective_max_tokens has reached ESCALATED_MAX_TOKENS
  model,         \* active_model: "primary" or its "larger" variant
  planMode,      \* plan_mode
  images,        \* the history has image blocks
  target,        \* the model the request goes to
  last,          \* kind of the last message of the history
  logged,        \* kind of the last message of the crash log
  window,        \* history: what the last context check led to
  ends,          \* history: MessageEnd events sent
  failures,      \* history: StopFailure hooks fired
  requests       \* history: requests since the last answer that was not cut

loopVars == <<pc, result, cancelled, ptlRetries, outputRetries, escalated, model,
          planMode, images, target, last, logged, window, ends, failures, requests>>

history == <<last, logged>>
retries == <<ptlRetries, outputRetries, escalated>>

Places == {"head", "request", "fallback", "stop_hooks", "tools", "done"}
Kinds == {"prompt", "assistant", "calls", "results", "nested", "recovery", "hook"}
Targets == {"none", "primary", "larger", "plan", "fallback"}

LoopInit ==
  /\ pc = "head" /\ result = "none"
  /\ cancelled = FALSE
  /\ ptlRetries = 0 /\ outputRetries = 0
  /\ escalated \in BOOLEAN
  /\ model = "primary" /\ planMode = FALSE
  /\ images \in BOOLEAN
  /\ target = "none"
  /\ last = "prompt" /\ logged = "prompt"
  /\ window = "none"
  /\ ends = 0 /\ failures = 0 /\ requests = 0

Cancel ==
  /\ pc # "done" /\ ~cancelled
  /\ cancelled' = TRUE
  /\ UNCHANGED <<pc, result, retries, model, planMode, images, target, history,
                 window, ends, failures, requests>>

-----------------------------------------------------------------------------
(* The head of the loop.                                                   *)

EndSilently == \* mutation of EndOk
  /\ pc' = "done" /\ result' = "ok"
  /\ ends' = ends
EndOk ==
  /\ pc' = "done" /\ result' = "ok"
  /\ ends' = ends + 1

IgnoresCancel(flag) == FALSE \* mutation of SeesCancel
SeesCancel(flag) == flag

HeadCancelled ==
  /\ pc = "head" /\ SeesCancel(cancelled)
  /\ EndOk
  /\ UNCHANGED <<cancelled, retries, model, planMode, images, target, history,
                 window, failures, requests>>

(* ContextManager::check, whose percentage is a u8.                        *)
ContextAction(percent) ==
  LET p == percent % 256
  IN  IF p >= 80 THEN "compact" ELSE IF p >= 75 THEN "upgrade"
      ELSE IF p >= 70 THEN "warn" ELSE "ok"

(* try_upgrade_or_compact: an upgrade may not be available.                *)
Windowed(action, outcome, new) ==
  \/ outcome = action /\ action # "upgrade" /\ new = model
  \/ action = "upgrade" /\ outcome = "warn" /\ new = model
  \/ action = "upgrade" /\ outcome = "upgraded" /\ model = "primary" /\ new = "larger"

EffectiveModel(active, plan) == IF plan /\ HasPlanModel THEN "plan" ELSE active

StartRound ==
  /\ pc = "head" /\ ~SeesCancel(cancelled)
  /\ \E percent \in Percents, outcome \in {"ok", "warn", "upgraded", "compact"},
        new \in {"primary", "larger"} :
       /\ Windowed(ContextAction(percent), outcome, new)
       /\ window' = outcome /\ model' = new
  /\ target' = EffectiveModel(model', planMode)
  /\ requests' = requests + 1
  /\ pc' = "request"
  /\ UNCHANGED <<result, cancelled, retries, planMode, images, history, ends, failures>>

-----------------------------------------------------------------------------
(* The request fails.                                                      *)

PtlForever == TRUE \* mutation of PtlLeft
PtlLeft == ptlRetries < MaxPtlRetries

(* strip_images when there are some, else force_compact.                   *)
PromptTooLong ==
  /\ pc = "request" /\ PtlLeft
  /\ ptlRetries' = ptlRetries + 1
  /\ images' = FALSE
  /\ window' = IF images THEN window ELSE "compact"
  /\ pc' = "head"
  /\ UNCHANGED <<result, cancelled, outputRetries, escalated, model, planMode, target,
                 history, ends, failures, requests>>

Overloaded ==
  /\ pc = "request" /\ HasFallback
  /\ target' = "fallback"
  /\ requests' = requests + 1
  /\ pc' = "fallback"
  /\ UNCHANGED <<result, cancelled, retries, model, planMode, images, history, window,
                 ends, failures>>

(* Any other error, or one of the above with no recovery left.             *)
FailRequest ==
  /\ pc = "request"
  /\ failures' = failures + 1
  /\ result' = "error" /\ pc' = "done"
  /\ UNCHANGED <<cancelled, retries, model, planMode, images, target, history, window,
                 ends, requests>>

(* An error of the fallback request leaves query_loop through `?`.         *)
FailFallback ==
  /\ pc = "fallback"
  /\ result' = "error" /\ pc' = "done"
  /\ UNCHANGED <<cancelled, retries, model, planMode, images, target, history, window,
                 ends, failures, requests>>

-----------------------------------------------------------------------------
(* The request is answered.                                                *)

Answered == pc \in {"request", "fallback"}

(* The answer is cut at max_tokens and has no tool_use.                    *)
OutputForever == TRUE \* mutation of OutputLeft
OutputLeft == outputRetries < MaxOutputTokenRetries

Escalate ==
  /\ Answered /\ outputRetries = 0 /\ ~escalated
  /\ ptlRetries' = 0
  /\ outputRetries' = 1
  /\ escalated' = TRUE
  /\ pc' = "head"
  /\ UNCHANGED <<result, cancelled, model, planMode, images, target, history, window,
                 ends, failures, requests>>

(* The recovery prompt is pushed but not persisted.                        *)
Continue ==
  /\ Answered /\ OutputLeft /\ (outputRetries > 0 \/ escalated)
  /\ ptlRetries' = 0
  /\ outputRetries' = outputRetries + 1
  /\ logged' = "assistant" /\ last' = "recovery"
  /\ pc' = "head"
  /\ UNCHANGED <<result, cancelled, escalated, model, planMode, images, target, window,
                 ends, failures, requests>>

(* A complete answer, or one that was cut with no retry left.              *)
Complete(kind, next) ==
  /\ Answered
  /\ ptlRetries' = 0 /\ outputRetries' = 0
  /\ requests' = 0
  /\ last' = kind /\ logged' = kind
  /\ pc' = next
  /\ UNCHANGED <<result, cancelled, escalated, model, images, target, window, ends, failures>>

FinalAnswer == Complete("assistant", "stop_hooks") /\ UNCHANGED planMode

(* The transitions of plan mode come before the tools run.                 *)
ToolCalls == Complete("calls", "tools") /\ planMode' \in BOOLEAN

-----------------------------------------------------------------------------
(* After the answer.                                                       *)

Accept ==
  /\ pc = "stop_hooks"
  /\ EndOk
  /\ UNCHANGED <<cancelled, retries, model, planMode, images, target, history, window,
                 failures, requests>>

(* A Stop hook asks for another round; its message is not persisted.       *)
StopHookRetry ==
  /\ pc = "stop_hooks"
  /\ last' \in {"assistant", "hook"}
  /\ pc' = "head"
  /\ UNCHANGED <<result, cancelled, retries, model, planMode, images, target, logged,
                 window, ends, failures, requests>>

(* The results, and the nested instructions of the files the tools read.   *)
DropResults(kind) == logged \* mutation of Persist
Persist(kind) == kind

ToolsDone ==
  /\ pc = "tools"
  /\ last' \in {"results", "nested"}
  /\ logged' = Persist(last')
  /\ pc' = "head"
  /\ UNCHANGED <<result, cancelled, retries, model, planMode, images, target, window,
                 ends, failures, requests>>

Request ==
  \/ PromptTooLong \/ Overloaded \/ FailRequest \/ FailFallback
  \/ Escalate \/ Continue \/ FinalAnswer \/ ToolCalls

Step ==
  \/ HeadCancelled \/ StartRound \/ Request \/ Accept \/ StopHookRetry \/ ToolsDone

LoopNext == Cancel \/ Step

LoopSpec == LoopInit /\ [][LoopNext]_loopVars /\ WF_loopVars(Step)

-----------------------------------------------------------------------------
(* Properties.                                                             *)

LoopTypeOK ==
  /\ pc \in Places /\ result \in {"none", "ok", "error"}
  /\ cancelled \in BOOLEAN
  /\ ptlRetries \in 0 .. MaxPtlRetries
  /\ outputRetries \in 0 .. MaxOutputTokenRetries
  /\ escalated \in BOOLEAN
  /\ model \in {"primary", "larger"} /\ planMode \in BOOLEAN
  /\ images \in BOOLEAN
  /\ target \in Targets
  /\ last \in Kinds /\ logged \in Kinds
  /\ window \in {"none", "ok", "warn", "upgraded", "compact"}
  /\ ends \in Nat /\ failures \in Nat /\ requests \in Nat

(* The recoveries cannot feed each other for ever: between two answers     *)
(* that are not cut there are at most four cut answers, each after three   *)
(* prompts that were too long and perhaps one overloaded model, although   *)
(* each cut answer gives the prompt three new retries.                     *)
RequestsBounded ==
  requests <= (MaxOutputTokenRetries + 1) * (MaxPtlRetries + 2)

(* The user interface takes MessageEnd for the end of the whole task: it   *)
(* is sent once, when query_loop returns Ok, and never before an error;    *)
(* the StopFailure hook runs for an error only, and then once, unless the  *)
(* error is the fallback model's.                                          *)
OutcomeReported ==
  /\ pc = "done" <=> result # "none"
  /\ ends = IF result = "ok" THEN 1 ELSE 0
  /\ failures = IF result = "error" /\ target # "fallback" THEN 1 ELSE 0

(* A crash outside a tool turn leaves no unanswered tool_use at the end of *)
(* the crash log, and no request follows one.                              *)
CallsAnswered ==
  pc # "tools" => last # "calls" /\ logged # "calls"

(* The strengthening of the above that every step preserves.               *)
RequestsSpent ==
  LET earlier == 5 * outputRetries + ptlRetries
  IN  /\ requests <= earlier + 2
      /\ pc = "request" => requests <= earlier + 1
      /\ pc \notin {"request", "fallback", "done"} => requests <= earlier
TargetInv ==
  /\ pc = "fallback" => target = "fallback"
  /\ pc = "request" => target # "fallback"
LoopInv ==
  LoopTypeOK /\ OutcomeReported /\ CallsAnswered /\ RequestsSpent /\ TargetInv

(* A cancelled query ends, whatever it was recovering from and whatever    *)
(* its Stop hooks ask for.                                                 *)
CancelEndsQuery == cancelled ~> pc = "done"

-----------------------------------------------------------------------------
(* What the documentation says and the code does not do.                   *)

(* core/hook.rs: StopFailure fires "When the query loop exits due to an    *)
(* error".                                                                 *)
FailureHookFires == result = "error" => failures = 1

(* agents/runtime.rs: "Append each in-flight message to the session's      *)
(* .jsonl crash log so a crash mid-turn does not lose the turn".           *)
LogComplete == pc \in {"head", "request"} => logged = last

(* docs/architecture.md: "SSE error with fallback_model configured ->      *)
(* switch model and retry".                                                *)
FallbackTried == result = "error" /\ HasFallback => target = "fallback"

=============================================================================
