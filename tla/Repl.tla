-------------------------------- MODULE Repl --------------------------------
(***************************************************************************)
(* The interactive session: the REPL loop that owns the screen and the     *)
(* conversation, the query it spawns for each prompt, the teammates it     *)
(* runs between queries, and the permission prompts of all of them. A      *)
(* query asks the session's handler; teammates ask it through the manager  *)
(* that coalesces their requests.                                          *)
(*                                                                         *)
(* Code: tui/src/runner/repl.rs, tui/src/app/update.rs,                    *)
(* tui/src/app/instance.rs, agents/src/runtime.rs,                         *)
(* agents/src/coordinator/permission_sync.rs, agents/src/teams/.           *)
(*                                                                         *)
(* What an agent does between prompts is ToolTurn's and QueryLoop's, how   *)
(* the team is spawned and awaited in detail TeamRunner's. A request is    *)
(* told from another by its tool; so are the grants, whose scope within a  *)
(* tool is left out. The channel to the dispatcher, which only moves a     *)
(* reply to its sender, is one step with the reply; what a conversation    *)
(* holds is SessionConversation's.                                         *)
(***************************************************************************)
EXTENDS Naturals, Sequences, FiniteSets, SequencesExt

CONSTANTS
  MaxQueries, \* bound on the queries, one per prompt
  Teammates,
  Ephemeral,  \* the teammates the turn that spawns them awaits
  Tools,
  ReadTools,  \* the concurrency-safe tools: cancelling drops a pending prompt
  MaxAsks     \* bound on the prompts raised

(* A query is known by its epoch.                                          *)
Queries == 1 .. MaxQueries
NoQuery == 0
AlwaysCurrent == 0 \* ALWAYS_CURRENT_EPOCH, of the events of no single query

ASSUME ReplAssumption ==
  /\ MaxQueries \in Nat \ {0} /\ Queries \cap Teammates = {}
  /\ Ephemeral \subseteq Teammates /\ ReadTools \subseteq Tools
  /\ MaxAsks \in Nat \ {0}

Agents == Queries \cup Teammates
Asks == 1 .. MaxAsks

VARIABLES
  at,           \* where each agent is
  ask,          \* the request it raised or follows, 0 before the first
  allowed,      \* those whose last request was allowed
  asked,        \* the tool of each request raised so far
  inflight,     \* inflight: per tool, the request that owns the entry
  answer,       \* its watch channel: a value, or dropped with its sender
  told,         \* the oneshot channels; pending holds those with no value yet
  events,       \* what the REPL has not taken from its event channel
  approval_queue, pending_suppressed, \* cards on the screen, cards held back
  session_grants, \* the tools granted for the session
  chosen,       \* history: what the user, or a grant, said of a request
  screen,       \* app.state; WaitingForInput counts as Idle
  repl,         \* where the REPL awaits
  conv_return,  \* the query whose end the REPL waits for
  epoch,        \* the query spawned last: query_epoch
  cancelled     \* agents whose token is cancelled

agents == <<at, ask, allowed, asked, inflight, answer>>
replies == <<told, chosen>>
cards == <<approval_queue, pending_suppressed, session_grants, screen>>
turns == <<repl, conv_return, epoch>>
vars == <<agents, replies, cards, turns, events, cancelled>>

Verdicts == {"none", "allow", "deny"}
AskEvent(id) == <<"ask", id>>
EndEvent(q) == <<"end", q>>

Init ==
  /\ at = [a \in Agents |-> "off"]
  /\ ask = [a \in Agents |-> 0] /\ allowed = {}
  /\ asked = << >> /\ inflight = [t \in Tools |-> 0]
  /\ answer = [id \in Asks |-> "none"] /\ told = [id \in Asks |-> "none"]
  /\ approval_queue = << >> /\ pending_suppressed = << >>
  /\ session_grants = {} /\ chosen = [id \in Asks |-> "none"]
  /\ screen = "Idle"
  /\ repl = "loop" /\ conv_return = NoQuery /\ epoch = NoQuery
  /\ events = << >> /\ cancelled = {}

-----------------------------------------------------------------------------
(* An agent asks, and receives a verdict.                                  *)

Running(a) == at[a] = "run" /\ a \notin cancelled
Waiting(a) == at[a] \in {"prompt", "clear", "follow"}
ToolOf(a) == asked[ask[a]]

(* ChannelPermissionHandler::ask_permission: registers a sender for the    *)
(* request and sends the event.                                            *)
SkippedId == Len(asked) + 2 \* mutation of NextId
NextId == Len(asked) + 1

Raise(a, tool) ==
  LET id == NextId IN
  /\ id \in Asks
  /\ asked' = Append(asked, tool)
  /\ at' = [at EXCEPT ![a] = "prompt"] /\ ask' = [ask EXCEPT ![a] = id]
  /\ allowed' = allowed \ {a}
  /\ events' = Append(events, AskEvent(id))
  /\ UNCHANGED <<answer, replies, cards, turns, cancelled>>

AskSession(q, tool) == Running(q) /\ Raise(q, tool) /\ UNCHANGED inflight

(* PermissionSyncManager::resolve: the first asker raises the prompt, the  *)
(* others wait for its answer.                                             *)
AlwaysFree(tool) == TRUE \* mutation of Free
Free(tool) == inflight[tool] = 0

Lead(t, tool) ==
  /\ Running(t) /\ Free(tool)
  /\ Raise(t, tool)
  /\ inflight' = [inflight EXCEPT ![tool] = NextId]

Follow(t, tool) ==
  /\ Running(t) /\ ~Free(tool)
  /\ at' = [at EXCEPT ![t] = "follow"] /\ ask' = [ask EXCEPT ![t] = inflight[tool]]
  /\ allowed' = allowed \ {t}
  /\ UNCHANGED <<asked, inflight, answer, replies, cards, turns, events, cancelled>>

Receive(a, verdict) ==
  /\ at' = [at EXCEPT ![a] = "run"]
  /\ allowed' = IF verdict = "allow" THEN allowed \cup {a} ELSE allowed \ {a}

(* A query has its answer when the dispatcher delivers it.                 *)
Answered(q) ==
  /\ at[q] = "prompt" /\ told[ask[q]] # "none"
  /\ Receive(q, told[ask[q]])
  /\ UNCHANGED <<ask, asked, inflight, answer, replies, cards, turns, events, cancelled>>

(* The first asker publishes the answer, then takes the lock to clear the  *)
(* entry.                                                                  *)
Publish(t) ==
  /\ at[t] = "prompt" /\ told[ask[t]] # "none"
  /\ answer' = [answer EXCEPT ![ask[t]] = told[ask[t]]]
  /\ at' = [at EXCEPT ![t] = "clear"]
  /\ UNCHANGED <<ask, allowed, asked, inflight, replies, cards, turns, events, cancelled>>

ClearEntry(t) ==
  /\ at[t] = "clear"
  /\ inflight' = [inflight EXCEPT ![ToolOf(t)] = 0]
  /\ Receive(t, answer[ask[t]])
  /\ UNCHANGED <<ask, asked, answer, replies, cards, turns, events, cancelled>>

(* A waiter takes the answer, or falls back to a denial when the sender    *)
(* is gone.                                                                *)
OutcomeFailsOpen(value) == IF value = "dropped" THEN "allow" ELSE value \* mutation of Outcome
Outcome(value) == IF value = "dropped" THEN "deny" ELSE value

TakeAnswer(t) ==
  /\ at[t] = "follow" /\ answer[ask[t]] # "none"
  /\ Receive(t, Outcome(answer[ask[t]]))
  /\ UNCHANGED <<ask, asked, inflight, answer, replies, cards, turns, events, cancelled>>

(* Cancelling drops the future of a concurrency-safe call wherever it      *)
(* awaits; the entry of a first asker stays behind.                        *)
SenderLeft(a) == answer \* mutation of SenderDropped
SenderDropped(a) ==
  IF a \in Teammates /\ at[a] = "prompt"
  THEN [answer EXCEPT ![ask[a]] = "dropped"] ELSE answer

Drop(a) ==
  /\ Waiting(a) /\ a \in cancelled /\ ToolOf(a) \in ReadTools
  /\ at' = [at EXCEPT ![a] = "run"]
  /\ answer' = SenderDropped(a)
  /\ UNCHANGED <<ask, allowed, asked, inflight, replies, cards, turns, events, cancelled>>

(* The dispatcher hands a reply to the request of its id, if that still    *)
(* awaits one.                                                             *)
Pending == {id \in 1 .. Len(asked) : told[id] = "none"}
Addressee(id) == {id} \cap Pending

Reply(ids, verdict) ==
  LET to == UNION {Addressee(id) : id \in ids} IN
  /\ chosen' = [id \in Asks |-> IF id \in ids THEN verdict ELSE chosen[id]]
  /\ told' = [id \in Asks |-> IF id \in to THEN verdict ELSE told[id]]

-----------------------------------------------------------------------------
(* The REPL loop takes an event.                                           *)

AtLoop == repl = "loop"

(* A granted tool is allowed at once; a request that arrives while the     *)
(* user types is held back.                                                *)
TakeRequest ==
  /\ AtLoop /\ events # << >> /\ Head(events)[1] = "ask"
  /\ LET id == Head(events)[2] IN
     \/ /\ asked[id] \in session_grants
        /\ Reply({id}, "allow")
        /\ UNCHANGED <<approval_queue, pending_suppressed, screen>>
     \/ /\ asked[id] \notin session_grants
        /\ approval_queue' = Append(approval_queue, id) /\ screen' = "Confirming"
        /\ UNCHANGED <<replies, pending_suppressed>>
     \/ /\ asked[id] \notin session_grants
        /\ pending_suppressed' = Append(pending_suppressed, id)
        /\ UNCHANGED <<replies, approval_queue, screen>>
  /\ events' = Tail(events)
  /\ UNCHANGED <<agents, session_grants, turns, cancelled>>

(* The end of a query, or of a teammate's turn, returns the screen to Idle,*)
(* cards or no cards; that of an earlier epoch is dropped.                 *)
TakeEnd ==
  /\ AtLoop /\ events # << >> /\ Head(events)[1] = "end"
  /\ screen' = IF Head(events)[2] \in {epoch, AlwaysCurrent} THEN "Idle" ELSE screen
  /\ events' = Tail(events)
  /\ UNCHANGED <<agents, replies, approval_queue, pending_suppressed,
                 session_grants, turns, cancelled>>

(* A tick after the last keystroke shows the cards held back.              *)
Promote ==
  /\ AtLoop /\ pending_suppressed # << >>
  /\ approval_queue' = approval_queue \o pending_suppressed
  /\ pending_suppressed' = << >> /\ screen' = "Confirming"
  /\ UNCHANGED <<agents, replies, session_grants, turns, events, cancelled>>

-----------------------------------------------------------------------------
(* A query starts, ends and returns; the REPL runs the team.               *)

(* spawn_query takes the conversation, and the receiver of its end         *)
(* replaces the one the REPL was waiting for.                              *)
Spawn(q) ==
  /\ q = epoch + 1
  /\ at' = [at EXCEPT ![q] = "run"]
  /\ conv_return' = q /\ epoch' = q
  /\ screen' = "Processing"

Submit(q) ==
  /\ AtLoop /\ screen = "Idle"
  /\ Spawn(q)
  /\ UNCHANGED <<ask, allowed, asked, inflight, answer, replies, approval_queue,
                 pending_suppressed, session_grants, repl, events, cancelled>>

(* A prompt of a cron job is submitted when no query runs.                 *)
CronSubmit(q) ==
  /\ AtLoop /\ conv_return = NoQuery
  /\ Spawn(q)
  /\ UNCHANGED <<ask, allowed, asked, inflight, answer, replies, approval_queue,
                 pending_suppressed, session_grants, repl, events, cancelled>>

(* An agent's call, verdict and token end with it.                         *)
Forget(a) ==
  /\ ask' = [ask EXCEPT ![a] = 0] /\ allowed' = allowed \ {a} /\ cancelled' = cancelled \ {a}

(* A query that ends, cancelled or not, tells the screen before its        *)
(* conversation goes back; one that fails leaves that to the REPL.         *)
Over(q) == at[q] \in {"ended", "failed"}

EndQuery(q) ==
  /\ at[q] = "run" /\ Forget(q)
  /\ \/ at' = [at EXCEPT ![q] = "ended"] /\ events' = Append(events, EndEvent(q))
     \/ at' = [at EXCEPT ![q] = "failed"] /\ UNCHANGED events
  /\ UNCHANGED <<asked, inflight, answer, replies, cards, turns>>

(* A teammate's turn runs the loop of a query on the channel of the first  *)
(* query, whose epoch its end bears; a turn that fails sends none. One     *)
(* sent when that epoch has passed will be dropped, and is left out.       *)
FirstQuery == 1

EndTask(t) ==
  /\ at[t] = "run"
  /\ at' = [at EXCEPT ![t] = IF t \in Ephemeral \cup cancelled THEN "gone" ELSE "off"]
  /\ Forget(t)
  /\ \/ epoch = FirstQuery /\ events' = Append(events, EndEvent(FirstQuery))
     \/ UNCHANGED events
  /\ UNCHANGED <<asked, inflight, answer, replies, cards, turns>>

(* The conversation comes back, and the team runs on the turn's markers.   *)
Return(q) ==
  /\ AtLoop /\ conv_return = q /\ Over(q)
  /\ conv_return' = NoQuery
  /\ \E started \in SUBSET {t \in Teammates : at[t] = "off"} :
       at' = [a \in Agents |-> IF a = q THEN "gone" ELSE IF a \in started THEN "run" ELSE at[a]]
  /\ repl' = "team"
  /\ events' = IF at[q] = "failed" THEN Append(events, EndEvent(AlwaysCurrent)) ELSE events
  /\ UNCHANGED <<ask, allowed, asked, inflight, answer, replies, cards, epoch, cancelled>>

(* A resident that is replaced is killed, and its end awaited; an idle one *)
(* ends at once.                                                           *)
KillTeammate(t) ==
  /\ repl = "team" /\ t \notin Ephemeral /\ at[t] \notin {"off", "gone"}
  /\ cancelled' = cancelled \cup {t}
  /\ UNCHANGED <<agents, replies, cards, turns, events>>

TeamAnswered ==
  /\ \A t \in Ephemeral : at[t] \in {"off", "gone"}
  /\ Teammates \cap cancelled = {}

TeamDone ==
  /\ repl = "team" /\ TeamAnswered
  /\ repl' = "loop"
  /\ UNCHANGED <<agents, replies, cards, conv_return, epoch, events, cancelled>>

(* A prompt may have been queued meanwhile: command_queue.                 *)
Dequeue(q) ==
  /\ repl = "team" /\ TeamAnswered
  /\ repl' = "loop"
  /\ Spawn(q)
  /\ UNCHANGED <<ask, allowed, asked, inflight, answer, replies, approval_queue,
                 pending_suppressed, session_grants, events, cancelled>>

(* A queued slash command starts no query.                                 *)
DequeueCommand ==
  /\ repl = "team" /\ TeamAnswered
  /\ repl' = "loop" /\ screen' = "Idle"
  /\ UNCHANGED <<agents, replies, approval_queue, pending_suppressed, session_grants,
                 conv_return, epoch, events, cancelled>>

-----------------------------------------------------------------------------
(* The user.                                                               *)

Confirming == AtLoop /\ screen = "Confirming"

Decide(verdict, always) ==
  /\ Confirming /\ approval_queue # << >>
  /\ LET id == Head(approval_queue) IN
     /\ Reply({id}, verdict)
     /\ session_grants' = IF always THEN session_grants \cup {asked[id]} ELSE session_grants
  /\ approval_queue' = Tail(approval_queue)
  /\ screen' = IF approval_queue' = << >> THEN "Processing" ELSE screen
  /\ UNCHANGED <<agents, pending_suppressed, turns, events, cancelled>>

Allow == Decide("allow", FALSE)
AllowAlways == Decide("allow", TRUE)
Deny == Decide("deny", FALSE)

(* Ctrl+C cancels the token of the query spawned last. It rejects the      *)
(* cards on the screen, not those held back.                               *)
CancelQuery == cancelled' = cancelled \cup {q \in {epoch} \cap Queries : at[q] \in {"run", "prompt"}}

InterruptPermissions ==
  /\ Confirming
  /\ Reply(ToSet(approval_queue), "deny")
  /\ approval_queue' = << >> /\ screen' = "Idle"
  /\ CancelQuery
  /\ UNCHANGED <<agents, pending_suppressed, session_grants, turns, events>>

InterruptProcessing ==
  /\ AtLoop /\ screen = "Processing"
  /\ screen' = "Idle"
  /\ CancelQuery
  /\ UNCHANGED <<agents, replies, approval_queue, pending_suppressed, session_grants, turns, events>>

(* A prompt queued while all running tools allow it interrupts the query.  *)
InterruptToQueue ==
  /\ AtLoop /\ screen = "Processing"
  /\ CancelQuery
  /\ UNCHANGED <<agents, replies, cards, turns, events>>

(* A new session drops the cards held back without an answer.              *)
NewSession ==
  /\ AtLoop /\ screen # "Confirming"
  /\ screen' = "Idle" /\ session_grants' = {}
  /\ pending_suppressed' = << >>
  /\ UNCHANGED <<agents, replies, approval_queue, repl, conv_return, epoch, events, cancelled>>

(* Quitting cancels the query and waits for its conversation.              *)
Quit ==
  /\ AtLoop
  /\ repl' = IF conv_return = NoQuery THEN "done" ELSE "quit"
  /\ CancelQuery
  /\ UNCHANGED <<agents, replies, cards, conv_return, epoch, events>>

QuitDone ==
  /\ repl = "quit" /\ Over(conv_return)
  /\ repl' = "done"
  /\ UNCHANGED <<agents, replies, cards, conv_return, epoch, events, cancelled>>

(* /exit, typed or queued, waits for no query.                             *)
ExitCommand ==
  /\ \/ AtLoop /\ screen = "Idle"
     \/ repl = "team" /\ TeamAnswered
  /\ repl' = "done"
  /\ CancelQuery
  /\ UNCHANGED <<agents, replies, cards, conv_return, epoch, events>>

-----------------------------------------------------------------------------
AgentStep(a) ==
  /\ repl # "done"
  /\ \/ /\ a \in Queries
        /\ Answered(a) \/ EndQuery(a)
     \/ /\ a \in Teammates
        /\ Publish(a) \/ ClearEntry(a) \/ TakeAnswer(a) \/ EndTask(a)

AskStep(a) ==
  /\ repl # "done"
  /\ \E tool \in Tools :
       \/ a \in Queries /\ AskSession(a, tool)
       \/ a \in Teammates /\ (Lead(a, tool) \/ Follow(a, tool))

Dropped(a) == repl # "done" /\ Drop(a)

ReplStep ==
  \/ TakeRequest \/ TakeEnd \/ Promote \/ TeamDone \/ QuitDone
  \/ DequeueCommand
  \/ \E q \in Queries : Return(q) \/ Dequeue(q)

UserAnswers == Allow \/ AllowAlways \/ Deny

UserStep ==
  \/ InterruptPermissions \/ InterruptProcessing \/ InterruptToQueue
  \/ NewSession \/ Quit \/ ExitCommand
  \/ \E q \in Queries : Submit(q) \/ CronSubmit(q)

Next ==
  \/ \E a \in Agents : AgentStep(a) \/ AskStep(a) \/ Dropped(a)
  \/ \E t \in Teammates : KillTeammate(t)
  \/ ReplStep \/ UserAnswers \/ UserStep

Spec == Init /\ [][Next]_vars

(* The runtime polls every task that is ready, an agent's work ends, and   *)
(* the user answers the card on the screen.                                *)
Fairness ==
  /\ \A a \in Agents : WF_vars(AgentStep(a))
  /\ WF_vars(ReplStep) /\ WF_vars(UserAnswers)

FairSpec == Spec /\ Fairness

-----------------------------------------------------------------------------
TypeOK ==
  /\ at \in [Agents -> {"off", "run", "prompt", "clear", "follow", "ended", "failed", "gone"}]
  /\ asked \in Seq(Tools) /\ Len(asked) <= MaxAsks
  /\ ask \in [Agents -> 0 .. Len(asked)]
  /\ allowed \subseteq Agents
  /\ inflight \in [Tools -> 0 .. Len(asked)]
  /\ answer \in [Asks -> Verdicts \cup {"dropped"}]
  /\ told \in [Asks -> Verdicts] /\ chosen \in [Asks -> Verdicts]
  /\ events \in Seq({AskEvent(id) : id \in Asks} \cup {EndEvent(q) : q \in 0 .. MaxQueries})
  /\ approval_queue \in Seq(Asks) /\ pending_suppressed \in Seq(Asks)
  /\ session_grants \subseteq Tools
  /\ screen \in {"Idle", "Processing", "Confirming"}
  /\ repl \in {"loop", "team", "quit", "done"}
  /\ {conv_return, epoch} \subseteq Queries \cup {NoQuery}
  /\ cancelled \subseteq Agents

(* Safety: an agent that was allowed a call was allowed it by what the     *)
(* user, or a grant of the session, said of the very request it raised or  *)
(* joined, however many are open (the dispatcher of                        *)
(* agents/src/runtime.rs, and resolve in permission_sync.rs).              *)
AllowedByUser == \A a \in Agents : a \in allowed => chosen[ask[a]] = "allow"

(* Safety: two teammates that reach for the same tool never have a prompt  *)
(* each (permission_sync.rs, resolve).                                     *)
OnePrompt ==
  \A t, u \in Teammates :
    at[t] = "prompt" /\ at[u] = "prompt" /\ ToolOf(t) = ToolOf(u) => t = u

(* Liveness: an agent that asks, or joins a request, receives a verdict,   *)
(* even if the first asker is dropped, unless for ever the REPL is busy    *)
(* with the team or with quitting, the card waits behind an idle screen,   *)
(* or the card was thrown away with its session (resolve, and the          *)
(* dispatcher of agents/src/runtime.rs).                                   *)
ThrownAway(id) ==
  /\ id \in Pending /\ chosen[id] = "none"
  /\ AskEvent(id) \notin ToSet(events)
  /\ id \notin ToSet(approval_queue) \cup ToSet(pending_suppressed)
Stuck(id) ==
  \/ repl # "loop"
  \/ id \in ToSet(approval_queue) /\ screen # "Confirming"
  \/ ThrownAway(id)
AskersReturn ==
  \A a \in Agents : (<>[]Waiting(a)) => <>[]Stuck(ask[a])

(* The following do not hold; see the README.                              *)

(* Liveness: "Teammates ask for permission through the session's own       *)
(* handler, so the card appears in the main session": the REPL takes       *)
(* every request.                                                          *)
RequestsTaken ==
  \A id \in Asks :
    (AskEvent(id) \in ToSet(events)) ~> (AskEvent(id) \notin ToSet(events) \/ repl \in {"quit", "done"})

(* Safety: "Call restore_conversation after the task completes": the REPL  *)
(* awaits the conversation of every query that has taken it.               *)
ConversationAwaited ==
  \A q \in Queries : at[q] \in {"run", "prompt", "ended", "failed"} => conv_return = q

(* Safety: a card on the screen can be answered.                           *)
CardsAnswerable == approval_queue # << >> => screen = "Confirming"

(* Safety: an entry stands for a request somebody awaits.                  *)
EntriesAwaited ==
  \A tool \in Tools : ~Free(tool) =>
    \E t \in Teammates : at[t] \in {"prompt", "clear"} /\ ask[t] = inflight[tool]

(* Liveness: quitting ends.                                                *)
QuitEnds == (repl = "quit") ~> (repl = "done")

=============================================================================
