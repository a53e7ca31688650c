----------------------------- MODULE TeamRunner -----------------------------
(***************************************************************************)
(* The session's team: the runner that spawns teammates, routes their      *)
(* messages and awaits their results, and the teammates, one task each.    *)
(* They meet in four kinds of bounded channels: an inbox per teammate and  *)
(* one of the main agent, the results, the markers and the exits.          *)
(*                                                                         *)
(* Code: agents/src/teams/runner.rs, agents/src/teams/spawn.rs,            *)
(* team/src/backend/spawner.rs, team/src/mailbox.rs, team/src/roster.rs.   *)
(*                                                                         *)
(* The runner is one task, so its state moves only where it awaits. A      *)
(* teammate's turn is one step: what happens inside it is QueryLoop's.     *)
(***************************************************************************)
EXTENDS Integers, Sequences, FiniteSets, SequencesExt

CONSTANTS
  MaxId,       \* bound on the teammates ever spawned: ip-1 .. ip-MaxId
  MaxMarkers,  \* bound on the markers of one turn of the main agent
  InboxCap,    \* DEFAULT_INBOX_SIZE
  ResultCap,   \* RESULT_CHANNEL_CAPACITY
  MarkerCap,   \* MARKER_CHANNEL_CAPACITY
  ExitCap,     \* EXIT_CHANNEL_CAPACITY
  PeerToPeer   \* the team's mode is PeerToPeer, not LeaderWorker

ASSUME TeamRunnerAssumption ==
  /\ {MaxId, MaxMarkers, InboxCap, ResultCap, MarkerCap, ExitCap} \subseteq Nat \ {0}
  /\ PeerToPeer \in BOOLEAN

Ids == 1 .. MaxId
Main == 0

VARIABLES
  at,        \* where the runner is
  after,     \* where it goes when it has killed, or drained and delivered
  left,      \* the markers of the turn not yet handled
  victim,    \* the teammate being killed
  outbox,    \* the messages being routed
  awaiting,  \* awaiting: ephemeral teammates of this turn
  polled,    \* select! found the result channel empty
  pending,   \* pending: results to fold into a later turn, per teammate
  batch,     \* the results this turn folds, per teammate
  roster,    \* the teammates on the roster
  mate,      \* what the task of each teammate does
  resident,  \* the teammates of resident lifetime
  cancelled, \* the teammates whose token is cancelled
  inbox,     \* messages waiting for each teammate, and for Main
  results,   \* the result channel: ids
  markers,   \* the marker channel
  exits,     \* the exit channel: ids
  open       \* history: results published and not folded, per teammate

runner == <<at, after, left, victim, outbox, awaiting, polled, pending, batch, roster>>
team == <<mate, resident, cancelled, inbox, results, markers, exits>>
vars == <<runner, team, open>>

Queued(id) == Cardinality({k \in DOMAIN results : results[k] = id})
None == [id \in Ids |-> 0]

Init ==
  /\ at = "idle" /\ after = "idle" /\ left = 0 /\ victim = 0
  /\ outbox = << >> /\ awaiting = {} /\ polled = FALSE
  /\ pending = None /\ batch = None
  /\ roster = {}
  /\ mate = [id \in Ids |-> "unborn"]
  /\ resident = {} /\ cancelled = {}
  /\ inbox = [id \in Ids \cup {Main} |-> 0]
  /\ results = << >> /\ markers = << >> /\ exits = << >>
  /\ open = None

Members == roster \cup {Main}

(* The task runs; it still holds the receiver half of its inbox.           *)
Alive(id) == mate[id] \notin {"unborn", "gone", "panicked"}
Serving(id) == Alive(id) /\ mate[id] # "exit"

-----------------------------------------------------------------------------
(* A turn of the main agent: process_turn.                                 *)

BeginTurn ==
  /\ at = "idle"
  /\ at' = "turn" /\ left' = MaxMarkers
  /\ UNCHANGED <<after, victim, outbox, awaiting, polled, pending, batch, roster, team, open>>

(* spawn_teammate: the task starts with its seed in the inbox.             *)
Fresh(id) == mate[id] = "unborn" /\ \A other \in 1 .. id - 1 : mate[other] # "unborn"

Born(id) ==
  /\ Fresh(id) /\ left > 0
  /\ left' = left - 1
  /\ mate' = [mate EXCEPT ![id] = "wait"]
  /\ inbox' = [inbox EXCEPT ![id] = 1]
  /\ roster' = roster \cup {id}
  /\ at' = "turn"
  /\ UNCHANGED <<after, victim, outbox, polled, pending, batch,
                 cancelled, results, markers, exits, open>>

(* A spawn_agent marker without a name is awaited this turn.               *)
SpawnEphemeral(id) ==
  /\ at = "turn" /\ Born(id)
  /\ awaiting' = awaiting \cup {id} /\ UNCHANGED resident

(* One with a name is resident, and replaces a resident of that name: it   *)
(* is killed first.                                                        *)
SpawnNamed(id) == Born(id) /\ resident' = resident \cup {id} /\ UNCHANGED awaiting

SpawnResident(id) == at = "turn" /\ SpawnNamed(id)

(* kill_teammate cancels the token, awaits the task and forgets it.        *)
Kill(id, next) ==
  /\ victim' = id /\ cancelled' = cancelled \cup {id}
  /\ at' = "kill" /\ after' = next
  /\ UNCHANGED <<left, outbox, awaiting, polled, pending, batch, roster,
                 mate, resident, inbox, results, markers, exits, open>>

Replace(id) ==
  /\ at = "turn" /\ left > 0 /\ id \in roster \cap resident
  /\ \E new \in Ids : Fresh(new)
  /\ Kill(id, "respawn")

Respawn(id) == at = "respawn" /\ SpawnNamed(id)

AwaitsNothing(id) == TRUE \* mutation of TaskEnded
TaskEnded(id) == ~Alive(id)

Killed ==
  /\ at = "kill" /\ TaskEnded(victim)
  /\ roster' = roster \ {victim}
  /\ inbox' = [inbox EXCEPT ![victim] = 0]
  /\ victim' = 0
  /\ at' = after
  /\ UNCHANGED <<after, left, outbox, awaiting, polled, pending, batch,
                 mate, resident, cancelled, results, markers, exits, open>>

(* A message_sent marker of the main agent, to one teammate or to all.     *)
Message(from, to) == [from |-> from, to |-> to, broadcast |-> FALSE]
Broadcast(from, ids) ==
  LET order == SetToSeq(ids \ {from})
  IN  [k \in DOMAIN order |-> [from |-> from, to |-> order[k], broadcast |-> TRUE]]

SendFromMain ==
  /\ at = "turn" /\ left > 0
  /\ left' = left - 1
  /\ outbox' \in {<<Message(Main, to)>> : to \in roster}
                 \cup {Broadcast(Main, Members)}
  /\ at' = "deliver" /\ after' = "turn"
  /\ UNCHANGED <<victim, awaiting, polled, pending, batch, roster, team, open>>

EndMarkers ==
  /\ at = "turn"
  /\ left' = 0
  /\ at' = "drain" /\ after' = "await"
  /\ UNCHANGED <<victim, outbox, awaiting, polled, pending, batch, roster, team, open>>

-----------------------------------------------------------------------------
(* drain_teammate_markers, between turns and around the await. The name a  *)
(* marker addresses is resolved here: any member, or nobody.               *)

Nobody == MaxId + 1

DrainMarkers ==
  /\ at = "drain"
  /\ \E named \in [DOMAIN markers -> Members \cup {Nobody}] :
       outbox' = FlattenSeq([k \in DOMAIN markers |->
                   LET from == markers[k].from
                   IN  IF markers[k].all THEN Broadcast(from, Members)
                       ELSE IF named[k] \in Members \ {from} THEN <<Message(from, named[k])>>
                       ELSE << >>])
  /\ markers' = << >>
  /\ at' = "deliver"
  /\ UNCHANGED <<after, left, victim, awaiting, polled, pending, batch, roster,
                 mate, resident, cancelled, inbox, results, exits, open>>

(* can_communicate: both on the roster, and the main agent one of them     *)
(* unless the mode is PeerToPeer. A broadcast is not checked.              *)
Allowed(m) ==
  \/ m.broadcast
  \/ /\ {m.from, m.to} \subseteq Members
     /\ PeerToPeer \/ Main \in {m.from, m.to}

(* The receiver half lives as long as the teammate's task.                 *)
Receives(to) == to = Main \/ (to \in roster /\ Serving(to))

Deliver ==
  /\ at = "deliver" /\ outbox # << >>
  /\ LET m == Head(outbox)
     IN  IF Allowed(m) /\ Receives(m.to)
         THEN inbox[m.to] < InboxCap /\ inbox' = [inbox EXCEPT ![m.to] = @ + 1]
         ELSE inbox' = inbox
  /\ outbox' = Tail(outbox)
  /\ UNCHANGED <<at, after, left, victim, awaiting, polled, pending, batch, roster,
                 mate, resident, cancelled, results, markers, exits, open>>

(* The main inbox is drained after the markers' messages; the results      *)
(* pending from earlier are taken before the await.                        *)
Delivered ==
  /\ at = "deliver" /\ outbox = << >>
  /\ at' = after
  /\ inbox' = IF after = "turn" THEN inbox ELSE [inbox EXCEPT ![Main] = 0]
  /\ IF after = "await"
     THEN batch' = pending /\ pending' = None
     ELSE UNCHANGED <<batch, pending>>
  /\ UNCHANGED <<after, left, victim, outbox, awaiting, polled, roster,
                 mate, resident, cancelled, results, markers, exits, open>>

-----------------------------------------------------------------------------
(* await_results: a biased select of the result and the exit channel,      *)
(* which polls the one and then the other.                                 *)

Collect(id) ==
  /\ awaiting' = awaiting \ {id}
  /\ roster' = roster \ {id}
  /\ batch' = [batch EXCEPT ![id] = @ + 1]
  /\ UNCHANGED pending

BufferDropped(id) == UNCHANGED <<pending, awaiting, roster, batch>> \* mutation of Buffer
Buffer(id) ==
  /\ pending' = [pending EXCEPT ![id] = @ + 1]
  /\ UNCHANGED <<awaiting, roster, batch>>

AwaitResult ==
  /\ at = "await" /\ awaiting # {} /\ ~polled /\ results # << >>
  /\ IF Head(results) \in awaiting THEN Collect(Head(results)) ELSE Buffer(Head(results))
  /\ results' = Tail(results)
  /\ UNCHANGED <<at, after, left, victim, outbox, polled,
                 mate, resident, cancelled, inbox, markers, exits, open>>

NoResult ==
  /\ at = "await" /\ awaiting # {} /\ ~polled /\ results = << >>
  /\ polled' = TRUE
  /\ UNCHANGED <<at, after, left, victim, outbox, awaiting, pending, batch, roster,
                 team, open>>

(* The teammate's task ended: a failure is synthesized for it.             *)
AwaitExit ==
  /\ at = "await" /\ awaiting # {} /\ polled /\ exits # << >>
  /\ polled' = FALSE
  /\ exits' = Tail(exits)
  /\ awaiting' = awaiting \ {Head(exits)}
  /\ roster' = IF Head(exits) \in awaiting THEN roster \ {Head(exits)} ELSE roster
  /\ UNCHANGED <<at, after, left, victim, outbox, pending, batch,
                 mate, resident, cancelled, inbox, results, markers, open>>

NoExit ==
  /\ at = "await" /\ awaiting # {} /\ polled /\ exits = << >>
  /\ results # << >> \* the task sleeps until a channel wakes it
  /\ polled' = FALSE
  /\ UNCHANGED <<at, after, left, victim, outbox, awaiting, pending, batch, roster,
                 team, open>>

Awaited ==
  /\ at = "await" /\ awaiting = {}
  /\ polled' = FALSE
  /\ at' = "drain" /\ after' = "fold"
  /\ UNCHANGED <<left, victim, outbox, awaiting, pending, batch, roster, team, open>>

Fold ==
  /\ at = "fold"
  /\ open' = [id \in Ids |-> open[id] - batch[id]]
  /\ batch' = None
  /\ at' = "idle" /\ after' = "idle"
  /\ UNCHANGED <<left, victim, outbox, awaiting, polled, pending, roster, team>>

-----------------------------------------------------------------------------
(* drain_results, after a turn without markers, and the end of the session.*)

BeginDrain ==
  /\ at = "idle"
  /\ at' = "drain_results"
  /\ UNCHANGED <<after, left, victim, outbox, awaiting, polled, pending, batch, roster,
                 team, open>>

DrainResults ==
  /\ at = "drain_results"
  /\ batch' = [id \in Ids |-> pending[id] + Queued(id)] /\ pending' = None
  /\ results' = << >>
  /\ at' = "drain" /\ after' = "fold"
  /\ UNCHANGED <<left, victim, outbox, awaiting, polled, roster,
                 mate, resident, cancelled, inbox, markers, exits, open>>

Shutdown ==
  /\ at = "idle"
  /\ at' = "shutdown"
  /\ UNCHANGED <<after, left, victim, outbox, awaiting, polled, pending, batch, roster,
                 team, open>>

ShutdownKill(id) == at = "shutdown" /\ id \in roster /\ Kill(id, "shutdown")

Close ==
  /\ at = "shutdown" /\ roster = {}
  /\ at' = "closed"
  /\ UNCHANGED <<after, left, victim, outbox, awaiting, polled, pending, batch, roster,
                 team, open>>

-----------------------------------------------------------------------------
(* The task of a teammate: teammate_runner and the exit notice around it.  *)

HasRoom(channel, cap) == Len(channel) < cap

MateGoes(id, place) == mate' = [mate EXCEPT ![id] = place]

TakeTask(id) ==
  /\ mate[id] = "wait" /\ inbox[id] > 0
  /\ inbox' = [inbox EXCEPT ![id] = @ - 1]
  /\ MateGoes(id, "work")
  /\ UNCHANGED <<runner, resident, cancelled, results, markers, exits, open>>

NeverSeesCancel(id) == FALSE \* mutation of SeeCancel
SeeCancel(id) ==
  /\ mate[id] = "wait" /\ id \in cancelled
  /\ MateGoes(id, "exit")
  /\ UNCHANGED <<runner, resident, cancelled, inbox, results, markers, exits, open>>

(* The turn ends, with a message to send or without: one a turn at most.   *)
EndWork(id) ==
  /\ mate[id] = "work"
  /\ \E place \in {"send", "report"} : MateGoes(id, place)
  /\ UNCHANGED <<runner, resident, cancelled, inbox, results, markers, exits, open>>

Panic(id) ==
  /\ mate[id] = "work"
  /\ MateGoes(id, "panicked")
  /\ UNCHANGED <<runner, resident, cancelled, inbox, results, markers, exits, open>>

SendMarker(id) ==
  /\ mate[id] = "send" /\ HasRoom(markers, MarkerCap)
  /\ \E all \in BOOLEAN : markers' = Append(markers, [from |-> id, all |-> all])
  /\ MateGoes(id, "report")
  /\ UNCHANGED <<runner, resident, cancelled, inbox, results, exits, open>>

Publish(id) ==
  /\ mate[id] = "report" /\ HasRoom(results, ResultCap)
  /\ results' = Append(results, id)
  /\ open' = [open EXCEPT ![id] = @ + 1]
  /\ MateGoes(id, IF id \in resident THEN "wait" ELSE "exit")
  /\ UNCHANGED <<runner, resident, cancelled, inbox, markers, exits>>

Exit(id) ==
  /\ mate[id] = "exit" /\ HasRoom(exits, ExitCap)
  /\ exits' = Append(exits, id)
  /\ MateGoes(id, "gone")
  /\ UNCHANGED <<runner, resident, cancelled, inbox, results, markers, open>>

MateStep(id) ==
  \/ TakeTask(id) \/ SeeCancel(id) \/ EndWork(id) \/ SendMarker(id)
  \/ Publish(id) \/ Exit(id)

-----------------------------------------------------------------------------
(* What the runner does without waiting for the main agent.                *)
RunnerStep ==
  \/ EndMarkers \/ Killed \/ DrainMarkers \/ Deliver \/ Delivered
  \/ AwaitResult \/ NoResult \/ AwaitExit \/ NoExit \/ Awaited \/ Fold
  \/ DrainResults \/ Close
  \/ \E id \in Ids : Respawn(id) \/ ShutdownKill(id)

(* What the main agent asks for.                                           *)
MainStep ==
  \/ BeginTurn \/ BeginDrain \/ Shutdown \/ SendFromMain
  \/ \E id \in Ids : SpawnEphemeral(id) \/ SpawnResident(id) \/ Replace(id)

Next ==
  \/ RunnerStep \/ MainStep
  \/ \E id \in Ids : MateStep(id) \/ Panic(id)

Spec ==
  /\ Init /\ [][Next]_vars
  /\ WF_vars(RunnerStep)
  /\ \A id \in Ids : WF_vars(MateStep(id))

-----------------------------------------------------------------------------
Working == {"wait", "work", "send", "report"}
Places == {"idle", "turn", "kill", "respawn", "drain", "deliver", "await", "fold",
           "drain_results", "shutdown", "closed"}

(* Type: every variable holds values of its kind, and no channel holds     *)
(* more than its capacity.                                                 *)
TypeOK ==
  /\ {at, after} \subseteq Places
  /\ left \in 0 .. MaxMarkers
  /\ victim \in Ids \cup {0}
  /\ outbox \in Seq([from : Ids \cup {Main}, to : Ids \cup {Main}, broadcast : BOOLEAN])
  /\ awaiting \subseteq Ids
  /\ polled \in BOOLEAN
  /\ {pending, batch, open} \subseteq [Ids -> Nat]
  /\ roster \subseteq Ids
  /\ mate \in [Ids -> Working \cup {"unborn", "exit", "gone", "panicked"}]
  /\ {resident, cancelled} \subseteq SUBSET Ids
  /\ inbox \in [Ids \cup {Main} -> 0 .. InboxCap]
  /\ results \in Seq(Ids) /\ Len(results) <= ResultCap
  /\ exits \in Seq(Ids) /\ Len(exits) <= ExitCap
  /\ markers \in Seq([from : Ids, all : BOOLEAN]) /\ Len(markers) <= MarkerCap

(* A result a teammate published is in the channel, held for a later turn, *)
(* or in the batch about to be folded: none is lost and none folded twice, *)
(* whichever of await_results and drain_results took it off the channel.   *)
NoResultLost == \A id \in Ids : open[id] = Queued(id) + pending[id] + batch[id]

(* A teammate that serves tasks is on the roster, so a message reaches it  *)
(* and shutdown kills it: after shutdown_all nothing is at work, and a     *)
(* resident that was replaced has ended before its successor starts.       *)
SupervisedWork == \A id \in Ids : Serving(id) => id \in roster

(* A call of the runner returns unless a sender waits on a full channel or *)
(* the turn awaits a teammate that panicked: no order of results, exits,   *)
(* messages and kills makes it wait on a teammate that waits on it.        *)
SenderBlocked ==
  \/ at = "deliver" /\ outbox # << >> /\ inbox[Head(outbox).to] = InboxCap
  \/ \E id \in Ids :
       \/ mate[id] = "send" /\ ~HasRoom(markers, MarkerCap)
       \/ mate[id] = "report" /\ ~HasRoom(results, ResultCap)
       \/ mate[id] = "exit" /\ ~HasRoom(exits, ExitCap)
AwaitsPanicked == \E id \in awaiting : mate[id] = "panicked"
Returned == at \in {"idle", "closed"}
CallsReturn == ~Returned ~> Returned \/ SenderBlocked \/ AwaitsPanicked

(* runner.rs and spawner.rs say a teammate that panics yields a            *)
(* synthesized failure rather than stalling the turn.                      *)
PanicsAreReported == at = "await" ~> at # "await" \/ SenderBlocked

(* runner.rs says results take priority over exit notices: no failure is   *)
(* synthesized for a teammate whose result is in the channel.              *)
ResultsFirst ==
  [][AwaitExit => Head(exits) \notin awaiting \cap ToSet(results)]_vars

=============================================================================
