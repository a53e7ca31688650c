--------------------------- MODULE TeamRunnerProofs ---------------------------
(***************************************************************************)
(* The team, for every number of teammates and every capacity: whoever     *)
(* serves tasks is on the roster, and every published result is folded     *)
(* once.                                                                   *)
(*                                                                         *)
(* The roster shrinks in three places: when a kill has awaited the task,   *)
(* when a result arrives and when an exit notice arrives. The invariant    *)
(* says what a result or a notice in its channel tells about its sender:   *)
(* an ephemeral teammate serves no more, and only those are awaited.       *)
(***************************************************************************)
EXTENDS TeamRunner, FiniteSetTheorems, TLAPS

Kinds ==
  /\ mate \in [Ids -> Working \cup {"unborn", "exit", "gone", "panicked"}]
  /\ roster \subseteq Ids /\ awaiting \subseteq Ids /\ resident \subseteq Ids

(* The teammates whose task left its loop.                                 *)
Ended == {id \in Ids : mate[id] \in {"exit", "gone", "panicked"}}

(* Residents and awaited teammates were spawned, and no resident is        *)
(* awaited.                                                                *)
Spawned ==
  /\ awaiting \cap resident = {}
  /\ \A id \in awaiting \cup resident : mate[id] # "unborn"

ResultsTell == results \in Seq(resident \cup Ended)
ExitsTell == exits \in Seq(Ended)

TeamInv == Kinds /\ SupervisedWork /\ Spawned /\ ResultsTell /\ ExitsTell

LEMMA Initially == Init => TeamInv
BY DEF Init, TeamInv, Kinds, SupervisedWork, Serving, Alive, Spawned, ResultsTell, ExitsTell

-----------------------------------------------------------------------------
(* A channel from which at most a message was taken, or all of them.       *)
Shrunk(old, new) == new \in {old, << >>} \/ (old # << >> /\ new = Tail(old))

LEMMA ShrunkTells ==
  ASSUME NEW S, NEW T, S \subseteq T, NEW old \in Seq(S), NEW new, Shrunk(old, new)
  PROVE  new \in Seq(T)
<1>1. old \in Seq(T) /\ << >> \in Seq(T)
  OBVIOUS
<1>2. old # << >> => Tail(old) \in Seq(T)
  BY <1>1
<1> QED BY <1>1, <1>2 DEF Shrunk

(* A step of the runner that spawns nobody.                                *)
LEMMA RunnerKeeps ==
  ASSUME TeamInv, UNCHANGED <<mate, resident>>,
         awaiting' \subseteq awaiting, roster' \subseteq roster,
         \A id \in roster \ roster' : ~Serving(id),
         Shrunk(results, results'), Shrunk(exits, exits')
  PROVE  TeamInv'
<1>1. Kinds'
  BY DEF TeamInv, Kinds
<1>2. SupervisedWork'
  BY DEF TeamInv, SupervisedWork, Serving, Alive
<1>3. Spawned'
  BY DEF TeamInv, Spawned
<1>4. resident' \cup Ended' = resident \cup Ended /\ Ended' = Ended
  BY DEF Ended
<1>5. ResultsTell' /\ ExitsTell'
  BY <1>4, ShrunkTells DEF TeamInv, ResultsTell, ExitsTell
<1> QED BY <1>1, <1>2, <1>3, <1>5 DEF TeamInv

(* A step of the runner that leaves the team alone but for the inboxes, the *)
(* tokens and the markers.                                                 *)
LEMMA QuietKeeps ==
  ASSUME TeamInv, UNCHANGED <<mate, resident, awaiting, roster, results, exits>>
  PROVE  TeamInv'
BY RunnerKeeps DEF Shrunk

LEMMA BornKeeps ==
  ASSUME TeamInv, NEW id \in Ids, Born(id),
         \/ awaiting' = awaiting \cup {id} /\ UNCHANGED resident
         \/ resident' = resident \cup {id} /\ UNCHANGED awaiting
  PROVE  TeamInv'
<1>1. /\ mate[id] = "unborn" /\ mate' = [mate EXCEPT ![id] = "wait"]
      /\ roster' = roster \cup {id} /\ UNCHANGED <<results, exits>>
  BY DEF Born, Fresh
<1>2. Kinds'
  BY <1>1 DEF TeamInv, Kinds, Working
<1>3. SupervisedWork'
  BY <1>1 DEF TeamInv, Kinds, SupervisedWork, Serving, Alive
<1>4. id \notin awaiting \cup resident
  BY <1>1 DEF TeamInv, Spawned
<1>5. Spawned'
  BY <1>1, <1>4 DEF TeamInv, Kinds, Spawned
<1>6. Ended' = Ended /\ resident \cup Ended \subseteq resident' \cup Ended'
  BY <1>1 DEF TeamInv, Kinds, Ended
<1>7. ResultsTell' /\ ExitsTell'
  BY <1>1, <1>6, ShrunkTells DEF TeamInv, ResultsTell, ExitsTell, Shrunk
<1> QED BY <1>2, <1>3, <1>5, <1>7 DEF TeamInv

-----------------------------------------------------------------------------
(* A spawned teammate whose task has not ended goes on.                    *)
LEMMA Goes ==
  ASSUME TeamInv, NEW id \in Ids, NEW place, MateGoes(id, place),
         mate[id] \in Working \cup {"exit"},
         place \in Working \cup {"exit", "gone", "panicked"},
         mate[id] = "exit" => place = "gone",
         UNCHANGED <<roster, awaiting, resident>>
  PROVE  /\ Kinds' /\ SupervisedWork' /\ Spawned' /\ Ended \subseteq Ended'
         /\ place \in {"exit", "gone", "panicked"} => id \in Ended'
<1>1. mate' = [mate EXCEPT ![id] = place] /\ place # "unborn"
  BY DEF MateGoes, Working
<1>2. Kinds'
  BY <1>1 DEF TeamInv, Kinds
<1>3. SupervisedWork'
  BY <1>1 DEF TeamInv, Kinds, SupervisedWork, Serving, Alive, Working
<1>4. Spawned'
  BY <1>1 DEF TeamInv, Kinds, Spawned
<1>5. /\ Ended \subseteq Ended'
      /\ place \in {"exit", "gone", "panicked"} => id \in Ended'
  BY <1>1 DEF TeamInv, Kinds, Ended, Working
<1> QED BY <1>2, <1>3, <1>4, <1>5

LEMMA MateKeeps ==
  ASSUME TeamInv, NEW id \in Ids, NEW place, MateGoes(id, place),
         mate[id] \in Working, place \in Working \cup {"exit", "panicked"},
         UNCHANGED <<results, exits, roster, awaiting, resident>>
  PROVE  TeamInv'
<1>1. Kinds' /\ SupervisedWork' /\ Spawned' /\ Ended \subseteq Ended'
  BY Goes DEF Working
<1>2. resident \cup Ended \subseteq resident' \cup Ended'
  BY <1>1
<1>3. ResultsTell' /\ ExitsTell'
  BY <1>1, <1>2, ShrunkTells DEF TeamInv, ResultsTell, ExitsTell, Shrunk
<1> QED BY <1>1, <1>3 DEF TeamInv

LEMMA AppendTells ==
  ASSUME NEW S, NEW T, S \subseteq T, NEW old \in Seq(S), NEW x \in T
  PROVE  Append(old, x) \in Seq(T)
<1>1. old \in Seq(T)
  OBVIOUS
<1> QED BY <1>1

LEMMA PublishKeeps == ASSUME TeamInv, NEW id \in Ids, Publish(id) PROVE TeamInv'
<1> DEFINE place == IF id \in resident THEN "wait" ELSE "exit"
<1>1. /\ mate[id] = "report" /\ MateGoes(id, place)
      /\ results' = Append(results, id)
      /\ UNCHANGED <<exits, roster, awaiting, resident>>
  BY DEF Publish, runner
<1>2. place \in {"wait", "exit"}
  OBVIOUS
<1>3. /\ Kinds' /\ SupervisedWork' /\ Spawned' /\ Ended \subseteq Ended'
      /\ place = "exit" => id \in Ended'
  <2> HIDE DEF place
  <2> QED BY <1>1, <1>2, Goes DEF Working
<1>4. /\ resident \cup Ended \subseteq resident' \cup Ended'
      /\ id \in resident' \cup Ended'
  BY <1>1, <1>3
<1>5. ResultsTell'
  BY <1>1, <1>4, AppendTells DEF TeamInv, ResultsTell
<1>6. ExitsTell'
  BY <1>1, <1>3, ShrunkTells DEF TeamInv, ExitsTell, Shrunk
<1> QED BY <1>3, <1>5, <1>6 DEF TeamInv

LEMMA ExitKeeps == ASSUME TeamInv, NEW id \in Ids, Exit(id) PROVE TeamInv'
<1>1. /\ mate[id] = "exit" /\ MateGoes(id, "gone")
      /\ exits' = Append(exits, id)
      /\ UNCHANGED <<results, roster, awaiting, resident>>
  BY DEF Exit, runner
<1>2. Kinds' /\ SupervisedWork' /\ Spawned' /\ Ended \subseteq Ended' /\ id \in Ended'
  BY <1>1, Goes
<1>3. resident \cup Ended \subseteq resident' \cup Ended'
  BY <1>1, <1>2
<1>4. ResultsTell'
  BY <1>1, <1>3, ShrunkTells DEF TeamInv, ResultsTell, Shrunk
<1>5. ExitsTell'
  BY <1>1, <1>2, AppendTells DEF TeamInv, ExitsTell
<1> QED BY <1>2, <1>4, <1>5 DEF TeamInv

-----------------------------------------------------------------------------
(* An awaited teammate whose result or exit notice arrived serves no more. *)
LEMMA HeadTells ==
  ASSUME TeamInv
  PROVE  /\ results # << >> /\ Head(results) \in awaiting => ~Serving(Head(results))
         /\ exits # << >> => ~Serving(Head(exits))
<1>1. \A id \in Ended : ~Serving(id)
  BY DEF Ended, Serving, Alive
<1>2. exits # << >> => Head(exits) \in Ended
  BY DEF TeamInv, ExitsTell
<1>3. results # << >> => Head(results) \in resident \cup Ended
  BY DEF TeamInv, ResultsTell
<1>4. awaiting \cap resident = {}
  BY DEF TeamInv, Spawned
<1> QED BY <1>1, <1>2, <1>3, <1>4

(* The three steps that shorten the roster.                                *)
LEMMA KilledKeeps == ASSUME TeamInv, Killed PROVE TeamInv'
<1>1. /\ UNCHANGED <<mate, resident, awaiting, results, exits>>
      /\ roster' = roster \ {victim} /\ ~Serving(victim)
  BY DEF Killed, TaskEnded, Serving
<1> QED BY <1>1, RunnerKeeps DEF Shrunk

LEMMA AwaitResultKeeps == ASSUME TeamInv, AwaitResult PROVE TeamInv'
<1> DEFINE id == Head(results)
<1>1. /\ UNCHANGED <<mate, resident, exits>>
      /\ results # << >> /\ results' = Tail(results)
      /\ \/ id \in awaiting /\ awaiting' = awaiting \ {id} /\ roster' = roster \ {id}
         \/ UNCHANGED <<awaiting, roster>>
  BY DEF AwaitResult, Collect, Buffer
<1>2. id \in awaiting => ~Serving(id)
  BY <1>1, HeadTells
<1>3. Shrunk(results, results') /\ Shrunk(exits, exits')
  BY <1>1 DEF Shrunk
<1> HIDE DEF id
<1> QED BY <1>1, <1>2, <1>3, RunnerKeeps

LEMMA AwaitExitKeeps == ASSUME TeamInv, AwaitExit PROVE TeamInv'
<1> DEFINE id == Head(exits)
<1>1. /\ UNCHANGED <<mate, resident, results>>
      /\ exits # << >> /\ exits' = Tail(exits)
      /\ awaiting' = awaiting \ {id}
      /\ roster' = IF id \in awaiting THEN roster \ {id} ELSE roster
  BY DEF AwaitExit
<1>2. ~Serving(id)
  BY <1>1, HeadTells
<1>3. Shrunk(results, results') /\ Shrunk(exits, exits')
  BY <1>1 DEF Shrunk
<1> HIDE DEF id
<1> QED BY <1>1, <1>2, <1>3, RunnerKeeps

-----------------------------------------------------------------------------
LEMMA RunnerStepKeeps == ASSUME TeamInv, RunnerStep PROVE TeamInv'
<1> USE DEF runner, team
<1>1. CASE EndMarkers
  BY <1>1, QuietKeeps DEF EndMarkers
<1>2. CASE DrainMarkers
  BY <1>2, QuietKeeps DEF DrainMarkers
<1>3. CASE Deliver
  BY <1>3, QuietKeeps DEF Deliver
<1>4. CASE Delivered
  BY <1>4, QuietKeeps DEF Delivered
<1>5. CASE NoResult
  BY <1>5, QuietKeeps DEF NoResult
<1>6. CASE NoExit
  BY <1>6, QuietKeeps DEF NoExit
<1>7. CASE Awaited
  BY <1>7, QuietKeeps DEF Awaited
<1>8. CASE Fold
  BY <1>8, QuietKeeps DEF Fold
<1>9. CASE Close
  BY <1>9, QuietKeeps DEF Close
<1>10. CASE Killed
  BY <1>10, KilledKeeps
<1>11. CASE AwaitResult
  BY <1>11, AwaitResultKeeps
<1>12. CASE AwaitExit
  BY <1>12, AwaitExitKeeps
<1>13. CASE DrainResults
  BY <1>13, RunnerKeeps DEF DrainResults, Shrunk
<1>14. ASSUME NEW id \in Ids, Respawn(id) PROVE TeamInv'
  BY <1>14, BornKeeps DEF Respawn, SpawnNamed
<1>15. ASSUME NEW id \in Ids, ShutdownKill(id) PROVE TeamInv'
  BY <1>15, QuietKeeps DEF ShutdownKill, Kill
<1> QED BY <1>1, <1>2, <1>3, <1>4, <1>5, <1>6, <1>7, <1>8,
          <1>9, <1>10, <1>11, <1>12, <1>13, <1>14, <1>15 DEF RunnerStep

LEMMA MainStepKeeps == ASSUME TeamInv, MainStep PROVE TeamInv'
<1> USE DEF runner, team
<1>1. CASE BeginTurn
  BY <1>1, QuietKeeps DEF BeginTurn
<1>2. CASE BeginDrain
  BY <1>2, QuietKeeps DEF BeginDrain
<1>3. CASE Shutdown
  BY <1>3, QuietKeeps DEF Shutdown
<1>4. CASE SendFromMain
  BY <1>4, QuietKeeps DEF SendFromMain
<1>5. ASSUME NEW id \in Ids, SpawnEphemeral(id) PROVE TeamInv'
  BY <1>5, BornKeeps DEF SpawnEphemeral
<1>6. ASSUME NEW id \in Ids, SpawnResident(id) PROVE TeamInv'
  BY <1>6, BornKeeps DEF SpawnResident, SpawnNamed
<1>7. ASSUME NEW id \in Ids, Replace(id) PROVE TeamInv'
  BY <1>7, QuietKeeps DEF Replace, Kill
<1> QED BY <1>1, <1>2, <1>3, <1>4, <1>5, <1>6, <1>7 DEF MainStep

LEMMA TeammateStepKeeps ==
  ASSUME TeamInv, NEW id \in Ids, MateStep(id) \/ Panic(id)
  PROVE  TeamInv'
<1> USE DEF runner, Working
<1>1. CASE TakeTask(id)
  BY <1>1, MateKeeps DEF TakeTask
<1>2. CASE SeeCancel(id)
  BY <1>2, MateKeeps DEF SeeCancel
<1>3. CASE Panic(id)
  BY <1>3, MateKeeps DEF Panic
<1>4. CASE SendMarker(id)
  BY <1>4, MateKeeps DEF SendMarker
<1>5. CASE EndWork(id)
  BY <1>5, MateKeeps DEF EndWork
<1>6. CASE Publish(id)
  BY <1>6, PublishKeeps
<1>7. CASE Exit(id)
  BY <1>7, ExitKeeps
<1> QED BY <1>1, <1>2, <1>3, <1>4, <1>5, <1>6, <1>7 DEF MateStep

(* Every reachable state: the inductive invariant of the team.             *)
THEOREM TeamInvariant == Spec => []TeamInv
<1>1. ASSUME TeamInv, [Next]_vars PROVE TeamInv'
  <2>1. CASE Next
    BY <1>1, <2>1, RunnerStepKeeps, MainStepKeeps, TeammateStepKeeps DEF Next
  <2>2. CASE UNCHANGED vars
    BY <1>1, <2>2, QuietKeeps DEF vars, runner, team
  <2> QED BY <1>1, <2>1, <2>2
<1> QED BY Initially, <1>1, PTL DEF Spec

(* A teammate that serves tasks is on the roster, whatever the order of    *)
(* results, exit notices, kills and replacements the runner sees: the      *)
(* roster is what route_message and shutdown_all go by.                    *)
THEOREM SupervisedWorkHolds == Spec => []SupervisedWork
<1>1. TeamInv => SupervisedWork
  BY DEF TeamInv
<1> QED BY TeamInvariant, <1>1, PTL

-----------------------------------------------------------------------------
(* How many results of a teammate are in the channel.                      *)

Positions(channel, id) == {k \in DOMAIN channel : channel[k] = id}

LEMMA PositionsFinite ==
  ASSUME NEW channel \in Seq(Ids), NEW id
  PROVE  /\ IsFiniteSet(Positions(channel, id))
         /\ Cardinality(Positions(channel, id)) \in Nat
<1>1. DOMAIN channel = 1 .. Len(channel) /\ Len(channel) \in Nat
  OBVIOUS
<1>2. IsFiniteSet(DOMAIN channel)
  BY <1>1, FS_Interval
<1>3. Positions(channel, id) \in SUBSET DOMAIN channel
  BY DEF Positions
<1> QED BY <1>2, <1>3, FS_Subset, FS_CardinalityType

LEMMA PositionsEmpty == ASSUME NEW id PROVE Cardinality(Positions(<< >>, id)) = 0
<1>1. Positions(<< >>, id) = {}
  BY DEF Positions
<1> QED BY <1>1, FS_EmptySet

LEMMA PositionsAppend ==
  ASSUME NEW channel \in Seq(Ids), NEW new \in Ids, NEW id \in Ids
  PROVE  Cardinality(Positions(Append(channel, new), id)) =
           Cardinality(Positions(channel, id)) + (IF id = new THEN 1 ELSE 0)
<1> DEFINE n == Len(channel) + 1
           old == Positions(channel, id)
<1>1. Len(channel) \in Nat /\ n \notin old
  BY DEF Positions
<1>2. Positions(Append(channel, new), id) = IF id = new THEN old \cup {n} ELSE old
  BY <1>1 DEF Positions
<1>3. IsFiniteSet(old) /\ Cardinality(old) \in Nat
  BY PositionsFinite
<1>4. Cardinality(old \cup {n}) = Cardinality(old) + 1
  <2> HIDE DEF old, n
  <2> QED BY <1>1, <1>3, FS_AddElement
<1> QED BY <1>2, <1>3, <1>4

LEMMA PositionsTail ==
  ASSUME NEW channel \in Seq(Ids), channel # << >>, NEW id \in Ids
  PROVE  Cardinality(Positions(channel, id)) =
           Cardinality(Positions(Tail(channel), id))
             + (IF id = Head(channel) THEN 1 ELSE 0)
<1> DEFINE here == Positions(channel, id)
           rest == Positions(Tail(channel), id)
           next == [k \in rest |-> k + 1]
<1>1. /\ Tail(channel) \in Seq(Ids) /\ Len(Tail(channel)) = Len(channel) - 1
      /\ Len(channel) \in Nat \ {0}
      /\ \A k \in 1 .. Len(channel) - 1 : Tail(channel)[k] = channel[k + 1]
      /\ Head(channel) = channel[1]
  OBVIOUS
<1>2. next \in Bijection(rest, here \ {1})
  <2>1. rest = {k \in 1 .. Len(channel) - 1 : channel[k + 1] = id}
    BY <1>1 DEF Positions
  <2>2. here \ {1} = {k \in 2 .. Len(channel) : channel[k] = id}
    BY <1>1 DEF Positions
  <2> HIDE DEF rest, here
  <2>3. \A k \in here \ {1} : k - 1 \in rest /\ k = (k - 1) + 1
    BY <2>1, <2>2, <1>1
  <2>4. next \in [rest -> here \ {1}]
    BY <2>1, <2>2, <1>1
  <2>5. \A k \in here \ {1} : \E j \in rest : next[j] = k
    BY <2>3
  <2>6. \A j, k \in rest : next[j] = next[k] => j = k
    BY <2>1
  <2> HIDE DEF next
  <2> QED BY <2>4, <2>5, <2>6 DEF Bijection, Injection, Surjection, IsInjective
<1>3. IsFiniteSet(rest) /\ IsFiniteSet(here) /\ Cardinality(here) \in Nat
  BY <1>1, PositionsFinite
<1>4. ExistsBijection(rest, here \ {1})
  BY <1>2 DEF ExistsBijection
<1>5. Cardinality(here \ {1}) = Cardinality(rest)
  BY <1>3, <1>4, FS_Bijection
<1>6. 1 \in here <=> id = Head(channel)
  BY <1>1 DEF Positions
<1>7. Cardinality(here \ {1}) = IF 1 \in here THEN Cardinality(here) - 1
                                 ELSE Cardinality(here)
  <2> HIDE DEF here
  <2> QED BY <1>3, FS_RemoveElement
<1> QED BY <1>3, <1>5, <1>6, <1>7

-----------------------------------------------------------------------------
(* The count of the results is kept because a batch is empty whenever       *)
(* something else is put in its place: it fills where the turn awaits its   *)
(* results or the runner drains them, and is folded before the runner is    *)
(* idle again.                                                              *)

Folding ==
  \/ at \in {"await", "fold"}
  \/ at \in {"drain", "deliver"} /\ after = "fold"

CountInv ==
  /\ results \in Seq(Ids)
  /\ pending \in [Ids -> Nat] /\ batch \in [Ids -> Nat] /\ open \in [Ids -> Nat]
  /\ NoResultLost
  /\ batch = None \/ Folding

LEMMA NoneHeld == None \in [Ids -> Nat] /\ \A id \in Ids : None[id] = 0
BY DEF None

LEMMA OneMore ==
  ASSUME NEW f \in [Ids -> Nat], NEW id \in Ids, NEW g, g = [f EXCEPT ![id] = @ + 1]
  PROVE  /\ g \in [Ids -> Nat]
         /\ \A x \in Ids : g[x] = f[x] + (IF x = id THEN 1 ELSE 0)
<1>1. f[id] + 1 \in Nat
  OBVIOUS
<1>2. g \in [Ids -> Nat]
  BY <1>1
<1>3. \A x \in Ids : g[x] = f[x] + (IF x = id THEN 1 ELSE 0)
  OBVIOUS
<1> QED BY <1>2, <1>3

LEMMA QueuedType ==
  ASSUME results \in Seq(Ids), NEW id \in Ids
  PROVE  Queued(id) \in Nat
BY PositionsFinite DEF Queued, Positions

LEMMA CountInitially == Init => CountInv
<1> SUFFICES ASSUME Init PROVE CountInv
  OBVIOUS
<1>1. /\ results = << >> /\ results \in Seq(Ids)
      /\ pending = None /\ batch = None /\ open = None
  BY DEF Init
<1>2. \A id \in Ids : Queued(id) = 0
  BY <1>1, PositionsEmpty DEF Queued, Positions
<1> QED BY <1>1, <1>2, NoneHeld DEF CountInv, NoResultLost

(* A step that moves no result.                                            *)
LEMMA NothingMoves ==
  ASSUME CountInv, UNCHANGED <<results, pending, batch, open>>,
         batch = None \/ Folding'
  PROVE  CountInv'
<1>1. \A id \in Ids : Queued(id)' = Queued(id)
  BY DEF Queued
<1> QED BY <1>1 DEF CountInv, NoResultLost, None

(* One that moves no result and leaves the runner where it is.             *)
LEMMA RunnerStays ==
  ASSUME CountInv, UNCHANGED <<results, pending, batch, open, at, after>>
  PROVE  CountInv'
BY NothingMoves DEF CountInv, Folding

LEMMA PublishCounts == ASSUME CountInv, NEW id \in Ids, Publish(id) PROVE CountInv'
<1>1. /\ results' = Append(results, id) /\ open' = [open EXCEPT ![id] = @ + 1]
      /\ UNCHANGED <<pending, batch, at, after>> /\ results \in Seq(Ids)
  BY DEF Publish, runner, CountInv
<1>2. \A x \in Ids : Queued(x)' = Queued(x) + (IF x = id THEN 1 ELSE 0)
  BY <1>1, PositionsAppend DEF Queued, Positions
<1>3. results' \in Seq(Ids)
  BY <1>1
<1>4. open' \in [Ids -> Nat]
  BY <1>1 DEF CountInv
<1>5. NoResultLost'
  <2> SUFFICES ASSUME NEW x \in Ids
               PROVE  open'[x] = Queued(x)' + pending'[x] + batch'[x]
    BY DEF NoResultLost
  <2>1. open[x] = Queued(x) + pending[x] + batch[x] /\ Queued(x) \in Nat
    BY <1>1, QueuedType DEF CountInv, NoResultLost
  <2>2. open'[x] = open[x] + (IF x = id THEN 1 ELSE 0)
    BY <1>1 DEF CountInv
  <2>3. pending[x] \in Nat /\ batch[x] \in Nat /\ open[x] \in Nat
    BY DEF CountInv
  <2> QED BY <1>1, <1>2, <2>1, <2>2, <2>3
<1> QED BY <1>1, <1>3, <1>4, <1>5 DEF CountInv, Folding, None

LEMMA AwaitResultCounts == ASSUME CountInv, AwaitResult PROVE CountInv'
<1> DEFINE id == Head(results)
<1>1. /\ results \in Seq(Ids) /\ results # << >> /\ results' = Tail(results)
      /\ UNCHANGED <<open, at, after>> /\ at = "await"
      /\ \/ batch' = [batch EXCEPT ![id] = @ + 1] /\ pending' = pending
         \/ pending' = [pending EXCEPT ![id] = @ + 1] /\ batch' = batch
  BY DEF AwaitResult, Collect, Buffer, CountInv
<1>2. id \in Ids /\ results' \in Seq(Ids)
  BY <1>1
<1> HIDE DEF id
<1>3. \A x \in Ids : Queued(x) = Queued(x)' + (IF x = id THEN 1 ELSE 0)
  BY <1>1, PositionsTail DEF Queued, Positions, id
<1>4. pending' \in [Ids -> Nat] /\ batch' \in [Ids -> Nat]
  BY <1>1, <1>2, OneMore DEF CountInv
<1>5. NoResultLost'
  <2> SUFFICES ASSUME NEW x \in Ids
               PROVE  open'[x] = Queued(x)' + pending'[x] + batch'[x]
    BY DEF NoResultLost
  <2>1. open[x] = Queued(x) + pending[x] + batch[x]
    BY DEF CountInv, NoResultLost
  <2>2. pending'[x] + batch'[x] = pending[x] + batch[x] + (IF x = id THEN 1 ELSE 0)
    <3>1. CASE batch' = [batch EXCEPT ![id] = @ + 1] /\ pending' = pending
      <4>1. batch'[x] = batch[x] + (IF x = id THEN 1 ELSE 0)
        BY <1>2, <3>1, OneMore DEF CountInv
      <4>2. batch[x] \in Nat /\ pending[x] \in Nat
        BY DEF CountInv
      <4> QED BY <3>1, <4>1, <4>2
    <3>2. CASE pending' = [pending EXCEPT ![id] = @ + 1] /\ batch' = batch
      <4>1. pending'[x] = pending[x] + (IF x = id THEN 1 ELSE 0)
        BY <1>2, <3>2, OneMore DEF CountInv
      <4>2. batch[x] \in Nat /\ pending[x] \in Nat
        BY DEF CountInv
      <4> QED BY <3>2, <4>1, <4>2
    <3> QED BY <1>1, <3>1, <3>2
  <2>3. pending[x] \in Nat /\ batch[x] \in Nat /\ Queued(x)' \in Nat
        /\ pending'[x] \in Nat /\ batch'[x] \in Nat
    <3>1. Queued(x)' \in Nat
      BY <1>2, PositionsFinite DEF Queued, Positions
    <3> QED BY <1>4, <3>1 DEF CountInv
  <2>4. open'[x] = open[x] /\ Queued(x) = Queued(x)' + (IF x = id THEN 1 ELSE 0)
    BY <1>1, <1>3
  <2> QED BY <2>1, <2>2, <2>3, <2>4
<1> QED BY <1>1, <1>2, <1>4, <1>5 DEF CountInv, Folding

(* The main agent folds what it has.                                       *)
LEMMA FoldCounts == ASSUME CountInv, Fold PROVE CountInv'
<1>1. /\ open' = [id \in Ids |-> open[id] - batch[id]] /\ batch' = None
      /\ UNCHANGED <<results, pending>>
  BY DEF Fold, team
<1>2. \A id \in Ids : Queued(id)' = Queued(id)
  BY <1>1 DEF Queued
<1>3. \A id \in Ids :
        /\ open'[id] = Queued(id) + pending[id]
        /\ Queued(id) + pending[id] \in Nat
  <2> TAKE id \in Ids
  <2>1. /\ open[id] = Queued(id) + pending[id] + batch[id]
        /\ Queued(id) \in Nat /\ pending[id] \in Nat /\ batch[id] \in Nat
    BY QueuedType DEF CountInv, NoResultLost
  <2> QED BY <1>1, <2>1
<1>4. open' \in [Ids -> Nat]
  BY <1>1, <1>3
<1>5. NoResultLost'
  BY <1>1, <1>2, <1>3, NoneHeld DEF NoResultLost, CountInv
<1> QED BY <1>1, <1>4, <1>5, NoneHeld DEF CountInv, None

(* The batch was empty when it is taken from what is pending.              *)
LEMMA DeliveredCounts == ASSUME CountInv, Delivered PROVE CountInv'
<1>1. /\ at = "deliver" /\ at' = after /\ after' = after
      /\ UNCHANGED <<results, open>>
      /\ IF after = "await" THEN batch' = pending /\ pending' = None
                            ELSE UNCHANGED <<batch, pending>>
  BY DEF Delivered
<1>2. CASE after = "await"
  <2>1. batch = None
    BY <1>1, <1>2 DEF CountInv, Folding
  <2>2. \A id \in Ids : Queued(id)' = Queued(id)
    BY <1>1 DEF Queued
  <2>3. NoResultLost'
    <3> SUFFICES ASSUME NEW id \in Ids
                 PROVE  open'[id] = Queued(id)' + pending'[id] + batch'[id]
      BY DEF NoResultLost
    <3>1. /\ open[id] = Queued(id) + pending[id] + 0
          /\ Queued(id) \in Nat /\ pending[id] \in Nat
      BY <2>1, NoneHeld, QueuedType DEF CountInv, NoResultLost
    <3> QED BY <1>1, <1>2, <2>2, <3>1, NoneHeld
  <2> QED BY <1>1, <1>2, <2>3, NoneHeld DEF CountInv, Folding
<1>3. CASE after # "await"
  BY <1>1, <1>3, NothingMoves DEF CountInv, Folding
<1> QED BY <1>2, <1>3

(* And when the channel is drained into it.                                *)
LEMMA DrainResultsCounts == ASSUME CountInv, DrainResults PROVE CountInv'
<1>1. /\ at = "drain_results" /\ at' = "drain" /\ after' = "fold"
      /\ batch' = [id \in Ids |-> pending[id] + Queued(id)] /\ pending' = None
      /\ results' = << >> /\ open' = open
  BY DEF DrainResults
<1>2. batch = None
  BY <1>1 DEF CountInv, Folding
<1>3. \A id \in Ids : Queued(id)' = 0
  BY <1>1, PositionsEmpty DEF Queued, Positions
<1>4. \A id \in Ids : /\ open[id] = Queued(id) + pending[id] + 0
                      /\ Queued(id) \in Nat /\ pending[id] \in Nat
  BY <1>2, NoneHeld, QueuedType DEF CountInv, NoResultLost
<1>5. batch' \in [Ids -> Nat] /\ results' \in Seq(Ids)
  BY <1>1, <1>4
<1>6. NoResultLost'
  <2> SUFFICES ASSUME NEW id \in Ids
               PROVE  open'[id] = Queued(id)' + pending'[id] + batch'[id]
    BY DEF NoResultLost
  <2>1. /\ open'[id] = open[id] /\ Queued(id)' = 0 /\ pending'[id] = 0
        /\ batch'[id] = pending[id] + Queued(id)
    BY <1>1, <1>3, NoneHeld
  <2> QED BY <1>4, <2>1
<1> QED BY <1>1, <1>5, <1>6, NoneHeld DEF CountInv, Folding

LEMMA RunnerCounts == ASSUME CountInv, RunnerStep PROVE CountInv'
<1> USE DEF runner, team
<1>1. CASE EndMarkers
  BY <1>1, NothingMoves DEF EndMarkers, CountInv, Folding
<1>2. CASE Killed
  BY <1>2, NothingMoves DEF Killed, CountInv, Folding
<1>3. CASE DrainMarkers
  BY <1>3, NothingMoves DEF DrainMarkers, CountInv, Folding
<1>4. CASE Deliver
  BY <1>4, RunnerStays DEF Deliver
<1>5. CASE NoResult
  BY <1>5, RunnerStays DEF NoResult
<1>6. CASE AwaitExit
  BY <1>6, RunnerStays DEF AwaitExit
<1>7. CASE NoExit
  BY <1>7, RunnerStays DEF NoExit
<1>8. CASE Awaited
  BY <1>8, NothingMoves DEF Awaited, Folding
<1>9. CASE Close
  BY <1>9, NothingMoves DEF Close, CountInv, Folding
<1>10. ASSUME NEW id \in Ids, Respawn(id) PROVE CountInv'
  BY <1>10, NothingMoves DEF Respawn, SpawnNamed, Born, CountInv, Folding
<1>11. ASSUME NEW id \in Ids, ShutdownKill(id) PROVE CountInv'
  BY <1>11, NothingMoves DEF ShutdownKill, Kill, CountInv, Folding
<1> QED BY <1>1, <1>2, <1>3, <1>4, <1>5, <1>6, <1>7, <1>8, <1>9, <1>10, <1>11,
          AwaitResultCounts, FoldCounts, DeliveredCounts, DrainResultsCounts
       DEF RunnerStep

LEMMA MainCounts == ASSUME CountInv, MainStep PROVE CountInv'
<1> USE DEF runner, team
<1>1. CASE BeginTurn \/ BeginDrain \/ Shutdown \/ SendFromMain
  BY <1>1, NothingMoves
     DEF BeginTurn, BeginDrain, Shutdown, SendFromMain, CountInv, Folding
<1>2. ASSUME NEW id \in Ids, SpawnEphemeral(id) \/ SpawnResident(id) PROVE CountInv'
  BY <1>2, NothingMoves
     DEF SpawnEphemeral, SpawnResident, SpawnNamed, Born, CountInv, Folding
<1>3. ASSUME NEW id \in Ids, Replace(id) PROVE CountInv'
  BY <1>3, NothingMoves DEF Replace, Kill, CountInv, Folding
<1> QED BY <1>1, <1>2, <1>3 DEF MainStep

LEMMA TeammateCounts ==
  ASSUME CountInv, NEW id \in Ids, MateStep(id) \/ Panic(id)
  PROVE  CountInv'
<1>1. CASE TakeTask(id) \/ SeeCancel(id) \/ EndWork(id) \/ SendMarker(id) \/ Exit(id)
           \/ Panic(id)
  BY <1>1, RunnerStays DEF TakeTask, SeeCancel, EndWork, SendMarker, Exit, Panic, runner
<1> QED BY <1>1, PublishCounts DEF MateStep

(* No result a teammate published is lost or folded twice: it is in the    *)
(* result channel, kept in `pending` for a later turn by await_results, or *)
(* in the batch the turn is about to fold, whatever the runner was doing   *)
(* when it arrived.                                                        *)
THEOREM NoResultLostHolds == Spec => []NoResultLost
<1>1. ASSUME CountInv, [Next]_vars PROVE CountInv'
  <2>1. CASE Next
    BY <1>1, <2>1, RunnerCounts, MainCounts, TeammateCounts DEF Next
  <2>2. CASE UNCHANGED vars
    BY <1>1, <2>2, RunnerStays DEF vars, runner, team
  <2> QED BY <1>1, <2>1, <2>2
<1>2. CountInv => NoResultLost
  BY DEF CountInv
<1> QED BY CountInitially, <1>1, <1>2, PTL DEF Spec

=============================================================================
