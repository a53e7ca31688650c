--------------------------- MODULE ToolTurnProofs ---------------------------
(***************************************************************************)
(* Proofs about ToolTurn, for any number of attempts and calls, any        *)
(* concurrency limit and any set of blocks: the inductive invariant        *)
(* TurnInv, the safety properties it implies, on top of it the gates that  *)
(* plan mode and a failed Bash put on the calls of a batch, and that the   *)
(* turn implements TurnContract.                                           *)
(***************************************************************************)
EXTENDS ToolTurn, TLAPS

LEMMA IdInCalls ==
  ASSUME TypeOK, NEW s \in Slots
  PROVE  Id(s) \in Calls
BY ToolTurnAssumption DEF TypeOK, Slots, Id, Calls

LEMMA InitTurnInv == Init => TurnInv
<1> SUFFICES ASSUME Init PROVE TurnInv
  OBVIOUS
<1> USE DEF Init
<1>1. TypeOK
  <2>1. attempt \in 1 .. MaxAttempts /\ Len(blocks) <= MaxCalls
    BY ToolTurnAssumption
  <2>2. blocks \in Seq(Blocks)
    OBVIOUS
  <2>3. cancelled \in BOOLEAN /\ gate \in BOOLEAN /\ writesOff \in BOOLEAN
    OBVIOUS
  <2>4. /\ call \in [Calls -> CallStates] /\ outcome \in [Calls -> Outcomes]
        /\ runs \in [Calls -> Nat]
    BY DEF CallStates, Outcomes
  <2> QED
    BY <2>1, <2>2, <2>3, <2>4 DEF TypeOK, Phases
<1>2. RunsInv
  BY DEF RunsInv
<1>3. FutureInv
  BY DEF FutureInv
<1>4. StreamInv
  BY DEF StreamInv, Slots
<1>5. BatchInv
  BY DEF BatchInv
<1> QED
  BY <1>1, <1>2, <1>3, <1>4, <1>5 DEF TurnInv

(* A new block becomes the last one, and its call gets a state.            *)
LEMMA AppendBlock ==
  ASSUME TypeOK, NEW b \in Blocks, NEW st \in CallStates,
         Len(blocks) < MaxCalls,
         blocks' = Append(blocks, b),
         attempt' = attempt,
         call' = [call EXCEPT ![<<attempt, Len(blocks) + 1>>] = st]
  PROVE  /\ <<attempt, Len(blocks) + 1>> \in Calls
         /\ Len(blocks) \in Nat
         /\ blocks' \in Seq(Blocks)
         /\ Len(blocks') = Len(blocks) + 1
         /\ Slots' = Slots \cup {Len(blocks) + 1}
         /\ blocks'[Len(blocks) + 1] = b
         /\ \A s \in Slots : blocks'[s] = blocks[s]
         /\ call' \in [Calls -> CallStates]
         /\ call'[<<attempt, Len(blocks) + 1>>] = st
         /\ \A c \in Calls : c # <<attempt, Len(blocks) + 1>> => call'[c] = call[c]
<1>1. Len(blocks) \in Nat /\ attempt \in 1 .. MaxAttempts
  BY DEF TypeOK
<1>2. <<attempt, Len(blocks) + 1>> \in Calls
  BY <1>1, ToolTurnAssumption DEF Calls
<1>3. /\ blocks' \in Seq(Blocks)
      /\ Len(blocks') = Len(blocks) + 1
      /\ blocks'[Len(blocks) + 1] = b
      /\ \A s \in 1 .. Len(blocks) : blocks'[s] = blocks[s]
  BY <1>1 DEF TypeOK
<1>4. Slots' = Slots \cup {Len(blocks) + 1}
  BY <1>1, <1>3 DEF Slots
<1>5. /\ call' \in [Calls -> CallStates]
      /\ call'[<<attempt, Len(blocks) + 1>>] = st
      /\ \A c \in Calls : c # <<attempt, Len(blocks) + 1>> => call'[c] = call[c]
  BY <1>2 DEF TypeOK
<1> QED
  BY <1>1, <1>2, <1>3, <1>4, <1>5 DEF Slots

LEMMA StreamBlockTurnInv ==
  ASSUME TurnInv, NEW b \in Blocks, StreamBlock(b)
  PROVE  TurnInv'
<1> DEFINE n == Len(blocks) + 1
           st == IF Eligible(b) THEN "spawned" ELSE "deferred"
<1>1. /\ phase = "streaming" /\ phase' = "streaming" /\ attempt' = attempt
      /\ Len(blocks) < MaxCalls /\ blocks' = Append(blocks, b)
      /\ call' = [call EXCEPT ![<<attempt, Len(blocks) + 1>>] = st]
      /\ UNCHANGED <<outcome, runs, hooked, todo, writes>>
  BY DEF StreamBlock, groupVars
<1>2. UNCHANGED <<cancelled, planMode, gate, writesOff>>
  BY DEF StreamBlock, groupVars, planVars
<1>3. TypeOK /\ RunsInv /\ FutureInv /\ StreamInv
  BY DEF TurnInv
<1>4. st \in CallStates
  BY DEF CallStates
<1>5. /\ <<attempt, n>> \in Calls
      /\ Len(blocks) \in Nat
      /\ blocks' \in Seq(Blocks)
      /\ Len(blocks') = n
      /\ Slots' = Slots \cup {n}
      /\ blocks'[n] = b
      /\ \A s \in Slots : blocks'[s] = blocks[s]
      /\ call' \in [Calls -> CallStates]
      /\ call'[<<attempt, n>>] = st
      /\ \A c \in Calls : c # <<attempt, n>> => call'[c] = call[c]
  <2> HIDE DEF st
  <2> QED
    BY <1>1, <1>3, <1>4, AppendBlock
<1> HIDE DEF st, n
<1>6. TypeOK'
  <2>1. Len(blocks') <= MaxCalls /\ attempt' \in 1 .. MaxAttempts
    BY <1>1, <1>3, <1>5, ToolTurnAssumption DEF TypeOK, n
  <2>2. todo' \subseteq Slots' /\ writes' \subseteq Slots'
    BY <1>1, <1>3, <1>5 DEF TypeOK
  <2>3. /\ cancelled' \in BOOLEAN /\ planMode' \in BOOLEAN /\ gate' \in BOOLEAN
        /\ writesOff' \in BOOLEAN
    BY <1>2, <1>3, Zenon DEF TypeOK
  <2> QED
    BY <1>1, <1>3, <1>5, <2>1, <2>2, <2>3 DEF TypeOK, Phases
<1>7. RunsInv'
  BY <1>1, <1>3, <1>5 DEF RunsInv, FutureInv, Waiting, st, n
<1>8. FutureInv'
  BY <1>1, <1>3, <1>5 DEF FutureInv, n, Calls
<1>9. StreamInv'
  BY <1>1, <1>3, <1>5, IdInCalls DEF StreamInv, Slots, Id, Eligible, Stale, st, n, ConcurrencySafe
<1>10. BatchInv'
  BY <1>1 DEF BatchInv
<1> QED
  BY <1>6, <1>7, <1>8, <1>9, <1>10 DEF TurnInv

LEMMA StreamEndOpenBlockTurnInv ==
  ASSUME TurnInv, NEW b \in Blocks, StreamEndOpenBlock(b)
  PROVE  TurnInv'
<1> DEFINE n == Len(blocks) + 1
<1>1. /\ phase = "streaming" /\ phase' = "collecting" /\ attempt' = attempt
      /\ Len(blocks) < MaxCalls /\ blocks' = Append(blocks, b)
      /\ call' = [call EXCEPT ![<<attempt, Len(blocks) + 1>>] = "deferred"]
      /\ UNCHANGED <<outcome, runs, hooked, todo, writes>>
  BY DEF StreamEndOpenBlock, groupVars
<1>2. UNCHANGED <<cancelled, planMode, gate, writesOff>>
  BY DEF StreamEndOpenBlock, groupVars, planVars
<1>3. TypeOK /\ RunsInv /\ FutureInv /\ StreamInv
  BY DEF TurnInv
<1>5. /\ <<attempt, n>> \in Calls
      /\ Len(blocks) \in Nat
      /\ blocks' \in Seq(Blocks)
      /\ Len(blocks') = n
      /\ Slots' = Slots \cup {n}
      /\ blocks'[n] = b
      /\ \A s \in Slots : blocks'[s] = blocks[s]
      /\ call' \in [Calls -> CallStates]
      /\ call'[<<attempt, n>>] = "deferred"
      /\ \A c \in Calls : c # <<attempt, n>> => call'[c] = call[c]
  <2>1. "deferred" \in CallStates
    BY DEF CallStates
  <2> QED
    BY <1>1, <1>3, <2>1, AppendBlock
<1> HIDE DEF n
<1>6. TypeOK'
  <2>1. Len(blocks') <= MaxCalls /\ attempt' \in 1 .. MaxAttempts
    BY <1>1, <1>3, <1>5, ToolTurnAssumption DEF TypeOK, n
  <2>2. todo' \subseteq Slots' /\ writes' \subseteq Slots'
    BY <1>1, <1>3, <1>5 DEF TypeOK
  <2>3. /\ cancelled' \in BOOLEAN /\ planMode' \in BOOLEAN /\ gate' \in BOOLEAN
        /\ writesOff' \in BOOLEAN
    BY <1>2, <1>3, Zenon DEF TypeOK
  <2> QED
    BY <1>1, <1>3, <1>5, <2>1, <2>2, <2>3 DEF TypeOK, Phases
<1>7. RunsInv'
  BY <1>1, <1>3, <1>5 DEF RunsInv, FutureInv, Waiting, n
<1>8. FutureInv'
  BY <1>1, <1>3, <1>5 DEF FutureInv, n, Calls
<1>9. StreamInv'
  BY <1>1, <1>3, <1>5, IdInCalls DEF StreamInv, Slots, Id, Stale, n, Eligible, ConcurrencySafe
<1>10. BatchInv'
  BY <1>1 DEF BatchInv
<1> QED
  BY <1>6, <1>7, <1>8, <1>9, <1>10 DEF TurnInv

(* A step that moves the phase, the plan mode or the token, and no call.   *)
LEMMA FrameTypeOK ==
  ASSUME TypeOK, phase' \in Phases, UNCHANGED <<attempt, blocks>>,
         call' \in [Calls -> CallStates], outcome' \in [Calls -> Outcomes],
         runs' \in [Calls -> Nat], hooked' \subseteq Calls,
         todo' \subseteq Slots, writes' \subseteq Slots,
         cancelled' \in BOOLEAN, planMode' \in BOOLEAN, gate' \in BOOLEAN,
         writesOff' \in BOOLEAN
  PROVE  TypeOK' /\ Slots' = Slots
BY DEF TypeOK, Slots

LEMMA StreamFailTurnInv ==
  ASSUME TurnInv, StreamFail
  PROVE  TurnInv'
<1>1. /\ phase = "streaming" /\ phase' \in {"failed", "backoff"}
      /\ UNCHANGED <<attempt, blocks, outcome, runs, hooked, todo, writes>>
  BY DEF StreamFail, groupVars, streamVars
<1>2. UNCHANGED <<cancelled, planMode, gate, writesOff>>
  BY DEF StreamFail, groupVars, planVars
<1>3. TypeOK /\ RunsInv /\ FutureInv /\ StreamInv
  BY DEF TurnInv
<1>4. PICK polled \in SUBSET {s \in Slots : call[Id(s)] \in Live} :
        call' = [c \in Calls |->
                   IF c[1] = attempt /\ call[c] \in Live /\ c[2] \notin polled
                   THEN "aborted" ELSE call[c]]
  BY DEF StreamFail
<1>5. /\ call' \in [Calls -> CallStates]
      /\ \A c \in Calls : \/ call'[c] = call[c]
                          \/ call[c] \in Live /\ call'[c] = "aborted"
  BY <1>3, <1>4 DEF TypeOK, CallStates
<1>6. TypeOK' /\ Slots' = Slots
  <2>1. /\ cancelled' \in BOOLEAN /\ planMode' \in BOOLEAN /\ gate' \in BOOLEAN
        /\ writesOff' \in BOOLEAN
    BY <1>2, <1>3, Zenon DEF TypeOK
  <2>2. phase' \in Phases
    BY <1>1 DEF Phases
  <2>3. /\ outcome' \in [Calls -> Outcomes] /\ runs' \in [Calls -> Nat]
        /\ hooked' \subseteq Calls /\ todo' \subseteq Slots /\ writes' \subseteq Slots
        /\ UNCHANGED <<attempt, blocks>>
    BY <1>1, <1>3 DEF TypeOK
  <2> QED
    BY <1>3, <1>5, <2>1, <2>2, <2>3, FrameTypeOK
<1>7. RunsInv'
  BY <1>1, <1>3, <1>5 DEF RunsInv, Waiting
<1>8. FutureInv'
  BY <1>1, <1>3, <1>5 DEF FutureInv, Live
<1>9. StreamInv'
  <2>1. phase' = "backoff" => AttemptLeft
    BY <1>1 DEF StreamFail
  <2>2. phase' = "backoff" => AttemptLeft'
    BY <1>1, <2>1 DEF AttemptLeft
  <2> QED
    BY <1>1, <1>3, <1>5, <1>6, <2>2, IdInCalls DEF StreamInv, Id, Stale, Live, Eligible, ConcurrencySafe
<1>10. BatchInv'
  BY <1>1 DEF BatchInv
<1> QED
  BY <1>6, <1>7, <1>8, <1>9, <1>10 DEF TurnInv

LEMMA RetryTurnInv ==
  ASSUME TurnInv, Retry
  PROVE  TurnInv'
<1>1. /\ phase = "backoff" /\ phase' = "streaming"
      /\ attempt' = attempt + 1 /\ blocks' = << >>
      /\ UNCHANGED <<call, outcome, runs, hooked, todo, writes>>
  BY DEF Retry, groupVars
<1>2. UNCHANGED <<cancelled, planMode, gate, writesOff>>
  BY DEF Retry, groupVars, planVars
<1>3. TypeOK /\ RunsInv /\ FutureInv /\ StreamInv
  BY DEF TurnInv
<1>4. Slots' = {}
  BY <1>1 DEF Slots
<1>5. todo = {} /\ writes = {}
  BY <1>1, <1>3 DEF StreamInv
<1>6. TypeOK'
  <2>1. /\ cancelled' \in BOOLEAN /\ planMode' \in BOOLEAN /\ gate' \in BOOLEAN
        /\ writesOff' \in BOOLEAN
    BY <1>2, <1>3, Zenon DEF TypeOK
  <2>2. attempt' \in 1 .. MaxAttempts /\ Len(blocks') <= MaxCalls
    BY <1>1, <1>3, ToolTurnAssumption DEF TypeOK, StreamInv, AttemptLeft
  <2> QED
    BY <1>1, <1>3, <1>4, <1>5, <2>1, <2>2 DEF TypeOK, Phases
<1>7. RunsInv'
  BY <1>1, <1>3 DEF RunsInv
<1>8. FutureInv'
  BY <1>1, <1>3 DEF FutureInv, TypeOK, Calls
<1>9. StreamInv'
  BY <1>1, <1>3, <1>4 DEF StreamInv
<1>10. BatchInv'
  BY <1>1 DEF BatchInv
<1> QED
  BY <1>6, <1>7, <1>8, <1>9, <1>10 DEF TurnInv

(* MessageStop, the end of a group and the interruption move no call.      *)
LEMMA StreamEndTurnInv ==
  ASSUME TurnInv, StreamEnd
  PROVE  TurnInv'
<1>1. /\ phase = "streaming" /\ phase' = "collecting"
      /\ UNCHANGED <<attempt, blocks, call, outcome, runs, hooked, todo, writes>>
  BY DEF StreamEnd, groupVars, streamVars
<1>2. UNCHANGED <<cancelled, planMode, gate, writesOff>>
  BY DEF StreamEnd, groupVars, planVars
<1>3. TypeOK /\ RunsInv /\ FutureInv /\ StreamInv
  BY DEF TurnInv
<1>4. TypeOK' /\ Slots' = Slots
  <2>1. /\ cancelled' \in BOOLEAN /\ planMode' \in BOOLEAN /\ gate' \in BOOLEAN
        /\ writesOff' \in BOOLEAN
    BY <1>2, <1>3, Zenon DEF TypeOK
  <2> QED
    BY <1>1, <1>3, <2>1, FrameTypeOK DEF TypeOK, Phases
<1>5. RunsInv' /\ FutureInv'
  BY <1>1, <1>3 DEF RunsInv, FutureInv
<1>6. StreamInv'
  BY <1>1, <1>3, <1>4, IdInCalls DEF StreamInv, Id, Stale, Eligible, ConcurrencySafe
<1>7. BatchInv'
  BY <1>1 DEF BatchInv
<1> QED
  BY <1>4, <1>5, <1>6, <1>7 DEF TurnInv

LEMMA CancelTurnInv ==
  ASSUME TurnInv, Cancel
  PROVE  TurnInv'
<1>1. UNCHANGED <<phase, attempt, blocks, call, outcome, runs, hooked, todo, writes>>
  BY DEF Cancel, groupVars, streamVars
<1>2. cancelled' \in BOOLEAN /\ UNCHANGED <<planMode, gate, writesOff>>
  BY DEF Cancel, groupVars, planVars
<1>3. TypeOK /\ RunsInv /\ FutureInv /\ StreamInv /\ BatchInv
  BY DEF TurnInv
<1>4. TypeOK' /\ Slots' = Slots
  <2>1. /\ cancelled' \in BOOLEAN /\ planMode' \in BOOLEAN /\ gate' \in BOOLEAN
        /\ writesOff' \in BOOLEAN
    BY <1>2, <1>3, Zenon DEF TypeOK
  <2> QED
    BY <1>1, <1>3, <2>1, FrameTypeOK DEF TypeOK
<1>5. RunsInv' /\ FutureInv'
  BY <1>1, <1>3 DEF RunsInv, FutureInv
<1>6. StreamInv'
  BY <1>1, <1>3, <1>4 DEF StreamInv, Id, Stale, Eligible, ConcurrencySafe, AttemptLeft
<1>7. BatchInv'
  BY <1>1, <1>3, <1>4 DEF BatchInv, InConcurrentGroup, InSequentialGroup,
     IsMalformed, IsAnswered, Malformed, Id, ConcurrencySafe
<1> QED
  BY <1>4, <1>5, <1>6, <1>7 DEF TurnInv

LEMMA ConcurrentDoneTurnInv ==
  ASSUME TurnInv, ConcurrentDone
  PROVE  TurnInv'
<1>1. /\ phase = "concurrent" /\ phase' = "sequential" /\ GroupDone
      /\ UNCHANGED <<attempt, blocks, call, outcome, runs, hooked, todo, writes>>
  BY DEF ConcurrentDone, groupVars, streamVars
<1>2. UNCHANGED <<cancelled, planMode, gate, writesOff>>
  BY DEF ConcurrentDone, groupVars, planVars
<1>3. TypeOK /\ RunsInv /\ FutureInv /\ BatchInv
  BY DEF TurnInv
<1>4. TypeOK' /\ Slots' = Slots
  <2>1. /\ cancelled' \in BOOLEAN /\ planMode' \in BOOLEAN /\ gate' \in BOOLEAN
        /\ writesOff' \in BOOLEAN
    BY <1>2, <1>3, Zenon DEF TypeOK
  <2> QED
    BY <1>1, <1>3, <2>1, FrameTypeOK DEF TypeOK, Phases
<1>5. RunsInv' /\ FutureInv'
  BY <1>1, <1>3 DEF RunsInv, FutureInv
<1>6. StreamInv'
  BY <1>1 DEF StreamInv
<1>7. BatchInv'
  BY <1>1, <1>3, <1>4 DEF BatchInv, InConcurrentGroup, InSequentialGroup,
     IsMalformed, IsAnswered, Malformed, Id, ConcurrencySafe, GroupDone, InFlight
<1> QED
  BY <1>4, <1>5, <1>6, <1>7 DEF TurnInv

LEMMA SequentialDoneTurnInv ==
  ASSUME TurnInv, SequentialDone
  PROVE  TurnInv'
<1>1. /\ phase = "sequential" /\ phase' = "answered" /\ writes = {}
      /\ UNCHANGED <<attempt, blocks, call, outcome, runs, hooked, todo, writes>>
  BY DEF SequentialDone, groupVars, streamVars
<1>2. UNCHANGED <<cancelled, planMode, gate, writesOff>>
  BY DEF SequentialDone, groupVars, planVars
<1>3. TypeOK /\ RunsInv /\ FutureInv /\ BatchInv
  BY DEF TurnInv
<1>4. TypeOK' /\ Slots' = Slots
  <2>1. /\ cancelled' \in BOOLEAN /\ planMode' \in BOOLEAN /\ gate' \in BOOLEAN
        /\ writesOff' \in BOOLEAN
    BY <1>2, <1>3, Zenon DEF TypeOK
  <2> QED
    BY <1>1, <1>3, <2>1, FrameTypeOK DEF TypeOK, Phases
<1>5. RunsInv' /\ FutureInv'
  BY <1>1, <1>3 DEF RunsInv, FutureInv
<1>6. StreamInv'
  BY <1>1 DEF StreamInv
<1>7. BatchInv'
  BY <1>1, <1>3, <1>4 DEF BatchInv, InConcurrentGroup, InSequentialGroup,
     IsMalformed, IsAnswered, Malformed, Id, ConcurrencySafe
<1> QED
  BY <1>4, <1>5, <1>6, <1>7 DEF TurnInv

(* A step of an eager task: whatever it moves is a call of an attempt that *)
(* is over, or one the batch has not taken over.                           *)
LEMMA TaskMoveTurnInv ==
  ASSUME TurnInv, NEW c \in Calls,
         NEW st \in {"running", "finished", "answered", "panicked", "aborted"},
         call[c] \in Live,
         call[c] = "running" => Eager(c),
         st = "aborted" => Stale(c),
         call' = [call EXCEPT ![c] = st],
         runs' = runs \/ (call[c] = "spawned" /\ runs' = [runs EXCEPT ![c] = @ + 1]),
         UNCHANGED <<outcome, taskFrame>>
  PROVE  TurnInv'
<1>1. UNCHANGED <<phase, attempt, blocks, outcome, hooked, todo, writes>>
  BY DEF taskFrame, groupVars, streamVars
<1>2. UNCHANGED <<cancelled, planMode, gate, writesOff>>
  BY DEF taskFrame, groupVars, planVars
<1>3. TypeOK /\ RunsInv /\ FutureInv /\ StreamInv /\ BatchInv
  BY DEF TurnInv
<1>4. /\ call' \in [Calls -> CallStates] /\ call'[c] = st
      /\ \A d \in Calls : d # c => call'[d] = call[d]
  BY <1>3 DEF TypeOK, CallStates
<1>5. /\ runs' \in [Calls -> Nat]
      /\ runs'[c] \in {runs[c], runs[c] + 1}
      /\ call[c] # "spawned" => runs'[c] = runs[c]
      /\ \A d \in Calls : d # c => runs'[d] = runs[d]
  BY <1>3 DEF TypeOK
<1>6. TypeOK' /\ Slots' = Slots
  <2>1. /\ cancelled' \in BOOLEAN /\ planMode' \in BOOLEAN /\ gate' \in BOOLEAN
        /\ writesOff' \in BOOLEAN
    BY <1>2, <1>3, Zenon DEF TypeOK
  <2>2. /\ outcome' \in [Calls -> Outcomes] /\ phase' \in Phases
        /\ hooked' \subseteq Calls /\ todo' \subseteq Slots /\ writes' \subseteq Slots
        /\ UNCHANGED <<attempt, blocks>>
    BY <1>1, <1>3 DEF TypeOK
  <2> QED
    BY <1>3, <1>4, <1>5, <2>1, <2>2, FrameTypeOK
<1>7. RunsInv'
  BY <1>3, <1>4, <1>5 DEF RunsInv, Waiting, TypeOK, Live
<1>8. FutureInv'
  BY <1>1, <1>3, <1>4 DEF FutureInv, Live
<1>9. StreamInv'
  BY <1>1, <1>3, <1>4, <1>6, IdInCalls DEF StreamInv, Id, Stale, Live, Eligible, ConcurrencySafe, AttemptLeft
<1>10. BatchInv'
  <2> SUFFICES ASSUME phase \in {"concurrent", "sequential", "answered"}
               PROVE  BatchInv'
    BY <1>1 DEF BatchInv
  <2>1. c[1] # attempt \/ call[c] # "running"
    BY DEF Eager, Stale
  <2>2. \A s \in Slots : Id(s) # c
    BY <1>3, <2>1 DEF BatchInv, InConcurrentGroup, InSequentialGroup,
       IsMalformed, IsAnswered, Id, Live
  <2>3. \A s \in Slots : call'[Id(s)] = call[Id(s)] /\ Id(s)' = Id(s)
    BY <1>1, <1>3, <1>4, <2>2, IdInCalls DEF Id
  <2> QED
    BY <1>1, <1>3, <1>6, <2>3 DEF BatchInv, InConcurrentGroup, InSequentialGroup,
       IsMalformed, IsAnswered, Malformed, Id, ConcurrencySafe
<1> QED
  BY <1>6, <1>7, <1>8, <1>9, <1>10 DEF TurnInv

LEMMA TaskStepTurnInv ==
  ASSUME TurnInv, NEW c \in Calls, TaskStep(c)
  PROVE  TurnInv'
<1>1. CASE TaskStart(c)
  BY <1>1, TaskMoveTurnInv DEF TaskStart, Live
<1>2. CASE TaskFinish(c)
  BY <1>2, TaskMoveTurnInv DEF TaskFinish, Live
<1>3. CASE TaskReport(c)
  BY <1>3, TaskMoveTurnInv DEF TaskReport, Live
<1>4. CASE TaskPanic(c)
  BY <1>4, TaskMoveTurnInv DEF TaskPanic, Live
<1>5. CASE TaskDrop(c)
  BY <1>5, TaskMoveTurnInv DEF TaskDrop, Live, Eager
<1> QED
  BY <1>1, <1>2, <1>3, <1>4, <1>5 DEF TaskStep

(* Everything the eager tasks left undone is handed to the batch.          *)
LEMMA CollectInlineTurnInv ==
  ASSUME TurnInv, CollectInline
  PROVE  TurnInv'
<1>1. /\ phase = "collecting" /\ phase' = "concurrent"
      /\ \A s \in Slots : call[Id(s)] \notin Live
      /\ UNCHANGED <<attempt, blocks, call, runs, hooked, cancelled, writesOff>>
      /\ todo' = {s \in Slots \ Skipped : ConcurrencySafe(blocks[s])}
      /\ writes' = {s \in Slots \ Skipped : ~ConcurrencySafe(blocks[s])}
  BY DEF CollectInline, streamVars
<1>2. TypeOK /\ RunsInv /\ FutureInv /\ StreamInv
  BY DEF TurnInv
<1>3. PICK good \in SUBSET {s \in Inline : call[Id(s)] = "answered"} :
        outcome' = [c \in Calls |->
                      IF c[1] = attempt /\ c[2] \in Inline
                      THEN IF c[2] \in good THEN "ok" ELSE "error"
                      ELSE outcome[c]]
  BY DEF CollectInline
<1>4. /\ outcome' \in [Calls -> Outcomes]
      /\ \A c \in Calls : outcome'[c] # "none" <=> c[1] = attempt /\ c[2] \in Inline
  BY <1>1, <1>2, <1>3 DEF TypeOK, Outcomes, StreamInv
<1>5. TypeOK' /\ Slots' = Slots
  <2>1. /\ cancelled' \in BOOLEAN /\ writesOff' \in BOOLEAN
    BY <1>1, <1>2, Zenon DEF TypeOK
  <2>2. gate' \in BOOLEAN
    <3>1. gate' = BatchGated
      BY DEF CollectInline
    <3>2. CASE planMode
      BY <3>1, <3>2, Zenon DEF BatchGated
    <3>3. CASE ~planMode
      <4>1. BatchGated \in BOOLEAN
        BY <3>3, Zenon DEF BatchGated
      <4> QED
        BY <3>1, <4>1
    <3> QED
      BY <3>2, <3>3
  <2>3. planMode' \in BOOLEAN
    <3>1. planMode' = NextPlanMode /\ planMode \in BOOLEAN
      BY <1>2 DEF CollectInline, TypeOK
    <3> QED
      BY <3>1, Zenon DEF NextPlanMode
  <2>4. /\ call' \in [Calls -> CallStates] /\ phase' \in Phases
        /\ runs' \in [Calls -> Nat] /\ hooked' \subseteq Calls
        /\ UNCHANGED <<attempt, blocks>>
    BY <1>1, <1>2 DEF TypeOK, Phases
  <2>5. todo' \subseteq Slots /\ writes' \subseteq Slots
    BY <1>1
  <2> QED
    BY <1>2, <1>4, <2>1, <2>2, <2>3, <2>4, <2>5, FrameTypeOK
<1>6. RunsInv' /\ FutureInv'
  BY <1>1, <1>2 DEF RunsInv, FutureInv
<1>7. StreamInv'
  BY <1>1 DEF StreamInv
<1>8. BatchInv'
  <2>1. \A c \in Calls : outcome'[c] # "none" => c[1] = attempt'
    BY <1>1, <1>4
  <2>2. \A s \in Slots :
          /\ Id(s) \in Calls /\ Id(s)' = Id(s)
          /\ call'[Id(s)] = call[Id(s)]
          /\ call[Id(s)] \in {"deferred", "answered", "panicked"}
          /\ s \in Inline <=> call[Id(s)] \in {"answered", "panicked"}
          /\ outcome'[Id(s)] # "none" <=> s \in Inline
          /\ ConcurrencySafe(blocks'[s]) <=> ConcurrencySafe(blocks[s])
          /\ s \in Malformed' <=> s \in Malformed
    <3>1. \A s \in Slots : Id(s) \in Calls /\ Id(s)' = Id(s)
      BY <1>1, <1>2, IdInCalls DEF Id
    <3>2. \A s \in Slots : call[Id(s)] \in {"deferred", "answered", "panicked"}
      BY <1>1, <1>2, <3>1 DEF TypeOK, CallStates, Live, StreamInv, Stale, Id
    <3>3. \A s \in Slots : s \in Inline <=> call[Id(s)] \in {"answered", "panicked"}
      BY DEF Inline
    <3>4. \A s \in Slots : outcome'[Id(s)] # "none" <=> s \in Inline
      BY <1>4, <3>1 DEF Id
    <3>5. \A s \in Slots : s \in Malformed' <=> s \in Malformed
      BY <1>1, <1>5 DEF Malformed
    <3> QED
      BY <1>1, <3>1, <3>2, <3>3, <3>4, <3>5 DEF ConcurrencySafe
  <2>3. \A s \in Slots :
          \/ InConcurrentGroup(s)' \/ InSequentialGroup(s)'
          \/ IsMalformed(s)' \/ IsAnswered(s)'
    BY <1>1, <1>5, <2>2 DEF InConcurrentGroup, InSequentialGroup, IsMalformed,
       IsAnswered, Skipped
  <2> QED
    BY <1>5, <2>1, <2>3 DEF BatchInv
<1> QED
  BY <1>5, <1>6, <1>7, <1>8 DEF TurnInv

(* A step of the batch that moves the call of one slot.                    *)
LEMMA BatchMoveTurnInv ==
  ASSUME TurnInv, NEW s \in Slots, NEW st \in CallStates, NEW o \in Outcomes,
         phase \in {"concurrent", "sequential"},
         call[Id(s)] # "absent",
         call' = [call EXCEPT ![Id(s)] = st],
         outcome' = [outcome EXCEPT ![Id(s)] = o],
         RunsInv', runs' \in [Calls -> Nat],
         hooked' \subseteq Calls,
         todo' \in {todo, todo \ {s}}, writes' \in {writes, writes \ {s}},
         writesOff' \in BOOLEAN,
         UNCHANGED <<phase, attempt, blocks, cancelled, planMode, gate>>,
         \/ InConcurrentGroup(s)' \/ InSequentialGroup(s)' \/ IsAnswered(s)'
  PROVE  TurnInv'
<1>1. TypeOK /\ FutureInv /\ BatchInv
  BY DEF TurnInv
<1>2. /\ Id(s) \in Calls
      /\ call' \in [Calls -> CallStates] /\ call'[Id(s)] = st
      /\ \A c \in Calls : c # Id(s) => call'[c] = call[c]
      /\ outcome' \in [Calls -> Outcomes]
      /\ \A c \in Calls : c # Id(s) => outcome'[c] = outcome[c]
  BY <1>1, IdInCalls DEF TypeOK
<1>3. TypeOK' /\ Slots' = Slots
  <2>1. /\ cancelled' \in BOOLEAN /\ planMode' \in BOOLEAN /\ gate' \in BOOLEAN
    BY <1>1, Zenon DEF TypeOK
  <2>2. phase' \in Phases /\ todo' \subseteq Slots /\ writes' \subseteq Slots
    BY <1>1 DEF TypeOK
  <2> QED
    BY <1>1, <1>2, <2>1, <2>2, FrameTypeOK
<1>4. FutureInv'
  BY <1>1, <1>2 DEF FutureInv
<1>5. StreamInv'
  BY DEF StreamInv
<1>6. BatchInv'
  <2>1. \A c \in Calls : outcome'[c] # "none" => c[1] = attempt'
    BY <1>1, <1>2 DEF BatchInv, Id
  <2>2. \A t \in Slots : t # s =>
          \/ InConcurrentGroup(t)' \/ InSequentialGroup(t)'
          \/ IsMalformed(t)' \/ IsAnswered(t)'
    <3> TAKE t \in Slots
    <3> HAVE t # s
    <3>1. Id(t) \in Calls /\ Id(t) # Id(s) /\ Id(t)' = Id(t)
      BY <1>1, IdInCalls DEF Id
    <3>2. call'[Id(t)] = call[Id(t)] /\ outcome'[Id(t)] = outcome[Id(t)]
      BY <1>2, <3>1
    <3>3. (t \in todo' <=> t \in todo) /\ (t \in writes' <=> t \in writes)
      OBVIOUS
    <3>4. writes' \subseteq writes
      OBVIOUS
    <3>5. InConcurrentGroup(t) \/ InSequentialGroup(t) \/ IsMalformed(t) \/ IsAnswered(t)
      BY <1>1 DEF BatchInv
    <3> QED
      BY <1>3, <3>1, <3>2, <3>3, <3>4, <3>5 DEF InConcurrentGroup,
         InSequentialGroup, IsMalformed, IsAnswered, Malformed, ConcurrencySafe
  <2> QED
    BY <1>3, <2>1, <2>2 DEF BatchInv
<1> QED
  BY <1>3, <1>4, <1>5, <1>6 DEF TurnInv

(* RunsInv, for a step that starts the call of a slot, and for one that    *)
(* moves it elsewhere.                                                     *)
LEMMA StartRunsInv ==
  ASSUME TypeOK, RunsInv, NEW s \in Slots, call[Id(s)] \in Waiting,
         call' = [call EXCEPT ![Id(s)] = "running"],
         runs' = [runs EXCEPT ![Id(s)] = @ + 1]
  PROVE  RunsInv' /\ runs' \in [Calls -> Nat]
<1>1. Id(s) \in Calls /\ runs[Id(s)] = 0
  BY IdInCalls DEF RunsInv
<1> QED
  BY <1>1 DEF TypeOK, RunsInv, Waiting

LEMMA MoveRunsInv ==
  ASSUME TypeOK, RunsInv, NEW s \in Slots, NEW st \in CallStates,
         st \in Waiting => call[Id(s)] \in Waiting,
         call' = [call EXCEPT ![Id(s)] = st],
         UNCHANGED runs
  PROVE  RunsInv' /\ runs' \in [Calls -> Nat]
<1>1. Id(s) \in Calls
  BY IdInCalls
<1> QED
  BY <1>1 DEF TypeOK, RunsInv

LEMMA ConcurrentStepTurnInv ==
  ASSUME TurnInv, NEW s \in Slots, ConcurrentStep(s)
  PROVE  TurnInv'
<1>1. TypeOK /\ RunsInv /\ BatchInv /\ Id(s) \in Calls
  BY IdInCalls DEF TurnInv
<1>2. /\ UNCHANGED <<phase, attempt, blocks, cancelled, planMode, gate, writes, writesOff>>
      /\ phase = "concurrent" /\ phase \in {"concurrent", "sequential"}
  BY DEF ConcurrentStep, ConcurrentStart, ConcurrentDeny, ConcurrentRefuse,
     ConcurrentFinish, ConcurrentCancel, Admit, Interrupts, streamVars, planVars, groupVars
<1>3. Id(s)' = Id(s) /\ writesOff' \in BOOLEAN /\ hooked \subseteq Calls
      /\ writes' \in {writes, writes \ {s}}
      /\ (ConcurrencySafe(blocks[s])' <=> ConcurrencySafe(blocks[s]))
      /\ Malformed' = Malformed
  <2>1. writesOff' \in BOOLEAN
    BY <1>1, <1>2, Zenon DEF TypeOK
  <2>2. Malformed' = Malformed
    BY <1>2 DEF Malformed, Slots
  <2> QED
    BY <1>1, <1>2, <2>1, <2>2 DEF Id, TypeOK, ConcurrencySafe
<1>4. (Admit(s) \/ s \in InFlight) => InConcurrentGroup(s)
  BY <1>1, <1>2 DEF Admit, InFlight, BatchInv, InConcurrentGroup,
     InSequentialGroup, IsMalformed, IsAnswered
<1>5. {"running", "answered"} \subseteq CallStates
      /\ {"none", "ok", "error"} \subseteq Outcomes
      /\ "deferred" \in Waiting /\ "answered" \notin Waiting /\ "absent" \notin {"deferred", "running"}
  BY DEF CallStates, Outcomes, Waiting
<1>6. CASE ConcurrentStart(s)
  <2>1. /\ call[Id(s)] = "deferred" /\ outcome[Id(s)] = "none"
        /\ s \notin Malformed \cup writes
        /\ ConcurrencySafe(blocks[s])
        /\ call' = [call EXCEPT ![Id(s)] = "running"]
        /\ runs' = [runs EXCEPT ![Id(s)] = @ + 1]
        /\ todo' = todo \ {s} /\ hooked' = hooked /\ outcome' = outcome
    BY <1>4, <1>6 DEF ConcurrentStart, Admit, InConcurrentGroup
  <2>2. outcome' = [outcome EXCEPT ![Id(s)] = "none"] /\ call'[Id(s)] = "running"
    BY <1>1, <2>1 DEF TypeOK
  <2>3. InConcurrentGroup(s)'
    BY <1>1, <1>2, <1>3, <2>1, <2>2 DEF InConcurrentGroup
  <2>4. RunsInv' /\ runs' \in [Calls -> Nat]
    BY <1>1, <1>5, <2>1, StartRunsInv
  <2> QED
    BY <1>2, <1>3, <1>5, <2>1, <2>2, <2>3, <2>4, BatchMoveTurnInv
<1>7. CASE ConcurrentDeny(s) \/ ConcurrentRefuse(s) \/ ConcurrentFinish(s) \/ ConcurrentCancel(s)
  <2>1. PICK o \in {"ok", "error"} : Answer(s, o)
    BY <1>7 DEF ConcurrentDeny, ConcurrentRefuse, ConcurrentFinish, ConcurrentCancel
  <2>2. /\ InConcurrentGroup(s) /\ UNCHANGED runs
        /\ todo' = todo \ {s} \/ (s \notin todo /\ todo' = todo)
        /\ hooked' = hooked \/ hooked' = hooked \cup {Id(s)}
    BY <1>4, <1>7 DEF ConcurrentDeny, ConcurrentRefuse, ConcurrentFinish,
       ConcurrentCancel, Admit, Interrupts, InFlight, InConcurrentGroup, groupVars
  <2>3. /\ call' = [call EXCEPT ![Id(s)] = "answered"]
        /\ outcome' = [outcome EXCEPT ![Id(s)] = o]
        /\ call'[Id(s)] = "answered" /\ outcome'[Id(s)] = o
    BY <1>1, <2>1 DEF Answer, TypeOK
  <2>4. IsAnswered(s)'
    BY <1>2, <1>3, <2>2, <2>3 DEF IsAnswered, InConcurrentGroup
  <2>5. RunsInv' /\ runs' \in [Calls -> Nat]
    BY <1>1, <1>5, <2>2, <2>3, MoveRunsInv
  <2>6. call[Id(s)] # "absent" /\ hooked' \subseteq Calls
        /\ todo' \in {todo, todo \ {s}} /\ o \in Outcomes
    BY <1>1, <1>3, <1>5, <2>2 DEF InConcurrentGroup
  <2> QED
    BY <1>2, <1>3, <1>5, <2>3, <2>4, <2>5, <2>6, BatchMoveTurnInv
<1> QED
  BY <1>6, <1>7 DEF ConcurrentStep

LEMMA SequentialInterruptTurnInv ==
  ASSUME TurnInv, NEW s \in Slots, SequentialInterrupt(s)
  PROVE  TurnInv'
<1>1. TypeOK /\ RunsInv /\ FutureInv /\ BatchInv
  BY DEF TurnInv
<1>2. /\ UNCHANGED <<phase, attempt, blocks, cancelled, planMode, gate, todo, writesOff, runs, hooked>>
      /\ phase = "sequential" /\ writes' = {}
      /\ call' = [c \in Calls |-> IF c[1] = attempt /\ c[2] \in writes
                                  THEN "answered" ELSE call[c]]
      /\ outcome' = [c \in Calls |-> IF c[1] = attempt /\ c[2] \in writes
                                     THEN "error" ELSE outcome[c]]
  BY DEF SequentialInterrupt, AtHead, headFrame, streamVars, planVars, Remaining
<1>3. call' \in [Calls -> CallStates] /\ outcome' \in [Calls -> Outcomes]
  BY <1>1, <1>2 DEF TypeOK, CallStates, Outcomes
<1>4. TypeOK' /\ Slots' = Slots
  <2>1. /\ cancelled' \in BOOLEAN /\ planMode' \in BOOLEAN /\ gate' \in BOOLEAN
        /\ writesOff' \in BOOLEAN
    BY <1>1, <1>2, Zenon DEF TypeOK
  <2> QED
    BY <1>1, <1>2, <1>3, <2>1, FrameTypeOK DEF TypeOK
<1>5. RunsInv'
  BY <1>1, <1>2 DEF RunsInv, Waiting
<1>6. FutureInv'
  <2> SUFFICES ASSUME NEW c \in Calls,
                      c[1] > attempt \/ (c[1] = attempt /\ c[2] > Len(blocks))
               PROVE  call'[c] = "absent"
    BY <1>2 DEF FutureInv
  <2>1. ~(c[1] = attempt /\ c[2] \in writes)
    <3>1. attempt \in Int /\ Len(blocks) \in Nat /\ writes \subseteq 1 .. Len(blocks)
      BY <1>1, ToolTurnAssumption DEF TypeOK, Slots
    <3>2. c[1] = attempt => c[2] > Len(blocks)
      BY <3>1
    <3>3. \A i \in 1 .. Len(blocks) : ~(i > Len(blocks))
      BY <3>1
    <3> QED
      BY <3>1, <3>2, <3>3
  <2> QED
    BY <1>1, <1>2, <2>1 DEF FutureInv
<1>7. StreamInv'
  BY <1>2 DEF StreamInv
<1>8. BatchInv'
  <2>1. \A c \in Calls : outcome'[c] # "none" => c[1] = attempt'
    BY <1>1, <1>2 DEF BatchInv
  <2>2. \A t \in Slots : IsMalformed(t)' \/ IsAnswered(t)'
    <3> TAKE t \in Slots
    <3>1. Id(t) \in Calls /\ Id(t)' = Id(t) /\ Id(t)[1] = attempt /\ Id(t)[2] = t
      BY <1>1, <1>2, IdInCalls DEF Id
    <3>2. InSequentialGroup(t) \/ IsMalformed(t) \/ IsAnswered(t)
      BY <1>1, <1>2 DEF BatchInv, InConcurrentGroup
    <3> QED
      BY <1>2, <1>4, <3>1, <3>2 DEF InSequentialGroup, IsMalformed, IsAnswered, Malformed
  <2> QED
    BY <1>4, <2>1, <2>2 DEF BatchInv
<1> QED
  BY <1>4, <1>5, <1>6, <1>7, <1>8 DEF TurnInv

LEMMA SequentialStepTurnInv ==
  ASSUME TurnInv, NEW s \in Slots, SequentialStep(s)
  PROVE  TurnInv'
<1>1. TypeOK /\ RunsInv /\ BatchInv /\ Id(s) \in Calls
  BY IdInCalls DEF TurnInv
<1>2. /\ UNCHANGED <<phase, attempt, blocks, cancelled, planMode, gate, todo>>
      /\ phase = "sequential" /\ phase \in {"concurrent", "sequential"}
      /\ s \in writes /\ \A t \in writes : s <= t
  BY DEF SequentialStep, SequentialCheck, SequentialInterrupt, SequentialBlock,
     SequentialRefuse, SequentialStart, SequentialFinish, AtHead, headFrame,
     streamVars, planVars
<1>3. Id(s)' = Id(s) /\ hooked \subseteq Calls /\ todo' \in {todo, todo \ {s}}
      /\ (ConcurrencySafe(blocks[s])' <=> ConcurrencySafe(blocks[s]))
      /\ Malformed' = Malformed
  BY <1>1, <1>2 DEF Id, TypeOK, ConcurrencySafe, Malformed, Slots
<1>4. InSequentialGroup(s)
  BY <1>1, <1>2 DEF BatchInv, InConcurrentGroup, IsMalformed, IsAnswered
<1>5. {"running", "answered", "checked"} \subseteq CallStates
      /\ {"none", "ok", "error"} \subseteq Outcomes
      /\ {"deferred", "checked"} \subseteq Waiting /\ "answered" \notin Waiting
      /\ "running" \notin Waiting
  BY DEF CallStates, Outcomes, Waiting
<1>6. call[Id(s)] # "absent" /\ outcome[Id(s)] = "none"
  BY <1>4 DEF InSequentialGroup
<1>7. CASE SequentialInterrupt(s)
  BY <1>7, SequentialInterruptTurnInv
<1>8. CASE SequentialCheck(s) \/ SequentialStart(s)
  <2>1. PICK st \in {"checked", "running"} :
          /\ call' = [call EXCEPT ![Id(s)] = st]
          /\ \/ st = "checked" /\ call[Id(s)] = "deferred" /\ runs' = runs
             \/ /\ st = "running" /\ call[Id(s)] = "checked"
                /\ runs' = [runs EXCEPT ![Id(s)] = @ + 1]
    BY <1>8 DEF SequentialCheck, SequentialStart, AtHead
  <2>2. UNCHANGED <<outcome, hooked, writes, writesOff>>
    BY <1>8 DEF SequentialCheck, SequentialStart
  <2>3. outcome' = [outcome EXCEPT ![Id(s)] = "none"] /\ call'[Id(s)] = st
    BY <1>1, <1>6, <2>1, <2>2 DEF TypeOK
  <2>4. InSequentialGroup(s)'
    BY <1>2, <1>3, <1>4, <1>6, <2>1, <2>2, <2>3 DEF InSequentialGroup
  <2>5. RunsInv' /\ runs' \in [Calls -> Nat]
    BY <1>1, <1>5, <2>1, StartRunsInv, MoveRunsInv
  <2>6. writesOff' \in BOOLEAN
    BY <1>1, <2>2, Zenon DEF TypeOK
  <2> QED
    BY <1>2, <1>3, <1>5, <1>6, <2>1, <2>2, <2>3, <2>4, <2>5, <2>6, BatchMoveTurnInv
<1>9. CASE SequentialBlock(s) \/ SequentialRefuse(s) \/ SequentialFinish(s)
  <2>1. PICK o \in {"ok", "error"} : Answer(s, o)
    BY <1>9 DEF SequentialBlock, SequentialRefuse, SequentialFinish
  <2>2. /\ UNCHANGED runs /\ writes' = writes \ {s}
        /\ hooked' = hooked \/ hooked' = hooked \cup {Id(s)}
    BY <1>9 DEF SequentialBlock, SequentialRefuse, SequentialFinish, headFrame
  <2>3. /\ call' = [call EXCEPT ![Id(s)] = "answered"]
        /\ outcome' = [outcome EXCEPT ![Id(s)] = o]
        /\ call'[Id(s)] = "answered" /\ outcome'[Id(s)] = o
    BY <1>1, <2>1 DEF Answer, TypeOK
  <2>4. IsAnswered(s)'
    BY <1>2, <1>3, <1>4, <2>2, <2>3 DEF IsAnswered, InSequentialGroup
  <2>5. RunsInv' /\ runs' \in [Calls -> Nat]
    BY <1>1, <1>5, <2>2, <2>3, MoveRunsInv
  <2>6. writesOff' \in BOOLEAN
    <3>1. writesOff \in BOOLEAN
      BY <1>1, Zenon DEF TypeOK
    <3>2. \/ writesOff' = writesOff
          \/ \E o2 : writesOff' = (writesOff \/ AbortsSiblings(blocks[s], o2))
      BY <1>9, Zenon DEF SequentialBlock, SequentialRefuse, SequentialFinish, headFrame
    <3> QED
      BY <3>1, <3>2, Zenon DEF AbortsSiblings
  <2>7. hooked' \subseteq Calls /\ o \in Outcomes /\ "answered" \in CallStates
    BY <1>1, <1>3, <1>5, <2>2
  <2>8. writes' \in {writes, writes \ {s}}
    BY <2>2
  <2> QED
    BY <1>2, <1>3, <1>6, <2>3, <2>4, <2>5, <2>6, <2>7, <2>8, BatchMoveTurnInv
<1> QED
  BY <1>7, <1>8, <1>9 DEF SequentialStep

(* The invariant holds of the specification.                               *)
THEOREM TurnInvariant == Spec => []TurnInv
<1>1. Init => TurnInv
  BY InitTurnInv
<1>2. TurnInv /\ [Next]_vars => TurnInv'
  <2> SUFFICES ASSUME TurnInv, [Next]_vars PROVE TurnInv'
    OBVIOUS
  <2>1. CASE StreamStep
    BY <2>1, StreamBlockTurnInv, StreamEndOpenBlockTurnInv, StreamFailTurnInv,
       StreamEndTurnInv DEF StreamStep
  <2>2. CASE Retry
    BY <2>2, RetryTurnInv
  <2>3. CASE CollectInline
    BY <2>3, CollectInlineTurnInv
  <2>4. CASE \E c \in Calls : TaskStep(c)
    BY <2>4, TaskStepTurnInv
  <2>5. CASE \E s \in Slots : ConcurrentStep(s) \/ SequentialStep(s)
    BY <2>5, ConcurrentStepTurnInv, SequentialStepTurnInv
  <2>6. CASE ConcurrentDone \/ SequentialDone \/ Cancel
    BY <2>6, ConcurrentDoneTurnInv, SequentialDoneTurnInv, CancelTurnInv
  <2>7. CASE UNCHANGED vars
    BY <2>7 DEF vars, streamVars, planVars, groupVars, TurnInv, TypeOK, RunsInv,
       FutureInv, StreamInv, BatchInv, InConcurrentGroup, InSequentialGroup,
       IsMalformed, IsAnswered, Malformed, Slots, Id, Stale, Eligible,
       ConcurrencySafe, AttemptLeft
  <2> QED
    BY <2>1, <2>2, <2>3, <2>4, <2>5, <2>6, <2>7 DEF Next
<1> QED
  BY <1>1, <1>2, PTL DEF Spec

-----------------------------------------------------------------------------
(* What the invariant says of the turn.                                    *)

(* Every variable keeps its type.                                          *)
THEOREM TypeCorrect == Spec => []TypeOK
<1>1. TurnInv => TypeOK
  BY DEF TurnInv
<1> QED
  BY <1>1, TurnInvariant, PTL

(* No tool_use of an answered message is left without a result.            *)
THEOREM NoOrphanHolds == Spec => []NoOrphan
<1>1. TurnInv => NoOrphan
  BY DEF TurnInv, BatchInv, NoOrphan, InConcurrentGroup, InSequentialGroup,
     IsMalformed, IsAnswered
<1> QED
  BY <1>1, TurnInvariant, PTL

(* No tool call is executed twice, whatever is retried, aborted or         *)
(* panics.                                                                 *)
THEOREM RunsOnceHolds == Spec => []RunsOnce
<1>1. TurnInv => RunsOnce
  BY DEF TurnInv, RunsInv, RunsOnce
<1> QED
  BY <1>1, TurnInvariant, PTL

(* A mutating tool never overlaps another call of its message.             *)
THEOREM MutatorAloneHolds == Spec => []MutatorAlone
<1>1. TurnInv => MutatorAlone
  <2> SUFFICES ASSUME TurnInv, NEW s \in Slots, NEW t \in Slots, s # t,
                      Mutating(blocks[s]), call[Id(s)] = "running",
                      call[Id(t)] \in Live
               PROVE  FALSE
    BY DEF MutatorAlone
  <2>1. ~ConcurrencySafe(blocks[s])
    BY DEF Mutating, ConcurrencySafe
  <2>2. TypeOK /\ StreamInv /\ BatchInv
    BY DEF TurnInv
  <2>3. phase \in {"concurrent", "sequential", "answered"}
    BY <2>1, <2>2 DEF StreamInv, Eligible, TypeOK, Phases
  <2>4. InSequentialGroup(s) /\ phase = "sequential"
    BY <2>1, <2>2, <2>3 DEF BatchInv, InConcurrentGroup, InSequentialGroup,
       IsMalformed, IsAnswered
  <2>5. InSequentialGroup(t) /\ call[Id(t)] = "running"
    BY <2>2, <2>4 DEF BatchInv, InConcurrentGroup, InSequentialGroup,
       IsMalformed, IsAnswered, Live
  <2>6. s \in writes /\ t \in writes /\ s <= t /\ t <= s
    BY <2>4, <2>5 DEF InSequentialGroup
  <2> QED
    BY <2>6 DEF Slots
<1> QED
  BY <1>1, TurnInvariant, PTL

-----------------------------------------------------------------------------
(* The gates of the batch: plan mode, and a Bash call that failed.         *)

Batched == phase \in {"concurrent", "sequential", "answered"}

(* The batch of a message that enters plan mode is gated, and a gated      *)
(* batch runs no mutating tool.                                            *)
GateInv ==
  Batched => /\ (\E t \in Slots : blocks[t].tool = "enter") => gate
             /\ gate => \A s \in Slots : Mutating(blocks[s]) => runs[Id(s)] = 0

(* The sequential group starts its calls in the order of the message.      *)
OrderInv ==
  Batched => \A s \in writes, t \in Slots :
               s < t /\ ~ConcurrencySafe(blocks[t]) => runs[Id(t)] = 0

FailedBash(s) ==
  blocks[s].tool = "bash" /\ runs[Id(s)] = 1 /\ outcome[Id(s)] = "error"

(* After a failed Bash call the calls still to answer can only be          *)
(* interrupted.                                                            *)
FailInv ==
  Batched => \A s, t \in Slots :
               s < t /\ ~ConcurrencySafe(blocks[t]) /\ FailedBash(s) =>
                 /\ runs[Id(t)] = 0
                 /\ t \in writes => writesOff /\ call[Id(t)] = "deferred"

GatesInv == GateInv /\ OrderInv /\ FailInv

batchFrame == <<attempt, blocks, planMode, gate, writes, writesOff>>

(* Before the batch no call of the sequential group has started.           *)
LEMMA NothingSequentialYet ==
  ASSUME TurnInv, ~Batched, NEW s \in Slots, ~ConcurrencySafe(blocks[s])
  PROVE  call[Id(s)] = "deferred" /\ runs[Id(s)] = 0 /\ outcome[Id(s)] = "none"
<1>1. TypeOK /\ StreamInv /\ RunsInv /\ Id(s) \in Calls
  BY IdInCalls DEF TurnInv
<1>2. phase \in {"streaming", "collecting", "backoff", "failed"}
  BY <1>1 DEF Batched, TypeOK, Phases
<1>3. call[Id(s)] = "deferred" /\ outcome[Id(s)] = "none"
  BY <1>1, <1>2 DEF StreamInv, Eligible
<1> QED
  BY <1>1, <1>3 DEF RunsInv, Waiting

(* Once the batch has started, only tasks of abandoned attempts are left.  *)
LEMMA TaskIsStale ==
  ASSUME TurnInv, Batched, NEW c \in Calls, TaskStep(c)
  PROVE  /\ UNCHANGED <<batchFrame, phase, outcome>>
         /\ \A s \in Slots : runs'[Id(s)] = runs[Id(s)] /\ call'[Id(s)] = call[Id(s)]
<1>1. TypeOK /\ BatchInv
  BY DEF TurnInv
<1>2. UNCHANGED <<batchFrame, phase, outcome>>
  BY DEF TaskStep, TaskStart, TaskFinish, TaskReport, TaskPanic, TaskDrop,
     taskFrame, batchFrame, streamVars, planVars, groupVars
<1>3. /\ \A d \in Calls : d # c => runs'[d] = runs[d] /\ call'[d] = call[d]
      /\ call[c] \in Live /\ (call[c] = "running" => Eager(c) \/ Stale(c))
  BY <1>1 DEF TypeOK, TaskStep, TaskStart, TaskFinish, TaskReport, TaskPanic, TaskDrop, Live
<1>4. \A s \in Slots : Id(s) # c
  <2> SUFFICES ASSUME NEW s \in Slots, Id(s) = c PROVE FALSE
    OBVIOUS
  <2>1. call[Id(s)] = "running"
    BY <1>1, <1>3 DEF Batched, BatchInv, InConcurrentGroup, InSequentialGroup,
       IsMalformed, IsAnswered, Live
  <2> QED
    BY <1>3, <2>1 DEF Batched, Eager, Stale, Id
<1> QED
  BY <1>1, <1>2, <1>3, <1>4, IdInCalls

LEMMA ConcurrentStepFrame ==
  ASSUME TurnInv, NEW s \in Slots, ConcurrentStep(s)
  PROVE  /\ UNCHANGED <<batchFrame, phase>>
         /\ \A t \in Slots : ~ConcurrencySafe(blocks[t]) =>
              /\ runs'[Id(t)] = runs[Id(t)]
              /\ call'[Id(t)] = call[Id(t)] /\ outcome'[Id(t)] = outcome[Id(t)]
<1>1. TypeOK /\ BatchInv /\ phase = "concurrent"
  BY DEF TurnInv, ConcurrentStep, ConcurrentStart, ConcurrentDeny, ConcurrentRefuse,
     ConcurrentFinish, ConcurrentCancel, Admit, Interrupts
<1>2. UNCHANGED <<batchFrame, phase>>
  BY DEF ConcurrentStep, ConcurrentStart, ConcurrentDeny, ConcurrentRefuse,
     ConcurrentFinish, ConcurrentCancel, batchFrame, streamVars, planVars, groupVars
<1>3. ConcurrencySafe(blocks[s])
  <2>1. s \in todo \/ s \in InFlight
    BY DEF ConcurrentStep, ConcurrentStart, ConcurrentDeny, ConcurrentRefuse,
       ConcurrentFinish, ConcurrentCancel, Admit, Interrupts
  <2> QED
    BY <1>1, <2>1 DEF BatchInv, InFlight, InConcurrentGroup, InSequentialGroup,
       IsMalformed, IsAnswered
<1>4. \A d \in Calls : d # Id(s) =>
        runs'[d] = runs[d] /\ call'[d] = call[d] /\ outcome'[d] = outcome[d]
  BY <1>1 DEF TypeOK, ConcurrentStep, ConcurrentStart, ConcurrentDeny, ConcurrentRefuse,
     ConcurrentFinish, ConcurrentCancel, Answer
<1>5. \A t \in Slots : ~ConcurrencySafe(blocks[t]) => Id(t) \in Calls /\ Id(t) # Id(s)
  BY <1>1, <1>3, IdInCalls DEF Id
<1> QED
  BY <1>2, <1>4, <1>5

(* A step of the sequential group concerns its head, unless it interrupts. *)
LEMMA SequentialStepFrame ==
  ASSUME TurnInv, NEW s \in Slots, SequentialStep(s), ~SequentialInterrupt(s)
  PROVE  /\ UNCHANGED <<attempt, blocks, planMode, gate, phase>>
         /\ phase = "sequential" /\ s \in writes /\ InSequentialGroup(s)
         /\ \A t \in writes : s <= t
         /\ writes' = writes \/ writes' = writes \ {s}
         /\ \A t \in Slots : t # s =>
              /\ runs'[Id(t)] = runs[Id(t)]
              /\ call'[Id(t)] = call[Id(t)] /\ outcome'[Id(t)] = outcome[Id(t)]
<1>1. TypeOK /\ BatchInv
  BY DEF TurnInv
<1>2. /\ UNCHANGED <<attempt, blocks, planMode, gate, phase>>
      /\ phase = "sequential" /\ s \in writes /\ \A t \in writes : s <= t
      /\ writes' = writes \/ writes' = writes \ {s}
  BY DEF SequentialStep, SequentialCheck, SequentialBlock, SequentialRefuse,
     SequentialStart, SequentialFinish, AtHead, headFrame, streamVars, planVars
<1>3. InSequentialGroup(s)
  BY <1>1, <1>2 DEF BatchInv, InConcurrentGroup, IsMalformed, IsAnswered
<1>4. \A d \in Calls : d # Id(s) =>
        runs'[d] = runs[d] /\ call'[d] = call[d] /\ outcome'[d] = outcome[d]
  BY <1>1 DEF TypeOK, SequentialStep, SequentialCheck, SequentialBlock,
     SequentialRefuse, SequentialStart, SequentialFinish, Answer
<1>5. \A t \in Slots : t # s => Id(t) \in Calls /\ Id(t) # Id(s)
  BY <1>1, IdInCalls DEF Id
<1> QED
  BY <1>2, <1>3, <1>4, <1>5

(* The head of the sequential group has not run before it starts, and      *)
(* what comes after it in the group has not been looked at.                *)
LEMMA HeadOfGroup ==
  ASSUME TurnInv, NEW s \in Slots, phase = "sequential", s \in writes,
         \A t \in writes : s <= t
  PROVE  /\ call[Id(s)] \in {"deferred", "checked"} => runs[Id(s)] = 0
         /\ outcome[Id(s)] = "none"
         /\ \A t \in writes : t # s => call[Id(t)] = "deferred" /\ runs[Id(t)] = 0
         /\ ~ConcurrencySafe(blocks[s])
<1>1. TypeOK /\ BatchInv /\ RunsInv /\ writes \subseteq Slots /\ writes \subseteq Int
  BY DEF TurnInv, TypeOK, Slots
<1>2. \A t \in writes : InSequentialGroup(t)
  BY <1>1 DEF BatchInv, InConcurrentGroup, IsMalformed, IsAnswered
<1>3. \A t \in writes : t # s => call[Id(t)] = "deferred"
  BY <1>1, <1>2 DEF InSequentialGroup
<1>4. \A t \in Slots : call[Id(t)] \in Waiting => runs[Id(t)] = 0
  BY <1>1, IdInCalls DEF RunsInv
<1> QED
  BY <1>1, <1>2, <1>3, <1>4 DEF InSequentialGroup, Waiting

LEMMA CollectInlineGates ==
  ASSUME TurnInv, CollectInline
  PROVE  GatesInv'
<1>1. ~Batched /\ UNCHANGED <<attempt, blocks, runs>> /\ gate' = BatchGated
  BY DEF Batched, CollectInline, streamVars
<1>2. \A s \in Slots : ~ConcurrencySafe(blocks[s]) => runs[Id(s)] = 0
  BY <1>1, NothingSequentialYet
<1>3. GateInv'
  BY <1>1, <1>2 DEF GateInv, BatchGated, Slots, Id, Mutating, ConcurrencySafe
<1>4. OrderInv'
  <2>1. writes' \subseteq Slots
    BY DEF CollectInline
  <2> QED
    BY <1>1, <1>2, <2>1 DEF OrderInv, Slots, Id, ConcurrencySafe
<1>5. FailInv'
  BY <1>1, <1>2 DEF FailInv, FailedBash, Slots, Id, ConcurrencySafe
<1> QED
  BY <1>3, <1>4, <1>5 DEF GatesInv

(* A step that leaves the sequential group alone keeps its gates.          *)
LEMMA FrameGates ==
  ASSUME GatesInv, UNCHANGED batchFrame, Batched' => Batched,
         \A t \in Slots : ~ConcurrencySafe(blocks[t]) =>
           /\ runs'[Id(t)] = runs[Id(t)]
           /\ call'[Id(t)] = call[Id(t)] /\ outcome'[Id(t)] = outcome[Id(t)]
  PROVE  GatesInv'
<1>1. /\ UNCHANGED <<attempt, blocks, gate, writes, writesOff>> /\ Slots' = Slots
      /\ \A t \in Slots : Id(t)' = Id(t)
      /\ \A t \in Slots : ConcurrencySafe(blocks'[t]) <=> ConcurrencySafe(blocks[t])
      /\ \A t \in Slots : Mutating(blocks[t]) => ~ConcurrencySafe(blocks[t])
      /\ \A t \in Slots : Mutating(blocks'[t]) <=> Mutating(blocks[t])
  BY DEF batchFrame, Slots, Id, ConcurrencySafe, Mutating
<1>2. GateInv'
  BY <1>1 DEF GatesInv, GateInv, Id
<1>3. OrderInv'
  BY <1>1 DEF GatesInv, OrderInv, Id
<1>4. FailInv'
  <2>1. \A t \in Slots : blocks[t].tool = "bash" => ~ConcurrencySafe(blocks[t])
    BY DEF ConcurrencySafe
  <2> QED
    BY <1>1, <2>1 DEF GatesInv, FailInv, FailedBash, Id
<1> QED
  BY <1>2, <1>3, <1>4 DEF GatesInv

LEMMA SequentialInterruptGates ==
  ASSUME TurnInv, GatesInv, NEW s \in Slots, SequentialInterrupt(s)
  PROVE  GatesInv'
<1>1. /\ UNCHANGED <<phase, attempt, blocks, gate, runs>>
      /\ phase = "sequential" /\ writes' = {}
      /\ s \in writes /\ (\A t \in writes : s <= t) /\ call[Id(s)] = "deferred"
      /\ outcome' = [c \in Calls |-> IF c[1] = attempt /\ c[2] \in writes
                                     THEN "error" ELSE outcome[c]]
  BY DEF SequentialInterrupt, AtHead, headFrame, streamVars, planVars, Remaining
<1>2. GateInv' /\ OrderInv'
  BY <1>1 DEF GatesInv, GateInv, OrderInv, Batched, Slots, Id, Mutating
<1>3. FailInv'
  <2>1. \A t \in writes : runs[Id(t)] = 0
    BY <1>1, HeadOfGroup
  <2>2. \A t \in Slots : Id(t) \in Calls /\ Id(t)[1] = attempt /\ Id(t)[2] = t
    BY IdInCalls DEF Id, TurnInv
  <2>3. \A t \in Slots : t \notin writes => outcome'[Id(t)] = outcome[Id(t)]
    BY <1>1, <2>2
  <2> QED
    BY <1>1, <2>1, <2>3 DEF GatesInv, FailInv, FailedBash, Batched, Slots, Id, ConcurrencySafe
<1> QED
  BY <1>2, <1>3 DEF GatesInv

LEMMA SequentialStepGates ==
  ASSUME TurnInv, GatesInv, NEW s \in Slots, SequentialStep(s), ~SequentialInterrupt(s)
  PROVE  GatesInv'
<1>1. /\ UNCHANGED <<attempt, blocks, planMode, gate, phase>>
      /\ phase = "sequential" /\ s \in writes /\ InSequentialGroup(s)
      /\ \A t \in writes : s <= t
      /\ writes' = writes \/ writes' = writes \ {s}
      /\ \A t \in Slots : t # s =>
           /\ runs'[Id(t)] = runs[Id(t)]
           /\ call'[Id(t)] = call[Id(t)] /\ outcome'[Id(t)] = outcome[Id(t)]
  BY SequentialStepFrame
<1>2. /\ Slots' = Slots /\ Batched /\ Batched' /\ writes' \subseteq writes
      /\ \A t \in Slots : Id(t)' = Id(t) /\ Id(t) \in Calls
      /\ s \in Int /\ Slots \subseteq Int /\ writes \subseteq Slots
      /\ TypeOK /\ \A t \in Slots : ~(t < t)
  BY <1>1, IdInCalls DEF Slots, Id, Batched, TurnInv, TypeOK
<1>3. /\ call[Id(s)] \in {"deferred", "checked"} => runs[Id(s)] = 0
      /\ outcome[Id(s)] = "none"
      /\ \A t \in writes : t # s => call[Id(t)] = "deferred" /\ runs[Id(t)] = 0
      /\ ~ConcurrencySafe(blocks[s])
  BY <1>1, HeadOfGroup
<1>4. CASE SequentialCheck(s)
  <2>1. UNCHANGED <<runs, outcome, writes, writesOff>> /\ ~writesOff
    BY <1>4 DEF SequentialCheck, WritesCancelled
  <2>2. GateInv' /\ OrderInv'
    BY <1>1, <1>2, <2>1 DEF GatesInv, GateInv, OrderInv, Id
  <2>3. FailInv'
    BY <1>1, <1>2, <2>1 DEF GatesInv, FailInv, FailedBash, Id
  <2> QED
    BY <2>2, <2>3 DEF GatesInv
<1>5. CASE SequentialStart(s)
  <2>1. /\ UNCHANGED <<outcome, writes, writesOff>> /\ ~(gate /\ Mutating(blocks[s]))
        /\ call[Id(s)] = "checked"
    BY <1>5 DEF SequentialStart, PlanBlocks, AtHead
  <2>2. GateInv'
    BY <1>1, <1>2, <2>1 DEF GatesInv, GateInv, Id
  <2>3. OrderInv'
    BY <1>1, <1>2, <2>1 DEF GatesInv, OrderInv, Id
  <2>4. FailInv'
    BY <1>1, <1>2, <1>3, <2>1 DEF GatesInv, FailInv, FailedBash, Id
  <2> QED
    BY <2>2, <2>3, <2>4 DEF GatesInv
<1>6. CASE SequentialBlock(s) \/ SequentialRefuse(s) \/ SequentialFinish(s)
  <2>1. /\ runs' = runs /\ writes' = writes \ {s} /\ (writesOff => writesOff')
        /\ call[Id(s)] = "checked" \/ SequentialFinish(s)
    <3>1. runs' = runs /\ writes' = writes \ {s}
      BY <1>6 DEF SequentialBlock, SequentialRefuse, SequentialFinish, headFrame
    <3>2. call[Id(s)] = "checked" \/ SequentialFinish(s)
      BY <1>6 DEF SequentialBlock, SequentialRefuse, AtHead
    <3>3. \/ writesOff' = writesOff
          \/ \E o : writesOff' = (writesOff \/ AbortsSiblings(blocks[s], o))
      BY <1>6, Zenon DEF SequentialBlock, SequentialRefuse, SequentialFinish
    <3>4. writesOff => writesOff'
      BY <3>3, Zenon
    <3> QED
      BY <3>1, <3>2, <3>4
  <2>2. GateInv' /\ OrderInv'
    BY <1>1, <1>2, <2>1 DEF GatesInv, GateInv, OrderInv, Id
  <2>3. (FailedBash(s))' => writesOff'
    <3> SUFFICES ASSUME (FailedBash(s))' PROVE writesOff'
      OBVIOUS
    <3>1. runs[Id(s)] = 1 /\ outcome'[Id(s)] = "error" /\ blocks[s].tool = "bash"
      BY <1>1, <1>2, <2>1 DEF FailedBash
    <3>2. PICK o \in {"ok", "error"} :
            Answer(s, o) /\ writesOff' = (writesOff \/ AbortsSiblings(blocks[s], o))
      BY <1>3, <2>1, <3>1 DEF SequentialFinish
    <3>3. o = "error"
      BY <1>2, <3>1, <3>2 DEF Answer, TypeOK
    <3> QED
      BY <3>1, <3>2, <3>3, Zenon DEF AbortsSiblings
  <2>4. FailInv'
    <3> SUFFICES ASSUME NEW u \in Slots, NEW t \in Slots, u < t,
                        ~ConcurrencySafe(blocks[t]), (FailedBash(u))'
                 PROVE  /\ runs[Id(t)] = 0
                        /\ t \in writes' => writesOff' /\ call'[Id(t)] = "deferred"
      BY <1>1, <1>2, <2>1 DEF FailInv
    <3>1. CASE u = s
      <4>1. runs[Id(t)] = 0 /\ t # s
        BY <1>1, <1>2, <3>1 DEF GatesInv, OrderInv
      <4> QED
        BY <1>1, <1>2, <1>3, <2>3, <3>1, <4>1
    <3>2. CASE u # s
      <4>1. FailedBash(u)
        BY <1>1, <1>2, <2>1, <3>2 DEF FailedBash
      <4>2. runs[Id(t)] = 0 /\ (t \in writes => writesOff /\ call[Id(t)] = "deferred")
        BY <1>2, <4>1 DEF GatesInv, FailInv
      <4>3. t \in writes' => t # s /\ t \in writes
        BY <2>1
      <4> QED
        BY <1>1, <2>1, <4>2, <4>3
    <3> QED
      BY <3>1, <3>2
  <2> QED
    BY <2>2, <2>4 DEF GatesInv
<1> QED
  BY <1>4, <1>5, <1>6 DEF SequentialStep

LEMMA GatesStep ==
  ASSUME TurnInv, GatesInv, [Next]_vars
  PROVE  GatesInv'
<1>1. CASE StreamStep \/ Retry
  <2>1. ~Batched'
    BY <1>1 DEF Batched, StreamStep, StreamBlock, StreamEndOpenBlock, StreamFail,
       StreamEnd, Retry
  <2> QED
    BY <2>1 DEF GatesInv, GateInv, OrderInv, FailInv
<1>2. CASE CollectInline
  BY <1>2, CollectInlineGates
<1>3. CASE \E c \in Calls : TaskStep(c)
  <2> PICK c \in Calls : TaskStep(c)
    BY <1>3
  <2>1. phase' = phase
    BY DEF TaskStep, TaskStart, TaskFinish, TaskReport, TaskPanic, TaskDrop, taskFrame
  <2>2. CASE ~Batched
    BY <2>1, <2>2 DEF Batched, GatesInv, GateInv, OrderInv, FailInv
  <2>3. CASE Batched
    BY <2>3, TaskIsStale, FrameGates, Zenon
  <2> QED
    BY <2>2, <2>3
<1>4. CASE \E s \in Slots : ConcurrentStep(s)
  <2> PICK s \in Slots : ConcurrentStep(s)
    BY <1>4
  <2>1. Batched' => Batched
    BY ConcurrentStepFrame DEF Batched
  <2> QED
    BY <2>1, ConcurrentStepFrame, FrameGates
<1>5. CASE \E s \in Slots : SequentialStep(s)
  BY <1>5, SequentialInterruptGates, SequentialStepGates
<1>6. CASE ConcurrentDone \/ SequentialDone \/ Cancel \/ UNCHANGED vars
  <2>1. UNCHANGED batchFrame /\ UNCHANGED <<runs, call, outcome>>
    BY <1>6 DEF ConcurrentDone, SequentialDone, Cancel, vars, streamVars, planVars,
       groupVars, batchFrame
  <2>2. Batched' => Batched
    BY <1>6 DEF ConcurrentDone, SequentialDone, Cancel, vars, Batched
  <2>3. \A t \in Slots : /\ runs'[Id(t)] = runs[Id(t)] /\ call'[Id(t)] = call[Id(t)]
                         /\ outcome'[Id(t)] = outcome[Id(t)]
    BY <2>1
  <2> QED
    BY <2>1, <2>2, <2>3, FrameGates, Zenon
<1> QED
  BY <1>1, <1>2, <1>3, <1>4, <1>5, <1>6 DEF Next

LEMMA GatesInvariant == Spec => [](TurnInv /\ GatesInv)
<1>1. Init => GatesInv
  BY DEF Init, GatesInv, GateInv, OrderInv, FailInv, Batched
<1>2. TurnInv /\ GatesInv /\ [Next]_vars => GatesInv'
  BY GatesStep
<1> QED
  BY <1>1, <1>2, TurnInvariant, PTL DEF Spec

(* No mutating tool of a message that enters plan mode runs.               *)
THEOREM EnterGatesBatchHolds == Spec => []EnterGatesBatch
<1>1. TurnInv /\ GatesInv => EnterGatesBatch
  <2> SUFFICES ASSUME TurnInv, GatesInv, NEW t \in Slots, blocks[t].tool = "enter",
                      NEW s \in Slots, Mutating(blocks[s])
               PROVE  runs[Id(s)] = 0
    BY DEF EnterGatesBatch
  <2>1. CASE Batched
    BY <2>1 DEF GatesInv, GateInv
  <2>2. CASE ~Batched
    BY <2>2, NothingSequentialYet DEF Mutating, ConcurrencySafe
  <2> QED
    BY <2>1, <2>2
<1> QED
  BY <1>1, GatesInvariant, PTL

(* After a Bash call that ran and failed no later write of the message     *)
(* runs.                                                                   *)
THEOREM FailedBashStopsWritesHolds == Spec => []FailedBashStopsWrites
<1>1. TurnInv /\ GatesInv => FailedBashStopsWrites
  <2> SUFFICES ASSUME TurnInv, GatesInv, NEW s \in Slots, NEW t \in Slots, s < t,
                      ~ConcurrencySafe(blocks[t]), FailedBash(s)
               PROVE  runs[Id(t)] = 0
    BY DEF FailedBashStopsWrites, FailedBash
  <2>1. CASE Batched
    BY <2>1 DEF GatesInv, FailInv
  <2>2. CASE ~Batched
    BY <2>2, NothingSequentialYet
  <2> QED
    BY <2>1, <2>2
<1> QED
  BY <1>1, GatesInvariant, PTL

(* In a turn that starts in plan mode no mutating tool runs, whatever plan *)
(* calls the message holds.                                                *)
THEOREM PlanModeGatesTurnHolds == Spec => PlanModeGatesTurn
<1> DEFINE PlanInv == (~Batched => planMode) /\ (Batched => gate)
           NoMutator == \A s \in Slots : Mutating(blocks[s]) => runs[Id(s)] = 0
<1>1. Init /\ planMode => PlanInv
  BY DEF Init, Batched
<1>2. TurnInv /\ PlanInv /\ [Next]_vars => PlanInv'
  <2> SUFFICES ASSUME TurnInv, PlanInv, [Next]_vars PROVE PlanInv'
    OBVIOUS
  <2>1. CASE StreamStep \/ Retry
    BY <2>1, Zenon DEF Batched, StreamStep, StreamBlock, StreamEndOpenBlock, StreamFail,
       StreamEnd, Retry, planVars
  <2>2. CASE CollectInline
    <3>1. ~Batched /\ Batched'
      BY <2>2 DEF Batched, CollectInline
    <3>2. gate' = (planMode \/ \E s \in Slots : blocks[s].tool = "enter")
      BY <2>2, Zenon DEF CollectInline, BatchGated
    <3> QED
      BY <3>1, <3>2, Zenon
  <2>3. CASE \E c \in Calls : TaskStep(c)
    <3>1. UNCHANGED phase /\ UNCHANGED planVars
      BY <2>3 DEF TaskStep, TaskStart, TaskFinish, TaskReport, TaskPanic, TaskDrop, taskFrame
    <3> QED
      BY <3>1 DEF Batched, planVars
  <2>4. CASE \E s \in Slots : ConcurrentStep(s) \/ SequentialStep(s)
    <3>1. UNCHANGED phase /\ UNCHANGED <<planMode, gate>>
      BY <2>4 DEF ConcurrentStep, ConcurrentStart, ConcurrentDeny,
         ConcurrentRefuse, ConcurrentFinish, ConcurrentCancel, SequentialStep,
         SequentialCheck, SequentialInterrupt, SequentialBlock, SequentialRefuse,
         SequentialStart, SequentialFinish, headFrame, planVars
    <3> QED
      BY <3>1 DEF Batched
  <2>5. CASE ConcurrentDone \/ SequentialDone \/ Cancel \/ UNCHANGED vars
    <3>1. UNCHANGED <<planMode, gate>> /\ (Batched' <=> Batched)
      BY <2>5 DEF Batched, ConcurrentDone, SequentialDone, Cancel, vars, planVars
    <3> QED
      BY <3>1
  <2> QED
    BY <2>1, <2>2, <2>3, <2>4, <2>5 DEF Next
<1>3. TurnInv /\ GatesInv /\ PlanInv => NoMutator
  <2> SUFFICES ASSUME TurnInv, GatesInv, PlanInv, NEW s \in Slots, Mutating(blocks[s])
               PROVE  runs[Id(s)] = 0
    OBVIOUS
  <2>1. CASE Batched
    BY <2>1 DEF GatesInv, GateInv
  <2>2. CASE ~Batched
    BY <2>2, NothingSequentialYet DEF Mutating, ConcurrencySafe
  <2> QED
    BY <2>1, <2>2
<1> QED
  BY <1>1, <1>2, <1>3, GatesInvariant, PTL DEF Spec, PlanModeGatesTurn

-----------------------------------------------------------------------------
(* The contract that query_loop relies on: what each call counts as, and   *)
(* which step of TurnContract every step of the turn is.                   *)

StatusOf(c) ==
  IF call[c] = "absent" THEN "none"
  ELSE IF Stale(c) THEN "void"
  ELSE IF call[c] # "running" /\ Held(c) THEN "answered"
  ELSE IF call[c] \in {"deferred", "spawned", "checked"} THEN "asked" ELSE "running"

LEMMA StatusIs ==
  /\ callStatus = [c \in Calls |-> StatusOf(c)]
  /\ callStatus' = [c \in Calls |-> StatusOf(c)']
  /\ \A c \in Calls : callStatus[c] = StatusOf(c) /\ callStatus'[c] = StatusOf(c)'
<1>1. \A c \in Calls : callStatus[c] = StatusOf(c) /\ callStatus'[c] = StatusOf(c)'
  BY DEF callStatus, StatusOf
<1>2. callStatus = [c \in Calls |-> callStatus[c]]
      /\ callStatus' = [c \in Calls |-> callStatus'[c]]
  BY DEF callStatus
<1> QED
  BY <1>1, <1>2

ContractStep == [Contract!Next]_(Contract!contractVars)

(* The calls that a step answers had been asked for, or were running.      *)
LEMMA AnswersCalls ==
  ASSUME ~Ended, ~Ended',
         \A c \in Calls : \/ StatusOf(c)' = StatusOf(c)
                          \/ /\ StatusOf(c) \in {"asked", "running"}
                             /\ StatusOf(c)' = "answered"
  PROVE  ContractStep
<1> DEFINE C == {c \in Calls : StatusOf(c)' # StatusOf(c)}
<1>1. C \in SUBSET Calls
  OBVIOUS
<1>2. \A c \in C : callStatus[c] \in {"asked", "running"}
  BY StatusIs
<1>3. callStatus' = [c \in Calls |-> IF c \in C THEN "answered" ELSE callStatus[c]]
  BY StatusIs
<1>4. Contract!Answer(C)
  BY <1>2, <1>3 DEF Contract!Answer, Ended
<1> QED
  BY <1>1, <1>4 DEF ContractStep, Contract!Next

(* The call that a step asks for or starts is the only one it moves.       *)
LEMMA MovesCall ==
  ASSUME ~Ended, ~Ended', NEW c \in Calls,
         \A d \in Calls \ {c} : StatusOf(d)' = StatusOf(d),
         \/ StatusOf(c) = "none" /\ StatusOf(c)' = "asked"
         \/ StatusOf(c) = "asked" /\ StatusOf(c)' = "running"
  PROVE  ContractStep
<1>1. callStatus' = [callStatus EXCEPT ![c] = StatusOf(c)']
  <2> DEFINE new == StatusOf(c)'
  <2>1. /\ callStatus = [d \in Calls |-> StatusOf(d)]
        /\ callStatus' = [d \in Calls |-> IF d = c THEN new ELSE StatusOf(d)]
    BY StatusIs
  <2> HIDE DEF new
  <2>2. callStatus' = [callStatus EXCEPT ![c] = new]
    BY <2>1
  <2> QED
    BY <2>2 DEF new
<1>2. CASE StatusOf(c) = "none" /\ StatusOf(c)' = "asked"
  <2>1. Contract!Ask(c)
    BY <1>1, <1>2, StatusIs DEF Contract!Ask, Ended
  <2> QED
    BY <2>1 DEF ContractStep, Contract!Next
<1>3. CASE StatusOf(c) = "asked" /\ StatusOf(c)' = "running"
  <2>1. Contract!Run(c)
    BY <1>1, <1>3, StatusIs DEF Contract!Run, Ended
  <2> QED
    BY <2>1 DEF ContractStep, Contract!Next
<1> QED
  BY <1>2, <1>3

LEMMA MovesNothing ==
  ASSUME Ended' = Ended, \A c \in Calls : StatusOf(c)' = StatusOf(c)
  PROVE  ContractStep
<1>1. callStatus' = callStatus
  BY StatusIs
<1> QED
  BY <1>1 DEF ContractStep, Contract!contractVars

(* A call that counts is one of the message.                               *)
LEMMA CountsInMessage ==
  ASSUME TurnInv, NEW c \in Calls, call[c] # "absent", ~Stale(c)
  PROVE  c[2] \in Slots /\ c = Id(c[2])
<1>1. TypeOK /\ FutureInv /\ c[1] = attempt /\ c = <<c[1], c[2]>> /\ c[2] \in 1 .. MaxCalls
  BY DEF TurnInv, Stale, Calls
<1>2. ~(c[2] > Len(blocks)) /\ Len(blocks) \in Nat
  BY <1>1 DEF FutureInv, TypeOK
<1> QED
  BY <1>1, <1>2 DEF Slots, Id

(* No call has its result before the batch starts.                         *)
LEMMA NothingHeld ==
  ASSUME TurnInv, NEW c \in Calls
  PROVE  phase \in {"streaming", "collecting"} => ~Held(c)
BY DEF TurnInv, StreamInv, Held

-----------------------------------------------------------------------------
LEMMA StreamBlockIsAsk ==
  ASSUME TurnInv, NEW b \in Blocks, StreamBlock(b) \/ StreamEndOpenBlock(b)
  PROVE  ContractStep
<1>1. PICK st \in {"spawned", "deferred"} :
        call' = [call EXCEPT ![<<attempt, Len(blocks) + 1>>] = st]
  BY DEF StreamBlock, StreamEndOpenBlock
<1>2. /\ phase = "streaming" /\ phase' \in {"streaming", "collecting"}
      /\ UNCHANGED <<attempt, outcome>>
      /\ Len(blocks) < MaxCalls /\ blocks' = Append(blocks, b)
  BY DEF StreamBlock, StreamEndOpenBlock
<1>3. /\ TypeOK /\ FutureInv /\ StreamInv /\ Len(blocks) \in Nat
      /\ st \in CallStates
  BY <1>1 DEF TurnInv, TypeOK, CallStates
<1>4. PICK c \in Calls :
        /\ c = <<attempt, Len(blocks) + 1>> /\ call'[c] = st
        /\ \A d \in Calls : d # c => call'[d] = call[d]
  <2>1. /\ <<attempt, Len(blocks) + 1>> \in Calls
        /\ call'[<<attempt, Len(blocks) + 1>>] = st
        /\ \A d \in Calls : d # <<attempt, Len(blocks) + 1>> => call'[d] = call[d]
    BY <1>1, <1>2, <1>3, AppendBlock
  <2> QED
    BY <2>1
<1>5. call[c] = "absent" /\ c[1] = attempt
  BY <1>3, <1>4 DEF FutureInv
<1>6. \A d \in Calls : ~Held(d) /\ ~Held(d)' /\ (Stale(d)' <=> Stale(d))
  BY <1>2, <1>3 DEF StreamInv, Held, Stale
<1>7. \A d \in Calls \ {c} : StatusOf(d)' = StatusOf(d)
  BY <1>4, <1>6 DEF StatusOf
<1>8. StatusOf(c) = "none" /\ StatusOf(c)' = "asked"
  <2>1. ~Stale(c)'
    BY <1>2, <1>5 DEF Stale
  <2> QED
    BY <1>1, <1>4, <1>5, <1>6, <2>1 DEF StatusOf
<1> QED
  BY <1>2, <1>4, <1>7, <1>8, MovesCall DEF Ended

LEMMA StreamFailIsGiveUp ==
  ASSUME TurnInv, StreamFail
  PROVE  ContractStep
<1>1. /\ phase = "streaming" /\ phase' \in {"failed", "backoff"}
      /\ \A c \in Calls : call'[c] = "absent" <=> call[c] = "absent"
  BY DEF StreamFail, Live
<1>2. \A c \in Calls : ~Held(c) /\ Stale(c)'
  BY <1>1, NothingHeld DEF Stale
<1>3. \A c \in Calls : /\ StatusOf(c) # "answered"
                       /\ StatusOf(c)' = IF StatusOf(c) = "none" THEN "none" ELSE "void"
  BY <1>1, <1>2 DEF StatusOf
<1>4. callStatus' = [c \in Calls |-> IF callStatus[c] = "none" THEN "none" ELSE "void"]
  BY <1>3, StatusIs
<1>5. Contract!GiveUp
  BY <1>1, <1>3, <1>4, StatusIs DEF Contract!GiveUp, Ended
<1> QED
  BY <1>5 DEF ContractStep, Contract!Next

LEMMA RetryIsStutter ==
  ASSUME TurnInv, Retry
  PROVE  ContractStep
<1>1. /\ phase = "backoff" /\ phase' = "streaming" /\ attempt' = attempt + 1
      /\ call' = call /\ FutureInv /\ attempt \in Int
  BY DEF Retry, TurnInv, TypeOK
<1>2. ASSUME NEW c \in Calls PROVE StatusOf(c)' = StatusOf(c)
  <2>1. Stale(c) /\ (~Stale(c)' => c[1] = attempt + 1)
    BY <1>1 DEF Stale
  <2>2. ~Stale(c)' => call[c] = "absent"
    BY <1>1, <2>1 DEF FutureInv
  <2> QED
    BY <1>1, <2>1, <2>2 DEF StatusOf
<1> QED
  BY <1>1, <1>2, MovesNothing DEF Ended

LEMMA CollectInlineIsAnswer ==
  ASSUME TurnInv, CollectInline
  PROVE  ContractStep
<1>1. /\ phase = "collecting" /\ phase' = "concurrent"
      /\ UNCHANGED <<attempt, blocks, call>>
  BY DEF CollectInline, streamVars
<1>2. \A c \in Calls : ~Held(c) /\ (Stale(c)' <=> Stale(c))
  BY <1>1, NothingHeld DEF Stale
<1>3. \A c \in Calls : \/ StatusOf(c)' = StatusOf(c)
                       \/ /\ StatusOf(c) \in {"asked", "running"}
                          /\ StatusOf(c)' = "answered"
  BY <1>1, <1>2 DEF StatusOf
<1> QED
  BY <1>1, <1>3, AnswersCalls DEF Ended

(* A task that is not stale runs while the message is streamed, or is      *)
(* awaited by collect_all.                                                 *)
LEMMA TaskStepInContract ==
  ASSUME TurnInv, NEW c \in Calls, TaskStep(c)
  PROVE  ContractStep
<1>1. /\ UNCHANGED <<phase, attempt, blocks, outcome>> /\ TypeOK
      /\ call[c] \in Live
      /\ call'[c] \in {"running", "finished", "answered", "panicked", "aborted"}
      /\ call'[c] # call[c]
      /\ call[c] = "spawned" => call'[c] = "running" \/ Stale(c)
      /\ call'[c] = "running" => call[c] = "spawned"
      /\ \A d \in Calls : d # c => call'[d] = call[d]
  BY DEF TurnInv, TypeOK, TaskStep, TaskStart, TaskFinish, TaskReport, TaskPanic, TaskDrop,
     taskFrame, streamVars, Live
<1>2. \A d \in Calls : (Stale(d)' <=> Stale(d)) /\ (Held(d)' <=> Held(d))
  BY <1>1 DEF Stale, Held, Malformed, Slots
<1>3. \A d \in Calls \ {c} : StatusOf(d)' = StatusOf(d)
  BY <1>1, <1>2 DEF StatusOf
<1>4. CASE Stale(c)
  <2>1. StatusOf(c)' = StatusOf(c)
    BY <1>1, <1>2, <1>4 DEF StatusOf, Live
  <2> QED
    BY <1>1, <1>3, <2>1, MovesNothing DEF Ended
<1>5. CASE ~Stale(c)
  <2>1. c[2] \in Slots /\ c = Id(c[2])
    BY <1>1, <1>5, CountsInMessage DEF Live
  <2>2. phase \in {"streaming", "collecting"}
    <3>1. ~Batched
      BY <1>1, <2>1, TaskIsStale
    <3> QED
      BY <1>1, <1>5, <3>1 DEF Batched, Stale, TypeOK, Phases
  <2>3. ~Held(c) /\ ~Ended /\ ~Ended'
    BY <1>1, <2>2, NothingHeld DEF Ended
  <2>4. CASE call[c] = "spawned"
    <3>1. StatusOf(c) = "asked" /\ StatusOf(c)' = "running"
      BY <1>1, <1>2, <1>5, <2>3, <2>4 DEF StatusOf
    <3> QED
      BY <1>3, <2>3, <3>1, MovesCall
  <2>5. CASE call[c] # "spawned"
    <3>1. StatusOf(c)' = StatusOf(c)
      BY <1>1, <1>2, <1>5, <2>3, <2>5 DEF StatusOf, Live
    <3> QED
      BY <1>1, <1>3, <3>1, MovesNothing DEF Ended
  <2> QED
    BY <2>4, <2>5
<1> QED
  BY <1>4, <1>5

(* What is held in the batch is what has an outcome or no input.           *)
LEMMA BatchKeepsPlaces ==
  ASSUME UNCHANGED <<phase, attempt, blocks>>
  PROVE  /\ Ended' = Ended
         /\ \A c \in Calls : /\ Stale(c)' <=> Stale(c)
                             /\ outcome'[c] = outcome[c] => (Held(c)' <=> Held(c))
                             /\ outcome'[c] # "none" => Held(c)'
BY DEF Ended, Stale, Held, Malformed, Slots

(* A call of a group that starts, or gets its result.                      *)
LEMMA GroupMove ==
  ASSUME TurnInv, NEW s \in Slots, UNCHANGED <<phase, attempt, blocks>>,
         InConcurrentGroup(s) \/ InSequentialGroup(s),
         \A d \in Calls : d # Id(s) => call'[d] = call[d] /\ outcome'[d] = outcome[d],
         \/ /\ call[Id(s)] \in {"deferred", "checked"}
            /\ call'[Id(s)] = "running" /\ outcome'[Id(s)] = outcome[Id(s)]
         \/ call'[Id(s)] = "answered" /\ outcome'[Id(s)] # "none"
  PROVE  ContractStep
<1>1. PICK c \in Calls : c = Id(s)
  BY IdInCalls DEF TurnInv
<1>2. /\ phase \in {"concurrent", "sequential"} /\ ~Ended /\ ~Ended' /\ ~Stale(c)
      /\ call[c] \in {"deferred", "checked", "running"} /\ ~Held(c)
  BY <1>1 DEF InConcurrentGroup, InSequentialGroup, Held, Stale, Id, Ended
<1>3. \A d \in Calls \ {c} : StatusOf(d)' = StatusOf(d)
  BY <1>1, BatchKeepsPlaces DEF StatusOf
<1>4. ~Stale(c)'
  BY <1>2, BatchKeepsPlaces
<1>5. CASE call[c] # "running" /\ call'[c] = "running"
  <2>1. StatusOf(c) = "asked" /\ StatusOf(c)' = "running"
    BY <1>2, <1>4, <1>5 DEF StatusOf
  <2> QED
    BY <1>2, <1>3, <2>1, MovesCall
<1>6. CASE call'[c] = "answered" /\ outcome'[c] # "none"
  <2>1. Held(c)'
    BY <1>6, BatchKeepsPlaces
  <2>2. StatusOf(c) \in {"asked", "running"} /\ StatusOf(c)' = "answered"
    BY <1>2, <1>4, <1>6, <2>1 DEF StatusOf
  <2>3. \A d \in Calls : \/ StatusOf(d)' = StatusOf(d)
                         \/ /\ StatusOf(d) \in {"asked", "running"}
                            /\ StatusOf(d)' = "answered"
    BY <1>3, <2>2
  <2> QED
    BY <1>2, <2>3, AnswersCalls
<1> QED
  BY <1>1, <1>5, <1>6

LEMMA ConcurrentStepInContract ==
  ASSUME TurnInv, NEW s \in Slots, ConcurrentStep(s)
  PROVE  ContractStep
<1>1. TypeOK /\ BatchInv /\ Id(s) \in Calls /\ UNCHANGED <<phase, attempt, blocks>>
      /\ phase = "concurrent"
  BY IdInCalls DEF TurnInv, ConcurrentStep, ConcurrentStart, ConcurrentDeny,
     ConcurrentRefuse, ConcurrentFinish, ConcurrentCancel, Admit, Interrupts, streamVars
<1>2. InConcurrentGroup(s)
  <2>1. s \in todo \/ s \in InFlight
    BY DEF ConcurrentStep, ConcurrentStart, ConcurrentDeny, ConcurrentRefuse,
       ConcurrentFinish, ConcurrentCancel, Admit, Interrupts
  <2> QED
    BY <1>1, <2>1 DEF BatchInv, InFlight, InConcurrentGroup, InSequentialGroup,
       IsMalformed, IsAnswered
<1>3. \A d \in Calls : d # Id(s) => call'[d] = call[d] /\ outcome'[d] = outcome[d]
  BY <1>1 DEF TypeOK, ConcurrentStep, ConcurrentStart, ConcurrentDeny, ConcurrentRefuse,
     ConcurrentFinish, ConcurrentCancel, Answer
<1>4. CASE ConcurrentStart(s)
  <2>1. /\ call[Id(s)] = "deferred" /\ call'[Id(s)] = "running"
        /\ outcome'[Id(s)] = outcome[Id(s)]
    BY <1>1, <1>2, <1>4 DEF ConcurrentStart, Admit, InConcurrentGroup, TypeOK
  <2> QED
    BY <1>1, <1>2, <1>3, <2>1, GroupMove
<1>5. CASE ~ConcurrentStart(s)
  <2>1. PICK o \in {"ok", "error"} : Answer(s, o)
    BY <1>5 DEF ConcurrentStep, ConcurrentDeny, ConcurrentRefuse, ConcurrentFinish,
       ConcurrentCancel
  <2>2. call'[Id(s)] = "answered" /\ outcome'[Id(s)] # "none"
    BY <1>1, <2>1 DEF Answer, TypeOK
  <2> QED
    BY <1>1, <1>2, <1>3, <2>2, GroupMove
<1> QED
  BY <1>4, <1>5

LEMMA SequentialInterruptIsAnswer ==
  ASSUME TurnInv, NEW s \in Slots, SequentialInterrupt(s)
  PROVE  ContractStep
<1> DEFINE Left(c) == c[1] = attempt /\ c[2] \in writes
<1>1. /\ phase = "sequential" /\ s \in writes /\ (\A t \in writes : s <= t)
      /\ call[Id(s)] = "deferred" /\ UNCHANGED <<phase, attempt, blocks>>
      /\ call' = [c \in Calls |-> IF Left(c) THEN "answered" ELSE call[c]]
      /\ outcome' = [c \in Calls |-> IF Left(c) THEN "error" ELSE outcome[c]]
  BY DEF SequentialInterrupt, AtHead, headFrame, streamVars, Remaining
<1>2. ASSUME NEW c \in Calls, Left(c)
      PROVE  StatusOf(c) = "asked" /\ StatusOf(c)' = "answered"
  <2>1. TypeOK /\ BatchInv /\ c[2] \in Slots /\ c = Id(c[2])
    BY <1>2 DEF TurnInv, TypeOK, Id, Calls
  <2>2. InSequentialGroup(c[2])
    BY <1>1, <1>2, <2>1 DEF BatchInv, InConcurrentGroup, IsMalformed, IsAnswered
  <2>3. call[c] = "deferred"
    BY <1>1, <1>2, <2>1, HeadOfGroup
  <2>4. ~Held(c) /\ ~Stale(c)
    BY <1>1, <1>2, <2>1, <2>2 DEF Held, Stale, InSequentialGroup
  <2>5. Held(c)' /\ ~Stale(c)' /\ call'[c] = "answered"
    BY <1>1, <1>2, <2>4, BatchKeepsPlaces
  <2> QED
    BY <2>3, <2>4, <2>5 DEF StatusOf
<1>3. ASSUME NEW c \in Calls, ~Left(c)
      PROVE  StatusOf(c)' = StatusOf(c)
  <2>1. call'[c] = call[c] /\ outcome'[c] = outcome[c]
    BY <1>1, <1>3
  <2> QED
    BY <1>1, <2>1, BatchKeepsPlaces DEF StatusOf
<1>4. ~Ended /\ ~Ended'
  BY <1>1 DEF Ended
<1> HIDE DEF Left
<1> QED
  BY <1>2, <1>3, <1>4, AnswersCalls

LEMMA SequentialStepInContract ==
  ASSUME TurnInv, NEW s \in Slots, SequentialStep(s)
  PROVE  ContractStep
<1>1. TypeOK /\ Id(s) \in Calls
  BY IdInCalls DEF TurnInv
<1>2. CASE SequentialInterrupt(s)
  BY <1>2, SequentialInterruptIsAnswer
<1>3. CASE ~SequentialInterrupt(s)
  <2>1. UNCHANGED <<phase, attempt, blocks>> /\ InSequentialGroup(s)
    BY <1>3, SequentialStepFrame
  <2>2. \A d \in Calls : d # Id(s) => call'[d] = call[d] /\ outcome'[d] = outcome[d]
    BY <1>1, <1>3 DEF TypeOK, SequentialStep, SequentialCheck, SequentialBlock,
       SequentialRefuse, SequentialStart, SequentialFinish, Answer
  <2>3. CASE SequentialCheck(s)
    <3>1. /\ call[Id(s)] = "deferred" /\ call'[Id(s)] = "checked"
          /\ outcome' = outcome
      BY <1>1, <2>3 DEF SequentialCheck, AtHead, TypeOK
    <3>2. ASSUME NEW c \in Calls PROVE StatusOf(c)' = StatusOf(c)
      BY <2>1, <2>2, <3>1, BatchKeepsPlaces DEF StatusOf
    <3> QED
      BY <2>1, <3>2, MovesNothing, BatchKeepsPlaces
  <2>4. CASE SequentialStart(s)
    <3>1. /\ call[Id(s)] = "checked" /\ call'[Id(s)] = "running"
          /\ outcome'[Id(s)] = outcome[Id(s)]
      BY <1>1, <2>4 DEF SequentialStart, AtHead, TypeOK
    <3> QED
      BY <2>1, <2>2, <3>1, GroupMove
  <2>5. CASE SequentialBlock(s) \/ SequentialRefuse(s) \/ SequentialFinish(s)
    <3>1. PICK o \in {"ok", "error"} : Answer(s, o)
      BY <2>5 DEF SequentialBlock, SequentialRefuse, SequentialFinish
    <3>2. call'[Id(s)] = "answered" /\ outcome'[Id(s)] # "none"
      BY <1>1, <3>1 DEF Answer, TypeOK
    <3> QED
      BY <2>1, <2>2, <3>2, GroupMove
  <2> QED
    BY <1>3, <2>3, <2>4, <2>5 DEF SequentialStep
<1> QED
  BY <1>2, <1>3

(* When the results are put together every call has its own.               *)
LEMMA SequentialDoneIsClose ==
  ASSUME TurnInv, SequentialDone
  PROVE  ContractStep
<1>1. /\ phase = "sequential" /\ phase' = "answered" /\ writes = {}
      /\ UNCHANGED <<attempt, blocks, call, outcome>> /\ BatchInv
  BY DEF SequentialDone, streamVars, TurnInv
<1>2. \A c \in Calls : /\ Stale(c)' <=> Stale(c)
                       /\ Held(c)' <=> Held(c)
  BY <1>1 DEF Stale, Held, Malformed, Slots
<1>3. callStatus' = callStatus
  <2>1. \A c \in Calls : StatusOf(c)' = StatusOf(c)
    BY <1>1, <1>2 DEF StatusOf
  <2> QED
    BY <2>1, StatusIs
<1>4. ASSUME NEW c \in Calls PROVE StatusOf(c) \in {"none", "void", "answered"}
  <2>1. CASE call[c] = "absent" \/ Stale(c)
    BY <2>1 DEF StatusOf
  <2>2. CASE call[c] # "absent" /\ ~Stale(c)
    <3>1. c[2] \in Slots /\ c = Id(c[2])
      BY <2>2, CountsInMessage
    <3>2. IsMalformed(c[2]) \/ IsAnswered(c[2])
      BY <1>1, <3>1 DEF BatchInv, InConcurrentGroup, InSequentialGroup
    <3>3. call[c] # "running" /\ Held(c)
      BY <1>1, <3>1, <3>2 DEF IsMalformed, IsAnswered, Held
    <3> QED
      BY <2>2, <3>3 DEF StatusOf
  <2> QED
    BY <2>1, <2>2
<1>5. Contract!Close
  BY <1>1, <1>3, <1>4, StatusIs DEF Contract!Close, Ended
<1> QED
  BY <1>5 DEF ContractStep, Contract!Next

(* The other steps move no call.                                           *)
LEMMA FrameInContract ==
  ASSUME TurnInv, StreamEnd \/ ConcurrentDone \/ Cancel \/ UNCHANGED vars
  PROVE  ContractStep
<1>1. /\ UNCHANGED <<attempt, blocks, call, outcome>>
      /\ \/ phase = "streaming" /\ phase' = "collecting"
         \/ phase = "concurrent" /\ phase' = "sequential"
         \/ phase' = phase
  BY DEF StreamEnd, ConcurrentDone, Cancel, vars, streamVars
<1>2. Ended' = Ended /\ \A c \in Calls : /\ Stale(c)' <=> Stale(c)
                                         /\ Held(c)' <=> Held(c)
  BY <1>1, NothingHeld DEF Ended, Stale, Held, Malformed, Slots
<1>3. \A c \in Calls : StatusOf(c)' = StatusOf(c)
  BY <1>1, <1>2 DEF StatusOf
<1> QED
  BY <1>2, <1>3, MovesNothing

(* The turn implements the contract query_loop relies on: every step of    *)
(* the stream, of the eager tasks and of the batch (engine/src/loop.rs,    *)
(* engine/src/streaming.rs, engine/src/tool_orchestration.rs) asks for a   *)
(* call, starts one, answers some, gives the attempt up or closes the      *)
(* turn, as TurnContract allows it, or changes nothing there.              *)
THEOREM ImplementsContractHolds == Spec => ImplementsContract
<1>1. Init => Contract!Init
  <2> SUFFICES ASSUME Init PROVE Contract!Init
    OBVIOUS
  <2>1. callStatus = [c \in Calls |-> "none"]
    BY StatusIs DEF Init, StatusOf
  <2> QED
    BY <2>1 DEF Init, Contract!Init, Ended
<1>2. ASSUME TurnInv, [Next]_vars PROVE [Contract!Next]_(Contract!contractVars)
  <2>1. CASE StreamStep
    BY <1>2, <2>1, StreamBlockIsAsk, StreamFailIsGiveUp, FrameInContract
       DEF StreamStep, ContractStep
  <2>2. CASE Retry \/ CollectInline
    BY <1>2, <2>2, RetryIsStutter, CollectInlineIsAnswer DEF ContractStep
  <2>3. CASE \E c \in Calls : TaskStep(c)
    BY <1>2, <2>3, TaskStepInContract DEF ContractStep
  <2>4. CASE \E s \in Slots : ConcurrentStep(s) \/ SequentialStep(s)
    BY <1>2, <2>4, ConcurrentStepInContract, SequentialStepInContract DEF ContractStep
  <2>5. CASE ConcurrentDone \/ SequentialDone \/ Cancel \/ UNCHANGED vars
    BY <1>2, <2>5, SequentialDoneIsClose, FrameInContract DEF ContractStep
  <2> QED
    BY <1>2, <2>1, <2>2, <2>3, <2>4, <2>5 DEF Next
<1> QED
  BY <1>1, <1>2, TurnInvariant, PTL DEF Spec, ImplementsContract, Contract!Spec

=============================================================================
