------------------------------ MODULE ReplProofs ------------------------------
(***************************************************************************)
(* Proofs about the permission prompts, for every set of teammates and     *)
(* tools and any number of queries and prompts.                            *)
(*                                                                         *)
(* That prompts coalesce: a teammate that has a prompt, or has just        *)
(* published its answer, owns the entry of its tool; no two own the same   *)
(* request. So a second prompt for a tool would need a second entry.       *)
(*                                                                         *)
(* That only the user allows a call: a request the REPL still has in hand  *)
(* is there once and has no answer. So each is answered once, and what     *)
(* was said of it is what its asker and those that joined it receive.      *)
(***************************************************************************)
EXTENDS Repl, TLAPS

Places == {"off", "run", "prompt", "clear", "follow", "ended", "failed", "gone"}
Owns(t) == at[t] \in {"prompt", "clear"}

PromptTypes ==
  /\ asked \in Seq(Tools) /\ at \in [Agents -> Places]
  /\ ask \in [Agents -> 0 .. Len(asked)] /\ inflight \in [Tools -> 0 .. Len(asked)]

OwnersHold ==
  \A t \in Teammates : Owns(t) => ask[t] # 0 /\ inflight[ToolOf(t)] = ask[t]

OneOwner ==
  \A t, u \in Teammates : Owns(t) /\ Owns(u) /\ ask[t] = ask[u] => t = u

PromptInv == PromptTypes /\ OwnersHold /\ OneOwner

(* A step that leaves the requests and the entries alone, and makes no new *)
(* owner, keeps the invariant.                                             *)
LEMMA NoNewOwner ==
  ASSUME PromptInv,
         UNCHANGED <<asked, inflight>>,
         at' \in [Agents -> Places], ask' \in [Agents -> 0 .. Len(asked)],
         \A t \in Teammates : Owns(t)' => Owns(t) /\ ask'[t] = ask[t]
  PROVE  PromptInv'
BY DEF PromptInv, PromptTypes, OwnersHold, OneOwner, Owns, ToolOf

(* A step of the REPL or of the user changes no agent but those it starts  *)
(* or whose conversation it takes back.                                    *)
LEMMA ReplKeeps ==
  ASSUME ReplAssumption, PromptInv, ReplStep \/ UserAnswers \/ UserStep
  PROVE  PromptInv'
<1>1. SUFFICES ASSUME UNCHANGED <<asked, inflight, ask>>,
                      at' \in [Agents -> Places],
                      \A a \in Agents : at'[a] = at[a] \/ at'[a] \in {"run", "gone"}
               PROVE  PromptInv'
  <2>1. CASE UNCHANGED agents
    BY <2>1 DEF agents, PromptInv, PromptTypes
  <2>2. ASSUME NEW q \in Queries, Return(q) PROVE PromptInv'
    BY <1>1, <2>2 DEF Return, PromptInv, PromptTypes, Places
  <2>3. ASSUME NEW q \in Queries, Spawn(q),
               UNCHANGED <<ask, allowed, asked, inflight, answer>>
        PROVE PromptInv'
    BY <1>1, <2>3 DEF Spawn, PromptInv, PromptTypes, Places
  <2>4. QED
    BY <2>1, <2>2, <2>3
    DEF ReplStep, UserAnswers, UserStep, TakeRequest, TakeEnd, Promote, TeamDone,
        QuitDone, DequeueCommand, Dequeue, Allow, AllowAlways, Deny, Decide,
        InterruptPermissions, InterruptProcessing, InterruptToQueue, NewSession,
        Quit, ExitCommand, Submit, CronSubmit
<1>2. \A t \in Teammates : Owns(t)' => Owns(t) /\ ask'[t] = ask[t]
  BY <1>1 DEF Owns, Agents
<1>3. ask' \in [Agents -> 0 .. Len(asked)]
  BY <1>1 DEF PromptInv, PromptTypes
<1>4. QED
  BY <1>1, <1>2, <1>3, NoNewOwner

(* A new request has an id of its own.                                     *)
LEMMA RaiseKeeps ==
  ASSUME ReplAssumption, PromptInv, NEW a \in Agents, NEW tool \in Tools, Raise(a, tool),
         \/ a \in Queries /\ UNCHANGED inflight
         \/ /\ a \in Teammates /\ Free(tool)
            /\ inflight' = [inflight EXCEPT ![tool] = NextId]
  PROVE  PromptInv'
<1>1. /\ asked' = Append(asked, tool)
      /\ at' = [at EXCEPT ![a] = "prompt"] /\ ask' = [ask EXCEPT ![a] = NextId]
  BY DEF Raise
<1>2. asked \in Seq(Tools) /\ NextId = Len(asked) + 1 /\ Len(asked) \in Nat
  BY DEF PromptInv, PromptTypes, NextId
<1>3. /\ asked' \in Seq(Tools) /\ Len(asked') = Len(asked) + 1
      /\ asked'[NextId] = tool
      /\ \A k \in 1 .. Len(asked) : asked'[k] = asked[k]
  BY <1>1, <1>2
<1>4. PromptTypes'
  <2>1. at' \in [Agents -> Places]
    BY <1>1 DEF PromptInv, PromptTypes, Places
  <2>2. ask' \in [Agents -> 0 .. Len(asked')]
    BY <1>1, <1>2, <1>3 DEF PromptInv, PromptTypes
  <2>3. inflight' \in [Tools -> 0 .. Len(asked')]
    BY <1>1, <1>2, <1>3 DEF PromptInv, PromptTypes
  <2>. QED
    BY <1>3, <2>1, <2>2, <2>3 DEF PromptTypes
<1>5. \A t \in Teammates : t # a => at'[t] = at[t] /\ ask'[t] = ask[t]
  BY <1>1 DEF PromptInv, PromptTypes, Agents
<1>6. a \in Teammates => at'[a] = "prompt" /\ ask'[a] = NextId
  BY <1>1 DEF PromptInv, PromptTypes, Agents
<1>7. \A t \in Teammates : Owns(t) => ask[t] \in 1 .. Len(asked) /\ ToolOf(t) \in Tools
  BY <1>2 DEF PromptInv, PromptTypes, OwnersHold, Agents, ToolOf
<1>8. OwnersHold'
  <2>. SUFFICES ASSUME NEW t \in Teammates, Owns(t)'
                PROVE  ask'[t] # 0 /\ inflight'[asked'[ask'[t]]] = ask'[t]
    BY DEF OwnersHold, ToolOf
  <2>1. CASE t = a
    <3>1. a \notin Queries
      BY <2>1 DEF ReplAssumption
    <3>2. inflight' = [inflight EXCEPT ![tool] = NextId] /\ inflight \in [Tools -> 0 .. Len(asked)]
      BY <3>1 DEF PromptInv, PromptTypes
    <3>3. QED
      BY <1>2, <1>3, <1>6, <2>1, <3>2
  <2>2. CASE t # a
    <3>1. Owns(t) /\ ask'[t] = ask[t]
      BY <1>5, <2>2 DEF Owns
    <3>2. asked'[ask'[t]] = ToolOf(t) /\ inflight[ToolOf(t)] = ask[t] /\ ask[t] # 0
      BY <1>3, <1>7, <3>1 DEF ToolOf, PromptInv, OwnersHold
    <3>3. inflight'[ToolOf(t)] = inflight[ToolOf(t)]
      BY <1>7, <3>1, <3>2 DEF Free, PromptInv, PromptTypes
    <3>4. QED
      BY <3>1, <3>2, <3>3
  <2>3. QED
    BY <2>1, <2>2
<1>9. OneOwner'
  <2>. SUFFICES ASSUME NEW t \in Teammates, NEW u \in Teammates,
                       Owns(t)', Owns(u)', ask'[t] = ask'[u], t # u
                PROVE  FALSE
    BY DEF OneOwner
  <2>1. CASE t # a /\ u # a
    BY <1>5, <2>1 DEF Owns, PromptInv, OneOwner
  <2>2. CASE t = a
    BY <1>2, <1>5, <1>6, <1>7, <2>2 DEF Owns
  <2>3. CASE u = a
    BY <1>2, <1>5, <1>6, <1>7, <2>3 DEF Owns
  <2>4. QED
    BY <2>1, <2>2, <2>3
<1>10. QED
  BY <1>4, <1>8, <1>9 DEF PromptInv

(* Only the owner clears an entry.                                         *)
LEMMA ClearKeeps ==
  ASSUME ReplAssumption, PromptInv, NEW t \in Teammates, ClearEntry(t)
  PROVE  PromptInv'
<1>1. /\ at[t] = "clear" /\ at' = [at EXCEPT ![t] = "run"]
      /\ inflight' = [inflight EXCEPT ![ToolOf(t)] = 0] /\ UNCHANGED <<ask, asked>>
  BY DEF ClearEntry, Receive
<1>2. PromptTypes'
  <2>1. 0 \in 0 .. Len(asked)
    BY DEF PromptInv, PromptTypes
  <2>2. QED
    BY <1>1, <2>1 DEF PromptInv, PromptTypes, Places
<1>3. \A u \in Teammates : Owns(u)' => u # t /\ Owns(u)
  BY <1>1 DEF Owns, PromptInv, PromptTypes, Agents
<1>4. \A u \in Teammates : Owns(u)' => inflight'[ToolOf(u)] = inflight[ToolOf(u)]
  <2>. SUFFICES ASSUME NEW u \in Teammates, Owns(u)'
                PROVE  inflight'[ToolOf(u)] = inflight[ToolOf(u)]
    OBVIOUS
  <2>1. Owns(t) /\ Owns(u) /\ u # t
    BY <1>1, <1>3 DEF Owns
  <2>2. ToolOf(u) # ToolOf(t)
    BY <2>1 DEF PromptInv, OwnersHold, OneOwner
  <2>3. QED
    BY <1>1, <2>2 DEF PromptInv, PromptTypes
<1>5. OwnersHold' /\ OneOwner'
  BY <1>1, <1>3, <1>4 DEF PromptInv, OwnersHold, OneOwner, ToolOf
<1>6. QED
  BY <1>2, <1>5 DEF PromptInv

(* The other steps of an agent make no new owner.                          *)
LEMMA AgentKeeps ==
  ASSUME ReplAssumption, PromptInv, NEW a \in Agents,
         AgentStep(a) \/ AskStep(a) \/ Dropped(a)
  PROVE  PromptInv'
<1>1. ASSUME UNCHANGED <<asked, inflight>>, ask' = ask,
             NEW to \in Places, at' = [at EXCEPT ![a] = to],
             to # "prompt", to = "clear" => Owns(a)
      PROVE  PromptInv'
  <2>1. at' \in [Agents -> Places] /\ ask' \in [Agents -> 0 .. Len(asked)]
    BY <1>1 DEF PromptInv, PromptTypes
  <2>2. \A t \in Teammates : Owns(t)' => Owns(t) /\ ask'[t] = ask[t]
    BY <1>1 DEF Owns, PromptInv, PromptTypes, Agents
  <2>3. QED
    BY <1>1, <2>1, <2>2, NoNewOwner
<1>2. ASSUME UNCHANGED <<asked, inflight>>, NEW id \in 0 .. Len(asked),
             ask' = [ask EXCEPT ![a] = id],
             NEW to \in Places \ {"prompt", "clear"}, at' = [at EXCEPT ![a] = to]
      PROVE  PromptInv'
  <2>1. at' \in [Agents -> Places] /\ ask' \in [Agents -> 0 .. Len(asked)]
    BY <1>2 DEF PromptInv, PromptTypes
  <2>2. \A t \in Teammates : Owns(t)' => Owns(t) /\ ask'[t] = ask[t]
    BY <1>2 DEF Owns, PromptInv, PromptTypes, Agents, Places
  <2>3. QED
    BY <1>2, <2>1, <2>2, NoNewOwner
<1>0. 0 \in 0 .. Len(asked)
  BY DEF PromptInv, PromptTypes
<1>3. CASE a \in Queries /\ Answered(a)
  BY <1>1, <1>3 DEF Answered, Receive, Places
<1>4. CASE a \in Queries /\ EndQuery(a)
  BY <1>0, <1>2, <1>4 DEF EndQuery, Forget, Places
<1>5. CASE a \in Teammates /\ Publish(a)
  BY <1>1, <1>5 DEF Publish, Places, Owns
<1>6. CASE a \in Teammates /\ ClearEntry(a)
  BY <1>6, ClearKeeps
<1>7. CASE a \in Teammates /\ TakeAnswer(a)
  BY <1>1, <1>7 DEF TakeAnswer, Receive, Places
<1>8. CASE a \in Teammates /\ EndTask(a)
  BY <1>0, <1>2, <1>8 DEF EndTask, Forget, Places
<1>9. ASSUME NEW tool \in Tools, a \in Queries /\ AskSession(a, tool) PROVE PromptInv'
  BY <1>9, RaiseKeeps DEF AskSession
<1>10. ASSUME NEW tool \in Tools, a \in Teammates /\ Lead(a, tool) PROVE PromptInv'
  BY <1>10, RaiseKeeps DEF Lead
<1>11. ASSUME NEW tool \in Tools, a \in Teammates /\ Follow(a, tool) PROVE PromptInv'
  BY <1>2, <1>11 DEF Follow, Places, PromptInv, PromptTypes
<1>12. CASE Dropped(a)
  BY <1>1, <1>12 DEF Dropped, Drop, Places
<1>13. QED
  BY <1>3, <1>4, <1>5, <1>6, <1>7, <1>8, <1>9, <1>10, <1>11, <1>12
  DEF AgentStep, AskStep, Dropped

(* A teammate with a prompt owns its tool's entry, in every state.         *)
THEOREM PromptsOwned == ASSUME ReplAssumption PROVE Spec => []PromptInv
<1>1. Init => PromptInv
  BY DEF Init, PromptInv, PromptTypes, OwnersHold, OneOwner, Owns, Agents, Places
<1>2. PromptInv /\ [Next]_vars => PromptInv'
  <2>. SUFFICES ASSUME PromptInv, [Next]_vars PROVE PromptInv'
    OBVIOUS
  <2>1. ASSUME NEW a \in Agents, AgentStep(a) \/ AskStep(a) \/ Dropped(a) PROVE PromptInv'
    BY <2>1, AgentKeeps
  <2>2. ASSUME NEW t \in Teammates, KillTeammate(t) PROVE PromptInv'
    BY <2>2 DEF KillTeammate, agents, PromptInv, PromptTypes, OwnersHold, OneOwner, Owns, ToolOf
  <2>3. CASE ReplStep \/ UserAnswers \/ UserStep
    BY <2>3, ReplKeeps
  <2>4. CASE UNCHANGED vars
    BY <2>4 DEF vars, agents, PromptInv, PromptTypes, OwnersHold, OneOwner, Owns, ToolOf
  <2>5. QED
    BY <2>1, <2>2, <2>3, <2>4 DEF Next
<1>3. QED
  BY <1>1, <1>2, PTL DEF Spec

(* Two teammates never have a prompt each for the same tool                *)
(* (agents/src/coordinator/permission_sync.rs, resolve).                   *)
THEOREM PromptsCoalesce == ASSUME ReplAssumption PROVE Spec => []OnePrompt
<1>1. PromptInv => OnePrompt
  BY DEF PromptInv, OwnersHold, OneOwner, OnePrompt, Owns
<1>2. QED
  BY <1>1, PromptsOwned, PTL

-----------------------------------------------------------------------------
(* What the REPL has in hand: requests not yet taken, cards, cards held    *)
(* back. In each place a request is there once and without an answer, and  *)
(* in one place only, so no reply meets a request that has one.            *)
Unanswered(id) == id <= Len(asked) /\ told[id] = "none"

EventsOpen ==
  \A i \in 1 .. Len(events), id \in Asks : events[i] = AskEvent(id) =>
    /\ Unanswered(id)
    /\ \A j \in 1 .. Len(events) : events[j] = AskEvent(id) => j = i
    /\ \A j \in 1 .. Len(approval_queue) : approval_queue[j] # id
    /\ \A j \in 1 .. Len(pending_suppressed) : pending_suppressed[j] # id

ShownOpen ==
  \A i \in 1 .. Len(approval_queue) :
    /\ Unanswered(approval_queue[i])
    /\ \A j \in 1 .. Len(approval_queue) : approval_queue[j] = approval_queue[i] => j = i
    /\ \A j \in 1 .. Len(pending_suppressed) : pending_suppressed[j] # approval_queue[i]

HeldOpen ==
  \A i \in 1 .. Len(pending_suppressed) :
    /\ Unanswered(pending_suppressed[i])
    /\ \A j \in 1 .. Len(pending_suppressed) :
         pending_suppressed[j] = pending_suppressed[i] => j = i

(* What the user said is what was told, of requests made; what a first     *)
(* asker published is that; and who was allowed follows a request that     *)
(* was.                                                                    *)
SaidIsTold == told = chosen
ToldWereAsked == \A id \in Asks : told[id] # "none" => id <= Len(asked)
PublishedIsTold == \A id \in Asks : answer[id] \in {"allow", "deny"} => answer[id] = told[id]
AllowedTold == \A a \in allowed : ask[a] # 0 /\ told[ask[a]] = "allow"
AwaitsOne == \A a \in Agents : Waiting(a) => ask[a] # 0

Events == {AskEvent(id) : id \in Asks} \cup {EndEvent(q) : q \in 0 .. MaxQueries}

ReplyTypes ==
  /\ Len(asked) <= MaxAsks /\ allowed \subseteq Agents
  /\ told \in [Asks -> Verdicts] /\ answer \in [Asks -> Verdicts \cup {"dropped"}]
  /\ events \in Seq(Events)
  /\ approval_queue \in Seq(Asks) /\ pending_suppressed \in Seq(Asks)

QueuesInv == EventsOpen /\ ShownOpen /\ HeldOpen
VerdictsInv == SaidIsTold /\ ToldWereAsked /\ PublishedIsTold /\ AllowedTold /\ AwaitsOne
AllowInv == ReplyTypes /\ QueuesInv /\ VerdictsInv

LEMMA EventNames ==
  /\ \A id, od \in Asks : AskEvent(id) = AskEvent(od) => id = od
  /\ \A id \in Asks, q \in 0 .. MaxQueries : EndEvent(q) # AskEvent(id)
  /\ \A e \in Events : e[1] = "ask" => e[2] \in Asks /\ e = AskEvent(e[2])
BY DEF AskEvent, EndEvent, Events

LEMMA TailSeq ==
  ASSUME NEW S, NEW s \in Seq(S), s # << >>
  PROVE  /\ Tail(s) \in Seq(S) /\ Len(Tail(s)) = Len(s) - 1 /\ Len(s) \in Nat \ {0}
         /\ Head(s) = s[1] /\ s[1] \in S
         /\ \A i \in 1 .. Len(Tail(s)) : Tail(s)[i] = s[i + 1] /\ i + 1 \in 1 .. Len(s)
OBVIOUS

LEMMA AppendSeq ==
  ASSUME NEW S, NEW s \in Seq(S), NEW e \in S
  PROVE  /\ Append(s, e) \in Seq(S) /\ Len(Append(s, e)) = Len(s) + 1 /\ Len(s) \in Nat
         /\ \A i \in 1 .. Len(Append(s, e)) :
              Append(s, e)[i] = IF i = Len(s) + 1 THEN e ELSE s[i]
OBVIOUS

(* A reply to requests that have no answer is told to each of them, and    *)
(* to no other.                                                            *)
LEMMA ReplyTells ==
  ASSUME ReplAssumption, ReplyTypes, SaidIsTold, ToldWereAsked, UNCHANGED asked,
         NEW ids \in SUBSET Asks, \A id \in ids : Unanswered(id),
         NEW verdict \in {"allow", "deny"}, Reply(ids, verdict)
  PROVE  /\ told' \in [Asks -> Verdicts] /\ SaidIsTold' /\ ToldWereAsked'
         /\ \A id \in Asks : told[id] # "none" => told'[id] = told[id]
         /\ \A id \in Asks \ ids : told'[id] = told[id]
<1>1. UNION {Addressee(id) : id \in ids} = ids
  <2>1. \A id \in ids : Addressee(id) = {id}
    <3>. SUFFICES ASSUME NEW id \in ids PROVE id \in Pending
      BY DEF Addressee
    <3>. QED
      BY DEF Unanswered, Pending, Asks, ReplAssumption
  <2>2. {Addressee(id) : id \in ids} = {{id} : id \in ids}
    BY <2>1
  <2>. QED
    BY <2>2
<1>2. told' = [id \in Asks |-> IF id \in ids THEN verdict ELSE told[id]]
  BY <1>1 DEF Reply
<1>3. chosen' = [id \in Asks |-> IF id \in ids THEN verdict ELSE chosen[id]]
  BY DEF Reply
<1>. QED
  BY <1>2, <1>3 DEF ReplyTypes, Verdicts, SaidIsTold, ToldWereAsked, Unanswered

(* The verdicts stand while no answer is taken back and nobody begins to   *)
(* wait.                                                                   *)
LEMMA VerdictsStand ==
  ASSUME ReplAssumption, ReplyTypes, VerdictsInv, PromptTypes,
         UNCHANGED <<ask, allowed, asked, answer>>,
         told' \in [Asks -> Verdicts], SaidIsTold', ToldWereAsked',
         \A id \in Asks : told[id] # "none" => told'[id] = told[id],
         \A a \in Agents : Waiting(a)' => Waiting(a)
  PROVE  VerdictsInv'
<1>1. \A a \in Agents : ask[a] # 0 => ask[a] \in Asks
  BY DEF PromptTypes, ReplyTypes, Asks, ReplAssumption
<1>2. PublishedIsTold'
  BY DEF VerdictsInv, PublishedIsTold
<1>3. AllowedTold'
  BY <1>1 DEF VerdictsInv, AllowedTold, ReplyTypes
<1>. QED
  BY <1>2, <1>3 DEF VerdictsInv, AwaitsOne

(* The queues stand when a request is made elsewhere or a query ends.      *)
LEMMA QueuesStand ==
  ASSUME ReplAssumption, ReplyTypes, QueuesInv,
         UNCHANGED <<told, approval_queue, pending_suppressed>>,
         Len(asked) \in Nat, Len(asked') \in Nat, Len(asked) <= Len(asked'),
         \/ UNCHANGED events
         \/ \E q \in 0 .. MaxQueries : events' = Append(events, EndEvent(q))
  PROVE  QueuesInv' /\ events' \in Seq(Events)
<1>1. \A id \in Asks : Unanswered(id) => Unanswered(id)'
  BY DEF Unanswered, Asks, ReplAssumption
<1> DEFINE NoneNew(es) ==
             /\ es \in Seq(Events) /\ Len(events) \in Nat /\ Len(es) \in Nat
             /\ \A i \in 1 .. Len(es), id \in Asks : es[i] = AskEvent(id) =>
                  i \in 1 .. Len(events) /\ events[i] = AskEvent(id)
<1>2. NoneNew(events')
  <2>1. CASE UNCHANGED events
    BY <2>1 DEF ReplyTypes
  <2>2. ASSUME NEW q \in 0 .. MaxQueries, events' = Append(events, EndEvent(q))
        PROVE  NoneNew(events')
    <3>1. EndEvent(q) \in Events
      BY DEF Events
    <3>2. \A id \in Asks : EndEvent(q) # AskEvent(id)
      BY EventNames
    <3>. QED
      BY <2>2, <3>1, <3>2, AppendSeq DEF ReplyTypes
  <2>. QED
    BY <2>1, <2>2
<1>3. EventsOpen'
  BY <1>1, <1>2 DEF QueuesInv, EventsOpen
<1>4. ShownOpen' /\ HeldOpen'
  BY <1>1 DEF QueuesInv, ShownOpen, HeldOpen, ReplyTypes
<1>. QED
  BY <1>2, <1>3, <1>4 DEF QueuesInv

(* An agent moves: it may have been allowed only what was told.            *)
LEMMA MoverKeeps ==
  ASSUME ReplAssumption, ReplyTypes, VerdictsInv, PromptTypes,
         NEW a \in Agents, NEW to, NEW id \in 0 .. MaxAsks,
         at' = [at EXCEPT ![a] = to], ask' = [ask EXCEPT ![a] = id],
         to \in {"prompt", "clear", "follow"} => id # 0,
         allowed' \subseteq allowed \cup {a},
         a \in allowed' => id # 0 /\ told[id] = "allow",
         ToldWereAsked', PublishedIsTold', UNCHANGED <<told, chosen>>
  PROVE  VerdictsInv' /\ allowed' \subseteq Agents
<1>1. allowed' \subseteq Agents
  BY DEF ReplyTypes
<1>2. \A b \in Agents : ask'[b] = IF b = a THEN id ELSE ask[b]
  BY DEF PromptTypes
<1>3. AllowedTold'
  BY <1>1, <1>2 DEF VerdictsInv, AllowedTold
<1>4. AwaitsOne'
  BY <1>2 DEF VerdictsInv, AwaitsOne, Waiting, PromptTypes
<1>. QED
  BY <1>1, <1>3, <1>4 DEF VerdictsInv, SaidIsTold

(* What an agent receives when the answer is what was told.                *)
LEMMA ReceiverKeeps ==
  ASSUME ReplAssumption, ReplyTypes, VerdictsInv, PromptTypes, NEW a \in Agents,
         NEW verdict, Receive(a, verdict),
         verdict = "allow" => ask[a] # 0 /\ told[ask[a]] = "allow",
         UNCHANGED <<ask, asked, answer, told, chosen>>
  PROVE  VerdictsInv' /\ allowed' \subseteq Agents
<1>1. /\ at' = [at EXCEPT ![a] = "run"] /\ ask' = [ask EXCEPT ![a] = ask[a]]
      /\ ask[a] \in 0 .. MaxAsks
  BY DEF Receive, PromptTypes, ReplyTypes, ReplAssumption
<1>2. PublishedIsTold' /\ ToldWereAsked'
  BY DEF VerdictsInv, PublishedIsTold, ToldWereAsked
<1>3. allowed' \subseteq allowed \cup {a} /\ (a \in allowed' => verdict = "allow")
  BY DEF Receive
<1>. QED
  BY <1>1, <1>2, <1>3, MoverKeeps

(* A new request goes to the end of the events, and has no answer.         *)
LEMMA RaiserKeeps ==
  ASSUME ReplAssumption, AllowInv, PromptTypes, NEW a \in Agents, NEW tool \in Tools,
         Raise(a, tool)
  PROVE  AllowInv'
<1>0. PICK new \in Asks : new = NextId
  BY DEF Raise
<1>1. /\ new = Len(asked) + 1 /\ Len(asked) \in Nat
      /\ asked' = Append(asked, tool) /\ events' = Append(events, AskEvent(new))
      /\ at' = [at EXCEPT ![a] = "prompt"] /\ ask' = [ask EXCEPT ![a] = new]
      /\ allowed' = allowed \ {a}
      /\ UNCHANGED <<answer, told, chosen, approval_queue, pending_suppressed>>
  BY <1>0 DEF Raise, PromptTypes, NextId, replies, cards
<1>2. Len(asked') = Len(asked) + 1
  BY <1>1, AppendSeq DEF PromptTypes
<1>3. AskEvent(new) \in Events
  BY <1>1 DEF Events
<1>4. /\ events' \in Seq(Events) /\ Len(events') = Len(events) + 1 /\ Len(events) \in Nat
      /\ \A i \in 1 .. Len(events') :
           events'[i] = IF i = Len(events) + 1 THEN AskEvent(new) ELSE events[i]
  BY <1>1, <1>3, AppendSeq DEF AllowInv, ReplyTypes
<1>5. \A id \in Asks : Unanswered(id) => id # new /\ Unanswered(id)'
  BY <1>1, <1>2 DEF Unanswered, Asks, ReplAssumption
<1>6. told[new] = "none"
  BY <1>1 DEF AllowInv, VerdictsInv, ToldWereAsked
<1>7. Unanswered(new)'
  BY <1>1, <1>2, <1>6 DEF Unanswered
<1>8. ShownOpen' /\ HeldOpen'
  <2>1. UNCHANGED <<told, approval_queue, pending_suppressed>>
    BY <1>1
  <2>2. Len(asked) \in Nat /\ Len(asked') = Len(asked) + 1
    BY <1>1, <1>2
  <2>3. /\ \A i \in 1 .. Len(approval_queue) : approval_queue[i] \in Nat
        /\ \A i \in 1 .. Len(pending_suppressed) : pending_suppressed[i] \in Nat
    BY DEF AllowInv, ReplyTypes, Asks
  <2>. QED
    BY <2>1, <2>2, <2>3 DEF AllowInv, QueuesInv, ShownOpen, HeldOpen, Unanswered
<1>9. EventsOpen'
  <2>. SUFFICES ASSUME NEW i \in 1 .. Len(events'), NEW id \in Asks,
                       events'[i] = AskEvent(id)
                PROVE  /\ Unanswered(id)'
                       /\ \A j \in 1 .. Len(events') : events'[j] = AskEvent(id) => j = i
                       /\ \A j \in 1 .. Len(approval_queue) : approval_queue[j] # id
                       /\ \A j \in 1 .. Len(pending_suppressed) : pending_suppressed[j] # id
    BY <1>1 DEF EventsOpen
  <2>1. CASE id = new
    <3>1. \A j \in 1 .. Len(events) : events[j] # AskEvent(new)
      BY <1>1, <1>5 DEF AllowInv, QueuesInv, EventsOpen
    <3>2. /\ \A j \in 1 .. Len(approval_queue) : approval_queue[j] # new
          /\ \A j \in 1 .. Len(pending_suppressed) : pending_suppressed[j] # new
      BY <1>5 DEF AllowInv, QueuesInv, ShownOpen, HeldOpen, ReplyTypes
    <3>3. \A j \in 1 .. Len(events') : events'[j] = AskEvent(id) => j = Len(events) + 1
      BY <1>4, <2>1, <3>1
    <3>. QED
      BY <1>7, <2>1, <3>2, <3>3
  <2>2. CASE id # new
    <3>1. AskEvent(id) # AskEvent(new)
      BY <1>1, <2>2, EventNames
    <3>2. \A j \in 1 .. Len(events') : events'[j] = AskEvent(id) =>
            j \in 1 .. Len(events) /\ events[j] = AskEvent(id)
      BY <1>4, <3>1
    <3>. QED
      BY <1>5, <3>2 DEF AllowInv, QueuesInv, EventsOpen
  <2>. QED
    BY <2>1, <2>2
<1>10. VerdictsInv' /\ allowed' \subseteq Agents
  <2>1. PublishedIsTold' /\ ToldWereAsked'
    BY <1>1, <1>2 DEF AllowInv, VerdictsInv, PublishedIsTold, ToldWereAsked, Asks,
                      ReplAssumption
  <2>2. new \in 0 .. MaxAsks /\ new # 0 /\ a \notin allowed'
    BY <1>1 DEF Asks, ReplAssumption
  <2>. QED
    BY <1>1, <2>1, <2>2, MoverKeeps DEF AllowInv
<1>. QED
  BY <1>1, <1>2, <1>4, <1>8, <1>9, <1>10
     DEF AllowInv, QueuesInv, ReplyTypes, Asks, ReplAssumption

(* Every other step of an agent leaves the queues alone.                   *)
LEMMA AgentAllows ==
  ASSUME ReplAssumption, AllowInv, PromptTypes, NEW a \in Agents,
         AgentStep(a) \/ AskStep(a) \/ Dropped(a)
  PROVE  AllowInv'
<1> USE ReplAssumption
<1>old. /\ ReplyTypes /\ QueuesInv /\ VerdictsInv
        /\ SaidIsTold /\ ToldWereAsked /\ PublishedIsTold /\ AllowedTold /\ AwaitsOne
  BY DEF AllowInv, VerdictsInv
<1>len. Len(asked) \in Nat /\ Len(asked) <= MaxAsks /\ MaxAsks \in Nat
  BY <1>old DEF PromptTypes, ReplyTypes
<1>ask. ask[a] \in 0 .. MaxAsks /\ (ask[a] # 0 => ask[a] \in Asks)
  BY <1>len DEF PromptTypes, Asks
<1>1. ASSUME UNCHANGED <<asked, told, chosen, approval_queue, pending_suppressed>>,
             \/ UNCHANGED events
             \/ \E q \in 0 .. MaxQueries : events' = Append(events, EndEvent(q)),
             answer' \in [Asks -> Verdicts \cup {"dropped"}],
             VerdictsInv', allowed' \subseteq Agents
      PROVE  AllowInv'
  <2>1. QueuesInv' /\ events' \in Seq(Events)
    BY <1>1, <1>old, <1>len, QueuesStand
  <2>. QED
    BY <1>1, <1>old, <2>1 DEF AllowInv, ReplyTypes
<1>2. ASSUME NEW verdict, Receive(a, verdict),
             verdict = "allow" => ask[a] # 0 /\ told[ask[a]] = "allow",
             UNCHANGED <<ask, asked, answer, told, chosen, approval_queue,
                         pending_suppressed, events>>
      PROVE  AllowInv'
  <2>1. VerdictsInv' /\ allowed' \subseteq Agents
    BY <1>2, <1>old, ReceiverKeeps
  <2>. QED
    BY <1>1, <1>2, <1>old, <2>1 DEF ReplyTypes
<1>3. ASSUME Forget(a), NEW to \in {"ended", "failed", "gone", "off"},
             at' = [at EXCEPT ![a] = to],
             \/ UNCHANGED events
             \/ \E q \in 0 .. MaxQueries : events' = Append(events, EndEvent(q)),
             UNCHANGED <<asked, answer, told, chosen, approval_queue, pending_suppressed>>
      PROVE  AllowInv'
  <2>1. PublishedIsTold' /\ ToldWereAsked'
    BY <1>3, <1>old DEF PublishedIsTold, ToldWereAsked
  <2>2. 0 \in 0 .. MaxAsks /\ ask' = [ask EXCEPT ![a] = 0] /\ allowed' = allowed \ {a}
    BY <1>3, <1>len DEF Forget
  <2>3. VerdictsInv' /\ allowed' \subseteq Agents
    BY <1>3, <1>old, <2>1, <2>2, MoverKeeps
  <2>. QED
    BY <1>1, <1>3, <1>old, <2>3 DEF ReplyTypes
<1>4. ASSUME NEW to \in {"clear", "run"}, at' = [at EXCEPT ![a] = to], ask[a] # 0,
             answer' \in [Asks -> Verdicts \cup {"dropped"}], PublishedIsTold',
             UNCHANGED <<ask, allowed, asked, told, chosen, approval_queue,
                         pending_suppressed, events>>
      PROVE  AllowInv'
  <2>1. ask' = [ask EXCEPT ![a] = ask[a]] /\ ToldWereAsked'
    BY <1>4, <1>old DEF PromptTypes, ToldWereAsked
  <2>2. a \in allowed' => ask[a] # 0 /\ told[ask[a]] = "allow"
    BY <1>4, <1>old DEF AllowedTold
  <2>3. VerdictsInv' /\ allowed' \subseteq Agents
    BY <1>4, <1>old, <1>ask, <2>1, <2>2, MoverKeeps
  <2>. QED
    BY <1>1, <1>4, <2>3
<1>5. CASE a \in Queries /\ Answered(a)
  <2>1. ask[a] # 0
    BY <1>5, <1>old DEF Answered, AwaitsOne, Waiting
  <2>. QED
    BY <1>2, <1>5, <2>1 DEF Answered, replies, cards
<1>6. CASE a \in Queries /\ EndQuery(a)
  <2>1. a \in 0 .. MaxQueries
    BY <1>6 DEF Queries
  <2>. QED
    BY <1>3, <1>6, <2>1 DEF EndQuery, replies, cards
<1>7. CASE a \in Teammates /\ Publish(a)
  <2>1. ask[a] \in Asks
    BY <1>7, <1>old, <1>ask DEF Publish, AwaitsOne, Waiting
  <2>2. /\ answer' = [answer EXCEPT ![ask[a]] = told[ask[a]]]
        /\ UNCHANGED told
    BY <1>7 DEF Publish, replies
  <2>3. answer' \in [Asks -> Verdicts \cup {"dropped"}] /\ PublishedIsTold'
    BY <1>old, <2>1, <2>2 DEF PublishedIsTold, ReplyTypes
  <2>4. ask[a] # 0
    BY <2>1 DEF Asks
  <2>. QED
    BY <1>4, <1>7, <2>3, <2>4 DEF Publish, replies, cards
<1>8. CASE a \in Teammates /\ ClearEntry(a)
  <2>1. ask[a] \in Asks /\ ask[a] # 0
    BY <1>8, <1>old, <1>ask DEF ClearEntry, AwaitsOne, Waiting
  <2>2. answer[ask[a]] = "allow" => told[ask[a]] = "allow"
    BY <1>old, <2>1 DEF PublishedIsTold
  <2>. QED
    BY <1>2, <1>8, <2>1, <2>2 DEF ClearEntry, replies, cards
<1>9. CASE a \in Teammates /\ TakeAnswer(a)
  <2>1. ask[a] \in Asks /\ ask[a] # 0
    BY <1>9, <1>old, <1>ask DEF TakeAnswer, AwaitsOne, Waiting
  <2>2. Outcome(answer[ask[a]]) = "allow" => told[ask[a]] = "allow"
    BY <1>old, <2>1 DEF PublishedIsTold, Outcome
  <2>. QED
    BY <1>2, <1>9, <2>1, <2>2 DEF TakeAnswer, replies, cards
<1>10. CASE a \in Teammates /\ EndTask(a)
  <2>1. FirstQuery \in 0 .. MaxQueries
    BY DEF FirstQuery, ReplAssumption
  <2>. QED
    BY <1>3, <1>10, <2>1 DEF EndTask, replies, cards
<1>11. CASE AskStep(a)
  <2>1. ASSUME NEW tool \in Tools, a \in Teammates /\ Follow(a, tool) PROVE AllowInv'
    <3>1. inflight[tool] \in 0 .. MaxAsks /\ inflight[tool] # 0
      BY <2>1, <1>len DEF Follow, Free, PromptTypes
    <3>2. PublishedIsTold' /\ ToldWereAsked' /\ UNCHANGED <<told, chosen>>
      BY <2>1, <1>old DEF Follow, replies, PublishedIsTold, ToldWereAsked
    <3>3. VerdictsInv' /\ allowed' \subseteq Agents
      BY <2>1, <1>old, <3>1, <3>2, MoverKeeps DEF Follow
    <3>. QED
      BY <1>1, <1>old, <2>1, <3>3 DEF Follow, replies, cards, ReplyTypes
  <2>. QED
    BY <1>11, <2>1, RaiserKeeps DEF AskStep, AskSession, Lead
<1>12. CASE Dropped(a)
  <2>1. ask[a] \in Asks /\ ask[a] # 0
    BY <1>12, <1>old, <1>ask DEF Dropped, Drop, AwaitsOne
  <2>2. answer' = SenderDropped(a) /\ UNCHANGED told
    BY <1>12 DEF Dropped, Drop, replies
  <2>3. answer' \in [Asks -> Verdicts \cup {"dropped"}] /\ PublishedIsTold'
    BY <1>old, <2>1, <2>2 DEF PublishedIsTold, ReplyTypes, SenderDropped
  <2>. QED
    BY <1>4, <1>12, <2>1, <2>3 DEF Dropped, Drop, replies, cards
<1>. QED
  BY <1>5, <1>6, <1>7, <1>8, <1>9, <1>10, <1>11, <1>12 DEF AgentStep

LEMMA ConcatSeq ==
  ASSUME NEW S, NEW s \in Seq(S), NEW u \in Seq(S)
  PROVE  /\ s \o u \in Seq(S) /\ Len(s \o u) = Len(s) + Len(u)
         /\ Len(s) \in Nat /\ Len(u) \in Nat
         /\ \A i \in 1 .. Len(s \o u) :
              (s \o u)[i] = IF i <= Len(s) THEN s[i] ELSE u[i - Len(s)]
OBVIOUS

(* A request that is taken has no answer and is in no queue.               *)
LEMMA TakenIsOpen ==
  ASSUME ReplAssumption, AllowInv, events # << >>, Head(events)[1] = "ask"
  PROVE  /\ Head(events)[2] \in Asks /\ Unanswered(Head(events)[2])
         /\ \A j \in 1 .. Len(approval_queue) : approval_queue[j] # Head(events)[2]
         /\ \A j \in 1 .. Len(pending_suppressed) : pending_suppressed[j] # Head(events)[2]
         /\ \A j \in 1 .. Len(Tail(events)) : Tail(events)[j] # AskEvent(Head(events)[2])
<1>1. /\ Head(events) = events[1] /\ events[1] \in Events /\ Len(events) \in Nat \ {0}
      /\ \A j \in 1 .. Len(Tail(events)) : Tail(events)[j] = events[j + 1] /\ j + 1 \in 1 .. Len(events)
      /\ Len(Tail(events)) = Len(events) - 1
  BY TailSeq DEF AllowInv, ReplyTypes
<1>2. Head(events)[2] \in Asks /\ events[1] = AskEvent(Head(events)[2])
  BY <1>1, EventNames
<1>. QED
  BY <1>1, <1>2 DEF AllowInv, QueuesInv, EventsOpen

(* What is left of the events is as open as before, but for the request    *)
(* that was taken.                                                         *)
LEMMA TailOpen ==
  ASSUME ReplAssumption, AllowInv, events # << >>, events' = Tail(events)
  PROVE  /\ events' \in Seq(Events) /\ Len(events') \in Nat
         /\ \A i \in 1 .. Len(events'), id \in Asks : events'[i] = AskEvent(id) =>
              /\ Unanswered(id)
              /\ \A j \in 1 .. Len(events') : events'[j] = AskEvent(id) => j = i
              /\ \A j \in 1 .. Len(approval_queue) : approval_queue[j] # id
              /\ \A j \in 1 .. Len(pending_suppressed) : pending_suppressed[j] # id
<1>1. /\ events' \in Seq(Events) /\ Len(events') = Len(events) - 1
      /\ Len(events) \in Nat \ {0}
      /\ \A i \in 1 .. Len(events') : events'[i] = events[i + 1] /\ i + 1 \in 1 .. Len(events)
  BY TailSeq DEF AllowInv, ReplyTypes
<1>2. ASSUME NEW i \in 1 .. Len(events'), NEW id \in Asks, events'[i] = AskEvent(id)
      PROVE  /\ Unanswered(id)
             /\ \A j \in 1 .. Len(events') : events'[j] = AskEvent(id) => j = i
             /\ \A j \in 1 .. Len(approval_queue) : approval_queue[j] # id
             /\ \A j \in 1 .. Len(pending_suppressed) : pending_suppressed[j] # id
  <2>1. events[i + 1] = AskEvent(id) /\ i + 1 \in 1 .. Len(events)
    BY <1>1, <1>2
  <2>2. \A j \in 1 .. Len(events') : events'[j] = AskEvent(id) => j + 1 = i + 1
    BY <1>1, <2>1 DEF AllowInv, QueuesInv, EventsOpen
  <2>. QED
    BY <2>1, <2>2 DEF AllowInv, QueuesInv, EventsOpen
<1>3. Len(events') \in Nat
  BY <1>1
<1>. QED
  BY <1>1, <1>2, <1>3, Zenon

(* A request taken is granted at once, shown, or held back.                *)
LEMMA TakeRequestOpen ==
  ASSUME ReplAssumption, AllowInv, TakeRequest
  PROVE  /\ QueuesInv' /\ events' \in Seq(Events)
         /\ approval_queue' \in Seq(Asks) /\ pending_suppressed' \in Seq(Asks)
         /\ told' \in [Asks -> Verdicts] /\ SaidIsTold' /\ ToldWereAsked'
         /\ \A id \in Asks : told[id] # "none" => told'[id] = told[id]
<1>old. ReplyTypes /\ EventsOpen /\ ShownOpen /\ HeldOpen /\ SaidIsTold /\ ToldWereAsked
  BY DEF AllowInv, QueuesInv, VerdictsInv
<1>0. PICK new \in Asks : new = Head(events)[2]
  BY TakenIsOpen DEF TakeRequest
<1>1. /\ Unanswered(new)
      /\ \A j \in 1 .. Len(approval_queue) : approval_queue[j] # new
      /\ \A j \in 1 .. Len(pending_suppressed) : pending_suppressed[j] # new
      /\ \A j \in 1 .. Len(Tail(events)) : Tail(events)[j] # AskEvent(new)
  BY <1>0, TakenIsOpen DEF TakeRequest
<1>2. events' = Tail(events)
  BY DEF TakeRequest
<1>asked. UNCHANGED asked
  BY DEF TakeRequest, agents
<1>3. /\ events' \in Seq(Events) /\ Len(events') \in Nat
      /\ \A i \in 1 .. Len(events'), id \in Asks : events'[i] = AskEvent(id) =>
           /\ Unanswered(id) /\ id # new
           /\ \A j \in 1 .. Len(events') : events'[j] = AskEvent(id) => j = i
           /\ \A j \in 1 .. Len(approval_queue) : approval_queue[j] # id
           /\ \A j \in 1 .. Len(pending_suppressed) : pending_suppressed[j] # id
  BY <1>1, <1>2, TailOpen DEF TakeRequest
<1>4. CASE Reply({new}, "allow") /\ UNCHANGED <<approval_queue, pending_suppressed>>
  <2>1. /\ told' \in [Asks -> Verdicts] /\ SaidIsTold' /\ ToldWereAsked'
        /\ \A id \in Asks : told[id] # "none" => told'[id] = told[id]
        /\ \A id \in Asks \ {new} : told'[id] = told[id]
    BY <1>old, <1>1, <1>asked, <1>4, ReplyTells
  <2>2. /\ \A i \in 1 .. Len(approval_queue) : approval_queue[i] \in Asks
        /\ \A i \in 1 .. Len(pending_suppressed) : pending_suppressed[i] \in Asks
    BY <1>old DEF ReplyTypes
  <2>3. EventsOpen'
    BY <1>asked, <1>3, <1>4, <2>1 DEF EventsOpen, Unanswered
  <2>4. ShownOpen' /\ HeldOpen'
    BY <1>old, <1>1, <1>asked, <1>4, <2>1, <2>2 DEF ShownOpen, HeldOpen, Unanswered
  <2>. QED
    BY <1>old, <1>3, <1>4, <2>1, <2>3, <2>4 DEF QueuesInv, ReplyTypes
<1>5. CASE /\ approval_queue' = Append(approval_queue, new)
           /\ UNCHANGED <<told, chosen, pending_suppressed>>
  <2>1. /\ approval_queue' \in Seq(Asks) /\ Len(approval_queue) \in Nat
        /\ Len(approval_queue') = Len(approval_queue) + 1
        /\ \A i \in 1 .. Len(approval_queue') :
             approval_queue'[i] = IF i = Len(approval_queue) + 1 THEN new ELSE approval_queue[i]
    BY <1>old, <1>5, AppendSeq DEF ReplyTypes
  <2>2. \A i \in 1 .. Len(pending_suppressed) : pending_suppressed[i] \in Asks
    BY <1>old DEF ReplyTypes
  <2>3. EventsOpen'
    BY <1>asked, <1>3, <1>5, <2>1 DEF EventsOpen, Unanswered
  <2>4. ShownOpen'
    BY <1>old, <1>1, <1>asked, <1>5, <2>1 DEF ShownOpen, Unanswered
  <2>5. HeldOpen'
    BY <1>old, <1>asked, <1>5 DEF HeldOpen, Unanswered
  <2>. QED
    BY <1>old, <1>asked, <1>3, <1>5, <2>1, <2>3, <2>4, <2>5
       DEF QueuesInv, ReplyTypes, SaidIsTold, ToldWereAsked
<1>6. CASE /\ pending_suppressed' = Append(pending_suppressed, new)
           /\ UNCHANGED <<told, chosen, approval_queue>>
  <2>1. /\ pending_suppressed' \in Seq(Asks) /\ Len(pending_suppressed) \in Nat
        /\ Len(pending_suppressed') = Len(pending_suppressed) + 1
        /\ \A i \in 1 .. Len(pending_suppressed') :
             pending_suppressed'[i] =
               IF i = Len(pending_suppressed) + 1 THEN new ELSE pending_suppressed[i]
    BY <1>old, <1>6, AppendSeq DEF ReplyTypes
  <2>2. EventsOpen'
    BY <1>asked, <1>3, <1>6, <2>1 DEF EventsOpen, Unanswered
  <2>3. ShownOpen'
    BY <1>old, <1>1, <1>asked, <1>6, <2>1 DEF ShownOpen, Unanswered
  <2>4. HeldOpen'
    BY <1>old, <1>1, <1>asked, <1>6, <2>1 DEF HeldOpen, Unanswered
  <2>. QED
    BY <1>old, <1>asked, <1>3, <1>6, <2>1, <2>2, <2>3, <2>4
       DEF QueuesInv, ReplyTypes, SaidIsTold, ToldWereAsked
<1>. QED
  BY <1>0, <1>4, <1>5, <1>6 DEF TakeRequest, replies

(* The cards held back go to the end of the cards shown.                   *)
LEMMA PromoteOpen ==
  ASSUME ReplAssumption, AllowInv, Promote
  PROVE  /\ QueuesInv'
         /\ approval_queue' \in Seq(Asks) /\ pending_suppressed' \in Seq(Asks)
<1>old. ReplyTypes /\ EventsOpen /\ ShownOpen /\ HeldOpen
  BY DEF AllowInv, QueuesInv
<1>1. UNCHANGED <<asked, told, events>>
  BY DEF Promote, agents, replies
<1>2. /\ approval_queue' \in Seq(Asks)
      /\ Len(approval_queue') = Len(approval_queue) + Len(pending_suppressed)
      /\ Len(approval_queue) \in Nat /\ Len(pending_suppressed) \in Nat
      /\ \A i \in 1 .. Len(approval_queue') :
           approval_queue'[i] = IF i <= Len(approval_queue) THEN approval_queue[i]
                                ELSE pending_suppressed[i - Len(approval_queue)]
  BY <1>old, ConcatSeq DEF Promote, ReplyTypes
<1>3. Len(pending_suppressed') = 0 /\ pending_suppressed' \in Seq(Asks)
  BY DEF Promote
<1>4. EventsOpen'
  <2>. SUFFICES ASSUME NEW i \in 1 .. Len(events), NEW id \in Asks,
                       events[i] = AskEvent(id)
                PROVE  /\ Unanswered(id)
                       /\ \A j \in 1 .. Len(events) : events[j] = AskEvent(id) => j = i
                       /\ \A j \in 1 .. Len(approval_queue') : approval_queue'[j] # id
    BY <1>1, <1>3 DEF EventsOpen, Unanswered
  <2>1. /\ Unanswered(id)
        /\ \A j \in 1 .. Len(events) : events[j] = AskEvent(id) => j = i
        /\ \A j \in 1 .. Len(approval_queue) : approval_queue[j] # id
        /\ \A j \in 1 .. Len(pending_suppressed) : pending_suppressed[j] # id
    BY <1>old DEF EventsOpen
  <2>2. \A j \in 1 .. Len(approval_queue') : approval_queue'[j] # id
    <3>. SUFFICES ASSUME NEW j \in 1 .. Len(approval_queue') PROVE approval_queue'[j] # id
      OBVIOUS
    <3>1. \/ j \in 1 .. Len(approval_queue) /\ approval_queue'[j] = approval_queue[j]
          \/ /\ j - Len(approval_queue) \in 1 .. Len(pending_suppressed)
             /\ approval_queue'[j] = pending_suppressed[j - Len(approval_queue)]
      BY <1>2
    <3>. QED
      BY <2>1, <3>1
  <2>. QED
    BY <2>1, <2>2
<1>5. ShownOpen'
  <2>1. \A i \in 1 .. Len(approval_queue') :
          \/ i \in 1 .. Len(approval_queue)
          \/ i - Len(approval_queue) \in 1 .. Len(pending_suppressed)
    BY <1>2
  <2>2. \A i \in 1 .. Len(approval_queue') : Unanswered(approval_queue'[i])
    BY <1>old, <1>2, <2>1 DEF ShownOpen, HeldOpen
  <2>3. \A i, j \in 1 .. Len(approval_queue') :
          approval_queue'[j] = approval_queue'[i] => j = i
    <3>. SUFFICES ASSUME NEW i \in 1 .. Len(approval_queue'),
                         NEW j \in 1 .. Len(approval_queue'),
                         approval_queue'[j] = approval_queue'[i]
                  PROVE  j = i
      OBVIOUS
    <3>1. CASE i <= Len(approval_queue) /\ j <= Len(approval_queue)
      <4>1. /\ i \in 1 .. Len(approval_queue) /\ j \in 1 .. Len(approval_queue)
            /\ approval_queue[j] = approval_queue[i]
        BY <1>2, <3>1
      <4>. QED
        BY <1>old, <4>1 DEF ShownOpen
    <3>2. CASE i <= Len(approval_queue) /\ ~(j <= Len(approval_queue))
      <4>1. pending_suppressed[j - Len(approval_queue)] = approval_queue[i]
        BY <1>2, <3>2
      <4>. QED
        BY <1>old, <1>2, <2>1, <3>2, <4>1 DEF ShownOpen
    <3>3. CASE ~(i <= Len(approval_queue)) /\ j <= Len(approval_queue)
      <4>1. pending_suppressed[i - Len(approval_queue)] = approval_queue[j]
        BY <1>2, <3>3
      <4>. QED
        BY <1>old, <1>2, <2>1, <3>3, <4>1 DEF ShownOpen
    <3>4. CASE ~(i <= Len(approval_queue)) /\ ~(j <= Len(approval_queue))
      <4>1. pending_suppressed[i - Len(approval_queue)]
              = pending_suppressed[j - Len(approval_queue)]
        BY <1>2, <3>4
      <4>2. i - Len(approval_queue) = j - Len(approval_queue)
        BY <1>old, <1>2, <2>1, <3>4, <4>1 DEF HeldOpen
      <4>. QED
        BY <1>2, <4>2
    <3>. QED
      BY <3>1, <3>2, <3>3, <3>4
  <2>. QED
    BY <1>1, <1>3, <2>2, <2>3 DEF ShownOpen, Unanswered
<1>6. HeldOpen'
  BY <1>3 DEF HeldOpen
<1>. QED
  BY <1>2, <1>3, <1>4, <1>5, <1>6 DEF QueuesInv

(* A decision answers the first card.                                      *)
LEMMA DecideOpen ==
  ASSUME ReplAssumption, AllowInv, NEW verdict \in {"allow", "deny"}, NEW always,
         Decide(verdict, always)
  PROVE  /\ QueuesInv' /\ approval_queue' \in Seq(Asks)
         /\ told' \in [Asks -> Verdicts] /\ SaidIsTold' /\ ToldWereAsked'
         /\ \A id \in Asks : told[id] # "none" => told'[id] = told[id]
<1>old. ReplyTypes /\ EventsOpen /\ ShownOpen /\ HeldOpen /\ SaidIsTold /\ ToldWereAsked
  BY DEF AllowInv, QueuesInv, VerdictsInv
<1>1. UNCHANGED <<asked, events, pending_suppressed>>
  BY DEF Decide, agents
<1>2. /\ approval_queue' \in Seq(Asks) /\ Len(approval_queue) \in Nat \ {0}
      /\ Len(approval_queue') = Len(approval_queue) - 1
      /\ Head(approval_queue) = approval_queue[1] /\ approval_queue[1] \in Asks
      /\ \A i \in 1 .. Len(approval_queue') :
           approval_queue'[i] = approval_queue[i + 1] /\ i + 1 \in 1 .. Len(approval_queue)
  BY <1>old, TailSeq DEF Decide, ReplyTypes
<1>3. PICK id \in Asks : id = approval_queue[1]
  BY <1>2
<1>4. Reply({id}, verdict)
  BY <1>2, <1>3 DEF Decide
<1>5. /\ Unanswered(id)
      /\ \A i \in 1 .. Len(approval_queue') : approval_queue'[i] # id
      /\ \A i \in 1 .. Len(pending_suppressed) : pending_suppressed[i] # id
      /\ \A i \in 1 .. Len(events) : events[i] # AskEvent(id)
  <2>1. 1 \in 1 .. Len(approval_queue)
    BY <1>2
  <2>2. /\ Unanswered(id)
        /\ \A j \in 1 .. Len(approval_queue) : approval_queue[j] = id => j = 1
        /\ \A j \in 1 .. Len(pending_suppressed) : pending_suppressed[j] # id
    BY <1>old, <1>3, <2>1 DEF ShownOpen
  <2>3. \A i \in 1 .. Len(approval_queue') : approval_queue'[i] # id
    BY <1>2, <2>2
  <2>4. \A i \in 1 .. Len(events) : events[i] # AskEvent(id)
    BY <1>old, <1>3, <2>1 DEF EventsOpen
  <2>. QED
    BY <2>2, <2>3, <2>4
<1>6. /\ told' \in [Asks -> Verdicts] /\ SaidIsTold' /\ ToldWereAsked'
      /\ \A k \in Asks : told[k] # "none" => told'[k] = told[k]
      /\ \A k \in Asks \ {id} : told'[k] = told[k]
  BY <1>old, <1>1, <1>4, <1>5, ReplyTells
<1>7. /\ \A i \in 1 .. Len(pending_suppressed) : pending_suppressed[i] \in Asks
      /\ \A i \in 1 .. Len(approval_queue') : approval_queue'[i] \in Asks
  BY <1>old, <1>2 DEF ReplyTypes
<1>8. EventsOpen'
  <2>1. \A k \in Asks, i \in 1 .. Len(events) : events[i] = AskEvent(k) => k # id
    BY <1>5
  <2>. QED
    BY <1>old, <1>1, <1>2, <1>6, <2>1 DEF EventsOpen, Unanswered
<1>9. ShownOpen'
  BY <1>old, <1>1, <1>2, <1>5, <1>6, <1>7 DEF ShownOpen, Unanswered
<1>10. HeldOpen'
  BY <1>old, <1>1, <1>5, <1>6, <1>7 DEF HeldOpen, Unanswered
<1>. QED
  BY <1>2, <1>6, <1>8, <1>9, <1>10 DEF QueuesInv

(* Ctrl+C denies every card shown.                                         *)
LEMMA InterruptOpen ==
  ASSUME ReplAssumption, AllowInv, InterruptPermissions
  PROVE  /\ QueuesInv' /\ approval_queue' \in Seq(Asks)
         /\ told' \in [Asks -> Verdicts] /\ SaidIsTold' /\ ToldWereAsked'
         /\ \A id \in Asks : told[id] # "none" => told'[id] = told[id]
<1>old. ReplyTypes /\ EventsOpen /\ ShownOpen /\ HeldOpen /\ SaidIsTold /\ ToldWereAsked
  BY DEF AllowInv, QueuesInv, VerdictsInv
<1>1. /\ UNCHANGED <<asked, events, pending_suppressed>>
      /\ Reply(ToSet(approval_queue), "deny")
  BY DEF InterruptPermissions, agents
<1>2. /\ DOMAIN approval_queue = 1 .. Len(approval_queue)
      /\ \A i \in 1 .. Len(approval_queue) : approval_queue[i] \in Asks
  BY <1>old DEF ReplyTypes
<1>3. PICK ids \in SUBSET Asks :
        /\ ToSet(approval_queue) = ids
        /\ \A id \in ids : \E i \in 1 .. Len(approval_queue) : approval_queue[i] = id
  <2>1. \A id \in ToSet(approval_queue) :
          id \in Asks /\ \E i \in 1 .. Len(approval_queue) : approval_queue[i] = id
    BY <1>2 DEF ToSet
  <2>2. ToSet(approval_queue) \in SUBSET Asks
    BY <2>1
  <2>. QED
    BY <2>1, <2>2
<1>4. /\ \A id \in ids : Unanswered(id)
      /\ \A i \in 1 .. Len(pending_suppressed) : pending_suppressed[i] \notin ids
      /\ \A id \in Asks, i \in 1 .. Len(events) : events[i] = AskEvent(id) => id \notin ids
  BY <1>old, <1>3 DEF ShownOpen, EventsOpen
<1>5. /\ told' \in [Asks -> Verdicts] /\ SaidIsTold' /\ ToldWereAsked'
      /\ \A k \in Asks : told[k] # "none" => told'[k] = told[k]
      /\ \A k \in Asks \ ids : told'[k] = told[k]
  BY <1>old, <1>1, <1>3, <1>4, ReplyTells
<1>6. \A i \in 1 .. Len(pending_suppressed) : pending_suppressed[i] \in Asks
  BY <1>old DEF ReplyTypes
<1>7. Len(approval_queue') = 0 /\ approval_queue' \in Seq(Asks)
  BY DEF InterruptPermissions
<1>8. EventsOpen'
  BY <1>old, <1>1, <1>4, <1>5, <1>7 DEF EventsOpen, Unanswered
<1>9. ShownOpen' /\ HeldOpen'
  BY <1>old, <1>1, <1>4, <1>5, <1>6, <1>7 DEF ShownOpen, HeldOpen, Unanswered
<1>. QED
  BY <1>5, <1>7, <1>8, <1>9 DEF QueuesInv

(* A step of the REPL or of the user answers only open requests.           *)
LEMMA ReplAllows ==
  ASSUME ReplAssumption, AllowInv, PromptTypes, ReplStep \/ UserAnswers \/ UserStep
  PROVE  AllowInv'
<1> USE ReplAssumption
<1>old. /\ ReplyTypes /\ QueuesInv /\ VerdictsInv
        /\ SaidIsTold /\ ToldWereAsked /\ EventsOpen /\ ShownOpen /\ HeldOpen
  BY DEF AllowInv, QueuesInv, VerdictsInv
<1>len. Len(asked) \in Nat
  BY DEF PromptTypes
<1>1. ASSUME UNCHANGED <<ask, allowed, asked, answer>>,
             \A a \in Agents : Waiting(a)' => Waiting(a),
             told' \in [Asks -> Verdicts], SaidIsTold', ToldWereAsked',
             \A id \in Asks : told[id] # "none" => told'[id] = told[id],
             QueuesInv', events' \in Seq(Events),
             approval_queue' \in Seq(Asks), pending_suppressed' \in Seq(Asks)
      PROVE  AllowInv'
  <2>1. VerdictsInv'
    BY <1>1, <1>old, VerdictsStand
  <2>. QED
    BY <1>1, <1>old, <2>1 DEF AllowInv, ReplyTypes
<1>2. ASSUME UNCHANGED <<ask, allowed, asked, answer, told, chosen>>,
             \A a \in Agents : Waiting(a)' => Waiting(a),
             QueuesInv', events' \in Seq(Events),
             approval_queue' \in Seq(Asks), pending_suppressed' \in Seq(Asks)
      PROVE  AllowInv'
  BY <1>1, <1>2, <1>old DEF SaidIsTold, ToldWereAsked, ReplyTypes
<1>3. ASSUME UNCHANGED <<ask, allowed, asked, answer, told, chosen, approval_queue,
                         pending_suppressed>>,
             \A a \in Agents : Waiting(a)' => Waiting(a),
             \/ UNCHANGED events
             \/ \E q \in 0 .. MaxQueries : events' = Append(events, EndEvent(q))
      PROVE  AllowInv'
  <2>1. QueuesInv' /\ events' \in Seq(Events)
    BY <1>3, <1>old, <1>len, QueuesStand
  <2>. QED
    BY <1>2, <1>3, <1>old, <2>1 DEF ReplyTypes
<1>4. UNCHANGED at => \A a \in Agents : Waiting(a)' => Waiting(a)
  BY DEF Waiting
<1>5. CASE TakeRequest
  BY <1>1, <1>4, <1>5, TakeRequestOpen DEF TakeRequest, agents
<1>6. CASE TakeEnd
  <2>1. QueuesInv' /\ events' \in Seq(Events)
    <3>1. UNCHANGED <<asked, told, approval_queue, pending_suppressed>>
      BY <1>6 DEF TakeEnd, agents, replies
    <3>2. /\ events' \in Seq(Events)
          /\ \A i \in 1 .. Len(events'), id \in Asks : events'[i] = AskEvent(id) =>
               /\ Unanswered(id)
               /\ \A j \in 1 .. Len(events') : events'[j] = AskEvent(id) => j = i
               /\ \A j \in 1 .. Len(approval_queue) : approval_queue[j] # id
               /\ \A j \in 1 .. Len(pending_suppressed) : pending_suppressed[j] # id
      BY <1>6, TailOpen DEF TakeEnd
    <3>3. EventsOpen'
      BY <3>1, <3>2 DEF EventsOpen, Unanswered
    <3>. QED
      BY <1>old, <3>1, <3>2, <3>3 DEF QueuesInv, ShownOpen, HeldOpen, Unanswered
  <2>. QED
    BY <1>2, <1>4, <1>6, <1>old, <2>1 DEF TakeEnd, agents, replies, ReplyTypes
<1>7. CASE Promote
  BY <1>2, <1>4, <1>7, <1>old, PromoteOpen DEF Promote, agents, replies, ReplyTypes
<1>8. ASSUME NEW verdict \in {"allow", "deny"}, NEW always, Decide(verdict, always)
      PROVE  AllowInv'
  BY <1>1, <1>4, <1>8, <1>old, DecideOpen DEF Decide, agents, ReplyTypes
<1>9. CASE InterruptPermissions
  BY <1>1, <1>4, <1>9, <1>old, InterruptOpen DEF InterruptPermissions, agents, ReplyTypes
<1>10. CASE NewSession
  <2>1. /\ UNCHANGED <<agents, told, chosen, events, approval_queue>>
        /\ Len(pending_suppressed') = 0 /\ pending_suppressed' \in Seq(Asks)
    BY <1>10 DEF NewSession, replies
  <2>2. QueuesInv'
    BY <1>old, <2>1 DEF agents, QueuesInv, EventsOpen, ShownOpen, HeldOpen, Unanswered
  <2>. QED
    BY <1>2, <1>4, <1>old, <2>1, <2>2 DEF agents, ReplyTypes
<1>11. ASSUME NEW q \in Queries, Return(q) PROVE AllowInv'
  <2>1. \A a \in Agents : Waiting(a)' => Waiting(a)
    BY <1>11 DEF Return, Waiting
  <2>2. AlwaysCurrent \in 0 .. MaxQueries
    BY DEF AlwaysCurrent, ReplAssumption
  <2>. QED
    BY <1>3, <1>11, <2>1, <2>2 DEF Return, replies, cards
<1>12. ASSUME NEW q \in Queries, Spawn(q),
              UNCHANGED <<ask, allowed, asked, inflight, answer, replies, approval_queue,
                          pending_suppressed, events>>
       PROVE  AllowInv'
  <2>1. \A a \in Agents : Waiting(a)' => Waiting(a)
    BY <1>12 DEF Spawn, Waiting, PromptTypes
  <2>. QED
    BY <1>3, <1>12, <2>1 DEF replies
<1>13. CASE UNCHANGED <<agents, replies, approval_queue, pending_suppressed, events>>
  BY <1>3, <1>4, <1>13 DEF agents, replies
<1>. QED
  BY <1>5, <1>6, <1>7, <1>8, <1>9, <1>10, <1>11, <1>12, <1>13
     DEF ReplStep, UserAnswers, UserStep, TeamDone, QuitDone, DequeueCommand, Dequeue,
         Allow, AllowAlways, Deny, InterruptProcessing, InterruptToQueue, Quit,
         ExitCommand, Submit, CronSubmit, cards

(* Said, told, published and received agree, in every state.               *)
THEOREM VerdictsKept == ASSUME ReplAssumption PROVE Spec => []AllowInv
<1>1. Init => AllowInv
  BY DEF Init, AllowInv, ReplyTypes, QueuesInv, VerdictsInv, EventsOpen, ShownOpen,
         HeldOpen, SaidIsTold, ToldWereAsked, PublishedIsTold, AllowedTold, AwaitsOne,
         Waiting, Verdicts, ReplAssumption
<1>2. PromptInv /\ AllowInv /\ [Next]_vars => AllowInv'
  <2>. SUFFICES ASSUME PromptInv, AllowInv, [Next]_vars PROVE AllowInv'
    OBVIOUS
  <2>0. PromptTypes
    BY DEF PromptInv
  <2>1. ASSUME NEW a \in Agents, AgentStep(a) \/ AskStep(a) \/ Dropped(a) PROVE AllowInv'
    BY <2>0, <2>1, AgentAllows
  <2>2. CASE UNCHANGED vars \/ \E t \in Teammates : KillTeammate(t)
    <3>1. UNCHANGED <<agents, replies, approval_queue, pending_suppressed, events>>
      BY <2>2 DEF KillTeammate, vars, cards
    <3>. QED
      BY <3>1 DEF agents, replies, AllowInv, ReplyTypes, QueuesInv, VerdictsInv,
                  EventsOpen, ShownOpen, HeldOpen, Unanswered, SaidIsTold, ToldWereAsked,
                  PublishedIsTold, AllowedTold, AwaitsOne, Waiting
  <2>3. CASE ReplStep \/ UserAnswers \/ UserStep
    BY <2>0, <2>3, ReplAllows
  <2>. QED
    BY <2>1, <2>2, <2>3 DEF Next
<1>. QED
  BY <1>1, <1>2, PromptsOwned, PTL DEF Spec

(* Who was allowed a call was allowed it by what the user, or a grant,     *)
(* said of the request it raised or joined (the dispatcher of              *)
(* agents/src/runtime.rs, and resolve in permission_sync.rs).              *)
THEOREM OnlyUserAllows == ASSUME ReplAssumption PROVE Spec => []AllowedByUser
<1>1. AllowInv => AllowedByUser
  BY DEF AllowInv, VerdictsInv, SaidIsTold, AllowedTold, AllowedByUser
<1>. QED
  BY <1>1, VerdictsKept, PTL

-----------------------------------------------------------------------------
(* The rest of the state's type.                                           *)
SessionTypes ==
  /\ session_grants \subseteq Tools
  /\ screen \in {"Idle", "Processing", "Confirming"}
  /\ repl \in {"loop", "team", "quit", "done"}
  /\ {conv_return, epoch} \subseteq Queries \cup {NoQuery}
  /\ cancelled \subseteq Agents

LEMMA GrantsKept ==
  ASSUME ReplAssumption, AllowInv, PromptTypes, SessionTypes, NEW verdict, NEW always,
         Decide(verdict, always)
  PROVE  session_grants' \subseteq Tools
<1>1. Head(approval_queue) = approval_queue[1] /\ Len(approval_queue) \in Nat \ {0}
      /\ approval_queue[1] \in Asks
  BY TailSeq DEF Decide, AllowInv, ReplyTypes
<1>2. approval_queue[1] <= Len(asked)
  BY <1>1 DEF AllowInv, QueuesInv, ShownOpen, Unanswered
<1>3. asked[Head(approval_queue)] \in Tools
  BY <1>1, <1>2 DEF PromptTypes, Asks, ReplAssumption
<1>. QED
  BY <1>3 DEF Decide, SessionTypes

LEMMA SessionTyped ==
  ASSUME ReplAssumption, AllowInv, PromptTypes, SessionTypes, [Next]_vars
  PROVE  SessionTypes'
<1> USE DEF SessionTypes
<1>1. ASSUME NEW a \in Agents, AgentStep(a) \/ AskStep(a) \/ Dropped(a) PROVE SessionTypes'
  BY <1>1 DEF AgentStep, AskStep, Dropped, Answered, EndQuery, Publish, ClearEntry,
              TakeAnswer, EndTask, AskSession, Lead, Follow, Raise, Drop, Forget, cards, turns
<1>2. ASSUME NEW t \in Teammates, KillTeammate(t) PROVE SessionTypes'
  BY <1>2 DEF KillTeammate, cards, turns, Agents
<1>3. CancelQuery => cancelled' \subseteq Agents
  BY DEF CancelQuery, Agents
<1>4. ASSUME NEW verdict, NEW always, Decide(verdict, always) PROVE SessionTypes'
  BY <1>4, GrantsKept DEF Decide, turns
<1>5. ASSUME NEW q \in Queries, Submit(q) \/ CronSubmit(q) \/ Dequeue(q) \/ Return(q)
      PROVE  SessionTypes'
  BY <1>5 DEF Submit, CronSubmit, Dequeue, Return, Spawn, cards
<1>6. CASE ReplStep \/ UserAnswers \/ UserStep
  BY <1>3, <1>4, <1>5, <1>6
     DEF ReplStep, UserAnswers, UserStep, TakeRequest, TakeEnd, Promote, TeamDone,
         QuitDone, DequeueCommand, Allow, AllowAlways, Deny, InterruptPermissions,
         InterruptProcessing, InterruptToQueue, NewSession, Quit, ExitCommand,
         cards, turns
<1>7. CASE UNCHANGED vars
  BY <1>7 DEF vars, cards, turns
<1>. QED
  BY <1>1, <1>2, <1>6, <1>7 DEF Next

(* The state has its type, with no request beyond those made.              *)
THEOREM StateTyped == ASSUME ReplAssumption PROVE Spec => []TypeOK
<1>1. Init => AllowInv /\ SessionTypes
  BY DEF Init, AllowInv, ReplyTypes, QueuesInv, VerdictsInv, EventsOpen, ShownOpen,
         HeldOpen, SaidIsTold, ToldWereAsked, PublishedIsTold, AllowedTold, AwaitsOne,
         Waiting, Verdicts, ReplAssumption, SessionTypes
<1>2. PromptInv /\ AllowInv /\ SessionTypes /\ [Next]_vars => SessionTypes'
  BY SessionTyped DEF PromptInv
<1>3. PromptInv /\ AllowInv /\ SessionTypes => TypeOK
  BY DEF PromptInv, PromptTypes, AllowInv, ReplyTypes, VerdictsInv, SaidIsTold,
         SessionTypes, TypeOK, Places, Events
<1>. QED
  BY <1>1, <1>2, <1>3, PromptsOwned, VerdictsKept, PTL DEF Spec

=============================================================================
