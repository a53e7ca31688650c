------------------------- MODULE SessionConversation -------------------------
(***************************************************************************)
(* The conversation of a session over many queries: prompts, assistant     *)
(* replies, tool turns, compaction (automatic, manual or after a prompt    *)
(* that was too long), and what the REPL does when a query returns: the    *)
(* undo of a cancelled prompt and the scan for team markers. A step is     *)
(* what one iteration of query_loop or one handler of the REPL does to the *)
(* conversation; the tool turn in it is the one ToolTurn describes.        *)
(*                                                                         *)
(* Code: engine/src/loop.rs, agents/src/runtime.rs, agents/src/teams/      *)
(* spawn.rs (scan_team_markers), tui/src/runner/repl.rs.                   *)
(***************************************************************************)
EXTENDS Conversation

CONSTANTS
  MaxMessages, \* bound on the length of the conversation
  MaxIds,      \* bound on the tool turns of the session
  PromptCosts, \* the costs of a prompt
  SummaryCosts \* the costs of a summary

ASSUME SessionAssumption ==
  /\ MaxMessages \in Nat /\ MaxIds \in Nat
  /\ PromptCosts \subseteq Nat /\ SummaryCosts \subseteq Nat

VARIABLES
  conv,    \* the conversation
  client,  \* whether the session has a CompactionClient
  status,  \* "idle", "head" (of query_loop) or "ended" (the query returned)
  start,   \* pre_query_len: the length of the conversation when the query began
  ids,     \* the last tool_use id in use
  handled, \* history: ids whose results were scanned for team markers
  undone   \* history: ids whose results an undo removed

vars == <<conv, client, status, start, ids, handled, undone>>

Init ==
  /\ conv = NewConversation
  /\ client \in BOOLEAN
  /\ status = "idle"
  /\ start = 0
  /\ ids = 0
  /\ handled = {} /\ undone = {}

Room(n) == Len(conv.msgs) + n <= MaxMessages

(* The prompt is pushed, then the length is taken.                         *)
Submit ==
  /\ status = "idle" /\ Room(1)
  /\ \E cost \in PromptCosts : conv' = Push(conv, Text("user", cost))
  /\ start' = Len(conv'.msgs)
  /\ status' = "head"
  /\ UNCHANGED <<client, ids, handled, undone>>

-----------------------------------------------------------------------------
(* One iteration of query_loop.                                            *)

(* A reply without tool calls ends the query; it is empty when the stream  *)
(* was cancelled before any block.                                         *)
Reply ==
  /\ status = "head" /\ Room(1)
  /\ \E cost \in {0, 1} :
       conv' = Push(RecordUsage(conv), Text("assistant", cost))
  /\ status' = "ended"
  /\ UNCHANGED <<client, start, ids, handled, undone>>

(* A reply that was cut at max_tokens is asked for again with a higher     *)
(* limit, or kept and followed by a request to go on; a Stop hook may send *)
(* a reply back, with or without a message. The query goes on. A reply     *)
(* kept here has text: an empty one counts at the end of a query only.     *)
GoOn ==
  /\ status = "head"
  /\ LET answered == Push(RecordUsage(conv), Text("assistant", 1))
     IN  \/ conv' = RecordUsage(conv)
         \/ Room(1) /\ conv' = answered
         \/ Room(2) /\ conv' = Push(answered, Text("user", 1))
  /\ UNCHANGED <<client, status, start, ids, handled, undone>>

(* A reply with tool calls, their results and perhaps nested instructions. *)
ToolTurn ==
  /\ status = "head" /\ Room(2) /\ ids < MaxIds
  /\ ids' = ids + 1
  /\ \E error, big, note \in BOOLEAN :
       LET called == Push(RecordUsage(conv), ToolUse(ids', 0))
           answered == Push(called, ToolResult(ids', error, big))
       IN  \/ note /\ Room(3) /\ conv' = Push(answered, Text("system", 1))
           \/ ~note /\ conv' = answered
  /\ UNCHANGED <<client, status, start, handled, undone>>

(* The token is seen at the head of the loop, or the request fails for good.*)
EndAtHead ==
  /\ status = "head"
  /\ status' = "ended"
  /\ UNCHANGED <<conv, client, start, ids, handled, undone>>

-----------------------------------------------------------------------------
(* Compaction.                                                             *)

(* try_upgrade_or_compact at the head of the loop, on the usage the API    *)
(* reported, and compact_now while no query runs.                          *)
CompactAuto ==
  /\ status \in {"head", "idle"} /\ client
  /\ \E cost \in SummaryCosts : conv' = Compacted(AutoStrategy(conv, cost))
  /\ UNCHANGED <<client, status, start, ids, handled, undone>>

(* force_compact after a prompt that was too long: summarize, and truncate *)
(* when that saved nothing.                                                *)
CompactForced ==
  /\ status = "head" /\ client
  /\ \E cost \in SummaryCosts :
       LET summarized == Compacted(Summarize(conv, PreserveRecent, cost))
       IN  conv' = IF TotalCost(summarized.msgs) < TotalCost(conv.msgs)
                   THEN summarized
                   ELSE Compacted(Truncate(summarized, Window \div 2))
  /\ UNCHANGED <<client, status, start, ids, handled, undone>>

(* run_compaction without a client, with the budget of either path.        *)
CompactRaw ==
  /\ status = "head" /\ ~client
  /\ \E budget \in {(Window * 60) \div 100, (Window * 50) \div 100} :
       conv' = TruncateToBudget(conv, budget)
  /\ UNCHANGED <<client, status, start, ids, handled, undone>>

(* compact_now without a client: a summary replaces the conversation.      *)
CompactHeuristic ==
  /\ status = "idle" /\ ~client /\ conv.msgs # << >>
  /\ \E cost \in SummaryCosts : conv' = Push(NewConversation, Text("user", cost))
  /\ UNCHANGED <<client, status, start, ids, handled, undone>>

-----------------------------------------------------------------------------
(* The REPL when the query task has returned.                              *)

(* The ids of the results in c[starting_len ..], which scan_team_markers   *)
(* reads: any of them may carry a request to spawn a teammate.             *)
MarkersFromStart(c, from) == {c.msgs[i].res : i \in DOMAIN c.msgs} \ {0} \* mutation of Markers
Markers(c, from) ==
  {c.msgs[i].res : i \in {j \in DOMAIN c.msgs : j > from}} \ {0}

(* The user cancelled before the query returned and typed nothing since.   *)
Undoable ==
  LET last == conv.msgs[Len(conv.msgs)]
  IN  /\ conv.msgs # << >>
      /\ \/ last.role = "user"
         \/ last.role = "assistant" /\ last.text = 0 /\ last.use = 0

(* Undo a cancelled prompt, handle the markers of the query, fold in what  *)
(* the teammates have finished.                                            *)
QueryReturned ==
  /\ status = "ended"
  /\ \E undo, folded \in BOOLEAN :
       LET kept == IF undo THEN PopLastTurn(conv) ELSE conv
           ResultsOf(c) == Markers(c, 0)
       IN  /\ undo => Undoable
           /\ folded => Room(1)
           /\ conv' = IF folded THEN Push(kept, Text("user", 1)) ELSE kept
           /\ handled' = handled \cup Markers(kept, start)
           /\ undone' = undone \cup (ResultsOf(conv) \ ResultsOf(kept))
  /\ status' = "idle"
  /\ start' = 0
  /\ UNCHANGED <<client, ids>>

Next ==
  \/ Submit \/ Reply \/ GoOn \/ ToolTurn \/ EndAtHead
  \/ CompactAuto \/ CompactForced \/ CompactRaw \/ CompactHeuristic
  \/ QueryReturned

Spec == Init /\ [][Next]_vars

-----------------------------------------------------------------------------
(* Properties.                                                             *)

TypeOK ==
  /\ conv.msgs \in Seq([role : {"user", "assistant", "system"},
                        text : Nat, use : 0 .. MaxIds, res : 0 .. MaxIds,
                        error : BOOLEAN, big : BOOLEAN])
  /\ conv.turns \in Seq([first : Nat \ {0}, last : Nat \ {0}])
  /\ conv.anchor \in Nat
  /\ client \in BOOLEAN
  /\ status \in {"idle", "head", "ended"}
  /\ start \in 0 .. MaxMessages
  /\ ids \in 0 .. MaxIds
  /\ handled \subseteq 1 .. MaxIds /\ undone \subseteq 1 .. MaxIds

(* The tool_use of message i is answered by the next message, the          *)
(* tool_result of message i answers the previous one.                      *)
UseAnswered(ms, i) == ms[i].use # 0 => i < Len(ms) /\ ms[i + 1].res = ms[i].use
ResultAsked(ms, i) == ms[i].res # 0 => i > 1 /\ ms[i - 1].use = ms[i].res
Paired(ms) == \A i \in DOMAIN ms : UseAnswered(ms, i) /\ ResultAsked(ms, i)

(* With a compaction client, nothing but the undo of a prompt separates a  *)
(* tool_use from its results: every cut a strategy makes is repaired.      *)
OnlyUndoOrphans ==
  client =>
    \A i \in DOMAIN conv.msgs :
      /\ ResultAsked(conv.msgs, i)
      /\ conv.msgs[i].use \notin undone => UseAnswered(conv.msgs, i)

(* Whatever happened before, a compacted conversation is a valid request.  *)
(* (This and what follows is stated of the steps that do otherwise, which  *)
(* TLC can tell at once: none of them is a compaction.)                    *)
CompactionRepairs ==
  conv' # conv /\ ~Paired(conv'.msgs) => ~CompactAuto /\ ~CompactForced

(* No strategy loses a system message (preserve_system_messages).          *)
SystemMessages(ms) == Pick(ms, {i \in DOMAIN ms : ms[i].role = "system"})
SystemMessagesKept ==
  SystemMessages(conv'.msgs) # SystemMessages(conv.msgs) =>
    ~CompactAuto /\ ~CompactForced

(* The last n turns of a message list, from their first user message on.   *)
Recent(ms, n) ==
  {i \in DOMAIN ms : Cardinality({j \in UserIndices(ms) : j >= i}) < n
                     \/ (Cardinality({j \in UserIndices(ms) : j >= i}) = n
                         /\ i \in UserIndices(ms))}
EndsWith(ms, tail) ==
  Len(tail) <= Len(ms) /\ SubSeq(ms, Len(ms) - Len(tail) + 1, Len(ms)) = tail

(* As long as the number of ranges is the number of user messages, what    *)
(* follows the last request of the user survives a compaction that does    *)
(* not truncate: the results the model has not seen are not lost.          *)
ExactTurns(c) == Len(c.turns) = Cardinality(UserIndices(c.msgs))
SummaryKeepsLastTurn ==
  /\ Percent(conv) < 95 /\ ExactTurns(conv) /\ Paired(conv.msgs)
  /\ ~EndsWith(conv'.msgs, NonEmpty(Pick(conv.msgs, Recent(conv.msgs, 1))))
  => ~CompactAuto

(* A request that a tool result makes of the team runner is handled once,  *)
(* wherever compaction moves the result: start counts messages of a        *)
(* conversation that has changed since.                                    *)
MarkersHandledOnce ==
  [][QueryReturned => Markers(conv, start) \cap handled = {}]_vars

(* The ranges of the turns are adjacent and end with the last message as   *)
(* long as nothing but pushes, undos and truncate_to_budget moves them,    *)
(* that is in a session without a client.                                  *)
TurnRangesTile ==
  LET t == conv.turns
  IN  ~client =>
        /\ t # << >> => t[Len(t)].last = Len(conv.msgs)
        /\ \A k \in DOMAIN t : /\ t[k].first <= t[k].last
                               /\ k > 1 => t[k].first = t[k - 1].last + 1

(* Truncation drops a prefix and nothing else.                             *)
TruncationDropsPrefix ==
  ~EndsWith(conv.msgs, conv'.msgs) => ~CompactRaw

(* What a compaction may never do: leave a call without its result or a    *)
(* result without its call, lose a system message or the last turn, or cut *)
(* anything but the start when it truncates.                               *)
CompactionSound ==
  [][/\ CompactionRepairs
     /\ SystemMessagesKept
     /\ SummaryKeepsLastTurn
     /\ TruncationDropsPrefix]_vars

-----------------------------------------------------------------------------
(* What the documentation says and the code does not do.                   *)

(* loop.rs: "every tool_use in the assistant message has exactly one       *)
(* tool_result in the next user message".                                  *)
RequestsPaired == status = "head" => Paired(conv.msgs)

(* CompactionConfig: "Number of recent turns always preserved (regardless  *)
(* of strategy)", two by default; here the last one, for a strategy that   *)
(* does not truncate.                                                      *)
RecentTurnsPreserved ==
  [][CompactAuto /\ Percent(conv) < 95 /\ Paired(conv.msgs) =>
       EndsWith(conv'.msgs, NonEmpty(Pick(conv.msgs, Recent(conv.msgs, 1))))]_vars

(* CompactionConfig: "Whether to preserve tool error results from          *)
(* compaction", true by default.                                           *)
Errors(ms) == {ms[i].res : i \in {j \in DOMAIN ms : ms[j].error}}
ToolErrorsPreserved ==
  [][CompactAuto => Errors(conv.msgs) \subseteq Errors(conv'.msgs)]_vars

(* core/conversation.rs: truncate_to_budget "Keeps at least the most       *)
(* recent turn".                                                           *)
TruncationKeepsLastTurn ==
  [][CompactRaw => EndsWith(conv'.msgs, Pick(conv.msgs, Recent(conv.msgs, 1)))]_vars

(* session/conversation.rs: messages_at_last_usage lets the context check  *)
(* "estimate only the messages appended since", so it cannot lie beyond    *)
(* the end.                                                                *)
AnchorInHistory == conv.anchor <= Len(conv.msgs)

(* agents/runtime.rs, process_team_markers: "Handle every team marker the  *)
(* last turn emitted"; a result left in the conversation was handled.      *)
MarkersHandled == status = "idle" => Markers(conv, 0) \subseteq handled

=============================================================================
