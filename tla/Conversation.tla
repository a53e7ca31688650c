---------------------------- MODULE Conversation ----------------------------
(***************************************************************************)
(* The message history of a session and what the engine does to it: push,  *)
(* undo, truncation, and the compaction strategies of the default          *)
(* configuration with the repair that follows them.                        *)
(*                                                                         *)
(* Code: core/src/conversation.rs, session/src/conversation.rs,            *)
(* session/src/compaction.rs.                                              *)
(*                                                                         *)
(* A message carries text of some cost, the tool_use blocks of one reply   *)
(* under one id, or the tool_result blocks answering that id; 0 means that *)
(* it has none. Costs are in units of the token estimate.                  *)
(***************************************************************************)
EXTENDS Integers, Sequences, FiniteSets, FiniteSetsExt

CONSTANTS
  Window,   \* context_window
  BigCost   \* cost of a tool result above SNIP_TOKEN_THRESHOLD

ASSUME ConversationAssumption == Window \in Nat \ {0} /\ BigCost \in Nat \ {0, 1}

(* CompactionConfig::preserve_recent_turns                                 *)
PreserveRecent == 2

Text(role, cost) ==
  [role |-> role, text |-> cost, use |-> 0, res |-> 0, error |-> FALSE, big |-> FALSE]
ToolUse(id, cost) == [Text("assistant", cost) EXCEPT !.use = id]
ToolResult(id, error, big) ==
  [Text("user", 0) EXCEPT !.res = id, !.error = error, !.big = big]

Empty(m) == m.text = 0 /\ m.use = 0 /\ m.res = 0

Cost(m) ==
  m.text + (IF m.use # 0 THEN 1 ELSE 0)
         + (IF m.res = 0 THEN 0 ELSE IF m.big THEN BigCost ELSE 1)

(* The cost of the messages of ms whose index is in I.                     *)
CostOf(ms, I) == MapThenSumSet(LAMBDA i : Cost(ms[i]), I)
TotalCost(ms) == CostOf(ms, DOMAIN ms)

(* The elements of s whose index is in I, in order.                        *)
Nth(I, k) == CHOOSE i \in I : Cardinality({j \in I : j <= i}) = k
Pick(s, I) == [k \in 1 .. Cardinality(I) |-> s[Nth(I, k)]]

(* A conversation: its messages, its turns (TurnRange: the indices of the  *)
(* first and the last message) and messages_at_last_usage.                 *)
NewConversation == [msgs |-> << >>, turns |-> << >>, anchor |-> 0]

ExtendTurn(turns, n) ==
  IF turns = << >> THEN turns ELSE [turns EXCEPT ![Len(turns)].last = n]

NextIndexFromZero(ms) == Len(ms) \* mutation of NextIndex
NextIndex(ms) == Len(ms) + 1
Push(c, m) ==
  LET n == NextIndex(c.msgs)
  IN  [c EXCEPT !.msgs = Append(@, m),
                !.turns = IF m.role = "user"
                          THEN Append(@, [first |-> n, last |-> n])
                          ELSE ExtendTurn(@, n)]

(* clear, then push of every message.                                      *)
Rebuild(c, ms) ==
  LET pushed[k \in 0 .. Len(ms)] ==
        IF k = 0 THEN [c EXCEPT !.msgs = << >>, !.turns = << >>]
                 ELSE Push(pushed[k - 1], ms[k])
  IN  pushed[Len(ms)]

RecordUsage(c) == [c EXCEPT !.anchor = Len(c.msgs)]

UserIndices(ms) == {i \in DOMAIN ms : ms[i].role = "user"}

(* pop_last_turn                                                           *)
PopLastTurn(c) ==
  IF UserIndices(c.msgs) = {}
  THEN c
  ELSE LET start == Max(UserIndices(c.msgs))
           left == {k \in DOMAIN c.turns : c.turns[k].first < start}
       IN  [c EXCEPT !.msgs = SubSeq(@, 1, start - 1), !.turns = Pick(@, left)]

NotShifted(r, removed) == r \* mutation of ShiftedBy
ShiftedBy(r, removed) ==
  [first |-> IF r.first > removed THEN r.first - removed ELSE 1,
   last |-> r.last - removed]

WithoutStart(ms, removed) == SubSeq(ms, removed + 1, Len(ms))

(* truncate_to_budget: the longest suffix that fits.                       *)
TruncateToBudget(c, budget) ==
  LET n == Len(c.msgs)
      Fits(k) == CostOf(c.msgs, k .. n) <= budget
      removed == Min({k \in 1 .. n + 1 : Fits(k)}) - 1
      left == Pick(c.turns, {k \in DOMAIN c.turns : c.turns[k].last > removed})
  IN  [c EXCEPT !.msgs = WithoutStart(@, removed),
                !.turns = [k \in DOMAIN left |-> ShiftedBy(left[k], removed)]]

-----------------------------------------------------------------------------
(* Compaction.                                                             *)

(* is_important_message with the default configuration.                    *)
Important(m) == m.role = "system" \/ m.error

(* The messages before the preserved turns: turns are counted in the       *)
(* messages and compared with the number of ranges, as the code does.      *)
Boundary(c, keep) == Max({Len(c.turns) - keep, 0})
OldUpTo(c, turn) ==
  {i \in DOMAIN c.msgs : Cardinality({j \in UserIndices(c.msgs) : j <= i}) <= turn}
OldAndOneMore(c, keep) == OldUpTo(c, Boundary(c, keep) + 1) \* mutation of Old
Old(c, keep) == OldUpTo(c, Boundary(c, keep))

Removable(c, keep) == {i \in Old(c, keep) : ~Important(c.msgs[i])}

(* Snip and Microcompact: a large result of an old turn becomes a small one.*)
Shrink(c) ==
  Rebuild(c, [i \in DOMAIN c.msgs |->
                IF i \in Removable(c, PreserveRecent)
                THEN [c.msgs[i] EXCEPT !.big = FALSE] ELSE c.msgs[i]])

(* From the last index of I down, take each message that still fits.       *)
GreedyFromEnd(ms, I, budget) ==
  LET Take(kept, i) ==
        IF i \in I /\ CostOf(ms, kept \cup {i}) <= budget THEN kept \cup {i} ELSE kept
      taken[k \in 0 .. Len(ms)] ==
        IF k = 0 THEN {} ELSE Take(taken[k - 1], Len(ms) + 1 - k)
  IN  taken[Len(ms)]

(* The indices of I from some index on, as many as fit.                    *)
LongestEnd(ms, I, budget) ==
  LET End(k) == {i \in I : i >= k}
      Fits(k) == End(k) = {} \/ CostOf(ms, End(k)) <= budget
  IN  End(Min({k \in 1 .. Len(ms) + 1 : Fits(k)}))

(* truncate_preserving_important                                           *)
Truncate(c, budget) ==
  LET all == DOMAIN c.msgs
      removable == Removable(c, PreserveRecent)
      fixed == all \ removable
      important == {i \in all : Important(c.msgs[i])}
      room == budget - CostOf(c.msgs, fixed)
      kept == IF room >= 0
              THEN fixed \cup GreedyFromEnd(c.msgs, removable, room)
              ELSE important \cup
                   LongestEnd(c.msgs, fixed \ important,
                              budget - CostOf(c.msgs, important))
  IN  IF TotalCost(c.msgs) <= budget THEN c ELSE Rebuild(c, Pick(c.msgs, kept))

(* summarize_old_messages_keeping: important old messages, the summary and *)
(* its acknowledgement, the recent turns.                                  *)
Summarize(c, keep, summary) ==
  LET old == Removable(c, keep)
      recent == DOMAIN c.msgs \ Old(c, keep)
      important == Old(c, keep) \ old
  IN  IF Len(c.turns) <= keep \/ old = {}
      THEN c
      ELSE Rebuild(c, Pick(c.msgs, important)
                      \o <<Text("user", summary), Text("assistant", 1)>>
                      \o Pick(c.msgs, recent))

NonEmpty(ms) == Pick(ms, {i \in DOMAIN ms : ~Empty(ms[i])})

(* repair_tool_pairing: the ranges of the turns are not touched.           *)
UnrepairedPairing(c) == c \* mutation of RepairPairing
RepairPairing(c) ==
  LET used == {c.msgs[i].use : i \in DOMAIN c.msgs}
      answered == {c.msgs[i].res : i \in DOMAIN c.msgs}
      Repaired(m) ==
        [m EXCEPT !.use = IF @ \in answered THEN @ ELSE 0,
                  !.res = IF @ \in used THEN @ ELSE 0,
                  !.error = @ /\ m.res \in used,
                  !.big = @ /\ m.res \in used]
      repaired == [i \in DOMAIN c.msgs |-> Repaired(c.msgs[i])]
  IN  [c EXCEPT !.msgs = NonEmpty(repaired)]

(* CompactionMode::Auto: the percentage is cast to u8.                     *)
Percent(c) == ((TotalCost(c.msgs) * 100) \div Window) % 256
AutoStrategy(c, summary) ==
  LET p == Percent(c)
  IN  IF p < 85 THEN Shrink(c)
      ELSE IF p < 90 THEN Summarize(c, PreserveRecent, summary)
      ELSE IF p < 95 THEN Summarize(c, 3, summary)
      ELSE Truncate(c, Window \div 2)

(* compact_with_config: the strategy, the repair, the anchor reset.        *)
Compacted(c) == [RepairPairing(c) EXCEPT !.anchor = 0]

=============================================================================
