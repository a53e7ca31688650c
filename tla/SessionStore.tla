---------------------------- MODULE SessionStore ----------------------------
(***************************************************************************)
(* The files of the sessions: for each session id a snapshot ({id}.json)   *)
(* and a crash log ({id}.jsonl), written by the interactive session        *)
(* (crates/session/src/history.rs, crates/agents/src/runtime.rs,           *)
(* crates/tui/src/runner/repl.rs).  A query appends each message to the    *)
(* log as it is produced; the session loop writes the snapshot and then    *)
(* removes the log; a later process resumes from both.                     *)
(*                                                                         *)
(* A file is the set of the messages in it.  Messages are numbered in the  *)
(* order they come into being; a tool result has the number of its call,   *)
(* which is the order the properties need.  Grants, cost and name, which   *)
(* travel with the snapshot, are left out.                                 *)
(***************************************************************************)
EXTENDS Integers, FiniteSets

CONSTANTS
  Ids,      \* session ids
  None,     \* no session, no file, no query
  MaxMsgs   \* bound on the numbers of messages

ASSUME MaxMsgsAssumption == MaxMsgs \in Nat

VARIABLES
  snap,   \* snap[s]: the messages of the snapshot of s, None if there is none
  log,    \* log[s]: the messages of the crash log of s, {} if there is none
  used,   \* the ids some process has had as its own
  sid,    \* the id of the running process, None when no process runs
  conv,   \* the conversation of the session loop (AgentRuntime.conversation)
  task,   \* the conversation the query in flight works on, None without one
  pc,     \* where the session loop is: in its select!, or in persist_session
  next,   \* the number of the next message
  torn,   \* history: the sessions saved while a query had their conversation
  mixed,  \* history: the sessions with messages of a session saved that way
  cut     \* history: the sessions whose log outlived a snapshot that has it

vars == <<snap, log, used, sid, conv, task, pc, next, torn, mixed, cut>>

Kinds == {"user", "reply", "call", "result", "note"}
Messages == [kind : Kinds, n : 0..MaxMsgs]
Msg(k, i) == [kind |-> k, n |-> i]

\* None is neither an id nor a file.
ASSUME NoneAssumption == None \notin Ids /\ (\A ms \in SUBSET Messages : ms # None)

\* What a user, the model or a tool said.  The notes are the nudge of a resume,
\* the summary of a compaction and the recovery messages: they are not logged.
Spoken(ms) == {m \in ms : m.kind # "note"}

\* The messages of the files of session s.
Snapshot(s) == IF snap[s] = None THEN {} ELSE snap[s]
Files(s) == Snapshot(s) \cup log[s]
OnDisk == UNION {Files(s) : s \in Ids}

\* Each result has its call.
Paired(ms) == \A m \in ms : m.kind = "result" => Msg("call", m.n) \in ms

\* The places of the session loop.  A handler saves, removes the log, and then
\* stays, starts a new conversation, leaves, or switches to another session.
Whats == {"stay", "new", "quit"} \cup Ids
At(place, what) == [at |-> place, then |-> what]
Ready == At("ready", "stay")

TypeOK ==
  /\ snap \in [Ids -> (SUBSET Messages) \cup {None}]
  /\ log \in [Ids -> SUBSET Messages]
  /\ used \subseteq Ids
  /\ sid \in used \cup {None}
  /\ conv \subseteq Messages
  /\ task \in (SUBSET Messages) \cup {None}
  /\ pc \in [at : {"ready", "save", "truncate", "then"}, then : Whats]
  /\ next \in 1..(MaxMsgs + 1)
  /\ torn \subseteq Ids
  /\ mixed \subseteq Ids
  /\ cut \subseteq Ids

Init ==
  /\ snap = [s \in Ids |-> None]
  /\ log = [s \in Ids |-> {}]
  /\ used = {}
  /\ sid = None
  /\ conv = {}
  /\ task = None
  /\ pc = Ready
  /\ next = 1
  /\ torn = {}
  /\ mixed = {}
  /\ cut = {}

-----------------------------------------------------------------------------
(* Loading                                                                 *)

\* sanitize_for_resume: a call without a result is dropped, and a conversation
\* that ends on a result gets a nudge, which has the number of that result.
Answered(ms) == {m \in ms : m.kind = "call" => Msg("result", m.n) \in ms}
Nudges(ms) ==
  {m \in {Msg("note", i) : i \in 1..MaxMsgs} :
     /\ Msg("result", m.n) \in ms /\ m \notin ms
     /\ \A o \in ms : o.n <= m.n}
Sanitized(ms) == Answered(ms) \cup Nudges(Answered(ms))

\* load_for_resume reads the snapshot and the log; a session has something to
\* resume when it has one of the two.
Resumable(s) == snap[s] # None \/ log[s] # {}

\* A new process has a fresh id of its own, and what it resumes, if anything,
\* becomes its conversation.
Start(s, from) ==
  /\ sid = None
  /\ s \in Ids \ used
  /\ from # None => Resumable(from)
  /\ sid' = s
  /\ used' = used \cup {s}
  /\ conv' = IF from = None THEN {} ELSE Sanitized(Files(from))
  /\ mixed' = IF from \in mixed THEN mixed \cup {s} ELSE mixed
  /\ UNCHANGED <<snap, log, task, pc, next, torn, cut>>

-----------------------------------------------------------------------------
(* A query                                                                 *)

SubmitUnlogged == \* mutation of Submit: the user turn is not persisted
  /\ sid # None /\ pc = Ready /\ task = None
  /\ next <= MaxMsgs
  /\ task' = conv \cup {Msg("user", next)}
  /\ conv' = {}
  /\ next' = next + 1
  /\ UNCHANGED <<snap, log, used, sid, pc, torn, mixed, cut>>

\* The user turn is pushed, and spawn_query hands the conversation to the
\* query and appends the turn to the log.
Submit ==
  /\ sid # None /\ pc = Ready /\ task = None
  /\ next <= MaxMsgs
  /\ task' = conv \cup {Msg("user", next)}
  /\ log' = [log EXCEPT ![sid] = @ \cup {Msg("user", next)}]
  /\ conv' = {}
  /\ next' = next + 1
  /\ UNCHANGED <<snap, used, sid, pc, torn, mixed, cut>>

\* The last message of the query is a call that has no result yet.
Calling == /\ Msg("call", next - 1) \in task
           /\ Msg("result", next - 1) \notin task

\* The query appends a message of the model, or the results of its calls, to
\* its conversation and to the log.
Produce(m) ==
  /\ task' = task \cup {m}
  /\ log' = [log EXCEPT ![sid] = @ \cup {m}]
  /\ UNCHANGED <<snap, used, sid, conv, pc, torn, mixed, cut>>

SayUnlogged(k) == \* mutation of Say: the message is not persisted
  /\ task # None
  /\ ~Calling
  /\ next <= MaxMsgs
  /\ task' = task \cup {Msg(k, next)}
  /\ next' = next + 1
  /\ UNCHANGED <<snap, log, used, sid, conv, pc, torn, mixed, cut>>

Say(k) ==
  /\ task # None
  /\ ~Calling
  /\ next <= MaxMsgs
  /\ Produce(Msg(k, next))
  /\ next' = next + 1

Answer ==
  /\ task # None
  /\ Calling
  /\ Produce(Msg("result", next - 1))
  /\ UNCHANGED next

\* A recovery or stop-hook message is pushed without being logged.
Inject ==
  /\ task # None
  /\ ~Calling
  /\ next <= MaxMsgs
  /\ task' = task \cup {Msg("note", next)}
  /\ next' = next + 1
  /\ UNCHANGED <<snap, log, used, sid, conv, pc, torn, mixed, cut>>

\* A compaction replaces the messages before number k by a summary; the log
\* keeps what it has.
Compact(k) ==
  /\ task # None
  /\ ~Calling
  /\ k < next
  /\ task' = {m \in task : m.n >= k} \cup {Msg("note", 0)}
  /\ UNCHANGED <<snap, log, used, sid, conv, pc, next, torn, mixed, cut>>

\* The task of the query panics: its conversation is lost, and the session
\* loop goes on with the empty placeholder.
Panic ==
  /\ task # None
  /\ task' = None
  /\ UNCHANGED <<snap, log, used, sid, conv, pc, next, torn, mixed, cut>>

-----------------------------------------------------------------------------
(* The handlers of the session loop, which save                            *)

\* The last message has the role of a user, as a result has.
Last(ms) ==
  CHOOSE m \in ms :
    \A o \in ms : /\ o.n <= m.n
                  /\ o.n = m.n => \/ o = m
                                  \/ o.kind = "call"
                                  \/ m.kind = "note"
EndsOnUser(ms) == Last(ms).kind \in {"user", "result", "note"}

\* The query returns and its conversation is restored.  A cancelled query
\* that ends on a user message loses it (undone).
Return(undone) ==
  /\ sid # None /\ pc = Ready /\ task # None
  /\ ~Calling
  /\ undone => EndsOnUser(task)
  /\ conv' = IF undone THEN task \ {Last(task)} ELSE task
  /\ task' = None
  /\ pc' = At("save", "stay")
  /\ UNCHANGED <<snap, log, used, sid, next, torn, mixed, cut>>

\* A new session, a switch to session what, or /exit: possible while a query
\* runs, and then the session loop has only the placeholder to save.
Begin(what) ==
  /\ sid # None /\ pc = Ready
  /\ pc' = At("save", what)
  /\ UNCHANGED <<snap, log, used, sid, conv, task, next, torn, mixed, cut>>

\* Quitting by key waits for the query and restores its conversation.
Quit ==
  /\ sid # None /\ pc = Ready
  /\ task # None /\ ~Calling
  /\ conv' = task
  /\ task' = None
  /\ pc' = At("save", "quit")
  /\ UNCHANGED <<snap, log, used, sid, next, torn, mixed, cut>>

-----------------------------------------------------------------------------
(* persist_session                                                         *)

\* The snapshot is replaced by the conversation of the session loop.
Write ==
  /\ pc.at = "save"
  /\ snap' = [snap EXCEPT ![sid] = conv]
  /\ torn' = IF task = None THEN torn ELSE torn \cup {sid}
  /\ mixed' = IF task = None THEN mixed ELSE mixed \cup {sid}
  /\ pc' = At("truncate", pc.then)
  /\ UNCHANGED <<log, used, sid, conv, task, next, cut>>

WriteFailsGoesOn == \* mutation of WriteFails: no return before the log is removed
  /\ pc.at = "save"
  /\ pc' = At("truncate", pc.then)
  /\ UNCHANGED <<snap, log, used, sid, conv, task, next, torn, mixed, cut>>

\* The write fails: the log stays, and so does the old snapshot.
WriteFails ==
  /\ pc.at = "save"
  /\ pc' = At("then", pc.then)
  /\ UNCHANGED <<snap, log, used, sid, conv, task, next, torn, mixed, cut>>

TruncateSkipped == \* mutation of Truncate: the log is kept
  /\ pc.at = "truncate"
  /\ pc' = At("then", pc.then)
  /\ UNCHANGED <<snap, log, used, sid, conv, task, next, torn, mixed, cut>>

\* The log is removed.
Truncate ==
  /\ pc.at = "truncate"
  /\ log' = [log EXCEPT ![sid] = {}]
  /\ torn' = IF task = None THEN torn \ {sid} ELSE torn
  /\ cut' = cut \ {sid}
  /\ pc' = At("then", pc.then)
  /\ UNCHANGED <<snap, used, sid, conv, task, next, mixed>>

TruncateFails ==
  /\ pc.at = "truncate"
  /\ cut' = cut \cup {sid}
  /\ pc' = At("then", pc.then)
  /\ UNCHANGED <<snap, log, used, sid, conv, task, next, torn, mixed>>

\* What follows the save, whether it succeeded or not.
Stay ==
  /\ pc = At("then", "stay")
  /\ pc' = Ready
  /\ UNCHANGED <<snap, log, used, sid, conv, task, next, torn, mixed, cut>>

NewSession ==
  /\ pc = At("then", "new")
  /\ pc' = Ready
  /\ conv' = {}
  /\ UNCHANGED <<snap, log, used, sid, task, next, torn, mixed, cut>>

\* switch_session_with_grants loads the snapshot of the target and leaves its
\* log aside; the session keeps its own id.
SwitchSession ==
  /\ pc.at = "then" /\ pc.then \in Ids
  /\ pc' = Ready
  /\ conv' = IF snap[pc.then] = None THEN conv ELSE Sanitized(snap[pc.then])
  /\ mixed' = IF pc.then \in mixed THEN mixed \cup {sid} ELSE mixed
  /\ UNCHANGED <<snap, log, used, sid, task, next, torn, cut>>

Exit ==
  /\ pc = At("then", "quit")
  /\ pc' = Ready
  /\ sid' = None /\ conv' = {} /\ task' = None
  /\ UNCHANGED <<snap, log, used, next, torn, mixed, cut>>

\* The process dies anywhere, also between the snapshot and the log.
Crash ==
  /\ sid # None
  /\ cut' = IF pc.at = "truncate" THEN cut \cup {sid} ELSE cut
  /\ sid' = None /\ conv' = {} /\ task' = None /\ pc' = Ready
  /\ UNCHANGED <<snap, log, used, next, torn, mixed>>

Query == \/ Submit
         \/ \E k \in {"reply", "call"} : Say(k)
         \/ Answer
         \/ Inject
         \/ \E k \in 1..MaxMsgs : Compact(k)
         \/ Panic

Handle == \/ \E undone \in BOOLEAN : Return(undone)
          \/ \E what \in Whats \ {"stay"} : Begin(what)
          \/ Quit

Persist == \/ Write \/ WriteFails
           \/ Truncate \/ TruncateFails
           \/ Stay \/ NewSession \/ SwitchSession \/ Exit

Next == \/ \E s \in Ids, from \in Ids \cup {None} : Start(s, from)
        \/ Query
        \/ Handle
        \/ Persist
        \/ Crash

Spec == Init /\ [][Next]_vars

-----------------------------------------------------------------------------
(* Properties                                                              *)

(* A crash mid-turn does not lose the turn (runtime.rs:463): at every step,   *)
(* all that was said in the conversations in memory is in some session's      *)
(* files.  The exception is a query during which the session was saved, by a  *)
(* new session or a switch: its log is gone and its snapshot empty.           *)
TurnSurvivesCrash ==
  sid # None /\ sid \notin torn =>
    Spoken(conv) \cup (IF task = None THEN {} ELSE Spoken(task)) \subseteq OnDisk

(* What a resume loads has the call of each result it has, whatever crashed,  *)
(* failed or was undone before; sanitize_for_resume repairs only the other    *)
(* direction.  The exception is a session saved during its query, and one that *)
(* resumed from or switched to such a session.  Appends to the log succeed    *)
(* here: persist_message only logs one that fails, and a result whose call's  *)
(* line was lost that way would load without its call.                        *)
ResumePaired ==
  \A s \in Ids \ mixed : Paired(Sanitized(Files(s)))

(* The log has only messages that are not in the snapshot, as load_for_resume *)
(* assumes when it appends one to the other: a message loads twice only after *)
(* a crash between the two writes, or when the log could not be removed.      *)
LogHoldsTheTail ==
  \A s \in Ids : Snapshot(s) \cap log[s] # {} =>
                   s \in cut \/ (s = sid /\ pc.at = "truncate")

\* The messages in memory.
Live == conv \cup (IF task = None THEN {} ELSE task)

\* No process, no conversation, and nothing to do.
OffIsClear == sid = None => conv = {} /\ task = None /\ pc = Ready

\* Numbers are given out once; a result in a file is the result of a call the
\* query in flight no longer waits for.
Numbered ==
  /\ \A m \in OnDisk \cup Live : m.n < next
  /\ task # None => \A m \in OnDisk \cup conv :
                      m = Msg("result", next - 1) => m \in task

\* Between the two writes the snapshot is the conversation of the session loop.
SnapshotTaken ==
  pc.at = "truncate" => /\ snap[sid] = conv
                        /\ task # None => sid \in torn \cap mixed

\* Each file is paired by itself, and so are the conversations in memory; the
\* call the query waits for is in the log.
PairedSources ==
  /\ \A s \in Ids \ mixed : Paired(log[s]) /\ Paired(Snapshot(s))
  /\ sid # None /\ sid \notin mixed =>
       /\ Paired(conv)
       /\ task # None => /\ Paired(task)
                         /\ Msg("call", next - 1) \in task =>
                              Msg("call", next - 1) \in log[sid]

(* What every step of a session keeps: its files and its conversations agree  *)
(* with each other enough for the three properties above to last.             *)
StoreInv ==
  /\ TypeOK
  /\ OffIsClear
  /\ Numbered
  /\ SnapshotTaken
  /\ PairedSources
  /\ TurnSurvivesCrash
  /\ LogHoldsTheTail
=============================================================================
