------------------------- MODULE SessionStoreProofs -------------------------
(***************************************************************************)
(* SessionStore for any number of sessions and messages: StoreInv is       *)
(* inductive, and the properties of the files follow from it.              *)
(***************************************************************************)
EXTENDS SessionStore, TLAPS

(* A message is its kind and its number.                                      *)
LEMMA MsgFields ==
  /\ \A k, i : Msg(k, i).kind = k /\ Msg(k, i).n = i
  /\ \A k \in Kinds, i \in 0..MaxMsgs : Msg(k, i) \in Messages
  /\ \A m \in Messages : m.kind \in Kinds /\ m.n \in 0..MaxMsgs
  /\ \A m \in Messages : m = Msg(m.kind, m.n)
  BY DEF Msg, Messages

(* Sanitizing drops messages and adds at most the nudge.                      *)
LEMMA SanitizedSpoken ==
  ASSUME NEW ms, ms \subseteq Messages
  PROVE  /\ Sanitized(ms) \subseteq Messages
         /\ Spoken(Sanitized(ms)) \subseteq ms
         /\ \A m \in Sanitized(ms) :
              \/ m \in ms
              \/ m.kind = "note" /\ \E o \in ms : o.n = m.n
<1>1. Answered(ms) \subseteq ms
  BY DEF Answered
<1>2. ASSUME NEW m \in Nudges(Answered(ms))
      PROVE  /\ m \in Messages
             /\ m.kind = "note"
             /\ \E o \in ms : o.n = m.n
  <2>1. PICK i \in 1..MaxMsgs : m = Msg("note", i) /\ Msg("result", m.n) \in ms
    BY <1>1, <1>2 DEF Nudges
  <2>2. i \in 0..MaxMsgs /\ "note" \in Kinds
    BY <2>1, MaxMsgsAssumption DEF Kinds
  <2> QED
    BY <2>1, <2>2, MsgFields
<1> QED
  BY <1>1, <1>2 DEF Sanitized, Spoken

(* ... and keeps a paired conversation paired.                                *)
LEMMA SanitizedPaired ==
  ASSUME NEW ms, ms \subseteq Messages, Paired(ms)
  PROVE  Paired(Sanitized(ms))
<1> SUFFICES ASSUME NEW m \in Sanitized(ms), m.kind = "result"
             PROVE  Msg("call", m.n) \in Sanitized(ms)
  BY DEF Paired
<1>1. m \in Answered(ms)
  BY MsgFields DEF Sanitized, Nudges
<1>2. m \in ms /\ Msg("call", m.n) \in ms
  BY <1>1 DEF Answered, Paired
<1>3. PICK c \in ms : c = Msg("call", m.n) /\ c.kind = "call" /\ c.n = m.n
  BY <1>2, MsgFields
<1>4. m = Msg("result", m.n)
  BY <1>2, MsgFields
<1> QED
  BY <1>2, <1>3, <1>4 DEF Sanitized, Answered

LEMMA InitInv == Init => StoreInv
<1> SUFFICES ASSUME Init PROVE StoreInv
  OBVIOUS
<1> USE NoneAssumption, MaxMsgsAssumption DEF Init
<1>1. TypeOK
  BY DEF TypeOK, Ready, At, Whats
<1>2. \A s \in Ids : Snapshot(s) = {} /\ Files(s) = {}
  BY DEF Snapshot, Files
<1>3. OnDisk = {} /\ Live = {}
  BY <1>2 DEF OnDisk, Live
<1> QED
  BY <1>1, <1>2, <1>3
     DEF StoreInv, OffIsClear, Numbered, SnapshotTaken, PairedSources, Paired,
         TurnSurvivesCrash, LogHoldsTheTail, Ready, At

LEMMA FilesType ==
  ASSUME TypeOK, NEW s \in Ids
  PROVE  Snapshot(s) \subseteq Messages /\ Files(s) \subseteq Messages
<1>1. log[s] \subseteq Messages
  BY DEF TypeOK
<1>2. snap[s] \in SUBSET Messages \/ snap[s] = None
  BY DEF TypeOK
<1> QED
  BY <1>1, <1>2 DEF Snapshot, Files

(* The steps keep the types.                                                  *)
LEMMA TypeStep == TypeOK /\ OffIsClear /\ [Next]_vars => TypeOK'
<1> SUFFICES ASSUME TypeOK, OffIsClear, [Next]_vars PROVE TypeOK'
  OBVIOUS
<1> USE NoneAssumption, MaxMsgsAssumption DEF TypeOK
<1>msg. \A k \in Kinds, i \in 0..MaxMsgs : Msg(k, i) \in Messages
  BY MsgFields
<1>files. \A s \in Ids : Files(s) \subseteq Messages
  BY FilesType
<1>ready. /\ Ready \in [at : {"ready", "save", "truncate", "then"}, then : Whats]
          /\ \A p \in {"ready", "save", "truncate", "then"}, w \in Whats :
               At(p, w) \in [at : {"ready", "save", "truncate", "then"}, then : Whats]
          /\ pc.then \in Whats
  BY DEF Ready, At, Whats
<1>1. ASSUME NEW s \in Ids, NEW from \in Ids \cup {None}, Start(s, from)
      PROVE  TypeOK'
  BY <1>1, <1>files, SanitizedSpoken DEF Start
<1>2. CASE Submit
  BY <1>2, <1>msg DEF Submit, Kinds
<1>produce. ASSUME NEW m \in Messages, task # None, Produce(m),
                   next' \in 1..(MaxMsgs + 1)
            PROVE  TypeOK'
  BY <1>produce DEF Produce
<1>3. ASSUME NEW k \in {"reply", "call"}, Say(k) PROVE TypeOK'
  <2>1. Msg(k, next) \in Messages /\ next' \in 1..(MaxMsgs + 1)
    BY <1>3, <1>msg DEF Say, Kinds
  <2> QED
    BY <1>3, <2>1, <1>produce DEF Say
<1>4. CASE Answer
  <2>1. next - 1 \in 0..MaxMsgs /\ "result" \in Kinds
    BY DEF Kinds
  <2> QED
    BY <1>4, <2>1, <1>msg, <1>produce DEF Answer
<1>5. CASE Inject
  BY <1>5, <1>msg DEF Inject, Kinds
<1>6. ASSUME NEW k \in 1..MaxMsgs, Compact(k) PROVE TypeOK'
  BY <1>6, <1>msg DEF Compact, Kinds
<1>7. CASE Panic
  BY <1>7 DEF Panic
<1>8. ASSUME NEW undone \in BOOLEAN, Return(undone) PROVE TypeOK'
  BY <1>8, <1>ready DEF Return, Whats
<1>9. ASSUME NEW what \in Whats \ {"stay"}, Begin(what) PROVE TypeOK'
  BY <1>9, <1>ready DEF Begin
<1>10. CASE Quit
  BY <1>10, <1>ready DEF Quit, Whats
<1>11. CASE Write
  BY <1>11, <1>ready DEF Write, OffIsClear
<1>12. CASE WriteFails
  BY <1>12, <1>ready DEF WriteFails
<1>13. CASE Truncate
  BY <1>13, <1>ready DEF Truncate
<1>14. CASE TruncateFails
  BY <1>14, <1>ready DEF TruncateFails, OffIsClear, Ready, At
<1>15. CASE Stay
  BY <1>15, <1>ready DEF Stay
<1>16. CASE NewSession
  BY <1>16, <1>ready DEF NewSession
<1>17. CASE SwitchSession
  BY <1>17, <1>ready, SanitizedSpoken DEF SwitchSession, OffIsClear, Ready, At
<1>18. CASE Exit
  BY <1>18, <1>ready DEF Exit
<1>19. CASE Crash
  BY <1>19, <1>ready DEF Crash
<1>20. CASE UNCHANGED vars
  BY <1>20 DEF vars
<1> QED
  BY <1>1, <1>2, <1>3, <1>4, <1>5, <1>6, <1>7, <1>8, <1>9, <1>10, <1>11,
     <1>12, <1>13, <1>14, <1>15, <1>16, <1>17, <1>18, <1>19, <1>20
     DEF Next, Query, Handle, Persist

-----------------------------------------------------------------------------
(* How the files change                                                    *)

LEMMA OnDiskMembers ==
  /\ \A m : m \in OnDisk <=> \E s \in Ids : m \in Files(s)
  /\ \A m : m \in OnDisk' <=> \E s \in Ids : m \in Files(s)'
  BY DEF OnDisk

LEMMA FilesKept ==
  ASSUME UNCHANGED <<snap, log>>
  PROVE  /\ \A s \in Ids : Snapshot(s)' = Snapshot(s) /\ Files(s)' = Files(s)
         /\ OnDisk' = OnDisk
  BY DEF Snapshot, Files, OnDisk

LEMMA LogGrows ==
  ASSUME TypeOK, sid \in Ids, NEW m, UNCHANGED <<snap, sid>>,
         log' = [log EXCEPT ![sid] = @ \cup {m}]
  PROVE  /\ \A s \in Ids :
              /\ Snapshot(s)' = Snapshot(s)
              /\ s # sid => log'[s] = log[s] /\ Files(s)' = Files(s)
         /\ log'[sid] = log[sid] \cup {m}
         /\ Files(sid)' = Files(sid) \cup {m}
         /\ OnDisk' = OnDisk \cup {m}
<1>1. \A s \in Ids : /\ Snapshot(s)' = Snapshot(s)
                     /\ s # sid => log'[s] = log[s] /\ Files(s)' = Files(s)
  BY DEF TypeOK, Snapshot, Files
<1>2. log'[sid] = log[sid] \cup {m}
  BY DEF TypeOK
<1>3. Files(sid)' = Files(sid) \cup {m}
  BY <1>1, <1>2 DEF Files
<1>4. \A x : x \in OnDisk' <=> x \in OnDisk \cup {m}
  BY <1>1, <1>3, OnDiskMembers
<1> QED
  BY <1>1, <1>2, <1>3, <1>4

LEMMA WriteFiles ==
  ASSUME TypeOK, OffIsClear, Write
  PROVE  /\ sid \in Ids
         /\ \A s \in Ids \ {sid} : /\ Snapshot(s)' = Snapshot(s)
                                   /\ Files(s)' = Files(s)
         /\ Snapshot(sid)' = conv
         /\ Files(sid)' = conv \cup log[sid]
         /\ OnDisk' \subseteq OnDisk \cup conv
         /\ conv \subseteq OnDisk'
<1>1. sid \in Ids /\ sid' = sid
  BY DEF TypeOK, OffIsClear, Write, Ready, At
<1>2. conv # None
  BY NoneAssumption DEF TypeOK
<1>3. \A s \in Ids \ {sid} : Snapshot(s)' = Snapshot(s) /\ Files(s)' = Files(s)
  BY DEF Write, TypeOK, Snapshot, Files
<1>4. Snapshot(sid)' = conv /\ Files(sid)' = conv \cup log[sid]
  BY <1>1, <1>2 DEF Write, TypeOK, Snapshot, Files
<1>5. \A x : x \in OnDisk' => x \in OnDisk \cup conv
  BY <1>1, <1>3, <1>4, OnDiskMembers DEF Files
<1>6. \A x \in conv : x \in OnDisk'
  BY <1>1, <1>4, OnDiskMembers
<1> QED
  BY <1>1, <1>3, <1>4, <1>5, <1>6

LEMMA TruncateFiles ==
  ASSUME TypeOK, OffIsClear, SnapshotTaken, Truncate
  PROVE  /\ sid \in Ids
         /\ \A s \in Ids \ {sid} : /\ Snapshot(s)' = Snapshot(s)
                                   /\ log'[s] = log[s]
                                   /\ Files(s)' = Files(s)
         /\ log'[sid] = {}
         /\ Snapshot(sid)' = conv /\ Snapshot(sid) = conv
         /\ Files(sid)' = conv
         /\ OnDisk' \subseteq OnDisk
         /\ conv \subseteq OnDisk'
<1>1. sid \in Ids /\ sid' = sid
  BY DEF TypeOK, OffIsClear, Truncate, Ready, At
<1>2. conv # None /\ snap[sid] = conv
  BY NoneAssumption DEF TypeOK, SnapshotTaken, Truncate
<1>3. \A s \in Ids \ {sid} : /\ Snapshot(s)' = Snapshot(s)
                             /\ log'[s] = log[s]
                             /\ Files(s)' = Files(s)
  BY DEF Truncate, TypeOK, Snapshot, Files
<1>4. /\ log'[sid] = {}
      /\ Snapshot(sid)' = conv /\ Snapshot(sid) = conv
      /\ Files(sid)' = conv
  BY <1>1, <1>2 DEF Truncate, TypeOK, Snapshot, Files
<1>5. \A x : x \in OnDisk' => x \in OnDisk
  BY <1>1, <1>3, <1>4, OnDiskMembers DEF Files
<1>6. \A x \in conv : x \in OnDisk'
  BY <1>1, <1>4, OnDiskMembers
<1> QED
  BY <1>1, <1>3, <1>4, <1>5, <1>6

\* The steps that leave the files alone.
Quiet == \/ \E s \in Ids, from \in Ids \cup {None} : Start(s, from)
         \/ Inject \/ (\E k \in 1..MaxMsgs : Compact(k)) \/ Panic
         \/ Handle
         \/ WriteFails \/ TruncateFails
         \/ Stay \/ NewSession \/ SwitchSession \/ Exit
         \/ Crash

LEMMA QuietKeepsFiles == Quiet => UNCHANGED <<snap, log>>
  BY DEF Quiet, Start, Inject, Compact, Panic, Handle, Return, Begin, Quit,
         WriteFails, TruncateFails, Stay, NewSession, SwitchSession, Exit, Crash

LEMMA StepCases ==
  ASSUME [Next]_vars
  PROVE  Submit \/ (\E k \in {"reply", "call"} : Say(k)) \/ Answer
           \/ Write \/ Truncate \/ Quiet \/ UNCHANGED vars
  BY DEF Next, Query, Handle, Persist, Quiet

-----------------------------------------------------------------------------
(* The parts of StoreInv, one by one                                       *)

LEMMA OffStep == TypeOK /\ OffIsClear /\ [Next]_vars => OffIsClear'
  BY NoneAssumption
     DEF OffIsClear, TypeOK, Next, vars, Query, Handle, Persist, Start, Submit,
         Say, Answer, Produce, Inject, Compact, Panic, Return, Begin, Quit,
         Write, WriteFails, Truncate, TruncateFails, Stay, NewSession,
         SwitchSession, Exit, Crash, Ready, At

LEMMA TakenStep ==
  TypeOK /\ OffIsClear /\ SnapshotTaken /\ [Next]_vars => SnapshotTaken'
  BY NoneAssumption
     DEF SnapshotTaken, OffIsClear, TypeOK, Next, vars, Query, Handle, Persist,
         Start, Submit, Say, Answer, Produce, Inject, Compact, Panic, Return,
         Begin, Quit, Write, WriteFails, Truncate, TruncateFails, Stay,
         NewSession, SwitchSession, Exit, Crash, Ready, At

\* The steps of Quiet that neither load nor add a message: what is in memory
\* after them was in memory, or is the summary of a compaction.
LEMMA QuietMemory ==
  ASSUME TypeOK, OffIsClear, Quiet
  PROVE  \/ \E s \in Ids, from \in Ids \cup {None} : Start(s, from)
         \/ Inject
         \/ \E k \in 1..MaxMsgs : Compact(k)
         \/ SwitchSession
         \/ /\ UNCHANGED next
            /\ task' = None /\ conv' \subseteq Live
         \/ /\ UNCHANGED <<next, task, sid>>
            /\ conv' \subseteq conv
  BY DEF Quiet, OffIsClear, Panic, Handle, Return, Begin, Quit, WriteFails,
         TruncateFails, Stay, NewSession, Exit, Crash, Live

LEMMA SwitchLoads ==
  ASSUME TypeOK, SwitchSession
  PROVE  \/ conv' = conv
         \/ /\ conv' = Sanitized(Snapshot(pc.then))
            /\ pc.then \in Ids
            /\ Snapshot(pc.then) \subseteq OnDisk \cap Messages
<1>1. pc.then \in Ids
  BY DEF SwitchSession
<1>2. Snapshot(pc.then) \subseteq OnDisk
  BY <1>1, OnDiskMembers DEF Files
<1> QED
  BY <1>1, <1>2, FilesType DEF SwitchSession, Snapshot

LEMMA StartLoads ==
  ASSUME TypeOK, NEW s \in Ids, NEW from \in Ids \cup {None}, Start(s, from)
  PROVE  \/ conv' = {}
         \/ /\ conv' = Sanitized(Files(from))
            /\ from \in Ids
            /\ Files(from) \subseteq OnDisk \cap Messages
<1>1. CASE from = None
  BY <1>1 DEF Start
<1>2. CASE from # None
  <2>1. from \in Ids
    BY <1>2
  <2>2. Files(from) \subseteq OnDisk
    BY <2>1, OnDiskMembers
  <2> QED
    BY <1>2, <2>1, <2>2, FilesType DEF Start
<1> QED
  BY <1>1, <1>2

\* A number in a sanitized conversation is one of the conversation, and a
\* result in it is too.
LEMMA SanitizedNumbers ==
  ASSUME NEW ms, ms \subseteq Messages, NEW m \in Sanitized(ms)
  PROVE  /\ \E o \in ms : o.n = m.n
         /\ m.kind # "note" => m \in ms
  BY SanitizedSpoken

LEMMA NumberedStep ==
  TypeOK /\ OffIsClear /\ SnapshotTaken /\ Numbered /\ [Next]_vars => Numbered'
<1> SUFFICES ASSUME TypeOK, OffIsClear, SnapshotTaken, Numbered, [Next]_vars
             PROVE  Numbered'
  OBVIOUS
<1>num. next \in Nat /\ 0 < next /\ next - 1 < next
  BY MaxMsgsAssumption DEF TypeOK
<1>old. /\ \A m \in OnDisk \cup conv : m.n < next /\ m.n \in Nat
        /\ task # None => \A m \in task : m.n < next /\ m.n \in Nat
  <2>1. \A m \in OnDisk \cup conv : m \in Messages
    BY FilesType, OnDiskMembers DEF TypeOK
  <2>2. task # None => \A m \in task : m \in Messages
    BY DEF TypeOK
  <2>3. \A m \in Messages : m.n \in Nat
    BY MsgFields, MaxMsgsAssumption
  <2> QED
    BY <2>1, <2>2, <2>3 DEF Numbered, Live
<1>res. /\ \A i : Msg("result", i).n = i /\ Msg("result", i).kind = "result"
        /\ \A k, i : Msg(k, i).n = i /\ Msg(k, i).kind = k
  BY MsgFields
\* A step that gives out a number: only its message has it, and not as a result.
<1>fresh. ASSUME NEW k \in Kinds \ {"result"}, next' = next + 1,
                 \A m \in OnDisk' \cup conv' \cup task' :
                   (m.n < next /\ m.n \in Nat) \/ m = Msg(k, next)
          PROVE  Numbered'
  <2>1. next' - 1 = next
    BY <1>fresh, <1>num
  <2>2. \A m \in OnDisk' \cup conv' \cup task' :
          m.n < next' /\ m # Msg("result", next)
    BY <1>fresh, <1>num, <1>res
  <2> QED
    BY <2>1, <2>2 DEF Numbered, Live
<1>1. CASE Submit
  <2>1. OnDisk' = OnDisk \cup {Msg("user", next)}
    BY <1>1, LogGrows DEF Submit, TypeOK
  <2>2. /\ next' = next + 1 /\ conv' = {}
        /\ task' = conv \cup {Msg("user", next)}
    BY <1>1 DEF Submit
  <2>3. \A m \in OnDisk' \cup conv' \cup task' :
          (m.n < next /\ m.n \in Nat) \/ m = Msg("user", next)
    BY <2>1, <2>2, <1>old
  <2> QED
    BY <2>2, <2>3, <1>fresh DEF Kinds
<1>2. ASSUME NEW k \in {"reply", "call"}, Say(k) PROVE Numbered'
  <2>1. /\ OnDisk' = OnDisk \cup {Msg(k, next)}
        /\ sid' = sid /\ conv' = conv /\ task' = task \cup {Msg(k, next)}
        /\ next' = next + 1 /\ task # None
    BY <1>2, LogGrows DEF Say, Produce, TypeOK, OffIsClear
  <2>2. \A m \in OnDisk' \cup conv' \cup task' :
          (m.n < next /\ m.n \in Nat) \/ m = Msg(k, next)
    BY <2>1, <1>old
  <2> QED
    BY <2>1, <2>2, <1>fresh DEF Kinds
<1>3. CASE Answer
  <2>1. /\ OnDisk' = OnDisk \cup {Msg("result", next - 1)}
        /\ conv' = conv /\ task' = task \cup {Msg("result", next - 1)}
        /\ next' = next /\ task # None
    BY <1>3, LogGrows DEF Answer, Produce, TypeOK, OffIsClear
  <2> QED
    BY <2>1, <1>num, <1>old, <1>res DEF Numbered, Live
<1>4. CASE Write
  <2>1. OnDisk' \subseteq OnDisk \cup conv
    BY <1>4, WriteFiles
  <2> QED
    BY <1>4, <2>1, <1>old DEF Numbered, Live, Write
<1>5. CASE Truncate
  <2>1. OnDisk' \subseteq OnDisk
    BY <1>5, TruncateFiles
  <2> QED
    BY <1>5, <2>1, <1>old DEF Numbered, Live, Truncate
<1>6. CASE Quiet
  <2>disk. OnDisk' = OnDisk
    BY <1>6, QuietKeepsFiles, FilesKept
  <2>1. ASSUME NEW s \in Ids, NEW from \in Ids \cup {None}, Start(s, from)
        PROVE  Numbered'
    <3>1. \A m \in conv' : m.n < next
      BY <2>1, StartLoads, SanitizedNumbers, <1>old
    <3>2. task' = None /\ next' = next
      BY <2>1 DEF Start, OffIsClear
    <3> QED
      BY <2>disk, <3>1, <3>2, <1>old DEF Numbered, Live
  <2>2. CASE Inject
    <3>1. next' = next + 1
      BY <2>2 DEF Inject
    <3>2. \A m \in OnDisk' \cup conv' \cup task' :
            (m.n < next /\ m.n \in Nat) \/ m = Msg("note", next)
      BY <2>2, <2>disk, <1>old DEF Inject
    <3> QED
      BY <3>1, <3>2, <1>fresh DEF Kinds
  <2>3. ASSUME NEW k \in 1..MaxMsgs, Compact(k) PROVE Numbered'
    <3>1. k <= next - 1
      BY <2>3, MaxMsgsAssumption DEF Compact, TypeOK
    <3> QED
      BY <2>3, <3>1, <2>disk, <1>num, <1>old, <1>res DEF Compact, Numbered, Live
  <2>4. CASE SwitchSession
    <3>1. UNCHANGED <<task, next>>
      BY <2>4 DEF SwitchSession
    <3>2. \A m \in conv' : /\ m.n < next
                           /\ m.kind # "note" => m \in OnDisk \cup conv
      BY <2>4, SwitchLoads, SanitizedNumbers, <1>old
    <3> QED
      BY <3>1, <3>2, <2>disk, <1>old, <1>res DEF Numbered, Live
  <2>5. CASE UNCHANGED next /\ task' = None /\ conv' \subseteq Live
    BY <2>5, <2>disk, <1>old DEF Numbered, Live
  <2>6. CASE UNCHANGED <<next, task, sid>> /\ conv' \subseteq conv
    BY <2>6, <2>disk, <1>old DEF Numbered, Live
  <2> QED
    BY <1>6, <2>1, <2>2, <2>3, <2>4, <2>5, <2>6, QuietMemory
<1>7. CASE UNCHANGED vars
  BY <1>7, FilesKept DEF vars, Numbered, Live
<1> QED
  BY <1>1, <1>2, <1>3, <1>4, <1>5, <1>6, <1>7, StepCases

(* Pairs survive adding a message that is not a result, and removing one that *)
(* is not a call.                                                             *)
LEMMA PairedKept ==
  ASSUME NEW ms, Paired(ms), NEW x
  PROVE  /\ x.kind # "result" => Paired(ms \cup {x})
         /\ x.kind # "call" => Paired(ms \ {x})
         /\ x = Msg("result", x.n) /\ Msg("call", x.n) \in ms => Paired(ms \cup {x})
  BY MsgFields DEF Paired

LEMMA PairedFiles ==
  ASSUME PairedSources, NEW s \in Ids \ mixed
  PROVE  Paired(Files(s)) /\ Paired(Snapshot(s)) /\ Paired(log[s])
  BY DEF PairedSources, Files, Paired

\* What the query and the session loop have, when it is not a saved placeholder.
PairedMemory ==
  sid # None /\ sid \notin mixed =>
    /\ Paired(conv)
    /\ task # None => /\ Paired(task)
                      /\ Msg("call", next - 1) \in task =>
                           Msg("call", next - 1) \in log[sid]

LEMMA PairedStep ==
  TypeOK /\ OffIsClear /\ SnapshotTaken /\ Numbered /\ PairedSources /\ [Next]_vars
    => PairedSources'
<1> SUFFICES ASSUME TypeOK, OffIsClear, SnapshotTaken, Numbered, PairedSources,
                    [Next]_vars
             PROVE  PairedSources'
  OBVIOUS
<1>num. next \in Nat /\ 0 < next /\ next + 1 - 1 = next
  BY MaxMsgsAssumption DEF TypeOK
<1>fresh. /\ Msg("call", next) \notin conv
          /\ task # None => Msg("call", next) \notin task
  BY <1>num, MsgFields DEF Numbered, Live
<1>mem. PairedMemory /\ (\A s \in Ids \ mixed : Paired(log[s]) /\ Paired(Snapshot(s)))
  BY DEF PairedSources, PairedMemory
<1>goal. ASSUME PairedMemory',
                \A s \in Ids \ mixed' : Paired(log'[s]) /\ Paired(Snapshot(s)')
         PROVE  PairedSources'
  BY <1>goal DEF PairedSources, PairedMemory, Paired
\* An append to the log.
<1>grow. ASSUME sid \in Ids, NEW m, UNCHANGED <<snap, sid, mixed>>,
                log' = [log EXCEPT ![sid] = @ \cup {m}],
                sid \notin mixed => Paired(log[sid] \cup {m})
         PROVE  /\ \A s \in Ids \ mixed' : Paired(log'[s]) /\ Paired(Snapshot(s)')
                /\ log'[sid] = log[sid] \cup {m}
  <2>1. /\ \A s \in Ids : /\ Snapshot(s)' = Snapshot(s)
                          /\ s # sid => log'[s] = log[s]
        /\ log'[sid] = log[sid] \cup {m}
    BY <1>grow, LogGrows
  <2> QED
    BY <2>1, <1>grow, <1>mem
<1>1. CASE Submit
  <2> DEFINE m == Msg("user", next)
  <2>1. sid \in Ids /\ m.kind = "user"
    BY <1>1, MsgFields DEF Submit, TypeOK
  <2>2. sid \notin mixed => Paired(log[sid] \cup {m}) /\ Paired(conv \cup {m})
    BY <1>1, <2>1, <1>mem, PairedKept DEF PairedMemory, Submit
  <2>3. \A s \in Ids \ mixed' : Paired(log'[s]) /\ Paired(Snapshot(s)')
    BY <1>1, <2>1, <2>2, <1>grow DEF Submit
  <2>4. Msg("call", next' - 1) \notin task'
    BY <1>1, <1>num, <1>fresh, MsgFields DEF Submit
  <2>5. PairedMemory'
    BY <1>1, <2>2, <2>4 DEF PairedMemory, Submit, Paired
  <2> QED
    BY <2>3, <2>5, <1>goal
<1>2. ASSUME NEW k \in {"reply", "call"}, Say(k) PROVE PairedSources'
  <2> DEFINE m == Msg(k, next)
  <2>1. sid \in Ids /\ task # None /\ m.kind = k
    BY <1>2, MsgFields DEF Say, TypeOK, OffIsClear
  <2>2. sid \notin mixed => Paired(log[sid] \cup {m}) /\ Paired(task \cup {m})
    BY <1>2, <2>1, <1>mem, NoneAssumption, PairedKept DEF PairedMemory, TypeOK
  <2>3. /\ \A s \in Ids \ mixed' : Paired(log'[s]) /\ Paired(Snapshot(s)')
        /\ log'[sid] = log[sid] \cup {m}
    BY <1>2, <2>1, <2>2, <1>grow DEF Say, Produce
  <2>4. Msg("call", next' - 1) \in task' => Msg("call", next' - 1) = m
    BY <1>2, <2>1, <1>num, <1>fresh DEF Say, Produce
  <2>5. PairedMemory'
    BY <1>2, <1>mem, <2>1, <2>2, <2>3, <2>4
       DEF PairedMemory, Say, Produce, Paired
  <2> QED
    BY <2>3, <2>5, <1>goal
<1>3. CASE Answer
  <2> DEFINE m == Msg("result", next - 1)
  <2>1. /\ sid \in Ids /\ task # None /\ m = Msg("result", m.n) /\ m.n = next - 1
        /\ Msg("call", m.n) \in task
    BY <1>3, MsgFields DEF Answer, Calling, TypeOK, OffIsClear
  <2>2. sid \notin mixed => /\ Msg("call", m.n) \in log[sid]
                            /\ Paired(log[sid] \cup {m}) /\ Paired(task \cup {m})
    BY <2>1, <1>mem, NoneAssumption, PairedKept DEF PairedMemory, TypeOK
  <2>3. /\ \A s \in Ids \ mixed' : Paired(log'[s]) /\ Paired(Snapshot(s)')
        /\ log'[sid] = log[sid] \cup {m}
    BY <1>3, <2>1, <2>2, <1>grow DEF Answer, Produce
  <2>5. PairedMemory'
    BY <1>3, <1>mem, <2>1, <2>2, <2>3 DEF PairedMemory, Answer, Produce, Paired
  <2> QED
    BY <2>3, <2>5, <1>goal
<1>4. CASE Write
  <2>1. /\ \A s \in Ids \ {sid} : Snapshot(s)' = Snapshot(s)
        /\ Snapshot(sid)' = conv /\ sid' = sid /\ log' = log /\ sid \in Ids
    BY <1>4, WriteFiles DEF Write
  <2>2. mixed \subseteq mixed' /\ (task # None => sid \in mixed')
    BY <1>4 DEF Write
  <2>3. sid \notin mixed' => Paired(conv)
    BY <2>1, <2>2, <1>mem, NoneAssumption DEF PairedMemory
  <2>4. \A s \in Ids \ mixed' : Paired(log'[s]) /\ Paired(Snapshot(s)')
    BY <2>1, <2>2, <2>3, <1>mem
  <2>5. PairedMemory'
    BY <1>4, <2>1, <2>2, <1>mem DEF PairedMemory, Write, Paired
  <2> QED
    BY <2>4, <2>5, <1>goal
<1>5. CASE Truncate
  <2>1. /\ \A s \in Ids \ {sid} : Snapshot(s)' = Snapshot(s) /\ log'[s] = log[s]
        /\ log'[sid] = {} /\ Snapshot(sid)' = Snapshot(sid)
    BY <1>5, TruncateFiles
  <2>2. task # None => sid \in mixed
    BY <1>5 DEF Truncate, SnapshotTaken
  <2>3. \A s \in Ids \ mixed' : Paired(log'[s]) /\ Paired(Snapshot(s)')
    BY <1>5, <2>1, <1>mem DEF Truncate, Paired
  <2>4. PairedMemory'
    BY <1>5, <2>2, <1>mem DEF PairedMemory, Truncate, Paired
  <2> QED
    BY <2>3, <2>4, <1>goal
<1>6. CASE Quiet
  <2>files. /\ \A s \in Ids : Snapshot(s)' = Snapshot(s)
            /\ log' = log /\ mixed \subseteq mixed'
    BY <1>6, QuietKeepsFiles, FilesKept
       DEF Quiet, Start, Inject, Compact, Panic, Handle, Return, Begin, Quit,
           WriteFails, TruncateFails, Stay, NewSession, SwitchSession, Exit, Crash
  <2>all. \A s \in Ids \ mixed' : Paired(log'[s]) /\ Paired(Snapshot(s)')
    BY <2>files, <1>mem
  <2> SUFFICES PairedMemory'
    BY <2>all, <1>goal
  <2>1. ASSUME NEW s \in Ids, NEW from \in Ids \cup {None}, Start(s, from)
        PROVE  PairedMemory'
    <3>1. task' = None
      BY <2>1 DEF Start, OffIsClear
    <3>2. CASE from = None
      BY <2>1, <3>1, <3>2 DEF Start, PairedMemory, Paired
    <3>3. CASE from # None /\ sid' \notin mixed'
      <4>1. from \in Ids \ mixed
        BY <2>1, <3>3 DEF Start
      <4>2. Paired(Files(from)) /\ Files(from) \subseteq Messages
        BY <4>1, PairedFiles, FilesType
      <4>3. Paired(conv')
        BY <2>1, <3>3, <4>2, SanitizedPaired DEF Start
      <4> QED
        BY <3>1, <4>3 DEF PairedMemory, Paired
    <3> QED
      BY <3>2, <3>3 DEF PairedMemory
  <2>2. CASE Inject
    <3>1. Msg("call", next' - 1) \notin task'
      BY <2>2, <1>num, <1>fresh, MsgFields DEF Inject
    <3>2. Paired(task) => Paired(task \cup {Msg("note", next)})
      BY MsgFields, PairedKept
    <3> QED
      BY <2>2, <3>1, <3>2, <1>mem DEF PairedMemory, Inject, Paired
  <2>3. ASSUME NEW k \in 1..MaxMsgs, Compact(k) PROVE PairedMemory'
    <3>1. Paired(task) => Paired(task')
      BY <2>3, MsgFields DEF Compact, Paired
    <3>2. Msg("call", next' - 1) \in task' => Msg("call", next - 1) \in task
      BY <2>3, MsgFields DEF Compact
    <3> QED
      BY <2>3, <3>1, <3>2, <1>mem DEF PairedMemory, Compact, Paired
  <2>4. CASE Panic
    BY <2>4, <1>mem DEF PairedMemory, Panic, Paired
  <2>5. ASSUME NEW undone \in BOOLEAN, Return(undone) PROVE PairedMemory'
    <3>1. Paired(task) /\ undone => Paired(task \ {Last(task)})
      BY <2>5, PairedKept DEF Return, EndsOnUser
    <3> QED
      BY <2>5, <3>1, <1>mem DEF PairedMemory, Return, Paired
  <2>6. CASE \E what \in Whats \ {"stay"} : Begin(what)
    BY <2>6, <1>mem DEF PairedMemory, Begin, Paired
  <2>7. CASE Quit
    BY <2>7, <1>mem DEF PairedMemory, Quit, Paired
  <2>8. CASE WriteFails \/ TruncateFails \/ Stay
    BY <2>8, <1>mem DEF PairedMemory, WriteFails, TruncateFails, Stay, Paired
  <2>9. CASE NewSession
    BY <2>9, <1>mem DEF PairedMemory, NewSession, Paired
  <2>10. CASE SwitchSession
    <3>1. sid \notin mixed' => (Paired(conv) => Paired(conv'))
      <4> SUFFICES ASSUME sid \notin mixed', Paired(conv) PROVE Paired(conv')
        OBVIOUS
      <4>1. pc.then \in Ids \ mixed
        BY <2>10 DEF SwitchSession
      <4>2. Paired(Snapshot(pc.then)) /\ Snapshot(pc.then) \subseteq Messages
        BY <4>1, PairedFiles, FilesType
      <4> QED
        BY <2>10, <4>2, SwitchLoads, SanitizedPaired
    <3> QED
      BY <2>10, <2>files, <3>1, <1>mem DEF PairedMemory, SwitchSession, Paired
  <2>11. CASE Exit \/ Crash
    BY <2>11 DEF PairedMemory, Exit, Crash
  <2> QED
    BY <1>6, <2>1, <2>2, <2>3, <2>4, <2>5, <2>6, <2>7, <2>8, <2>9, <2>10, <2>11
       DEF Quiet, Handle
<1>7. CASE UNCHANGED vars
  <2>1. \A s \in Ids : Snapshot(s)' = Snapshot(s)
    BY <1>7, FilesKept DEF vars
  <2> QED
    BY <1>7, <2>1, <1>mem, <1>goal DEF vars, PairedMemory, Paired
<1> QED
  BY <1>1, <1>2, <1>3, <1>4, <1>5, <1>6, <1>7, StepCases

LEMMA SurvivesStep ==
  TypeOK /\ OffIsClear /\ SnapshotTaken /\ TurnSurvivesCrash /\ [Next]_vars
    => TurnSurvivesCrash'
<1> SUFFICES ASSUME TypeOK, OffIsClear, SnapshotTaken, TurnSurvivesCrash,
                    [Next]_vars, sid' # None, sid' \notin torn'
             PROVE  /\ Spoken(conv') \subseteq OnDisk'
                    /\ task' # None => Spoken(task') \subseteq OnDisk'
  BY DEF TurnSurvivesCrash, Spoken
<1>old. sid # None /\ sid \notin torn =>
          /\ Spoken(conv) \subseteq OnDisk
          /\ task # None => Spoken(task) \subseteq OnDisk
  BY DEF TurnSurvivesCrash
<1>sub. \A a, b : a \subseteq b => Spoken(a) \subseteq Spoken(b)
  BY DEF Spoken
<1>1. CASE Submit
  <2>1. OnDisk' = OnDisk \cup {Msg("user", next)}
    BY <1>1, LogGrows DEF Submit, TypeOK
  <2> QED
    BY <1>1, <2>1, <1>old DEF Submit, Spoken
<1>2. ASSUME NEW k \in {"reply", "call"}, Say(k)
      PROVE  Spoken(conv') \cup Spoken(task') \subseteq OnDisk'
  <2>1. OnDisk' = OnDisk \cup {Msg(k, next)}
    BY <1>2, LogGrows DEF Say, Produce, TypeOK, OffIsClear
  <2> QED
    BY <1>2, <2>1, <1>old DEF Say, Produce, Spoken
<1>3. CASE Answer
  <2>1. OnDisk' = OnDisk \cup {Msg("result", next - 1)}
    BY <1>3, LogGrows DEF Answer, Produce, TypeOK, OffIsClear
  <2> QED
    BY <1>3, <2>1, <1>old DEF Answer, Produce, Spoken
<1>4. CASE Write
  <2>1. task = None /\ task' = None /\ conv' = conv
    BY <1>4 DEF Write
  <2> QED
    BY <1>4, <2>1, WriteFiles DEF Spoken
<1>5. CASE Truncate
  <2>1. task = None /\ task' = None /\ conv' = conv
    BY <1>5 DEF Truncate, SnapshotTaken
  <2> QED
    BY <1>5, <2>1, TruncateFiles DEF Spoken
<1>6. CASE Quiet
  <2>disk. OnDisk' = OnDisk
    BY <1>6, QuietKeepsFiles, FilesKept
  <2>1. ASSUME NEW s \in Ids, NEW from \in Ids \cup {None}, Start(s, from)
        PROVE  Spoken(conv') \subseteq OnDisk' /\ task' = None
    <3>1. task' = None
      BY <2>1 DEF Start, OffIsClear
    <3>2. Spoken(conv') \subseteq OnDisk
      BY <2>1, StartLoads, SanitizedSpoken DEF Spoken
    <3> QED
      BY <2>disk, <3>1, <3>2
  <2>2. CASE Inject
    BY <2>2, <2>disk, <1>old, MsgFields DEF Inject, Spoken
  <2>3. ASSUME NEW k \in 1..MaxMsgs, Compact(k)
        PROVE  Spoken(conv') \cup Spoken(task') \subseteq OnDisk'
    <3>1. sid # None /\ sid \notin torn
      BY <2>3 DEF Compact
    <3> QED
      BY <2>3, <3>1, <2>disk, <1>old, MsgFields DEF Compact, Spoken
  <2>4. CASE Panic
    BY <2>4, <2>disk, <1>old DEF Panic
  <2>5. ASSUME NEW undone \in BOOLEAN, Return(undone)
        PROVE  Spoken(conv') \subseteq OnDisk' /\ task' = None
    BY <2>5, <2>disk, <1>old, <1>sub DEF Return, Spoken
  <2>6. CASE \E what \in Whats \ {"stay"} : Begin(what)
    BY <2>6, <2>disk, <1>old DEF Begin
  <2>7. CASE Quit
    BY <2>7, <2>disk, <1>old DEF Quit
  <2>8. CASE WriteFails \/ TruncateFails \/ Stay
    BY <2>8, <2>disk, <1>old DEF WriteFails, TruncateFails, Stay
  <2>9. CASE NewSession
    BY <2>9, <2>disk, <1>old DEF NewSession, Spoken
  <2>10. CASE SwitchSession
    <3>1. Spoken(conv') \subseteq OnDisk
      BY <2>10, <1>old, SwitchLoads, SanitizedSpoken DEF SwitchSession
    <3> QED
      BY <2>10, <2>disk, <3>1, <1>old DEF SwitchSession
  <2>11. CASE Exit \/ Crash
    BY <2>11 DEF Exit, Crash
  <2> QED
    BY <1>6, <2>1, <2>2, <2>3, <2>4, <2>5, <2>6, <2>7, <2>8, <2>9, <2>10, <2>11
       DEF Quiet, Handle
<1>7. CASE UNCHANGED vars
  BY <1>7, <1>old, FilesKept DEF vars
<1> QED
  BY <1>1, <1>2, <1>3, <1>4, <1>5, <1>6, <1>7, StepCases

LEMMA TailStep ==
  TypeOK /\ OffIsClear /\ SnapshotTaken /\ Numbered /\ LogHoldsTheTail /\ [Next]_vars
    => LogHoldsTheTail'
<1> SUFFICES ASSUME TypeOK, OffIsClear, SnapshotTaken, Numbered, LogHoldsTheTail,
                    [Next]_vars
             PROVE  LogHoldsTheTail'
  OBVIOUS
<1>num. next \in Nat /\ 0 < next
  BY MaxMsgsAssumption DEF TypeOK
<1>new. \A k : Msg(k, next) \notin OnDisk
  BY <1>num, MsgFields DEF Numbered
\* A message that is in no file is appended to the log.
<1>grow. ASSUME sid \in Ids, NEW m, m \notin OnDisk, UNCHANGED <<snap, sid, pc, cut>>,
                log' = [log EXCEPT ![sid] = @ \cup {m}]
         PROVE  LogHoldsTheTail'
  <2>1. /\ \A s \in Ids : /\ Snapshot(s)' = Snapshot(s)
                          /\ s # sid => log'[s] = log[s]
        /\ log'[sid] = log[sid] \cup {m}
    BY <1>grow, LogGrows
  <2>2. \A s \in Ids : m \notin Snapshot(s)
    BY <1>grow, OnDiskMembers DEF Files
  <2>3. \A s \in Ids : Snapshot(s)' \cap log'[s] = Snapshot(s) \cap log[s]
    BY <2>1, <2>2
  <2> QED
    BY <2>3, <1>grow DEF LogHoldsTheTail
<1>1. CASE Submit
  BY <1>1, <1>new, <1>grow DEF Submit, TypeOK
<1>2. ASSUME NEW k \in {"reply", "call"}, Say(k) PROVE LogHoldsTheTail'
  <2>1. sid \in Ids
    BY <1>2 DEF Say, TypeOK, OffIsClear
  <2> QED
    BY <1>2, <2>1, <1>new, <1>grow DEF Say, Produce
<1>3. CASE Answer
  <2>1. sid \in Ids /\ Msg("result", next - 1) \notin OnDisk
    BY <1>3 DEF Answer, Calling, Numbered, TypeOK, OffIsClear
  <2> QED
    BY <1>3, <2>1, <1>grow DEF Answer, Produce
<1>4. CASE Write
  <2>1. \A s \in Ids \ {sid} : Snapshot(s)' \cap log'[s] = Snapshot(s) \cap log[s]
    BY <1>4, WriteFiles DEF Write
  <2> QED
    BY <1>4, <2>1 DEF Write, LogHoldsTheTail, At
<1>5. CASE Truncate
  <2>1. /\ \A s \in Ids \ {sid} : Snapshot(s)' \cap log'[s] = Snapshot(s) \cap log[s]
        /\ log'[sid] = {}
    BY <1>5, TruncateFiles
  <2> QED
    BY <1>5, <2>1 DEF Truncate, LogHoldsTheTail
<1>6. CASE Quiet
  <2>1. \A s \in Ids : Snapshot(s)' \cap log'[s] = Snapshot(s) \cap log[s]
    BY <1>6, QuietKeepsFiles, FilesKept
  <2>2. cut \subseteq cut'
    BY <1>6
       DEF Quiet, Start, Inject, Compact, Panic, Handle, Return, Begin, Quit,
           WriteFails, TruncateFails, Stay, NewSession, SwitchSession, Exit, Crash
  <2>3. pc.at = "truncate" => sid \in cut' \/ (sid' = sid /\ pc'.at = "truncate")
    BY <1>6
       DEF Quiet, Start, Inject, Compact, Panic, Handle, Return, Begin, Quit,
           WriteFails, TruncateFails, Stay, NewSession, SwitchSession, Exit, Crash,
           OffIsClear, Ready, At
  <2> QED
    BY <2>1, <2>2, <2>3 DEF LogHoldsTheTail
<1>7. CASE UNCHANGED vars
  BY <1>7, FilesKept DEF vars, LogHoldsTheTail
<1> QED
  BY <1>1, <1>2, <1>3, <1>4, <1>5, <1>6, <1>7, StepCases

-----------------------------------------------------------------------------
(* The theorems                                                            *)

(* Every reachable state of a session satisfies the whole invariant, for any  *)
(* number of session ids and of messages.                                     *)
THEOREM StoreInvHolds == Spec => []StoreInv
<1>1. StoreInv /\ [Next]_vars => StoreInv'
  BY TypeStep, OffStep, TakenStep, NumberedStep, PairedStep, SurvivesStep, TailStep
     DEF StoreInv
<1> QED
  BY InitInv, <1>1, PTL DEF Spec

(* Whenever the process dies, all that was said is in some session's files    *)
(* (runtime.rs:463), unless the session was saved during its query.           *)
THEOREM TurnSurvivesCrashHolds == Spec => []TurnSurvivesCrash
<1>1. StoreInv => TurnSurvivesCrash
  BY DEF StoreInv
<1> QED
  BY StoreInvHolds, <1>1, PTL

(* A log repeats a message of its snapshot only after a crash or a failure    *)
(* between the two writes of persist_session.                                 *)
THEOREM LogHoldsTheTailHolds == Spec => []LogHoldsTheTail
<1>1. StoreInv => LogHoldsTheTail
  BY DEF StoreInv
<1> QED
  BY StoreInvHolds, <1>1, PTL

(* A resumed conversation has the call of every result (resume_sanitize.rs).  *)
THEOREM ResumePairedHolds == Spec => []ResumePaired
<1>1. StoreInv => ResumePaired
  BY PairedFiles, FilesType, SanitizedPaired DEF StoreInv, ResumePaired
<1> QED
  BY StoreInvHolds, <1>1, PTL
=============================================================================
