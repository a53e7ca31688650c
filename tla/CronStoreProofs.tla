--------------------------- MODULE CronStoreProofs ---------------------------
(***************************************************************************)
(* CronStore for any number of jobs and any length of the queue: CronInv   *)
(* is inductive, so a one-shot job whose prompt has run is gone for good.  *)
(***************************************************************************)
EXTENDS CronStore, TLAPS

(* What the operations on the queues do to what is in them.                   *)
LEMMA InAppend ==
  ASSUME NEW s \in Seq(Jobs), NEW e \in Jobs, NEW f
  PROVE  /\ Append(s, e) \in Seq(Jobs)
         /\ In(f, Append(s, e)) <=> In(f, s) \/ f = e
<1>1. /\ Append(s, e) \in Seq(Jobs)
      /\ Len(Append(s, e)) = Len(s) + 1
      /\ \A i \in 1..Len(s) : Append(s, e)[i] = s[i]
      /\ Append(s, e)[Len(s) + 1] = e
  OBVIOUS
<1>2. Len(s) \in Nat
  OBVIOUS
<1> QED
  BY <1>1, <1>2 DEF In

LEMMA InTail ==
  ASSUME NEW s \in Seq(Jobs), s # <<>>, NEW f
  PROVE  /\ Head(s) \in Jobs /\ In(Head(s), s)
         /\ Tail(s) \in Seq(Jobs)
         /\ In(f, Tail(s)) => In(f, s)
<1>1. /\ Len(s) \in Nat \ {0}
      /\ Head(s) = s[1] /\ Head(s) \in Jobs
      /\ Tail(s) \in Seq(Jobs) /\ Len(Tail(s)) = Len(s) - 1
      /\ \A i \in 1..(Len(s) - 1) : Tail(s)[i] = s[i + 1]
  OBVIOUS
<1> QED
  BY <1>1 DEF In

LEMMA InEmpty == /\ <<>> \in Seq(Jobs) /\ Len(<<>>) = 0
                 /\ \A f : ~In(f, <<>>)
  BY DEF In

LEMMA InMember ==
  ASSUME NEW s \in Seq(Jobs), NEW i \in 1..Len(s)
  PROVE  s[i] \in Jobs /\ In(s[i], s)
  BY DEF In

LEMMA InitInv == Init => CronInv
<1> SUFFICES ASSUME Init PROVE CronInv
  OBVIOUS
<1>1. TypeOK
  <2>1. /\ queue \in Seq(Jobs) /\ batch \in Seq(Jobs) /\ waiting \in Seq(Jobs)
        /\ at \in 1..(Len(batch) + 1)
    BY InEmpty DEF Init
  <2>2. nextId \in 1..(MaxJobs + 1) /\ born \in 0..MaxJobs
    BY CronAssumption DEF Init
  <2> QED
    BY <2>1, <2>2 DEF Init, TypeOK
<1> QED
  BY <1>1, InEmpty
     DEF Init, CronInv, IdsDiffer, BornCounts, DownIsClear, FileKnown, BatchGone,
         FiresTellJobs, DurableOnDisk, OneShotGone, Durable

\* What a change of the store does to the file, when nobody is writing it.
LEMMA ChangeFacts ==
  ASSUME NEW js, NEW d, NEW who, ~writing, Change(js, d, who)
  PROVE  /\ jobs' = js
         /\ store' = who \/ (store' = "free" /\ who = "tool" /\ ~writing')
         /\ writing' => store' = who
         /\ \/ UNCHANGED fileVars /\ ~d
            \/ /\ file' = {} /\ writing' = TRUE
               /\ UNCHANGED <<stale, kept>>
            \/ /\ stale' = TRUE /\ kept' = kept \cup (file \ Durable(js))
               /\ UNCHANGED <<file, writing>>
  BY DEF Change, Save, fileVars

LEMMA TypeStep ==
  TypeOK /\ FileKnown /\ BornCounts /\ BatchGone /\ [Next]_vars => TypeOK'
<1> SUFFICES ASSUME TypeOK, FileKnown, BornCounts, BatchGone, [Next]_vars
             PROVE  TypeOK'
  OBVIOUS
<1> USE CronAssumption DEF TypeOK
<1>file. ASSUME NEW js \in SUBSET Jobs, NEW d \in BOOLEAN, NEW who \in {"tool", "repl"},
                ~writing, Change(js, d, who)
         PROVE  /\ jobs' \subseteq Jobs /\ store' \in {"free", "tool", "repl"}
                /\ file' \subseteq Durable(Jobs) /\ writing' \in BOOLEAN
                /\ stale' \in BOOLEAN /\ kept' \subseteq Jobs
  <2>1. Durable(js) \subseteq Jobs /\ file \subseteq Jobs
    BY DEF Durable
  <2>2. jobs' = js /\ store' \in {"free", "tool", "repl"}
    BY <1>file, ChangeFacts
  <2>3. CASE UNCHANGED fileVars
    BY <2>1, <2>2, <2>3 DEF fileVars
  <2>4. CASE file' = {} /\ writing' = TRUE /\ UNCHANGED <<stale, kept>>
    BY <2>1, <2>2, <2>4
  <2>5. CASE /\ stale' = TRUE /\ kept' = kept \cup (file \ Durable(js))
             /\ UNCHANGED <<file, writing>>
    BY <2>1, <2>2, <2>5
  <2> QED
    BY <1>file, <2>3, <2>4, <2>5, ChangeFacts
<1>1. ASSUME NEW recurring \in BOOLEAN, NEW durable \in BOOLEAN,
             Create(recurring, durable)
      PROVE  TypeOK'
  <2> DEFINE j == [n |-> born + 1, id |-> NextId,
                   recurring |-> recurring, durable |-> durable]
  <2>1. /\ born + 1 \in 1..MaxJobs /\ nextId \in 1..MaxJobs
        /\ nextId' \in 1..(MaxJobs + 1) /\ born' \in 0..MaxJobs
        /\ ~writing
    BY <1>1 DEF Create, BornCounts, FileKnown
  <2>2. j \in Jobs
    BY <2>1 DEF Jobs, NextId
  <2>3. Change(jobs \cup {j}, durable, "tool")
    BY <1>1 DEF Create
  <2> QED
    BY <1>1, <2>1, <2>2, <2>3, <1>file DEF Create, replVars
<1>2. ASSUME NEW j \in jobs, Delete(j) PROVE TypeOK'
  <2>1. ~writing /\ j.durable \in BOOLEAN /\ jobs \ {j} \in SUBSET Jobs
    BY <1>2 DEF Delete, FileKnown, Jobs
  <2>2. late' \subseteq Jobs
    BY <1>2 DEF Delete, Cancel
  <2> QED
    BY <1>2, <2>1, <2>2, <1>file DEF Delete, replVars
<1>3. ASSUME NEW ok \in BOOLEAN, WriteEnd(ok) PROVE TypeOK'
  BY <1>3 DEF WriteEnd, replVars, Durable
<1>4. ASSUME NEW j \in Jobs, Push(j), late' \subseteq late PROVE TypeOK'
  BY <1>4, InAppend DEF Push, storeVars, fileVars, replVars
<1>5. CASE Submit \/ DropWaiting
  BY <1>5, InEmpty DEF Submit, DropWaiting, storeVars, fileVars
<1>6. CASE Drain
  BY <1>6 DEF Drain, storeVars, fileVars
<1>7. CASE Consume
  <2> DEFINE gone == Consumed(batch[at])
  <2>1. ~writing /\ (Durable(gone) # {}) \in BOOLEAN /\ jobs \ gone \in SUBSET Jobs
    BY <1>7 DEF Consume
  <2>2. late' \subseteq Jobs
    BY <1>7 DEF Consume, Consumed
  <2>3. at' \in 1..(Len(batch') + 1)
    BY <1>7 DEF Consume
  <2>4. Change(jobs \ gone, Durable(gone) # {}, "repl")
    BY <1>7 DEF Consume
  <2> QED
    BY <1>7, <2>1, <2>2, <2>3, <2>4, <1>file DEF Consume
<1>8. CASE Inject
  <2>1. batch # <<>>
    BY <1>8 DEF Inject, BatchGone
  <2> QED
    BY <1>8, <2>1, InTail, InEmpty DEF Inject, fileVars
<1>9. CASE Return
  <2>1. waiting' \in Seq(Jobs) /\ ran' \subseteq Jobs
    <3>1. CASE waiting = <<>>
      BY <1>9, <3>1 DEF Return
    <3>2. CASE waiting # <<>>
      <4>1. Head(waiting) \in Jobs /\ Tail(waiting) \in Seq(Jobs)
        BY <3>2, InTail
      <4> QED
        BY <1>9, <3>2, <4>1 DEF Return
    <3> QED
      BY <3>1, <3>2
  <2> QED
    BY <1>9, <2>1 DEF Return, storeVars, fileVars
<1>10. CASE Start
  BY <1>10 DEF Start, fileVars, replVars, Durable
<1>11. CASE Stop
  <2>1. /\ queue' \in Seq(Jobs) /\ batch' \in Seq(Jobs) /\ waiting' \in Seq(Jobs)
        /\ at' \in 1..(Len(batch') + 1)
    BY <1>11, InEmpty DEF Stop, Down
  <2>2. nextId' \in 1..(MaxJobs + 1) /\ born' \in 0..MaxJobs
    BY <1>11, CronAssumption DEF Stop, Down
  <2> QED
    BY <1>11, <2>1, <2>2 DEF Stop, Down
<1>12. CASE UNCHANGED vars
  BY <1>12 DEF vars, storeVars, fileVars, replVars
<1> QED
  BY <1>1, <1>2, <1>3, <1>4, <1>5, <1>6, <1>7, <1>8, <1>9, <1>10, <1>11, <1>12
     DEF Next, Tools, Fires, Loop, Fire, LateFire

LEMMA IdsStep ==
  TypeOK /\ FileKnown /\ IdsDiffer /\ [Next]_vars => IdsDiffer'
<1> SUFFICES ASSUME TypeOK, FileKnown, IdsDiffer, [Next]_vars PROVE IdsDiffer'
  OBVIOUS
<1>num. nextId \in Nat /\ \A j \in Jobs : j.id \in Nat
  BY CronAssumption DEF TypeOK, Jobs
\* A change keeps the file or empties it.
<1>file. ASSUME NEW js, NEW d, NEW who, ~writing, Change(js, d, who)
         PROVE  jobs' = js /\ file' \subseteq file
  BY <1>file, ChangeFacts DEF fileVars
<1>1. ASSUME NEW recurring \in BOOLEAN, NEW durable \in BOOLEAN,
             Create(recurring, durable)
      PROVE  IdsDiffer'
  <2> DEFINE j == [n |-> born + 1, id |-> NextId,
                   recurring |-> recurring, durable |-> durable]
  <2>1. Change(jobs \cup {j}, durable, "tool") /\ ~writing /\ nextId' = nextId + 1
    BY <1>1 DEF Create, FileKnown
  <2>2. j.id = nextId
    BY DEF NextId
  <2>3. jobs' = jobs \cup {j} /\ file' \subseteq file
    BY <2>1, <1>file
  <2>4. \A k \in jobs : k.id < nextId /\ k.id \in Nat
    BY <1>num DEF IdsDiffer, TypeOK
  <2> HIDE DEF j
  <2> QED
    BY <2>1, <2>2, <2>3, <2>4, <1>num DEF IdsDiffer
<1>2. ASSUME NEW j \in jobs, Delete(j) PROVE IdsDiffer'
  <2>1. jobs' = jobs \ {j} /\ file' \subseteq file /\ nextId' = nextId
    BY <1>2, <1>file DEF Delete, FileKnown
  <2> QED
    BY <2>1 DEF IdsDiffer
<1>3. ASSUME NEW ok \in BOOLEAN, WriteEnd(ok) PROVE IdsDiffer'
  BY <1>3 DEF WriteEnd, IdsDiffer, Durable
<1>4. CASE Consume
  <2>1. jobs' \subseteq jobs /\ file' \subseteq file /\ nextId' = nextId
    BY <1>4, <1>file DEF Consume
  <2> QED
    BY <2>1 DEF IdsDiffer
<1>5. CASE Start
  BY <1>5 DEF Start, fileVars, IdsDiffer
<1>6. CASE Stop
  BY <1>6 DEF Stop, Down, IdsDiffer
<1>7. CASE UNCHANGED <<jobs, file, nextId>>
  BY <1>7 DEF IdsDiffer
<1> QED
  BY <1>1, <1>2, <1>3, <1>4, <1>5, <1>6, <1>7
     DEF Next, Tools, Fires, Loop, Fire, LateFire, Push, Submit, Drain, Inject,
         Return, DropWaiting, vars, storeVars, fileVars, replVars

LEMMA DownStep ==
  TypeOK /\ DownIsClear /\ [Next]_vars => DownIsClear'
  BY DEF TypeOK, DownIsClear, Next, Tools, Fires, Loop, Create, Delete, WriteEnd,
         Fire, LateFire, Push, Submit, Drain, Consume, Inject, Return, DropWaiting,
         Start, Stop, Down, vars, storeVars, fileVars, replVars

LEMMA FileStep ==
  TypeOK /\ DownIsClear /\ FileKnown /\ [Next]_vars => FileKnown'
<1> SUFFICES ASSUME TypeOK, DownIsClear, FileKnown, [Next]_vars PROVE FileKnown'
  OBVIOUS
<1>file. ASSUME NEW js, NEW d, NEW who \in {"tool", "repl"}, ~writing, up,
                Change(js, d, who), file \ js \subseteq kept \/ d,
                who = "repl" => turn = "draining", up' = up, turn' = turn
         PROVE  FileKnown'
  <2>1. file' \subseteq jobs' \cup kept'
    <3>1. CASE UNCHANGED fileVars /\ ~d
      BY <1>file, <3>1, ChangeFacts DEF fileVars
    <3>2. CASE file' = {}
      BY <3>2
    <3>3. CASE kept' = kept \cup (file \ Durable(js)) /\ UNCHANGED <<file, writing>>
      BY <1>file, <3>3, ChangeFacts DEF Durable
    <3> QED
      BY <1>file, <3>1, <3>2, <3>3, ChangeFacts
  <2>2. writing' => file' = {} /\ store' = who
    BY <1>file, ChangeFacts DEF fileVars
  <2>3. store' = "repl" => who = "repl"
    BY <1>file, ChangeFacts
  <2> QED
    BY <1>file, <2>1, <2>2, <2>3 DEF FileKnown
<1>1. ASSUME NEW recurring \in BOOLEAN, NEW durable \in BOOLEAN,
             Create(recurring, durable)
      PROVE  FileKnown'
  BY <1>1, <1>file DEF Create, FileKnown, replVars
<1>2. ASSUME NEW j \in jobs, Delete(j) PROVE FileKnown'
  <2>1. file \ (jobs \ {j}) \subseteq kept \/ j.durable
    BY <1>2 DEF Delete, FileKnown, TypeOK, Durable
  <2> QED
    BY <1>2, <2>1, <1>file DEF Delete, FileKnown, replVars
<1>3. ASSUME NEW ok \in BOOLEAN, WriteEnd(ok) PROVE FileKnown'
  BY <1>3 DEF WriteEnd, FileKnown, Durable, replVars
<1>4. CASE Consume
  <2> DEFINE gone == Consumed(batch[at])
  <2>1. file \ (jobs \ gone) \subseteq kept \/ Durable(gone) # {}
    BY <1>4 DEF Consume, DownIsClear, FileKnown, TypeOK, Durable
  <2>2. up
    BY <1>4 DEF Consume, DownIsClear, TypeOK
  <2> QED
    BY <1>4, <2>1, <2>2, <1>file DEF Consume
<1>5. CASE Inject
  BY <1>5 DEF Inject, FileKnown, fileVars
<1>6. CASE Drain
  BY <1>6 DEF Drain, FileKnown, fileVars, storeVars
<1>7. CASE Return \/ Submit
  BY <1>7 DEF Return, Submit, FileKnown, fileVars, storeVars
<1>8. CASE Start
  BY <1>8 DEF Start, FileKnown, fileVars, replVars
<1>9. CASE Stop
  BY <1>9 DEF Stop, Down, FileKnown
<1>10. CASE UNCHANGED <<storeVars, fileVars, up, turn>>
  BY <1>10 DEF FileKnown, storeVars, fileVars
<1> QED
  BY <1>1, <1>2, <1>3, <1>4, <1>5, <1>6, <1>7, <1>8, <1>9, <1>10
     DEF Next, Tools, Fires, Loop, Fire, LateFire, Push, DropWaiting, vars, replVars

\* The jobs that have come into being and can still be seen.
Known(j) == \/ j \in jobs \cup file \cup ran \cup kept \cup late
            \/ In(j, queue) \/ In(j, batch) \/ In(j, waiting)

LEMMA BornStep ==
  TypeOK /\ DownIsClear /\ FileKnown /\ BatchGone /\ BornCounts /\ [Next]_vars
    => BornCounts'
<1> SUFFICES ASSUME TypeOK, DownIsClear, FileKnown, BatchGone, BornCounts,
                    [Next]_vars
             PROVE  BornCounts'
  OBVIOUS
<1>num. /\ nextId \in Nat /\ born \in Nat
        /\ \A j \in Jobs : j.id \in Nat /\ j.n \in Nat
  BY CronAssumption DEF TypeOK, Jobs
<1>old. /\ nextId <= born + 1
        /\ \A j \in jobs \cup file : j.id <= j.n
        /\ \A j \in Jobs : Known(j) => j.n <= born
  BY DEF BornCounts, Known
<1>goal. ASSUME nextId' <= born' + 1,
                \A j \in jobs' \cup file' : j.id <= j.n,
                \A j \in Jobs : Known(j)' => j.n <= born'
         PROVE  BornCounts'
  BY <1>goal DEF BornCounts, Known
\* A change of the store shows no job that was not known before.
<1>file. ASSUME NEW js, NEW d, NEW who, ~writing, Change(js, d, who)
         PROVE  jobs' = js /\ file' \subseteq file /\ kept' \subseteq kept \cup file
  BY <1>file, ChangeFacts DEF fileVars
<1>same. ASSUME UNCHANGED <<nextId, born>>, jobs' \cup file' \subseteq jobs \cup file,
                \A j \in Jobs : Known(j)' => Known(j)
         PROVE  BornCounts'
  BY <1>same, <1>old, <1>goal
<1>1. ASSUME NEW recurring \in BOOLEAN, NEW durable \in BOOLEAN,
             Create(recurring, durable)
      PROVE  BornCounts'
  <2> DEFINE j == [n |-> born + 1, id |-> NextId,
                   recurring |-> recurring, durable |-> durable]
  <2>1. /\ Change(jobs \cup {j}, durable, "tool") /\ ~writing
        /\ nextId' = nextId + 1 /\ born' = born + 1
        /\ UNCHANGED <<ran, late, queue, batch, waiting>>
    BY <1>1 DEF Create, FileKnown, replVars
  <2>2. j.id = nextId /\ j.n = born + 1
    BY DEF NextId
  <2>3. /\ jobs' = jobs \cup {j} /\ file' \subseteq file
        /\ kept' \subseteq kept \cup file
    BY <2>1, <1>file
  <2> HIDE DEF j
  <2>4. \A k \in Jobs : Known(k)' => Known(k) \/ k = j
    BY <2>1, <2>3 DEF Known
  <2> QED
    BY <2>1, <2>2, <2>3, <2>4, <1>num, <1>old, <1>goal
<1>2. ASSUME NEW j \in jobs, Delete(j) PROVE BornCounts'
  <2>1. /\ jobs' = jobs \ {j} /\ file' \subseteq file /\ kept' \subseteq kept \cup file
        /\ UNCHANGED <<nextId, born, ran, queue, batch, waiting>>
        /\ late' \subseteq late \cup {j}
    BY <1>2, <1>file DEF Delete, Cancel, FileKnown, replVars
  <2> QED
    BY <2>1, <1>same DEF Known
<1>3. ASSUME NEW ok \in BOOLEAN, WriteEnd(ok) PROVE BornCounts'
  BY <1>3, <1>same DEF WriteEnd, Known, Durable, replVars
<1>4. ASSUME NEW j \in jobs \cup late, Push(j), late' \subseteq late
      PROVE  BornCounts'
  <2>1. /\ j \in Jobs
        /\ UNCHANGED <<jobs, nextId, file, kept, born, ran, batch, waiting>>
    BY <1>4 DEF Push, storeVars, fileVars, replVars, TypeOK
  <2>2. \A f : In(f, queue') <=> In(f, queue) \/ f = j
    BY <1>4, <2>1, InAppend DEF Push, TypeOK
  <2> QED
    BY <1>4, <2>1, <2>2, <1>same DEF Known
<1>5. CASE Drain
  BY <1>5, <1>same, InEmpty DEF Drain, Known, storeVars, fileVars
<1>6. CASE Consume
  <2> DEFINE gone == Consumed(batch[at])
  <2>1. /\ jobs' = jobs \ gone /\ file' \subseteq file /\ kept' \subseteq kept \cup file
        /\ UNCHANGED <<nextId, born, ran, queue, batch, waiting>>
        /\ gone \subseteq jobs /\ late' \subseteq late \cup gone
    BY <1>6, <1>file DEF Consume, Consumed
  <2> HIDE DEF gone
  <2> QED
    BY <2>1, <1>same DEF Known
<1>7. CASE Inject
  <2>1. batch # <<>>
    BY <1>7 DEF Inject, BatchGone
  <2>2. In(Head(batch), batch) /\ \A f : In(f, Tail(batch)) => In(f, batch)
    BY <2>1, InTail DEF TypeOK
  <2> QED
    BY <1>7, <2>2, InEmpty, <1>same DEF Inject, Known, fileVars
<1>8. CASE Return
  <2>1. waiting # <<>> => /\ In(Head(waiting), waiting)
                          /\ \A f : In(f, Tail(waiting)) => In(f, waiting)
    BY InTail DEF TypeOK
  <2> QED
    <3>1. \A j \in Jobs : Known(j)' => Known(j)
      <4>1. CASE waiting = <<>>
        BY <1>8, <4>1 DEF Return, Known, storeVars, fileVars
      <4>2. CASE waiting # <<>>
        <5>1. /\ waiting' = Tail(waiting) /\ ran' = ran \cup {Head(waiting)}
              /\ UNCHANGED <<jobs, file, kept, late, queue, batch>>
          BY <1>8, <4>2 DEF Return, storeVars, fileVars
        <5>2. \A j : In(j, waiting') => In(j, waiting)
          BY <2>1, <4>2, <5>1
        <5>3. \A j \in ran' : j \in ran \/ In(j, waiting)
          BY <2>1, <4>2, <5>1
        <5> QED
          BY <5>1, <5>2, <5>3 DEF Known
      <4> QED
        BY <4>1, <4>2
    <3> QED
      BY <1>8, <3>1, <1>same DEF Return, storeVars, fileVars
<1>9. CASE Submit \/ DropWaiting
  BY <1>9, InEmpty, <1>same DEF Submit, DropWaiting, Known, storeVars, fileVars
<1>10. CASE Start
  <2>1. nextId' <= born + 1
    BY <1>10, <1>num, <1>old DEF Start, Known, TypeOK, Durable
  <2>2. \A j \in Jobs : Known(j)' => Known(j)
    BY <1>10 DEF Start, Known, fileVars, replVars
  <2> QED
    BY <1>10, <2>1, <2>2, <1>old, <1>goal DEF Start, fileVars
<1>11. CASE Stop
  <2>1. \A j \in Jobs : Known(j)' => Known(j)
    BY <1>11, InEmpty DEF Stop, Down, Known
  <2> QED
    BY <1>11, <2>1, <1>num, <1>old, <1>goal DEF Stop, Down
<1>12. CASE UNCHANGED vars
  BY <1>12, <1>same DEF vars, storeVars, fileVars, replVars, Known
<1> QED
  BY <1>1, <1>2, <1>3, <1>4, <1>5, <1>6, <1>7, <1>8, <1>9, <1>10, <1>11, <1>12
     DEF Next, Tools, Fires, Loop, Fire, LateFire

LEMMA FiresStep ==
  TypeOK /\ DownIsClear /\ FileKnown /\ IdsDiffer /\ FiresTellJobs /\ [Next]_vars
    => FiresTellJobs'
<1> SUFFICES ASSUME TypeOK, DownIsClear, FileKnown, IdsDiffer, FiresTellJobs,
                    [Next]_vars
             PROVE  FiresTellJobs'
  OBVIOUS
<1> DEFINE Fired(f) == f \in late \/ In(f, queue) \/ In(f, batch)
           Tells(f) == f.id < nextId /\ \A j \in jobs : j.id = f.id => j = f
<1>num. nextId \in Nat /\ \A j \in Jobs : j.id \in Nat
  BY CronAssumption DEF TypeOK, Jobs
<1>old. /\ \A f \in Jobs : Fired(f) => Tells(f)
        /\ \A f \in jobs : Tells(f)
  BY DEF FiresTellJobs, IdsDiffer
\* No new id, no new job, and what fires is known.
<1>same. ASSUME UNCHANGED nextId, jobs' \subseteq jobs,
                \A f \in Jobs : Fired(f)' => Fired(f) \/ f \in jobs
         PROVE  FiresTellJobs'
  BY <1>same, <1>old DEF FiresTellJobs
<1>1. ASSUME NEW recurring \in BOOLEAN, NEW durable \in BOOLEAN,
             Create(recurring, durable)
      PROVE  FiresTellJobs'
  <2> DEFINE j == [n |-> born + 1, id |-> NextId,
                   recurring |-> recurring, durable |-> durable]
  <2>1. /\ jobs' = jobs \cup {j} /\ nextId' = nextId + 1
        /\ UNCHANGED <<late, queue, batch>>
    BY <1>1 DEF Create, Change, replVars
  <2>2. j.id = nextId
    BY DEF NextId
  <2> HIDE DEF j
  <2>3. \A f \in Jobs : Fired(f)' => Fired(f)
    BY <2>1
  <2> QED
    BY <2>1, <2>2, <2>3, <1>num, <1>old DEF FiresTellJobs
<1>2. ASSUME NEW j \in jobs, Delete(j) PROVE FiresTellJobs'
  <2>1. /\ jobs' \subseteq jobs /\ late' \subseteq late \cup {j}
        /\ UNCHANGED <<nextId, queue, batch>>
    BY <1>2 DEF Delete, Change, Cancel, replVars
  <2> QED
    BY <2>1, <1>same
<1>3. ASSUME NEW j \in jobs \cup late, Push(j), late' \subseteq late
      PROVE  FiresTellJobs'
  <2>1. j \in Jobs /\ UNCHANGED <<jobs, nextId, batch>>
    BY <1>3 DEF Push, storeVars, fileVars, replVars, TypeOK
  <2>2. \A f : In(f, queue') <=> In(f, queue) \/ f = j
    BY <1>3, <2>1, InAppend DEF Push, TypeOK
  <2> QED
    BY <1>3, <2>1, <2>2, <1>same
<1>4. CASE Drain
  BY <1>4, <1>same, InEmpty DEF Drain, storeVars
<1>5. CASE Consume
  <2> DEFINE gone == Consumed(batch[at])
  <2>1. /\ jobs' \subseteq jobs /\ gone \subseteq jobs /\ late' \subseteq late \cup gone
        /\ UNCHANGED <<nextId, queue, batch>>
    BY <1>5 DEF Consume, Change, Consumed
  <2> HIDE DEF gone
  <2> QED
    BY <2>1, <1>same
<1>6. CASE Inject
  BY <1>6, <1>same, InEmpty DEF Inject, storeVars
<1>7. CASE Start
  BY <1>7, InEmpty DEF Start, DownIsClear, FiresTellJobs, replVars
<1>8. CASE Stop
  BY <1>8, InEmpty DEF Stop, Down, FiresTellJobs
<1>9. CASE UNCHANGED <<jobs, nextId, late, queue, batch>>
  BY <1>9, <1>same
<1> QED
  BY <1>1, <1>2, <1>3, <1>4, <1>5, <1>6, <1>7, <1>8, <1>9
     DEF Next, Tools, Fires, Loop, Fire, LateFire, WriteEnd, Submit, Return,
         DropWaiting, vars, storeVars, fileVars, replVars

LEMMA DiskStep ==
  TypeOK /\ DownIsClear /\ FileKnown /\ DurableOnDisk /\ [Next]_vars => DurableOnDisk'
<1> SUFFICES ASSUME TypeOK, DownIsClear, FileKnown, DurableOnDisk, [Next]_vars
             PROVE  DurableOnDisk'
  OBVIOUS
<1>file. ASSUME NEW js, NEW d, NEW who, ~writing, up, Change(js, d, who),
                d \/ Durable(js) = Durable(jobs)
         PROVE  DurableOnDisk'
  BY <1>file, ChangeFacts DEF DurableOnDisk, fileVars, Durable
<1>1. ASSUME NEW recurring \in BOOLEAN, NEW durable \in BOOLEAN,
             Create(recurring, durable)
      PROVE  DurableOnDisk'
  <2> DEFINE j == [n |-> born + 1, id |-> NextId,
                   recurring |-> recurring, durable |-> durable]
  <2>1. /\ Change(jobs \cup {j}, durable, "tool") /\ ~writing /\ up
        /\ j.durable = durable
    BY <1>1 DEF Create, FileKnown
  <2> HIDE DEF j
  <2>2. durable \/ Durable(jobs \cup {j}) = Durable(jobs)
    BY <2>1 DEF Durable
  <2> QED
    BY <2>1, <2>2, <1>file
<1>2. ASSUME NEW j \in jobs, Delete(j) PROVE DurableOnDisk'
  BY <1>2, <1>file DEF Delete, FileKnown, Durable
<1>3. ASSUME NEW ok \in BOOLEAN, WriteEnd(ok) PROVE DurableOnDisk'
  BY <1>3 DEF WriteEnd, DurableOnDisk, Durable
<1>4. CASE Consume
  <2> DEFINE gone == Consumed(batch[at])
  <2>1. /\ Change(jobs \ gone, Durable(gone) # {}, "repl")
        /\ ~writing /\ up
    BY <1>4 DEF Consume, DownIsClear, TypeOK
  <2>2. Durable(gone) # {} \/ Durable(jobs \ gone) = Durable(jobs)
    BY DEF Durable
  <2> QED
    BY <2>1, <2>2, <1>file
<1>5. CASE Start
  BY <1>5 DEF Start, DurableOnDisk, Durable, TypeOK, fileVars
<1>6. CASE Stop
  BY <1>6 DEF Stop, DurableOnDisk
<1>7. CASE UNCHANGED <<jobs, fileVars, up>>
  BY <1>7 DEF DurableOnDisk, Durable, fileVars
<1> QED
  BY <1>1, <1>2, <1>3, <1>4, <1>5, <1>6, <1>7
     DEF Next, Tools, Fires, Loop, Fire, LateFire, Push, Submit, Drain, Inject,
         Return, DropWaiting, vars, storeVars, replVars

\* What is gone stays gone: no step but a creation adds a job, and that one is new.
LEMMA GoneKept ==
  ASSUME TypeOK, FileKnown, BornCounts, [Next]_vars,
         NEW j \in Jobs, j.n <= born, Gone(j)
  PROVE  Gone(j)'
<1>file. ASSUME NEW js, NEW d, NEW who, ~writing, Change(js, d, who),
                j \in js => j \in jobs
         PROVE  Gone(j)'
  <2>1. jobs' = js /\ file' \subseteq file /\ kept \subseteq kept'
    BY <1>file, ChangeFacts DEF fileVars
  <2> QED
    BY <1>file, <2>1 DEF Gone
<1>1. ASSUME NEW recurring \in BOOLEAN, NEW durable \in BOOLEAN,
             Create(recurring, durable)
      PROVE  Gone(j)'
  <2> DEFINE k == [n |-> born + 1, id |-> NextId,
                   recurring |-> recurring, durable |-> durable]
  <2>1. Change(jobs \cup {k}, durable, "tool") /\ ~writing
    BY <1>1 DEF Create, FileKnown
  <2>2. k.n = born + 1 /\ born \in Nat
    BY CronAssumption DEF TypeOK
  <2> HIDE DEF k
  <2>3. j \in jobs \cup {k} => j \in jobs
    BY <2>2
  <2> QED
    BY <2>1, <2>3, <1>file
<1>2. ASSUME NEW k \in jobs, Delete(k) PROVE Gone(j)'
  BY <1>2, <1>file DEF Delete, FileKnown
<1>3. ASSUME NEW ok \in BOOLEAN, WriteEnd(ok) PROVE Gone(j)'
  BY <1>3 DEF WriteEnd, Gone, Durable
<1>4. CASE Consume
  BY <1>4, <1>file DEF Consume
<1>5. CASE Start
  BY <1>5 DEF Start, Gone, fileVars
<1>6. CASE Stop
  BY <1>6 DEF Stop, Down, Gone
<1>7. CASE UNCHANGED <<jobs, file, kept>>
  BY <1>7 DEF Gone
<1> QED
  BY <1>1, <1>2, <1>3, <1>4, <1>5, <1>6, <1>7
     DEF Next, Tools, Fires, Loop, Fire, LateFire, Push, Submit, Drain, Inject,
         Return, DropWaiting, vars, storeVars, fileVars

LEMMA BatchStep ==
  /\ TypeOK /\ DownIsClear /\ FileKnown /\ BornCounts /\ BatchGone
  /\ [Next]_vars
  => BatchGone'
<1> SUFFICES ASSUME TypeOK, DownIsClear, FileKnown, BornCounts, BatchGone, [Next]_vars
             PROVE  BatchGone'
  OBVIOUS
<1>num. Len(batch) \in Nat /\ at \in Nat /\ at <= Len(batch) + 1
  BY DEF TypeOK
\* What the loop has gone through stays gone.
<1>old. ASSUME NEW i \in 1..(at - 1), NEW j, j = batch[i] PROVE Gone(j)'
  <2>1. i \in 1..Len(batch)
    BY <1>num
  <2>2. j \in Jobs /\ In(j, batch)
    BY <2>1, <1>old, InMember DEF TypeOK
  <2>3. j.n <= born
    BY <2>2 DEF BornCounts
  <2>4. Gone(j)
    BY <1>old DEF BatchGone
  <2> QED
    BY <2>2, <2>3, <2>4, GoneKept
<1>same. ASSUME UNCHANGED <<batch, at>>, turn' = "draining" => turn = "draining"
         PROVE  BatchGone'
  <2>1. ASSUME NEW i \in 1..(at - 1), NEW j, j = batch'[i] PROVE Gone(j)'
    BY <1>same, <2>1, <1>old
  <2> QED
    BY <1>same, <2>1 DEF BatchGone, Gone
<1>1. CASE Drain
  BY <1>1 DEF Drain, BatchGone
<1>2. CASE Consume
  <2> PICK f : f = batch[at]
    OBVIOUS
  <2> DEFINE gone == Consumed(f)
  <2>1. f \in Jobs
    BY <1>2, <1>num, InMember DEF Consume, TypeOK
  <2>2. /\ Change(jobs \ gone, Durable(gone) # {}, "repl")
        /\ ~writing /\ up /\ at' = at + 1 /\ UNCHANGED <<batch, turn>>
    BY <1>2 DEF Consume, DownIsClear, TypeOK
  <2>3. f \in jobs /\ ~f.recurring => f \in gone
    BY DEF Consumed
  <2> HIDE DEF gone
  <2>5. f \in file => f.durable /\ (f \in jobs \/ f \in kept)
    BY <2>2 DEF TypeOK, FileKnown, Durable
  <2>6. Gone(f)'
    <3> SUFFICES ASSUME ~f.recurring
                 PROVE  f \in kept' \/ (f \notin jobs' /\ f \notin file')
      BY DEF Gone
    <3>1. f \notin jobs'
      BY <2>2, <2>3 DEF Change
    <3>2. f \in file' => f \in kept'
      <4>1. CASE UNCHANGED fileVars /\ Durable(gone) = {}
        BY <4>1, <2>3, <2>5 DEF Durable, fileVars
      <4>2. CASE file' = {}
        BY <4>2
      <4>3. CASE kept' = kept \cup (file \ Durable(jobs \ gone)) /\ file' = file
        BY <4>3, <2>3, <2>5 DEF Durable
      <4> QED
        BY <2>2, <4>1, <4>2, <4>3, ChangeFacts
    <3> QED
      BY <3>1, <3>2
  <2>7. ASSUME NEW i \in 1..at, NEW j, j = batch'[i] PROVE Gone(j)'
    <3>1. CASE i = at
      BY <3>1, <2>2, <2>6, <2>7
    <3>2. CASE i # at
      BY <3>2, <2>2, <2>7, <1>num, <1>old
    <3> QED
      BY <3>1, <3>2
  <2>8. turn' = "draining" => batch' # <<>>
    BY <2>2 DEF BatchGone
  <2> QED
    BY <2>2, <2>7, <2>8, <1>num DEF BatchGone, Gone
<1>3. CASE Inject
  BY <1>3 DEF Inject, BatchGone
<1>4. CASE Stop
  BY <1>4 DEF Stop, Down, BatchGone
<1>5. CASE UNCHANGED <<turn, batch, at>>
  BY <1>5, <1>same
<1>6. CASE Submit \/ Return
  BY <1>6, <1>same DEF Submit, Return
<1> QED
  BY <1>1, <1>2, <1>3, <1>4, <1>5, <1>6
     DEF Next, Tools, Fires, Loop, Create, Delete, WriteEnd, Fire, LateFire, Push,
         DropWaiting, Start, vars, replVars

LEMMA OneShotStep ==
  TypeOK /\ FileKnown /\ BornCounts /\ BatchGone /\ OneShotGone /\ [Next]_vars
    => OneShotGone'
<1> SUFFICES ASSUME TypeOK, FileKnown, BornCounts, BatchGone, OneShotGone, [Next]_vars
             PROVE  OneShotGone'
  OBVIOUS
\* A prompt is given to a query, or made to wait, out of a batch gone through.
<1>goal. ASSUME NEW j \in Jobs, j \in ran \/ In(j, waiting)
                                \/ (In(j, batch) /\ at > Len(batch))
         PROVE  Gone(j)'
  <2>1. j.n <= born
    BY <1>goal DEF BornCounts
  <2>2. Gone(j)
    <3>1. CASE j \in ran \/ In(j, waiting)
      BY <3>1 DEF OneShotGone
    <3>2. CASE In(j, batch) /\ at > Len(batch)
      BY <3>2 DEF BatchGone, In, TypeOK
    <3> QED
      BY <1>goal, <3>1, <3>2
  <2> QED
    BY <2>1, <2>2, GoneKept
<1>same. ASSUME NEW j \in Jobs, j \in ran', ran' = ran
         PROVE  Gone(j)'
  BY <1>same, <1>goal
<1>1. CASE Inject
  <2>1. batch # <<>> /\ at > Len(batch)
    BY <1>1 DEF Inject, BatchGone
  <2>2. In(Head(batch), batch) /\ \A f : In(f, Tail(batch)) => In(f, batch)
    BY <2>1, InTail DEF TypeOK
  <2>3. \A j \in Jobs : j \in ran' \/ In(j, waiting') => j \in ran \/ In(j, batch)
    BY <1>1, <2>2 DEF Inject
  <2> QED
    BY <2>1, <2>3, <1>goal DEF OneShotGone, In, Gone
<1>2. CASE Return /\ waiting # <<>>
  <2>1. In(Head(waiting), waiting) /\ \A f : In(f, Tail(waiting)) => In(f, waiting)
    BY <1>2, InTail DEF TypeOK
  <2>2. \A j \in Jobs : j \in ran' \/ In(j, waiting') => j \in ran \/ In(j, waiting)
    BY <1>2, <2>1 DEF Return
  <2> QED
    BY <2>2, <1>goal DEF OneShotGone, In, Gone
<1>3. CASE ran' = ran /\ waiting' \in {waiting, <<>>}
  <2>1. \A j \in Jobs : j \in ran' \/ In(j, waiting') => j \in ran \/ In(j, waiting)
    BY <1>3, InEmpty
  <2> QED
    BY <2>1, <1>goal DEF OneShotGone, In, Gone
<1> QED
  BY <1>1, <1>2, <1>3
     DEF Next, Tools, Fires, Loop, Create, Delete, WriteEnd, Fire, LateFire, Push,
         Submit, Drain, Consume, Return, DropWaiting, Start, Stop, Down, vars, replVars

(* The numbering of the jobs, the file and the loop keep to one another in    *)
(* every reachable state: the ids of the store and of what has fired, the     *)
(* jobs of the file, and what is gone of a batch.                             *)
THEOREM CronInvHolds == Spec => []CronInv
<1>1. Init => CronInv
  BY InitInv
<1>2. CronInv /\ [Next]_vars => CronInv'
  <2> SUFFICES ASSUME CronInv, [Next]_vars PROVE CronInv'
    OBVIOUS
  <2> USE DEF CronInv
  <2>1. TypeOK'
    BY TypeStep
  <2>2. IdsDiffer' /\ BornCounts' /\ DownIsClear' /\ FileKnown'
    BY IdsStep, BornStep, DownStep, FileStep
  <2>3. BatchGone' /\ FiresTellJobs' /\ DurableOnDisk' /\ OneShotGone'
    BY BatchStep, FiresStep, DiskStep, OneShotStep
  <2> QED
    BY <2>1, <2>2, <2>3
<1> QED
  BY <1>1, <1>2, PTL DEF Spec

(* fire once then auto-delete: a one-shot job whose prompt has been given to  *)
(* a query is out of the store and of the file, however many jobs there are.  *)
THEOREM OneShotGoneHolds == Spec => []OneShotGone
<1>1. CronInv => OneShotGone
  BY DEF CronInv
<1> QED
  BY <1>1, CronInvHolds, PTL
=============================================================================
