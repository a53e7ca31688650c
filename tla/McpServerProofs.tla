--------------------------- MODULE McpServerProofs ---------------------------
(***************************************************************************)
(* The MCP calls and reconnections, for every number of agents, servers,   *)
(* attempts and connections: one call at a time on a client, one caller    *)
(* that reconnects, no connection left behind, a call executed at most     *)
(* twice and the second time on a later client.                            *)
(*                                                                         *)
(* McpInv is not inductive: Connect would leave a connection behind if the *)
(* manager had a client of the server again, and Execute would count an    *)
(* attempt twice if the first one started with what an earlier call left.  *)
(* Steady says that neither happens.                                       *)
(***************************************************************************)
EXTENDS McpServer, TLAPS

(* A caller that closes or connects took the client out of the manager,    *)
(* and an attempt that the server has not executed has not been counted.   *)
Steady ==
  \A a \in Callers :
    /\ pc[a] \in {"closing", "connecting"} => clients[server[a]] = 0
    /\ pc[a] \in {"idle", "asking"} => executed[a] = FALSE
    /\ pc[a] = "first" /\ executed[a] = FALSE => runs[a] = 0

StepInv == McpInv /\ Steady

LEMMA ExceptTyped ==
  ASSUME NEW S, NEW T, NEW f \in [S -> T], NEW s, NEW v \in T
  PROVE  [f EXCEPT ![s] = v] \in [S -> T]
  OBVIOUS

LEMMA AnyServerType == AnyServer \in Servers
BY McpAssumption DEF AnyServer

LEMMA Initially == Init => StepInv
<1> SUFFICES ASSUME Init PROVE StepInv
  OBVIOUS
<1>1. TypeOK
  BY McpAssumption, AnyServerType DEF Init, TypeOK, Places, Connections
<1>2. ManagerHeld /\ OneCallEach /\ ReissuedLater /\ NoneLeftOpen /\ Steady
  BY NoneAssumption DEF Init, ManagerHeld, Reconnecting, OneCallEach, Calling,
     ReissuedLater, NoneLeftOpen, Steady
<1> QED BY <1>1, <1>2 DEF StepInv, McpInv

-----------------------------------------------------------------------------
(* What a step of one caller has to show: the facts of the caller itself,  *)
(* and that it disturbs nobody else's.                                     *)

(* The facts of one caller, its place in the calls apart.                  *)
Sound(a) ==
  /\ pc[a] \in Places /\ server[a] \in Servers /\ client[a] \in 1..MaxMade
  /\ executed[a] \in BOOLEAN /\ runs[a] \in 0..2
  /\ pc[a] \in Reconnecting <=> manager = a
  /\ pc[a] \in {"fresh", "retry"} => client[a] > 1
  /\ pc[a] \in {"idle", "asking"} => runs[a] = 0
  /\ pc[a] # "retry" \/ executed[a] = FALSE => runs[a] <= 1
  /\ pc[a] \in {"closing", "connecting"} => clients[server[a]] = 0
  /\ pc[a] \in {"idle", "asking"} => executed[a] = FALSE
  /\ pc[a] = "first" /\ executed[a] = FALSE => runs[a] = 0

Functions ==
  /\ pc = [a \in Callers |-> pc[a]] /\ server = [a \in Callers |-> server[a]]
  /\ client = [a \in Callers |-> client[a]] /\ executed = [a \in Callers |-> executed[a]]
  /\ runs = [a \in Callers |-> runs[a]]

ManagerTyped ==
  /\ open \subseteq Connections
  /\ made \in [Servers -> 1..MaxMade]
  /\ clients \in [Servers -> 0..MaxMade]
  /\ attempt \in [Servers -> 0..MaxAttempts]
  /\ manager \in Callers \cup {None}

LEMMA Parts ==
  StepInv <=> /\ Functions /\ ManagerTyped /\ OneCallEach /\ NoneLeftOpen
              /\ \A a \in Callers : Sound(a)
<1>1. ASSUME StepInv
      PROVE  /\ Functions /\ ManagerTyped /\ OneCallEach /\ NoneLeftOpen
             /\ \A a \in Callers : Sound(a)
  BY <1>1 DEF StepInv, McpInv, Steady, TypeOK, ManagerHeld, ReissuedLater, Functions,
     ManagerTyped, Sound
<1>2. ASSUME Functions, ManagerTyped, OneCallEach, NoneLeftOpen, \A a \in Callers : Sound(a)
      PROVE  StepInv
  <2>1. TypeOK
    BY <1>2 DEF TypeOK, Functions, ManagerTyped, Sound
  <2> QED BY <1>2, <2>1 DEF StepInv, McpInv, Steady, ManagerHeld, ReissuedLater, Sound
<1> QED BY <1>1, <1>2

-----------------------------------------------------------------------------
(* The step of one caller: nothing changes for the others.                 *)

(* What a caller may do to the calls: change its own entries.               *)
OwnEntries(a) ==
  /\ pc' = [pc EXCEPT ![a] = pc'[a]] /\ server' = [server EXCEPT ![a] = server'[a]]
  /\ client' = [client EXCEPT ![a] = client'[a]]
  /\ executed' = [executed EXCEPT ![a] = executed'[a]]
  /\ runs' = [runs EXCEPT ![a] = runs'[a]]

(* What it may do to the manager: nothing to one that another caller holds, *)
(* and nothing to the clients another caller took out of it.                *)
OthersManager(a) ==
  \A b \in Callers \ {a} :
    /\ manager' = b <=> manager = b
    /\ pc[b] \in {"closing", "connecting"} => clients'[server[b]] = clients[server[b]]

(* A caller that gets into a call found the client free; one that was in a  *)
(* call stays on its client.                                                *)
EntersFree(a) ==
  Calling(a)' => \/ Calling(a) /\ Conn(a)' = Conn(a)
                 \/ Free(Conn(a)')

LEMMA OthersSound ==
  ASSUME StepInv, NEW a \in Callers, OwnEntries(a), OthersManager(a)
  PROVE  Functions' /\ \A b \in Callers \ {a} : Sound(b)'
<1>1. Functions /\ \A b \in Callers : Sound(b)
  BY Parts
<1>2. Functions'
  BY <1>1 DEF OwnEntries, Functions
<1>3. ASSUME NEW b \in Callers \ {a} PROVE Sound(b)'
  <2>1. /\ pc'[b] = pc[b] /\ server'[b] = server[b] /\ client'[b] = client[b]
        /\ executed'[b] = executed[b] /\ runs'[b] = runs[b]
    BY <1>1 DEF OwnEntries, Functions
  <2>2. Sound(b)
    BY <1>1
  <2>3. /\ manager' = b <=> manager = b
        /\ pc[b] \in {"closing", "connecting"} => clients'[server[b]] = clients[server[b]]
    BY DEF OthersManager
  <2> QED BY <2>1, <2>2, <2>3 DEF Sound
<1> QED BY <1>2, <1>3

LEMMA CallsApart ==
  ASSUME StepInv, NEW a \in Callers, OwnEntries(a), EntersFree(a)
  PROVE  OneCallEach'
<1>1. Functions /\ OneCallEach
  BY Parts
<1>2. \A b \in Callers \ {a} : (Calling(b)' <=> Calling(b)) /\ Conn(b)' = Conn(b)
  BY <1>1 DEF OwnEntries, Functions, Calling, Conn
<1>3. ASSUME NEW b \in Callers \ {a}, Calling(a)', Calling(b)', Conn(a)' = Conn(b)'
      PROVE  FALSE
  <2>1. Calling(b) /\ Conn(b) = Conn(a)'
    BY <1>2, <1>3
  <2>2. CASE Calling(a) /\ Conn(a)' = Conn(a)
    BY <1>1, <2>1, <2>2 DEF OneCallEach
  <2>3. CASE Free(Conn(a)')
    BY <2>1, <2>3 DEF Free, Holds
  <2> QED BY <1>3, <2>2, <2>3 DEF EntersFree
<1>4. ASSUME NEW b \in Callers, NEW c \in Callers,
             Calling(b)', Calling(c)', Conn(b)' = Conn(c)'
      PROVE  b = c
  <2>1. CASE b = a
    BY <1>3, <1>4, <2>1
  <2>2. CASE c = a
    BY <1>3, <1>4, <2>2
  <2>3. CASE b # a /\ c # a
    BY <1>1, <1>2, <1>4, <2>3 DEF OneCallEach
  <2> QED BY <2>1, <2>2, <2>3
<1> QED BY <1>4 DEF OneCallEach

(* The connections stay what they are for everybody when the clients do and *)
(* the caller was not closing one.                                          *)
LEMMA NothingLeft ==
  ASSUME StepInv, NEW a \in Callers, OwnEntries(a),
         open' \subseteq open, clients' = clients, pc[a] # "closing"
  PROVE  NoneLeftOpen'
<1>1. Functions /\ NoneLeftOpen
  BY Parts
<1>2. \A b \in Callers \ {a} : pc'[b] = pc[b] /\ Conn(b)' = Conn(b)
  BY <1>1 DEF OwnEntries, Functions, Conn
<1> QED BY <1>1, <1>2 DEF NoneLeftOpen

(* So the step of a caller is looked at where it is its own.                *)
LEMMA Together ==
  ASSUME StepInv, NEW a \in Callers, OwnEntries(a), OthersManager(a), EntersFree(a),
         Sound(a)', ManagerTyped', NoneLeftOpen'
  PROVE  StepInv'
<1>1. Functions' /\ \A b \in Callers \ {a} : Sound(b)'
  BY OthersSound
<1>2. OneCallEach'
  BY CallsApart
<1>3. \A b \in Callers : Sound(b)'
  BY <1>1
<1>4. TypeOK'
  BY <1>1, <1>3 DEF TypeOK, Functions, ManagerTyped, Sound
<1>5. ManagerHeld' /\ ReissuedLater' /\ Steady'
  BY <1>3 DEF ManagerHeld, ReissuedLater, Steady, Sound
<1> QED BY <1>2, <1>4, <1>5 DEF StepInv, McpInv

(* Where the manager is left alone, its part is done.                       *)
LEMMA ManagerAlone ==
  ASSUME StepInv, NEW a \in Callers, OwnEntries(a), open' \subseteq open,
         UNCHANGED managerVars, pc[a] # "closing"
  PROVE  OthersManager(a) /\ ManagerTyped' /\ NoneLeftOpen'
<1>1. OthersManager(a)
  BY DEF OthersManager, managerVars
<1>2. ManagerTyped'
  BY Parts DEF ManagerTyped, managerVars, Connections
<1>3. NoneLeftOpen'
  BY NothingLeft DEF managerVars
<1> QED BY <1>1, <1>2, <1>3

-----------------------------------------------------------------------------
(* A call                                                                  *)

LEMMA AskKeeps ==
  ASSUME StepInv, NEW a \in Callers, NEW s \in Servers, Ask(a, s)
  PROVE  StepInv'
<1>1. Functions /\ Sound(a)
  BY Parts
<1>2. OwnEntries(a)
  BY <1>1 DEF Ask, Goto, OwnEntries, Functions
<1>3. EntersFree(a)
  BY <1>1 DEF Ask, Goto, EntersFree, Calling, Functions
<1>4. Sound(a)'
  BY <1>1 DEF Ask, Goto, Sound, Functions, Places, Reconnecting, managerVars
<1> QED BY <1>2, <1>3, <1>4, ManagerAlone, Together DEF Ask

LEMMA LockKeeps ==
  ASSUME StepInv, NEW a \in Callers, Attempt(a) \/ Retry(a)
  PROVE  StepInv'
<1>1. Functions /\ Sound(a)
  BY Parts
<1>2. OwnEntries(a) /\ pc[a] # "closing" /\ UNCHANGED <<open, managerVars>>
  BY <1>1 DEF Attempt, Retry, Lock, Goto, OwnEntries, Functions
<1>3. EntersFree(a)
  BY <1>1 DEF Attempt, Retry, Lock, Goto, EntersFree, Calling, Conn, Functions
<1>4. Sound(a)'
  BY <1>1 DEF Attempt, Retry, Lock, Goto, Sound, Functions, Places, Reconnecting,
     managerVars
<1> QED BY <1>2, <1>3, <1>4, ManagerAlone, Together

LEMMA ExecuteKeeps ==
  ASSUME StepInv, NEW a \in Callers, Execute(a)
  PROVE  StepInv'
<1>1. Functions /\ Sound(a)
  BY Parts
<1>2. OwnEntries(a) /\ pc[a] # "closing" /\ UNCHANGED <<open, managerVars>>
  BY <1>1 DEF Execute, OwnEntries, Functions, Calling
<1>3. EntersFree(a)
  BY <1>1 DEF Execute, EntersFree, Calling, Conn, Functions
<1>4. Sound(a)'
  BY <1>1 DEF Execute, Calling, Sound, Functions, Places, Reconnecting, managerVars
<1> QED BY <1>2, <1>3, <1>4, ManagerAlone, Together

(* A call that returns leaves nothing behind, wherever it was.              *)
LEMMA ReturnSound ==
  ASSUME StepInv, NEW a \in Callers, Return(a)
  PROVE  OwnEntries(a) /\ EntersFree(a) /\ (manager' # a => Sound(a)')
<1>1. Functions /\ Sound(a) /\ 1 \in 1..MaxMade
  BY Parts, McpAssumption
<1>2. OwnEntries(a) /\ EntersFree(a)
  BY <1>1 DEF Return, Goto, OwnEntries, EntersFree, Calling, Functions
<1>3. ASSUME manager' # a PROVE Sound(a)'
  BY <1>1, <1>3, AnyServerType DEF Return, Goto, Sound, Functions, Places, Reconnecting
<1> QED BY <1>2, <1>3

LEMMA EndKeeps ==
  ASSUME StepInv, NEW a \in Callers, Answer(a) \/ Fail(a) \/ GiveUp(a)
  PROVE  StepInv'
<1>1. Functions /\ Sound(a)
  BY Parts
<1>2. Return(a) /\ UNCHANGED <<open, managerVars>> /\ pc[a] \notin Reconnecting
  BY DEF Answer, Fail, GiveUp, Calling, Reconnecting
<1>3. manager' # a /\ pc[a] # "closing"
  BY <1>1, <1>2 DEF Sound, managerVars, Reconnecting
<1> QED BY <1>2, <1>3, ReturnSound, ManagerAlone, Together

LEMMA LostKeeps ==
  ASSUME StepInv, NEW a \in Callers, Lost(a)
  PROVE  StepInv'
<1>1. Functions /\ Sound(a)
  BY Parts
<1>2. OwnEntries(a) /\ pc[a] # "closing" /\ UNCHANGED <<open, managerVars>>
  BY <1>1 DEF Lost, Goto, OwnEntries, Functions
<1>3. EntersFree(a)
  BY <1>1 DEF Lost, Goto, EntersFree, Calling, Functions
<1>4. runs'[a] <= 1
  BY <1>1 DEF Lost, Sound
<1>5. Sound(a)'
  BY <1>1, <1>4 DEF Lost, Goto, Sound, Functions, Places, Reconnecting, managerVars
<1> QED BY <1>2, <1>3, <1>5, ManagerAlone, Together

-----------------------------------------------------------------------------
(* The reconnection, which holds the manager                               *)

(* Whoever reconnects is the only one.                                      *)
LEMMA OneReconnects ==
  ASSUME StepInv, NEW a \in Callers, pc[a] \in Reconnecting
  PROVE  manager = a /\ \A b \in Callers \ {a} : pc[b] \notin Reconnecting
<1>1. \A b \in Callers : Sound(b)
  BY Parts
<1> QED BY <1>1 DEF Sound

LEMMA BackoffKeeps ==
  ASSUME StepInv, NEW a \in Callers, Backoff(a)
  PROVE  StepInv'
<1>1. Functions /\ Sound(a) /\ ManagerTyped /\ (\A b \in Callers : Sound(b))
  BY Parts
<1>2. OwnEntries(a) /\ pc[a] # "closing" /\ open' = open /\ clients' = clients
  BY <1>1 DEF Backoff, Goto, OwnEntries, Functions
<1>3. EntersFree(a)
  BY <1>1 DEF Backoff, Goto, EntersFree, Calling, Functions
<1>4. OthersManager(a)
  BY <1>1, NoneAssumption DEF Backoff, OthersManager
<1>5. ManagerTyped'
  <2>1. attempt[server[a]] \in 0..MaxAttempts /\ ~(attempt[server[a]] >= MaxAttempts)
    BY <1>1 DEF Backoff, Exhausted, Sound, ManagerTyped
  <2>2. attempt[server[a]] + 1 \in 0..MaxAttempts
    BY <2>1, McpAssumption
  <2>3. attempt' \in [Servers -> 0..MaxAttempts]
    BY <1>1, <2>2 DEF Backoff, ManagerTyped
  <2> QED BY <1>1, <2>3 DEF Backoff, ManagerTyped, Connections
<1>6. Sound(a)'
  BY <1>1 DEF Backoff, Goto, Sound, Functions, Places, Reconnecting
<1>7. NoneLeftOpen'
  BY <1>2, NothingLeft
<1> QED BY <1>2, <1>3, <1>4, <1>5, <1>6, <1>7, Together

LEMMA RestartKeeps ==
  ASSUME StepInv, NEW a \in Callers, Restart(a)
  PROVE  StepInv'
<1>1. Functions /\ Sound(a) /\ ManagerTyped /\ NoneLeftOpen
  BY Parts
<1>2. pc[a] = "backoff" /\ server[a] \in Servers
  BY <1>1 DEF Restart, Sound
<1>3. /\ manager = a
      /\ \A b \in Callers \ {a} : pc[b] \notin Reconnecting
  BY <1>2, OneReconnects DEF Reconnecting
<1>4. OwnEntries(a)
  BY <1>1 DEF Restart, Goto, OwnEntries, Functions
<1>5. EntersFree(a)
  BY <1>1 DEF Restart, Goto, EntersFree, Calling, Functions
<1>6. OthersManager(a)
  BY <1>3 DEF Restart, OthersManager, Reconnecting
<1>7. clients[server[a]] \in 0..MaxMade /\ clients' = [clients EXCEPT ![server[a]] = 0]
  BY <1>1, <1>2 DEF Restart, ManagerTyped
<1>8. ManagerTyped'
  <2>1. clients' \in [Servers -> 0..MaxMade]
    <3>1. clients \in [Servers -> 0..MaxMade] /\ 0 \in 0..MaxMade
      BY <1>1, McpAssumption DEF ManagerTyped
    <3> QED BY <1>7, <3>1, ExceptTyped
  <2> QED BY <1>1, <2>1 DEF Restart, ManagerTyped, Connections
<1>9. Sound(a)'
  <2>1. clients'[server[a]] = 0
    BY <1>1, <1>2, <1>7 DEF ManagerTyped
  <2> QED BY <1>1, <1>2, <1>3, <1>7, <2>1
          DEF Restart, Goto, Sound, Functions, Places, Reconnecting
<1>10. NoneLeftOpen'
  <2> SUFFICES ASSUME NEW c \in open
               PROVE  \/ clients'[c[1]] = c[2]
                      \/ \E b \in Callers : pc'[b] = "closing" /\ Conn(b)' = c
    BY DEF Restart, NoneLeftOpen
  <2>1. c[1] \in Servers /\ c[2] \in 1..MaxMade /\ c = <<c[1], c[2]>>
    BY <1>1 DEF ManagerTyped, Connections
  <2>2. clients[c[1]] = c[2]
    BY <1>1, <1>2, <1>3 DEF NoneLeftOpen, Reconnecting
  <2>3. CASE c[1] # server[a]
    BY <1>1, <1>7, <2>1, <2>2, <2>3 DEF ManagerTyped
  <2>4. CASE c[1] = server[a]
    <3>1. clients[server[a]] # 0
      BY <2>1, <2>2, <2>4
    <3>2. pc'[a] = "closing" /\ client'[a] = c[2] /\ server'[a] = c[1]
      BY <1>1, <2>2, <2>4, <3>1 DEF Restart, Goto, Functions
    <3> QED BY <2>1, <3>2 DEF Conn
  <2> QED BY <2>3, <2>4
<1> QED BY <1>4, <1>5, <1>6, <1>8, <1>9, <1>10, Together

LEMMA CloseKeeps ==
  ASSUME StepInv, NEW a \in Callers, Close(a)
  PROVE  StepInv'
<1>1. Functions /\ Sound(a) /\ ManagerTyped /\ NoneLeftOpen
  BY Parts
<1>2. pc[a] = "closing"
  BY DEF Close
<1>3. /\ manager = a
      /\ \A b \in Callers \ {a} : pc[b] \notin Reconnecting
  BY <1>2, OneReconnects DEF Reconnecting
<1>4. OwnEntries(a)
  BY <1>1 DEF Close, Goto, OwnEntries, Functions
<1>5. EntersFree(a)
  BY <1>1 DEF Close, Goto, EntersFree, Calling, Functions
<1>6. OthersManager(a)
  BY DEF Close, OthersManager, managerVars
<1>7. ManagerTyped'
  BY <1>1 DEF Close, Closed, ManagerTyped, managerVars, Connections
<1>8. Sound(a)'
  BY <1>1 DEF Close, Goto, Sound, Functions, Places, Reconnecting, managerVars
<1>9. NoneLeftOpen'
  <2>1. \A c \in open : clients[c[1]] = c[2] \/ c = Conn(a)
    BY <1>1, <1>3 DEF NoneLeftOpen, Reconnecting
  <2> QED BY <2>1 DEF Close, Closed, NoneLeftOpen, managerVars
<1> QED BY <1>4, <1>5, <1>6, <1>7, <1>8, <1>9, Together

LEMMA ConnectKeeps ==
  ASSUME StepInv, NEW a \in Callers, Connect(a)
  PROVE  StepInv'
<1>1. Functions /\ Sound(a) /\ ManagerTyped /\ NoneLeftOpen
  BY Parts
<1>2. pc[a] = "connecting" /\ server[a] \in Servers /\ clients[server[a]] = 0
  BY <1>1 DEF Connect, Sound
<1>3. /\ manager = a
      /\ \A b \in Callers \ {a} : pc[b] \notin Reconnecting
  BY <1>2, OneReconnects DEF Reconnecting
<1> DEFINE s == server[a]
           k == made[s] + 1
<1>4. made[s] \in 1..MaxMade /\ k <= MaxMade
  BY <1>1, <1>2 DEF Connect, ManagerTyped
<1>5. k \in 1..MaxMade /\ k > 1
  BY <1>4
<1>6. /\ made' = [made EXCEPT ![s] = k] /\ clients' = [clients EXCEPT ![s] = k]
      /\ open' = open \cup {<<s, k>>} /\ client' = [client EXCEPT ![a] = k]
      /\ attempt' = [attempt EXCEPT ![s] = 0]
      /\ manager' = None /\ pc' = [pc EXCEPT ![a] = "fresh"]
      /\ UNCHANGED <<server, executed, runs>>
  BY DEF Connect, Goto
<1> HIDE DEF k
<1>7. OwnEntries(a)
  BY <1>1, <1>6 DEF OwnEntries, Functions
<1>8. EntersFree(a)
  BY <1>1, <1>6 DEF EntersFree, Calling, Functions
<1>9. OthersManager(a)
  BY <1>3, <1>6, NoneAssumption DEF OthersManager, Reconnecting
<1>10. ManagerTyped'
  <2>1. made' \in [Servers -> 1..MaxMade] /\ clients' \in [Servers -> 0..MaxMade]
    <3>1. made \in [Servers -> 1..MaxMade] /\ clients \in [Servers -> 0..MaxMade]
      BY <1>1 DEF ManagerTyped
    <3>2. k \in 0..MaxMade
      BY <1>5
    <3> QED BY <1>5, <1>6, <3>1, <3>2, ExceptTyped
  <2>2. attempt' \in [Servers -> 0..MaxAttempts]
    <3>1. attempt \in [Servers -> 0..MaxAttempts] /\ 0 \in 0..MaxAttempts
      BY <1>1, McpAssumption DEF ManagerTyped
    <3> QED BY <1>6, <3>1, ExceptTyped
  <2>3. open' \subseteq Connections
    BY <1>1, <1>2, <1>5, <1>6 DEF ManagerTyped, Connections
  <2> QED BY <1>6, <2>1, <2>2, <2>3 DEF ManagerTyped, Connections
<1>11. Sound(a)'
  BY <1>1, <1>2, <1>5, <1>6, NoneAssumption
     DEF Sound, Functions, Places, Reconnecting
<1>12. NoneLeftOpen'
  <2> SUFFICES ASSUME NEW c \in open' PROVE clients'[c[1]] = c[2]
    BY DEF NoneLeftOpen
  <2>1. CASE c = <<s, k>>
    BY <1>1, <1>2, <1>6, <2>1 DEF ManagerTyped
  <2>2. CASE c \in open
    <3>1. c[1] \in Servers /\ c[2] \in 1..MaxMade
      BY <1>1, <2>2 DEF ManagerTyped, Connections
    <3>2. clients[c[1]] = c[2]
      BY <1>1, <1>2, <1>3, <2>2 DEF NoneLeftOpen, Reconnecting
    <3>3. c[1] # s
      BY <1>2, <3>1, <3>2
    <3> QED BY <1>1, <1>6, <3>1, <3>2, <3>3 DEF ManagerTyped
  <2> QED BY <1>6, <2>1, <2>2
<1> QED BY <1>7, <1>8, <1>9, <1>10, <1>11, <1>12, Together

LEMMA ConnectFailsKeeps ==
  ASSUME StepInv, NEW a \in Callers, ConnectFails(a)
  PROVE  StepInv'
<1>1. Functions /\ Sound(a) /\ ManagerTyped
  BY Parts
<1>2. /\ pc[a] = "connecting" /\ manager' = None /\ Return(a)
      /\ UNCHANGED <<made, clients, attempt, open>>
  BY DEF ConnectFails
<1>3. manager = a
  BY <1>2, OneReconnects DEF Reconnecting
<1>4. manager' # a
  BY <1>2, NoneAssumption
<1>5. OwnEntries(a) /\ EntersFree(a) /\ Sound(a)'
  BY <1>2, <1>4, ReturnSound
<1>6. OthersManager(a)
  BY <1>2, <1>3, NoneAssumption DEF OthersManager
<1>7. ManagerTyped'
  BY <1>1, <1>2 DEF ManagerTyped, Connections
<1>8. NoneLeftOpen'
  BY <1>2, <1>5, NothingLeft
<1> QED BY <1>5, <1>6, <1>7, <1>8, Together

-----------------------------------------------------------------------------

(* A connection that is lost takes nothing from anybody.                    *)
LEMMA DropKeeps ==
  ASSUME StepInv, NEW c \in open, Drop(c)
  PROVE  StepInv'
<1>1. UNCHANGED <<callVars, managerVars>> /\ open' \subseteq open
  BY DEF Drop
<1> QED BY <1>1 DEF StepInv, McpInv, Steady, TypeOK, ManagerHeld, OneCallEach, Calling, Conn,
        ReissuedLater, NoneLeftOpen, callVars, managerVars, Connections

LEMMA Preserved == StepInv /\ [Next]_vars => StepInv'
<1> SUFFICES ASSUME StepInv, [Next]_vars PROVE StepInv'
  OBVIOUS
<1>1. ASSUME NEW a \in Callers, NEW s \in Servers, Ask(a, s) PROVE StepInv'
  BY <1>1, AskKeeps
<1>2. ASSUME NEW a \in Callers, Step(a) PROVE StepInv'
  BY <1>2, ExecuteKeeps, EndKeeps, LostKeeps, RestartKeeps, ConnectKeeps,
     ConnectFailsKeeps DEF Step
<1>3. ASSUME NEW a \in Callers, Acquire(a) PROVE StepInv'
  BY <1>3, LockKeeps, EndKeeps, BackoffKeeps, CloseKeeps DEF Acquire
<1>4. ASSUME NEW c \in open, Drop(c) PROVE StepInv'
  BY <1>4, DropKeeps
<1>5. CASE UNCHANGED vars
  BY <1>5 DEF StepInv, McpInv, Steady, TypeOK, ManagerHeld, OneCallEach, Calling, Conn,
     ReissuedLater, NoneLeftOpen, vars, callVars, managerVars, Connections
<1> QED BY <1>1, <1>2, <1>3, <1>4, <1>5 DEF Next

(* Whichever agents call which servers, whichever of them reconnect, and   *)
(* wherever a connection is lost: a client has one call at a time, only    *)
(* the caller that holds the manager reconnects (McpManager in             *)
(* crates/mcp/src/manager.rs), no connection it opened stays behind        *)
(* without a client that stands for it, and a call goes out again at most  *)
(* once, on a client later than the adapter's (McpTool::execute in         *)
(* crates/tools/src/builtin/mcp_tool.rs).                                  *)
THEOREM McpInvHolds == Spec => []McpInv
<1>1. Init => StepInv
  BY Initially
<1>2. StepInv /\ [Next]_vars => StepInv'
  BY Preserved
<1>3. StepInv => McpInv
  BY DEF StepInv
<1> QED BY <1>1, <1>2, <1>3, PTL DEF Spec
=============================================================================
