------------------------------ MODULE McpServer ------------------------------
(***************************************************************************)
(* The tool calls of several agents to MCP servers, and the reconnection   *)
(* one of them makes when the connection is lost (McpTool::execute in      *)
(* crates/tools/src/builtin/mcp_tool.rs, McpManager in                     *)
(* crates/mcp/src/manager.rs, AutoReconnect in crates/mcp/src/health.rs).  *)
(*                                                                         *)
(* Two kinds of mutexes are taken: one around each client, held for the    *)
(* whole of a call, and one around the manager, held for the whole of a    *)
(* reconnection.  The adapters of a server are made when the session       *)
(* starts, and hold the client of that time for ever.  An agent makes one  *)
(* call at a time: an MCP tool is in no concurrent group.                  *)
(***************************************************************************)
EXTENDS Integers, FiniteSets

CONSTANTS
  Callers,      \* the agents of the session, which share the adapters
  Servers,      \* the servers connected when the session starts
  MaxAttempts,  \* ReconnectConfig::max_attempts
  MaxMade       \* bound on the connections made to a server

ASSUME McpAssumption ==
  /\ Callers # {} /\ Servers # {}
  /\ MaxAttempts \in Nat \ {0}
  /\ MaxMade \in Nat \ {0}

None == "none"
ASSUME NoneAssumption == None \notin Callers

VARIABLES
  pc,        \* where each caller is in McpTool::execute
  server,    \* the server it calls
  client,    \* the number of the client it works on
  executed,  \* the server has executed the attempt under way
  runs,      \* history: how often the server has executed the call
  open,      \* the connections, by server and number, that are alive
  made,      \* how many clients of each server there have been
  clients,   \* the number of the manager's client of each server, or 0
  attempt,   \* AutoReconnect::attempt of each server
  manager    \* who holds the mutex of the manager

callVars == <<pc, server, client, executed, runs>>
managerVars == <<made, clients, attempt, manager>>
vars == <<callVars, managerVars, open>>

Connections == Servers \X (1..MaxMade)

\* Where a caller holds the manager.
Reconnecting == {"backoff", "closing", "connecting"}
Places == {"idle", "asking", "first", "lost", "fresh", "retry"} \cup Reconnecting

TypeOK ==
  /\ pc \in [Callers -> Places]
  /\ server \in [Callers -> Servers]
  /\ client \in [Callers -> 1..MaxMade]
  /\ executed \in [Callers -> BOOLEAN]
  /\ runs \in [Callers -> 0..2]
  /\ open \subseteq Connections
  /\ made \in [Servers -> 1..MaxMade]
  /\ clients \in [Servers -> 0..MaxMade]
  /\ attempt \in [Servers -> 0..MaxAttempts]
  /\ manager \in Callers \cup {None}

\* What server and client are where there is no call.
AnyServer == CHOOSE s \in Servers : TRUE

Init ==
  /\ pc = [a \in Callers |-> "idle"]
  /\ server = [a \in Callers |-> AnyServer]
  /\ client = [a \in Callers |-> 1]
  /\ executed = [a \in Callers |-> FALSE]
  /\ runs = [a \in Callers |-> 0]
  /\ open = Servers \X {1}
  /\ made = [s \in Servers |-> 1]
  /\ clients = [s \in Servers |-> 1]
  /\ attempt = [s \in Servers |-> 0]
  /\ manager = None

Conn(a) == <<server[a], client[a]>>
Calling(a) == pc[a] \in {"first", "retry"}

HoldsThroughout(a) == \* mutation of Holds: the guard lives as long as the match
  (IF pc[a] \in {"idle", "asking"} THEN {} ELSE {<<server[a], 1>>})
    \cup (IF pc[a] = "retry" THEN {Conn(a)} ELSE {})

\* The client whose mutex a caller holds: for a call, and no longer.
Holds(a) == IF Calling(a) THEN {Conn(a)} ELSE {}

Free(c) == \A a \in Callers : c \notin Holds(a)

-----------------------------------------------------------------------------
(* A call                                                                  *)

Goto(a, p) == pc' = [pc EXCEPT ![a] = p]

\* The call returns to the agent, which forgets it.
Return(a) ==
  /\ Goto(a, "idle")
  /\ client' = [client EXCEPT ![a] = 1]
  /\ executed' = [executed EXCEPT ![a] = FALSE]
  /\ runs' = [runs EXCEPT ![a] = 0]
  /\ server' = [server EXCEPT ![a] = AnyServer]

\* An agent calls a tool of a server, through an adapter.
Ask(a, s) ==
  /\ pc[a] = "idle"
  /\ Goto(a, "asking")
  /\ server' = [server EXCEPT ![a] = s]
  /\ UNCHANGED <<client, executed, runs, managerVars, open>>

\* The first attempt has the client of the adapter, the second the fresh one.
Lock(a, from, to) ==
  /\ pc[a] = from
  /\ Free(Conn(a))
  /\ Goto(a, to)
  /\ UNCHANGED <<server, client, executed, runs, managerVars, open>>

Attempt(a) == Lock(a, "asking", "first")
Retry(a) == Lock(a, "fresh", "retry")

\* The server executes the call.
Execute(a) ==
  /\ Calling(a) /\ ~executed[a] /\ Conn(a) \in open
  /\ executed' = [executed EXCEPT ![a] = TRUE]
  /\ runs' = [runs EXCEPT ![a] = @ + 1]
  /\ UNCHANGED <<pc, server, client, managerVars, open>>

\* The server answers: with a result, or with an error that ends the call.
Answer(a) ==
  /\ Calling(a) /\ executed[a] /\ Conn(a) \in open
  /\ Return(a)
  /\ UNCHANGED <<managerVars, open>>

\* The call fails, in transit or because the server says so, with an error
\* the adapter does not take for a lost connection, or for the second time.
Fail(a) ==
  /\ Calling(a)
  /\ Return(a)
  /\ UNCHANGED <<managerVars, open>>

\* The first attempt fails with an error taken for a lost connection
\* (is_connection_error, which looks at words of the message).
Lost(a) ==
  /\ pc[a] = "first"
  /\ Goto(a, "lost")
  /\ executed' = [executed EXCEPT ![a] = FALSE]
  /\ UNCHANGED <<server, client, runs, managerVars, open>>

-----------------------------------------------------------------------------
(* The reconnection, which holds the manager                               *)

Exhausted(s) == attempt[s] >= MaxAttempts

\* connection_lost says no, for good.
GiveUp(a) ==
  /\ pc[a] = "lost" /\ manager = None
  /\ Exhausted(server[a])
  /\ Return(a)
  /\ UNCHANGED <<managerVars, open>>

\* connection_lost counts the attempt, and the caller sleeps.
Backoff(a) ==
  /\ pc[a] = "lost" /\ manager = None
  /\ ~Exhausted(server[a])
  /\ manager' = a
  /\ attempt' = [attempt EXCEPT ![server[a]] = @ + 1]
  /\ Goto(a, "backoff")
  /\ UNCHANGED <<server, client, executed, runs, made, clients, open>>

\* restart_server takes the client out of the manager, to close it.
Restart(a) ==
  /\ pc[a] = "backoff"
  /\ LET s == server[a]
     IN  /\ clients' = [clients EXCEPT ![s] = 0]
         /\ IF clients[s] = 0
            THEN Goto(a, "connecting") /\ UNCHANGED client
            ELSE /\ Goto(a, "closing")
                 /\ client' = [client EXCEPT ![a] = clients[s]]
  /\ UNCHANGED <<server, executed, runs, made, attempt, manager, open>>

StaysOpen(c) == open \* mutation of Closed
Closed(c) == open \ {c}

\* It waits for its calls to end first.
Close(a) ==
  /\ pc[a] = "closing"
  /\ Free(Conn(a))
  /\ open' = Closed(Conn(a))
  /\ Goto(a, "connecting")
  /\ UNCHANGED <<server, client, executed, runs, managerVars>>

\* connect_server makes a client, which the caller takes for its second attempt.
Connect(a) ==
  /\ pc[a] = "connecting"
  /\ LET s == server[a]
         k == made[s] + 1
     IN  /\ k <= MaxMade
         /\ made' = [made EXCEPT ![s] = k]
         /\ clients' = [clients EXCEPT ![s] = k]
         /\ open' = open \cup {<<s, k>>}
         /\ client' = [client EXCEPT ![a] = k]
         /\ attempt' = [attempt EXCEPT ![s] = 0]
  /\ manager' = None
  /\ Goto(a, "fresh")
  /\ UNCHANGED <<server, executed, runs>>

\* It fails: the manager has no client, but still counts the attempts.
ConnectFails(a) ==
  /\ pc[a] = "connecting"
  /\ manager' = None
  /\ Return(a)
  /\ UNCHANGED <<made, clients, attempt, open>>

-----------------------------------------------------------------------------

\* A connection is lost: a server ends, or the transport fails.
Drop(c) ==
  /\ c \in open
  /\ open' = open \ {c}
  /\ UNCHANGED <<callVars, managerVars>>

\* What the code and the servers go on with once an agent has made a call.
Step(a) == \/ Execute(a) \/ Answer(a) \/ Fail(a) \/ Lost(a)
           \/ Restart(a) \/ Connect(a) \/ ConnectFails(a)
\* The mutexes, which tokio gives out in the order they are asked for.
Acquire(a) == Attempt(a) \/ Retry(a) \/ GiveUp(a) \/ Backoff(a) \/ Close(a)

Next == \/ \E a \in Callers, s \in Servers : Ask(a, s)
        \/ \E a \in Callers : Step(a) \/ Acquire(a)
        \/ \E c \in open : Drop(c)

Spec == /\ Init /\ [][Next]_vars
        /\ \A a \in Callers : WF_vars(Step(a)) /\ SF_vars(Acquire(a))

-----------------------------------------------------------------------------
(* Properties                                                              *)

(* The connections of a server that are alive are the manager's own and the   *)
(* one a restart is about to close, which waits for a call: no client is left *)
(* behind open, whoever reconnects and however often.                         *)
NoneLeftOpen ==
  \A c \in open :
    \/ clients[c[1]] = c[2]
    \/ \E a \in Callers : pc[a] = "closing" /\ Conn(a) = c

\* Whoever reconnects holds the manager, and only it.
ManagerHeld ==
  \A a \in Callers : pc[a] \in Reconnecting <=> manager = a

\* No two callers are in a call on one client.
OneCallEach ==
  \A a, b \in Callers : Calling(a) /\ Calling(b) /\ Conn(a) = Conn(b) => a = b

(* A call goes out again on a client later than the adapter's, once. The      *)
(* server may then have executed it twice, which the comment of               *)
(* is_connection_error does not count: "the worst case is one extra reconnect *)
(* attempt".                                                                  *)
ReissuedLater ==
  \A a \in Callers :
    /\ pc[a] \in {"fresh", "retry"} => client[a] > 1
    /\ pc[a] \in {"idle", "asking"} => runs[a] = 0
    /\ pc[a] # "retry" \/ ~executed[a] => runs[a] <= 1

\* What every step of the callers keeps.
McpInv ==
  /\ TypeOK
  /\ ManagerHeld
  /\ OneCallEach
  /\ ReissuedLater
  /\ NoneLeftOpen

(* A call returns to its agent, if the servers answer or fail every call they *)
(* have: the mutexes of the clients and of the manager are never waited for   *)
(* in a circle, whichever callers reconnect whichever servers at once.        *)
EveryCallReturns == \A a \in Callers : pc[a] # "idle" ~> pc[a] = "idle"
=============================================================================
