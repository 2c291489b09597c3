------------------------------- MODULE Server -------------------------------
(***************************************************************************)
(* The HTTP server of src/app.js from start to exit: connections, calls of *)
(* GET /ready, operations that HTTP or Bluetooth requests run, and the     *)
(* shutdown that SIGINT and SIGTERM begin.                                 *)
(*                                                                         *)
(* Shutdown closes the connections, then the database. An operation whose  *)
(* connection was cut goes on, and getDatabase opens the database again.   *)
(* External: clients, which may leave a request half sent for ever.        *)
(***************************************************************************)
EXTENDS Readiness

CONSTANTS
    HttpJobs,    \* operations of POST /request
    RadioJobs    \* operations of Bluetooth requests

Jobs    == HttpJobs \cup RadioJobs
Clients == Asks \cup HttpJobs

VARIABLES
    phase,       \* of the process
    connection,  \* per HTTP request: the state of its connection
    job,         \* per operation: its record
    database     \* the connection of the process to SQLite

serverVars == <<phase, connection, job, database>>
allVars    == <<readyVars, serverVars>>

-----------------------------------------------------------------------------
ServerInit ==
    /\ ReadyInit
    /\ phase = "serving"
    /\ connection = [x \in Clients |-> "none"]
    /\ job = [j \in Jobs |-> "none"]
    /\ database = "open"

\* A client connects, and begins to send its request.
Connects(x) ==
    /\ phase = "serving"
    /\ connection[x] = "none"
    /\ connection' = [connection EXCEPT ![x] = "busy"]
    /\ UNCHANGED <<readyVars, phase, job, database>>

\* The client leaves, or an idle connection times out.
Leaves(x) ==
    /\ connection[x] \in {"busy", "idle"}
    /\ connection' = [connection EXCEPT ![x] = "closed"]
    /\ UNCHANGED <<readyVars, phase, job, database>>

\* The replies to the requests of X are sent, where there is somebody to hear.
Replied(X) ==
    connection' = [x \in Clients |-> IF x \in X /\ connection[x] = "busy" THEN "idle"
                                     ELSE connection[x]]

Told(c) == verdict'[c] # verdict[c]

\* getReadiness: a verdict reads the database.
Asking(c) ==
    /\ \/ connection[c] = "busy" /\ Turn(c)
       \/ ProbeEnds(c)
    /\ Replied({x \in Asks : Told(x)})
    /\ database' = IF \E x \in Asks : Told(x) THEN "open" ELSE database
    /\ UNCHANGED <<phase, job>>

LndStep(c) == LndAnswers(c) /\ UNCHANGED serverVars

\* The claim of an operation is recorded.
Starts(j) ==
    /\ job[j] = "none"
    /\ phase # "exited"
    /\ IF j \in HttpJobs THEN connection[j] = "busy" ELSE radio \in {"ready", "simulated"}
    /\ job' = [job EXCEPT ![j] = "pending"]
    /\ database' = "open"
    /\ UNCHANGED <<readyVars, phase, connection>>

\* Its result is recorded, and the client told.
Records(j) ==
    /\ job[j] = "pending"
    /\ job' = [job EXCEPT ![j] = "completed"]
    /\ database' = "open"
    /\ Replied({j})
    /\ UNCHANGED <<readyVars, phase>>

-----------------------------------------------------------------------------
(* Shutdown *)

Without(states) ==
    [x \in Clients |-> IF connection[x] \in states THEN "closed" ELSE connection[x]]

\* stopAdvertising and server.close: nobody can connect any more, and idle
\* connections close.
Stops ==
    /\ phase = "serving"
    /\ phase' = "stopping"
    /\ radio' = IF radio = "disabled" THEN radio ELSE "stopped"
    /\ connection' = Without({"none", "idle"})
    /\ UNCHANGED <<askVars, job, database>>

\* Mutant: only idle connections are cut.
CutIdle == Without({"idle"})

Cut == Without({"busy", "idle"})

\* closeAllConnections, after five seconds.
CutsConnections ==
    /\ phase = "stopping"
    /\ \E x \in Clients : connection[x] \in {"busy", "idle"}
    /\ connection' = Cut
    /\ UNCHANGED <<readyVars, phase, job, database>>

\* Mutant: the database is closed at once.
DrainedAtOnce == phase = "stopping"

Drained == \A x \in Clients : connection[x] = "closed"

\* The callback of server.close, once no connection is left.
Closes ==
    /\ phase = "stopping"
    /\ Drained
    /\ phase' = "closed"
    /\ database' = "closed"
    /\ UNCHANGED <<readyVars, connection, job>>

\* The process exits when nothing is left to do.
Exits ==
    /\ phase = "closed"
    /\ \A j \in Jobs : job[j] # "pending"
    /\ \A d \in Asks : state[d] \notin {"open", "answered"}
    /\ phase' = "exited"
    /\ UNCHANGED <<readyVars, connection, job, database>>

Shutdown == CutsConnections \/ Closes \/ Exits

ServerNext ==
    \/ \E x \in Clients : Connects(x) \/ Leaves(x)
    \/ \E c \in Asks : Asking(c) \/ LndStep(c)
    \/ \E j \in Jobs : Starts(j) \/ Records(j)
    \/ Stops
    \/ Shutdown
    \/ RadioTurns /\ UNCHANGED serverVars

ServerSpec == ServerInit /\ [][ServerNext]_allVars

\* Probes have deadlines, operations end (requests to LND have deadlines),
\* timers fire and callbacks run. Nothing binds clients, LND or the radio.
ServerFairSpec ==
    /\ ServerSpec
    /\ \A d \in Asks : WF_allVars(Asking(d) /\ ProbeEnds(d))
    /\ \A j \in Jobs : WF_allVars(Records(j))
    /\ WF_allVars(Shutdown)

-----------------------------------------------------------------------------
(* Properties *)

\* Once shutdown has begun nobody is told that the service is ready, whatever
\* probe they had been waiting for, unless Bluetooth is disabled.
NotReadyOnceStopping ==
    [][phase # "serving" /\ radio # "disabled" => \A c \in Asks : Told(c) => verdict'[c] = "not_ready"]_allVars

\* A process that is told to stop does, although clients keep connections open
\* and LND answers nothing.
ShutdownEnds == phase = "stopping" ~> phase = "exited"

\* Once shutdown has closed the database, it is opened again only for an
\* operation that nobody waits for: it came over the radio, or its connection
\* was cut or left. No reply that can still be heard follows the closing.
ReopenedForOrphansOnly ==
    [][phase = "closed" /\ database' # database =>
        /\ \A j \in HttpJobs : job'[j] # job[j] => connection[j] = "closed"
        /\ \A c \in Asks : Told(c) => connection[c] = "closed"]_allVars
=============================================================================
