----------------------------- MODULE ServerProofs -----------------------------
(***************************************************************************)
(* Theorems about Server, for any calls, operations and configurations.    *)
(* Shared says what the calls know of the probes they share; Down, what a  *)
(* shutdown leaves behind it.                                              *)
(***************************************************************************)
EXTENDS Server, TLAPS

TypeOK ==
    /\ radio \in {"ready", "down", "stopped", "simulated", "disabled"}
    /\ probe \in Asks \cup {None}
    /\ latest \in Asks \cup {None}
    /\ state \in [Asks -> {"none", "open", "answered", "ended"}]
    /\ sighted \in [Asks -> BOOLEAN]
    /\ awaits \in [Asks -> Asks \cup {None}]
    /\ asked \in [Asks -> Configs \cup {None}]
    /\ verdict \in [Asks -> {"none", "ready", "not_ready"}]
    /\ phase \in {"serving", "stopping", "closed", "exited"}
    /\ connection \in [Clients -> {"none", "busy", "idle", "closed"}]

Shared ==
    /\ \A c \in Asks : asked[c] = None =>
           state[c] = "none" /\ awaits[c] = None /\ latest # c
    /\ \A c \in Asks : awaits[c] # None =>
           asked[c] \in Complete \ Mock /\ asked[awaits[c]] # None
    /\ probe # None => asked[probe] = probeKey /\ probeKey # None

Down ==
    /\ phase # "serving" => radio \in {"stopped", "disabled"}
    /\ phase = "closed" => \A x \in Clients : connection[x] = "closed"

IInv == TypeOK /\ Shared /\ SharedProbeRuns /\ AwaitsOwnNode /\ Down

USE ConfigAssumption, AskAssumption

-----------------------------------------------------------------------------
LEMMA InitHolds == ServerInit => IInv
BY DEF ServerInit, ReadyInit, IInv, TypeOK, Shared, SharedProbeRuns, AwaitsOwnNode, Down

-----------------------------------------------------------------------------
(* Calls of GET /ready *)

Probing == SharedProbeRuns /\ AwaitsOwnNode /\ Shared

LEMMA VerdictType ==
    ASSUME NEW C, NEW h, Tells(C, h), TypeOK
    PROVE  verdict' \in [Asks -> {"none", "ready", "not_ready"}]
BY DEF Tells, Verdict, TypeOK

\* A call that comes finds a probe of its configuration, or starts the probe
\* that is the last one then.
LEMMA TurnHolds ==
    ASSUME IInv, NEW c \in Asks, NEW k \in Configs,
           ToldAtOnce(c, k) \/ Joins(c, k) \/ Probes(c, k)
    PROVE  Probing'
<1> USE DEF IInv, TypeOK, Probing, Arrives
<1>1. \A d \in Asks : asked'[d] = IF d = c THEN k ELSE asked[d]
  BY DEF ToldAtOnce, Joins, Probes
<1>2. asked[c] = None /\ awaits[c] = None /\ state[c] = "none" /\ latest # c /\ k # None
  BY DEF ToldAtOnce, Joins, Probes, Shared
<1>3. CASE ToldAtOnce(c, k)
  BY <1>1, <1>2, <1>3 DEF ToldAtOnce, SharedProbeRuns, AwaitsOwnNode, Shared
<1>4. CASE Joins(c, k)
  <2>1. \A d \in Asks : awaits'[d] = IF d = c THEN probe ELSE awaits[d]
    BY <1>4 DEF Joins
  <2>2. probe \in Asks /\ probe # c /\ asked[probe] = k
    BY <1>2, <1>4 DEF Joins, Shares, Shared
  <2> QED
    BY <1>1, <1>2, <1>4, <2>1, <2>2 DEF Joins, SharedProbeRuns, AwaitsOwnNode, Shared
<1>5. CASE Probes(c, k)
  <2>1. \A d \in Asks : /\ awaits'[d] = IF d = c THEN c ELSE awaits[d]
                        /\ state'[d] = IF d = c THEN "open" ELSE state[d]
    BY <1>5 DEF Probes
  <2>2. probe' = c /\ probeKey' = k /\ latest' = c
    BY <1>5 DEF Probes
  <2>3. SharedProbeRuns'
    BY <2>1, <2>2 DEF SharedProbeRuns
  <2>4. AwaitsOwnNode'
    BY <1>1, <1>2, <2>1 DEF AwaitsOwnNode, Shared
  <2>5. Shared'
    BY <1>1, <1>2, <1>5, <2>1, <2>2 DEF Shared, Probes
  <2> QED
    BY <2>3, <2>4, <2>5
<1> QED
  BY <1>3, <1>4, <1>5

\* A probe that ends is the last one, and is no longer shared, or another.
LEMMA EndHolds ==
    ASSUME IInv, NEW d \in Asks, NEW h, Ends(d, h), state[d] \in {"open", "answered"}
    PROVE  Probing'
<1> USE DEF IInv, TypeOK, Probing, Ends, Clears
<1>1. \A e \in Asks : state'[e] = IF e = d THEN "ended" ELSE state[e]
  OBVIOUS
<1>2. SharedProbeRuns'
  BY <1>1 DEF SharedProbeRuns
<1>3. AwaitsOwnNode'
  BY DEF AwaitsOwnNode
<1>4. Shared'
  BY <1>1 DEF Shared
<1> QED
  BY <1>2, <1>3, <1>4

LEMMA AskingHolds ==
    ASSUME IInv, NEW c \in Asks, Asking(c)
    PROVE  IInv'
<1>1. Probing'
  BY TurnHolds, EndHolds DEF Asking, Turn, ProbeEnds, Hears, HearsNothing, Deadline
<1>2. TypeOK'
  <2>1. verdict' \in [Asks -> {"none", "ready", "not_ready"}]
    BY VerdictType DEF Asking, Turn, ProbeEnds, ToldAtOnce, Joins, Probes, Hears, HearsNothing, Ends,
                       IInv, TypeOK
  <2>2. connection' \in [Clients -> {"none", "busy", "idle", "closed"}]
    BY DEF Asking, Replied, IInv, TypeOK
  <2>3. UNCHANGED <<radio, phase>>
    BY DEF Asking, Turn, ProbeEnds, ToldAtOnce, Joins, Probes, Arrives, Hears, HearsNothing, Ends
  <2>4. ASSUME NEW k \in Configs, ToldAtOnce(c, k) \/ Joins(c, k) \/ Probes(c, k)
        PROVE  TypeOK'
    BY <2>1, <2>2, <2>3, <2>4 DEF ToldAtOnce, Joins, Probes, Arrives, IInv, TypeOK
  <2>5. ASSUME NEW h, Ends(c, h) PROVE TypeOK'
    BY <2>1, <2>2, <2>3, <2>5 DEF Ends, IInv, TypeOK
  <2> QED
    BY <2>4, <2>5 DEF Asking, Turn, ProbeEnds, Hears, HearsNothing
<1>3. UNCHANGED <<radio, phase>>
  BY DEF Asking, Turn, ProbeEnds, ToldAtOnce, Joins, Probes, Arrives, Hears, HearsNothing, Ends
<1>4. \A x \in Clients : connection[x] = "closed" => connection'[x] = "closed"
  BY DEF Asking, Replied
<1>5. Down'
  BY <1>3, <1>4 DEF Down, IInv
<1> QED
  BY <1>1, <1>2, <1>5 DEF IInv, Probing

-----------------------------------------------------------------------------
(* The other steps *)

LEMMA LndHolds ==
    ASSUME IInv, NEW d \in Asks, LndStep(d)
    PROVE  IInv'
<1> USE DEF IInv, LndStep, LndAnswers, serverVars
<1>1. \A e \in Asks : state'[e] = IF e = d THEN "answered" ELSE state[e]
  BY DEF TypeOK
<1>2. TypeOK'
  BY DEF TypeOK
<1>3. Shared'
  BY <1>1 DEF Shared
<1>4. SharedProbeRuns'
  BY <1>1 DEF SharedProbeRuns, TypeOK
<1>5. AwaitsOwnNode' /\ Down'
  BY DEF AwaitsOwnNode, Down
<1> QED
  BY <1>2, <1>3, <1>4, <1>5

\* Steps that no call of GET /ready takes part in.
LEMMA ElsewhereHolds ==
    ASSUME IInv,
           \/ \E x \in Clients : Connects(x) \/ Leaves(x)
           \/ \E j \in Jobs : Starts(j) \/ Records(j)
           \/ Stops
           \/ Shutdown
           \/ RadioTurns /\ UNCHANGED serverVars
           \/ UNCHANGED allVars
    PROVE  IInv'
<1> DEFINE Outside ==
        /\ radio \in {"ready", "down", "stopped", "simulated", "disabled"}
        /\ phase \in {"serving", "stopping", "closed", "exited"}
        /\ connection \in [Clients -> {"none", "busy", "idle", "closed"}]
        /\ Down
<1>1. UNCHANGED askVars
  BY DEF Connects, Leaves, Starts, Records, Stops, Shutdown, CutsConnections, Closes, Exits,
         RadioTurns, readyVars, allVars
<1>2. Shared' /\ SharedProbeRuns' /\ AwaitsOwnNode'
  BY <1>1 DEF askVars, Shared, SharedProbeRuns, AwaitsOwnNode, IInv
<1>3. Outside
  BY DEF IInv, TypeOK
<1>4. ASSUME NEW x \in Clients, Connects(x) \/ Leaves(x) PROVE Outside'
  BY <1>3, <1>4 DEF Connects, Leaves, Down, readyVars
<1>5. ASSUME NEW j \in Jobs, Starts(j) \/ Records(j) PROVE Outside'
  BY <1>3, <1>5 DEF Starts, Records, Replied, Down, readyVars
<1>6. ASSUME Stops PROVE Outside'
  BY <1>3, <1>6 DEF Stops, Without, Down
<1>7. ASSUME Shutdown PROVE Outside'
  BY <1>3, <1>7 DEF Shutdown, CutsConnections, Closes, Exits, Cut, Without, Drained, Down, readyVars
<1>8. ASSUME RadioTurns /\ UNCHANGED serverVars PROVE Outside'
  BY <1>3, <1>8 DEF RadioTurns, serverVars, Down
<1>9. ASSUME UNCHANGED allVars PROVE Outside'
  BY <1>3, <1>9 DEF allVars, serverVars, Down, readyVars
<1>10. Outside'
  BY <1>4, <1>5, <1>6, <1>7, <1>8, <1>9
<1>11. TypeOK'
  BY <1>1, <1>10 DEF IInv, TypeOK, askVars
<1> QED
  BY <1>2, <1>10, <1>11 DEF IInv

LEMMA StepHolds == IInv /\ [ServerNext]_allVars => IInv'
<1> SUFFICES ASSUME IInv, [ServerNext]_allVars PROVE IInv'
  OBVIOUS
<1>1. CASE \E c \in Asks : Asking(c)
  BY <1>1, AskingHolds
<1>2. CASE \E c \in Asks : LndStep(c)
  BY <1>2, LndHolds
<1>3. ASSUME ~ \E c \in Asks : Asking(c) \/ LndStep(c) PROVE IInv'
  BY <1>3, ElsewhereHolds DEF ServerNext
<1> QED
  BY <1>1, <1>2, <1>3

LEMMA Holds == ServerSpec => []IInv
BY InitHolds, StepHolds, PTL DEF ServerSpec

-----------------------------------------------------------------------------
(* Theorems *)

\* The probe that callers may join is the last one, as long as it runs.
THEOREM ProbesAreShared == ServerSpec => []SharedProbeRuns
<1>1. IInv => SharedProbeRuns
  BY DEF IInv
<1> QED
  BY <1>1, Holds, PTL

\* No call is told of the LND of another configuration.
THEOREM OwnNodeIsAwaited == ServerSpec => []AwaitsOwnNode
<1>1. IInv => AwaitsOwnNode
  BY DEF IInv
<1> QED
  BY <1>1, Holds, PTL

\* Only calls of GET /ready and ends of probes tell anything.
LEMMA ToldWhen ==
    ASSUME [ServerNext]_allVars, NEW c \in Asks, Told(c)
    PROVE  \E d \in Asks : Asking(d)
BY DEF ServerNext, Told, Connects, Leaves, LndStep, LndAnswers, Starts, Records, Stops, Shutdown,
       CutsConnections, Closes, Exits, RadioTurns, askVars, readyVars, allVars

\* What a verdict "ready" says is so when it is told.
LEMMA ReadyWhen ==
    ASSUME IInv, NEW C, NEW h, Tells(C, h), NEW c \in Asks,
           verdict'[c] = "ready", verdict[c] # "ready"
    PROVE  c \in C /\ h /\ RadioServes(asked'[c])
BY DEF Tells, Verdict, RadioNow

\* A call is told ready only while the radio is, and of an LND that answered
\* its probe in time and was healthy.
THEOREM ReadyIsSo == ServerSpec => ReadyIsTrue
<1>1. IInv /\ [ServerNext]_allVars =>
        [\A c \in Asks : (verdict'[c] = "ready" /\ verdict[c] = "none") =>
            /\ radio \notin {"down", "stopped"}
            /\ awaits[c] # None => /\ radio # "simulated"
                                   /\ state[awaits[c]] = "answered" /\ sighted[awaits[c]]]_readyVars
  <2> SUFFICES ASSUME IInv, ServerNext, NEW c \in Asks, verdict'[c] = "ready", verdict[c] = "none"
               PROVE  /\ radio \notin {"down", "stopped"}
                      /\ awaits[c] # None => /\ radio # "simulated"
                                             /\ state[awaits[c]] = "answered" /\ sighted[awaits[c]]
    BY DEF allVars
  <2>1. PICK d \in Asks : Asking(d)
    BY ToldWhen DEF Told
  <2>2. ASSUME NEW k \in Configs, ToldAtOnce(d, k)
        PROVE  radio \notin {"down", "stopped"} /\ awaits[c] = None
    BY <2>2, ReadyWhen DEF ToldAtOnce, Arrives, RadioServes, IInv, Shared
  <2>3. ASSUME NEW h, Ends(d, h), h => state[d] = "answered" /\ sighted[d]
        PROVE  /\ radio \notin {"down", "stopped"}
               /\ awaits[c] # None => /\ radio # "simulated"
                                      /\ state[awaits[c]] = "answered" /\ sighted[awaits[c]]
    <3>1. c \in Waiting(d) /\ h /\ RadioServes(asked'[c])
      BY <2>3, ReadyWhen DEF Ends
    <3>2. awaits[c] = d /\ asked'[c] = asked[c] /\ asked[c] \notin Mock
      BY <2>3, <3>1 DEF Waiting, Ends, IInv, Shared
    <3> QED
      BY <2>3, <3>1, <3>2 DEF RadioServes
  <2>4. ~ \E k \in Configs : Joins(d, k) \/ Probes(d, k)
    BY DEF Joins, Probes
  <2> QED
    BY <2>1, <2>2, <2>3, <2>4 DEF Asking, Turn, ProbeEnds, Hears, HearsNothing
<1> QED
  BY <1>1, Holds, PTL DEF ServerSpec, ReadyIsTrue

\* Once shutdown has begun no call is told ready, unless Bluetooth is disabled.
THEOREM NeverReadyOnceStopping == ServerSpec => NotReadyOnceStopping
<1>1. IInv /\ [ServerNext]_allVars =>
        [phase # "serving" /\ radio # "disabled" =>
            \A c \in Asks : Told(c) => verdict'[c] = "not_ready"]_allVars
  <2> SUFFICES ASSUME IInv, ServerNext, phase # "serving", radio # "disabled",
                      NEW c \in Asks, Told(c)
               PROVE  verdict'[c] = "not_ready"
    OBVIOUS
  <2>1. radio = "stopped"
    BY DEF IInv, Down
  <2>2. PICK d \in Asks : Asking(d)
    BY ToldWhen
  <2>3. ASSUME NEW C, NEW h, Tells(C, h) PROVE verdict'[c] = "not_ready"
    BY <2>1, <2>3 DEF Tells, Verdict, RadioNow, RadioServes, Told
  <2>4. ~ \E k \in Configs : Joins(d, k) \/ Probes(d, k)
    BY <2>2, <2>3 DEF Told, Joins, Probes
  <2> QED
    BY <2>2, <2>3 DEF Asking, Turn, ProbeEnds, Hears, HearsNothing, Ends, ToldAtOnce, Joins, Probes, Told
<1> QED
  BY <1>1, Holds, PTL DEF ServerSpec, NotReadyOnceStopping

\* Once the database has been closed it is opened only for those whom no
\* connection waits for.
THEOREM OrphansOnly == ServerSpec => ReopenedForOrphansOnly
<1>1. IInv /\ [ServerNext]_allVars =>
        [phase = "closed" /\ database' # database =>
            /\ \A j \in HttpJobs : job'[j] # job[j] => connection[j] = "closed"
            /\ \A c \in Asks : Told(c) => connection[c] = "closed"]_allVars
  BY DEF IInv, Down, Clients
<1> QED
  BY <1>1, Holds, PTL DEF ServerSpec, ReopenedForOrphansOnly
=============================================================================
