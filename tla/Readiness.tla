------------------------------ MODULE Readiness ------------------------------
(***************************************************************************)
(* GET /ready: getReadiness and checkLightningNode of src/health.js.       *)
(* Concurrent calls share one probe of the LND node, if it was started     *)
(* under the same configuration and has not ended.                         *)
(*                                                                         *)
(* When a probe ends, the calls that await it come to their verdicts in    *)
(* one turn of the event loop: only microtasks run in between. External:   *)
(* LND, the radio, and the environment, which each call reads anew and may *)
(* find different.                                                         *)
(***************************************************************************)
CONSTANTS
    Asks,        \* calls of getReadiness
    Configs,     \* environments: LND's address, the tokens, the mode
    Mock,        \* those of mode "mock"
    Complete,    \* those that assertConfiguration accepts
    Guarded,     \* those whose two tokens are usable and distinct
    None         \* no call, no configuration

ASSUME ConfigAssumption == Mock \subseteq Complete /\ Complete \cup Guarded \subseteq Configs
ASSUME AskAssumption    == None \notin Asks \cup Configs

VARIABLES
    radio,      \* the Bluetooth adapter, as getStatus shows it
    probe,      \* the call that started the probe to share, or None
    probeKey,   \* the configuration of that probe
    state,      \* per call: the probe it started
    sighted,    \* per call: LND's answer to its probe says it is synchronised
    awaits,     \* per call: the call whose probe it awaits
    asked,      \* per call: the configuration it read
    before,     \* per call: whether the radio was ready when it began
    verdict,    \* per call: what it told
    latest      \* history: the call that started the last probe

askVars   == <<probe, probeKey, state, sighted, awaits, asked, before, verdict, latest>>
readyVars == <<radio, askVars>>

-----------------------------------------------------------------------------
ReadyInit ==
    /\ radio \in {"down", "simulated", "disabled"}
    /\ probe = None /\ probeKey = None
    /\ state = [c \in Asks |-> "none"]
    /\ sighted = [c \in Asks |-> FALSE]
    /\ awaits = [c \in Asks |-> None]
    /\ asked = [c \in Asks |-> None]
    /\ before = [c \in Asks |-> FALSE]
    /\ verdict = [c \in Asks |-> "none"]
    /\ latest = None

\* A simulated adapter does for simulated payments; a disabled one for all.
RadioServes(k) == radio \in {"ready", "disabled"} \/ (radio = "simulated" /\ k \in Mock)

\* Mutant: the status that was read before the probe.
RadioThen(c) == before[c]

\* The status is read again after the probe.
RadioNow(c) == RadioServes(asked'[c])

\* stored tells whether the database can be read.
Verdict(c, lndHealthy, stored) ==
    IF /\ asked'[c] \in Complete \cap Guarded
       /\ lndHealthy
       /\ stored
       /\ RadioNow(c)
    THEN "ready" ELSE "not_ready"

Tells(C, lndHealthy) ==
    \E stored \in BOOLEAN :
        verdict' = [c \in Asks |-> IF c \in C THEN Verdict(c, lndHealthy, stored) ELSE verdict[c]]

Arrives(c, k) ==
    /\ asked[c] = None
    /\ asked' = [asked EXCEPT ![c] = k]
    /\ before' = [before EXCEPT ![c] = RadioServes(k)]
    /\ UNCHANGED <<radio, sighted>>

\* assertConfiguration throws, or the mode is mock: no probe is made.
ToldAtOnce(c, k) ==
    /\ Arrives(c, k)
    /\ k \in Mock \cup (Configs \ Complete)
    /\ Tells({c}, k \in Mock)
    /\ UNCHANGED <<probe, probeKey, state, awaits, latest>>

Shares(k) == probe # None /\ probeKey = k

Joins(c, k) ==
    /\ Arrives(c, k)
    /\ k \in Complete \ Mock
    /\ Shares(k)
    /\ awaits' = [awaits EXCEPT ![c] = probe]
    /\ UNCHANGED <<probe, probeKey, state, verdict, latest>>

Probes(c, k) ==
    /\ Arrives(c, k)
    /\ k \in Complete \ Mock
    /\ ~ Shares(k)
    /\ probe' = c /\ probeKey' = k /\ latest' = c
    /\ state' = [state EXCEPT ![c] = "open"]
    /\ awaits' = [awaits EXCEPT ![c] = c]
    /\ UNCHANGED verdict

Waiting(d) == {c \in Asks : awaits[c] = d /\ verdict[c] = "none"}

\* Mutant: no probe is cleared.
ClearsNever(d) == d \notin Asks

\* The finally block clears the probe if it is still this one.
Clears(d) == probe = d

Ends(d, lndHealthy) ==
    /\ state' = [state EXCEPT ![d] = "ended"]
    /\ probe' = IF Clears(d) THEN None ELSE probe
    /\ probeKey' = IF Clears(d) THEN None ELSE probeKey
    /\ sighted' = [sighted EXCEPT ![d] = FALSE]
    /\ UNCHANGED <<radio, awaits, asked, before, latest>>
    /\ Tells(Waiting(d), lndHealthy)

\* LND answers; its answer is on the way.
LndAnswers(d) ==
    /\ state[d] = "open"
    /\ state' = [state EXCEPT ![d] = "answered"]
    /\ \E healthy \in BOOLEAN : sighted' = [sighted EXCEPT ![d] = healthy]
    /\ UNCHANGED <<radio, probe, probeKey, awaits, asked, before, verdict, latest>>

Hears(d) == state[d] = "answered" /\ Ends(d, sighted[d])

\* Mutant: the request has no deadline.
NoDeadline(d) == state[d] = "answered"

Deadline(d) == state[d] \in {"open", "answered"}

\* No answer in time, none at all, or one that is no node information.
HearsNothing(d) == Deadline(d) /\ Ends(d, FALSE)

Turn(c)      == \E k \in Configs : ToldAtOnce(c, k) \/ Joins(c, k) \/ Probes(c, k)
ProbeEnds(d) == Hears(d) \/ HearsNothing(d)

RadioTurns ==
    /\ radio \in {"ready", "down"}
    /\ radio' \in {"ready", "down"}
    /\ UNCHANGED askVars

-----------------------------------------------------------------------------
(* Properties *)

\* The probe that callers may join is the last that was started, for as long
\* as it runs and no longer: an older one that ends does not take it away.
SharedProbeRuns ==
    probe = IF latest # None /\ state[latest] \in {"open", "answered"} THEN latest ELSE None

\* A call is told of the LND of its own configuration.
AwaitsOwnNode == \A c \in Asks : awaits[c] # None => asked[awaits[c]] = asked[c]

\* A call is told ready only at a moment when the radio is, and of an LND that
\* was healthy when it answered the probe that ends just then.
ReadyIsTrue ==
    [][\A c \in Asks : (verdict'[c] = "ready" /\ verdict[c] = "none") =>
        /\ radio \notin {"down", "stopped"}
        /\ awaits[c] # None => /\ radio # "simulated"
                               /\ state[awaits[c]] = "answered" /\ sighted[awaits[c]]]_readyVars

\* Every call is told something, whatever LND does.
EveryAskEnds == \A c \in Asks : asked[c] # None ~> verdict[c] # "none"
=============================================================================
