-------------------------- MODULE WindowsBluetooth --------------------------
(***************************************************************************)
(* WindowsBluetoothServer of src/bluetooth-windows.js: the Node side of    *)
(* the native GATT helper. It reassembles the fragments of each peer,      *)
(* emits the requests it can decrypt, and sends each response to the       *)
(* session the request came from, if that session still exists.            *)
(*                                                                         *)
(* The helper, the peers and the request handler are external: fragments,  *)
(* disconnects, radio outages and responses come in any order.             *)
(***************************************************************************)
EXTENDS Naturals, FiniteSets

CONSTANTS
    Peers,        \* session ids: one per Bluetooth device
    Requests,     \* one for each request that may be emitted
    Messages,     \* envelopes that peers send in fragments
    Total,        \* how many fragments each message has
    Kind,         \* "request", "invalid" (decrypts, but is refused), "junk"
    MaxLength,    \* MAX_MESSAGE, in fragments
    MaxSessions,  \* 8
    MaxAttempts,  \* 30
    FrameTime,    \* 15 s: how long a message may take to arrive
    Window,       \* 60 s: the window of the attempts of a peer
    MaxTime,      \* bound on the clock
    None          \* no session, no request, no peer

ASSUME TotalAssumption == Total \in [Messages -> Nat \ {0}]
ASSUME KindAssumption  == Kind \in [Messages -> {"request", "invalid", "junk"}]
ASSUME MixedAssumption == "mixed" \notin Messages
ASSUME LimitAssumption == {MaxLength, MaxSessions, MaxAttempts, FrameTime, Window, MaxTime} \subseteq Nat
ASSUME NoneAssumption  == None \notin Peers \cup Requests

VARIABLES
    now,       \* Date.now()
    helper,    \* the state of the adapter
    sessions,  \* the session of each peer, or None
    request,   \* per request: whether its handler runs, and how it ended
    peer,      \* the peer each request came from
    orphans    \* history: requests whose session ended while they ran

vars == <<now, helper, sessions, request, peer, orphans>>

-----------------------------------------------------------------------------
(* Sessions *)

Times == 0 .. MaxTime + FrameTime + Window

\* source is the message of the fragments so far, "mixed" if they differ.
Session == [source : Messages \cup {"mixed"}, next : 1 .. MaxLength, total : Nat,
            expiresAt : Times, attempts : 1 .. MaxAttempts, windowEnd : Times,
            serving : Requests \cup {None}]

ASSUME SessionAssumption == None \notin Session

Present(p) == sessions[p] # None
Busy(p)    == Present(p) /\ sessions[p].serving # None

InWindow(p) == Present(p) /\ now < sessions[p].windowEnd
Attempts(p) == IF InWindow(p) THEN sessions[p].attempts + 1 ELSE 1

\* The first fragment of a message replaces the session of its peer.
Fresh(p, m) ==
    [source |-> m, next |-> 0, total |-> Total[m], expiresAt |-> now + FrameTime,
     attempts |-> Attempts(p),
     windowEnd |-> IF InWindow(p) THEN sessions[p].windowEnd ELSE now + Window,
     serving |-> None]

\* Once a message has been dealt with, its session lasts as long as its window.
Rested(s) == [s EXCEPT !.serving = None, !.expiresAt = s.windowEnd]

\* Mutant: there is room for one session more.
HasRoomForOneMore(p) ==
    Present(p) \/ Cardinality({q \in Peers : Present(q)}) <= MaxSessions

HasRoom(p) == Present(p) \/ Cardinality({q \in Peers : Present(q)}) < MaxSessions

Begins(p) == HasRoom(p) /\ Attempts(p) <= MaxAttempts

Continues(p, m, i) ==
    /\ Present(p)
    /\ now <= sessions[p].expiresAt
    /\ sessions[p].total = Total[m]
    /\ sessions[p].next = i

-----------------------------------------------------------------------------
Init ==
    /\ now = 0
    /\ helper = "starting"
    /\ sessions = [p \in Peers |-> None]
    /\ request = [r \in Requests |-> "new"]
    /\ peer = [r \in Requests |-> None]
    /\ orphans = {}

-----------------------------------------------------------------------------
(* acceptFrame *)

\* Fragment i of message m arrives from p and is not ignored.
Accepts(p, m, i) ==
    /\ helper = "advertising"
    /\ ~ Busy(p)
    /\ IF i = 0 THEN Begins(p) ELSE Continues(p, m, i)
    /\ UNCHANGED <<now, helper>>

Extended(p, m, i) ==
    LET s == IF i = 0 THEN Fresh(p, m) ELSE sessions[p] IN
    [s EXCEPT !.next = i + 1, !.source = IF @ = m THEN m ELSE "mixed"]

Becomes(p, s) == sessions' = [sessions EXCEPT ![p] = s]

TooLong(i)   == i + 1 > MaxLength
Last(m, i)   == i + 1 = Total[m] /\ ~ TooLong(i)
Decrypted(s) == IF s.source = "mixed" THEN "junk" ELSE Kind[s.source]

FrameTooLong(p, m, i) ==
    /\ Accepts(p, m, i)
    /\ TooLong(i)
    /\ Becomes(p, None)
    /\ UNCHANGED <<request, peer, orphans>>

FrameStored(p, m, i) ==
    /\ Accepts(p, m, i)
    /\ ~ TooLong(i) /\ ~ Last(m, i)
    /\ Becomes(p, Extended(p, m, i))
    /\ UNCHANGED <<request, peer, orphans>>

\* The message does not decrypt.
MessageIsJunk(p, m, i) ==
    /\ Accepts(p, m, i)
    /\ Last(m, i)
    /\ Decrypted(Extended(p, m, i)) = "junk"
    /\ Becomes(p, Rested(Extended(p, m, i)))
    /\ UNCHANGED <<request, peer, orphans>>

\* It decrypts, but is no request, or is not valid now.
MessageIsInvalid(p, m, i) ==
    /\ Accepts(p, m, i)
    /\ Last(m, i)
    /\ Decrypted(Extended(p, m, i)) = "invalid"
    /\ Becomes(p, Extended(p, m, i))
    /\ UNCHANGED <<request, peer, orphans>>

\* It is a request: the handler starts, and the session is busy.
RequestEmitted(p, m, i, r) ==
    /\ Accepts(p, m, i)
    /\ Last(m, i)
    /\ Decrypted(Extended(p, m, i)) = "request"
    /\ request[r] = "new"
    /\ request' = [request EXCEPT ![r] = "running"]
    /\ peer' = [peer EXCEPT ![r] = p]
    /\ Becomes(p, [Extended(p, m, i) EXCEPT !.serving = r])
    /\ UNCHANGED orphans

-----------------------------------------------------------------------------
(* The response callback *)

\* Mutant: any session of the peer will do.
SessionOfPeer(r) == Present(peer[r])

\* The session is still the one that emitted r: sessions.get(id) === session.
SameSession(r) == Present(peer[r]) /\ sessions[peer[r]].serving = r

ResponseSent(r) ==
    /\ request[r] = "running"
    /\ helper # "failed"
    /\ SameSession(r)
    /\ request' = [request EXCEPT ![r] = "sent"]
    /\ Becomes(peer[r], Rested(sessions[peer[r]]))
    /\ UNCHANGED <<now, helper, peer, orphans>>

ResponseDropped(r) ==
    /\ request[r] = "running"
    /\ ~ SameSession(r) \/ helper = "failed"
    /\ request' = [request EXCEPT ![r] = "dropped"]
    /\ UNCHANGED <<now, helper, sessions, peer, orphans>>

-----------------------------------------------------------------------------
(* Events of the helper, timers, failure *)

RunningFrom(P) == {r \in Requests : request[r] = "running" /\ peer[r] \in P}

Advertises ==
    /\ helper \in {"starting", "unavailable"}
    /\ helper' = "advertising"
    /\ UNCHANGED <<now, sessions, request, peer, orphans>>

\* Radio off, or advertising stopped: every session ends.
Unavailable ==
    /\ helper \in {"starting", "advertising"}
    /\ helper' = "unavailable"
    /\ sessions' = [p \in Peers |-> None]
    /\ orphans' = orphans \cup RunningFrom(Peers)
    /\ UNCHANGED <<now, request, peer>>

Disconnects(p) ==
    /\ helper # "failed"
    /\ Present(p)
    /\ Becomes(p, None)
    /\ orphans' = orphans \cup RunningFrom({p})
    /\ UNCHANGED <<now, helper, request, peer>>

\* The helper exits or errs, its output is invalid, it does not start in
\* time, or stopAdvertising is called. There is no way back.
Fails ==
    /\ helper # "failed"
    /\ helper' = "failed"
    /\ sessions' = [p \in Peers |-> None]
    /\ orphans' = orphans \cup RunningFrom(Peers)
    /\ UNCHANGED <<now, request, peer>>

\* Mutant: a busy session is swept like any other.
Stale(p) == Present(p) /\ now > sessions[p].expiresAt

Swept(p) == Present(p) /\ ~ Busy(p) /\ now > sessions[p].expiresAt

Sweep ==
    /\ helper # "failed"
    /\ \E p \in Peers : Swept(p)
    /\ sessions' = [p \in Peers |-> IF Swept(p) THEN None ELSE sessions[p]]
    /\ UNCHANGED <<now, helper, request, peer, orphans>>

Tick ==
    /\ now < MaxTime
    /\ now' = now + 1
    /\ UNCHANGED <<helper, sessions, request, peer, orphans>>

-----------------------------------------------------------------------------
Frame(p, m, i) ==
    \/ FrameTooLong(p, m, i)
    \/ FrameStored(p, m, i)
    \/ MessageIsJunk(p, m, i)
    \/ MessageIsInvalid(p, m, i)
    \/ \E r \in Requests : RequestEmitted(p, m, i, r)

Responds(r) == ResponseSent(r) \/ ResponseDropped(r)

Next ==
    \/ \E p \in Peers : \E m \in Messages : \E i \in 0 .. Total[m] - 1 : Frame(p, m, i)
    \/ \E p \in Peers : Disconnects(p)
    \/ \E r \in Requests : Responds(r)
    \/ Advertises
    \/ Unavailable
    \/ Fails
    \/ Sweep
    \/ Tick

Spec == Init /\ [][Next]_vars

-----------------------------------------------------------------------------
(* Properties *)

TypeOK ==
    /\ now \in 0 .. MaxTime
    /\ helper \in {"starting", "advertising", "unavailable", "failed"}
    /\ sessions \in [Peers -> Session \cup {None}]
    /\ request \in [Requests -> {"new", "running", "sent", "dropped"}]
    /\ peer \in [Requests -> Peers \cup {None}]
    /\ orphans \subseteq Requests

\* At most MaxSessions sessions are held, and none unless advertising.
SessionsBounded ==
    /\ Cardinality({p \in Peers : Present(p)}) <= MaxSessions
    /\ helper # "advertising" => \A p \in Peers : ~ Present(p)

\* A session is busy exactly for the request it emitted, for as long as the
\* handler of that request runs: neither a timer nor a new message ends it.
\* So one request per session is in flight.
Attended ==
    \A r \in Requests, p \in Peers :
        (request[r] = "running" /\ r \notin orphans /\ peer[r] = p)
            <=> (Present(p) /\ sessions[p].serving = r)

\* The response to a request whose session ended is sent to nobody, even if
\* its peer is back in another session.
OrphansGetNoResponse ==
    [][\A r \in orphans : request'[r] # "sent" \/ request[r] = "sent"]_vars

\* docs/WINDOWS_BLUETOOTH.md: "Only one request per peer may be in flight".
OneRequestPerPeer ==
    \A r, s \in Requests :
        (request[r] = "running" /\ request[s] = "running" /\ peer[r] = peer[s]) => r = s
=============================================================================
