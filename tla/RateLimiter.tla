----------------------------- MODULE RateLimiter -----------------------------
(***************************************************************************)
(* createRateLimiter of src/rate-limit.js: a window of fixed length per    *)
(* client, which begins with the client's first request, and a clean-up    *)
(* of windows that have ended once there are many.                         *)
(***************************************************************************)
EXTENDS Naturals, Sequences, FiniteSetsExt

CONSTANTS
    Clients,     \* addresses
    Limit,       \* max
    Window,      \* windowMs, in ticks
    Second,      \* ticks per second
    ManyBuckets, \* 10000
    MaxTime,     \* bound on the clock
    NoBucket     \* no bucket

ASSUME LimitAssumption == {Limit, Window, Second} \subseteq Nat \ {0} /\ MaxTime \in Nat

Buckets == [count : Nat, resetAt : Nat]

ASSUME NoBucketAssumption == NoBucket \notin Buckets

VARIABLES
    now,      \* Date.now()
    buckets,  \* the bucket of each client, or NoBucket
    told,     \* history: when a client may be back, as its last reply told it
    passes    \* history: when the requests of each client that passed did, in order

vars == <<now, buckets, told, passes>>

Init ==
    /\ now = 0
    /\ buckets = [c \in Clients |-> NoBucket]
    /\ told = [c \in Clients |-> 0]
    /\ passes = [c \in Clients |-> <<>>]

Over(b) == b = NoBucket \/ b.resetAt <= now

Counted(c) ==
    IF Over(buckets[c]) THEN [count |-> 1, resetAt |-> now + Window]
    ELSE [buckets[c] EXCEPT !.count = @ + 1]

\* Mutant: seconds are rounded down.
SecondsDown(ticks) == ticks \div Second

\* Retry-After: at least one second, rounded up.
Seconds(ticks) == (ticks + Second - 1) \div Second

RetryAfter(b) == Max({1, Seconds(b.resetAt - now)})

Refused(c) ==
    /\ Counted(c).count > Limit
    /\ buckets' = [buckets EXCEPT ![c] = Counted(c)]
    /\ told' = [told EXCEPT ![c] = now + Second * RetryAfter(Counted(c))]
    /\ UNCHANGED <<now, passes>>

\* Mutant: whatever its end.
RemovedAny(b) == b # NoBucket

Removed(b) == Over(b)

\* Only a request that passes cleans up.
CleanedUp(bs) ==
    IF Cardinality({c \in Clients : bs[c] # NoBucket}) > ManyBuckets
    THEN [c \in Clients |-> IF Removed(bs[c]) THEN NoBucket ELSE bs[c]]
    ELSE bs

Passed(c) ==
    /\ Counted(c).count <= Limit
    /\ buckets' = CleanedUp([buckets EXCEPT ![c] = Counted(c)])
    /\ told' = [told EXCEPT ![c] = now]
    /\ passes' = [passes EXCEPT ![c] = Append(@, now)]
    /\ UNCHANGED now

Tick == now < MaxTime /\ now' = now + 1 /\ UNCHANGED <<buckets, told, passes>>

Next == (\E c \in Clients : Refused(c) \/ Passed(c)) \/ Tick

Spec == Init /\ [][Next]_vars

-----------------------------------------------------------------------------
(* Properties *)

\* Of more than twice the limit of requests in a row that pass, the first and
\* the last lie a window apart: in no stretch of time as long as the window do
\* more pass, wherever it begins and whatever is cleaned up.
TwiceTheLimit ==
    \A c \in Clients : \A i, j \in DOMAIN passes[c] :
        j >= i + 2 * Limit => passes[c][j] >= passes[c][i] + Window

\* A client that was refused and comes back when it was told to, having sent
\* nothing meanwhile, passes.
RetryAfterSuffices ==
    \A c \in Clients : (buckets[c] # NoBucket /\ buckets[c].count > Limit) => buckets[c].resetAt <= told[c]
=============================================================================
