--------------------------- MODULE BluetoothProofs ---------------------------
(***************************************************************************)
(* Theorems about WindowsBluetooth, for any peers, messages and limits.    *)
(* Attended is nearly inductive: it needs to know that a request which was *)
(* not emitted yet is no orphan, that an emitted one has a peer, and that  *)
(* a failed adapter holds no session.                                      *)
(***************************************************************************)
EXTENDS WindowsBluetooth, FiniteSetTheorems, TLAPS

Held == {p \in Peers : Present(p)}

Emitted ==
    /\ \A r \in orphans : request[r] # "new"
    /\ \A r \in Requests : request[r] # "new" => peer[r] \in Peers
    /\ IsFiniteSet(Held)

IInv == TypeOK /\ Emitted /\ SessionsBounded /\ Attended

USE TotalAssumption, KindAssumption, MixedAssumption, LimitAssumption, NoneAssumption,
    SessionAssumption

-----------------------------------------------------------------------------
LEMMA InitHolds == Init => IInv
<1> SUFFICES ASSUME Init PROVE IInv
  OBVIOUS
<1>1. Held = {}
  BY DEF Init, Held, Present
<1>2. IsFiniteSet(Held) /\ Cardinality(Held) = 0
  BY <1>1, FS_EmptySet
<1>3. SessionsBounded
  BY <1>2 DEF Init, SessionsBounded, Held, Present
<1>4. TypeOK /\ Emitted /\ Attended
  BY <1>2 DEF Init, TypeOK, Emitted, Attended, Present
<1> QED
  BY <1>3, <1>4 DEF IInv

-----------------------------------------------------------------------------
(* Sessions *)

\* Fewer sessions than there were are as many as there may be.
LEMMA FewerHeld ==
    ASSUME IInv, Held' \subseteq Held
    PROVE  IsFiniteSet(Held') /\ Cardinality(Held') <= MaxSessions
<1>1. IsFiniteSet(Held) /\ Cardinality(Held) <= MaxSessions
  BY DEF IInv, Emitted, SessionsBounded, Held
<1>2. IsFiniteSet(Held') /\ Cardinality(Held') <= Cardinality(Held)
  BY <1>1, FS_Subset
<1>3. Cardinality(Held) \in Nat /\ Cardinality(Held') \in Nat
  BY <1>1, <1>2, FS_CardinalityType
<1> QED
  BY <1>1, <1>2, <1>3

\* One session more is, too, if there was room for it.
LEMMA OneMoreHeld ==
    ASSUME IInv, NEW p \in Peers, HasRoom(p), Held' \subseteq Held \cup {p}
    PROVE  IsFiniteSet(Held') /\ Cardinality(Held') <= MaxSessions
<1>1. IsFiniteSet(Held) /\ Cardinality(Held) \in Nat
  BY FS_CardinalityType DEF IInv, Emitted
<1>2. CASE p \in Held
  BY <1>2, FewerHeld
<1>3. CASE p \notin Held
  <2>1. Cardinality(Held) < MaxSessions
    BY <1>3 DEF HasRoom, Held
  <2>2. IsFiniteSet(Held \cup {p}) /\ Cardinality(Held \cup {p}) = Cardinality(Held) + 1
    BY <1>1, <1>3, FS_AddElement
  <2>3. IsFiniteSet(Held') /\ Cardinality(Held') <= Cardinality(Held \cup {p})
    BY <2>2, FS_Subset
  <2>4. Cardinality(Held') \in Nat
    BY <2>3, FS_CardinalityType
  <2> QED
    BY <1>1, <2>1, <2>2, <2>3, <2>4
<1> QED
  BY <1>2, <1>3

\* A session that a frame extends serves nobody.
LEMMA ExtendedSession ==
    ASSUME IInv, NEW p \in Peers, NEW m \in Messages, NEW i \in 0 .. Total[m] - 1,
           Accepts(p, m, i), ~ TooLong(i)
    PROVE  /\ Extended(p, m, i) \in Session
           /\ Extended(p, m, i).serving = None
<1>1. Total[m] \in Nat \ {0} /\ i \in Nat /\ i + 1 \in 1 .. MaxLength
  BY DEF TooLong
<1>2. CASE i = 0
  <2>1. Begins(p)
    BY <1>2 DEF Accepts
  <2>2. now \in 0 .. MaxTime /\ sessions[p] \in Session \cup {None}
    BY DEF IInv, TypeOK
  <2>3. Attempts(p) \in 1 .. MaxAttempts
    BY <2>1, <2>2 DEF Begins, Attempts, InWindow, Present, Session
  <2>4. now + FrameTime \in Times /\ now + Window \in Times
    BY <2>2 DEF Times
  <2>5. InWindow(p) => sessions[p].windowEnd \in Times
    BY <2>2 DEF InWindow, Present, Session
  <2> QED
    BY <1>1, <1>2, <2>3, <2>4, <2>5 DEF Extended, Fresh, Session
<1>3. CASE i # 0
  <2>1. Present(p) /\ sessions[p].serving = None
    BY <1>3 DEF Accepts, Continues, Busy
  <2>2. sessions[p] \in Session
    BY <2>1 DEF IInv, TypeOK, Present
  <2> QED
    BY <1>1, <1>3, <2>1, <2>2 DEF Extended, Session
<1> QED
  BY <1>2, <1>3

LEMMA RestedSession ==
    ASSUME NEW s \in Session
    PROVE  Rested(s) \in Session /\ Rested(s).serving = None
BY DEF Rested, Session

-----------------------------------------------------------------------------
(* Frames *)

\* The session of a peer that served nobody is replaced by one that serves
\* nobody, or by none.
LEMMA QuietFrame ==
    ASSUME IInv, NEW p \in Peers, NEW m \in Messages, NEW i \in 0 .. Total[m] - 1,
           Accepts(p, m, i), UNCHANGED <<request, peer, orphans>>,
           NEW s, Becomes(p, s), s = None \/ (s \in Session /\ s.serving = None)
    PROVE  IInv'
<1> USE DEF IInv
<1>1. TypeOK'
  BY DEF TypeOK, Accepts, Becomes
<1>2. \A q \in Peers : sessions'[q] = IF q = p THEN s ELSE sessions[q]
  BY DEF TypeOK, Becomes
<1>3. HasRoom(p) /\ Held' \subseteq Held \cup {p}
  BY <1>2 DEF Accepts, Begins, Continues, HasRoom, Held, Present
<1>4. IsFiniteSet(Held') /\ Cardinality(Held') <= MaxSessions
  BY <1>3, OneMoreHeld
<1>5. Emitted'
  BY <1>4 DEF Emitted
<1>6. SessionsBounded'
  BY <1>4 DEF SessionsBounded, Held, Accepts
<1>7. ~ Busy(p)
  BY DEF Accepts
<1>8. Attended'
  BY <1>2, <1>7 DEF Attended, Busy, Present
<1> QED
  BY <1>1, <1>5, <1>6, <1>8

LEMMA EmissionHolds ==
    ASSUME IInv, NEW p \in Peers, NEW m \in Messages, NEW i \in 0 .. Total[m] - 1,
           NEW r \in Requests, RequestEmitted(p, m, i, r)
    PROVE  IInv'
<1> DEFINE s == [Extended(p, m, i) EXCEPT !.serving = r]
<1> USE DEF IInv
<1>1. Accepts(p, m, i) /\ Becomes(p, s) /\ request[r] = "new" /\ ~ TooLong(i)
  BY DEF RequestEmitted, Last
<1>2. s \in Session /\ s.serving = r
  BY <1>1, ExtendedSession DEF Session
<1> HIDE DEF s
<1>3. TypeOK'
  BY <1>1, <1>2 DEF TypeOK, Accepts, Becomes, RequestEmitted
<1>4. \A q \in Peers : sessions'[q] = IF q = p THEN s ELSE sessions[q]
  BY <1>1 DEF TypeOK, Becomes
<1>5. HasRoom(p) /\ Held' \subseteq Held \cup {p}
  BY <1>1, <1>4 DEF Accepts, Begins, Continues, HasRoom, Held, Present
<1>6. IsFiniteSet(Held') /\ Cardinality(Held') <= MaxSessions
  BY <1>5, OneMoreHeld
<1>7. Emitted'
  BY <1>1, <1>6 DEF Emitted, RequestEmitted, TypeOK
<1>8. SessionsBounded'
  BY <1>1, <1>6 DEF SessionsBounded, Held, Accepts
<1>9. ~ Busy(p) /\ r \notin orphans /\ orphans' = orphans
  BY <1>1 DEF Accepts, Emitted, RequestEmitted
<1>10. \A t \in Requests : /\ request'[t] = IF t = r THEN "running" ELSE request[t]
                           /\ peer'[t] = IF t = r THEN p ELSE peer[t]
  BY DEF RequestEmitted, TypeOK
<1>11. \A q \in Peers : Present(q) => sessions[q].serving # r
  BY <1>1 DEF Attended
<1>12. Attended'
  BY <1>2, <1>4, <1>9, <1>10, <1>11 DEF Attended, Busy, Present
<1> QED
  BY <1>3, <1>7, <1>8, <1>12

LEMMA FrameHolds ==
    ASSUME IInv, NEW p \in Peers, NEW m \in Messages, NEW i \in 0 .. Total[m] - 1,
           Frame(p, m, i)
    PROVE  IInv'
<1>1. CASE FrameTooLong(p, m, i)
  BY <1>1, QuietFrame DEF FrameTooLong
<1>2. CASE FrameStored(p, m, i)
  BY <1>2, QuietFrame, ExtendedSession DEF FrameStored
<1>3. CASE MessageIsJunk(p, m, i)
  <2>1. Accepts(p, m, i) /\ ~ TooLong(i) /\ Becomes(p, Rested(Extended(p, m, i)))
    BY <1>3 DEF MessageIsJunk, Last
  <2>2. Rested(Extended(p, m, i)) \in Session /\ Rested(Extended(p, m, i)).serving = None
    BY <2>1, ExtendedSession, RestedSession
  <2> QED
    BY <1>3, <2>1, <2>2, QuietFrame DEF MessageIsJunk
<1>4. CASE MessageIsInvalid(p, m, i)
  BY <1>4, QuietFrame, ExtendedSession DEF MessageIsInvalid, Last
<1>5. CASE \E r \in Requests : RequestEmitted(p, m, i, r)
  BY <1>5, EmissionHolds
<1> QED
  BY <1>1, <1>2, <1>3, <1>4, <1>5 DEF Frame

-----------------------------------------------------------------------------
(* Responses *)

\* A response is sent only for a request whose session is still there.
LEMMA AnsweredIsNoOrphan ==
    ASSUME IInv, NEW r \in Requests, request[r] = "running", SameSession(r)
    PROVE  peer[r] \in Peers /\ r \notin orphans
<1>1. peer[r] \in Peers
  BY DEF IInv, Emitted
<1> QED
  BY <1>1 DEF IInv, Attended, SameSession

LEMMA ResponseHolds ==
    ASSUME IInv, NEW r \in Requests, ResponseSent(r)
    PROVE  IInv'
<1> DEFINE p == peer[r]
           s == Rested(sessions[p])
<1> USE DEF IInv
<1>1. p \in Peers /\ Present(p) /\ sessions[p].serving = r
  BY AnsweredIsNoOrphan DEF ResponseSent, SameSession
<1>2. sessions[p] \in Session
  BY <1>1 DEF TypeOK, Present
<1>3. s \in Session /\ s.serving = None
  BY <1>2, RestedSession
<1>4. Becomes(p, s) /\ UNCHANGED <<now, helper, peer, orphans>>
  BY DEF ResponseSent
<1> HIDE DEF s
<1>5. TypeOK'
  <2>1. sessions' \in [Peers -> Session \cup {None}]
    BY <1>1, <1>3, <1>4 DEF TypeOK, Becomes
  <2>2. request' \in [Requests -> {"new", "running", "sent", "dropped"}]
    BY DEF TypeOK, ResponseSent
  <2> QED
    BY <1>4, <2>1, <2>2 DEF TypeOK
<1>6. \A q \in Peers : sessions'[q] = IF q = p THEN s ELSE sessions[q]
  BY <1>4 DEF TypeOK, Becomes
<1>7. Held' = Held
  BY <1>1, <1>3, <1>6 DEF Held, Present
<1>8. Emitted'
  BY <1>4, <1>7 DEF Emitted, TypeOK, ResponseSent
<1>9. SessionsBounded'
  BY <1>4, <1>7 DEF SessionsBounded, Held
<1>10. \A t \in Requests : request'[t] = IF t = r THEN "sent" ELSE request[t]
  BY DEF ResponseSent, TypeOK
<1>11. Attended'
  BY <1>1, <1>3, <1>4, <1>6, <1>10 DEF Attended, Present
<1> QED
  BY <1>5, <1>8, <1>9, <1>11

LEMMA DropHolds ==
    ASSUME IInv, NEW r \in Requests, ResponseDropped(r)
    PROVE  IInv'
<1> USE DEF IInv
<1>1. TypeOK' /\ Held' = Held
  BY DEF TypeOK, ResponseDropped, Held, Present
<1>2. Emitted'
  BY <1>1 DEF Emitted, TypeOK, ResponseDropped
<1>3. SessionsBounded'
  BY <1>1 DEF SessionsBounded, Held, ResponseDropped
<1>4. \A q \in Peers : ~ (Present(q) /\ sessions[q].serving = r)
  BY DEF ResponseDropped, Attended, SameSession, SessionsBounded
<1>5. \A t \in Requests : request'[t] = IF t = r THEN "dropped" ELSE request[t]
  BY DEF ResponseDropped, TypeOK
<1>6. Attended'
  BY <1>4, <1>5 DEF Attended, Present, ResponseDropped
<1> QED
  BY <1>1, <1>2, <1>3, <1>6

-----------------------------------------------------------------------------
(* The ends of sessions *)

\* Sessions end with the requests they serve as orphans, or serve none.
LEMMA SessionsEnd ==
    ASSUME IInv, UNCHANGED <<now, request, peer>>,
           helper' \in {"starting", "advertising", "unavailable", "failed"},
           NEW P \in SUBSET Peers,
           sessions' = [p \in Peers |-> IF p \in P THEN None ELSE sessions[p]],
           \/ orphans' = orphans \cup RunningFrom(P)
           \/ orphans' = orphans /\ \A p \in P : ~ Busy(p),
           helper' = "advertising" \/ P = Peers \/ helper' = helper
    PROVE  IInv'
<1> USE DEF IInv
<1>1. TypeOK'
  BY DEF TypeOK, RunningFrom
<1>2. Held' \subseteq Held
  BY DEF Held, Present
<1>3. IsFiniteSet(Held') /\ Cardinality(Held') <= MaxSessions
  BY <1>2, FewerHeld
<1>4. Emitted'
  BY <1>3 DEF Emitted, RunningFrom
<1>5. SessionsBounded'
  BY <1>3 DEF SessionsBounded, Held, Present
<1>6. Attended'
  BY DEF Attended, RunningFrom, Busy, Present
<1> QED
  BY <1>1, <1>4, <1>5, <1>6

LEMMA EventHolds ==
    ASSUME IInv,
           Advertises \/ Unavailable \/ Fails \/ Sweep \/ \E p \in Peers : Disconnects(p)
    PROVE  IInv'
<1>1. sessions \in [Peers -> Session \cup {None}] /\ helper \in {"starting", "advertising", "unavailable", "failed"}
  BY DEF IInv, TypeOK
<1>2. CASE Advertises
  <2>1. sessions' = [p \in Peers |-> IF p \in {} THEN None ELSE sessions[p]]
    BY <1>1, <1>2 DEF Advertises
  <2>2. {} \in SUBSET Peers /\ \A p \in {} : ~ Busy(p)
    OBVIOUS
  <2>3. UNCHANGED <<now, request, peer, orphans>> /\ helper' = "advertising"
    BY <1>2 DEF Advertises
  <2> QED
    BY <2>1, <2>2, <2>3, SessionsEnd
<1>3. CASE Unavailable \/ Fails
  <2>1. sessions' = [p \in Peers |-> IF p \in Peers THEN None ELSE sessions[p]]
    BY <1>3 DEF Unavailable, Fails
  <2> QED
    BY <1>3, <2>1, SessionsEnd DEF Unavailable, Fails
<1>4. CASE Sweep
  <2> DEFINE P == {p \in Peers : Swept(p)}
  <2>1. sessions' = [p \in Peers |-> IF p \in P THEN None ELSE sessions[p]]
    BY <1>4 DEF Sweep
  <2>2. \A p \in P : ~ Busy(p)
    BY DEF Swept
  <2>3. UNCHANGED <<now, helper, request, peer, orphans>> /\ P \in SUBSET Peers
    BY <1>4 DEF Sweep
  <2> HIDE DEF P
  <2> QED
    BY <1>1, <2>1, <2>2, <2>3, SessionsEnd
<1>5. ASSUME NEW p \in Peers, Disconnects(p) PROVE IInv'
  <2>1. sessions' = [q \in Peers |-> IF q \in {p} THEN None ELSE sessions[q]]
    BY <1>1, <1>5 DEF Disconnects, Becomes
  <2> QED
    BY <1>1, <1>5, <2>1, SessionsEnd DEF Disconnects
<1> QED
  BY <1>2, <1>3, <1>4, <1>5

LEMMA QuietHolds ==
    ASSUME IInv, Tick \/ UNCHANGED vars
    PROVE  IInv'
<1> USE DEF IInv, Tick, vars
<1>1. TypeOK'
  BY DEF TypeOK
<1>2. Emitted'
  BY DEF Emitted, Held, Present
<1>3. SessionsBounded'
  BY DEF SessionsBounded, Present
<1>4. Attended'
  BY DEF Attended, Present
<1> QED
  BY <1>1, <1>2, <1>3, <1>4

LEMMA StepHolds == IInv /\ [Next]_vars => IInv'
<1> SUFFICES ASSUME IInv, [Next]_vars PROVE IInv'
  OBVIOUS
<1>1. CASE \E p \in Peers : \E m \in Messages : \E i \in 0 .. Total[m] - 1 : Frame(p, m, i)
  BY <1>1, FrameHolds
<1>2. CASE \E r \in Requests : Responds(r)
  BY <1>2, ResponseHolds, DropHolds DEF Responds
<1>3. CASE Advertises \/ Unavailable \/ Fails \/ Sweep \/ \E p \in Peers : Disconnects(p)
  BY <1>3, EventHolds
<1>4. CASE Tick \/ UNCHANGED vars
  BY <1>4, QuietHolds
<1> QED
  BY <1>1, <1>2, <1>3, <1>4 DEF Next

-----------------------------------------------------------------------------
LEMMA Holds == Spec => []IInv
BY InitHolds, StepHolds, PTL DEF Spec

\* Every variable of the adapter has its type: no fragment is stored past
\* MAX_MESSAGE, and no session counts more attempts than there may be.
THEOREM TypeCorrect == Spec => []TypeOK
<1>1. IInv => TypeOK
  BY DEF IInv
<1> QED
  BY <1>1, Holds, PTL

\* At most MaxSessions sessions are held, and none while the radio is off,
\* through any frames, sweeps, disconnects and outages.
THEOREM SessionsAreBounded == Spec => []SessionsBounded
<1>1. IInv => SessionsBounded
  BY DEF IInv
<1> QED
  BY <1>1, Holds, PTL

\* A session is busy exactly for the request it emitted, while its handler
\* runs.
THEOREM RequestsAreAttended == Spec => []Attended
<1>1. IInv => Attended
  BY DEF IInv
<1> QED
  BY <1>1, Holds, PTL

\* The response to a request whose session ended is never sent, whatever new
\* session its peer has.
THEOREM OrphansAreSilent == Spec => OrphansGetNoResponse
<1>1. IInv /\ [Next]_vars => [\A r \in orphans : request'[r] # "sent" \/ request[r] = "sent"]_vars
  <2> SUFFICES ASSUME IInv, Next, NEW r \in orphans, request'[r] = "sent", request[r] # "sent"
               PROVE  FALSE
    OBVIOUS
  <2>1. r \in Requests
    BY DEF IInv, TypeOK
  <2>2. ASSUME NEW t \in Requests, Responds(t) PROVE FALSE
    <3>1. t = r /\ ResponseSent(r)
      BY <2>1, <2>2 DEF Responds, ResponseSent, ResponseDropped, IInv, TypeOK
    <3> QED
      BY <2>1, <3>1, AnsweredIsNoOrphan DEF ResponseSent
  <2>3. ASSUME NEW p \in Peers, NEW m \in Messages, NEW i \in 0 .. Total[m] - 1, Frame(p, m, i)
        PROVE  FALSE
    BY <2>1, <2>3 DEF Frame, FrameTooLong, FrameStored, MessageIsJunk, MessageIsInvalid,
                      RequestEmitted, IInv, TypeOK
  <2> QED
    BY <2>2, <2>3 DEF Next, Disconnects, Advertises, Unavailable, Fails, Sweep, Tick
<1> QED
  BY <1>1, Holds, PTL DEF Spec, OrphansGetNoResponse
=============================================================================
