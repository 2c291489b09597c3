-------------------------- MODULE RateLimiterProofs --------------------------
(***************************************************************************)
(* Theorems about RateLimiter, for any set of clients, limit, window,      *)
(* length of a second and number of buckets above which it cleans up.      *)
(* OfBucket says which of the requests of a client a bucket has counted:   *)
(* those that passed before its window began are the rest, and all of      *)
(* these but the last Limit passed a window before that.                   *)
(***************************************************************************)
EXTENDS RateLimiter, TLAPS

TypeOK ==
    /\ now \in Nat
    /\ buckets \in [Clients -> Buckets \cup {NoBucket}]
    /\ told \in [Clients -> Nat]
    /\ passes \in [Clients -> Seq(Nat)]

\* The passes s of a client keep the distance of TwiceTheLimit.
Apart(s) ==
    \A i, j \in DOMAIN s : j >= i + 2 * Limit => s[j] >= s[i] + Window

\* What is sure of the passes s of a client without a bucket at time t: all
\* but the last Limit are a window old.
OfNone(s, t) == \A i \in 1 .. Len(s) - Limit : s[i] + Window <= t

\* The window of b began at resetAt - Window.
Began(b) == b.resetAt - Window

InWindow(b) == IF b.count <= Limit THEN b.count ELSE Limit

OfBucket(s, b, t) ==
    /\ Began(b) \in Nat /\ Began(b) <= t
    /\ b.count >= 1 /\ InWindow(b) <= Len(s)
    /\ \A i \in 1 .. Len(s) - InWindow(b) : s[i] <= Began(b)
    /\ \A i \in 1 .. Len(s) - InWindow(b) - Limit : s[i] + Window <= Began(b)

Accounted(s, b, t) ==
    /\ \A i \in 1 .. Len(s) : s[i] <= t
    /\ IF b = NoBucket THEN OfNone(s, t) ELSE OfBucket(s, b, t)

IInv ==
    /\ TypeOK
    /\ \A c \in Clients : Apart(passes[c]) /\ Accounted(passes[c], buckets[c], now)
    /\ RetryAfterSuffices

-----------------------------------------------------------------------------
USE LimitAssumption, NoBucketAssumption

\* The larger of one and x.
LEMMA MaxOfOne ==
    ASSUME NEW x \in Int
    PROVE  Max({1, x}) \in Int /\ Max({1, x}) >= 1 /\ Max({1, x}) >= x
  <1>1. \E m \in {1, x} : \A y \in {1, x} : m >= y
    <2>1. CASE x >= 1
      BY <2>1
    <2>2. CASE ~ x >= 1
      BY <2>2
    <2>3. QED
      BY <2>1, <2>2
  <1>2. Max({1, x}) \in {1, x} /\ \A y \in {1, x} : Max({1, x}) >= y
    BY <1>1 DEF Max
  <1>3. QED
    BY <1>2

\* Rounding up to seconds waits long enough.
LEMMA SecondsSuffice ==
    ASSUME NEW d \in Nat
    PROVE  Seconds(d) \in Nat /\ Second * Seconds(d) >= d
  BY DEF Seconds

LEMMA RetryAfterWaits ==
    ASSUME NEW b \in Buckets, now \in Nat, b.resetAt >= now
    PROVE  /\ now + Second * RetryAfter(b) \in Nat
           /\ now + Second * RetryAfter(b) >= b.resetAt
  <1> DEFINE d == b.resetAt - now
  <1>1. d \in Nat
    BY DEF Buckets
  <1>2. Seconds(d) \in Nat /\ Second * Seconds(d) >= d
    BY <1>1, SecondsSuffice
  <1>3. RetryAfter(b) \in Nat /\ RetryAfter(b) >= Seconds(d)
    BY <1>2, MaxOfOne DEF RetryAfter
  <1>4. Second * RetryAfter(b) >= Second * Seconds(d)
    BY <1>2, <1>3
  <1>5. Second * RetryAfter(b) \in Int /\ Second * RetryAfter(b) >= d
    <2>1. \A i \in Int : Second * i \in Int
      OBVIOUS
    <2>2. QED
      BY <1>1, <1>2, <1>3, <1>4, <2>1
  <1>6. QED
    BY <1>1, <1>5 DEF Buckets

-----------------------------------------------------------------------------
(* What a request makes of its client's bucket. *)

LEMMA CountedTyped ==
    ASSUME TypeOK, NEW c \in Clients
    PROVE  /\ Counted(c) \in Buckets
           /\ Counted(c).count >= 1
           /\ Counted(c).resetAt >= now
           /\ Counted(c).resetAt = IF Over(buckets[c]) THEN now + Window ELSE buckets[c].resetAt
           /\ Counted(c).count = IF Over(buckets[c]) THEN 1 ELSE buckets[c].count + 1
  <1>1. CASE Over(buckets[c])
    BY <1>1 DEF TypeOK, Counted, Buckets
  <1>2. CASE ~ Over(buckets[c])
    <2>1. buckets[c] \in Buckets /\ buckets[c].resetAt > now
      BY <1>2 DEF TypeOK, Over, Buckets
    <2>2. Counted(c) = [count |-> buckets[c].count + 1, resetAt |-> buckets[c].resetAt]
      BY <1>2, <2>1 DEF Counted, Buckets
    <2>3. QED
      BY <1>2, <2>1, <2>2 DEF TypeOK, Buckets
  <1>3. QED
    BY <1>1, <1>2

\* When a window has ended, all but the last Limit requests passed a window ago.
LEMMA OverLeaves ==
    ASSUME NEW s \in Seq(Nat), NEW b \in Buckets, NEW t \in Nat,
           OfBucket(s, b, t), b.resetAt <= t
    PROVE  OfNone(s, t)
  <1>1. InWindow(b) \in Nat /\ InWindow(b) <= Limit /\ Len(s) \in Nat
    BY DEF InWindow, Buckets
  <1> SUFFICES ASSUME NEW i \in 1 .. Len(s) - Limit
               PROVE  s[i] + Window <= t
    BY DEF OfNone
  <1>2. i \in 1 .. Len(s) - InWindow(b) /\ i \in 1 .. Len(s)
    BY <1>1
  <1>3. s[i] <= Began(b) /\ s[i] \in Nat
    BY <1>2 DEF OfBucket
  <1>4. QED
    BY <1>3 DEF Began, Buckets

\* A request that does not pass leaves the account right.
LEMMA RefusedAccount ==
    ASSUME TypeOK, NEW c \in Clients, Accounted(passes[c], buckets[c], now),
           Counted(c).count > Limit
    PROVE  OfBucket(passes[c], Counted(c), now)
  <1>1. ~ Over(buckets[c])
    BY CountedTyped
  <1>2. buckets[c] \in Buckets /\ OfBucket(passes[c], buckets[c], now) /\ buckets[c].count >= Limit
    BY <1>1, CountedTyped DEF TypeOK, Accounted, Over, Buckets
  <1>3. InWindow(Counted(c)) = InWindow(buckets[c]) /\ Began(Counted(c)) = Began(buckets[c])
    BY <1>1, <1>2, CountedTyped DEF InWindow, Began, Buckets
  <1>4. QED
    BY <1>2, <1>3, CountedTyped DEF OfBucket

\* The account after a request that passes, before the clean-up.
LEMMA PassedAccount ==
    ASSUME TypeOK, NEW c \in Clients, Accounted(passes[c], buckets[c], now),
           Counted(c).count <= Limit
    PROVE  OfBucket(Append(passes[c], now), Counted(c), now)
  <1> DEFINE s == passes[c]
             b == Counted(c)
             n == Len(s)
  <1> HIDE DEF b
  <1>1. /\ n \in Nat /\ now \in Nat /\ Len(Append(s, now)) = n + 1
        /\ \A i \in 1 .. n : Append(s, now)[i] = s[i] /\ s[i] \in Nat
    BY DEF TypeOK
  <1>2. b \in Buckets /\ b.count >= 1 /\ InWindow(b) = b.count /\ b.count \in Nat
    BY CountedTyped DEF b, InWindow, Buckets
  <1>3. CASE Over(buckets[c])
    <2>1. b.count = 1 /\ b.resetAt = now + Window
      BY <1>3, CountedTyped DEF b
    <2>2. Began(b) = now
      BY <1>1, <2>1 DEF Began
    <2>3. OfNone(s, now)
      <3>1. CASE buckets[c] = NoBucket
        BY <3>1 DEF Accounted
      <3>2. CASE buckets[c] # NoBucket
        BY <1>1, <1>3, <3>2, OverLeaves DEF Accounted, Over, TypeOK
      <3>3. QED
        BY <3>1, <3>2
    <2>4. \A i \in 1 .. n : s[i] <= now
      BY DEF Accounted
    <2>5. QED
      BY <1>1, <1>2, <2>1, <2>2, <2>3, <2>4 DEF OfBucket, OfNone, b
  <1>4. CASE ~ Over(buckets[c])
    <2> DEFINE a == buckets[c]
    <2>1. a \in Buckets /\ OfBucket(s, a, now)
      BY <1>4 DEF TypeOK, Accounted, Over
    <2>2. b.count = a.count + 1 /\ b.resetAt = a.resetAt
      BY <1>4, CountedTyped DEF b
    <2>3. InWindow(a) = a.count /\ a.count \in Nat /\ Began(b) = Began(a)
      BY <1>2, <2>1, <2>2 DEF InWindow, Buckets, Began, b
    <2>4. Len(Append(s, now)) - InWindow(b) = n - InWindow(a) /\ InWindow(b) <= n + 1
      BY <1>1, <1>2, <2>1, <2>2, <2>3 DEF OfBucket
    <2>5. \A i \in 1 .. n - InWindow(a) : i \in 1 .. n
      BY <1>1, <2>3
    <2>6. \A i \in 1 .. n - InWindow(a) - Limit : i \in 1 .. n
      BY <1>1, <2>3
    <2>7. QED
      BY <1>1, <1>2, <2>1, <2>3, <2>4, <2>5, <2>6 DEF OfBucket, b
  <1>5. QED
    BY <1>3, <1>4

\* It keeps its distance: the window it is in has counted at most Limit, and
\* all but Limit of the others are a window older than that window.
LEMMA PassIsApart ==
    ASSUME TypeOK, NEW c \in Clients, Accounted(passes[c], buckets[c], now),
           Counted(c).count <= Limit, Apart(passes[c])
    PROVE  Apart(Append(passes[c], now))
  <1> DEFINE s == passes[c]
             b == Counted(c)
             n == Len(s)
             e == Append(s, now)
  <1>1. /\ n \in Nat /\ now \in Nat /\ Len(e) = n + 1
        /\ DOMAIN e = 1 .. n + 1 /\ DOMAIN s = 1 .. n
        /\ e[n + 1] = now
        /\ \A i \in 1 .. n : e[i] = s[i] /\ s[i] \in Nat
    BY DEF TypeOK
  <1>2. InWindow(b) \in Nat /\ InWindow(b) <= Limit /\ Began(b) \in Nat
    BY CountedTyped, PassedAccount DEF InWindow, Buckets, OfBucket
  <1> HIDE DEF e
  <1> SUFFICES ASSUME NEW i \in 1 .. n + 1, NEW j \in 1 .. n + 1, j >= i + 2 * Limit
               PROVE  e[j] >= e[i] + Window
    BY <1>1 DEF Apart, e
  <1>3. i \in 1 .. n
    BY <1>1
  <1>4. CASE j \in 1 .. n
    BY <1>1, <1>3, <1>4 DEF Apart
  <1>5. CASE j = n + 1
    <2>1. i \in 1 .. Len(e) - InWindow(b) - Limit
      BY <1>1, <1>2, <1>3, <1>5
    <2>2. e[i] + Window <= Began(b) /\ Began(b) <= now
      BY <2>1, PassedAccount DEF OfBucket, e
    <2>3. e[j] = now /\ e[i] \in Nat
      BY <1>1, <1>3, <1>5
    <2>4. QED
      BY <1>1, <1>2, <2>2, <2>3
  <1>6. j \in 1 .. n \/ j = n + 1
    BY <1>1
  <1>7. QED
    BY <1>4, <1>5, <1>6

-----------------------------------------------------------------------------
(* The steps *)

\* Time only makes the passes older.
LEMMA LaterAccount ==
    ASSUME NEW s \in Seq(Nat), NEW b \in Buckets \cup {NoBucket}, NEW t \in Nat,
           Accounted(s, b, t)
    PROVE  Accounted(s, b, t + 1)
  <1>1. Len(s) \in Nat /\ \A i \in 1 .. Len(s) : s[i] \in Nat
    OBVIOUS
  <1>2. \A i \in 1 .. Len(s) - Limit : i \in 1 .. Len(s)
    BY <1>1
  <1>3. QED
    BY <1>1, <1>2 DEF Accounted, OfNone, OfBucket

\* A bucket is removed when its window has ended: nothing is forgotten that
\* the next window would need.
LEMMA RemovedAccount ==
    ASSUME NEW s \in Seq(Nat), NEW b \in Buckets \cup {NoBucket}, now \in Nat,
           Accounted(s, b, now), Removed(b)
    PROVE  Accounted(s, NoBucket, now)
  <1>1. CASE b = NoBucket
    BY <1>1
  <1>2. CASE b # NoBucket
    <2>1. OfNone(s, now)
      BY <1>2, OverLeaves DEF Accounted, Removed, Over
    <2>2. QED
      BY <2>1 DEF Accounted
  <1>3. QED
    BY <1>1, <1>2

LEMMA CleanedUpBucket ==
    ASSUME NEW bs \in [Clients -> Buckets \cup {NoBucket}], NEW d \in Clients
    PROVE  /\ CleanedUp(bs) \in [Clients -> Buckets \cup {NoBucket}]
           /\ CleanedUp(bs)[d] = bs[d] \/ (CleanedUp(bs)[d] = NoBucket /\ Removed(bs[d]))
  BY DEF CleanedUp

LEMMA InitHolds == Init => IInv
  <1> SUFFICES ASSUME Init PROVE IInv
    OBVIOUS
  <1>1. TypeOK
    BY DEF Init, TypeOK
  <1>2. ASSUME NEW c \in Clients PROVE Apart(passes[c]) /\ Accounted(passes[c], buckets[c], now)
    BY DEF Init, Apart, Accounted, OfNone
  <1>3. QED
    BY <1>1, <1>2 DEF IInv, Init, RetryAfterSuffices

LEMMA RefusedHolds ==
    ASSUME IInv, NEW c \in Clients, Refused(c)
    PROVE  IInv'
  <1> DEFINE b == Counted(c)
             back == now + Second * RetryAfter(b)
  <1>1. TypeOK /\ b \in Buckets /\ b.resetAt >= now
    BY CountedTyped DEF IInv
  <1>2. back \in Nat /\ back >= b.resetAt
    BY <1>1, RetryAfterWaits DEF TypeOK
  <1>3. /\ buckets' = [buckets EXCEPT ![c] = b]
        /\ told' = [told EXCEPT ![c] = back]
        /\ UNCHANGED <<now, passes>>
    BY DEF Refused
  <1> HIDE DEF back
  <1>4. TypeOK'
    BY <1>1, <1>2, <1>3 DEF TypeOK
  <1>5. OfBucket(passes[c], b, now)
    BY <1>1, RefusedAccount DEF IInv, Refused
  <1>6. ASSUME NEW d \in Clients
        PROVE  (Apart(passes[d]) /\ Accounted(passes[d], buckets[d], now))'
    <2>1. CASE d = c
      BY <1>1, <1>3, <1>5, <2>1 DEF IInv, TypeOK, Accounted
    <2>2. CASE d # c
      BY <1>1, <1>3, <2>2 DEF IInv, TypeOK
    <2>3. QED
      BY <2>1, <2>2
  <1>7. RetryAfterSuffices'
    BY <1>1, <1>2, <1>3 DEF IInv, RetryAfterSuffices, TypeOK
  <1>8. QED
    BY <1>4, <1>6, <1>7 DEF IInv

LEMMA PassedHolds ==
    ASSUME IInv, NEW c \in Clients, Passed(c)
    PROVE  IInv'
  <1> DEFINE b  == Counted(c)
             bs == [buckets EXCEPT ![c] = b]
  <1>1. TypeOK /\ b \in Buckets /\ b.count <= Limit
    BY CountedTyped DEF IInv, Passed
  <1>2. /\ buckets' = CleanedUp(bs)
        /\ told' = [told EXCEPT ![c] = now]
        /\ passes' = [passes EXCEPT ![c] = Append(passes[c], now)]
        /\ now' = now
    BY <1>1 DEF Passed, TypeOK
  <1>3. bs \in [Clients -> Buckets \cup {NoBucket}]
    BY <1>1 DEF TypeOK
  <1>4. \A d \in Clients : buckets'[d] = bs[d] \/ (buckets'[d] = NoBucket /\ Removed(bs[d]))
    BY <1>2, <1>3, CleanedUpBucket
  <1>5. TypeOK'
    <2>1. passes' \in [Clients -> Seq(Nat)]
      <3>1. Append(passes[c], now) \in Seq(Nat)
        BY <1>1 DEF TypeOK
      <3>2. QED
        BY <1>1, <1>2, <3>1 DEF TypeOK
    <2>2. buckets' \in [Clients -> Buckets \cup {NoBucket}]
      BY <1>2, <1>3, CleanedUpBucket
    <2>3. QED
      BY <1>1, <1>2, <2>1, <2>2 DEF TypeOK
  <1>6. ASSUME NEW d \in Clients
        PROVE  Apart(passes'[d]) /\ Accounted(passes'[d], bs[d], now)
    <2>1. CASE d = c
      <3>1. passes'[c] = Append(passes[c], now) /\ bs[c] = b /\ b # NoBucket
        BY <1>1, <1>2 DEF TypeOK
      <3>2. Apart(passes'[c]) /\ OfBucket(passes'[c], b, now)
        BY <1>1, <3>1, PassIsApart, PassedAccount DEF IInv
      <3>3. \A i \in 1 .. Len(passes'[c]) : passes'[c][i] <= now
        <4>1. passes[c] \in Seq(Nat) /\ now \in Nat
              /\ \A i \in 1 .. Len(passes[c]) : passes[c][i] <= now
          BY <1>1 DEF TypeOK, IInv, Accounted
        <4>2. QED
          BY <3>1, <4>1
      <3>4. QED
        BY <2>1, <3>1, <3>2, <3>3 DEF Accounted
    <2>2. CASE d # c
      BY <1>1, <1>2, <2>2 DEF IInv, TypeOK
    <2>3. QED
      BY <2>1, <2>2
  <1>7. ASSUME NEW d \in Clients
        PROVE  (Apart(passes[d]) /\ Accounted(passes[d], buckets[d], now))'
    <2>1. passes'[d] \in Seq(Nat) /\ now \in Nat /\ bs[d] \in Buckets \cup {NoBucket}
      BY <1>1, <1>3, <1>5 DEF TypeOK
    <2>2. Accounted(passes'[d], buckets'[d], now)
      BY <1>4, <1>6, <2>1, RemovedAccount
    <2>3. QED
      BY <1>2, <1>6, <2>2
  <1>8. RetryAfterSuffices'
    <2> SUFFICES ASSUME NEW d \in Clients, buckets'[d] # NoBucket, buckets'[d].count > Limit
                 PROVE  buckets'[d].resetAt <= told'[d]
      BY DEF RetryAfterSuffices
    <2>1. buckets'[d] = bs[d]
      BY <1>4
    <2>2. d # c
      BY <1>1, <2>1 DEF TypeOK, Buckets
    <2>3. QED
      BY <1>1, <1>2, <2>1, <2>2 DEF IInv, RetryAfterSuffices, TypeOK
  <1>9. QED
    BY <1>5, <1>7, <1>8 DEF IInv

LEMMA StepHolds == IInv /\ [Next]_vars => IInv'
  <1> SUFFICES ASSUME IInv, [Next]_vars PROVE IInv'
    OBVIOUS
  <1>1. CASE \E c \in Clients : Refused(c) \/ Passed(c)
    BY <1>1, RefusedHolds, PassedHolds
  <1>2. CASE Tick
    <2>1. now' = now + 1 /\ UNCHANGED <<buckets, told, passes>>
      BY <1>2 DEF Tick
    <2>2. ASSUME NEW c \in Clients PROVE Accounted(passes[c], buckets[c], now + 1)
      BY LaterAccount DEF IInv, TypeOK
    <2>3. QED
      BY <2>1, <2>2 DEF IInv, TypeOK, RetryAfterSuffices
  <1>3. CASE UNCHANGED vars
    BY <1>3 DEF vars, IInv, TypeOK, RetryAfterSuffices
  <1>4. QED
    BY <1>1, <1>2, <1>3 DEF Next

LEMMA Inductive == Spec => []IInv
  BY InitHolds, StepHolds, PTL DEF Spec

-----------------------------------------------------------------------------
\* In no stretch of time as long as the window do more than twice the limit
\* of a client's requests pass, however many buckets there are and whenever
\* the clean-up removes them.
THEOREM AtMostTwiceTheLimit == Spec => []TwiceTheLimit
  <1>1. IInv => TwiceTheLimit
    BY DEF IInv, TwiceTheLimit, Apart
  <1>2. QED
    BY <1>1, Inductive, PTL

\* A client that was refused and comes back when Retry-After told it to meets
\* no bucket that refuses it.
THEOREM RetryAfterIsEnough == Spec => []RetryAfterSuffices
  <1>1. IInv => RetryAfterSuffices
    BY DEF IInv
  <1>2. QED
    BY <1>1, Inductive, PTL
=============================================================================
