------------------------- MODULE RateLimiterProofs -------------------------
(***************************************************************************)
(* Theorems about the rate limiter, for any number of addresses, of        *)
(* requests at one time and any rate.                                      *)
(***************************************************************************)
EXTENDS RateLimiter, FiniteSetTheorems, WellFoundedInduction, TLAPS

USE NumberAssumption, ValueAssumption

\* A worker has a limiter of an address only if the address has one in the
\* map or the worker is about to store it; so it never makes a second one.
MadeInv ==
  \A a \in Addresses, w \in Workers :
    /\ bucket[a][w] # None => limiters[a] # None \/ (At(w, "store") /\ req[w].ip = a)
    /\ bucket[a][w] = None => made[a][w] = 0 /\ passed[a][w] = 0
    /\ made[a][w] <= 1

\* What a limiter let through and what it still holds never exceed a full
\* bucket and what the period earned.
SpentInv ==
  \A a \in Addresses, w \in Workers : bucket[a][w] # None =>
    /\ bucket[a][w].last <= now
    /\ passed[a][w] * TokenTime + Level(bucket[a][w]) <= Burst + (now - since)

-----------------------------------------------------------------------------
\* A full bucket is a number of ticks.
LEMMA BurstNat == Burst \in Nat
  BY DEF Burst

\* Whatever the headers say, an address is found, and it is the one claimed.
LEMMA AddressFound ==
  ASSUME NEW h \in Headers
  PROVE  GetClientIP(h) \in Addresses /\ ClaimedAddress(h) = GetClientIP(h)
<1> DEFINE First3(n) == /\ Claims(h)[n] # None
                        /\ \A m \in 1..(n - 1) : Claims(h)[m] = None
<1>1. /\ h.forwarded # <<>> => Head(h.forwarded) = h.forwarded[1] /\ h.forwarded[1] \in Texts
      /\ h.real \in Texts \cup {None} /\ h.remote \in Addresses
  BY DEF Headers
<1>2. /\ Claims(h)[1] = Forwarded(h) /\ Claims(h)[2] = Parsed(h.real) /\ Claims(h)[3] = h.remote
      /\ Forwarded(h) \in Addresses \cup {None} /\ Parsed(h.real) \in Addresses \cup {None}
      /\ h.remote # None
  BY <1>1, ParseAssumption DEF Claims, Forwarded, Parsed
<1>3. ClaimedAddress(h) = Claims(h)[CHOOSE n \in 1..3 : First3(n)]
  BY DEF ClaimedAddress
<1>4. ASSUME NEW k \in 1..3, First3(k) PROVE ClaimedAddress(h) = Claims(h)[k]
  <2>1. \A n \in 1..3 : First3(n) => n = k
    <3> SUFFICES ASSUME NEW n \in 1..3, First3(n), n # k PROVE FALSE
      OBVIOUS
    <3>1. CASE n < k
      <4>1. n \in 1..(k - 1)
        BY <3>1
      <4> QED BY <4>1, <1>4
    <3>2. CASE k < n
      <4>1. k \in 1..(n - 1)
        BY <3>2
      <4> QED BY <4>1, <1>4
    <3> QED BY <3>1, <3>2
  <2>2. (CHOOSE n \in 1..3 : First3(n)) = k
    <3> HIDE DEF First3
    <3> QED BY <2>1, <1>4
  <2> QED BY <1>3, <2>2
<1>5. CASE Forwarded(h) # None
  <2>1. First3(1)
    BY <1>2, <1>5
  <2> QED BY <2>1, <1>2, <1>4, <1>5 DEF GetClientIP
<1>6. CASE Forwarded(h) = None /\ Parsed(h.real) # None
  <2>1. First3(2)
    BY <1>2, <1>6
  <2> QED BY <2>1, <1>2, <1>4, <1>6 DEF GetClientIP
<1>7. CASE Forwarded(h) = None /\ Parsed(h.real) = None
  <2>1. First3(3)
    BY <1>2, <1>7
  <2> QED BY <2>1, <1>1, <1>2, <1>4, <1>7 DEF GetClientIP
<1> QED BY <1>5, <1>6, <1>7

LEMMA Arrival ==
  ASSUME NEW r \in Arrivals
  PROVE  r.ip \in Addresses /\ r.claimed = r.ip
<1>1. PICK h \in Headers : r = [ip |-> GetClientIP(h), claimed |-> ClaimedAddress(h)]
  BY DEF Arrivals
<1> QED BY <1>1, AddressFound

\* A new limiter is one.
LEMMA NewLimiterType ==
  ASSUME now \in Nat
  PROVE  NewLimiter \in Limiter /\ NewLimiter # None
  BY BurstNat, NoneIsNoRecord DEF NewLimiter, Limiter

-----------------------------------------------------------------------------
\* What every step that begins a request does to the requests.
LEMMA BeginRequest ==
  ASSUME TypeOK, NEW w \in Workers, NEW place \in {"store", "allow"},
         NEW r \in Arrivals, NEW l \in Workers, Begin(w, place, r, l)
  PROVE  /\ req' \in [Workers -> Request \cup {None}]
         /\ started' \in Nat
         /\ req[w] = None
         /\ req'[w] # None /\ req'[w].at = place
         /\ req'[w].ip = r.ip /\ req'[w].limiter = l /\ req'[w].claimed = r.ip
         /\ \A v \in Workers : v # w => req'[v] = req[v]
<1> DEFINE q == [at |-> place, ip |-> r.ip, limiter |-> l, claimed |-> r.claimed]
<1>1. q \in Request /\ q # None
  BY Arrival, NoneIsNoRecord DEF Request
<1>2. req' = [req EXCEPT ![w] = q]
  BY DEF Begin
<1>3. q.at = place /\ q.ip = r.ip /\ q.limiter = l /\ q.claimed = r.ip
  BY Arrival
<1> HIDE DEF q
<1>4. req' \in [Workers -> Request \cup {None}] /\ req'[w] = q
      /\ \A v \in Workers : v # w => req'[v] = req[v]
  BY <1>1, <1>2 DEF TypeOK
<1> QED BY <1>1, <1>3, <1>4 DEF TypeOK, Begin

\* Type correctness, action by action.
LEMMA InitType == Init => TypeOK
  BY DEF Init, TypeOK, Fresh, Zero

LEMMA FindLimiterType ==
  ASSUME TypeOK, NEW w \in Workers, FindLimiter(w)
  PROVE  TypeOK'
<1>1. PICK r \in Arrivals :
        /\ limiters[r.ip] # None
        /\ Begin(w, "allow", r, limiters[r.ip])
        /\ UNCHANGED <<now, limiters, bucket, since, passed, made>>
  BY DEF FindLimiter
<1> DEFINE c == r.ip
<1>2. c \in Addresses /\ limiters[c] # None /\ Begin(w, "allow", r, limiters[c])
      /\ UNCHANGED <<now, limiters, bucket, since, passed, made>>
  BY <1>1, Arrival
<1>3. limiters[c] \in Workers
  BY <1>2 DEF TypeOK
<1>4. /\ req' \in [Workers -> Request \cup {None}]
      /\ started' \in Nat
      /\ req'[w].ip = c /\ req'[w].limiter = limiters[c]
      /\ \A v \in Workers : v # w => req'[v] = req[v]
  BY <1>2, <1>3, BeginRequest
<1>5. \A v \in Workers : req'[v] # None => bucket[req'[v].ip][req'[v].limiter] # None
  BY <1>2, <1>4 DEF TypeOK
<1> QED BY <1>2, <1>4, <1>5 DEF TypeOK

LEMMA MakeLimiterType ==
  ASSUME TypeOK, NEW w \in Workers, MakeLimiter(w)
  PROVE  TypeOK'
<1>1. PICK r \in Arrivals :
        /\ limiters[r.ip] = None
        /\ Begin(w, "store", r, w)
        /\ bucket' = [bucket EXCEPT ![r.ip][w] = NewLimiter]
        /\ made' = [made EXCEPT ![r.ip][w] = @ + 1]
        /\ UNCHANGED <<now, limiters, since, passed>>
  BY DEF MakeLimiter
<1> DEFINE c == r.ip
<1>2. /\ c \in Addresses /\ limiters[c] = None
      /\ Begin(w, "store", r, w)
      /\ bucket' = [bucket EXCEPT ![c][w] = NewLimiter]
      /\ made' = [made EXCEPT ![c][w] = @ + 1]
      /\ UNCHANGED <<now, limiters, since, passed>>
  BY <1>1, Arrival
<1>3. NewLimiter \in Limiter /\ NewLimiter # None
  BY NewLimiterType DEF TypeOK
<1>4. /\ req' \in [Workers -> Request \cup {None}]
      /\ started' \in Nat
      /\ req'[w].ip = c /\ req'[w].limiter = w
      /\ \A v \in Workers : v # w => req'[v] = req[v]
  BY <1>2, BeginRequest
<1>5. /\ bucket' \in [Addresses -> [Workers -> Limiter \cup {None}]]
      /\ bucket'[c][w] # None
      /\ \A a \in Addresses, v \in Workers : bucket[a][v] # None => bucket'[a][v] # None
  BY <1>2, <1>3 DEF TypeOK
<1>6. made' \in [Addresses -> [Workers -> Nat]]
  BY <1>2 DEF TypeOK
<1>7. \A v \in Workers : req'[v] # None => bucket'[req'[v].ip][req'[v].limiter] # None
  <2>1. ASSUME NEW v \in Workers, v # w, req'[v] # None
        PROVE  bucket'[req'[v].ip][req'[v].limiter] # None
    <3>1. req[v] # None /\ req[v] \in Request /\ bucket[req[v].ip][req[v].limiter] # None
      BY <2>1, <1>4 DEF TypeOK
    <3> QED BY <3>1, <2>1, <1>4, <1>5 DEF Request
  <2> QED BY <2>1, <1>4, <1>5
<1>8. \A a \in Addresses : limiters'[a] # None => bucket'[a][limiters'[a]] # None
  BY <1>2, <1>5 DEF TypeOK
<1> QED BY <1>2, <1>4, <1>5, <1>6, <1>7, <1>8 DEF TypeOK

LEMMA StoreLimiterType ==
  ASSUME TypeOK, NEW w \in Workers, StoreLimiter(w)
  PROVE  TypeOK'
<1>1. req[w] \in Request /\ bucket[req[w].ip][req[w].limiter] # None
  BY DEF TypeOK, StoreLimiter, At
<1>2. req' \in [Workers -> Request \cup {None}]
  BY <1>1 DEF TypeOK, StoreLimiter, Request
<1>3. \A v \in Workers : req'[v] # None => /\ req[v] # None
                                          /\ req'[v].ip = req[v].ip
                                          /\ req'[v].limiter = req[v].limiter
  BY <1>1 DEF TypeOK, StoreLimiter, At, Request
<1>4. limiters' \in [Addresses -> Workers \cup {None}]
      /\ \A a \in Addresses : limiters'[a] # None => bucket[a][limiters'[a]] # None
  BY <1>1 DEF TypeOK, StoreLimiter, Request
<1> QED BY <1>2, <1>3, <1>4 DEF TypeOK, StoreLimiter

LEMMA AllowType ==
  ASSUME TypeOK, NEW w \in Workers, Allow(w)
  PROVE  TypeOK'
<1> DEFINE a == req[w].ip
           l == req[w].limiter
           b == bucket[a][l]
<1>1. /\ req[w] \in Request /\ b # None /\ b \in Limiter
      /\ a \in Addresses /\ l \in Workers
  BY DEF TypeOK, Allow, At, Request
<1>2. req' \in [Workers -> Request \cup {None}]
      /\ \A v \in Workers : req'[v] # None => req'[v] = req[v] /\ req[v] # None
  BY DEF TypeOK, Allow
<1>3. CASE Level(b) >= TokenTime
           /\ bucket' = [bucket EXCEPT ![a][l] =
                           [level |-> Level(b) - TokenTime, last |-> now]]
           /\ passed' = [passed EXCEPT ![a][l] = @ + 1]
  <2> DEFINE n == [level |-> Level(b) - TokenTime, last |-> now]
  <2>1. Level(b) \in Int /\ Level(b) <= Burst
    BY <1>1, BurstNat DEF Level, Limiter, TypeOK
  <2>2. n \in Limiter /\ n # None
    BY <1>3, <2>1, BurstNat, NoneIsNoRecord DEF Limiter, TypeOK
  <2> HIDE DEF n
  <2>3. /\ bucket' \in [Addresses -> [Workers -> Limiter \cup {None}]]
        /\ \A d \in Addresses, v \in Workers : bucket[d][v] # None => bucket'[d][v] # None
    BY <1>1, <1>3, <2>2 DEF TypeOK, n
  <2>4. passed' \in [Addresses -> [Workers -> Nat]]
    BY <1>1, <1>3 DEF TypeOK
  <2>5. \A v \in Workers : req'[v] # None => bucket'[req'[v].ip][req'[v].limiter] # None
    BY <1>2, <2>3 DEF TypeOK, Request
  <2>6. \A d \in Addresses : limiters[d] # None => bucket'[d][limiters[d]] # None
    BY <2>3 DEF TypeOK
  <2> QED BY <1>2, <2>3, <2>4, <2>5, <2>6 DEF TypeOK, Allow
<1>4. CASE UNCHANGED <<bucket, passed>>
  BY <1>2, <1>4 DEF TypeOK, Allow
<1> QED BY <1>3, <1>4 DEF Allow

LEMMA NextType == TypeOK /\ [Next]_vars => TypeOK'
<1> SUFFICES ASSUME TypeOK, [Next]_vars
             PROVE  TypeOK'
  OBVIOUS
<1>1. ASSUME NEW w \in Workers,
             FindLimiter(w) \/ MakeLimiter(w) \/ StoreLimiter(w) \/ Allow(w)
      PROVE  TypeOK'
  BY <1>1, FindLimiterType, MakeLimiterType, StoreLimiterType, AllowType
<1>2. CASE Tick
  BY <1>2 DEF Tick, TypeOK
<1>3. CASE BeginPeriod
  BY <1>3 DEF BeginPeriod, TypeOK, Zero
<1>4. CASE Restart
  BY <1>4 DEF Restart, TypeOK, Fresh, Zero
<1>5. CASE UNCHANGED vars
  BY <1>5 DEF vars, TypeOK
<1> QED BY <1>1, <1>2, <1>3, <1>4, <1>5 DEF Next

\* Every variable has its type in every reachable state, and whoever holds a
\* limiter, it exists (RateLimitMiddleware).
THEOREM TypeCorrect == Spec => []TypeOK
<1> QED BY InitType, NextType, PTL DEF Spec

-----------------------------------------------------------------------------
\* The two strengthenings, together: a new limiter replaces none.
LimiterInv == TypeOK /\ MadeInv /\ SpentInv

LEMMA InitLimiter == Init => LimiterInv
<1> SUFFICES ASSUME Init PROVE LimiterInv
  OBVIOUS
<1>1. TypeOK
  BY InitType
<1>2. MadeInv
  BY DEF Init, MadeInv, Fresh, Zero
<1>3. SpentInv
  BY DEF Init, SpentInv, Fresh
<1> QED BY <1>1, <1>2, <1>3 DEF LimiterInv

\* A token more, or one less, is TokenTime more or less.
LEMMA OneToken ==
  ASSUME NEW n \in Nat
  PROVE  (n + 1) * TokenTime = n * TokenTime + TokenTime
  OBVIOUS

LEMMA ProductNat ==
  ASSUME NEW n \in Nat
  PROVE  n * TokenTime \in Nat
  OBVIOUS

\* What a limiter holds, in numbers.
LEMMA LevelBounds ==
  ASSUME NEW b \in Limiter, now \in Nat
  PROVE  /\ Level(b) \in Int
         /\ Level(b) <= Burst
         /\ b.last <= now => Level(b) \in Nat
  BY BurstNat DEF Level, Limiter

LEMMA FindLimiterInv ==
  ASSUME LimiterInv, NEW w \in Workers, FindLimiter(w)
  PROVE  (MadeInv /\ SpentInv)'
<1>1. PICK r \in Arrivals :
        /\ limiters[r.ip] # None
        /\ Begin(w, "allow", r, limiters[r.ip])
        /\ UNCHANGED <<now, limiters, bucket, since, passed, made>>
  BY DEF FindLimiter
<1> DEFINE c == r.ip
<1>2. c \in Addresses /\ limiters[c] # None /\ Begin(w, "allow", r, limiters[c])
      /\ UNCHANGED <<now, limiters, bucket, since, passed, made>>
  BY <1>1, Arrival
<1>3. TypeOK /\ limiters[c] \in Workers
  BY <1>2 DEF LimiterInv, TypeOK
<1>4. /\ req[w] = None
      /\ req'[w].ip = c
      /\ \A v \in Workers : v # w => req'[v] = req[v]
  BY <1>2, <1>3, BeginRequest
<1>5. \A v \in Workers : At(v, "store") => At(v, "store")' /\ req'[v].ip = req[v].ip
  BY <1>4 DEF At
<1>6. MadeInv'
  BY <1>2, <1>5 DEF LimiterInv, MadeInv
<1>7. \A b : Level(b)' = Level(b)
  BY <1>2 DEF Level, Burst
<1>8. SpentInv'
  BY <1>2, <1>4, <1>7 DEF LimiterInv, SpentInv, Burst
<1> QED BY <1>6, <1>8

LEMMA MakeLimiterInv ==
  ASSUME LimiterInv, NEW w \in Workers, MakeLimiter(w)
  PROVE  (MadeInv /\ SpentInv)'
<1>1. PICK r \in Arrivals :
        /\ limiters[r.ip] = None
        /\ Begin(w, "store", r, w)
        /\ bucket' = [bucket EXCEPT ![r.ip][w] = NewLimiter]
        /\ made' = [made EXCEPT ![r.ip][w] = @ + 1]
        /\ UNCHANGED <<now, limiters, since, passed>>
  BY DEF MakeLimiter
<1> DEFINE c == r.ip
<1>2. /\ c \in Addresses /\ limiters[c] = None
      /\ Begin(w, "store", r, w)
      /\ bucket' = [bucket EXCEPT ![c][w] = NewLimiter]
      /\ made' = [made EXCEPT ![c][w] = @ + 1]
      /\ UNCHANGED <<now, limiters, since, passed>>
  BY <1>1, Arrival
<1>3. TypeOK /\ NewLimiter # None
  BY NewLimiterType DEF LimiterInv, TypeOK
<1>4. /\ req[w] = None
      /\ req'[w] # None /\ req'[w].at = "store"
      /\ req'[w].ip = c
      /\ \A v \in Workers : v # w => req'[v] = req[v]
  BY <1>2, <1>3, BeginRequest
<1>5. bucket[c][w] = None
  BY <1>2, <1>4 DEF LimiterInv, MadeInv, At
<1>6. made[c][w] = 0 /\ passed[c][w] = 0
  BY <1>2, <1>5 DEF LimiterInv, MadeInv
<1>7. \A a \in Addresses, v \in Workers :
        IF a = c /\ v = w THEN bucket'[a][v] = NewLimiter /\ made'[a][v] = 1
                          ELSE bucket'[a][v] = bucket[a][v] /\ made'[a][v] = made[a][v]
  BY <1>2, <1>3, <1>6 DEF TypeOK
<1>8. MadeInv'
  <2> SUFFICES ASSUME NEW a \in Addresses, NEW v \in Workers
               PROVE  /\ bucket'[a][v] # None =>
                           limiters'[a] # None \/ (At(v, "store")' /\ req'[v].ip = a)
                      /\ bucket'[a][v] = None => made'[a][v] = 0 /\ passed'[a][v] = 0
                      /\ made'[a][v] <= 1
    BY DEF MadeInv
  <2>1. CASE a = c /\ v = w
    BY <2>1, <1>3, <1>4, <1>7 DEF At
  <2>2. CASE ~(a = c /\ v = w)
    <3>1. bucket'[a][v] = bucket[a][v] /\ made'[a][v] = made[a][v]
      BY <2>2, <1>7
    <3>2. At(v, "store") => At(v, "store")' /\ req'[v].ip = req[v].ip
      BY <1>4 DEF At
    <3> QED BY <3>1, <3>2, <1>2 DEF LimiterInv, MadeInv
  <2> QED BY <2>1, <2>2
<1>9. \A b : Level(b)' = Level(b)
  BY <1>2 DEF Level, Burst
<1>10. SpentInv'
  <2>1. ASSUME NEW a \in Addresses, NEW v \in Workers, bucket'[a][v] # None
        PROVE  /\ bucket'[a][v].last <= now
               /\ passed[a][v] * TokenTime + Level(bucket'[a][v]) <= Burst + (now - since)
    <3>1. CASE a = c /\ v = w
      <4>1. bucket'[a][v] = NewLimiter /\ passed[a][v] = 0
        BY <3>1, <1>6, <1>7
      <4>2. now \in Nat /\ since \in 0..now
        BY <1>3 DEF TypeOK
      <4>3. NewLimiter.last = now /\ NewLimiter \in Limiter
        BY <4>2, NewLimiterType DEF NewLimiter
      <4>4. Level(NewLimiter) \in Int /\ Level(NewLimiter) <= Burst
        BY <4>2, <4>3, LevelBounds
      <4> QED BY <4>1, <4>2, <4>3, <4>4, BurstNat
    <3>2. CASE ~(a = c /\ v = w)
      BY <3>2, <2>1, <1>7 DEF LimiterInv, SpentInv
    <3> QED BY <3>1, <3>2
  <2> QED BY <2>1, <1>2, <1>9 DEF SpentInv, Burst
<1> QED BY <1>8, <1>10

LEMMA StoreLimiterInv ==
  ASSUME LimiterInv, NEW w \in Workers, StoreLimiter(w)
  PROVE  (MadeInv /\ SpentInv)'
<1>1. TypeOK /\ req[w] \in Request /\ req[w] # None
  BY DEF LimiterInv, TypeOK, StoreLimiter, At
<1>2. UNCHANGED <<now, bucket, since, passed, made>>
  BY DEF StoreLimiter
<1>3. /\ limiters'[req[w].ip] = req[w].limiter
      /\ req[w].limiter # None
      /\ \A a \in Addresses : a # req[w].ip => limiters'[a] = limiters[a]
  BY <1>1 DEF StoreLimiter, TypeOK, Request
<1>4. /\ \A v \in Workers : v # w => req'[v] = req[v]
      /\ req'[w].ip = req[w].ip
  BY <1>1 DEF StoreLimiter, TypeOK, Request
<1>5. MadeInv'
  <2> SUFFICES ASSUME NEW a \in Addresses, NEW v \in Workers, bucket[a][v] # None
               PROVE  limiters'[a] # None \/ (At(v, "store")' /\ req'[v].ip = a)
    BY <1>2 DEF LimiterInv, MadeInv
  <2>1. limiters[a] # None \/ (At(v, "store") /\ req[v].ip = a)
    BY DEF LimiterInv, MadeInv
  <2>2. CASE a = req[w].ip
    BY <2>2, <1>3
  <2>3. CASE a # req[w].ip
    <3>1. limiters'[a] = limiters[a]
      BY <2>3, <1>3
    <3>2. At(v, "store") /\ req[v].ip = a => v # w
      BY <2>3
    <3> QED BY <2>1, <3>1, <3>2, <1>4 DEF At
  <2> QED BY <2>2, <2>3
<1>6. \A b : Level(b)' = Level(b)
  BY <1>2 DEF Level, Burst
<1>7. SpentInv'
  BY <1>2, <1>6 DEF LimiterInv, SpentInv, Burst
<1> QED BY <1>5, <1>7

LEMMA AllowInv ==
  ASSUME LimiterInv, NEW w \in Workers, Allow(w)
  PROVE  (MadeInv /\ SpentInv)'
<1> DEFINE a == req[w].ip
           l == req[w].limiter
           b == bucket[a][l]
<1>1. /\ TypeOK /\ req[w] \in Request /\ req[w] # None
      /\ b # None /\ b \in Limiter
      /\ a \in Addresses /\ l \in Workers
  BY DEF LimiterInv, SpentInv, TypeOK, Allow, At, Request
<1>2. now \in Nat /\ since \in 0..now /\ passed[a][l] \in Nat
  BY <1>1 DEF TypeOK
<1>3. \A v \in Workers : At(v, "store") => At(v, "store")' /\ req'[v].ip = req[v].ip
  BY <1>1 DEF Allow, TypeOK, At
<1>4. UNCHANGED <<now, limiters, since, made>>
  BY DEF Allow
<1>5. \A x : Level(x)' = Level(x)
  BY <1>4 DEF Level, Burst
<1>6. CASE UNCHANGED <<bucket, passed>>
  <2>1. MadeInv'
    BY <1>3, <1>4, <1>6 DEF LimiterInv, MadeInv
  <2>2. SpentInv'
    BY <1>4, <1>5, <1>6 DEF LimiterInv, SpentInv, Burst
  <2> QED BY <2>1, <2>2
<1>7. CASE Level(b) >= TokenTime
           /\ bucket' = [bucket EXCEPT ![a][l] =
                           [level |-> Level(b) - TokenTime, last |-> now]]
           /\ passed' = [passed EXCEPT ![a][l] = @ + 1]
  <2> DEFINE n == [level |-> Level(b) - TokenTime, last |-> now]
  <2>1. /\ bucket'[a][l] = n /\ passed'[a][l] = passed[a][l] + 1
        /\ \A d \in Addresses, v \in Workers : ~(d = a /\ v = l) =>
             bucket'[d][v] = bucket[d][v] /\ passed'[d][v] = passed[d][v]
    BY <1>1, <1>7 DEF TypeOK
  <2>2. Level(b) \in Int /\ Level(b) <= Burst
    BY <1>1, <1>2, LevelBounds
  <2>3. n \in Limiter /\ n # None /\ n.last = now /\ n.level = Level(b) - TokenTime
    BY <1>2, <1>7, <2>2, BurstNat, NoneIsNoRecord DEF Limiter
  <2> HIDE DEF n
  <2>4. MadeInv'
    <3> SUFFICES ASSUME NEW d \in Addresses, NEW v \in Workers
                 PROVE  /\ bucket'[d][v] # None =>
                             limiters'[d] # None \/ (At(v, "store")' /\ req'[v].ip = d)
                        /\ bucket'[d][v] = None => made'[d][v] = 0 /\ passed'[d][v] = 0
                        /\ made'[d][v] <= 1
      BY DEF MadeInv
    <3>1. CASE d = a /\ v = l
      BY <3>1, <2>1, <2>3, <1>1, <1>3, <1>4 DEF LimiterInv, MadeInv
    <3>2. CASE ~(d = a /\ v = l)
      <4>1. bucket'[d][v] = bucket[d][v] /\ passed'[d][v] = passed[d][v]
        BY <3>2, <2>1
      <4> QED BY <4>1, <1>3, <1>4 DEF LimiterInv, MadeInv
    <3> QED BY <3>1, <3>2
  <2>5. Level(n) = Level(b) - TokenTime
    BY <1>2, <2>2, <2>3, BurstNat DEF Level
  <2>6. passed[a][l] * TokenTime + Level(b) <= Burst + (now - since)
    BY <1>1 DEF LimiterInv, SpentInv
  <2>7. passed'[a][l] * TokenTime + Level(n) <= Burst + (now - since)
    <3> DEFINE spent == passed[a][l] * TokenTime
    <3>1. spent \in Nat /\ passed'[a][l] * TokenTime = spent + TokenTime
      BY <1>2, <2>1, OneToken, ProductNat
    <3> HIDE DEF spent
    <3>2. spent + Level(b) <= Burst + (now - since)
      BY <2>6 DEF spent
    <3> QED BY <3>1, <3>2, <2>2, <2>5, <1>2, BurstNat
  <2>8. ASSUME NEW d \in Addresses, NEW v \in Workers, bucket'[d][v] # None
        PROVE  /\ bucket'[d][v].last <= now
               /\ passed'[d][v] * TokenTime + Level(bucket'[d][v]) <= Burst + (now - since)
    <3>1. CASE d = a /\ v = l
      BY <3>1, <2>1, <2>3, <2>7, <1>2
    <3>2. CASE ~(d = a /\ v = l)
      <4>1. bucket'[d][v] = bucket[d][v] /\ passed'[d][v] = passed[d][v]
        BY <3>2, <2>1
      <4> QED BY <4>1, <2>8 DEF LimiterInv, SpentInv
    <3> QED BY <3>1, <3>2
  <2>9. SpentInv'
    BY <2>8, <1>4, <1>5 DEF SpentInv, Burst
  <2> QED BY <2>4, <2>9
<1> QED BY <1>6, <1>7 DEF Allow

\* The clock moves on: a limiter earns no more than the period does.
LEMMA TickInv ==
  ASSUME LimiterInv, Tick
  PROVE  (MadeInv /\ SpentInv)'
<1>1. TypeOK /\ now' = now + 1 /\ UNCHANGED <<limiters, bucket, req, since, passed, made>>
  BY DEF LimiterInv, Tick
<1>2. MadeInv'
  BY <1>1 DEF LimiterInv, MadeInv, At
<1> DEFINE Later(b) == IF b.level + (now + 1 - b.last) > Burst THEN Burst
                       ELSE b.level + (now + 1 - b.last)
<1>3. \A b \in Limiter : Level(b)' = Later(b)
  <2>1. ASSUME NEW b \in Limiter
        PROVE  Level(b)' = Later(b)
    <3>1. now' = now + 1 /\ Burst' = Burst
      BY <1>1 DEF Burst
    <3>2. Level(b)' = IF b.level + (now' - b.last) > Burst' THEN Burst'
                      ELSE b.level + (now' - b.last)
      BY DEF Level
    <3>3. now \in Nat /\ Burst \in Nat /\ b.last \in Nat /\ b.level \in Int
      BY <1>1, BurstNat DEF Limiter, TypeOK
    <3> QED BY <3>1, <3>2, <3>3
  <2> QED BY <2>1
<1>4. ASSUME NEW a \in Addresses, NEW w \in Workers, bucket[a][w] # None
      PROVE  /\ bucket[a][w].last <= now + 1
             /\ passed[a][w] * TokenTime + Later(bucket[a][w]) <= Burst + (now + 1 - since)
  <2> DEFINE b == bucket[a][w]
             spent == passed[a][w] * TokenTime
  <2>1. b \in Limiter /\ now \in Nat /\ since \in 0..now /\ passed[a][w] \in Nat
    BY <1>1, <1>4 DEF TypeOK
  <2>2. b.last \in Nat /\ b.level \in Int /\ spent \in Nat
    BY <2>1, ProductNat, BurstNat DEF Limiter
  <2>3. b.last <= now /\ spent + Level(b) <= Burst + (now - since)
    BY <1>4 DEF LimiterInv, SpentInv
  <2> HIDE DEF spent
  <2>4. Later(b) <= Level(b) + 1 /\ Later(b) \in Int /\ Level(b) \in Int
    <3> HIDE DEF b
    <3> QED BY <2>1, <2>2, BurstNat DEF Level
  <2>5. spent + Later(b) <= Burst + (now + 1 - since)
    <3> HIDE DEF b, Later
    <3> QED BY <2>1, <2>2, <2>3, <2>4, BurstNat
  <2>6. b.last <= now + 1
    <3> HIDE DEF b
    <3> QED BY <2>1, <2>2, <2>3
  <2> QED BY <2>5, <2>6 DEF spent
<1>5. SpentInv'
  <2>1. ASSUME NEW a \in Addresses, NEW w \in Workers, bucket'[a][w] # None
        PROVE  /\ bucket'[a][w].last <= now'
               /\ passed'[a][w] * TokenTime + Level(bucket[a][w])'
                    <= Burst + (now' - since')
    <3>1. bucket[a][w] # None /\ bucket[a][w] \in Limiter
      BY <1>1, <2>1 DEF TypeOK
    <3>2. Level(bucket[a][w])' = Later(bucket[a][w])
      BY <3>1, <1>1, <1>3
    <3> HIDE DEF Later
    <3>3. /\ bucket[a][w].last <= now + 1
          /\ passed[a][w] * TokenTime + Later(bucket[a][w]) <= Burst + (now + 1 - since)
      BY <3>1, <1>4
    <3>4. bucket' = bucket /\ passed' = passed /\ since' = since /\ now' = now + 1
      BY <1>1
    <3>5. bucket'[a][w].last <= now'
      BY <3>3, <3>4
    <3>6. passed'[a][w] * TokenTime + Later(bucket[a][w]) <= Burst + (now' - since')
      <4>1. passed'[a][w] * TokenTime = passed[a][w] * TokenTime
        BY <3>4
      <4>2. now \in Nat /\ since \in Nat
        BY <1>1 DEF TypeOK
      <4>3. now' - since' = now + 1 - since
        BY <3>4, <4>2
      <4>4. passed[a][w] * TokenTime + Later(bucket[a][w]) <= Burst + (now + 1 - since)
        BY <3>3
      <4> QED BY <4>1, <4>3, <4>4
    <3> QED BY <3>2, <3>5, <3>6
  <2>2. Burst' = Burst
    BY DEF Burst
  <2> QED BY <2>1, <2>2 DEF SpentInv
<1> QED BY <1>2, <1>5

LEMMA NextLimiter == LimiterInv /\ [Next]_vars => LimiterInv'
<1> SUFFICES ASSUME LimiterInv, [Next]_vars
             PROVE  LimiterInv'
  OBVIOUS
<1>1. TypeOK'
  BY NextType DEF LimiterInv
<1>2. ASSUME NEW w \in Workers,
             FindLimiter(w) \/ MakeLimiter(w) \/ StoreLimiter(w) \/ Allow(w)
      PROVE  (MadeInv /\ SpentInv)'
  BY <1>2, FindLimiterInv, MakeLimiterInv, StoreLimiterInv, AllowInv
<1>3. CASE Tick
  BY <1>1, <1>3, TickInv DEF LimiterInv
<1>4. CASE BeginPeriod
  <2>1. UNCHANGED <<now, limiters, bucket, req, made>>
    BY <1>4 DEF BeginPeriod
  <2>2. MadeInv'
    BY <1>4, <2>1 DEF LimiterInv, MadeInv, BeginPeriod, Zero, At
  <2>3. \A b \in Limiter : Level(b)' = Level(b) /\ Level(b) \in Int /\ Level(b) <= Burst
    BY <2>1, LevelBounds DEF LimiterInv, TypeOK, Level, Burst
  <2>4. \A a \in Addresses, w \in Workers : bucket[a][w] # None => bucket[a][w] \in Limiter
    BY DEF LimiterInv, TypeOK
  <2>5. now \in Nat
    BY DEF LimiterInv, TypeOK
  <2>6. SpentInv'
    BY <1>4, <2>1, <2>3, <2>4, <2>5, BurstNat
       DEF LimiterInv, SpentInv, BeginPeriod, Zero, Burst
  <2> QED BY <1>1, <2>2, <2>6 DEF LimiterInv
<1>5. CASE Restart
  <2>1. MadeInv' /\ SpentInv'
    BY <1>5 DEF Restart, Fresh, Zero, MadeInv, SpentInv
  <2> QED BY <1>1, <2>1 DEF LimiterInv
<1>6. CASE UNCHANGED vars
  <2>1. MadeInv'
    BY <1>6 DEF LimiterInv, MadeInv, vars, At
  <2>2. SpentInv'
    BY <1>6 DEF LimiterInv, SpentInv, vars, Level, Burst
  <2> QED BY <1>1, <2>1, <2>2 DEF LimiterInv
<1> QED BY <1>1, <1>2, <1>3, <1>4, <1>5, <1>6 DEF Next, LimiterInv

THEOREM LimiterInvHolds == Spec => []LimiterInv
<1> QED BY InitLimiter, NextLimiter, PTL DEF Spec

-----------------------------------------------------------------------------
\* One limiter lets through, in any period, a full bucket and what it earned
\* meanwhile, whatever the number of requests at one time (limiter.Allow).
THEOREM LimiterBoundHolds == Spec => []LimiterBound
<1>1. LimiterInv => LimiterBound
  <2> SUFFICES ASSUME LimiterInv, NEW c \in Addresses, NEW l \in Workers
               PROVE  passed[c][l] * TokenTime <= Burst + (now - since)
    BY DEF LimiterBound
  <2>1. now \in Nat /\ since \in 0..now /\ passed[c][l] \in Nat
    BY DEF LimiterInv, TypeOK
  <2>2. CASE bucket[c][l] = None
    BY <2>1, <2>2, BurstNat DEF LimiterInv, MadeInv
  <2>3. CASE bucket[c][l] # None
    <3> DEFINE spent == passed[c][l] * TokenTime
               held  == Level(bucket[c][l])
    <3>1. /\ bucket[c][l] \in Limiter /\ bucket[c][l].last <= now
          /\ spent + held <= Burst + (now - since)
      BY <2>3 DEF LimiterInv, TypeOK, SpentInv
    <3>2. held \in Nat
      BY <2>1, <3>1, LevelBounds
    <3>3. spent \in Nat
      BY <2>1, ProductNat
    <3> HIDE DEF spent, held
    <3>4. spent <= Burst + (now - since)
      BY <2>1, <3>1, <3>2, <3>3, BurstNat
    <3> QED BY <3>4 DEF spent
  <2> QED BY <2>2, <2>3
<1> QED BY <1>1, LimiterInvHolds, PTL

\* Between two restarts a worker makes at most one limiter for an address, so
\* an address never has more buckets than the throttle lets requests in
\* (getRateLimiter).
THEOREM MadeOnceHolds == Spec => []MadeOnce
<1>1. LimiterInv => MadeOnce
  BY DEF LimiterInv, MadeInv, MadeOnce
<1> QED BY <1>1, LimiterInvHolds, PTL

-----------------------------------------------------------------------------
\* A request goes for the buckets of the address it claims.
ClaimInv == \A w \in Workers : req[w] # None => req[w].ip = req[w].claimed

LEMMA ClaimStep ==
  ASSUME TypeOK, ClaimInv, [Next]_vars
  PROVE  ClaimInv'
<1>1. ASSUME NEW w \in Workers, FindLimiter(w)
      PROVE  ClaimInv'
  <2>1. PICK r \in Arrivals : limiters[r.ip] # None /\ Begin(w, "allow", r, limiters[r.ip])
    BY <1>1 DEF FindLimiter
  <2>2. limiters[r.ip] \in Workers
    BY <2>1, Arrival DEF TypeOK
  <2>3. req'[w].ip = req'[w].claimed /\ \A v \in Workers : v # w => req'[v] = req[v]
    BY <2>1, <2>2, BeginRequest
  <2> QED BY <2>3 DEF ClaimInv
<1>2. ASSUME NEW w \in Workers, MakeLimiter(w)
      PROVE  ClaimInv'
  <2>1. PICK r \in Arrivals : Begin(w, "store", r, w)
    BY <1>2 DEF MakeLimiter
  <2>2. req'[w].ip = req'[w].claimed /\ \A v \in Workers : v # w => req'[v] = req[v]
    BY <2>1, BeginRequest
  <2> QED BY <2>2 DEF ClaimInv
<1>3. ASSUME NEW w \in Workers, StoreLimiter(w)
      PROVE  ClaimInv'
  <2>1. req[w] \in Request /\ req[w] # None
    BY <1>3 DEF StoreLimiter, At, TypeOK
  <2>2. /\ req'[w].ip = req[w].ip /\ req'[w].claimed = req[w].claimed
        /\ \A v \in Workers : v # w => req'[v] = req[v]
    BY <1>3, <2>1 DEF StoreLimiter, TypeOK, Request
  <2> QED BY <2>1, <2>2 DEF ClaimInv
<1>4. ASSUME NEW w \in Workers, Allow(w)
      PROVE  ClaimInv'
  BY <1>4 DEF Allow, ClaimInv, TypeOK
<1>5. CASE Tick \/ BeginPeriod \/ UNCHANGED vars
  BY <1>5 DEF Tick, BeginPeriod, vars, ClaimInv
<1>6. CASE Restart
  BY <1>6 DEF Restart, ClaimInv
<1> QED BY <1>1, <1>2, <1>3, <1>4, <1>5, <1>6 DEF Next

\* Requests draw on the buckets of one address exactly if their headers claim
\* the same one, whatever else the headers carry (getClientIP).
THEOREM BucketByClaimHolds == Spec => []BucketByClaim
<1>1. Init => ClaimInv
  BY DEF Init, ClaimInv
<1>2. TypeOK /\ ClaimInv /\ [Next]_vars => ClaimInv'
  BY ClaimStep
<1>3. ClaimInv => BucketByClaim
  BY DEF ClaimInv, BucketByClaim
<1> QED BY <1>1, <1>2, <1>3, TypeCorrect, PTL DEF Spec

-----------------------------------------------------------------------------
\* A step that leaves the map alone, and does not take a request to "store"
\* for a settled address, leaves the address settled.
LEMMA SettledStep ==
  ASSUME TypeOK, [Next]_vars, NEW a \in Addresses, Settled(a)
  PROVE  \/ Settled(a)' /\ limiters'[a] = limiters[a]
         \/ \A b \in Addresses : limiters'[b] = None
<1>1. ASSUME NEW w \in Workers, FindLimiter(w)
      PROVE  Settled(a)' /\ limiters'[a] = limiters[a]
  <2>1. PICK r \in Arrivals :
          /\ limiters[r.ip] # None
          /\ Begin(w, "allow", r, limiters[r.ip])
          /\ UNCHANGED limiters
    BY <1>1 DEF FindLimiter
  <2>2. limiters[r.ip] \in Workers /\ Begin(w, "allow", r, limiters[r.ip]) /\ UNCHANGED limiters
    BY <2>1, Arrival DEF TypeOK
  <2>3. req'[w].at = "allow" /\ \A v \in Workers : v # w => req'[v] = req[v]
    BY <2>2, BeginRequest
  <2> QED BY <2>2, <2>3 DEF Settled, At
<1>2. ASSUME NEW w \in Workers, MakeLimiter(w)
      PROVE  Settled(a)' /\ limiters'[a] = limiters[a]
  <2>1. PICK r \in Arrivals :
          /\ limiters[r.ip] = None
          /\ Begin(w, "store", r, w)
          /\ UNCHANGED limiters
    BY <1>2 DEF MakeLimiter
  <2>2. limiters[r.ip] = None /\ Begin(w, "store", r, w) /\ UNCHANGED limiters
    BY <2>1
  <2>3. req'[w].ip = r.ip /\ \A v \in Workers : v # w => req'[v] = req[v]
    BY <2>2, BeginRequest
  <2> QED BY <2>2, <2>3 DEF Settled, At
<1>3. ASSUME NEW w \in Workers, StoreLimiter(w)
      PROVE  Settled(a)' /\ limiters'[a] = limiters[a]
  <2>1. req[w].ip # a /\ req[w] \in Request
    BY <1>3 DEF Settled, StoreLimiter, At, TypeOK
  <2>2. limiters'[a] = limiters[a]
    BY <1>3, <2>1 DEF StoreLimiter, TypeOK, Request
  <2>3. \A v \in Workers : At(v, "store")' => At(v, "store") /\ req'[v].ip = req[v].ip
    BY <1>3, <2>1 DEF StoreLimiter, TypeOK, Request, At
  <2> QED BY <2>2, <2>3 DEF Settled
<1>4. ASSUME NEW w \in Workers, Allow(w)
      PROVE  Settled(a)' /\ limiters'[a] = limiters[a]
  BY <1>4 DEF Allow, Settled, At, TypeOK
<1>5. CASE Tick \/ BeginPeriod \/ UNCHANGED vars
  BY <1>5 DEF Tick, BeginPeriod, vars, Settled, At
<1>6. CASE Restart
  BY <1>6 DEF Restart
<1> QED BY <1>1, <1>2, <1>3, <1>4, <1>5, <1>6 DEF Next

\* The race of the first requests ends: a settled address keeps its limiter
\* until a restart (getRateLimiter).
THEOREM SettlesOnOneBucketHolds == Spec => SettlesOnOneBucket
<1>1. TypeOK /\ [Next]_vars =>
        [\A a \in Addresses : Settled(a) =>
           \/ Settled(a)' /\ limiters'[a] = limiters[a]
           \/ \A b \in Addresses : limiters'[b] = None]_vars
  BY SettledStep
<1> QED BY <1>1, TypeCorrect, PTL DEF Spec, SettlesOnOneBucket

-----------------------------------------------------------------------------
(* Sums over the limiters of an address *)

\* The element a sum over s takes out first.
First(s) == CHOOSE x \in s : TRUE

\* g sums f over every set in D; Sum is what MapThenSumSet makes of f and S.
IsSum(g, f, D) ==
  g = [s \in D |-> IF s = {} THEN 0 ELSE f[First(s)] + g[s \ {First(s)}]]

Sum(f, S) == (CHOOSE g : IsSum(g, f, SUBSET S))[S]

\* A set that holds 0 and, with a number, the next, holds them all.
LEMMA AllNumbers ==
  ASSUME NEW P, 0 \in P, \A n \in Nat : n \in P => n + 1 \in P
  PROVE  Nat \subseteq P
<1> SUFFICES ASSUME Nat \ P # {} PROVE FALSE
  OBVIOUS
<1>1. PICK m \in Nat \ P : \A n \in Nat \ P : ~(<<n, m>> \in OpToRel(<, Nat))
  <2>1. Nat \ P \subseteq Nat
    OBVIOUS
  <2> QED BY <2>1, NatLessThanWellFounded, WFMin
<1>2. m # 0 /\ m - 1 \in Nat /\ m - 1 \notin P
  <2>1. m # 0 /\ m - 1 \in Nat /\ (m - 1) + 1 = m
    OBVIOUS
  <2> QED BY <2>1
<1>3. <<m - 1, m>> \in OpToRel(<, Nat)
  BY <1>2 DEF OpToRel
<1> QED BY <1>1, <1>2, <1>3

\* The sets a sum over S passes through have one element less at a time.
LEMMA FirstOut ==
  ASSUME NEW s, s # {}, IsFiniteSet(s)
  PROVE  /\ First(s) \in s /\ IsFiniteSet(s \ {First(s)})
         /\ Cardinality(s) \in Nat /\ Cardinality(s \ {First(s)}) \in Nat
         /\ Cardinality(s) = Cardinality(s \ {First(s)}) + 1
<1>1. First(s) \in s
  BY DEF First
<1>2. IsFiniteSet(s \ {First(s)}) /\ Cardinality(s \ {First(s)}) = Cardinality(s) - 1
  BY <1>1, FS_RemoveElement
<1>3. Cardinality(s) \in Nat /\ Cardinality(s \ {First(s)}) \in Nat
  BY <1>2, FS_CardinalityType
<1> QED BY <1>1, <1>2, <1>3

\* There is a function that sums over all subsets of a finite set.
LEMMA SumExists ==
  ASSUME NEW S, IsFiniteSet(S), NEW f
  PROVE  \E g : IsSum(g, f, SUBSET S)
<1> DEFINE D(n) == {s \in SUBSET S : Cardinality(s) <= n}
           P == {n \in Nat : \E g : IsSum(g, f, D(n))}
<1>1. \A s \in SUBSET S : IsFiniteSet(s) /\ Cardinality(s) \in Nat /\ Cardinality(s) <= Cardinality(S)
  BY FS_Subset, FS_CardinalityType
<1>2. 0 \in P
  <2>1. \A s \in D(0) : s = {}
    BY <1>1, FS_EmptySet
  <2>2. IsSum([s \in D(0) |-> 0], f, D(0))
    BY <2>1 DEF IsSum
  <2> QED BY <2>2
<1>3. ASSUME NEW n \in Nat, n \in P PROVE n + 1 \in P
  <2>1. PICK g : IsSum(g, f, D(n))
    BY <1>3
  <2> DEFINE h == [s \in D(n + 1) |->
                     IF s = {} THEN 0 ELSE f[First(s)] + g[s \ {First(s)}]]
  <2>2. ASSUME NEW s \in D(n) PROVE s \in D(n + 1) /\ h[s] = g[s]
    <3>1. s \in D(n + 1)
      BY <1>1
    <3>2. g[s] = IF s = {} THEN 0 ELSE f[First(s)] + g[s \ {First(s)}]
      <4> HIDE DEF D
      <4> QED BY <2>1 DEF IsSum
    <3> QED BY <3>1, <3>2
  <2>3. ASSUME NEW s \in D(n + 1), s # {} PROVE s \ {First(s)} \in D(n)
    <3>1. Cardinality(s) = Cardinality(s \ {First(s)}) + 1 /\ Cardinality(s \ {First(s)}) \in Nat
      BY <1>1, <2>3, FirstOut
    <3> QED BY <1>1, <3>1
  <2>4. \A s \in D(n + 1) :
          h[s] = IF s = {} THEN 0 ELSE f[First(s)] + h[s \ {First(s)}]
    <3> HIDE DEF D
    <3> QED BY <2>2, <2>3
  <2>5. IsSum(h, f, D(n + 1))
    <3>1. h = [s \in D(n + 1) |-> h[s]]
      OBVIOUS
    <3> HIDE DEF h, D
    <3> QED BY <2>4, <3>1 DEF IsSum
  <2>6. \E hh : IsSum(hh, f, D(n + 1))
    <3> HIDE DEF h, D
    <3> QED BY <2>5
  <2> HIDE DEF h, D
  <2> QED BY <2>6
<1>4. Cardinality(S) \in P
  <2> HIDE DEF P
  <2> QED BY <1>1, <1>2, <1>3, AllNumbers, FS_CardinalityType
<1>5. D(Cardinality(S)) = SUBSET S
  BY <1>1
<1> QED BY <1>4, <1>5

\* What MapThenSumSet computes: nothing for the empty set, and one more
\* summand for one more element.
SumsUp(g, f, S) ==
  /\ Sum(f, S) = g[S]
  /\ g[{}] = 0
  /\ \A s \in SUBSET S : s # {} => g[s] = f[First(s)] + g[s \ {First(s)}]

LEMMA SumEquation ==
  ASSUME NEW S, IsFiniteSet(S), NEW f
  PROVE  \E g : SumsUp(g, f, S)
<1> DEFINE g == CHOOSE g : IsSum(g, f, SUBSET S)
<1>1. IsSum(g, f, SUBSET S)
  BY SumExists
<1>2. Sum(f, S) = g[S]
  BY DEF Sum
<1> HIDE DEF g
<1>3. \A s \in SUBSET S : g[s] = IF s = {} THEN 0 ELSE f[First(s)] + g[s \ {First(s)}]
  BY <1>1 DEF IsSum
<1> QED BY <1>2, <1>3 DEF SumsUp

\* Summands that are 0 outside A and at most m in it sum up to at most m for
\* each element of A.
LEMMA SumBound ==
  ASSUME NEW S, IsFiniteSet(S), NEW f \in [S -> Nat], NEW k \in Nat, NEW m \in Nat,
         NEW A \in SUBSET S, \A l \in S : f[l] * k <= m, \A l \in S \ A : f[l] = 0
  PROVE  /\ Sum(f, S) \in Nat
         /\ Sum(f, S) * k <= Cardinality(A) * m
<1>0. PICK g : SumsUp(g, f, S)
  BY SumEquation
<1>1. /\ Sum(f, S) = g[S]
      /\ g[{}] = 0
      /\ \A s \in SUBSET S : s # {} => g[s] = f[First(s)] + g[s \ {First(s)}]
  BY <1>0 DEF SumsUp
<1> DEFINE Good(s) == g[s] \in Nat /\ g[s] * k <= Cardinality(s \cap A) * m
           P == {n \in Nat : \A s \in SUBSET S : Cardinality(s) = n => Good(s)}
<1>2. \A s \in SUBSET S : IsFiniteSet(s) /\ Cardinality(s) \in Nat
  BY FS_Subset, FS_CardinalityType
<1>3. 0 \in P
  <2>1. ASSUME NEW s \in SUBSET S, Cardinality(s) = 0 PROVE Good(s)
    <3>1. s = {} /\ s \cap A = {}
      BY <1>2, <2>1, FS_EmptySet
    <3> QED BY <1>1, <3>1, FS_EmptySet
  <2> QED BY <2>1
<1>4. ASSUME NEW n \in Nat, n \in P PROVE n + 1 \in P
  <2> SUFFICES ASSUME NEW s \in SUBSET S, Cardinality(s) = n + 1 PROVE Good(s)
    <3> HIDE DEF Good
    <3> QED OBVIOUS
  <2> DEFINE x == First(s)
             t == s \ {x}
  <2>1. s # {} /\ IsFiniteSet(s)
    BY <1>2, FS_EmptySet
  <2>2. x \in s /\ t \in SUBSET S /\ Cardinality(t) = n
    <3>1. x \in s /\ Cardinality(t) \in Nat /\ Cardinality(s) = Cardinality(t) + 1
      BY <2>1, FirstOut
    <3> HIDE DEF x
    <3> QED BY <3>1
  <2>3. g[t] \in Nat /\ g[t] * k <= Cardinality(t \cap A) * m
    BY <1>4, <2>2
  <2>4. g[s] = f[x] + g[t] /\ f[x] \in Nat /\ f[x] * k <= m
    BY <1>1, <2>1, <2>2
  <2>5. /\ Cardinality(t \cap A) \in Nat
        /\ Cardinality(s \cap A) = IF x \in A THEN Cardinality(t \cap A) + 1 ELSE Cardinality(t \cap A)
    <3>1. IsFiniteSet(t \cap A) /\ x \notin t \cap A
      BY <1>2, FS_Subset, <2>2
    <3>2. s \cap A = IF x \in A THEN (t \cap A) \cup {x} ELSE t \cap A
      BY <2>2
    <3> QED BY <3>1, <3>2, FS_AddElement, FS_CardinalityType
  <2>6. x \notin A => f[x] = 0
    BY <2>2
  <2> HIDE DEF x, t
  <2>7. g[s] \in Nat /\ g[s] * k = f[x] * k + g[t] * k
    BY <2>3, <2>4
  <2>8. (Cardinality(t \cap A) + 1) * m = Cardinality(t \cap A) * m + m
    BY <2>5
  <2> QED BY <2>3, <2>4, <2>5, <2>6, <2>7, <2>8
<1>5. Cardinality(S) \in P
  <2> HIDE DEF P
  <2> QED BY <1>3, <1>4, AllNumbers, FS_CardinalityType
<1>6. S \cap A = A
  OBVIOUS
<1> QED BY <1>1, <1>5, <1>6

\* It is a number.
LEMMA SumType ==
  ASSUME NEW S, IsFiniteSet(S), NEW f \in [S -> Nat]
  PROVE  Sum(f, S) \in Nat
<1>1. \A l \in S : f[l] * 0 <= 0
  OBVIOUS
<1> QED BY <1>1, SumBound

\* All limiters of an address together let through, in any period, at most a
\* bucket and what it earned for each limiter made for the address, however
\* many there are and whoever sends the requests (getRateLimiter,
\* limiter.Allow).
THEOREM AddressBoundHolds ==
  ASSUME IsFiniteSet(Workers)
  PROVE  Spec => []AddressBound
<1>1. LimiterInv /\ LimiterBound => AddressBound
  <2> SUFFICES ASSUME LimiterInv, LimiterBound, NEW a \in Addresses
               PROVE  PassedOf(a) * TokenTime <= LimitersOf(a) * (Burst + (now - since))
    BY DEF AddressBound
  <2> DEFINE A == {l \in Workers : bucket[a][l] # None}
  <2>1. PICK f \in [Workers -> Nat] : f = passed[a]
    BY DEF LimiterInv, TypeOK
  <2>2. PICK m \in Nat : m = Burst + (now - since)
    BY BurstNat DEF LimiterInv, TypeOK
  <2>3. \A l \in Workers : f[l] * TokenTime <= m
    BY <2>1, <2>2 DEF LimiterBound
  <2>4. \A l \in Workers \ A : f[l] = 0
    BY <2>1 DEF LimiterInv, MadeInv
  <2>5. PICK B \in SUBSET Workers : B = A
    OBVIOUS
  <2>6. Sum(f, Workers) * TokenTime <= Cardinality(B) * m
    <3>1. \A l \in Workers \ B : f[l] = 0
      BY <2>4, <2>5
    <3>2. TokenTime \in Nat
      OBVIOUS
    <3> HIDE DEF A
    <3> QED BY <2>3, <3>1, <3>2, SumBound
  <2>7. PassedOf(a) = Sum(passed[a], Workers)
    BY DEF PassedOf, MapThenSumSet, MapThenFoldSet, Sum, IsSum, First
  <2> QED BY <2>1, <2>2, <2>5, <2>6, <2>7 DEF LimitersOf
<1> QED BY <1>1, LimiterInvHolds, LimiterBoundHolds, PTL

-----------------------------------------------------------------------------
\* No two requests are between the two locks for one address.
NoRace ==
  \A v, w \in Workers :
    v # w /\ At(v, "store") /\ At(w, "store") => req[v].ip # req[w].ip

\* Then no address has two limiters.
OneLimiter ==
  \A a \in Addresses : \A v, w \in Workers :
    bucket[a][v] # None /\ bucket[a][w] # None => v = w

LEMMA OneLimiterStep ==
  ASSUME LimiterInv, OneLimiter, NoRace', [Next]_vars
  PROVE  OneLimiter'
<1>1. ASSUME \A a \in Addresses, v \in Workers : bucket'[a][v] # None => bucket[a][v] # None
      PROVE  OneLimiter'
  BY <1>1 DEF OneLimiter
<1>2. ASSUME NEW w \in Workers, MakeLimiter(w) PROVE OneLimiter'
  <2>1. PICK r \in Arrivals :
          /\ limiters[r.ip] = None
          /\ Begin(w, "store", r, w)
          /\ bucket' = [bucket EXCEPT ![r.ip][w] = NewLimiter]
    BY <1>2 DEF MakeLimiter
  <2> DEFINE c == r.ip
  <2>2. /\ c \in Addresses /\ limiters[c] = None /\ Begin(w, "store", r, w)
        /\ bucket' = [bucket EXCEPT ![c][w] = NewLimiter]
    BY <2>1, Arrival
  <2>3. /\ req'[w] # None /\ req'[w].at = "store" /\ req'[w].ip = c
        /\ \A v \in Workers : v # w => req'[v] = req[v]
    BY <2>2, BeginRequest DEF LimiterInv
  <2>4. ASSUME NEW v \in Workers, v # w PROVE bucket[c][v] = None
    <3>1. ~(At(v, "store") /\ req[v].ip = c)
      BY <2>3, <2>4 DEF NoRace, At
    <3> QED BY <2>2, <3>1 DEF LimiterInv, MadeInv
  <2>5. \A a \in Addresses, v \in Workers :
          bucket'[a][v] # None => bucket[a][v] # None \/ (a = c /\ v = w)
    BY <2>2 DEF LimiterInv, TypeOK
  <2>6. ASSUME NEW a \in Addresses, NEW u \in Workers, NEW v \in Workers,
               bucket'[a][u] # None, bucket'[a][v] # None
        PROVE  u = v
    <3>1. CASE a = c
      BY <2>4, <2>5, <2>6, <3>1
    <3>2. CASE a # c
      BY <2>5, <2>6, <3>2 DEF OneLimiter
    <3> QED BY <3>1, <3>2
  <2> QED BY <2>6 DEF OneLimiter
<1>3. ASSUME NEW w \in Workers, FindLimiter(w) \/ StoreLimiter(w) PROVE OneLimiter'
  BY <1>1, <1>3 DEF FindLimiter, StoreLimiter
<1>4. ASSUME NEW w \in Workers, Allow(w) PROVE OneLimiter'
  <2>1. CASE UNCHANGED bucket
    BY <1>1, <2>1
  <2>2. CASE \E b : bucket' = [bucket EXCEPT ![req[w].ip][req[w].limiter] = b]
    <3>1. bucket[req[w].ip][req[w].limiter] # None
      BY <1>4 DEF LimiterInv, TypeOK, Allow, At
    <3> QED BY <1>1, <2>2, <3>1 DEF LimiterInv, TypeOK
  <2> QED BY <1>4, <2>1, <2>2 DEF Allow
<1>5. CASE Tick \/ BeginPeriod \/ UNCHANGED vars
  BY <1>1, <1>5 DEF Tick, BeginPeriod, vars
<1>6. CASE Restart
  BY <1>6 DEF Restart, Fresh, OneLimiter
<1> QED BY <1>2, <1>3, <1>4, <1>5, <1>6 DEF Next

\* The requests whose headers name an address are let through at the
\* configured rate, after one full bucket, if no two of them make a limiter at
\* once: the gap between the two locks of getRateLimiter is the only way for
\* an address to more buckets.
THEOREM OneBucketPerAddressHolds ==
  ASSUME IsFiniteSet(Workers)
  PROVE  Spec /\ []NoRace => []OneBucketPerAddress
<1>1. Init => OneLimiter
  BY DEF Init, Fresh, OneLimiter
<1>2. LimiterInv /\ OneLimiter /\ NoRace' /\ [Next]_vars => OneLimiter'
  BY OneLimiterStep
<1>3. LimiterInv /\ OneLimiter /\ AddressBound => OneBucketPerAddress
  <2> SUFFICES ASSUME LimiterInv, OneLimiter, AddressBound, NEW a \in Addresses
               PROVE  PassedOf(a) * TokenTime <= Burst + (now - since)
    BY DEF OneBucketPerAddress
  <2> DEFINE A == {l \in Workers : bucket[a][l] # None}
  <2>1. Cardinality(A) \in {0, 1}
    <3>1. CASE A = {}
      BY <3>1, FS_EmptySet
    <3>2. CASE A # {}
      <4>1. PICK l \in A : TRUE
        BY <3>2
      <4>2. A = {l}
        BY DEF OneLimiter
      <4> QED BY <4>2, FS_Singleton
    <3> QED BY <3>1, <3>2
  <2>2. Burst + (now - since) \in Nat
    BY BurstNat DEF LimiterInv, TypeOK
  <2>3. PassedOf(a) * TokenTime <= Cardinality(A) * (Burst + (now - since))
    BY DEF AddressBound, LimitersOf
  <2>4. PassedOf(a) \in Nat
    <3>1. PICK f \in [Workers -> Nat] : f = passed[a]
      BY DEF LimiterInv, TypeOK
    <3>2. Sum(f, Workers) \in Nat
      BY SumType
    <3>3. PassedOf(a) = Sum(passed[a], Workers)
      BY DEF PassedOf, MapThenSumSet, MapThenFoldSet, Sum, IsSum, First
    <3> QED BY <3>1, <3>2, <3>3
  <2>5. PassedOf(a) * TokenTime \in Nat
    BY <2>4
  <2> HIDE DEF A
  <2> QED BY <2>1, <2>2, <2>3, <2>5
<1> QED BY <1>1, <1>2, <1>3, LimiterInvHolds, AddressBoundHolds, PTL DEF Spec
=============================================================================
