---------------------------- MODULE RateLimiter ----------------------------
(***************************************************************************)
(* The rate limiter of the authentication endpoints (internal/auth.go):    *)
(* RateLimitMiddleware takes an address from the request's headers, takes  *)
(* the limiter of that address from a map, or makes one, and asks it for a *)
(* token.                                                                  *)
(*                                                                         *)
(* The headers are believed whoever sends them: a bucket belongs to the    *)
(* address the headers name, and nothing here is said of a peer or person. *)
(*                                                                         *)
(* The map is read under a read lock and written later under a write lock. *)
(* A request that found no limiter makes one before it takes the second    *)
(* lock and stores it without looking again, so requests that start        *)
(* together may each make one.  A worker is one of the requests that       *)
(* Throttle lets into the service at the same time.                        *)
(***************************************************************************)
EXTENDS Integers, Sequences, FiniteSetsExt

CONSTANTS
  Addresses,         \* addresses, in the form IP.String writes them
  Texts,             \* what a header may say
  ParseIP,           \* the address a text stands for, None if it is none
  Workers,           \* requests in the service at one time, main.go: Throttle(100)
  None,              \* no limiter, no request, no header
  RequestsPerMinute, \* RATE_LIMIT_REQUESTS_PER_MINUTE (5)
  TokenTime,         \* ticks in which a limiter earns one token
  MaxTime,           \* bound: the clock stops here
  MaxRequests        \* bound: requests accepted in a behaviour

ASSUME NumberAssumption ==
  /\ RequestsPerMinute \in Nat \ {0}
  /\ TokenTime \in Nat \ {0}
  /\ MaxTime \in Nat
  /\ MaxRequests \in Nat

ASSUME ValueAssumption == None \notin Addresses \cup Workers \cup Texts

ASSUME ParseAssumption == ParseIP \in [Texts -> Addresses \cup {None}]

VARIABLES
  now,      \* time.Now()
  limiters, \* the map: the worker whose limiter an address is given to
  bucket,   \* every limiter there is, by address and the worker that made it
  req,      \* the request each worker is in the middle of
  started,  \* requests accepted so far
  \* For the properties only:
  since,    \* start of a period in which passed requests are counted
  passed,   \* requests that each limiter of an address let through in it
  made      \* limiters each worker has made for an address in this process

vars == <<now, limiters, bucket, req, started, since, passed, made>>

-----------------------------------------------------------------------------
(* The address of a request *)

\* What a request from any peer may carry: X-Forwarded-For with no, one or
\* two entries, X-Real-IP or none, and the peer's own address.
Headers ==
  [forwarded: {<<>>} \cup {<<t>> : t \in Texts} \cup Texts \X Texts,
   real: Texts \cup {None}, remote: Addresses]

Parsed(t) == IF t = None THEN None ELSE ParseIP[t]

\* What the first entry of X-Forwarded-For says.
Forwarded(h) == IF h.forwarded = <<>> THEN None ELSE ParseIP[Head(h.forwarded)]

\* Mutant: a list that begins with no address is taken for the proxy's.
GetClientIPGivesUp(h) ==
  CASE Forwarded(h) # None -> Forwarded(h)
    [] Forwarded(h) = None /\ h.forwarded = <<>> /\ Parsed(h.real) # None -> Parsed(h.real)
    [] OTHER -> h.remote

\* The first forwarded entry if it is an address (a list that begins with
\* something else is no address as a whole either), X-Real-IP, the peer.
GetClientIP(h) ==
  CASE Forwarded(h) # None -> Forwarded(h)
    [] Forwarded(h) = None /\ Parsed(h.real) # None -> Parsed(h.real)
    [] OTHER -> h.remote

\* For the properties: the address a request claims, whichever of the three
\* places it names it in, the nearest to the client first.
Claims(h) ==
  << IF h.forwarded = <<>> THEN None ELSE ParseIP[h.forwarded[1]],
     IF h.real = None THEN None ELSE ParseIP[h.real],
     h.remote >>

ClaimedAddress(h) ==
  Claims(h)[CHOOSE n \in 1..3 : /\ Claims(h)[n] # None
                                /\ \A m \in 1..(n - 1) : Claims(h)[m] = None]

\* What the middleware makes of the requests it may be sent.
Arrivals == {[ip |-> GetClientIP(h), claimed |-> ClaimedAddress(h)] : h \in Headers}

-----------------------------------------------------------------------------
(* A limiter: golang.org/x/time/rate, counting in 1/TokenTime of a token *)

Burst == RequestsPerMinute * TokenTime

Limiter == [level: 0..Burst, last: Nat]

NewLimiter == [level |-> Burst, last |-> now]

\* What a limiter holds by now: it earns with the time and never overflows.
Level(b) == IF b.level + (now - b.last) > Burst THEN Burst
            ELSE b.level + (now - b.last)

-----------------------------------------------------------------------------
Request == [at: {"store", "allow"}, ip: Addresses, limiter: Workers, claimed: Addresses]

ASSUME NoneIsNoRecord == None \notin Request \cup Limiter

Fresh == [a \in Addresses |-> [w \in Workers |-> None]]
Zero  == [a \in Addresses |-> [w \in Workers |-> 0]]

Init ==
  /\ now = 0
  /\ limiters = [a \in Addresses |-> None]
  /\ bucket = Fresh
  /\ req = [w \in Workers |-> None]
  /\ started = 0
  /\ since = 0
  /\ passed = Zero
  /\ made = Zero

Begin(w, place, r, limiter) ==
  /\ req[w] = None
  /\ started < MaxRequests
  /\ started' = started + 1
  /\ req' = [req EXCEPT ![w] = [at |-> place, ip |-> r.ip, limiter |-> limiter,
                                claimed |-> r.claimed]]

At(w, place) == req[w] # None /\ req[w].at = place

\* The map has a limiter for the address.
FindLimiter(w) ==
  \E r \in Arrivals :
    /\ limiters[r.ip] # None
    /\ Begin(w, "allow", r, limiters[r.ip])
    /\ UNCHANGED <<now, limiters, bucket, since, passed, made>>

\* Mutant: the limiter of an idle address is made anew.
MakeLimiterIdle(w) ==
  \E r \in Arrivals :
    /\ limiters[r.ip] # None => Level(bucket[r.ip][limiters[r.ip]]) = Burst
    /\ Begin(w, "store", r, w)
    /\ bucket' = [bucket EXCEPT ![r.ip][w] = NewLimiter]
    /\ made' = [made EXCEPT ![r.ip][w] = @ + 1]
    /\ UNCHANGED <<now, limiters, since, passed>>

\* Mutant: the look-up is not used.
MakeLimiterAlways(w) ==
  \E r \in Arrivals :
    /\ Begin(w, "store", r, w)
    /\ bucket' = [bucket EXCEPT ![r.ip][w] = NewLimiter]
    /\ made' = [made EXCEPT ![r.ip][w] = @ + 1]
    /\ UNCHANGED <<now, limiters, since, passed>>

\* It has none: the request makes one, full, which nobody else can see yet.
MakeLimiter(w) ==
  \E r \in Arrivals :
    /\ limiters[r.ip] = None
    /\ Begin(w, "store", r, w)
    /\ bucket' = [bucket EXCEPT ![r.ip][w] = NewLimiter]
    /\ made' = [made EXCEPT ![r.ip][w] = @ + 1]
    /\ UNCHANGED <<now, limiters, since, passed>>

\* Mutant: the limiter made is a variable of the block, the request has none.
StoreLimiterShadowed(w) ==
  /\ At(w, "store")
  /\ limiters' = [limiters EXCEPT ![req[w].ip] = req[w].limiter]
  /\ req' = [req EXCEPT ![w].at = "allow", ![w].limiter = None]
  /\ UNCHANGED <<now, bucket, started, since, passed, made>>

\* ... and stores it, over one that another request has stored meanwhile.
StoreLimiter(w) ==
  /\ At(w, "store")
  /\ limiters' = [limiters EXCEPT ![req[w].ip] = req[w].limiter]
  /\ req' = [req EXCEPT ![w].at = "allow"]
  /\ UNCHANGED <<now, bucket, started, since, passed, made>>

\* Mutant: the handler goes on after it has answered 429.
AllowGoesOn(w) ==
  LET ip == req[w].ip
      l  == req[w].limiter
      b  == bucket[ip][l]
  IN
  /\ At(w, "allow")
  /\ req' = [req EXCEPT ![w] = None]
  /\ IF Level(b) >= TokenTime
     THEN bucket' = [bucket EXCEPT ![ip][l] =
                       [level |-> Level(b) - TokenTime, last |-> now]]
     ELSE UNCHANGED bucket
  /\ passed' = [passed EXCEPT ![ip][l] = @ + 1]
  /\ UNCHANGED <<now, limiters, started, since, made>>

\* limiter.Allow: one token, or 429; a refusal leaves the limiter as it is.
Allow(w) ==
  LET ip == req[w].ip
      l  == req[w].limiter
      b  == bucket[ip][l]
  IN
  /\ At(w, "allow")
  /\ req' = [req EXCEPT ![w] = None]
  /\ \/ /\ Level(b) >= TokenTime
        /\ bucket' = [bucket EXCEPT ![ip][l] =
                        [level |-> Level(b) - TokenTime, last |-> now]]
        /\ passed' = [passed EXCEPT ![ip][l] = @ + 1]
     \/ Level(b) < TokenTime /\ UNCHANGED <<bucket, passed>>
  /\ UNCHANGED <<now, limiters, started, since, made>>

-----------------------------------------------------------------------------
(* The environment *)

Tick ==
  /\ now < MaxTime
  /\ now' = now + 1
  /\ UNCHANGED <<limiters, bucket, req, started, since, passed, made>>

\* A period begins; the properties hold for whichever it is.
BeginPeriod ==
  /\ since' = now
  /\ passed' = Zero
  /\ UNCHANGED <<now, limiters, bucket, req, started, made>>

\* The process restarts: the map is gone, and a new period begins with it.
Restart ==
  /\ limiters' = [a \in Addresses |-> None]
  /\ bucket' = Fresh
  /\ req' = [w \in Workers |-> None]
  /\ made' = Zero
  /\ since' = now
  /\ passed' = Zero
  /\ UNCHANGED <<now, started>>

Next ==
  \/ \E w \in Workers :
       FindLimiter(w) \/ MakeLimiter(w) \/ StoreLimiter(w) \/ Allow(w)
  \/ Tick \/ BeginPeriod \/ Restart

Spec == Init /\ [][Next]_vars
-----------------------------------------------------------------------------
(* Properties *)

\* Every variable has its type; whoever holds a limiter, it exists.
TypeOK ==
  /\ now \in Nat
  /\ limiters \in [Addresses -> Workers \cup {None}]
  /\ bucket \in [Addresses -> [Workers -> Limiter \cup {None}]]
  /\ req \in [Workers -> Request \cup {None}]
  /\ started \in Nat
  /\ since \in 0..now
  /\ passed \in [Addresses -> [Workers -> Nat]]
  /\ made \in [Addresses -> [Workers -> Nat]]
  /\ \A a \in Addresses : limiters[a] # None => bucket[a][limiters[a]] # None
  /\ \A w \in Workers : req[w] # None => bucket[req[w].ip][req[w].limiter] # None

\* In a period of any length, one limiter lets through a full bucket and what
\* it earned meanwhile, however its callers interleave (limiter.Allow).
LimiterBound ==
  \A a \in Addresses, l \in Workers :
    passed[a][l] * TokenTime <= Burst + (now - since)

\* Two requests under way draw on the buckets of one address exactly if their
\* headers claim the same one, however it is written and in whichever header:
\* an entry that is no address neither hides the one behind it nor throws its
\* clients into the bucket of their proxy (getClientIP).
BucketByClaim ==
  \A v, w \in Workers : req[v] # None /\ req[w] # None =>
    (req[v].ip = req[w].ip <=> req[v].claimed = req[w].claimed)

\* A worker makes at most one limiter for an address: the throttle's limit is
\* also the limit of the buckets an address can get by starting many requests
\* at once (getRateLimiter).
MadeOnce == \A a \in Addresses, w \in Workers : made[a][w] <= 1

\* Once an address has a limiter and nobody is about to store another, no
\* request ever gets a new bucket for it: the race is over with the first
\* requests and only a restart opens it again (getRateLimiter).
Settled(a) ==
  limiters[a] # None /\ \A w \in Workers : At(w, "store") => req[w].ip # a

SettlesOnOneBucket ==
  [][\A a \in Addresses : Settled(a) =>
       \/ Settled(a)' /\ limiters'[a] = limiters[a]
       \/ \A b \in Addresses : limiters'[b] = None]_vars

\* All limiters of an address together let through no more than as many
\* buckets as were made for it, whoever sends the requests (getRateLimiter).
PassedOf(a) == MapThenSumSet(LAMBDA l : passed[a][l], Workers)

LimitersOf(a) == Cardinality({l \in Workers : bucket[a][l] # None})

AddressBound ==
  \A a \in Addresses :
    PassedOf(a) * TokenTime <= LimitersOf(a) * (Burst + (now - since))

\* Requests of one address are let through at the configured rate, after one
\* bucket at most ("5 requests per minute per IP", getRateLimiter).
OneBucketPerAddress ==
  \A a \in Addresses : PassedOf(a) * TokenTime <= Burst + (now - since)
=============================================================================
