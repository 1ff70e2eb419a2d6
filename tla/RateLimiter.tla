----------------------------- MODULE RateLimiter -----------------------------
(***************************************************************************)
(* A token bucket per client address, refilled when it is looked at, and   *)
(* the job that drops buckets nobody has touched for a while.  A tick      *)
(* refills one unit of a bucket; a request takes Cost units.               *)
(***************************************************************************)
EXTENDS Integers, Sequences

CONSTANTS
    IP,           \* client addresses
    Proxies,      \* addresses of the trusted reverse proxies
    Unreadable,   \* entries of the header that are not an address
    Cost,         \* units a request takes
    Burst,        \* requests a full bucket lets through
    IdleAfter,    \* the age at which a bucket is dropped
    NoBucket

MaxTokens == Burst * Cost

\* A bucket that is dropped had the time to fill up.
ASSUME LimiterAssumption ==
    /\ Cost \in Nat \ {0} /\ Burst \in Nat \ {0} /\ MaxTokens \in Nat
    /\ IdleAfter \in Nat /\ IdleAfter >= MaxTokens
    /\ NoBucket \notin [tokens : Nat, lastRefill : Nat]

VARIABLES
    now,
    buckets,   \* by address; NoBucket where the map has no entry
    cutoff,    \* the age limit a Cleanup has computed and not yet applied, or -1
    \* history
    kept       \* the buckets of a limiter that is never cleaned

limiterVars == <<buckets, cutoff, kept>>

Full == [tokens |-> MaxTokens, lastRefill |-> now]
\* The bucket allow finds or makes.
Bucket(ip) == IF buckets[ip] = NoBucket THEN Full ELSE buckets[ip]
Capped(t) == IF t > MaxTokens THEN MaxTokens ELSE t
\* Slip: what has trickled in is not capped.
refillUncapped(b) == [tokens |-> b.tokens + (now - b.lastRefill), lastRefill |-> now]
\* Slip: the time is counted again at the next look.
refillAgain(b) == [tokens |-> Capped(b.tokens + (now - b.lastRefill)), lastRefill |-> b.lastRefill]
refill(b) == [tokens |-> Capped(b.tokens + (now - b.lastRefill)), lastRefill |-> now]
Passes(b) == refill(b).tokens >= Cost
Taken(b) == IF Passes(b) THEN [refill(b) EXCEPT !.tokens = @ - Cost] ELSE refill(b)

LimiterInit ==
    /\ now = 0
    /\ buckets = [ip \in IP |-> NoBucket]
    /\ cutoff = -1
    /\ kept = [ip \in IP |-> [tokens |-> MaxTokens, lastRefill |-> 0]]

\* A request is let through or turned away; either way its bucket is touched.
allow(ip) ==
    /\ buckets' = [buckets EXCEPT ![ip] = Taken(Bucket(ip))]
    /\ kept' = [kept EXCEPT ![ip] = Taken(@)]
    /\ UNCHANGED <<now, cutoff>>

\* Cleanup reads the clock before it takes the lock.
CleanupBegin ==
    /\ cutoff = -1
    /\ now >= IdleAfter
    /\ cutoff' = now - IdleAfter
    /\ UNCHANGED <<now, buckets, kept>>

\* Slip: a bucket goes when it is empty.
CleanupEmpty ==
    /\ cutoff >= 0
    /\ buckets' = [ip \in IP |->
          IF buckets[ip] # NoBucket /\ buckets[ip].tokens = 0 THEN NoBucket ELSE buckets[ip]]
    /\ cutoff' = -1
    /\ UNCHANGED <<now, kept>>

CleanupSweep ==
    /\ cutoff >= 0
    /\ buckets' = [ip \in IP |->
          IF buckets[ip] # NoBucket /\ buckets[ip].lastRefill < cutoff
          THEN NoBucket ELSE buckets[ip]]
    /\ cutoff' = -1
    /\ UNCHANGED <<now, kept>>

-----------------------------------------------------------------------------
(* clientIP: the address a request is counted under.                       *)

Places(f) == {i \in DOMAIN f : f[i] \notin Proxies}
Rightmost(P) == CHOOSE i \in P : \A j \in P : j <= i
\* The peer, unless it is a trusted proxy whose header names an address: the
\* last entry that is not itself a trusted proxy's.
clientIP(peer, forwarded) ==
    IF peer \notin Proxies \/ Places(forwarded) = {} THEN peer
    ELSE LET e == forwarded[Rightmost(Places(forwarded))]
         IN IF e \in Unreadable THEN peer ELSE e

-----------------------------------------------------------------------------
BucketType == [tokens : 0 .. MaxTokens, lastRefill : Nat]

\* Buckets and clock stay within their ranges.
LimiterTypeOK ==
    /\ now \in Nat
    /\ buckets \in [IP -> BucketType \union {NoBucket}]
    /\ kept \in [IP -> BucketType]
    /\ \A ip \in IP : kept[ip].lastRefill <= now
    /\ cutoff \in Nat \union {-1}
    /\ cutoff # -1 => cutoff + IdleAfter <= now

\* Dropping idle buckets changes no answer: for every client the next request
\* is let through or turned away as by a limiter that forgets nobody, and
\* leaves as much behind, wherever between two requests a Cleanup strikes.
CleanupInvisible == \A ip \in IP : refill(Bucket(ip)).tokens = refill(kept[ip]).tokens
=============================================================================
