------------------------------- MODULE RateLimits -------------------------------
(***************************************************************************)
(* A rate limiter: a token bucket per key in a map of bounded size, idle   *)
(* buckets evicted by a ticker and by a lookup that finds the map full, and *)
(* one shared bucket for keys that get no entry.                           *)
(*                                                                         *)
(* A request takes its bucket from the map under the mutex and a token from *)
(* the bucket after it, so the bucket may be evicted in between.           *)
(***************************************************************************)
EXTENDS Naturals, FiniteSets

CONSTANTS
    LimitKey,       \* addresses, e-mails, mentors: what requests are counted by
    LimitRequest,   \* requests in the middleware at one time
    MaxVisitors,    \* entries of the map
    Burst,          \* tokens of a full bucket
    Limiter,        \* buckets: one more than keys and requests suffices
    SharedLimiter, NoLimiter

ASSUME LimitAssumption ==
    /\ MaxVisitors \in Nat /\ Burst \in Nat \ {0}
    /\ SharedLimiter \notin Limiter /\ NoLimiter \notin Limiter \cup {SharedLimiter}

\* A new bucket can always be allocated.
ASSUME FreshAssumption ==
    \A held \in [LimitKey -> Limiter \cup {NoLimiter}],
       taken \in [LimitRequest -> Limiter \cup {SharedLimiter, NoLimiter}] :
       \E l \in Limiter : (\A k \in LimitKey : held[k] # l) /\ (\A q \in LimitRequest : taken[q] # l)

VARIABLES
    visitors,   \* the map: the bucket of a key
    tokens,     \* what is left in a bucket
    bucketOf,    \* requests between the lookup and the token
    spare       \* history: what a bucket of the key's own, never evicted, holds

limitVars == <<visitors, tokens, bucketOf, spare>>

NoLimitRequest == [key |-> NoLimiter, limiter |-> NoLimiter]

LimitInit ==
    /\ visitors = [k \in LimitKey |-> NoLimiter]
    /\ tokens = [l \in Limiter \cup {SharedLimiter} |-> Burst]
    /\ bucketOf = [q \in LimitRequest |-> NoLimitRequest]
    /\ spare = [k \in LimitKey |-> Burst]

Entries(map) == {k \in LimitKey : map[k] # NoLimiter}

\* A slip: entries that may still let a request through count as idle.
IdleEntryEarly(k) == tokens[visitors[k]] > 0

\* Limiter.Tokens() >= b, for the bucket of an entry.
IdleEntry(k) == tokens[visitors[k]] >= Burst

\* evictIdleLocked.
Evicted == [k \in LimitKey |->
    IF visitors[k] # NoLimiter /\ IdleEntry(k) THEN NoLimiter ELSE visitors[k]]

\* A bucket nobody refers to: that of a new entry.
FreeLimiter == CHOOSE l \in Limiter : /\ \A k \in LimitKey : visitors[k] # l
                                      /\ \A q \in LimitRequest : bucketOf[q].limiter # l

\* getVisitor, under the mutex.  Keys that are missing, blank or too long pass
\* without it.
GetVisitor(q, k) ==
    LET kept == IF Cardinality(Entries(visitors)) >= MaxVisitors THEN Evicted ELSE visitors
        full == Cardinality(Entries(kept)) >= MaxVisitors
        l    == IF visitors[k] # NoLimiter THEN visitors[k]
                ELSE IF full THEN SharedLimiter ELSE FreeLimiter
    IN
    /\ bucketOf[q] = NoLimitRequest
    /\ bucketOf' = [bucketOf EXCEPT ![q] = [key |-> k, limiter |-> l]]
    /\ IF visitors[k] # NoLimiter
         THEN UNCHANGED <<visitors, tokens>>
         ELSE /\ visitors' = IF full THEN kept ELSE [kept EXCEPT ![k] = l]
              /\ tokens' = IF full THEN tokens ELSE [tokens EXCEPT ![l] = Burst]
    /\ UNCHANGED spare

OwnLimiter(q) == visitors[bucketOf[q].key] = bucketOf[q].limiter

\* Allow: a token, or 429.
Allow(q) ==
    LET l == bucketOf[q].limiter  k == bucketOf[q].key IN
    /\ bucketOf[q] # NoLimitRequest
    /\ bucketOf' = [bucketOf EXCEPT ![q] = NoLimitRequest]
    /\ IF tokens[l] > 0
         THEN /\ tokens' = [tokens EXCEPT ![l] = @ - 1]
              /\ spare' = IF OwnLimiter(q) /\ spare[k] > 0
                          THEN [spare EXCEPT ![k] = @ - 1] ELSE spare
         ELSE UNCHANGED <<tokens, spare>>
    /\ UNCHANGED visitors

\* cleanupVisitors, every minute.
CleanUp ==
    /\ visitors' = Evicted
    /\ UNCHANGED <<tokens, bucketOf, spare>>

\* A slip: a bucket goes on filling past the burst.
RefillPastBurst ==
    /\ tokens' = [l \in DOMAIN tokens |-> IF tokens[l] <= Burst THEN tokens[l] + 1 ELSE Burst]
    /\ spare' = [k \in LimitKey |-> IF spare[k] < Burst THEN spare[k] + 1 ELSE Burst]
    /\ UNCHANGED <<visitors, bucketOf>>

\* Time: every bucket gains at the same rate, up to the burst.
Refill ==
    /\ tokens' = [l \in DOMAIN tokens |-> IF tokens[l] < Burst THEN tokens[l] + 1 ELSE Burst]
    /\ spare' = [k \in LimitKey |-> IF spare[k] < Burst THEN spare[k] + 1 ELSE Burst]
    /\ UNCHANGED <<visitors, bucketOf>>

LimitNext ==
    \/ \E q \in LimitRequest : Allow(q) \/ \E k \in LimitKey : GetVisitor(q, k)
    \/ CleanUp \/ Refill

LimitSpec == LimitInit /\ [][LimitNext]_limitVars

-----------------------------------------------------------------------------
(* Properties.                                                             *)

LimitTypeOK ==
    /\ visitors \in [LimitKey -> Limiter \cup {NoLimiter}]
    /\ tokens \in [Limiter \cup {SharedLimiter} -> 0 .. Burst]
    /\ bucketOf \in [LimitRequest -> [key : LimitKey \cup {NoLimiter},
                                     limiter : Limiter \cup {SharedLimiter, NoLimiter}]]
    /\ spare \in [LimitKey -> 0 .. Burst]
    /\ Cardinality(Entries(visitors)) <= MaxVisitors

\* Dropping and making entries again gives no key a token more, nor takes one
\* from it: a request answered by its key's entry is let through exactly when
\* a bucket that was never evicted would let it (evictIdleLocked drops only
\* full buckets).  What is not covered are requests that lost their entry
\* between lookup and token, and those on the shared bucket.
EvictionIsFair ==
    [][\A q \in LimitRequest :
          bucketOf[q] # NoLimitRequest /\ bucketOf'[q] = NoLimitRequest /\ OwnLimiter(q) =>
              (tokens' # tokens <=> spare[bucketOf[q].key] > 0)]_limitVars

\* No two keys share a bucket of the map, whatever was evicted while requests
\* still held it.
BucketsApart ==
    \A j, k \in Entries(visitors) : j # k => visitors[j] # visitors[k]
================================================================================
