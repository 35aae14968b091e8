---------------------------- MODULE RateLimiter -----------------------------
(*****************************************************************************)
(* What a request passes before its handler: the size of its body, the rate  *)
(* it is counted against, and the console's form token.  A bucket of tokens  *)
(* is kept per caller, the bearer's token or else the address, and refills   *)
(* with time; buckets nobody has used for long are swept away once there are *)
(* many.  A request looks its bucket up under the limiter's lock and spends  *)
(* from it under the bucket's own, so another may sweep the bucket away in   *)
(* between.  Tokens are counted in parts, PerMinute to the token, so that a  *)
(* tick refills capacity parts.                                              *)
(*****************************************************************************)
EXTENDS Integers, Sequences, FiniteSets

CONSTANTS
    Peer,           \* addresses requests come from
    TrustedProxy,   \* those of them whose X-Forwarded-For is believed
    Bearer,         \* tokens requests carry
    Visitor,        \* the requests that may be between their lookup and their spending
    RequestsPerMinute, AuthPerMinute,
    PerMinute,      \* ticks in a minute
    IdleAfter, SweepEvery, SweepAbove,
    LastTick,       \* bound on the clock
    MaxBuckets,     \* bound on the buckets made
    MaxPassed       \* bound on the requests let through

\* A bucket is forgotten only when it has had time to fill: ten minutes to one in the code.
ASSUME RateLimiterAssumption ==
    /\ TrustedProxy \subseteq Peer
    /\ {RequestsPerMinute, AuthPerMinute, PerMinute} \subseteq Nat \ {0}
    /\ {SweepEvery, SweepAbove, LastTick, MaxBuckets, MaxPassed} \subseteq Nat
    /\ IdleAfter \in Nat /\ IdleAfter >= PerMinute

VARIABLES
    second,      \* the clock
    made,        \* the buckets made so far, [key, parts, last, capacity]
    bucket,      \* Limiter.m: the bucket of each key, by its place in made
    lastSweep,
    asking,      \* the requests between get and the bucket's lock: [bucket, from, fit]
    wide,        \* history: keys whose bucket a request other than a login has made
    passed       \* history: the last minute's requests that were handled,
                 \* [from, key, bucket, late, at, nth]: late, when its bucket was swept meanwhile

rateVars == <<second, made, bucket, lastSweep, asking, wide, passed>>

(***************************************************************************)
(* Who a request is counted against.                                       *)
(***************************************************************************)
\* A request: its peer, the forwarded address and the bearer token ("" when there is none),
\* and what it is: forms are the console's, its login among them.
WebRequest == [peer : Peer, xff : Peer \cup {""}, bearer : Bearer \cup {""},
               form : {"page", "form", "forged form", "read", "large", "upload", "login"}]

trusts(peer) == peer \in TrustedProxy
clientIP(r) == IF trusts(r.peer) /\ r.xff # "" THEN r.xff ELSE r.peer
rateLimitKey(r) == IF r.bearer # "" THEN <<"bearer", r.bearer>> ELSE <<"ip", clientIP(r)>>

\* Where it really comes from: a proxy says so of the requests it forwards.
Origin(r) == IF r.peer \in TrustedProxy /\ r.xff # "" THEN r.xff ELSE r.peer

\* Only the API's login is a login to the limiter.
authEndpoint(r) == r.form = "login"

isAPI(r) == r.form \in {"read", "large", "upload", "login"}
withCSRF(r) == isAPI(r) \/ r.form # "forged form"
streamsContent(r) == r.form = "upload"
withBodyLimit(r) == streamsContent(r) \/ r.form # "large"

(***************************************************************************)
(* The limiter.                                                            *)
(***************************************************************************)
Nobody == [bucket |-> 0, from |-> "", fit |-> FALSE]
RateInit ==
    /\ second = 0 /\ made = <<>> /\ bucket = <<>> /\ lastSweep = 0
    /\ asking = [v \in Visitor |-> Nobody] /\ wide = {} /\ passed = {}

Crowded(m) == Cardinality(DOMAIN m) >= SweepAbove /\ second - lastSweep >= SweepEvery
\* Mutant for RateBound: buckets in use are swept too.
sweepAll(m) == IF Crowded(m) THEN <<>> ELSE m
sweep(m) ==
    IF Crowded(m) THEN [k \in {j \in DOMAIN m : second - made[m[j]].last <= IdleAfter} |-> m[k]] ELSE m

newBucket(key, rpm) == [key |-> key, parts |-> rpm * PerMinute, last |-> second, capacity |-> rpm]

\* Under the limiter's lock: the bucket of a key, made by its first request, whose kind gives
\* it its capacity.
get(v, r) ==
    LET key == rateLimitKey(r)
        rpm == IF authEndpoint(r) THEN AuthPerMinute ELSE RequestsPerMinute
        found == key \in DOMAIN bucket
        place == IF found THEN bucket[key] ELSE Len(made) + 1
    IN /\ asking[v] = Nobody
       /\ asking' = [asking EXCEPT ![v] = [bucket |-> place, from |-> Origin(r),
                                           fit |-> withBodyLimit(r) /\ withCSRF(r)]]
       /\ \/ found /\ UNCHANGED <<made, bucket, lastSweep, wide>>
          \/ /\ ~found /\ Len(made) < MaxBuckets
             /\ made' = Append(made, newBucket(key, rpm))
             /\ bucket' = [k \in {key} \cup DOMAIN sweep(bucket) |-> IF k = key THEN place ELSE sweep(bucket)[k]]
             /\ lastSweep' = IF Crowded(bucket) THEN second ELSE lastSweep
             /\ wide' = IF authEndpoint(r) THEN wide ELSE wide \cup {key}
       /\ UNCHANGED <<second, passed>>

LesserOf(a, b) == IF a < b THEN a ELSE b
LargerOf(a, b) == IF a < b THEN b ELSE a
refilled(b) == [b EXCEPT !.parts = LesserOf(@ + (second - b.last) * b.capacity, b.capacity * PerMinute),
                         !.last = second]

\* Under the bucket's lock, whether it is still the key's or not.
Allow(v) ==
    LET place == asking[v].bucket
        b == refilled(made[place])
        ok == b.parts >= PerMinute
    IN /\ place # 0 /\ asking' = [asking EXCEPT ![v] = Nobody]
       /\ made' = [made EXCEPT ![place] = IF ok THEN [b EXCEPT !.parts = @ - PerMinute] ELSE b]
       /\ passed' = IF ok /\ asking[v].fit
                    THEN passed \cup {[from |-> asking[v].from, key |-> b.key, bucket |-> place,
                                       late |-> \A k \in DOMAIN bucket : bucket[k] # place, at |-> second,
                                       nth |-> Cardinality({e \in passed : e.bucket = place /\ e.at = second})]}
                    ELSE passed
       /\ UNCHANGED <<second, bucket, lastSweep, wide>>

Pass ==
    \/ \E v \in Visitor, r \in WebRequest : get(v, r)
    \/ \E v \in Visitor : Cardinality(passed) < MaxPassed /\ Allow(v)
Wait ==
    /\ second < LastTick /\ second' = second + 1
    /\ passed' = {e \in passed : second' - e.at < PerMinute}
    /\ UNCHANGED <<made, bucket, lastSweep, asking, wide>>

RateNext == Pass \/ Wait
RateSpec == RateInit /\ [][RateNext]_rateVars

(***************************************************************************)
(* Properties.                                                             *)
(***************************************************************************)
\* In any minute a caller without a token gets at most two buckets' worth through, whatever
\* address it claims and however often buckets are swept, beside the late ones: requests whose
\* bucket was swept between their lookup and their spending.  Of these no bucket, the swept
\* ones included, gives more than two buckets' worth either.  A caller who only logs in has the
\* login's bucket; one that some other request of its address made may be the other.
RateBound ==
    \A e \in passed : e.key[1] = "ip" =>
      LET prompt == {f \in passed : f.from = e.from /\ f.key[1] = "ip" /\ ~f.late}
          shared == {f \in passed : f.bucket = e.bucket}
          budget == IF <<"ip", e.from>> \in wide THEN LargerOf(RequestsPerMinute, AuthPerMinute)
                    ELSE AuthPerMinute
      IN Cardinality(prompt) <= 2 * budget /\ Cardinality(shared) <= 2 * budget
===============================================================================
