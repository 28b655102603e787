---------------------------- MODULE RateLimiter -----------------------------
(***************************************************************************)
(* The per-address token bucket of ratelimit.rs: one shard of its map,     *)
(* which a mutex guards (shards share nothing, and a call of allow is one  *)
(* critical section).                                                      *)
(*                                                                         *)
(* Tokens and time are natural numbers: a clock tick refills Rate tokens.  *)
(* The code's floats are not modelled.                                     *)
(***************************************************************************)
EXTENDS Naturals, FiniteSets

CONSTANTS
    Ips,      \* client addresses of this shard
    Rate,     \* tokens per tick, RATE_LIMIT > 0
    Burst,    \* capacity of a bucket
    MaxKeys,  \* MAX_KEYS: sweep the map when it has this many buckets
    Idle,     \* IDLE_MS: a bucket unused for so long may go
    Costs,    \* costs of requests: 1, or the number of urls of a bulk
    MaxNow    \* bound: the clock stops here

ASSUME RateAssumption ==
    /\ Rate \in Nat \ {0} /\ Burst \in Nat \ {0}
    /\ MaxKeys \in Nat \ {0} /\ Idle \in Nat \ {0}
    /\ Costs \subseteq Nat
    /\ MaxNow \in Nat

VARIABLES
    now,      \* the clock
    buckets,  \* address -> tokens and time of last use, for those tracked
    \* ----- history, read by no guard
    start,    \* when the observed window began
    granted   \* tokens granted to each address in that window

vars == <<now, buckets, start, granted>>

Bucket == [tokens : 0..Burst, last : Nat]

Least(a, b) == IF a <= b THEN a ELSE b

(* Faulty variant, for mutation only: a bucket without capacity.           *)
RefillUncapped(b) == b.tokens + Rate * (now - b.last)

(* The tokens of bucket b at the present time.                             *)
Refill(b) == Least(b.tokens + Rate * (now - b.last), Burst)

Fresh == [tokens |-> Burst, last |-> now]

Tracked == DOMAIN buckets

(* Faulty variant, for mutation only: a full map is emptied.               *)
KeptNone == IF Cardinality(Tracked) >= MaxKeys THEN {} ELSE Tracked

(* A full map first drops the buckets that were not used lately, however   *)
(* many those are.                                                         *)
Kept ==
    IF Cardinality(Tracked) >= MaxKeys
    THEN {k \in Tracked : now - buckets[k].last < Idle} ELSE Tracked

Init ==
    /\ now = 0
    /\ buckets = [k \in {} |-> Fresh]
    /\ start = 0
    /\ granted = [k \in Ips |-> 0]

(* The tokens ip has when a request of its own comes in, and its bucket    *)
(* with what the request leaves of them.                                   *)
Level(ip) == Refill(IF ip \in Kept THEN buckets[ip] ELSE Fresh)

(* Faulty variant, for mutation only: the time of last use not moved on.   *)
ChargeKeepsTime(ip, left) ==
    buckets' = [k \in Kept \cup {ip} |->
                   IF k \notin Kept THEN [tokens |-> left, last |-> now]
                   ELSE IF k = ip THEN [buckets[k] EXCEPT !.tokens = left]
                   ELSE buckets[k]]

Charge(ip, left) ==
    buckets' = [k \in Kept \cup {ip} |->
                   IF k = ip THEN [tokens |-> left, last |-> now] ELSE buckets[k]]

Allow(ip, cost) ==
    /\ Level(ip) >= cost
    /\ Charge(ip, Level(ip) - cost)
    /\ granted' = [granted EXCEPT ![ip] = @ + cost]
    /\ UNCHANGED <<now, start>>

Deny(ip, cost) ==
    /\ Level(ip) < cost
    /\ Charge(ip, Level(ip))
    /\ UNCHANGED <<now, start, granted>>

Tick ==
    /\ now < MaxNow
    /\ now' = now + 1
    /\ UNCHANGED <<buckets, start, granted>>

(* An observer starts counting afresh, at any time.                        *)
Observe ==
    /\ start' = now
    /\ granted' = [k \in Ips |-> 0]
    /\ UNCHANGED <<now, buckets>>

Next ==
    \/ \E ip \in Ips, cost \in Costs : Allow(ip, cost) \/ Deny(ip, cost)
    \/ Tick
    \/ Observe

Spec == Init /\ [][Next]_vars

-----------------------------------------------------------------------------
TypeOK ==
    /\ now \in Nat /\ start \in 0..now
    /\ Tracked \subseteq Ips
    /\ \A k \in Tracked : buckets[k] \in Bucket /\ buckets[k].last <= now
    /\ granted \in [Ips -> Nat]

(* What a bucket may lack when it is forgotten: nothing, if an idle time   *)
(* refills it (RATE_LIMIT_BURST <= 60 * RATE_LIMIT, as by default from one *)
(* request a second on).                                                   *)
Excess == IF Burst > Rate * Idle THEN Burst - Rate * Idle ELSE 0

(* What w ticks can give an address: a full bucket, what the time refills, *)
(* and the excess of a forgotten bucket once in every idle time within p.  *)
Gives(w, p, amount) ==
    \E n \in 0..p : n * Idle <= p /\ amount <= Burst + Rate * w + n * Excess

(* In no window of time, wherever it begins, is an address granted more    *)
(* than that, although a full map forgets idle buckets and a forgotten     *)
(* address starts with a full one.                                         *)
WindowBound == \A ip \in Ips : Gives(now - start, now - start, granted[ip])

(* The tokens an address could spend at once.                              *)
Available(ip) == IF ip \in Tracked THEN Refill(buckets[ip]) ELSE Burst

(* One client cannot slow down another: its calls leave what the others    *)
(* could spend as it was, but for one that they push out of the map, which *)
(* has been idle and whose bucket is then full.                            *)
Isolation ==
    [][\A ip \in Ips, cost \in Costs :
          Allow(ip, cost) \/ Deny(ip, cost) =>
              \A k \in Ips \ {ip} :
                  \/ Available(k)' = Available(k)
                  \/ /\ k \in Tracked /\ now - buckets[k].last >= Idle
                     /\ Available(k)' = Burst]_vars

-----------------------------------------------------------------------------
(* What WindowBound needs to be inductive.                                 *)

(* The time since t that the forgettings of ip so far have taken: up to    *)
(* its last use, if it is tracked.                                         *)
Past(ip, t) ==
    IF ip \notin Tracked THEN now - t
    ELSE IF buckets[ip].last > t THEN buckets[ip].last - t ELSE 0

(* What was granted and what could be taken at once are covered together;  *)
(* and an address last used before the window has got nothing in it.       *)
WindowInv ==
    \A ip \in Ips :
        /\ Gives(now - start, Past(ip, start), granted[ip] + Available(ip))
        /\ ip \in Tracked /\ buckets[ip].last < start => granted[ip] = 0
=============================================================================
