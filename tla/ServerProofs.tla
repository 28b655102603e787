---------------------------- MODULE ServerProofs -----------------------------
(***************************************************************************)
(* The safety properties of the mini server, for any number of             *)
(* connections, any streams of requests cut into reads at any place, and   *)
(* every rate and burst of the limiter; and those of the limiter itself.   *)
(***************************************************************************)
EXTENDS Server, FiniteSetTheorems, WellFoundedInduction, SequenceTheorems, TLAPS

-----------------------------------------------------------------------------
(* The limiter: the bound on what an address is granted, for every rate,   *)
(* burst, number of addresses and size of the map.  The theorems are about *)
(* RateLimiter!Spec, which ServerRunsLimiter shows the server to run.      *)

(* The refill of an interval splits, and grows with the interval.          *)
LEMMA RefillSplits ==
    ASSUME NEW a \in Nat, NEW b \in Nat
    PROVE  /\ Rate * a \in Nat
           /\ Rate * (a + b) = Rate * a + Rate * b
           /\ a <= b => Rate * a <= Rate * b
BY RateAssumption

LEMMA ExcessType == Excess \in Nat /\ Rate * Idle \in Nat /\ Burst <= Rate * Idle + Excess
<1>1. Burst \in Nat /\ Idle \in Nat
  BY RateAssumption
<1>2. Rate * Idle \in Nat
  BY <1>1, RefillSplits
<1> QED BY <1>1, <1>2 DEF Excess

LEMMA Multiples ==
    ASSUME NEW n \in Nat
    PROVE  /\ n * Idle \in Nat /\ (n + 1) * Idle = n * Idle + Idle /\ n <= n * Idle
           /\ n * Excess \in Nat /\ (n + 1) * Excess = n * Excess + Excess
<1> DEFINE d == Idle - 1
<1>1. d \in Nat /\ Idle = d + 1 /\ Excess \in Nat
  BY RateAssumption, ExcessType
<1> HIDE DEF d
<1>2. n * d \in Nat /\ n * (d + 1) = n * d + n /\ (n + 1) * (d + 1) = n * (d + 1) + (d + 1)
  BY <1>1
<1>3. n * Excess \in Nat /\ (n + 1) * Excess = n * Excess + Excess
  BY <1>1
<1>4. n * Idle = n * d + n /\ (n + 1) * Idle = n * Idle + Idle
  BY <1>1, <1>2, Zenon
<1>5. n * d + n \in Nat /\ n <= n * d + n
  BY <1>2
<1> QED BY <1>3, <1>4, <1>5, Zenon

(* A full bucket is always given.                                          *)
LEMMA GivesBurst ==
    ASSUME NEW w \in Nat, NEW p \in Nat, NEW x \in Nat, x <= Burst
    PROVE  Gives(w, p, x)
<1>1. 0 \in 0..p /\ 0 * Idle = 0 /\ 0 * Excess = 0 /\ Rate * w \in Nat /\ Burst \in Nat
  BY RateAssumption, ExcessType, RefillSplits
<1>2. x <= Burst + Rate * w + 0 * Excess /\ 0 * Idle <= p
  BY <1>1
<1> QED BY <1>1, <1>2 DEF Gives

(* A longer time gives no less, and a tick gives Rate more.                *)
LEMMA GivesMore ==
    ASSUME NEW w \in Nat, NEW p \in Nat, NEW q \in Nat, p <= q, NEW x \in Nat, NEW y \in Nat,
           Gives(w, p, x)
    PROVE  /\ y <= x => Gives(w, q, y)
           /\ y <= x + Rate => Gives(w + 1, q, y)
<1>1. PICK n \in 0..p : n * Idle <= p /\ x <= Burst + Rate * w + n * Excess
  BY DEF Gives
<1>2. /\ n \in 0..q /\ n \in Nat /\ n * Idle \in Nat /\ n * Excess \in Nat /\ Rate * w \in Nat
      /\ Rate * (w + 1) = Rate * w + Rate /\ Burst \in Nat /\ Rate \in Nat
  <2>1. n \in 0..q /\ n \in Nat
    BY <1>1
  <2>2. Rate * w \in Nat /\ Rate * (w + 1) = Rate * w + Rate * 1 /\ Rate * 1 = Rate
    BY RefillSplits, RateAssumption
  <2> QED BY <2>1, <2>2, Multiples, RateAssumption
<1>3. n * Idle <= q
  BY <1>1, <1>2
<1>4. ASSUME y <= x PROVE Gives(w, q, y)
  <2>1. y <= Burst + Rate * w + n * Excess
    BY <1>1, <1>2, <1>4
  <2> QED BY <1>2, <1>3, <2>1 DEF Gives
<1>5. ASSUME y <= x + Rate PROVE Gives(w + 1, q, y)
  <2>1. y <= Burst + (Rate * w + Rate) + n * Excess
    BY <1>1, <1>2, <1>5
  <2>2. y <= Burst + Rate * (w + 1) + n * Excess
    BY <1>2, <2>1
  <2> QED BY <1>2, <1>3, <2>2 DEF Gives
<1> QED BY <1>4, <1>5

(* An idle time more gives the excess once more.                           *)
LEMMA GivesExcess ==
    ASSUME NEW w \in Nat, NEW p \in Nat, NEW q \in Nat, p + Idle <= q, NEW x \in Nat, NEW y \in Nat,
           Gives(w, p, x), y <= x + Excess
    PROVE  Gives(w, q, y)
<1>1. PICK n \in 0..p : n * Idle <= p /\ x <= Burst + Rate * w + n * Excess
  BY DEF Gives
<1>2. n \in Nat /\ n + 1 \in Nat
  BY <1>1
<1>3. /\ n * Idle \in Nat /\ n * Excess \in Nat /\ Rate * w \in Nat /\ Burst \in Nat /\ Excess \in Nat
      /\ (n + 1) * Idle = n * Idle + Idle /\ (n + 1) * Excess = n * Excess + Excess
      /\ n + 1 <= (n + 1) * Idle /\ Idle \in Nat
  BY <1>2, Multiples, ExcessType, RefillSplits, RateAssumption
<1>4. (n + 1) * Idle <= q
  <2>1. n * Idle + Idle <= q
    BY <1>1, <1>3
  <2> QED BY <1>3, <2>1
<1>5. y <= Burst + Rate * w + (n + 1) * Excess
  <2>1. y <= Burst + Rate * w + (n * Excess + Excess)
    BY <1>1, <1>3
  <2> QED BY <1>3, <2>1
<1>6. n + 1 \in 0..q
  <2>1. n * Idle + Idle \in Nat /\ n + 1 <= n * Idle + Idle /\ n * Idle + Idle <= q
    BY <1>3, <1>4
  <2> QED BY <1>2, <2>1
<1> QED BY <1>4, <1>5, <1>6 DEF Gives

(* A bucket that was idle for Idle ticks lacks no more than the excess.    *)
LEMMA IdleIsFull ==
    ASSUME NEW b \in Bucket, now \in Nat, b.last <= now, now - b.last >= Idle
    PROVE  Burst <= Refill(b) + Excess
<1>1. Idle \in Nat /\ Burst \in Nat /\ Rate \in Nat /\ now - b.last \in Nat /\ b.tokens \in Nat
  BY RateAssumption DEF Bucket
<1>2. Rate * Idle <= Rate * (now - b.last) /\ Rate * (now - b.last) \in Nat /\ Rate * Idle \in Nat
  BY <1>1, RefillSplits
<1> HIDE DEF Bucket
<1> QED BY <1>1, <1>2, ExcessType DEF Refill, Least

(* A refilled bucket holds between nothing and Burst.                      *)
LEMMA RefillInRange ==
    ASSUME NEW b \in Bucket, now \in Nat, b.last <= now
    PROVE  Refill(b) \in 0..Burst
<1>1. Burst \in Nat /\ now - b.last \in Nat /\ b.tokens \in Nat
  BY RateAssumption DEF Bucket
<1>2. Rate * (now - b.last) \in Nat
  BY <1>1, RefillSplits
<1> QED BY <1>1, <1>2 DEF Refill, Least

(* The tokens a request finds are those that were available before it, or  *)
(* Burst if the sweep of a full map dropped the bucket, which lacked no    *)
(* more than the excess then.                                              *)
LEMMA SweepIsFair ==
    ASSUME TypeOK, NEW ip \in Ips
    PROVE  /\ Available(ip) \in 0..Burst /\ Level(ip) \in 0..Burst
           /\ ip \notin Tracked \ Kept => Level(ip) = Available(ip)
           /\ ip \in Tracked \ Kept =>
                 /\ Level(ip) = Burst /\ now - buckets[ip].last >= Idle
                 /\ Burst <= Available(ip) + Excess
<1>0. now \in Nat /\ Burst \in Nat /\ Fresh \in Bucket /\ Fresh.last = now /\ Fresh.tokens = Burst
  BY RateAssumption DEF TypeOK, Fresh, Bucket
<1>1. Kept \subseteq Tracked
  BY DEF Kept
<1>2. Refill(Fresh) = Burst
  <2>1. Rate * (now - Fresh.last) = 0
    BY <1>0, RateAssumption
  <2> QED BY <1>0, <2>1 DEF Refill, Least
<1>3. ASSUME ip \in Tracked \ Kept
      PROVE  now - buckets[ip].last >= Idle /\ Burst <= Refill(buckets[ip]) + Excess
  <2>1. buckets[ip] \in Bucket /\ buckets[ip].last <= now
    BY <1>3 DEF TypeOK
  <2>2. ~(now - buckets[ip].last < Idle)
    BY <1>3 DEF Kept
  <2>3. now - buckets[ip].last >= Idle
    BY <1>0, <2>1, <2>2, RateAssumption DEF Bucket
  <2> QED BY <1>0, <2>1, <2>3, IdleIsFull
<1>4. Available(ip) \in 0..Burst
  <2>1. CASE ip \in Tracked
    BY <1>0, <2>1, RefillInRange DEF TypeOK, Available
  <2>2. CASE ip \notin Tracked
    BY <1>0, <2>2 DEF Available
  <2> QED BY <2>1, <2>2
<1>5. CASE ip \in Kept
  BY <1>1, <1>4, <1>5 DEF Level, Available
<1>6. CASE ip \notin Tracked
  BY <1>0, <1>1, <1>2, <1>4, <1>6 DEF Level, Available
<1>7. CASE ip \in Tracked \ Kept
  <2>1. Level(ip) = Burst /\ Available(ip) = Refill(buckets[ip])
    BY <1>2, <1>7 DEF Level, Available
  <2> QED BY <1>0, <1>3, <1>4, <1>7, <2>1
<1> QED BY <1>5, <1>6, <1>7

-----------------------------------------------------------------------------
(* Charging ip leaves ip what is left, and the others what they had, or a  *)
(* full bucket to those that the sweep drops.                              *)
LEMMA ChargeIsLocal ==
    ASSUME TypeOK, NEW ip \in Ips, NEW left \in 0..Burst, Charge(ip, left), now' = now
    PROVE  /\ Tracked' \subseteq Ips
           /\ \A k \in Tracked' : buckets'[k] \in Bucket /\ buckets'[k].last <= now
           /\ ip \in Tracked' /\ buckets'[ip].last = now /\ Available(ip)' = left
           /\ \A k \in Ips \ {ip} :
                 /\ Available(k)' = Level(k)
                 /\ k \in Tracked' <=> k \in Kept
                 /\ k \in Kept => buckets'[k] = buckets[k]
<1>0. now \in Nat /\ Burst \in Nat /\ left \in Nat /\ left <= Burst
  BY RateAssumption DEF TypeOK
<1>1. Tracked' = Kept \cup {ip} /\ Kept \subseteq Tracked /\ Tracked \subseteq Ips
  BY DEF Charge, Tracked, Kept, TypeOK
<1>2. buckets'[ip] = [tokens |-> left, last |-> now]
  BY DEF Charge
<1>3. \A k \in Kept \ {ip} : buckets'[k] = buckets[k]
  BY DEF Charge
<1>4. \A k \in Tracked' : buckets'[k] \in Bucket /\ buckets'[k].last <= now
  <2>1. buckets'[ip] \in Bucket /\ buckets'[ip].last <= now
    BY <1>0, <1>2 DEF Bucket
  <2>2. \A k \in Kept : buckets[k] \in Bucket /\ buckets[k].last <= now
    BY <1>1 DEF TypeOK
  <2> QED BY <1>1, <1>3, <2>1, <2>2
<1>5. ip \in Tracked' /\ buckets'[ip].last = now /\ Available(ip)' = left
  <2>1. Rate * (now - now) = 0
    BY <1>0, RateAssumption
  <2>2. buckets'[ip].tokens = left /\ buckets'[ip].last = now
    BY <1>2
  <2>3. Available(ip)' = Least(left + Rate * (now - now), Burst)
    BY <1>1, <2>2 DEF Available, Refill
  <2> QED BY <1>0, <1>1, <2>1, <2>2, <2>3 DEF Least
<1>6. ASSUME NEW k \in Ips \ {ip}
      PROVE  /\ Available(k)' = Level(k)
             /\ k \in Tracked' <=> k \in Kept
             /\ k \in Kept => buckets'[k] = buckets[k]
  <2>1. CASE k \in Kept
    BY <1>1, <1>3, <2>1 DEF Available, Level, Refill
  <2>2. CASE k \notin Kept
    <3>1. Available(k)' = Burst
      BY <1>1, <2>2 DEF Available
    <3>2. Level(k) = Burst
      BY <1>1, <2>2, SweepIsFair DEF Available
    <3> QED BY <1>1, <2>2, <3>1, <3>2
  <2> QED BY <2>1, <2>2
<1> QED BY <1>1, <1>4, <1>5, <1>6

(* What an address has got since t stays covered by what the time since t  *)
(* gives, whoever is charged.                                              *)
LEMMA CallCovers ==
    ASSUME TypeOK, NEW ip \in Ips, NEW left \in 0..Burst, Charge(ip, left), now' = now,
           NEW k \in Ips, NEW t \in Nat, t <= now, NEW x \in Nat,
           k \in Tracked /\ buckets[k].last < t => x = 0,
           Gives(now - t, Past(k, t), x + Available(k))
    PROVE  Gives(now - t,
                 IF k \notin Tracked' THEN now - t
                 ELSE IF buckets'[k].last > t THEN buckets'[k].last - t ELSE 0,
                 x + Level(k))
<1> DEFINE q == IF k \notin Tracked' THEN now - t
                ELSE IF buckets'[k].last > t THEN buckets'[k].last - t ELSE 0
           p == Past(k, t)
           w == now - t
           a == Available(k)
           l == Level(k)
<1>1. /\ now \in Nat /\ Burst \in Nat /\ Idle \in Nat /\ w \in Nat
      /\ k \in Tracked => buckets[k].last \in Nat /\ buckets[k].last <= now
  BY RateAssumption DEF TypeOK, Bucket
<1>2. a \in Nat /\ l \in Nat /\ l <= Burst /\ Excess \in Nat
  BY <1>1, SweepIsFair, ExcessType
<1>3. p \in Nat /\ p <= w
  <2>1. p = IF k \notin Tracked THEN w ELSE IF buckets[k].last > t THEN buckets[k].last - t ELSE 0
    BY DEF Past
  <2> HIDE DEF p
  <2> QED BY <1>1, <2>1
<1>4. q \in Nat /\ (k \notin Kept => q = w) /\ (k \in Kept => p <= q)
  <2>1. k = ip => q = w
    BY <1>1, ChargeIsLocal
  <2>2. k # ip /\ k \notin Kept => q = w
    BY ChargeIsLocal
  <2>3. k # ip /\ k \in Kept => q = p
    BY ChargeIsLocal DEF Past, Kept
  <2> HIDE DEF p, q
  <2> QED BY <1>1, <1>3, <2>1, <2>2, <2>3
<1>5. CASE k \notin Tracked \ Kept
  <2>1. l = a /\ p <= q
    <3>1. l = a
      BY <1>5, SweepIsFair
    <3>2. p <= q
      <4> HIDE DEF p, q
      <4> QED BY <1>1, <1>3, <1>4
    <3> QED BY <3>1, <3>2
  <2> HIDE DEF p, q, w, a, l
  <2>2. x + a \in Nat /\ x + l \in Nat /\ x + l <= x + a
    BY <1>2, <2>1
  <2>3. Gives(w, p, x + a)
    BY DEF p, w, a
  <2>4. Gives(w, q, x + l)
    BY <1>1, <1>3, <1>4, <2>1, <2>2, <2>3, GivesMore
  <2> QED BY <2>4 DEF q, w, l
<1>6. CASE k \in Tracked \ Kept /\ buckets[k].last < t
  <2>1. x + l \in Nat /\ x + l <= Burst
    BY <1>1, <1>2, <1>6
  <2> HIDE DEF p, q, w, a, l
  <2>2. Gives(w, q, x + l)
    BY <1>1, <1>4, <2>1, GivesBurst
  <2> QED BY <2>2 DEF q, w, l
<1>7. CASE k \in Tracked \ Kept /\ ~(buckets[k].last < t)
  <2>1. p = buckets[k].last - t
    BY <1>1, <1>7 DEF Past
  <2>2. l = Burst /\ now - buckets[k].last >= Idle /\ Burst <= a + Excess
    BY <1>7, SweepIsFair
  <2>3. p + Idle <= q
    <3>1. q = w
      BY <1>4, <1>7
    <3> HIDE DEF p, q
    <3> QED BY <1>1, <1>7, <2>1, <2>2, <3>1
  <2> HIDE DEF p, q, w, a, l
  <2>4. x + a \in Nat /\ x + l \in Nat /\ x + l <= (x + a) + Excess
    BY <1>2, <2>2
  <2>5. Gives(w, p, x + a)
    BY DEF p, w, a
  <2>6. Gives(w, q, x + l)
    BY <1>1, <1>3, <1>4, <2>3, <2>4, <2>5, GivesExcess
  <2> QED BY <2>6 DEF q, w, l
<1> QED BY <1>5, <1>6, <1>7

-----------------------------------------------------------------------------
Inv == TypeOK /\ WindowInv

LEMMA InitInv == Init => Inv
<1> SUFFICES ASSUME Init PROVE Inv
  OBVIOUS
<1>1. TypeOK
  BY DEF Init, TypeOK, Tracked
<1>2. ASSUME NEW ip \in Ips
      PROVE  Gives(now - start, Past(ip, start), granted[ip] + Available(ip)) /\ ip \notin Tracked
  <2>1. ip \notin Tracked /\ now - start = 0 /\ Past(ip, start) = 0
    BY DEF Init, Past, Tracked
  <2>2. granted[ip] + Available(ip) = Burst /\ Burst \in Nat
    BY <2>1, RateAssumption DEF Init, Available
  <2> QED BY <2>1, <2>2, GivesBurst
<1> QED BY <1>1, <1>2 DEF Inv, WindowInv

(* The calls of allow, as charges.                                         *)
LEMMA AllowTakes ==
    ASSUME TypeOK, NEW ip \in Ips, NEW cost \in Costs, Allow(ip, cost)
    PROVE  /\ cost \in Nat /\ Level(ip) \in 0..Burst /\ Level(ip) - cost \in 0..Burst
           /\ Charge(ip, Level(ip) - cost) /\ now' = now
           /\ Available(ip)' = Level(ip) - cost
<1>1. Level(ip) \in 0..Burst /\ cost \in Nat /\ Burst \in Nat
  BY SweepIsFair, RateAssumption
<1>2. now' = now /\ Charge(ip, Level(ip) - cost) /\ Level(ip) - cost \in 0..Burst
  BY <1>1 DEF Allow
<1> QED BY <1>1, <1>2, ChargeIsLocal

LEMMA DenyTakesNothing ==
    ASSUME TypeOK, NEW ip \in Ips, NEW cost, Deny(ip, cost)
    PROVE  /\ Level(ip) \in 0..Burst /\ Charge(ip, Level(ip)) /\ now' = now
           /\ Available(ip)' = Level(ip)
<1>1. Level(ip) \in 0..Burst /\ now' = now /\ Charge(ip, Level(ip))
  BY SweepIsFair DEF Deny
<1> QED BY <1>1, ChargeIsLocal

(* What a tick adds.                                                      *)
LEMMA TickRefills ==
    ASSUME TypeOK, Tick, NEW k \in Ips
    PROVE  Available(k) \in Nat /\ Available(k)' \in Nat /\ Available(k)' <= Available(k) + Rate
<1>n. now \in Nat /\ Burst \in Nat /\ Rate \in Nat
  BY RateAssumption DEF TypeOK
<1>t. now' = now + 1 /\ UNCHANGED <<buckets, start, granted>>
  BY DEF Tick
<1>1. CASE k \in Tracked
  <2> DEFINE b == buckets[k]
  <2>1. b \in Bucket /\ b.last <= now /\ b.tokens \in Nat /\ now - b.last \in Nat
    BY <1>n, <1>1 DEF TypeOK, Bucket
  <2> DEFINE w == Rate * (now - b.last)
  <2>2. w \in Nat /\ Rate * (now' - b.last) = w + Rate
    <3>0. b.last \in Nat
      BY <2>1 DEF Bucket
    <3> HIDE DEF b
    <3>1. now' - b.last = (now - b.last) + 1 /\ 1 \in Nat /\ Rate * 1 = Rate
      BY <1>n, <1>t, <3>0
    <3>2. /\ Rate * (now - b.last) \in Nat
          /\ Rate * ((now - b.last) + 1) = Rate * (now - b.last) + Rate * 1
      BY <2>1, <3>1, RefillSplits
    <3> QED BY <3>1, <3>2
  <2>3. Available(k) = Least(b.tokens + w, Burst)
    BY <1>1 DEF Available, Refill
  <2>4. Available(k)' = Least(b.tokens + (w + Rate), Burst)
    BY <1>t, <1>1, <2>2 DEF Available, Refill, Tracked
  <2> HIDE DEF w, b
  <2> QED BY <1>n, <2>1, <2>2, <2>3, <2>4 DEF Least
<1>2. CASE k \notin Tracked
  BY <1>n, <1>t, <1>2 DEF Available, Tracked
<1> QED BY <1>1, <1>2

(* A call of ip, in the window: charge what it finds less cost.            *)
LEMMA CallInv ==
    ASSUME Inv, NEW ip \in Ips, NEW cost \in Nat, Level(ip) - cost \in 0..Burst,
           Charge(ip, Level(ip) - cost), now' = now, start' = start,
           granted' = [granted EXCEPT ![ip] = @ + cost]
    PROVE  Inv'
<1>t. TypeOK /\ WindowInv
  BY DEF Inv
<1>n. now \in Nat /\ start \in Nat /\ start <= now /\ granted \in [Ips -> Nat]
  BY <1>t DEF TypeOK
<1>1. /\ Tracked' \subseteq Ips
      /\ \A k \in Tracked' : buckets'[k] \in Bucket /\ buckets'[k].last <= now
      /\ ip \in Tracked' /\ buckets'[ip].last = now /\ Available(ip)' = Level(ip) - cost
      /\ \A k \in Ips \ {ip} :
            /\ Available(k)' = Level(k)
            /\ k \in Tracked' <=> k \in Kept
            /\ k \in Kept => buckets'[k] = buckets[k]
  BY <1>t, ChargeIsLocal
<1>2. TypeOK'
  BY <1>t, <1>n, <1>1 DEF TypeOK
<1>3. ASSUME NEW k \in Ips
      PROVE  Gives(now' - start', Past(k, start)', granted'[k] + Available(k)')
  <2>1. Gives(now - start, Past(k, start), granted[k] + Available(k))
    BY <1>t DEF WindowInv
  <2>2. k \in Tracked /\ buckets[k].last < start => granted[k] = 0
    BY <1>t DEF WindowInv
  <2>3. Gives(now - start,
              IF k \notin Tracked' THEN now - start
              ELSE IF buckets'[k].last > start THEN buckets'[k].last - start ELSE 0,
              granted[k] + Level(k))
    BY <1>t, <1>n, <2>1, <2>2, CallCovers
  <2>4. Past(k, start)' = IF k \notin Tracked' THEN now - start
                          ELSE IF buckets'[k].last > start THEN buckets'[k].last - start ELSE 0
    BY DEF Past
  <2>5. granted'[k] + Available(k)' = granted[k] + Level(k)
    <3>1. Level(ip) \in 0..Burst /\ Burst \in Nat
      BY <1>t, SweepIsFair, RateAssumption
    <3>2. CASE k = ip
      <4>1. granted'[k] = granted[k] + cost /\ Available(k)' = Level(k) - cost
        BY <1>n, <1>1, <3>2
      <4> QED BY <1>n, <3>1, <3>2, <4>1
    <3>3. CASE k # ip
      BY <1>n, <1>1, <3>3
    <3> QED BY <3>2, <3>3
  <2> QED BY <2>3, <2>4, <2>5
<1>4. ASSUME NEW k \in Ips, k \in Tracked', buckets'[k].last < start' PROVE granted'[k] = 0
  <2>1. k # ip
    BY <1>n, <1>1, <1>4
  <2>2. k \in Kept /\ buckets'[k] = buckets[k] /\ granted'[k] = granted[k]
    BY <1>n, <1>1, <1>4, <2>1
  <2> QED BY <1>t, <1>4, <2>2 DEF WindowInv, Kept
<1>5. WindowInv'
  BY <1>3, <1>4 DEF WindowInv
<1> QED BY <1>2, <1>5 DEF Inv

LEMMA NextInv == Inv /\ [Next]_vars => Inv'
<1> SUFFICES ASSUME Inv, [Next]_vars PROVE Inv'
  OBVIOUS
<1>t. TypeOK /\ WindowInv
  BY DEF Inv
<1>n. /\ now \in Nat /\ start \in Nat /\ start <= now /\ now - start \in Nat
      /\ Burst \in Nat /\ Rate \in Nat /\ granted \in [Ips -> Nat]
  BY <1>t, RateAssumption DEF TypeOK
<1>1. ASSUME NEW ip \in Ips, NEW cost \in Costs, Allow(ip, cost) PROVE Inv'
  <2>1. cost \in Nat /\ Level(ip) - cost \in 0..Burst /\ Charge(ip, Level(ip) - cost) /\ now' = now
    BY <1>t, <1>1, AllowTakes
  <2>2. start' = start /\ granted' = [granted EXCEPT ![ip] = @ + cost]
    BY <1>1 DEF Allow
  <2> QED BY <2>1, <2>2, CallInv
<1>2. ASSUME NEW ip \in Ips, NEW cost \in Costs, Deny(ip, cost) PROVE Inv'
  <2>1. Level(ip) \in 0..Burst /\ Charge(ip, Level(ip)) /\ now' = now
    BY <1>t, <1>2, DenyTakesNothing
  <2>2. 0 \in Nat /\ Level(ip) - 0 = Level(ip)
    BY <1>n, <2>1
  <2>3. granted' = [granted EXCEPT ![ip] = @ + 0] /\ start' = start
    BY <1>n, <1>2 DEF Deny
  <2> QED BY <2>1, <2>2, <2>3, CallInv
<1>3. ASSUME Tick PROVE Inv'
  <2>1. now' = now + 1 /\ UNCHANGED <<buckets, start, granted>>
    BY <1>3 DEF Tick
  <2>2. TypeOK'
    BY <1>t, <1>n, <2>1 DEF TypeOK, Tracked, Bucket
  <2>3. ASSUME NEW k \in Ips
        PROVE  Gives(now' - start', Past(k, start)', granted'[k] + Available(k)')
    <3> DEFINE p == Past(k, start)
               q == Past(k, start)'
               a == Available(k)
               b == Available(k)'
               w == now - start
    <3>1. a \in Nat /\ b \in Nat /\ b <= a + Rate /\ granted[k] \in Nat
      BY <1>t, <1>n, <1>3, TickRefills
    <3>2. p \in Nat /\ q \in Nat /\ p <= q
      BY <1>t, <1>n, <2>1 DEF Past, Tracked, TypeOK, Bucket
    <3>3. Gives(w, p, granted[k] + a)
      BY <1>t DEF WindowInv
    <3>4. now' - start' = w + 1 /\ granted'[k] = granted[k] /\ w \in Nat
      BY <1>n, <2>1
    <3> HIDE DEF p, q, a, b, w
    <3>5. granted[k] + a \in Nat /\ granted[k] + b \in Nat /\ granted[k] + b <= (granted[k] + a) + Rate
      BY <1>n, <3>1
    <3>6. Gives(w + 1, q, granted[k] + b)
      BY <3>2, <3>3, <3>4, <3>5, GivesMore
    <3> QED BY <3>4, <3>6 DEF q, b
  <2>4. ASSUME NEW k \in Ips, k \in Tracked', buckets'[k].last < start' PROVE granted'[k] = 0
    BY <1>t, <2>1, <2>4 DEF WindowInv, Tracked
  <2>5. WindowInv'
    BY <2>3, <2>4 DEF WindowInv
  <2> QED BY <2>2, <2>5 DEF Inv
<1>4. ASSUME Observe PROVE Inv'
  <2>1. start' = now /\ granted' = [k \in Ips |-> 0] /\ UNCHANGED <<now, buckets>>
    BY <1>4 DEF Observe
  <2>2. TypeOK'
    BY <1>t, <1>n, <2>1 DEF TypeOK, Tracked
  <2>3. ASSUME NEW k \in Ips
        PROVE  Gives(now' - start', Past(k, start)', granted'[k] + Available(k)')
    <3>1. Available(k)' \in 0..Burst
      BY <1>t, <1>n, <2>1, SweepIsFair DEF Available, Refill, Tracked
    <3>2. now' - start' = 0 /\ granted'[k] = 0
      BY <1>n, <2>1
    <3>3. Past(k, start)' \in Nat
      BY <1>t, <1>n, <2>1 DEF Past, Tracked, TypeOK, Bucket
    <3>4. 0 + Available(k)' \in Nat /\ 0 + Available(k)' <= Burst
      BY <1>n, <3>1
    <3> QED BY <3>2, <3>3, <3>4, GivesBurst
  <2>4. \A k \in Ips : granted'[k] = 0
    BY <2>1
  <2>5. WindowInv'
    BY <2>3, <2>4 DEF WindowInv
  <2> QED BY <2>2, <2>5 DEF Inv
<1>5. ASSUME UNCHANGED vars PROVE Inv'
  BY <1>t, <1>5 DEF vars, Inv, TypeOK, WindowInv, Tracked, Available, Refill, Past
<1> QED BY <1>1, <1>2, <1>3, <1>4, <1>5 DEF Next

(* For every rate, burst, idle time, map size and set of addresses, no     *)
(* address is granted more in a window than a full bucket, the window's    *)
(* refill and, if a bucket may be forgotten before it is full again, what  *)
(* it lacked, once in every idle time.                                     *)
THEOREM WindowBoundHolds == Spec => []WindowBound
<1>1. Inv => WindowBound
  <2> SUFFICES ASSUME Inv, NEW ip \in Ips
               PROVE  Gives(now - start, now - start, granted[ip])
    BY DEF WindowBound
  <2> DEFINE p == Past(ip, start)
             w == now - start
             a == Available(ip)
  <2>1. granted[ip] \in Nat /\ w \in Nat /\ Burst \in Nat /\ now \in Nat /\ start \in Nat
    BY RateAssumption DEF Inv, TypeOK
  <2>2. p \in Nat /\ p <= w
    BY <2>1 DEF Past, Inv, TypeOK, Bucket
  <2>3. a \in 0..Burst
    BY SweepIsFair DEF Inv
  <2>4. Gives(w, p, granted[ip] + a)
    BY DEF Inv, WindowInv
  <2> HIDE DEF p, w, a
  <2>5. granted[ip] + a \in Nat /\ granted[ip] <= granted[ip] + a
    BY <2>1, <2>3
  <2>6. Gives(w, w, granted[ip])
    BY <2>1, <2>2, <2>4, <2>5, GivesMore
  <2> QED BY <2>6 DEF w
<1> QED BY InitInv, NextInv, <1>1, PTL DEF Spec

(* A request takes nothing from an address other than its own, and gives   *)
(* to one only what an idle address is given for being forgotten.          *)
THEOREM ClientsAreIsolated == Spec => Isolation
<1>1. Inv /\ [Next]_vars =>
        \A ip \in Ips, cost \in Costs :
            Allow(ip, cost) \/ Deny(ip, cost) =>
                \A k \in Ips \ {ip} :
                    \/ Available(k)' = Available(k)
                    \/ /\ k \in Tracked /\ now - buckets[k].last >= Idle
                       /\ Available(k)' = Burst
  <2> SUFFICES ASSUME Inv, NEW ip \in Ips, NEW cost \in Costs,
                      Allow(ip, cost) \/ Deny(ip, cost), NEW k \in Ips \ {ip}
               PROVE  \/ Available(k)' = Available(k)
                      \/ /\ k \in Tracked /\ now - buckets[k].last >= Idle
                         /\ Available(k)' = Burst
    OBVIOUS
  <2>0. TypeOK
    BY DEF Inv
  <2>1. \E left \in 0..Burst : Charge(ip, left) /\ now' = now
    BY <2>0, AllowTakes, DenyTakesNothing
  <2>2. Available(k)' = Level(k)
    BY <2>0, <2>1, ChargeIsLocal
  <2> QED BY <2>0, <2>2, SweepIsFair
<1> QED BY InitInv, NextInv, <1>1, PTL DEF Spec, Isolation

(* No bucket of the limiter is ever above Burst, below zero or ahead of    *)
(* the clock.                                                              *)
THEOREM RateTypes == Spec => []TypeOK
<1>1. Inv => TypeOK
  BY DEF Inv
<1> QED BY InitInv, NextInv, <1>1, PTL DEF Spec

-----------------------------------------------------------------------------
(* The server.                                                             *)

(* A set of numbers that is not empty has a least element.                 *)
LEMMA FirstNatural ==
    ASSUME NEW T \in SUBSET Nat, T # {}
    PROVE  \E x \in T : \A y \in T : x <= y
<1> DEFINE R == OpToRel(<, Nat)
<1>1. IsWellFoundedOn(R, Nat)
  BY NatLessThanWellFounded
<1>2. \A x, y \in Nat : x < y => <<x, y>> \in R
  BY DEF OpToRel
<1> HIDE DEF R
<1>3. PICK x \in T : \A y \in T : ~ (<<y, x>> \in R)
  BY <1>1, WFMin
<1>4. \A y \in T : x <= y
  <2> TAKE y \in T
  <2>1. x \in Nat /\ y \in Nat /\ ~ (y < x)
    BY <1>2, <1>3
  <2> QED BY <2>1
<1> QED BY <1>4

-----------------------------------------------------------------------------
(* Streams.                                                                *)

Toks == [k : Kinds, i : Nat]

(* The running concatenations of the sequences of q up to the n-th.        *)
Joins(q, n, g) ==
    g \in [0..n -> Seq(Toks)] /\ g[0] = <<>> /\ \A i \in 1..n : g[i] = g[i - 1] \o q[i]

LEMMA JoinsExist ==
    ASSUME NEW q \in Seq(Seq(Toks)), NEW n \in 0..Len(q)
    PROVE  \E g : Joins(q, n, g)
<1> DEFINE Bad == {m \in 0..Len(q) : ~ \E g : Joins(q, m, g)}
<1> SUFFICES ASSUME Bad # {} PROVE FALSE
  OBVIOUS
<1>1. Bad \in SUBSET Nat
  OBVIOUS
<1>2. PICK m \in Bad : \A j \in Bad : m <= j
  <2> HIDE DEF Bad
  <2> QED BY <1>1, FirstNatural
<1>3. m # 0
  <2> SUFFICES ASSUME m = 0 PROVE FALSE
    OBVIOUS
  <2> DEFINE g == [i \in 0..0 |-> <<>>]
  <2>1. Joins(q, 0, g)
    BY DEF Joins
  <2> HIDE DEF g
  <2>2. \E f : Joins(q, m, f)
    BY <2>1
  <2> QED BY <1>2, <2>2
<1>4. m - 1 \in 0..Len(q) /\ m - 1 \notin Bad
  <2>1. m \in 0..Len(q) /\ Len(q) \in Nat
    BY <1>2
  <2> HIDE DEF Bad
  <2> QED BY <1>2, <1>3, <2>1
<1>5. PICK g : Joins(q, m - 1, g)
  BY <1>4
<1> DEFINE h == [i \in 0..m |-> IF i = m THEN g[m - 1] \o q[m] ELSE g[i]]
<1>6. m \in Nat /\ m \in 1..Len(q) /\ q[m] \in Seq(Toks) /\ g[m - 1] \in Seq(Toks)
  BY <1>2, <1>3, <1>4, <1>5 DEF Joins
<1>7. g[m - 1] \o q[m] \in Seq(Toks)
  BY <1>6, ConcatProperties
<1>8. \A i \in 0..m : i # m => i \in 0..(m - 1) /\ g[i] \in Seq(Toks)
  BY <1>5, <1>6 DEF Joins
<1>9. h \in [0..m -> Seq(Toks)] /\ h[0] = <<>>
  BY <1>3, <1>5, <1>6, <1>7, <1>8 DEF Joins
<1>10. ASSUME NEW i \in 1..m PROVE h[i] = h[i - 1] \o q[i]
  <2>1. i - 1 \in 0..m /\ i - 1 # m /\ i \in 0..m
    BY <1>6
  <2>2. CASE i = m
    BY <2>1, <2>2
  <2>3. CASE i # m
    <3>1. i \in 1..(m - 1)
      BY <1>6, <2>3
    <3> QED BY <1>5, <2>1, <2>3, <3>1 DEF Joins
  <2> QED BY <2>2, <2>3
<1>11. Joins(q, m, h)
  <2> HIDE DEF h
  <2> QED BY <1>9, <1>10 DEF Joins
<1> QED BY <1>2, <1>11

(* FlattenSeq is the last of them.                                         *)
LEMMA FlattenIsJoin ==
    ASSUME NEW q \in Seq(Seq(Toks)), NEW g, Joins(q, Len(q), g)
    PROVE  FlattenSeq(q) = g[Len(q)]
<1> DEFINE n == Len(q)
           Step(f, i) == IF i = 1 THEN q[i] ELSE f[i - 1] \o q[i]
           Solves(f) == f = [i \in 1..n |-> Step(f, i)]
           flatten == CHOOSE f : Solves(f)
           h == [i \in 1..n |-> g[i]]
<1>0. n \in Nat
  OBVIOUS
<1>1. CASE n = 0
  <2>1. q = <<>> /\ g[0] = <<>>
    BY <1>1 DEF Joins
  <2> QED BY <1>1, <2>1 DEF FlattenSeq
<1>2. CASE n # 0
  <2>1. FlattenSeq(q) = flatten[n]
    BY <1>2 DEF FlattenSeq
  <2>2. ASSUME NEW i \in 1..n PROVE h[i] = Step(h, i)
    <3>1. g[i] = g[i - 1] \o q[i] /\ q[i] \in Seq(Toks)
      BY DEF Joins
    <3>2. CASE i = 1
      <4>1. g[i - 1] = <<>>
        BY <3>2 DEF Joins
      <4>2. <<>> \o q[i] = q[i]
        BY <3>1, ConcatEmptySeq
      <4> QED BY <3>1, <3>2, <4>1, <4>2
    <3>3. CASE i # 1
      <4>1. i - 1 \in 1..n
        BY <1>0, <3>3
      <4> QED BY <3>1, <3>3, <4>1
    <3> QED BY <3>2, <3>3
  <2>3. Solves(h)
    <3>1. h = [i \in 1..n |-> h[i]]
      OBVIOUS
    <3> HIDE DEF h
    <3> QED BY <2>2, <3>1
  <2>4. Solves(flatten)
    BY <2>3
  <2> HIDE DEF flatten
  <2>5. \A i \in 1..n : flatten[i] = Step(flatten, i)
    BY <2>4
  <2> DEFINE Bad == {i \in 1..n : flatten[i] # h[i]}
  <2>6. Bad = {}
    <3> SUFFICES ASSUME Bad # {} PROVE FALSE
      OBVIOUS
    <3> HIDE DEF h
    <3>1. Bad \in SUBSET Nat
      BY <1>0
    <3>2. PICK i \in Bad : \A j \in Bad : i <= j
      <4> HIDE DEF Bad
      <4> QED BY <3>1, FirstNatural
    <3>3. CASE i = 1
      BY <2>2, <2>5, <3>2, <3>3
    <3>4. CASE i # 1
      <4>1. i - 1 \in 1..n /\ i - 1 \notin Bad
        BY <1>0, <3>2, <3>4
      <4>2. Step(flatten, i) = Step(h, i)
        BY <3>4, <4>1
      <4> QED BY <2>2, <2>5, <3>2, <4>2
    <3> QED BY <3>3, <3>4
  <2>7. n \in 1..n
    BY <1>0, <1>2
  <2> QED BY <2>1, <2>6, <2>7
<1> QED BY <1>1, <1>2

LEMMA TokensType ==
    ASSUME NEW i \in Nat, NEW r \in Requests
    PROVE  /\ Tokens(i, r) \in Seq(Toks) /\ Len(Tokens(i, r)) = 2 + BodyLen(r) /\ BodyLen(r) \in Nat
           /\ Tokens(i, r)[1] = [k |-> "part", i |-> i] /\ Tokens(i, r)[2] = [k |-> "head", i |-> i]
           /\ \A j \in 3..(2 + BodyLen(r)) : Tokens(i, r)[j] = [k |-> "body", i |-> i]
<1> DEFINE h == <<[k |-> "part", i |-> i], [k |-> "head", i |-> i]>>
           b == [j \in 1..BodyLen(r) |-> [k |-> "body", i |-> i]]
<1>1. BodyLen(r) \in Nat
  BY DEF Requests, BodyLen
<1>2. h \in Seq(Toks) /\ Len(h) = 2 /\ h[1] = [k |-> "part", i |-> i] /\ h[2] = [k |-> "head", i |-> i]
  BY DEF Toks, Kinds
<1>3. b \in Seq(Toks) /\ Len(b) = BodyLen(r) /\ \A j \in 1..BodyLen(r) : b[j] = [k |-> "body", i |-> i]
  <2>1. [k |-> "body", i |-> i] \in Toks
    BY DEF Toks, Kinds
  <2> QED BY <1>1, <2>1
<1>4. Tokens(i, r) = h \o b
  BY DEF Tokens
<1> HIDE DEF h, b
<1>5. /\ h \o b \in Seq(Toks) /\ Len(h \o b) = 2 + BodyLen(r)
      /\ \A j \in 1..(2 + BodyLen(r)) : (h \o b)[j] = IF j <= 2 THEN h[j] ELSE b[j - 2]
  <2>1. /\ h \o b \in Seq(Toks) /\ Len(h \o b) = Len(h) + Len(b)
        /\ \A j \in 1..(Len(h) + Len(b)) : (h \o b)[j] = IF j <= Len(h) THEN h[j] ELSE b[j - Len(h)]
    BY <1>2, <1>3, ConcatProperties
  <2> QED BY <1>2, <1>3, <2>1
<1>6. /\ (h \o b)[1] = h[1] /\ (h \o b)[2] = h[2]
      /\ \A j \in 3..(2 + BodyLen(r)) : (h \o b)[j] = b[j - 2] /\ j - 2 \in 1..BodyLen(r)
  BY <1>1, <1>5
<1> QED BY <1>1, <1>2, <1>3, <1>4, <1>5, <1>6

(* A stream with one more request.                                         *)
LEMMA StreamAppend ==
    ASSUME NEW s \in Seq(Requests), NEW r \in Requests
    PROVE  /\ Stream(s) \in Seq(Toks) /\ Stream(<<>>) = <<>>
           /\ Stream(Append(s, r)) = Stream(s) \o Tokens(Len(s) + 1, r)
<1> DEFINE n == Len(s)
           t == Append(s, r)
           Parts(x) == [i \in 1..Len(x) |-> Tokens(i, x[i])]
<1>1. ASSUME NEW x \in Seq(Requests)
      PROVE  Parts(x) \in Seq(Seq(Toks)) /\ Len(Parts(x)) = Len(x)
  <2>1. ASSUME NEW i \in 1..Len(x) PROVE Tokens(i, x[i]) \in Seq(Toks)
    <3>1. i \in Nat /\ x[i] \in Requests
      OBVIOUS
    <3> QED BY <3>1, TokensType
  <2> QED BY <2>1
<1>2. t \in Seq(Requests) /\ Len(t) = n + 1 /\ n \in Nat /\ t[n + 1] = r /\ \A i \in 1..n : t[i] = s[i]
  BY AppendProperties
<1>3. PICK g : Joins(Parts(t), n + 1, g)
  <2> HIDE DEF Parts, t
  <2>1. Parts(t) \in Seq(Seq(Toks)) /\ Len(Parts(t)) = n + 1
    BY <1>1, <1>2
  <2>2. n + 1 \in 0..Len(Parts(t))
    BY <1>2, <2>1
  <2> QED BY <2>1, <2>2, JoinsExist
<1>4. Stream(t) = g[n + 1]
  <2>1. Stream(t) = FlattenSeq(Parts(t))
    BY DEF Stream
  <2> HIDE DEF Parts, t
  <2>2. Parts(t) \in Seq(Seq(Toks)) /\ Len(Parts(t)) = n + 1
    BY <1>1, <1>2
  <2>3. FlattenSeq(Parts(t)) = g[n + 1]
    BY <1>3, <2>2, FlattenIsJoin
  <2> QED BY <2>1, <2>3
<1> DEFINE h == [i \in 0..n |-> g[i]]
<1>5. Joins(Parts(s), n, h)
  <2>1. \A i \in 1..n : Parts(s)[i] = Parts(t)[i] /\ i \in 1..(n + 1) /\ i - 1 \in 0..n /\ i \in 0..n
    BY <1>2
  <2>2. \A i \in 0..n : i \in 0..(n + 1)
    BY <1>2
  <2> HIDE DEF Parts
  <2>3. h \in [0..n -> Seq(Toks)] /\ h[0] = <<>>
    BY <1>2, <1>3, <2>2 DEF Joins
  <2>4. \A i \in 1..n : h[i] = h[i - 1] \o Parts(s)[i]
    BY <1>3, <2>1 DEF Joins
  <2> QED BY <2>3, <2>4 DEF Joins
<1>6. Stream(s) = h[n]
  BY <1>1, <1>5, FlattenIsJoin DEF Stream
<1>7. h[n] = g[n] /\ h[n] \in Seq(Toks)
  BY <1>2, <1>3 DEF Joins
<1>8. g[n + 1] = g[n] \o Parts(t)[n + 1]
  <2>1. n + 1 \in 1..(n + 1) /\ (n + 1) - 1 = n
    BY <1>2
  <2> QED BY <1>3, <2>1 DEF Joins
<1>9. Parts(t)[n + 1] = Tokens(n + 1, r)
  BY <1>2
<1>10. Stream(<<>>) = <<>>
  BY DEF Stream, FlattenSeq
<1> QED BY <1>4, <1>6, <1>7, <1>8, <1>9, <1>10

LEMMA PrefixStep ==
    ASSUME NEW s \in Seq(Requests), NEW i \in 1..Len(s)
    PROVE  /\ Stream(SubSeq(s, 1, i - 1)) \in Seq(Toks)
           /\ Stream(SubSeq(s, 1, i)) = Stream(SubSeq(s, 1, i - 1)) \o Tokens(i, s[i])
<1> DEFINE p == SubSeq(s, 1, i - 1)
<1>1. p \in Seq(Requests) /\ Len(p) = i - 1 /\ s[i] \in Requests /\ i \in Nat
  <2>1. \A j \in 1..(i - 1) : s[j] \in Requests
    OBVIOUS
  <2> QED BY <2>1, SubSeqProperties
<1>2. SubSeq(s, 1, i) = Append(p, s[i])
  <2>1. SubSeq(s, 1, i) = SubSeq(s, 1, i - 1) \o <<s[i]>>
    <3>1. 1 \in 1..Len(s) /\ i \in 1..Len(s)
      OBVIOUS
    <3> QED BY <3>1, SubSeqRecursiveSecond
  <2>2. Append(p, s[i]) = p \o <<s[i]>>
    <3> HIDE DEF p
    <3> QED BY <1>1, AppendIsConcat
  <2> QED BY <2>1, <2>2
<1> HIDE DEF p
<1>3. Stream(p) \in Seq(Toks) /\ Stream(Append(p, s[i])) = Stream(p) \o Tokens(Len(p) + 1, s[i])
  BY <1>1, StreamAppend
<1>4. Len(p) + 1 = i
  BY <1>1
<1> QED BY <1>2, <1>3, <1>4 DEF p

LEMMA StreamType ==
    ASSUME NEW s \in Seq(Requests)
    PROVE  Stream(s) \in Seq(Toks) /\ Len(Stream(s)) \in Nat
<1>1. CASE s = <<>>
  BY <1>1 DEF Stream, FlattenSeq
<1>2. CASE s # <<>>
  <2>1. s[1] \in Requests
    BY <1>2
  <2> QED BY <2>1, StreamAppend
<1> QED BY <1>1, <1>2

(* Requests follow each other in the stream without a gap.                 *)
LEMMA StartStep ==
    ASSUME NEW s \in Seq(Requests), NEW i \in 1..Len(s)
    PROVE  /\ Start(s, i) \in Nat /\ BodyLen(s[i]) \in Nat
           /\ Start(s, i + 1) = Start(s, i) + 2 + BodyLen(s[i])
<1>1. /\ Stream(SubSeq(s, 1, i - 1)) \in Seq(Toks)
      /\ Stream(SubSeq(s, 1, i)) = Stream(SubSeq(s, 1, i - 1)) \o Tokens(i, s[i])
  BY PrefixStep
<1>2. Tokens(i, s[i]) \in Seq(Toks) /\ Len(Tokens(i, s[i])) = 2 + BodyLen(s[i]) /\ BodyLen(s[i]) \in Nat
  <2>1. i \in Nat /\ s[i] \in Requests
    OBVIOUS
  <2> QED BY <2>1, TokensType
<1> DEFINE before == Stream(SubSeq(s, 1, i - 1))
           toks   == Tokens(i, s[i])
<1>3. Len(Stream(SubSeq(s, 1, i))) = Len(before) + (2 + BodyLen(s[i])) /\ Len(before) \in Nat
  <2>1. Stream(SubSeq(s, 1, i)) = before \o toks /\ before \in Seq(Toks) /\ toks \in Seq(Toks)
    BY <1>1, <1>2
  <2> HIDE DEF before, toks
  <2>2. Len(before \o toks) = Len(before) + Len(toks) /\ Len(before) \in Nat
    BY <2>1, ConcatProperties, LenProperties
  <2>3. Len(toks) = 2 + BodyLen(s[i])
    BY <1>2 DEF toks
  <2> QED BY <2>1, <2>2, <2>3
<1>4. (i + 1) - 1 = i
  OBVIOUS
<1>5. Start(s, i) = Len(before) /\ Start(s, i + 1) = Len(Stream(SubSeq(s, 1, i)))
  BY <1>4 DEF Start
<1>6. BodyLen(s[i]) \in Nat
  BY <1>2
<1>7. ASSUME NEW a \in Nat, NEW m \in Nat PROVE a + (2 + m) = a + 2 + m
  OBVIOUS
<1> HIDE DEF before
<1> QED BY <1>3, <1>5, <1>6, <1>7

LEMMA StartEnds ==
    ASSUME NEW s \in Seq(Requests)
    PROVE  Start(s, 1) = 0 /\ Start(s, Len(s) + 1) = Len(Stream(s))
<1>1. SubSeq(s, 1, 1 - 1) = <<>>
  BY SubSeqEmpty
<1>2. Stream(<<>>) = <<>>
  BY DEF Stream, FlattenSeq
<1>3. SubSeq(s, 1, (Len(s) + 1) - 1) = s
  <2>1. (Len(s) + 1) - 1 = Len(s)
    OBVIOUS
  <2> QED BY <2>1, SubSeqFull
<1>4. Len(<<>>) = 0
  OBVIOUS
<1>5. Start(s, 1) = 0
  BY <1>1, <1>2, <1>4 DEF Start
<1>6. Start(s, Len(s) + 1) = Len(Stream(s))
  BY <1>3 DEF Start
<1> QED BY <1>5, <1>6

(* Where the tokens of request i are.                                      *)
LaidOut(s, i, t) ==
    LET b == Start(s, i)
    IN  /\ b + 2 + BodyLen(s[i]) <= Len(t)
        /\ t[b + 1] = [k |-> "part", i |-> i] /\ t[b + 2] = [k |-> "head", i |-> i]
        /\ \A j \in 3..(2 + BodyLen(s[i])) : t[b + j] = [k |-> "body", i |-> i]

LEMMA StreamLayout ==
    ASSUME NEW s \in Seq(Requests), NEW i \in 1..Len(s)
    PROVE  LaidOut(s, i, Stream(s))
<1> DEFINE P(m) == Stream(SubSeq(s, 1, m))
           n == Len(s)
           b == Start(s, i)
           l == BodyLen(s[i])
           Bad == {m \in i..n : ~ LaidOut(s, i, P(m))}
<1>0. n \in Nat /\ b \in Nat /\ l \in Nat /\ i \in Nat /\ i <= n
  BY StartStep
<1>1. ASSUME NEW m \in 1..n
      PROVE  /\ P(m - 1) \in Seq(Toks) /\ Tokens(m, s[m]) \in Seq(Toks) /\ P(m) \in Seq(Toks)
             /\ Len(P(m)) = Len(P(m - 1)) + Len(Tokens(m, s[m]))
             /\ \A j \in 1..(Len(P(m - 1)) + Len(Tokens(m, s[m]))) :
                  P(m)[j] = IF j <= Len(P(m - 1)) THEN P(m - 1)[j]
                            ELSE Tokens(m, s[m])[j - Len(P(m - 1))]
  <2>1. P(m - 1) \in Seq(Toks) /\ P(m) = P(m - 1) \o Tokens(m, s[m])
    BY PrefixStep
  <2>2. m \in Nat /\ s[m] \in Requests
    OBVIOUS
  <2>3. Tokens(m, s[m]) \in Seq(Toks)
    BY <2>2, TokensType
  <2> HIDE DEF P
  <2> QED BY <2>1, <2>3, ConcatProperties
<1>2. LaidOut(s, i, P(i))
  <2>1. /\ Len(Tokens(i, s[i])) = 2 + l
        /\ Tokens(i, s[i])[1] = [k |-> "part", i |-> i] /\ Tokens(i, s[i])[2] = [k |-> "head", i |-> i]
        /\ \A j \in 3..(2 + l) : Tokens(i, s[i])[j] = [k |-> "body", i |-> i]
    <3>1. i \in Nat /\ s[i] \in Requests
      OBVIOUS
    <3> QED BY <3>1, TokensType
  <2>2. b = Len(P(i - 1))
    BY DEF Start
  <2>3. Len(P(i)) = b + (2 + l) /\ \A j \in 1..(2 + l) : P(i)[b + j] = Tokens(i, s[i])[j]
    <3> HIDE DEF P, b, l
    <3>1. /\ Len(P(i)) = b + (2 + l)
          /\ \A j \in 1..(b + (2 + l)) :
               P(i)[j] = IF j <= b THEN P(i - 1)[j] ELSE Tokens(i, s[i])[j - b]
      BY <1>1, <2>1, <2>2
    <3>2. ASSUME NEW j \in 1..(2 + l) PROVE P(i)[b + j] = Tokens(i, s[i])[j]
      <4>1. b + j \in 1..(b + (2 + l)) /\ ~ (b + j <= b) /\ (b + j) - b = j
        BY <1>0
      <4> QED BY <3>1, <4>1
    <3> QED BY <3>1, <3>2
  <2> HIDE DEF P
  <2>4. 1 \in 1..(2 + l) /\ 2 \in 1..(2 + l) /\ \A j \in 3..(2 + l) : j \in 1..(2 + l)
    BY <1>0
  <2>5. /\ P(i)[b + 1] = [k |-> "part", i |-> i] /\ P(i)[b + 2] = [k |-> "head", i |-> i]
        /\ \A j \in 3..(2 + l) : P(i)[b + j] = [k |-> "body", i |-> i]
    BY <2>1, <2>3, <2>4
  <2>6. b + 2 + l <= Len(P(i))
    <3> HIDE DEF b, l
    <3> QED BY <1>0, <2>3
  <2> QED BY <2>5, <2>6 DEF LaidOut
<1>3. Bad = {}
  <2> SUFFICES ASSUME Bad # {} PROVE FALSE
    OBVIOUS
  <2>1. Bad \in SUBSET Nat
    BY <1>0
  <2>2. PICK m \in Bad : \A j \in Bad : m <= j
    <3> HIDE DEF Bad
    <3> QED BY <2>1, FirstNatural
  <2>3. m # i /\ m \in i..n
    BY <1>2, <2>2
  <2>4. m - 1 \in i..n /\ m \in 1..n /\ m - 1 \notin Bad
    <3> HIDE DEF Bad
    <3> QED BY <1>0, <2>2, <2>3
  <2>5. LaidOut(s, i, P(m - 1))
    BY <2>4
  <2> HIDE DEF P
  <2>6. Len(P(m - 1)) \in Nat /\ Len(Tokens(m, s[m])) \in Nat /\ Len(P(m)) \in Nat
    BY <1>1, <2>4, LenProperties
  <2>7. Len(P(m - 1)) <= Len(P(m)) /\ \A j \in 1..Len(P(m - 1)) : P(m)[j] = P(m - 1)[j]
    <3>1. /\ Len(P(m)) = Len(P(m - 1)) + Len(Tokens(m, s[m]))
          /\ \A j \in 1..(Len(P(m - 1)) + Len(Tokens(m, s[m]))) :
               P(m)[j] = IF j <= Len(P(m - 1)) THEN P(m - 1)[j]
                         ELSE Tokens(m, s[m])[j - Len(P(m - 1))]
      BY <1>1, <2>4
    <3> QED BY <2>6, <3>1
  <2>8. /\ b + 1 \in 1..Len(P(m - 1)) /\ b + 2 \in 1..Len(P(m - 1))
        /\ \A j \in 3..(2 + l) : b + j \in 1..Len(P(m - 1))
    <3>1. b + 2 + l <= Len(P(m - 1))
      BY <2>5 DEF LaidOut
    <3> HIDE DEF b, l
    <3> QED BY <1>0, <2>6, <3>1
  <2>9. LaidOut(s, i, P(m))
    <3>1. b + 2 + l <= Len(P(m))
      <4>1. b + 2 + l <= Len(P(m - 1))
        BY <2>5 DEF LaidOut
      <4> HIDE DEF b, l
      <4> QED BY <1>0, <2>6, <2>7, <4>1
    <3> QED BY <2>5, <2>7, <2>8, <3>1 DEF LaidOut
  <2> QED BY <2>2, <2>9
<1>4. P(n) = Stream(s) /\ n \in i..n
  <2>1. SubSeq(s, 1, n) = s
    BY SubSeqFull
  <2>2. n \in i..n
    <3> HIDE DEF n
    <3> QED BY <1>0
  <2> QED BY <2>1, <2>2
<1> QED BY <1>3, <1>4

-----------------------------------------------------------------------------
(* Connections.                                                            *)

LEMMA ConnFacts ==
    ASSUME ServerTypeOK, NEW c \in Conns
    PROVE  /\ client[c].sent \in Seq(Requests) /\ Len(client[c].sent) \in Nat
           /\ client[c].ip \in Ips /\ client[c].short \in BOOLEAN
           /\ \A i \in 1..Len(client[c].sent) : client[c].sent[i] \in Requests
           /\ Stream(client[c].sent) \in Seq(Toks) /\ Len(Stream(client[c].sent)) \in Nat
           /\ buf[c] \in Seq(Toks) /\ Len(buf[c]) \in Nat
           /\ wire[c] \in Seq(Toks) /\ Len(wire[c]) \in Nat
           /\ out[c] \in Seq(Replies) /\ Len(out[c]) \in Nat
           /\ got[c] \in Seq(Replies) /\ Len(got[c]) \in Nat
           /\ Answered(c) \in Nat
<1>1. client[c] \in [ip : Ips, sent : Seq(Requests), short : BOOLEAN]
  BY ServerAssumption DEF ServerTypeOK
<1>2. client[c].sent \in Seq(Requests) /\ client[c].ip \in Ips /\ client[c].short \in BOOLEAN
  BY <1>1
<1>3. Stream(client[c].sent) \in Seq(Toks) /\ Len(Stream(client[c].sent)) \in Nat
  BY <1>2, StreamType
<1>4. buf[c] \in Seq(Toks) /\ wire[c] \in Seq(Toks) /\ out[c] \in Seq(Replies) /\ got[c] \in Seq(Replies)
  BY DEF ServerTypeOK, Toks
<1>5. /\ Len(client[c].sent) \in Nat /\ \A i \in 1..Len(client[c].sent) : client[c].sent[i] \in Requests
  BY <1>2
<1>6. Len(buf[c]) \in Nat /\ Len(wire[c]) \in Nat /\ Len(out[c]) \in Nat /\ Len(got[c]) \in Nat
  BY <1>4, LenProperties
<1>7. Answered(c) \in Nat
  <2> DEFINE g == Len(got[c])
             o == Len(out[c])
  <2>1. g \in Nat /\ o \in Nat /\ Answered(c) = g + o
    BY <1>6 DEF Answered
  <2> HIDE DEF g, o
  <2> QED BY <2>1
<1> QED BY <1>2, <1>3, <1>4, <1>5, <1>6, <1>7

LEMMA SentFacts ==
    ASSUME ServerTypeOK, NEW c \in Conns
    PROVE  /\ Sent(c) \in Seq(Toks) /\ Len(Sent(c)) \in Nat /\ Consumed(c) \in Int
           /\ Len(Sent(c)) <= Len(Stream(client[c].sent))
           /\ Len(Stream(client[c].sent)) <= Len(Sent(c)) + 1
           /\ ~ client[c].short => Len(Sent(c)) = Len(Stream(client[c].sent))
           /\ \A p \in 1..Len(Sent(c)) : Sent(c)[p] = Stream(client[c].sent)[p]
<1> DEFINE s == Stream(client[c].sent)
<1>f. s \in Seq(Toks) /\ Len(s) \in Nat /\ Len(buf[c]) \in Nat /\ Len(wire[c]) \in Nat
  BY ConnFacts
<1> HIDE DEF s
<1>1. /\ Front(s) \in Seq(Toks) /\ Len(Front(s)) = (IF 1 <= Len(s) - 1 THEN Len(s) - 1 ELSE 0)
      /\ \A p \in 1..(Len(s) - 1) : Front(s)[p] = s[p]
  <2>1. \A p \in 1..(Len(s) - 1) : s[p] \in Toks
    BY <1>f
  <2>2. /\ SubSeq(s, 1, Len(s) - 1) \in Seq(Toks)
        /\ Len(SubSeq(s, 1, Len(s) - 1)) = IF 1 <= Len(s) - 1 THEN (Len(s) - 1) - 1 + 1 ELSE 0
        /\ \A p \in 1..((Len(s) - 1) - 1 + 1) : SubSeq(s, 1, Len(s) - 1)[p] = s[1 + p - 1]
    <3>1. 1 \in Int /\ Len(s) - 1 \in Int
      BY <1>f
    <3> QED BY <2>1, <3>1, SubSeqProperties
  <2>3. /\ (Len(s) - 1) - 1 + 1 = Len(s) - 1
        /\ \A p \in 1..(Len(s) - 1) : 1 + p - 1 = p
    BY <1>f
  <2> QED BY <1>f, <2>2, <2>3 DEF Front
<1>2. CASE client[c].short
  <2>1. Sent(c) = Front(s)
    BY <1>2 DEF Sent, s
  <2>2. /\ Len(Front(s)) \in Nat /\ Len(Front(s)) <= Len(s) /\ Len(s) <= Len(Front(s)) + 1
        /\ \A p \in 1..Len(Front(s)) : p \in 1..(Len(s) - 1)
    BY <1>f, <1>1
  <2> QED BY <1>f, <1>1, <1>2, <2>1, <2>2 DEF Consumed, s
<1>3. CASE ~ client[c].short
  <2>1. Sent(c) = s
    BY <1>3 DEF Sent, s
  <2> QED BY <1>f, <1>3, <2>1 DEF Consumed, s
<1> QED BY <1>2, <1>3

(* What is at the head of a buffer is the next thing to be answered.       *)
LEMMA NextRequest ==
    ASSUME ServerTypeOK, NEW c \in Conns, InStream(c), InPlace(c),
           at[c] \in {"read", "parse", "run"} \/ Consumed(c) = Start(client[c].sent, Answered(c) + 1),
           Len(buf[c]) >= 2
    PROVE  /\ Index(c) = Answered(c) + 1 /\ Index(c) \in 1..Len(client[c].sent)
           /\ Req(c) = client[c].sent[Answered(c) + 1] /\ Req(c) \in Requests
           /\ Consumed(c) = Start(client[c].sent, Answered(c) + 1)
           /\ Len(Stream(client[c].sent)) >= Consumed(c) + 2
<1> DEFINE s == client[c].sent
           d == Answered(c)
           t == Stream(s)
           k == Consumed(c)
<1>f. /\ s \in Seq(Requests) /\ Len(s) \in Nat /\ d \in Nat /\ t \in Seq(Toks) /\ Len(t) \in Nat
      /\ buf[c] \in Seq(Toks) /\ Len(buf[c]) \in Nat /\ Len(wire[c]) \in Nat
      /\ k \in Int /\ Len(Sent(c)) \in Nat /\ Len(Sent(c)) <= Len(t)
  BY ConnFacts, SentFacts
<1>k. k >= 0 /\ k = Len(Sent(c)) - Len(buf[c]) - Len(wire[c]) /\ Len(buf[c]) >= 2
  BY DEF InStream, Consumed
<1>b. buf[c][1] = t[k + 1] /\ buf[c][2] = t[k + 2] /\ k + 2 <= Len(t)
  <2>1. 1 \in 1..Len(buf[c]) /\ 2 \in 1..Len(buf[c])
    <3> HIDE DEF k
    <3> QED BY <1>f, <1>k
  <2>2. k + 2 <= Len(t)
    <3> DEFINE ls == Len(Sent(c))
               lb == Len(buf[c])
               lw == Len(wire[c])
               lt == Len(t)
    <3>1. /\ ls \in Nat /\ lb \in Nat /\ lw \in Nat /\ lt \in Nat /\ ls <= lt
          /\ k = ls - lb - lw /\ lb >= 2
      BY <1>f, <1>k
    <3> HIDE DEF ls, lb, lw, lt, k
    <3>2. k + 2 <= lt
      BY <3>1
    <3> QED BY <3>2 DEF lt
  <2> QED BY <2>1, <2>2 DEF InStream
<1>p. d <= Len(s) /\ k = Start(s, d + 1)
  BY DEF InPlace
<1> HIDE DEF k, d, s, t
<1>1. d # Len(s)
  <2>1. Start(s, Len(s) + 1) = Len(t)
    BY <1>f, StartEnds DEF t
  <2> QED BY <1>f, <1>b, <1>p, <2>1
<1>2. d + 1 \in 1..Len(s)
  BY <1>f, <1>p, <1>1
<1>3. LaidOut(s, d + 1, t)
  BY <1>f, <1>2, StreamLayout DEF t
<1>4. t[k + 2] = [k |-> "head", i |-> d + 1]
  BY <1>p, <1>3 DEF LaidOut
<1>5. buf[c][2].i = d + 1
  BY <1>b, <1>4
<1>6. Index(c) = d + 1 /\ Req(c) = s[d + 1] /\ s[d + 1] \in Requests
  BY <1>f, <1>2, <1>5 DEF Index, Req, s
<1>7. Len(t) >= k + 2
  BY <1>f, <1>b
<1> QED BY <1>p, <1>2, <1>6, <1>7 DEF s, d, t, k

-----------------------------------------------------------------------------
(* Types.                                                                  *)

LEMMA MillisType == ASSUME NEW t \in Int PROVE Millis(t) \in Int
<1>1. CASE t >= 0
  BY <1>1 DEF Millis
<1>2. CASE ~ (t >= 0)
  <2>1. - t \in Int /\ (- t) \div 2 \in Int
    BY <1>2
  <2> QED BY <1>2, <2>1 DEF Millis
<1> QED BY <1>1, <1>2

(* The server caps what a client asks for, and keeps its sign.             *)
LEMMA CappedType ==
    ASSUME NEW t \in Int
    PROVE  Capped(t) \in Int /\ Capped(t) <= LinkTtl /\ (Capped(t) > 0 <=> Millis(t) > 0)
<1>1. Millis(t) \in Int /\ LinkTtl \in Nat /\ LinkTtl > 0
  BY MillisType, ServerAssumption
<1> QED BY <1>1 DEF Capped, Least

LEMMA LifetimeType ==
    ASSUME NEW r \in Requests
    PROVE  Lifetime(r) \in Int /\ Lifetime(r) <= LinkTtl
<1>1. LinkTtl \in Nat /\ (r.ttl # None => r.ttl \in Int)
  BY ServerAssumption DEF Requests
<1>2. CASE r.ttl = None
  BY <1>1, <1>2 DEF Lifetime
<1>3. CASE r.ttl # None
  BY <1>1, <1>3, CappedType DEF Lifetime
<1> QED BY <1>2, <1>3

LEMMA ExpiryType ==
    ASSUME now \in Nat, NEW ttl \in Int
    PROVE  Expiry(ttl) \in Nat /\ (Expiry(ttl) = 0 <=> ~ (ttl > 0)) /\ (ttl > 0 => Expiry(ttl) = now + ttl)
BY DEF Expiry

StoreOK == links \in [Codes -> Nat \cup {None}] /\ forever \subseteq Codes /\ made \in [Ips -> Nat]

LEMMA CreateType ==
    ASSUME StoreOK, now \in Nat, NEW ip \in Ips, NEW S \in SUBSET Codes, Cardinality(S) \in Nat,
           NEW ttl \in Int, Create(ip, S, ttl)
    PROVE  StoreOK'
<1>1. links' \in [Codes -> Nat \cup {None}]
  BY ExpiryType DEF Create, StoreOK
<1>2. forever' \subseteq Codes
  BY DEF Create, StoreOK
<1>3. made' \in [Ips -> Nat]
  <2> DEFINE k == Cardinality(S)
  <2>1. k \in Nat /\ made' = [made EXCEPT ![ip] = @ + k] /\ made \in [Ips -> Nat]
    BY DEF Create, StoreOK
  <2> HIDE DEF k
  <2> QED BY <2>1
<1> QED BY <1>1, <1>2, <1>3 DEF StoreOK

LEMMA SetType ==
    ASSUME StoreOK, NEW c \in Codes, NEW e \in Nat \cup {None}, NEW never, Set(c, e, never)
    PROVE  StoreOK'
BY DEF Set, StoreOK

(* What a call of the store does to the links.                             *)
LEMMA StoredCases ==
    ASSUME NEW ip, NEW r \in Requests, NEW s, r.form = "ok", Stored(ip, r, s)
    PROVE  \/ UNCHANGED store
           \/ r.op = "shorten" /\ \E c \in Codes : links[c] = None /\ Create(ip, {c}, Lifetime(r))
           \/ r.op = "bulk" /\ \E S \in SUBSET Free : Cardinality(S) = r.urls /\ Create(ip, S, LinkTtl)
           \/ /\ r.op = "update" /\ r.code \in Codes /\ r.ttl \in Int
              /\ Set(r.code, Expiry(Capped(r.ttl)), Millis(r.ttl) <= 0)
           \/ r.op = "remove" /\ r.code \in Codes /\ Set(r.code, None, FALSE)
<1>1. r.op \in Edits => r.code \in Codes
  BY DEF Requests
<1>2. r.ttl # None => r.ttl \in Int
  BY DEF Requests
<1> QED BY <1>1, <1>2 DEF Stored, Free, Edits

LEMMA StoredType ==
    ASSUME StoreOK, now \in Nat, NEW ip \in Ips, NEW r \in Requests, NEW s, r.form = "ok",
           Stored(ip, r, s)
    PROVE  StoreOK'
<1>1. CASE UNCHANGED store
  BY <1>1 DEF store, StoreOK
<1>2. CASE \E c \in Codes : links[c] = None /\ Create(ip, {c}, Lifetime(r))
  <2>1. PICK c \in Codes : Create(ip, {c}, Lifetime(r))
    BY <1>2
  <2>2. Cardinality({c}) \in Nat /\ {c} \in SUBSET Codes /\ Lifetime(r) \in Int
    <3>1. Cardinality({c}) = 1 /\ {c} \in SUBSET Codes
      BY FS_Singleton
    <3>2. Lifetime(r) \in Int
      BY LifetimeType
    <3> QED BY <3>1, <3>2
  <2> QED BY <2>1, <2>2, CreateType
<1>3. CASE \E S \in SUBSET Free : Cardinality(S) = r.urls /\ Create(ip, S, LinkTtl)
  <2>1. PICK S \in SUBSET Free : Cardinality(S) = r.urls /\ Create(ip, S, LinkTtl)
    BY <1>3
  <2>2. Cardinality(S) \in Nat /\ S \in SUBSET Codes /\ LinkTtl \in Int
    BY <2>1, ServerAssumption DEF Free, Requests
  <2> QED BY <2>1, <2>2, CreateType
<1>4. CASE /\ r.code \in Codes /\ r.ttl \in Int
           /\ Set(r.code, Expiry(Capped(r.ttl)), Millis(r.ttl) <= 0)
  <2>1. Expiry(Capped(r.ttl)) \in Nat \cup {None}
    BY <1>4, CappedType, ExpiryType
  <2> QED BY <1>4, <2>1, SetType
<1>5. CASE r.code \in Codes /\ Set(r.code, None, FALSE)
  BY <1>5, SetType
<1> QED BY <1>1, <1>2, <1>3, <1>4, <1>5, StoredCases

LEMMA UnroutedType ==
    ASSUME NEW r \in Requests
    PROVE  /\ \A s \in Unrouted(r) : s \in 200..599
           /\ Unrouted(r) = {} => r.form = "ok" /\ (r.op = "bulk" => r.urls # 0)
BY DEF Unrouted, Requests, Gets, Posts, Edits

-----------------------------------------------------------------------------
(* The limiter inside the server.                                          *)

(* The request that a thread answers is one that its client has sent.      *)
LEMMA AtRequest ==
    ASSUME ServerTypeOK, ConnHolds, NEW c \in Conns,
           at[c] = "run" \/ (at[c] = "parse" /\ HasHead(c))
    PROVE  /\ HasHead(c) /\ at[c] \in {"parse", "run"}
           /\ Index(c) = Answered(c) + 1 /\ Index(c) \in 1..Len(client[c].sent)
           /\ Req(c) = client[c].sent[Answered(c) + 1] /\ Req(c) \in Requests
           /\ Consumed(c) = Start(client[c].sent, Answered(c) + 1)
           /\ Len(Stream(client[c].sent)) >= Consumed(c) + 2
<1>1. InStream(c) /\ InPlace(c) /\ HasHead(c)
  BY DEF ConnHolds, Admitted, Complete
<1>2. Len(buf[c]) >= 2
  BY <1>1 DEF HasHead
<1> QED BY <1>1, <1>2, NextRequest

LEMMA Charged ==
    ASSUME ServerTypeOK, ConnHolds, NEW c \in Conns,
           at[c] = "run" \/ (at[c] = "parse" /\ HasHead(c))
    PROVE  Client(c, Req(c)) \in Ips /\ Price(Req(c)) \in Costs
<1>1. /\ Index(c) \in 1..Len(client[c].sent) /\ Req(c) = client[c].sent[Index(c)]
      /\ Req(c) \in Requests
  BY AtRequest DEF Req
<1>2. client[c].ip \in Ips /\ client \in Clients
  BY ConnFacts DEF ServerTypeOK
<1>3. Req(c).xff \in Ips \cup {None}
  BY <1>1 DEF Requests
<1> QED BY <1>1, <1>2, <1>3, PriceAssumption DEF Client

LEMMA LimiterStep ==
    ASSUME ServerTypeOK, ConnHolds, [ServerNext]_serverVars
    PROVE  [Next]_vars
<1>1. ASSUME NEW c \in Conns, Admit(c) PROVE Next
  <2>1. Client(c, Req(c)) \in Ips /\ Price(Req(c)) \in Costs
    BY <1>1, Charged DEF Admit, Complete
  <2>2. Allow(Client(c, Req(c)), Price(Req(c))) \/ Deny(Client(c, Req(c)), Price(Req(c)))
    BY <1>1 DEF Admit
  <2> QED BY <2>1, <2>2 DEF Next
<1>2. ASSUME NEW c \in Conns,
             Read(c) \/ Fail(c) \/ Partial(c) \/ Drop(c) \/ TooLarge(c) \/ Run(c) \/ Write(c)
      PROVE  UNCHANGED vars
  BY <1>2 DEF Read, Fail, Partial, Drop, TooLarge, Run, Write, limiter, vars
<1>3. CASE Tick \/ Observe
  BY <1>3 DEF Next
<1>4. CASE UNCHANGED serverVars
  BY <1>4 DEF serverVars, limiter, vars
<1> QED BY <1>1, <1>2, <1>3, <1>4 DEF ServerNext

-----------------------------------------------------------------------------
(* The types of the variables.                                             *)

ConnTypes ==
    /\ client \in Clients
    /\ wire \in [Conns -> Seq(Toks)] /\ buf \in [Conns -> Seq(Toks)]
    /\ out \in [Conns -> Seq(Replies)] /\ got \in [Conns -> Seq(Replies)]
    /\ closing \subseteq Conns /\ cut \subseteq Conns
    /\ at \in [Conns -> {"read", "parse", "run", "write", "closed"}]

LEMMA TypesSplit == ServerTypeOK <=> ConnTypes /\ StoreOK
BY DEF ServerTypeOK, ConnTypes, StoreOK, Toks

(* The part of a buffer from its m-th token on.                            *)
LEMMA Suffix ==
    ASSUME NEW S, NEW q \in Seq(S), NEW m \in Nat, m <= Len(q)
    PROVE  /\ SubSeq(q, m + 1, Len(q)) \in Seq(S)
           /\ Len(SubSeq(q, m + 1, Len(q))) = Len(q) - m
           /\ \A p \in 1..(Len(q) - m) : SubSeq(q, m + 1, Len(q))[p] = q[m + p]
<1> DEFINE l == Len(q)
<1>1. l \in Nat /\ \A i \in (m + 1)..l : q[i] \in S
  OBVIOUS
<1>2. m + 1 \in Int /\ l \in Int
  BY <1>1
<1>3. /\ SubSeq(q, m + 1, l) \in Seq(S)
      /\ Len(SubSeq(q, m + 1, l)) = IF m + 1 <= l THEN l - (m + 1) + 1 ELSE 0
      /\ \A p \in 1..(l - (m + 1) + 1) : SubSeq(q, m + 1, l)[p] = q[(m + 1) + p - 1]
  <2> HIDE DEF l
  <2> QED BY <1>1, <1>2, SubSeqProperties
<1>4. /\ l - (m + 1) + 1 = l - m /\ (IF m + 1 <= l THEN l - (m + 1) + 1 ELSE 0) = l - m
      /\ \A p \in 1..(l - m) : (m + 1) + p - 1 = m + p
  <2>1. m <= l
    OBVIOUS
  <2> HIDE DEF l
  <2> QED BY <1>1, <2>1
<1> HIDE DEF l
<1>5. /\ SubSeq(q, m + 1, l) \in Seq(S) /\ Len(SubSeq(q, m + 1, l)) = l - m
      /\ \A p \in 1..(l - m) : SubSeq(q, m + 1, l)[p] = q[m + p]
  BY <1>3, <1>4
<1> QED BY <1>5 DEF l

LEMMA TotalType ==
    ASSUME NEW r \in Requests
    PROVE  Total(r) \in Nat /\ Total(r) >= 2 /\ BodyLen(r) \in Nat
<1>1. BodyLen(r) \in Nat
  BY DEF Requests, BodyLen
<1> QED BY <1>1 DEF Total

(* A reply takes its request out of the buffer.                            *)
LEMMA RespondTypes ==
    ASSUME ServerTypeOK, ConnHolds, NEW c \in Conns, NEW s \in 200..599,
           at[c] = "run" \/ at[c] = "parse", Complete(c), Respond(c, s)
    PROVE  /\ ConnTypes'
           /\ buf'[c] = SubSeq(buf[c], Total(Req(c)) + 1, Len(buf[c]))
           /\ Len(buf[c]) >= Total(Req(c)) /\ Total(Req(c)) \in Nat
<1>0. ConnTypes /\ HasHead(c)
  BY TypesSplit DEF Complete
<1>1. Index(c) \in Nat /\ Req(c) \in Requests
  BY <1>0, AtRequest
<1>2. Total(Req(c)) \in Nat /\ Len(buf[c]) >= Total(Req(c)) /\ Len(buf[c]) \in Nat /\ buf[c] \in Seq(Toks)
  BY <1>1, TotalType, ConnFacts DEF Complete
<1>3. SubSeq(buf[c], Total(Req(c)) + 1, Len(buf[c])) \in Seq(Toks)
  <2> DEFINE l == Len(buf[c])
             m == Total(Req(c))
  <2>1. m <= l
    <3>1. m \in Nat /\ l \in Nat /\ l >= m
      BY <1>2
    <3> HIDE DEF l, m
    <3> QED BY <3>1
  <2> QED BY <1>2, <2>1, Suffix
<1>4. buf' = [buf EXCEPT ![c] = SubSeq(buf[c], Total(Req(c)) + 1, Len(buf[c]))]
  BY <1>0 DEF Respond, ConnTypes
<1>5. buf' \in [Conns -> Seq(Toks)] /\ buf'[c] = SubSeq(buf[c], Total(Req(c)) + 1, Len(buf[c]))
  BY <1>0, <1>3, <1>4 DEF ConnTypes
<1>6. [i |-> Index(c), s |-> s] \in Replies
  BY <1>1 DEF Replies
<1>7. out' \in [Conns -> Seq(Replies)]
  <2>1. Append(out[c], [i |-> Index(c), s |-> s]) \in Seq(Replies)
    BY <1>0, <1>6, AppendProperties DEF ConnTypes
  <2> QED BY <1>0, <2>1 DEF Respond, ConnTypes
<1>8. at' \in [Conns -> {"read", "parse", "run", "write", "closed"}] /\ closing' \subseteq Conns
  BY <1>0 DEF Respond, Go, AfterReply, ConnTypes
<1>9. client' = client /\ wire' = wire /\ got' = got /\ cut' = cut
  BY DEF Respond
<1>10. ConnTypes'
  BY <1>0, <1>5, <1>7, <1>8, <1>9 DEF ConnTypes
<1> QED BY <1>2, <1>5, <1>10

(* What the steps that look at a request do to its connection.             *)
LEMMA RunResponds ==
    ASSUME ServerTypeOK, ConnHolds, NEW c \in Conns, Run(c)
    PROVE  /\ at[c] = "run" \/ at[c] = "parse"
           /\ Complete(c) /\ HasHead(c) /\ Req(c) \in Requests /\ Client(c, Req(c)) \in Ips
           /\ \E s \in 200..599 : Respond(c, s)
           /\ \/ UNCHANGED store
              \/ \E s : Unrouted(Req(c)) = {} /\ Req(c).form = "ok" /\ Stored(Client(c, Req(c)), Req(c), s)
<1>1. (at[c] = "run" \/ at[c] = "parse") /\ Complete(c)
  BY DEF Run, ConnHolds, Admitted
<1>2. HasHead(c)
  BY <1>1 DEF Complete
<1>3. Req(c) \in Requests /\ Client(c, Req(c)) \in Ips
  BY <1>1, <1>2, AtRequest, Charged
<1>4. /\ \A s \in Unrouted(Req(c)) : s \in 200..599
      /\ Unrouted(Req(c)) = {} => Req(c).form = "ok"
  BY <1>3, UnroutedType
<1>5. CASE \E s \in Unrouted(Req(c)) : Respond(c, s) /\ UNCHANGED store
  BY <1>1, <1>2, <1>3, <1>4, <1>5
<1>6. CASE /\ Unrouted(Req(c)) = {}
           /\ \E s \in {200, 201, 204, 302, 404, 409} :
                Stored(Client(c, Req(c)), Req(c), s) /\ Respond(c, s)
  <2>1. PICK s \in {200, 201, 204, 302, 404, 409} :
            Stored(Client(c, Req(c)), Req(c), s) /\ Respond(c, s)
    BY <1>6
  <2>2. s \in 200..599
    OBVIOUS
  <2> QED BY <1>1, <1>2, <1>3, <1>4, <1>6, <2>1, <2>2
<1> QED BY <1>5, <1>6 DEF Run

LEMMA AdmitCases ==
    ASSUME NEW c \in Conns, Admit(c)
    PROVE  /\ at[c] = "parse" /\ Complete(c) /\ HasHead(c) /\ Limited(Req(c)) /\ UNCHANGED store
           /\ \/ /\ Allow(Client(c, Req(c)), Price(Req(c))) /\ Go(c, "run")
                 /\ UNCHANGED <<client, wire, buf, out, closing, got, cut>>
              \/ Deny(Client(c, Req(c)), Price(Req(c))) /\ \E s \in 200..599 : Respond(c, s)
<1>1. 429 \in 200..599
  OBVIOUS
<1> QED BY <1>1 DEF Admit, Complete

LEMMA ServerTypesStep ==
    ASSUME TypeOK, ServerTypeOK, ConnHolds, [ServerNext]_serverVars
    PROVE  ServerTypeOK'
<1>0. ConnTypes /\ StoreOK /\ now \in Nat
  BY TypesSplit DEF TypeOK
<1>1. ASSUME NEW c \in Conns, Read(c) PROVE ServerTypeOK'
  <2>1. at' \in [Conns -> {"read", "parse", "run", "write", "closed"}] /\ closing' \subseteq Conns
    BY <1>0, <1>1 DEF Read, Go, ConnTypes
  <2>2. wire' \in [Conns -> Seq(Toks)] /\ buf' \in [Conns -> Seq(Toks)]
    <3>1. CASE \E n \in 1..Len(wire[c]) :
                 /\ buf' = [buf EXCEPT ![c] = @ \o SubSeq(wire[c], 1, n)]
                 /\ wire' = [wire EXCEPT ![c] = SubSeq(@, n + 1, Len(@))]
      <4>1. PICK n \in 1..Len(wire[c]) :
                 /\ buf' = [buf EXCEPT ![c] = @ \o SubSeq(wire[c], 1, n)]
                 /\ wire' = [wire EXCEPT ![c] = SubSeq(@, n + 1, Len(@))]
        BY <3>1
      <4>2. wire[c] \in Seq(Toks) /\ buf[c] \in Seq(Toks) /\ n \in Nat /\ n <= Len(wire[c])
        BY <1>0 DEF ConnTypes
      <4>3. SubSeq(wire[c], n + 1, Len(wire[c])) \in Seq(Toks)
        BY <4>2, Suffix
      <4>4. SubSeq(wire[c], 1, n) \in Seq(Toks)
        <5>1. \A i \in 1..n : wire[c][i] \in Toks
          BY <4>2
        <5> QED BY <4>2, <5>1, SubSeqProperties
      <4>5. buf[c] \o SubSeq(wire[c], 1, n) \in Seq(Toks)
        BY <4>2, <4>4, ConcatProperties
      <4> QED BY <1>0, <4>1, <4>3, <4>5 DEF ConnTypes
    <3>2. CASE UNCHANGED <<buf, wire>>
      BY <1>0, <3>2 DEF ConnTypes
    <3> QED BY <1>1, <3>1, <3>2 DEF Read
  <2>3. UNCHANGED <<client, out, got, cut, links, forever, made>>
    BY <1>1 DEF Read, store
  <2> QED BY <1>0, <2>1, <2>2, <2>3, TypesSplit DEF ConnTypes, StoreOK, ServerTypeOK, Toks
<1>2. ASSUME NEW c \in Conns, Fail(c) \/ Partial(c) \/ Drop(c) PROVE ServerTypeOK'
  BY <1>0, <1>2 DEF Fail, Partial, Drop, Go, store, ConnTypes, StoreOK, ServerTypeOK, Toks
<1>3. ASSUME NEW c \in Conns, TooLarge(c) PROVE ServerTypeOK'
  <2>1. Index(c) \in Nat
    BY <1>3, AtRequest DEF TooLarge
  <2>2. [i |-> Index(c), s |-> 413] \in Replies
    BY <2>1 DEF Replies
  <2>3. Append(out[c], [i |-> Index(c), s |-> 413]) \in Seq(Replies)
    BY <1>0, <2>2, AppendProperties DEF ConnTypes
  <2>4. out' \in [Conns -> Seq(Replies)]
    BY <1>0, <1>3, <2>3 DEF TooLarge, ConnTypes
  <2> QED BY <1>0, <1>3, <2>4 DEF TooLarge, Go, store, ConnTypes, StoreOK, ServerTypeOK, Toks
<1>4. ASSUME NEW c \in Conns, Admit(c) PROVE ServerTypeOK'
  <2>1. StoreOK'
    BY <1>0, <1>4 DEF Admit, store, StoreOK
  <2>2. CASE Go(c, "run") /\ UNCHANGED <<client, wire, buf, out, closing, got, cut>>
    BY <1>0, <2>1, <2>2 DEF Go, ConnTypes, StoreOK, ServerTypeOK, Toks
  <2>3. CASE \E s \in 200..599 : Respond(c, s)
    <3>1. ConnTypes'
      <4>1. PICK s \in 200..599 : Respond(c, s)
        BY <2>3
      <4>2. at[c] = "parse" /\ Complete(c)
        BY <1>4, AdmitCases
      <4> QED BY <4>1, <4>2, RespondTypes
    <3> QED BY <2>1, <3>1 DEF ConnTypes, StoreOK, ServerTypeOK, Toks
  <2> QED BY <1>4, <2>2, <2>3, AdmitCases
<1>5. ASSUME NEW c \in Conns, Run(c) PROVE ServerTypeOK'
  <2>1. StoreOK'
    <3>1. CASE UNCHANGED store
      BY <1>0, <3>1 DEF store, StoreOK
    <3>2. CASE \E s : Req(c).form = "ok" /\ Stored(Client(c, Req(c)), Req(c), s)
      BY <1>0, <1>5, <3>2, RunResponds, StoredType
    <3> QED BY <1>5, <3>1, <3>2, RunResponds
  <2>2. ConnTypes'
    <3>1. PICK s \in 200..599 : Respond(c, s)
      BY <1>5, RunResponds
    <3>2. (at[c] = "run" \/ at[c] = "parse") /\ Complete(c)
      BY <1>5, RunResponds
    <3> QED BY <3>1, <3>2, RespondTypes
  <2> QED BY <2>1, <2>2 DEF ConnTypes, StoreOK, ServerTypeOK, Toks
<1>6. ASSUME NEW c \in Conns, Write(c) PROVE ServerTypeOK'
  <2>1. got[c] \o out[c] \in Seq(Replies) /\ <<>> \in Seq(Replies)
    BY <1>0, ConcatProperties DEF ConnTypes
  <2>2. got' \in [Conns -> Seq(Replies)] /\ out' \in [Conns -> Seq(Replies)]
    BY <1>0, <1>6, <2>1 DEF Write, Rest, ConnTypes
  <2> QED BY <1>0, <1>6, <2>2 DEF Write, Go, store, ConnTypes, StoreOK, ServerTypeOK, Toks
<1>7. CASE (Tick \/ Observe) /\ UNCHANGED <<conns, store>>
  BY <1>0, <1>7 DEF conns, store, ConnTypes, StoreOK, ServerTypeOK, Toks
<1>8. CASE UNCHANGED serverVars
  BY <1>0, <1>8 DEF serverVars, conns, store, ConnTypes, StoreOK, ServerTypeOK, Toks
<1> QED BY <1>1, <1>2, <1>3, <1>4, <1>5, <1>6, <1>7, <1>8 DEF ServerNext

-----------------------------------------------------------------------------
(* Each connection on its own.                                             *)

Holds(c) == InStream(c) /\ InPlace(c) /\ Admitted(c) /\ Settled(c) /\ Ending(c)

(* Connection c has the tokens that it had, and as many replies.           *)
Still(c) ==
    /\ client' = client /\ buf'[c] = buf[c] /\ wire'[c] = wire[c]
    /\ Len(got'[c]) + Len(out'[c]) = Len(got[c]) + Len(out[c])

LEMMA StillFacts ==
    ASSUME NEW c \in Conns, Still(c)
    PROVE  /\ Consumed(c)' = Consumed(c) /\ Answered(c)' = Answered(c)
           /\ InStream(c) <=> InStream(c)'
           /\ Pending(c)' <=> Pending(c)
           /\ Complete(c)' <=> Complete(c)
           /\ Req(c)' = Req(c)
           /\ Proper(c)' <=> Proper(c)
<1>1. client' = client /\ buf'[c] = buf[c] /\ wire'[c] = wire[c]
  BY DEF Still
<1>2. Consumed(c)' = Consumed(c)
  BY <1>1 DEF Consumed, Sent
<1>3. Answered(c)' = Answered(c)
  BY DEF Answered, Still
<1>4. Req(c)' = Req(c)
  BY <1>1 DEF Req, Index
<1>5. HasHead(c)' <=> HasHead(c)
  BY <1>1, <1>4 DEF HasHead
<1>6. Complete(c)' <=> Complete(c)
  <2>1. Complete(c)' <=> HasHead(c)' /\ ~ Oversize(Req(c)') /\ Len(buf'[c]) >= Total(Req(c)')
    BY DEF Complete, Oversize, Total, BodyLen, NeedsBody
  <2> QED BY <1>1, <1>4, <1>5, <2>1 DEF Complete
<1>7. Pending(c)' <=> Pending(c)
  <2>1. Pending(c)' <=> Malformed(c)' \/ Complete(c)' \/ (HasHead(c)' /\ Oversize(Req(c)'))
    BY DEF Pending, Oversize, NeedsBody
  <2>2. Malformed(c)' <=> Malformed(c)
    BY <1>1, <1>4 DEF Malformed
  <2> QED BY <1>4, <1>5, <1>6, <2>1, <2>2 DEF Pending
<1>8. Proper(c)' <=> Proper(c)
  BY <1>1 DEF Proper
<1>9. InStream(c) <=> InStream(c)'
  <2>1. InStream(c)' <=>
          /\ Consumed(c)' >= 0
          /\ \A p \in 1..Len(buf'[c]) : buf'[c][p] = Stream(client'[c].sent)[Consumed(c)' + p]
          /\ \A p \in 1..Len(wire'[c]) :
                wire'[c][p] = Stream(client'[c].sent)[Consumed(c)' + Len(buf'[c]) + p]
    BY DEF InStream
  <2> QED BY <1>1, <1>2, <2>1 DEF InStream
<1> QED BY <1>2, <1>3, <1>4, <1>6, <1>7, <1>8, <1>9

(* A step that leaves a connection alone.                                  *)
LEMMA Frame ==
    ASSUME NEW c \in Conns, Holds(c), client' = client, buf'[c] = buf[c], wire'[c] = wire[c],
           out'[c] = out[c], got'[c] = got[c], at'[c] = at[c],
           c \in closing' <=> c \in closing, c \in cut' <=> c \in cut
    PROVE  Holds(c)'
<1>1. Still(c)
  BY DEF Still
<1>2. /\ Consumed(c)' = Consumed(c) /\ Answered(c)' = Answered(c) /\ InStream(c)'
      /\ Pending(c)' <=> Pending(c)
      /\ Complete(c)' <=> Complete(c)
      /\ Req(c)' = Req(c)
      /\ Proper(c)' <=> Proper(c)
  BY <1>1, StillFacts DEF Holds
<1>3. InPlace(c)'
  BY <1>2 DEF InPlace, Holds
<1>4. Admitted(c)'
  BY <1>2 DEF Admitted, Limited, Holds
<1>5. Settled(c)'
  BY <1>2 DEF Settled, Holds
<1>6. Exhausted(c)' <=> Exhausted(c)
  BY <1>2 DEF Exhausted
<1>7. Ending(c)'
  BY <1>2, <1>6 DEF Ending, Ends, Oversize, NeedsBody, Holds
<1> QED BY <1>2, <1>3, <1>4, <1>5, <1>7 DEF Holds

(* Where there are only requests, the buffer begins with the next one.     *)
LEMMA ProperPlace ==
    ASSUME ServerTypeOK, NEW c \in Conns, InStream(c), InPlace(c), Proper(c),
           at[c] \in {"read", "parse", "run"}
    PROVE  Consumed(c) = Start(client[c].sent, Answered(c) + 1) /\ ~ Malformed(c)
<1> DEFINE s == client[c].sent
           d == Answered(c)
           k == Consumed(c)
<1>1. k = Start(s, d + 1)
  BY DEF InPlace
<1>2. ~ Malformed(c)
  <2> SUFFICES ASSUME Malformed(c) PROVE FALSE
    OBVIOUS
  <2>1. Len(buf[c]) >= 2 /\ Req(c).op = "junk"
    BY DEF Malformed
  <2>2. Req(c) = s[d + 1] /\ d + 1 \in 1..Len(s)
    BY <2>1, NextRequest
  <2> QED BY <2>1, <2>2 DEF Proper
<1> QED BY <1>1, <1>2

LEMMA FailHolds ==
    ASSUME ServerTypeOK, NEW c \in Conns, Holds(c), Fail(c)
    PROVE  Holds(c)'
<1>1. /\ Still(c) /\ client' = client /\ out' = out /\ got' = got
      /\ at'[c] = "closed" /\ c \in cut' /\ closing' = closing /\ at[c] \in {"read", "write"}
  BY DEF Fail, Go, Still, ServerTypeOK
<1>2. /\ Consumed(c)' = Consumed(c) /\ Answered(c)' = Answered(c) /\ InStream(c)'
      /\ Proper(c)' <=> Proper(c)
  BY <1>1, StillFacts DEF Holds
<1>3. InPlace(c)'
  BY <1>1, <1>2 DEF InPlace, Holds
<1>4. Admitted(c)' /\ Settled(c)'
  BY <1>1 DEF Admitted, Settled
<1>5. Ending(c)'
  BY <1>1, <1>2 DEF Ending, Ends, Oversize, NeedsBody, Holds
<1> QED BY <1>2, <1>3, <1>4, <1>5 DEF Holds

LEMMA PartialHolds ==
    ASSUME ServerTypeOK, NEW c \in Conns, Holds(c), Partial(c)
    PROVE  Holds(c)'
<1>1. /\ Still(c) /\ client' = client /\ out' = out /\ got' = got /\ wire' = wire
      /\ at'[c] = "write" /\ cut' = cut /\ closing' = closing /\ at[c] = "parse" /\ ~ Pending(c)
  BY DEF Partial, Go, Still, ServerTypeOK
<1>2. /\ Consumed(c)' = Consumed(c) /\ Answered(c)' = Answered(c) /\ InStream(c)'
      /\ Proper(c)' <=> Proper(c)
      /\ ~ Pending(c)'
  BY <1>1, StillFacts DEF Holds
<1>3. InPlace(c)'
  BY <1>1, <1>2 DEF InPlace, Holds
<1>4. Admitted(c)' /\ Settled(c)'
  BY <1>1, <1>2 DEF Admitted, Settled
<1>5. ASSUME Proper(c), c \in closing PROVE Exhausted(c)'
  <2>1. wire[c] = <<>>
    BY <1>1, <1>5 DEF Ending, Holds
  <2>2. Consumed(c) = Start(client[c].sent, Answered(c) + 1)
    BY <1>1, <1>5, ProperPlace DEF Holds
  <2> QED BY <1>1, <1>2, <2>1, <2>2 DEF Exhausted
<1>6. Ending(c)'
  BY <1>1, <1>2, <1>5 DEF Ending, Ends, Oversize, NeedsBody, Holds
<1> QED BY <1>2, <1>3, <1>4, <1>6 DEF Holds

LEMMA DropHolds ==
    ASSUME ServerTypeOK, NEW c \in Conns, Holds(c), Drop(c)
    PROVE  Holds(c)'
<1>1. /\ Still(c) /\ client' = client /\ out' = out /\ got' = got /\ wire' = wire
      /\ at'[c] = "closed" /\ cut' = cut /\ closing' = closing /\ at[c] = "parse" /\ Malformed(c)
  BY DEF Drop, Go, Still, ServerTypeOK
<1>2. /\ Consumed(c)' = Consumed(c) /\ Answered(c)' = Answered(c) /\ InStream(c)'
      /\ Proper(c)' <=> Proper(c)
  BY <1>1, StillFacts DEF Holds
<1>3. InPlace(c)'
  BY <1>1, <1>2 DEF InPlace, Holds
<1>4. Admitted(c)' /\ Settled(c)'
  BY <1>1, <1>2 DEF Admitted, Settled
<1>5. ~ Proper(c)
  BY <1>1, ProperPlace DEF Holds
<1>6. Ending(c)'
  BY <1>2, <1>5 DEF Ending
<1> QED BY <1>2, <1>3, <1>4, <1>6 DEF Holds

LEMMA WriteHolds ==
    ASSUME ServerTypeOK, NEW c \in Conns, Holds(c), Write(c)
    PROVE  Holds(c)'
<1>1. /\ client' = client /\ wire' = wire /\ buf' = buf /\ cut' = cut /\ closing' = closing
      /\ got'[c] = got[c] \o out[c] /\ out'[c] = <<>>
      /\ at[c] = "write" /\ at'[c] = (IF c \in closing THEN "closed" ELSE "read")
  BY DEF Write, Rest, Go, ServerTypeOK
<1>2. Still(c)
  <2>1. Len(got[c] \o out[c]) = Len(got[c]) + Len(out[c]) /\ Len(got[c] \o out[c]) \in Nat
    BY ConnFacts, ConcatProperties, LenProperties
  <2>2. Len(got'[c]) + Len(out'[c]) = Len(got[c]) + Len(out[c])
    BY <1>1, <2>1
  <2> QED BY <1>1, <2>2 DEF Still
<1>3. /\ Consumed(c)' = Consumed(c) /\ Answered(c)' = Answered(c) /\ InStream(c)'
      /\ Proper(c)' <=> Proper(c)
      /\ Pending(c)' <=> Pending(c)
  BY <1>2, StillFacts DEF Holds
<1>4. InPlace(c)'
  BY <1>1, <1>3 DEF InPlace, Holds
<1>5. Admitted(c)' /\ Settled(c)'
  BY <1>1, <1>3 DEF Admitted, Settled, Holds
<1>6. Exhausted(c) => Exhausted(c)'
  BY <1>1, <1>3 DEF Exhausted
<1>7. Ending(c)'
  BY <1>1, <1>3, <1>6 DEF Ending, Ends, Oversize, NeedsBody, Holds
<1> QED BY <1>3, <1>4, <1>5, <1>7 DEF Holds

LEMMA AllowHolds ==
    ASSUME ServerTypeOK, NEW c \in Conns, Holds(c), at[c] = "parse", Complete(c), Limited(Req(c)),
           Go(c, "run"), UNCHANGED <<client, wire, buf, out, closing, got, cut>>
    PROVE  Holds(c)'
<1>1. Still(c) /\ at'[c] = "run"
  BY DEF Go, Still, ServerTypeOK
<1>2. /\ Consumed(c)' = Consumed(c) /\ Answered(c)' = Answered(c) /\ InStream(c)'
      /\ Proper(c)' <=> Proper(c)
      /\ Complete(c)' /\ Req(c)' = Req(c)
  BY <1>1, StillFacts DEF Holds
<1>3. InPlace(c)'
  BY <1>1, <1>2 DEF InPlace, Holds
<1>4. Admitted(c)' /\ Settled(c)'
  BY <1>1, <1>2 DEF Admitted, Settled, Limited
<1>5. Ending(c)'
  BY <1>1, <1>2 DEF Ending, Ends, Oversize, NeedsBody, Holds
<1> QED BY <1>2, <1>3, <1>4, <1>5 DEF Holds

LEMMA TooLargeHolds ==
    ASSUME ServerTypeOK, NEW c \in Conns, Holds(c), TooLarge(c)
    PROVE  Holds(c)'
<1> DEFINE s == client[c].sent
           d == Answered(c)
<1>1. /\ client' = client /\ wire' = wire /\ buf' = buf /\ got' = got /\ at[c] = "parse"
      /\ at'[c] = "write" /\ c \in closing' /\ HasHead(c) /\ Oversize(Req(c))
      /\ out'[c] = Append(out[c], [i |-> Index(c), s |-> 413])
  BY DEF TooLarge, Go, ServerTypeOK
<1>2. d + 1 \in 1..Len(s) /\ Req(c) = s[d + 1] /\ d \in Nat
  BY <1>1, NextRequest, ConnFacts DEF HasHead, Holds
<1>3. Answered(c)' = d + 1
  <2> DEFINE g == Len(got[c])
             o == Len(out[c])
  <2>1. g \in Nat /\ o \in Nat /\ d = g + o
    BY ConnFacts DEF Answered
  <2>2. Len(got'[c]) = g /\ Len(out'[c]) = o + 1
    BY <1>1, ConnFacts, AppendProperties
  <2>3. Answered(c)' = g + (o + 1)
    BY <2>2 DEF Answered
  <2> HIDE DEF g, o, d
  <2> QED BY <2>1, <2>3
<1>4. InStream(c)' /\ (Proper(c)' <=> Proper(c))
  <2>1. Consumed(c)' = Consumed(c)
    BY <1>1 DEF Consumed, Sent
  <2>2. Proper(c)' <=> Proper(c)
    BY <1>1 DEF Proper
  <2> QED BY <1>1, <2>1, <2>2 DEF InStream, Holds
<1>5. InPlace(c)'
  <2>1. d + 1 <= Len(s) /\ d + 1 > 0
    BY <1>2, ConnFacts
  <2> QED BY <1>1, <1>3, <2>1 DEF InPlace
<1>6. Admitted(c)' /\ Settled(c)'
  BY <1>1 DEF Admitted, Settled
<1>7. Ending(c)'
  <2>1. Ends(s[d + 1]) /\ d + 1 > 0
    BY <1>1, <1>2 DEF Ends
  <2>2. Proper(c) => \A i \in 1..((d + 1) - 1) : ~ Ends(s[i])
    <3>1. Proper(c) => (\A i \in 1..(d - 1) : ~ Ends(s[i])) /\ ~ (d > 0 /\ Ends(s[d]))
      BY <1>1 DEF Ending, Holds
    <3> HIDE DEF d, s
    <3>2. \A i \in 1..((d + 1) - 1) : i \in 1..(d - 1) \/ (i = d /\ d > 0)
      BY <1>2
    <3> QED BY <3>1, <3>2
  <2>3. client'[c].sent = s /\ Answered(c)' = d + 1
    BY <1>1, <1>3
  <2> HIDE DEF d, s
  <2> QED BY <1>1, <1>4, <2>1, <2>2, <2>3 DEF Ending, Ends, Oversize, NeedsBody
<1> QED BY <1>4, <1>5, <1>6, <1>7 DEF Holds

LEMMA RespondHolds ==
    ASSUME ServerTypeOK, NEW c \in Conns, Holds(c), NEW x, at[c] = "run" \/ at[c] = "parse",
           Complete(c), Respond(c, x)
    PROVE  Holds(c)'
<1> DEFINE s == client[c].sent
           d == Answered(c)
           k == Consumed(c)
           r == Req(c)
           m == Total(r)
           b == buf[c]
<1>1. /\ client' = client /\ wire' = wire /\ got' = got /\ cut' = cut
      /\ out'[c] = Append(out[c], [i |-> Index(c), s |-> x])
      /\ buf'[c] = SubSeq(b, m + 1, Len(b))
      /\ closing' = (IF r.close THEN closing \cup {c} ELSE closing)
      /\ at'[c] = (IF r.close THEN "write" ELSE "parse")
  BY DEF Respond, Go, AfterReply, ServerTypeOK
<1>2. /\ HasHead(c) /\ ~ Oversize(r) /\ Len(b) >= m
      /\ d + 1 \in 1..Len(s) /\ r = s[d + 1] /\ r \in Requests /\ k = Start(s, d + 1)
  BY NextRequest DEF Complete, HasHead, Holds
<1>3. /\ s \in Seq(Requests) /\ Len(s) \in Nat /\ d \in Nat /\ k \in Int /\ k >= 0
      /\ b \in Seq(Toks) /\ Len(b) \in Nat /\ Len(wire[c]) \in Nat /\ Len(Sent(c)) \in Nat
      /\ m \in Nat /\ BodyLen(r) \in Nat
  BY <1>2, ConnFacts, SentFacts, TotalType DEF InStream, Holds
<1>4. Answered(c)' = d + 1
  <2> DEFINE g == Len(got[c])
             o == Len(out[c])
  <2>1. g \in Nat /\ o \in Nat /\ d = g + o
    BY ConnFacts DEF Answered
  <2>2. Len(got'[c]) = g /\ Len(out'[c]) = o + 1
    BY <1>1, ConnFacts, AppendProperties
  <2>3. Answered(c)' = g + (o + 1)
    BY <2>2 DEF Answered
  <2> HIDE DEF g, o, d
  <2> QED BY <2>1, <2>3
<1>5. Len(buf'[c]) = Len(b) - m /\ \A p \in 1..(Len(b) - m) : buf'[c][p] = b[m + p]
  <2> DEFINE l == Len(b)
  <2>1. m <= l
    <3>1. m \in Nat /\ l \in Nat /\ l >= m
      BY <1>2, <1>3
    <3> HIDE DEF l, m
    <3> QED BY <3>1
  <2> HIDE DEF m, b
  <2> QED BY <1>1, <1>3, <2>1, Suffix
<1>6. Consumed(c)' = k + m
  <2> DEFINE ls == Len(Sent(c))
             lb == Len(b)
             lw == Len(wire[c])
  <2>1. ls \in Nat /\ lb \in Nat /\ lw \in Nat /\ k = ls - lb - lw /\ m \in Nat
    BY <1>3 DEF Consumed
  <2>2. Consumed(c)' = ls - (lb - m) - lw
    BY <1>1, <1>5 DEF Consumed, Sent
  <2> HIDE DEF ls, lb, lw, k, m
  <2> QED BY <2>1, <2>2
<1>7. InStream(c)'
  <2> DEFINE t == Stream(s)
             lb == Len(b)
             lw == Len(wire[c])
  <2>1. /\ k \in Int /\ k >= 0 /\ m \in Nat /\ lb \in Nat /\ lw \in Nat /\ lb >= m
        /\ \A p \in 1..lb : b[p] = t[k + p]
        /\ \A p \in 1..lw : wire[c][p] = t[k + lb + p]
    BY <1>2, <1>3 DEF InStream, Holds
  <2>2. /\ client'[c].sent = s /\ wire'[c] = wire[c] /\ Len(buf'[c]) = lb - m
        /\ \A p \in 1..(lb - m) : buf'[c][p] = b[m + p]
    BY <1>1, <1>5
  <2> HIDE DEF t, lb, lw, b, k, m
  <2>3. k + m >= 0
    BY <2>1
  <2>4. ASSUME NEW p \in 1..(lb - m) PROVE buf'[c][p] = t[(k + m) + p]
    <3>1. m + p \in 1..lb /\ k + (m + p) = (k + m) + p
      BY <2>1
    <3> QED BY <2>1, <2>2, <3>1
  <2>5. ASSUME NEW p \in 1..lw PROVE wire'[c][p] = t[(k + m) + (lb - m) + p]
    <3>1. (k + m) + (lb - m) + p = k + lb + p
      BY <2>1
    <3> QED BY <2>1, <2>2, <3>1
  <2>6. wire'[c] = wire[c] /\ Len(wire'[c]) = lw /\ Stream(client'[c].sent) = t
    BY <2>2 DEF t, lw
  <2> QED BY <1>6, <2>2, <2>3, <2>4, <2>5, <2>6 DEF InStream
<1>8. InPlace(c)'
  <2>1. Start(s, (d + 1) + 1) = Start(s, d + 1) + 2 + BodyLen(s[d + 1]) /\ Start(s, d + 1) \in Nat
    BY <1>2, <1>3, StartStep
  <2>2. m = 2 + BodyLen(r)
    BY DEF Total
  <2>3. client'[c].sent = s
    BY <1>1
  <2> HIDE DEF s, d, k, r, m
  <2>4. k + m = Start(s, (d + 1) + 1)
    <3> DEFINE a == Start(s, d + 1)
               l == BodyLen(r)
    <3>1. k = a /\ a \in Nat /\ l \in Nat /\ m = 2 + l /\ Start(s, (d + 1) + 1) = a + 2 + l
      BY <1>2, <1>3, <2>1, <2>2
    <3> HIDE DEF a, l
    <3> QED BY <3>1
  <2>5. d + 1 > 0 /\ d + 1 <= Len(s)
    BY <1>2, <1>3
  <2> QED BY <1>4, <1>6, <2>3, <2>4, <2>5 DEF InPlace
<1>9. Admitted(c)' /\ Settled(c)'
  BY <1>1 DEF Admitted, Settled
<1>10. Ending(c)'
  <2>1. at[c] \in {"read", "parse", "run"} /\ at[c] \in {"parse", "run"}
    OBVIOUS
  <2>2. Proper(c)' => Proper(c)
    BY <1>1 DEF Proper
  <2>3. Proper(c) => \A i \in 1..((d + 1) - 1) : ~ Ends(s[i])
    <3>1. Proper(c) => (\A i \in 1..(d - 1) : ~ Ends(s[i])) /\ ~ (d > 0 /\ Ends(s[d]))
      BY <2>1 DEF Ending, Holds
    <3>2. \A i \in 1..((d + 1) - 1) : i \in 1..(d - 1) \/ (i = d /\ d > 0)
      <4> HIDE DEF d
      <4> QED BY <1>3
    <3> HIDE DEF d, s
    <3> QED BY <3>1, <3>2
  <2>4. Proper(c) /\ c \in closing => wire[c] = <<>>
    BY <2>1 DEF Ending, Holds
  <2>5. Ends(s[d + 1]) <=> r.close
    BY <1>2 DEF Ends
  <2>6. client'[c].sent = s /\ Answered(c)' = d + 1 /\ d + 1 > 0 /\ r.close \in BOOLEAN
    BY <1>1, <1>2, <1>4 DEF Requests
  <2> HIDE DEF d, s, r
  <2> QED BY <1>1, <2>2, <2>3, <2>4, <2>5, <2>6 DEF Ending, Ends, Oversize, NeedsBody
<1> QED BY <1>7, <1>8, <1>9, <1>10 DEF Holds

(* A read moves tokens from the wire to the end of the buffer.             *)
LEMMA Fetched ==
    ASSUME ServerTypeOK, NEW c \in Conns, InStream(c), NEW n \in 1..Len(wire[c]), client' = client,
           buf'[c] = buf[c] \o SubSeq(wire[c], 1, n),
           wire'[c] = SubSeq(wire[c], n + 1, Len(wire[c]))
    PROVE  InStream(c)' /\ Consumed(c)' = Consumed(c)
<1> DEFINE t == Stream(client[c].sent)
           k == Consumed(c)
           b == buf[c]
           w == wire[c]
           f == SubSeq(w, 1, n)
           lb == Len(b)
           lw == Len(w)
           ls == Len(Sent(c))
<1>1. /\ b \in Seq(Toks) /\ w \in Seq(Toks) /\ lb \in Nat /\ lw \in Nat /\ ls \in Nat
      /\ k \in Int /\ k >= 0 /\ k = ls - lb - lw
      /\ \A p \in 1..lb : b[p] = t[k + p]
      /\ \A p \in 1..lw : w[p] = t[k + lb + p]
  <2>1. k = ls - lb - lw
    BY DEF Consumed
  <2> QED BY <2>1, ConnFacts, SentFacts DEF InStream
<1>2. n \in Nat /\ n >= 1 /\ n <= lw
  <2>1. n \in 1..lw
    OBVIOUS
  <2> HIDE DEF lw
  <2> QED BY <1>1, <2>1
<1>3. f \in Seq(Toks) /\ Len(f) = n /\ \A p \in 1..n : f[p] = w[p]
  <2>1. \A i \in 1..n : w[i] \in Toks
    <3>1. \A i \in 1..n : i \in 1..lw
      <4> HIDE DEF lw
      <4> QED BY <1>1, <1>2
    <3> QED BY <1>1, <3>1
  <2>2. 1 \in Int /\ n \in Int
    BY <1>2
  <2>3. /\ f \in Seq(Toks) /\ Len(f) = (IF 1 <= n THEN n - 1 + 1 ELSE 0)
        /\ \A p \in 1..(n - 1 + 1) : f[p] = w[1 + p - 1]
    <3> HIDE DEF w
    <3> QED BY <2>1, <2>2, SubSeqProperties
  <2>4. n - 1 + 1 = n /\ 1 <= n /\ \A p \in 1..n : 1 + p - 1 = p
    BY <1>2
  <2> HIDE DEF f, w
  <2> QED BY <2>3, <2>4
<1>4. /\ Len(buf'[c]) = lb + n
      /\ \A p \in 1..(lb + n) : buf'[c][p] = IF p <= lb THEN b[p] ELSE f[p - lb]
  <2>1. buf'[c] = b \o f
    OBVIOUS
  <2>2. /\ Len(b \o f) = Len(b) + Len(f)
        /\ \A p \in 1..(Len(b) + Len(f)) : (b \o f)[p] = IF p <= Len(b) THEN b[p] ELSE f[p - Len(b)]
    <3>1. b \in Seq(Toks) /\ f \in Seq(Toks)
      BY <1>1, <1>3
    <3> HIDE DEF b, f
    <3> QED BY <3>1, ConcatProperties
  <2> HIDE DEF f, b
  <2> QED BY <1>3, <2>1, <2>2
<1>5. Len(wire'[c]) = lw - n /\ \A p \in 1..(lw - n) : wire'[c][p] = w[n + p]
  <2> HIDE DEF w
  <2> QED BY <1>1, <1>2, Suffix DEF w
<1>6. client'[c].sent = client[c].sent /\ Sent(c)' = Sent(c)
  BY DEF Sent
<1>7. Consumed(c)' = k
  <2>1. Consumed(c)' = ls - (lb + n) - (lw - n)
    BY <1>4, <1>5, <1>6 DEF Consumed
  <2> HIDE DEF ls, lb, lw, k
  <2> QED BY <1>1, <1>2, <2>1
<1>8. InStream(c)'
  <2>1. Stream(client'[c].sent) = t
    BY <1>6
  <2> HIDE DEF t, k, b, w, f, lb, lw, ls
  <2>2. ASSUME NEW p \in 1..(lb + n) PROVE buf'[c][p] = t[k + p]
    <3>1. CASE p <= lb
      <4>1. p \in 1..lb
        BY <1>1, <3>1
      <4> QED BY <1>1, <1>4, <3>1, <4>1
    <3>2. CASE ~ (p <= lb)
      <4>1. p - lb \in 1..n /\ p - lb \in 1..lw /\ k + lb + (p - lb) = k + p
        BY <1>1, <1>2, <3>2
      <4>2. buf'[c][p] = f[p - lb] /\ f[p - lb] = w[p - lb] /\ w[p - lb] = t[k + lb + (p - lb)]
        BY <1>1, <1>3, <1>4, <3>2, <4>1
      <4> QED BY <4>1, <4>2
    <3> QED BY <3>1, <3>2
  <2>3. ASSUME NEW p \in 1..(lw - n) PROVE wire'[c][p] = t[k + (lb + n) + p]
    <3>1. n + p \in 1..lw /\ k + lb + (n + p) = k + (lb + n) + p
      BY <1>1, <1>2
    <3>2. wire'[c][p] = w[n + p] /\ w[n + p] = t[k + lb + (n + p)]
      BY <1>1, <1>5, <3>1
    <3> QED BY <3>1, <3>2
  <2> QED BY <1>1, <1>4, <1>5, <1>7, <2>1, <2>2, <2>3 DEF InStream
<1> QED BY <1>7, <1>8

LEMMA ReadHolds ==
    ASSUME ServerTypeOK, NEW c \in Conns, Holds(c), Read(c)
    PROVE  Holds(c)'
<1>1. at[c] = "read" /\ client' = client /\ out' = out /\ got' = got /\ cut' = cut
  BY DEF Read
<1>2. Answered(c)' = Answered(c) /\ (Proper(c)' <=> Proper(c))
  BY <1>1 DEF Answered, Proper
<1>3. CASE \E n \in 1..Len(wire[c]) :
             /\ buf' = [buf EXCEPT ![c] = @ \o SubSeq(wire[c], 1, n)]
             /\ wire' = [wire EXCEPT ![c] = SubSeq(@, n + 1, Len(@))]
             /\ Go(c, "parse")
             /\ UNCHANGED closing
  <2>1. PICK n \in 1..Len(wire[c]) :
             /\ buf'[c] = buf[c] \o SubSeq(wire[c], 1, n)
             /\ wire'[c] = SubSeq(wire[c], n + 1, Len(wire[c]))
    BY <1>3 DEF ServerTypeOK
  <2>2. at'[c] = "parse" /\ closing' = closing
    BY <1>3 DEF Go, ServerTypeOK
  <2>3. InStream(c)' /\ Consumed(c)' = Consumed(c)
    BY <1>1, <2>1, Fetched DEF Holds
  <2>4. InPlace(c)'
    BY <1>1, <1>2, <2>2, <2>3 DEF InPlace, Holds
  <2>5. Admitted(c)' /\ Settled(c)'
    BY <2>2 DEF Admitted, Settled
  <2>6. Ending(c)'
    BY <1>1, <1>2, <2>2 DEF Ending, Ends, Oversize, NeedsBody, Holds
  <2> QED BY <2>3, <2>4, <2>5, <2>6 DEF Holds
<1>4. CASE /\ wire[c] = <<>> /\ buf[c] = <<>>
           /\ Go(c, "closed")
           /\ UNCHANGED <<buf, wire, closing>>
  <2>1. Still(c) /\ at'[c] = "closed" /\ closing' = closing
    BY <1>1, <1>4 DEF Still, Go, ServerTypeOK
  <2>2. InStream(c)' /\ Consumed(c)' = Consumed(c) /\ (Pending(c)' <=> Pending(c))
    BY <2>1, StillFacts DEF Holds
  <2>3. InPlace(c)'
    BY <1>1, <1>2, <2>1, <2>2 DEF InPlace, Holds
  <2>4. Admitted(c)' /\ Settled(c)'
    BY <2>1 DEF Admitted, Settled
  <2>5. ASSUME Proper(c) PROVE Exhausted(c)'
    <3>1. Consumed(c) = Start(client[c].sent, Answered(c) + 1) /\ ~ Pending(c)
      BY <1>1, <2>5, ProperPlace DEF Holds, Settled
    <3> QED BY <1>1, <1>2, <1>4, <2>2, <3>1 DEF Exhausted
  <2>6. out[c] = <<>>
    BY <1>1 DEF Holds, Settled
  <2>7. Ending(c)'
    BY <1>1, <1>2, <2>1, <2>5, <2>6 DEF Ending, Ends, Oversize, NeedsBody, Holds
  <2> QED BY <2>2, <2>3, <2>4, <2>7 DEF Holds
<1>5. CASE /\ wire[c] = <<>> /\ buf[c] # <<>>
           /\ closing' = closing \cup {c}
           /\ Go(c, "parse")
           /\ UNCHANGED <<buf, wire>>
  <2>1. Still(c) /\ at'[c] = "parse"
    BY <1>1, <1>5 DEF Still, Go, ServerTypeOK
  <2>2. InStream(c)' /\ Consumed(c)' = Consumed(c)
    BY <2>1, StillFacts DEF Holds
  <2>3. InPlace(c)'
    BY <1>1, <1>2, <2>1, <2>2 DEF InPlace, Holds
  <2>4. Admitted(c)' /\ Settled(c)'
    BY <2>1 DEF Admitted, Settled
  <2>5. Ending(c)'
    BY <1>1, <1>2, <1>5, <2>1 DEF Ending, Ends, Oversize, NeedsBody, Holds
  <2> QED BY <2>2, <2>3, <2>4, <2>5 DEF Holds
<1> QED BY <1>3, <1>4, <1>5 DEF Read

(* The steps of one thread leave the other connections alone.              *)
LEMMA Elsewhere ==
    ASSUME ServerTypeOK, NEW c \in Conns, NEW d \in Conns, d # c,
           Read(c) \/ Fail(c) \/ Partial(c) \/ Drop(c) \/ TooLarge(c) \/ Admit(c) \/ Run(c) \/ Write(c)
    PROVE  /\ client' = client /\ buf'[d] = buf[d] /\ wire'[d] = wire[d]
           /\ out'[d] = out[d] /\ got'[d] = got[d] /\ at'[d] = at[d]
           /\ d \in closing' <=> d \in closing
           /\ d \in cut' <=> d \in cut
<1>1. CASE Read(c) \/ Fail(c) \/ Partial(c) \/ Drop(c)
  BY <1>1 DEF Read, Fail, Partial, Drop, Go, ServerTypeOK
<1>2. CASE TooLarge(c) \/ Write(c)
  BY <1>2 DEF TooLarge, Write, Go, ServerTypeOK
<1>3. ASSUME NEW s, Respond(c, s)
      PROVE  /\ client' = client /\ buf'[d] = buf[d] /\ wire'[d] = wire[d]
             /\ out'[d] = out[d] /\ got'[d] = got[d] /\ at'[d] = at[d]
             /\ d \in closing' <=> d \in closing
             /\ d \in cut' <=> d \in cut
  BY <1>3 DEF Respond, Go, ServerTypeOK
<1>4. CASE Admit(c)
  <2>1. CASE Go(c, "run") /\ UNCHANGED <<client, wire, buf, out, closing, got, cut>>
    BY <2>1 DEF Go, ServerTypeOK
  <2> QED BY <1>3, <1>4, <2>1, AdmitCases
<1>5. CASE Run(c)
  <2>1. PICK s : Respond(c, s)
    BY <1>5 DEF Run
  <2> QED BY <1>3, <2>1
<1> QED BY <1>1, <1>2, <1>3, <1>4, <1>5

LEMMA ConnStep ==
    ASSUME ServerTypeOK, ConnHolds, [ServerNext]_serverVars
    PROVE  ConnHolds'
<1>0. \A d \in Conns : Holds(d)
  BY DEF ConnHolds, Holds
<1>1. ASSUME NEW c \in Conns,
             Read(c) \/ Fail(c) \/ Partial(c) \/ Drop(c) \/ TooLarge(c) \/ Admit(c) \/ Run(c) \/ Write(c),
             NEW d \in Conns
      PROVE  Holds(d)'
  <2>1. CASE d # c
    BY <1>0, <1>1, <2>1, Elsewhere, Frame
  <2>2. CASE d = c
    <3>0. Holds(c)
      BY <1>0
    <3>1. CASE Read(c)
      BY <2>2, <3>0, <3>1, ReadHolds
    <3>2. CASE Fail(c)
      BY <2>2, <3>0, <3>2, FailHolds
    <3>3. CASE Partial(c)
      BY <2>2, <3>0, <3>3, PartialHolds
    <3>4. CASE Drop(c)
      BY <2>2, <3>0, <3>4, DropHolds
    <3>5. CASE TooLarge(c)
      BY <2>2, <3>0, <3>5, TooLargeHolds
    <3>6. CASE Admit(c)
      <4>1. at[c] = "parse" /\ Complete(c) /\ Limited(Req(c))
        BY <3>6, AdmitCases
      <4>2. CASE Go(c, "run") /\ UNCHANGED <<client, wire, buf, out, closing, got, cut>>
        BY <2>2, <3>0, <4>1, <4>2, AllowHolds
      <4>3. CASE \E s \in 200..599 : Respond(c, s)
        BY <2>2, <3>0, <4>1, <4>3, RespondHolds
      <4> QED BY <3>6, <4>2, <4>3, AdmitCases
    <3>7. CASE Run(c)
      BY <2>2, <3>0, <3>7, RunResponds, RespondHolds
    <3>8. CASE Write(c)
      BY <2>2, <3>0, <3>8, WriteHolds
    <3> QED BY <1>1, <3>1, <3>2, <3>3, <3>4, <3>5, <3>6, <3>7, <3>8
  <2> QED BY <2>1, <2>2
<1>2. ASSUME UNCHANGED conns, NEW d \in Conns PROVE Holds(d)'
  BY <1>0, <1>2, Frame DEF conns
<1>3. \A d \in Conns : Holds(d)'
  BY <1>1, <1>2 DEF ServerNext, serverVars
<1> QED BY <1>3 DEF ConnHolds, Holds

-----------------------------------------------------------------------------
LEMMA SentType ==
    ASSUME client \in Clients, NEW c \in Conns
    PROVE  Sent(c) \in Seq(Toks)
<1> DEFINE s == Stream(client[c].sent)
<1>1. client[c] \in [ip : Ips, sent : Seq(Requests), short : BOOLEAN]
  BY ServerAssumption
<1>2. s \in Seq(Toks)
  BY <1>1, StreamType
<1> HIDE DEF s
<1>3. Front(s) \in Seq(Toks)
  <2>1. \A p \in 1..(Len(s) - 1) : s[p] \in Toks
    BY <1>2
  <2>2. 1 \in Int /\ Len(s) - 1 \in Int
    BY <1>2
  <2>3. SubSeq(s, 1, Len(s) - 1) \in Seq(Toks)
    BY <2>1, <2>2, SubSeqProperties
  <2> QED BY <2>3 DEF Front
<1> QED BY <1>2, <1>3 DEF Sent, s

LEMMA ServerInitTypes == ServerInit => ServerTypeOK
<1> SUFFICES ASSUME ServerInit PROVE ServerTypeOK
  OBVIOUS
<1>1. client \in Clients /\ wire = [c \in Conns |-> Sent(c)]
  BY DEF ServerInit
<1>2. wire \in [Conns -> Seq(Toks)]
  BY <1>1, SentType
<1>3. <<>> \in Seq(Toks) /\ <<>> \in Seq(Replies)
  OBVIOUS
<1>4. links \in [Codes -> Nat \cup {None}] /\ forever \subseteq Codes /\ made \in [Ips -> Nat]
  BY ServerAssumption DEF ServerInit
<1> QED BY <1>1, <1>2, <1>3, <1>4 DEF ServerInit, ServerTypeOK, Toks

LEMMA ServerInitHolds == ServerInit => ConnHolds
<1> SUFFICES ASSUME ServerInit, NEW c \in Conns PROVE Holds(c)
  BY DEF ConnHolds, Holds
<1> DEFINE s == client[c].sent
           t == Stream(s)
           ls == Len(Sent(c))
<1>0. ServerTypeOK
  BY ServerInitTypes
<1>1. /\ buf[c] = <<>> /\ out[c] = <<>> /\ got[c] = <<>> /\ wire[c] = Sent(c)
      /\ at[c] = "read" /\ closing = {} /\ Len(<<>>) = 0
  BY DEF ServerInit
<1>2. /\ s \in Seq(Requests) /\ Len(s) \in Nat /\ ls \in Nat /\ ls <= Len(t)
      /\ \A p \in 1..ls : Sent(c)[p] = t[p]
  BY <1>0, ConnFacts, SentFacts
<1>3. Consumed(c) = 0 /\ Answered(c) = 0
  <2>1. Consumed(c) = ls - 0 - ls /\ Answered(c) = 0 + 0
    BY <1>1 DEF Consumed, Answered
  <2> HIDE DEF ls
  <2> QED BY <1>2, <2>1
<1>4. InStream(c)
  <2>1. \A p \in 1..ls : 0 + 0 + p = p
    <3> HIDE DEF ls
    <3> QED BY <1>2
  <2>2. \A p \in 1..Len(wire[c]) : wire[c][p] = t[0 + 0 + p]
    BY <1>1, <1>2, <2>1
  <2>3. 0 >= 0 /\ \A p \in 1..0 : FALSE
    OBVIOUS
  <2> HIDE DEF t
  <2>4. \A p \in 1..Len(buf[c]) : buf[c][p] = t[0 + p]
    BY <1>1, <2>3
  <2> QED BY <1>1, <1>3, <2>2, <2>3, <2>4 DEF InStream, t
<1>5. InPlace(c)
  <2>1. Start(s, 1) = 0 /\ 0 + 1 = 1 /\ 0 <= Len(s)
    BY <1>2, StartEnds
  <2> QED BY <1>3, <2>1 DEF InPlace
<1>6. ~ Pending(c)
  <2>1. ~ (0 >= 2)
    OBVIOUS
  <2> QED BY <1>1, <2>1 DEF Pending, Malformed, Complete, HasHead
<1>7. Admitted(c) /\ Settled(c)
  BY <1>1, <1>6 DEF Admitted, Settled
<1>8. Ending(c)
  <2>1. (\A i \in 1..(0 - 1) : FALSE) /\ ~ (0 > 0)
    OBVIOUS
  <2> QED BY <1>1, <1>3, <2>1 DEF Ending
<1> QED BY <1>4, <1>5, <1>7, <1>8 DEF Holds

(* The server runs the limiter: what it promises on its own it promises    *)
(* here too.                                                               *)
ServerInv == Inv /\ ServerTypeOK /\ ConnHolds

LEMMA ServerInitInv == ServerInit => ServerInv
BY ServerInitTypes, ServerInitHolds, InitInv DEF ServerInit, ServerInv

LEMMA ServerNextInv == ServerInv /\ [ServerNext]_serverVars => ServerInv'
<1> SUFFICES ASSUME ServerInv, [ServerNext]_serverVars PROVE ServerInv'
  OBVIOUS
<1>1. Inv /\ TypeOK /\ ServerTypeOK /\ ConnHolds
  BY DEF ServerInv, Inv
<1>2. Inv'
  BY <1>1, LimiterStep, NextInv
<1>3. ServerTypeOK'
  BY <1>1, ServerTypesStep
<1>4. ConnHolds'
  BY <1>1, ConnStep
<1> QED BY <1>2, <1>3, <1>4 DEF ServerInv

LEMMA ServerInvHolds == ServerSpec => []ServerInv
BY ServerInitInv, ServerNextInv, PTL DEF ServerSpec

(* Every variable of the server keeps its type: in particular, a reply     *)
(* names a request and has a status of HTTP, and a link has an expiry.     *)
THEOREM ServerTypes == ServerSpec => []ServerTypeOK
<1>1. ServerInv => ServerTypeOK
  BY DEF ServerInv
<1> QED BY ServerInvHolds, <1>1, PTL

(* The server drives the limiter as its specification says: only for       *)
(* addresses and costs that it is specified for, and one call at a time.   *)
(* So what is proved of the limiter alone holds inside the server: how     *)
(* much an address is granted in any window, and that addresses do not     *)
(* disturb each other.                                                     *)
THEOREM ServerRunsLimiter == ServerSpec => Spec
<1>1. ServerInit => Init
  BY DEF ServerInit
<1>2. ServerInv /\ [ServerNext]_serverVars => [Next]_vars
  BY LimiterStep DEF ServerInv
<1> QED BY ServerInvHolds, <1>1, <1>2, PTL DEF ServerSpec, Spec

(* A thread that waits for its client has written every reply and has no   *)
(* request left to act on (handle_conn writes before it reads).            *)
THEOREM ServerNoneWaits == ServerSpec => []NoneWaits
<1>1. ServerInv => NoneWaits
  BY DEF ServerInv, ConnHolds, Settled, NoneWaits
<1> QED BY ServerInvHolds, <1>1, PTL

(* A connection on which nothing failed ends with its requests answered:   *)
(* all that the client sent whole, or all up to the one that ends it.      *)
THEOREM ServerCleanEnd == ServerSpec => []CleanEnd
<1>1. ASSUME ServerInv, NEW c \in Conns, at[c] = "closed", c \notin cut, Proper(c)
      PROVE  /\ Len(got[c]) <= Len(client[c].sent)
             /\ \A i \in 1..(Len(got[c]) - 1) : ~ Ends(client[c].sent[i])
             /\ \/ Len(got[c]) = Len(client[c].sent)
                \/ Len(got[c]) = Len(client[c].sent) - 1 /\ client[c].short
                \/ Len(got[c]) > 0 /\ Ends(client[c].sent[Len(got[c])])
  <2> DEFINE s == client[c].sent
             t == Stream(s)
             n == Len(got[c])
             k == Consumed(c)
             b == buf[c]
             lb == Len(b)
             ls == Len(Sent(c))
             ln == Len(s)
             lt == Len(t)
  <2>0. ServerTypeOK /\ InStream(c) /\ InPlace(c) /\ Ending(c)
    BY <1>1 DEF ServerInv, ConnHolds
  <2>1. /\ s \in Seq(Requests) /\ ln \in Nat /\ n \in Nat /\ lt \in Nat /\ lb \in Nat /\ ls \in Nat
        /\ ls <= lt /\ lt <= ls + 1 /\ (~ client[c].short => ls = lt) /\ b \in Seq(Toks)
    BY <2>0, ConnFacts, SentFacts
  <2>2. out[c] = <<>> /\ Answered(c) = n
    <3>1. out[c] = <<>> /\ Len(<<>>) = 0
      BY <1>1, <2>0 DEF Ending
    <3>2. Answered(c) = n + 0
      BY <3>1 DEF Answered
    <3> HIDE DEF n
    <3> QED BY <2>1, <3>1, <3>2
  <2>3. /\ \A i \in 1..(n - 1) : ~ Ends(s[i])
        /\ (n > 0 /\ Ends(s[n])) \/ Exhausted(c)
        /\ n <= ln
    BY <1>1, <2>0, <2>2 DEF Ending, InPlace
  <2>4. ASSUME Exhausted(c), n # ln PROVE n = ln - 1 /\ client[c].short
    <3>1. wire[c] = <<>> /\ ~ Pending(c) /\ k = Start(s, n + 1)
      BY <2>2, <2>4 DEF Exhausted
    <3>2. k = ls - lb
      <4>1. k = ls - lb - 0
        BY <3>1 DEF Consumed
      <4> HIDE DEF ls, lb, k
      <4> QED BY <2>1, <4>1
    <3>3. n + 1 \in 1..ln
      <4> HIDE DEF n, ln
      <4> QED BY <2>1, <2>3, <2>4
    <3> DEFINE l == BodyLen(s[n + 1])
               e == Start(s, (n + 1) + 1)
    <3>4. LaidOut(s, n + 1, t) /\ k \in Nat /\ l \in Nat /\ e = k + 2 + l
      BY <2>1, <3>1, <3>3, StreamLayout, StartStep
    <3>5. lb < 2 + l
      <4>1. CASE lb < 2
        <5> HIDE DEF lb, l
        <5> QED BY <2>1, <3>4, <4>1
      <4>2. CASE lb >= 2
        <5>1. ~ (lb >= Total(Req(c)))
          BY <3>1, <4>2 DEF Pending, Malformed, HasHead, Complete
        <5>2. 2 \in 1..lb
          <6> HIDE DEF lb
          <6> QED BY <2>1, <4>2
        <5>3. b[2] = t[k + 2] /\ t[k + 2] = [k |-> "head", i |-> n + 1]
          BY <2>0, <3>1, <3>4, <5>2 DEF InStream, LaidOut
        <5>4. Req(c) = s[n + 1]
          BY <5>3 DEF Req, Index
        <5>5. Total(Req(c)) = 2 + l
          BY <5>4 DEF Total
        <5> HIDE DEF lb, l
        <5> QED BY <2>1, <3>4, <5>1, <5>5
      <4>3. lb < 2 \/ lb >= 2
        <5> HIDE DEF lb
        <5> QED BY <2>1
      <4> QED BY <4>1, <4>2, <4>3
    <3>6. e <= lt
      <4>1. k + 2 + l <= lt
        BY <3>1, <3>4 DEF LaidOut
      <4> HIDE DEF e, k, l, lt
      <4> QED BY <3>4, <4>1
    <3>7. lt = e /\ ls # lt
      <4>1. /\ lt \in Nat /\ ls \in Nat /\ lb \in Nat /\ k \in Nat /\ l \in Nat /\ k = ls - lb
            /\ e = k + 2 + l /\ lb < 2 + l /\ e <= lt /\ lt <= ls + 1
        BY <2>1, <3>2, <3>4, <3>5, <3>6
      <4> HIDE DEF e, k, l, lt, ls, lb
      <4> QED BY <4>1
    <3>8. ~ ((n + 1) + 1 \in 1..ln)
      <4> SUFFICES ASSUME (n + 1) + 1 \in 1..ln PROVE FALSE
        OBVIOUS
      <4> DEFINE m == BodyLen(s[(n + 1) + 1])
      <4>1. e + 2 + m <= lt /\ m \in Nat /\ e \in Nat
        BY <2>1, StreamLayout, StartStep DEF LaidOut
      <4> HIDE DEF e, m, lt
      <4> QED BY <2>1, <3>7, <4>1
    <3>9. n = ln - 1
      <4> HIDE DEF n, ln
      <4> QED BY <2>1, <3>3, <3>8
    <3> QED BY <2>1, <3>7, <3>9
  <2> QED BY <2>3, <2>4
<1>2. ServerInv => CleanEnd
  BY <1>1 DEF CleanEnd
<1> QED BY ServerInvHolds, <1>2, PTL

-----------------------------------------------------------------------------
(* The order of replies.                                                   *)

OrderedOn(c) ==
    /\ \A j \in 1..Len(got[c]) : got[c][j].i = j
    /\ \A j \in 1..Len(out[c]) : out[c][j].i = Len(got[c]) + j

LEMMA AppendOrdered ==
    ASSUME ServerTypeOK, NEW c \in Conns, OrderedOn(c), got' = got, Index(c) = Answered(c) + 1, NEW x,
           out'[c] = Append(out[c], [i |-> Index(c), s |-> x])
    PROVE  OrderedOn(c)'
<1> DEFINE g == Len(got[c])
           o == Len(out[c])
           e == [i |-> Index(c), s |-> x]
<1>1. g \in Nat /\ o \in Nat /\ e.i = g + o + 1
  BY ConnFacts DEF Answered
<1>2. Len(out'[c]) = o + 1 /\ out'[c][o + 1] = e /\ \A j \in 1..o : out'[c][j] = out[c][j]
  BY ConnFacts, AppendProperties
<1>3. ASSUME NEW j \in 1..(o + 1) PROVE out'[c][j].i = g + j
  <2>1. CASE j = o + 1
    <3> HIDE DEF g, o, e
    <3>1. out'[c][j].i = g + o + 1 /\ g + o + 1 = g + j
      BY <1>1, <1>2, <2>1
    <3> QED BY <3>1
  <2>2. CASE j # o + 1
    <3>1. j \in 1..o
      <4> HIDE DEF o
      <4> QED BY <1>1, <2>2
    <3> QED BY <1>2, <3>1 DEF OrderedOn
  <2> QED BY <2>1, <2>2
<1> QED BY <1>2, <1>3 DEF OrderedOn

LEMMA WriteOrdered ==
    ASSUME ServerTypeOK, NEW c \in Conns, OrderedOn(c), got'[c] = got[c] \o out[c], out'[c] = <<>>
    PROVE  OrderedOn(c)'
<1> DEFINE g == Len(got[c])
           o == Len(out[c])
<1> DEFINE q == got[c] \o out[c]
<1>0. got[c] \in Seq(Replies) /\ out[c] \in Seq(Replies) /\ g \in Nat /\ o \in Nat
  BY ConnFacts
<1>q. /\ Len(q) = g + o
      /\ \A j \in 1..(g + o) : q[j] = IF j <= g THEN got[c][j] ELSE out[c][j - g]
  BY <1>0, ConcatProperties
<1>1. /\ g \in Nat /\ o \in Nat /\ Len(got'[c]) = g + o
      /\ \A j \in 1..(g + o) : got'[c][j] = IF j <= g THEN got[c][j] ELSE out[c][j - g]
  <2>1. got'[c] = q
    OBVIOUS
  <2> HIDE DEF q, g, o
  <2> QED BY <1>0, <1>q, <2>1
<1>2. /\ \A j \in 1..g : got[c][j].i = j
      /\ \A j \in 1..o : out[c][j].i = g + j
  BY DEF OrderedOn
<1> HIDE DEF g, o
<1>3. ASSUME NEW j \in 1..(g + o) PROVE got'[c][j].i = j
  <2>1. CASE j <= g
    <3>1. j \in 1..g
      BY <1>1, <2>1
    <3> QED BY <1>1, <1>2, <2>1, <3>1
  <2>2. CASE ~ (j <= g)
    <3>1. j - g \in 1..o /\ g + (j - g) = j
      BY <1>1, <2>2
    <3>2. got'[c][j] = out[c][j - g]
      BY <1>1, <2>2
    <3>3. out[c][j - g].i = g + (j - g)
      BY <1>2, <3>1
    <3> QED BY <3>1, <3>2, <3>3
  <2> QED BY <2>1, <2>2
<1>4. \A j \in 1..Len(<<>>) : FALSE
  OBVIOUS
<1> QED BY <1>1, <1>3, <1>4 DEF OrderedOn

LEMMA OrderStep ==
    ASSUME ServerInv, \A c \in Conns : OrderedOn(c), [ServerNext]_serverVars
    PROVE  \A c \in Conns : OrderedOn(c)'
<1>0. ServerTypeOK /\ ConnHolds
  BY DEF ServerInv
<1> TAKE d \in Conns
<1>1. ASSUME got'[d] = got[d], out'[d] = out[d] PROVE OrderedOn(d)'
  BY <1>1 DEF OrderedOn
<1>2. ASSUME NEW c \in Conns,
             Read(c) \/ Fail(c) \/ Partial(c) \/ Drop(c) \/ TooLarge(c) \/ Admit(c) \/ Run(c) \/ Write(c)
      PROVE  OrderedOn(d)'
  <2>1. CASE d # c
    BY <1>0, <1>1, <1>2, <2>1, Elsewhere
  <2>2. CASE d = c
    <3>1. CASE Read(c) \/ Fail(c) \/ Partial(c) \/ Drop(c)
      BY <1>1, <2>2, <3>1 DEF Read, Fail, Partial, Drop
    <3>2. CASE TooLarge(c)
      <4>1. got' = got /\ Index(c) = Answered(c) + 1 /\ out'[c] = Append(out[c], [i |-> Index(c), s |-> 413])
        BY <1>0, <3>2, AtRequest DEF TooLarge, ServerTypeOK
      <4> QED BY <1>0, <2>2, <4>1, AppendOrdered
    <3>3. ASSUME at[c] = "run" \/ at[c] = "parse", Complete(c), NEW s, Respond(c, s) PROVE OrderedOn(d)'
      <4>1. got' = got /\ Index(c) = Answered(c) + 1 /\ out'[c] = Append(out[c], [i |-> Index(c), s |-> s])
        BY <1>0, <3>3, AtRequest DEF Respond, Complete, ServerTypeOK
      <4> QED BY <1>0, <2>2, <4>1, AppendOrdered
    <3>4. CASE Admit(c)
      <4>1. CASE UNCHANGED <<client, wire, buf, out, closing, got, cut>>
        BY <1>1, <4>1
      <4> QED BY <3>3, <3>4, <4>1, AdmitCases
    <3>5. CASE Run(c)
      BY <1>0, <3>3, <3>5, RunResponds
    <3>6. CASE Write(c)
      <4>1. got'[c] = got[c] \o out[c] /\ out'[c] = <<>>
        BY <1>0, <3>6 DEF Write, Rest, ServerTypeOK
      <4> QED BY <1>0, <2>2, <4>1, WriteOrdered
    <3> QED BY <1>2, <3>1, <3>2, <3>4, <3>5, <3>6
  <2> QED BY <2>1, <2>2
<1>3. CASE UNCHANGED conns
  BY <1>1, <1>3 DEF conns
<1> QED BY <1>2, <1>3 DEF ServerNext, serverVars

(* The replies on a connection answer its requests one by one in the order *)
(* in which they were sent, however the stream is cut into reads           *)
(* (handle_conn drains as many bytes as the request has).                  *)
THEOREM ServerInOrder == ServerSpec => []InOrder
<1> DEFINE J == \A c \in Conns : OrderedOn(c)
<1>1. ServerInit => J
  <2> SUFFICES ASSUME ServerInit, NEW c \in Conns PROVE OrderedOn(c)
    OBVIOUS
  <2>1. got[c] = <<>> /\ out[c] = <<>>
    BY DEF ServerInit
  <2> QED BY <2>1 DEF OrderedOn
<1>2. ServerInv /\ J /\ [ServerNext]_serverVars => J'
  BY OrderStep
<1>3. ServerInv /\ J => InOrder
  <2> SUFFICES ASSUME ServerInv, NEW c \in Conns, OrderedOn(c)
               PROVE  \A j \in 1..Len(got[c] \o out[c]) : (got[c] \o out[c])[j].i = j
    BY DEF InOrder
  <2> DEFINE g == Len(got[c])
             o == Len(out[c])
             q == got[c] \o out[c]
  <2>0. ServerTypeOK
    BY DEF ServerInv
  <2>1. /\ g \in Nat /\ o \in Nat /\ Len(q) = g + o
        /\ \A j \in 1..(g + o) : q[j] = IF j <= g THEN got[c][j] ELSE out[c][j - g]
    BY <2>0, ConnFacts, ConcatProperties
  <2>2. /\ \A j \in 1..g : got[c][j].i = j
        /\ \A j \in 1..o : out[c][j].i = g + j
    BY DEF OrderedOn
  <2> HIDE DEF g, o, q
  <2>3. ASSUME NEW j \in 1..(g + o) PROVE q[j].i = j
    <3>1. CASE j <= g
      <4>1. j \in 1..g
        BY <2>1, <3>1
      <4> QED BY <2>1, <2>2, <3>1, <4>1
    <3>2. CASE ~ (j <= g)
      <4>1. j - g \in 1..o /\ g + (j - g) = j
        BY <2>1, <3>2
      <4>2. q[j] = out[c][j - g]
        BY <2>1, <3>2
      <4>3. out[c][j - g].i = g + (j - g)
        BY <2>2, <4>1
      <4> QED BY <4>1, <4>2, <4>3
    <3> QED BY <3>1, <3>2
  <2> QED BY <2>1, <2>3 DEF q
<1> HIDE DEF J
<1> QED BY ServerInvHolds, <1>1, <1>2, <1>3, PTL DEF ServerSpec

-----------------------------------------------------------------------------
(* The store behind the server.                                            *)

(* Only the run of a complete request changes the store, by the call that  *)
(* its method makes.                                                       *)
LEMMA StoreStep ==
    ASSUME ServerInv, [ServerNext]_serverVars
    PROVE  \/ UNCHANGED store
           \/ /\ now' = now
              /\ \E c \in Conns : \E s :
                   /\ Run(c) /\ Req(c) \in Requests /\ Client(c, Req(c)) \in Ips
                   /\ Unrouted(Req(c)) = {} /\ Req(c).form = "ok"
                   /\ Stored(Client(c, Req(c)), Req(c), s)
<1>0. ServerTypeOK /\ ConnHolds
  BY DEF ServerInv
<1>1. ASSUME NEW c \in Conns,
             Read(c) \/ Fail(c) \/ Partial(c) \/ Drop(c) \/ TooLarge(c) \/ Admit(c) \/ Write(c)
      PROVE  UNCHANGED store
  BY <1>1 DEF Read, Fail, Partial, Drop, TooLarge, Admit, Write
<1>2. ASSUME NEW c \in Conns, Run(c), ~ UNCHANGED store
      PROVE  /\ now' = now
             /\ \E s : /\ Run(c) /\ Req(c) \in Requests /\ Client(c, Req(c)) \in Ips
                       /\ Unrouted(Req(c)) = {} /\ Req(c).form = "ok"
                       /\ Stored(Client(c, Req(c)), Req(c), s)
  <2>1. now' = now
    BY <1>2 DEF Run
  <2> QED BY <1>0, <1>2, <2>1, RunResponds
<1>3. CASE UNCHANGED <<conns, store>>
  BY <1>3
<1>4. CASE UNCHANGED serverVars
  BY <1>4 DEF serverVars
<1> QED BY <1>1, <1>2, <1>3, <1>4 DEF ServerNext

LEMMA CreateCapped ==
    ASSUME StoreOK, now \in Nat, now' = now, LifetimeCapped, NEW ip, NEW S \in SUBSET Codes,
           NEW ttl \in Int, ttl <= LinkTtl, Create(ip, S, ttl)
    PROVE  LifetimeCapped'
<1>1. LinkTtl \in Nat /\ 0 # None
  BY ServerAssumption
<1>2. ASSUME NEW c \in Codes, links'[c] # None
      PROVE  IF links'[c] = 0 THEN c \in forever' ELSE links'[c] <= now' + LinkTtl
  <2>1. CASE c \in S
    <3>1. links'[c] = Expiry(ttl) /\ (~ (ttl > 0) => c \in forever')
      BY <2>1 DEF Create
    <3>2. Expiry(ttl) \in Nat /\ (Expiry(ttl) = 0 <=> ~ (ttl > 0)) /\ (ttl > 0 => Expiry(ttl) = now + ttl)
      BY ExpiryType
    <3>3. now + ttl <= now + LinkTtl
      BY <1>1
    <3> QED BY <3>1, <3>2, <3>3
  <2>2. CASE c \notin S
    <3>1. links'[c] = links[c] /\ (c \in forever => c \in forever')
      BY <2>2 DEF Create
    <3> QED BY <1>2, <3>1 DEF LifetimeCapped
  <2> QED BY <2>1, <2>2
<1> QED BY <1>2 DEF LifetimeCapped

LEMMA SetCapped ==
    ASSUME StoreOK, now' = now, LifetimeCapped, NEW c \in Codes, NEW e, NEW never, Set(c, e, never),
           e # None => IF e = 0 THEN never ELSE e <= now + LinkTtl
    PROVE  LifetimeCapped'
<1>1. ASSUME NEW d \in Codes, links'[d] # None
      PROVE  IF links'[d] = 0 THEN d \in forever' ELSE links'[d] <= now' + LinkTtl
  <2>1. CASE d = c
    <3>1. links'[d] = e /\ (never => d \in forever')
      BY <2>1 DEF Set, StoreOK
    <3> QED BY <1>1, <3>1
  <2>2. CASE d # c
    <3>1. links'[d] = links[d] /\ (d \in forever => d \in forever')
      BY <2>2 DEF Set, StoreOK
    <3> QED BY <1>1, <3>1 DEF LifetimeCapped
  <2> QED BY <2>1, <2>2
<1> QED BY <1>1 DEF LifetimeCapped

LEMMA LifetimeStep ==
    ASSUME ServerInv, LifetimeCapped, [ServerNext]_serverVars
    PROVE  LifetimeCapped'
<1>0. now \in Nat /\ StoreOK /\ LinkTtl \in Nat /\ LinkTtl > 0
  BY TypesSplit, ServerAssumption DEF ServerInv, Inv, TypeOK
<1>1. CASE UNCHANGED store
  <2>1. now' \in Nat /\ now <= now'
    <3>1. [Next]_vars
      BY LimiterStep DEF ServerInv
    <3> QED BY <1>0, <3>1 DEF Next, Allow, Deny, Tick, Observe, vars
  <2>2. ASSUME NEW c \in Codes, links'[c] # None
        PROVE  IF links'[c] = 0 THEN c \in forever' ELSE links'[c] <= now' + LinkTtl
    <3>1. links' = links /\ forever' = forever
      BY <1>1 DEF store
    <3>2. CASE links[c] = 0
      BY <2>2, <3>1, <3>2 DEF LifetimeCapped
    <3>3. CASE links[c] # 0
      <4>1. links[c] \in Nat /\ links[c] <= now + LinkTtl
        BY <1>0, <2>2, <3>1, <3>3 DEF StoreOK, LifetimeCapped
      <4>2. links[c] <= now' + LinkTtl
        BY <1>0, <2>1, <4>1
      <4> QED BY <3>1, <3>3, <4>2
    <3> QED BY <3>2, <3>3
  <2> QED BY <2>2 DEF LifetimeCapped
<1>2. ASSUME now' = now, NEW ip, NEW r \in Requests, NEW s, r.form = "ok", Stored(ip, r, s)
      PROVE  LifetimeCapped'
  <2>1. CASE UNCHANGED store
    BY <1>1, <2>1
  <2>2. CASE \E c \in Codes : links[c] = None /\ Create(ip, {c}, Lifetime(r))
    <3>1. PICK c \in Codes : Create(ip, {c}, Lifetime(r))
      BY <2>2
    <3>2. {c} \in SUBSET Codes /\ Lifetime(r) \in Int /\ Lifetime(r) <= LinkTtl
      BY <1>2, LifetimeType
    <3> QED BY <1>0, <1>2, <3>1, <3>2, CreateCapped
  <2>3. CASE \E S \in SUBSET Free : Cardinality(S) = r.urls /\ Create(ip, S, LinkTtl)
    <3>1. PICK S \in SUBSET Free : Create(ip, S, LinkTtl)
      BY <2>3
    <3>2. S \in SUBSET Codes /\ LinkTtl \in Int /\ LinkTtl <= LinkTtl
      BY <1>0 DEF Free
    <3> QED BY <1>0, <1>2, <3>1, <3>2, CreateCapped
  <2>4. CASE /\ r.code \in Codes /\ r.ttl \in Int
             /\ Set(r.code, Expiry(Capped(r.ttl)), Millis(r.ttl) <= 0)
    <3> DEFINE k == Capped(r.ttl)
               m == Millis(r.ttl)
    <3>1. k \in Int /\ k <= LinkTtl /\ (k > 0 <=> m > 0) /\ m \in Int
      BY <2>4, CappedType, MillisType
    <3>2. Expiry(k) \in Nat /\ (Expiry(k) = 0 <=> ~ (k > 0)) /\ (k > 0 => Expiry(k) = now + k)
      BY <1>0, <3>1, ExpiryType
    <3>3. IF Expiry(k) = 0 THEN m <= 0 ELSE Expiry(k) <= now + LinkTtl
      <4> HIDE DEF k, m
      <4> QED BY <1>0, <3>1, <3>2
    <3> QED BY <1>0, <1>2, <2>4, <3>3, SetCapped
  <2>5. CASE r.code \in Codes /\ Set(r.code, None, FALSE)
    BY <1>0, <1>2, <2>5, SetCapped
  <2> QED BY <1>2, <2>1, <2>2, <2>3, <2>4, <2>5, StoredCases
<1> QED BY <1>1, <1>2, StoreStep

(* No link lives longer than LINK_TTL_MS from now, unless its ttl_ms was   *)
(* below one when it was last set (shorten_one, and update in route).      *)
THEOREM ServerLifetimeCapped == ServerSpec => []LifetimeCapped
<1>1. ServerInit => LifetimeCapped
  BY ServerAssumption DEF ServerInit, LifetimeCapped
<1>2. ServerInv /\ LifetimeCapped /\ [ServerNext]_serverVars => LifetimeCapped'
  BY LifetimeStep
<1> QED BY ServerInvHolds, <1>1, <1>2, PTL DEF ServerSpec

-----------------------------------------------------------------------------
(* How many links an address creates.  What a thread holds between the     *)
(* limiter and the store is kept on an account: a number for every set of  *)
(* connections, to which each connection adds its own.                     *)

Additive(o, w) ==
    \A S \in SUBSET Conns, c \in Conns : c \notin S => o[S \cup {c}] = o[S] + w[c]

LEMMA Rebooked ==
    ASSUME NEW o \in [SUBSET Conns -> Nat], NEW w \in [Conns -> Nat], NEW v \in [Conns -> Nat],
           NEW x \in Conns, \A c \in Conns : c # x => v[c] = w[c], Additive(o, w)
    PROVE  \E p \in [SUBSET Conns -> Nat] : Additive(p, v) /\ p[Conns] + w[x] = o[Conns] + v[x]
<1> DEFINE p == [S \in SUBSET Conns |-> IF x \in S THEN (o[S] - w[x]) + v[x] ELSE o[S]]
<1>1. ASSUME NEW S \in SUBSET Conns, x \in S
      PROVE  o[S] = o[S \ {x}] + w[x] /\ o[S] \in Nat /\ o[S \ {x}] \in Nat
  <2>1. S \ {x} \in SUBSET Conns /\ x \notin S \ {x} /\ (S \ {x}) \cup {x} = S
    BY <1>1
  <2> QED BY <2>1 DEF Additive
<1>2. w[x] \in Nat /\ v[x] \in Nat
  OBVIOUS
<1>3. ASSUME NEW S \in SUBSET Conns, x \in S PROVE (o[S] - w[x]) + v[x] \in Nat
  <2> DEFINE h == o[S]
             l == o[S \ {x}]
  <2>1. h = l + w[x] /\ h \in Nat /\ l \in Nat
    BY <1>1, <1>3
  <2> HIDE DEF h, l
  <2>2. (h - w[x]) + v[x] \in Nat
    BY <1>2, <2>1
  <2> QED BY <2>2 DEF h
<1>4. p \in [SUBSET Conns -> Nat]
  BY <1>3
<1>5. ASSUME NEW S \in SUBSET Conns, NEW c \in Conns, c \notin S
      PROVE  p[S \cup {c}] = p[S] + v[c]
  <2>1. S \cup {c} \in SUBSET Conns /\ o[S \cup {c}] = o[S] + w[c] /\ o[S] \in Nat /\ w[c] \in Nat
    BY <1>5 DEF Additive
  <2>2. CASE c = x
    <3>1. p[S \cup {c}] = (o[S \cup {c}] - w[x]) + v[x] /\ p[S] = o[S]
      BY <1>5, <2>1, <2>2
    <3> QED BY <1>2, <2>1, <2>2, <3>1
  <2>3. CASE c # x /\ x \in S
    <3>1. p[S \cup {c}] = (o[S \cup {c}] - w[x]) + v[x] /\ p[S] = (o[S] - w[x]) + v[x] /\ v[c] = w[c]
      BY <2>1, <2>3
    <3> QED BY <1>2, <2>1, <3>1
  <2>4. CASE c # x /\ x \notin S
    <3>1. p[S \cup {c}] = o[S \cup {c}] /\ p[S] = o[S] /\ v[c] = w[c]
      BY <2>1, <2>4
    <3> QED BY <2>1, <3>1
  <2> QED BY <2>2, <2>3, <2>4
<1>6. p[Conns] + w[x] = o[Conns] + v[x]
  <2>1. p[Conns] = (o[Conns] - w[x]) + v[x] /\ o[Conns] \in Nat
    BY <1>1
  <2> QED BY <1>2, <2>1
<1> HIDE DEF p
<1>7. Additive(p, v)
  BY <1>5 DEF Additive
<1> QED BY <1>4, <1>6, <1>7

(* What each connection has been granted for ip and has not used.          *)
Held(ip) ==
    [c \in Conns |-> IF at[c] = "run" /\ Client(c, Req(c)) = ip THEN Price(Req(c)) ELSE 0]

Accounted(ip, o) ==
    /\ o \in [SUBSET Conns -> Nat] /\ Additive(o, Held(ip))
    /\ Gives(now, Past(ip, 0), made[ip] + o[Conns] + Available(ip))

Covered == \A ip \in Ips : \E o : Accounted(ip, o)

LEMMA HeldType ==
    ASSUME ServerTypeOK, ConnHolds, NEW ip
    PROVE  Held(ip) \in [Conns -> Nat]
<1>1. ASSUME NEW c \in Conns, at[c] = "run" PROVE Price(Req(c)) \in Nat
  BY <1>1, Charged, RateAssumption
<1> QED BY <1>1 DEF Held

(* Only the thread that takes a step changes what is held.                 *)
LEMMA HeldElsewhere ==
    ASSUME ServerTypeOK, NEW ip, NEW c \in Conns, NEW d \in Conns, d # c,
           Read(c) \/ Fail(c) \/ Partial(c) \/ Drop(c) \/ TooLarge(c) \/ Admit(c) \/ Run(c) \/ Write(c)
    PROVE  Held(ip)'[d] = Held(ip)[d]
<1>1. client' = client /\ buf'[d] = buf[d] /\ at'[d] = at[d]
  BY Elsewhere
<1>2. Held(ip)[d] = IF at[d] = "run" /\ Client(d, Req(d)) = ip THEN Price(Req(d)) ELSE 0
  BY DEF Held
<1>3. Held(ip)'[d] = IF at'[d] = "run" /\ Client(d, Req(d))' = ip THEN Price(Req(d))' ELSE 0
  BY DEF Held
<1>4. Req(d)' = Req(d)
  BY <1>1 DEF Req, Index
<1>5. Client(d, Req(d))' = Client(d, Req(d)) /\ Price(Req(d))' = Price(Req(d))
  BY <1>1, <1>4 DEF Client, Price
<1> QED BY <1>1, <1>2, <1>3, <1>5

Amounts ==
    /\ now \in Nat
    /\ \A ip \in Ips :
          /\ Held(ip) \in [Conns -> Nat] /\ Available(ip) \in Nat /\ made[ip] \in Nat
          /\ Past(ip, 0) \in 0..now

LEMMA AmountsHold == ServerInv => Amounts
<1> SUFFICES ASSUME ServerInv PROVE Amounts
  OBVIOUS
<1>1. TypeOK /\ ServerTypeOK /\ ConnHolds
  BY DEF ServerInv, Inv
<1>2. ASSUME NEW ip \in Ips
      PROVE  /\ Held(ip) \in [Conns -> Nat] /\ Available(ip) \in Nat /\ made[ip] \in Nat
             /\ Past(ip, 0) \in 0..now
  <2>1. Available(ip) \in 0..Burst
    BY <1>1, SweepIsFair
  <2>2. Available(ip) \in Nat
    BY <2>1, RateAssumption
  <2>3. Past(ip, 0) \in 0..now
    <3>1. now \in Nat /\ (ip \in Tracked => buckets[ip].last \in Nat /\ buckets[ip].last <= now)
      BY <1>1 DEF TypeOK, Bucket
    <3> QED BY <3>1 DEF Past
  <2> QED BY <1>1, <2>2, <2>3, HeldType DEF ServerTypeOK
<1> QED BY <1>1, <1>2 DEF Amounts, TypeOK

LEMMA AmountsHoldNext == ServerInv' => Amounts'
BY AmountsHold, PTL

(* A step of c that takes no more than it books from the amount l, which   *)
(* it finds where a was available.                                         *)
LEMMA Rebalanced ==
    ASSUME Amounts, Amounts', NEW ip \in Ips, NEW o, Accounted(ip, o), NEW c \in Conns,
           \A d \in Conns : d # c => Held(ip)'[d] = Held(ip)[d], NEW l \in Nat,
           \A x \in Nat : Gives(now, Past(ip, 0), x + Available(ip)) => Gives(now', Past(ip, 0)', x + l),
           made'[ip] + Held(ip)'[c] + Available(ip)' <= made[ip] + Held(ip)[c] + l
    PROVE  \E p : Accounted(ip, p)'
<1> DEFINE w == Held(ip)
           v == Held(ip)'
           a == Available(ip)
           b == Available(ip)'
           m == made[ip]
           n == made'[ip]
<1>1. /\ w \in [Conns -> Nat] /\ v \in [Conns -> Nat] /\ a \in Nat /\ b \in Nat /\ m \in Nat /\ n \in Nat
      /\ w[c] \in Nat /\ v[c] \in Nat
  BY DEF Amounts
<1>2. o \in [SUBSET Conns -> Nat] /\ Additive(o, w) /\ Gives(now, Past(ip, 0), m + o[Conns] + a)
  BY DEF Accounted
<1>3. now' \in Nat /\ Past(ip, 0)' \in Nat
  BY DEF Amounts
<1>4. \A d \in Conns : d # c => v[d] = w[d]
  OBVIOUS
<1>5. /\ n + v[c] + b <= m + w[c] + l
      /\ \A x \in Nat : Gives(now, Past(ip, 0), x + a) => Gives(now', Past(ip, 0)', x + l)
  OBVIOUS
<1> HIDE DEF w, v, a, b, m, n
<1>6. PICK p \in [SUBSET Conns -> Nat] : Additive(p, v) /\ p[Conns] + w[c] = o[Conns] + v[c]
  BY <1>1, <1>2, <1>4, Rebooked
<1>7. Gives(now', Past(ip, 0)', n + p[Conns] + b)
  <2> DEFINE x == p[Conns]
             y == o[Conns]
             wc == w[c]
             vc == v[c]
  <2>1. /\ x \in Nat /\ y \in Nat /\ wc \in Nat /\ vc \in Nat /\ x + wc = y + vc
        /\ n + vc + b <= m + wc + l /\ Gives(now, Past(ip, 0), (m + y) + a)
    BY <1>1, <1>2, <1>5, <1>6
  <2> HIDE DEF x, y, wc, vc
  <2>2. (m + y) + l \in Nat /\ n + x + b \in Nat /\ n + x + b <= (m + y) + l /\ m + y \in Nat
    BY <1>1, <2>1
  <2>3. Gives(now', Past(ip, 0)', (m + y) + l)
    BY <1>5, <2>1, <2>2
  <2>4. Gives(now', Past(ip, 0)', n + x + b)
    <3>1. PICK e \in Nat, f \in Nat, g \in Nat, h \in Nat :
            e = now' /\ f = Past(ip, 0)' /\ g = (m + y) + l /\ h = n + x + b
      BY <1>3, <2>2
    <3>2. Gives(e, f, h)
      BY <2>2, <2>3, <3>1, GivesMore
    <3> QED BY <3>1, <3>2
  <2> QED BY <2>4 DEF x
<1>8. Accounted(ip, p)' <=>
        /\ p \in [SUBSET Conns -> Nat] /\ Additive(p, Held(ip)')
        /\ Gives(now', Past(ip, 0)', made'[ip] + p[Conns] + Available(ip)')
  BY DEF Accounted, Additive, Gives
<1>9. Accounted(ip, p)'
  BY <1>6, <1>7, <1>8 DEF v, b, n
<1> QED BY <1>9

(* What a run creates, it was granted.                                     *)
LEMMA RunPays ==
    ASSUME ServerInv, NEW c \in Conns, Run(c), NEW ip \in Ips
    PROVE  made'[ip] + Held(ip)'[c] <= made[ip] + Held(ip)[c]
<1>0. ServerTypeOK /\ ConnHolds /\ Amounts /\ StoreOK
  BY AmountsHold, TypesSplit DEF ServerInv
<1> DEFINE r == Req(c)
           w == Held(ip)[c]
<1>1. Held(ip)'[c] = 0
  <2>1. at'[c] \in {"write", "parse"}
    <3>1. PICK s : Respond(c, s)
      BY <1>0, RunResponds
    <3> QED BY <1>0, <3>1 DEF Respond, Go, AfterReply, ServerTypeOK
  <2> QED BY <2>1 DEF Held
<1>2. w \in Nat /\ made[ip] \in Nat
  BY <1>0 DEF Amounts
<1>3. CASE made' = made
  BY <1>1, <1>2, <1>3
<1>4. CASE made' # made
  <2>1. /\ r \in Requests /\ Unrouted(r) = {} /\ r.form = "ok"
        /\ \E s : Stored(Client(c, r), r, s)
    BY <1>0, <1>4, RunResponds DEF store
  <2>2. PICK S \in SUBSET Codes : \E ttl :
            /\ Create(Client(c, r), S, ttl) /\ Cardinality(S) = Price(r)
            /\ r.op \in {"shorten", "bulk"}
    <3>1. r.op = "bulk" => r.urls \in Nat /\ r.urls > 0
      <4>1. r.op = "bulk" => r.urls \in Nat /\ r.urls # 0
        BY <2>1, UnroutedType DEF Requests
      <4> QED BY <4>1
    <3>2. CASE r.op = "shorten" /\ \E d \in Codes : links[d] = None /\ Create(Client(c, r), {d}, Lifetime(r))
      <4>1. PICK d \in Codes : Create(Client(c, r), {d}, Lifetime(r))
        BY <3>2
      <4>2. Cardinality({d}) = 1 /\ {d} \in SUBSET Codes /\ Price(r) = 1
        BY <3>2, FS_Singleton DEF Price
      <4> QED BY <3>2, <4>1, <4>2
    <3>3. CASE r.op = "bulk" /\ \E S \in SUBSET Free : Cardinality(S) = r.urls /\ Create(Client(c, r), S, LinkTtl)
      <4>1. PICK S \in SUBSET Free : Cardinality(S) = r.urls /\ Create(Client(c, r), S, LinkTtl)
        BY <3>3
      <4>2. S \in SUBSET Codes /\ Price(r) = r.urls
        BY <3>1, <3>3 DEF Free, Price
      <4> QED BY <3>3, <4>1, <4>2
    <3>4. UNCHANGED store => made' = made
      BY DEF store
    <3>5. ASSUME NEW e, NEW x, NEW never, Set(e, x, never) PROVE made' = made
      BY <3>5 DEF Set
    <3> HIDE DEF r
    <3> QED BY <1>4, <2>1, <3>2, <3>3, <3>4, <3>5, StoredCases
  <2>3. Limited(r) /\ at[c] = "run"
    <3>1. Limited(r)
      BY <2>1, <2>2 DEF Limited
    <3> QED BY <3>1 DEF Run
  <2>4. made' = [made EXCEPT ![Client(c, r)] = @ + Cardinality(S)] /\ made \in [Ips -> Nat]
    BY <1>0, <2>2 DEF Create, StoreOK
  <2>5. CASE Client(c, r) = ip
    <3>1. w = Price(r)
      BY <2>3, <2>5 DEF Held
    <3>2. made'[ip] = made[ip] + Price(r)
      BY <2>2, <2>4, <2>5
    <3> HIDE DEF w, r
    <3>3. made'[ip] + Held(ip)'[c] <= made[ip] + w
      BY <1>1, <1>2, <3>1, <3>2
    <3> QED BY <3>3 DEF w
  <2>6. CASE Client(c, r) # ip
    <3>1. made'[ip] = made[ip]
      BY <2>4, <2>6
    <3> QED BY <1>1, <1>2, <3>1
  <2> QED BY <2>5, <2>6
<1> QED BY <1>3, <1>4

LEMMA CoveredStep ==
    ASSUME ServerInv, ServerInv', Covered, [ServerNext]_serverVars
    PROVE  Covered'
<1>0. TypeOK /\ ServerTypeOK /\ ConnHolds /\ Amounts /\ Amounts'
  BY AmountsHold, AmountsHoldNext DEF ServerInv, Inv
<1> SUFFICES ASSUME NEW ip \in Ips PROVE \E p : Accounted(ip, p)'
  BY DEF Covered
<1> DEFINE Acts(c) == Read(c) \/ Fail(c) \/ Partial(c) \/ Drop(c) \/ TooLarge(c) \/ Admit(c) \/ Run(c) \/ Write(c)
<1>1. PICK o : Accounted(ip, o)
  BY DEF Covered
<1>n. /\ now \in Nat /\ made[ip] \in Nat /\ made'[ip] \in Nat
      /\ Available(ip) \in Nat /\ Available(ip)' \in Nat
      /\ \A c \in Conns : Held(ip)[c] \in Nat /\ Held(ip)'[c] \in Nat
  BY <1>0 DEF Amounts
<1>2. ASSUME NEW c \in Conns, Acts(c), NEW l \in Nat,
             \A x \in Nat : Gives(now, Past(ip, 0), x + Available(ip)) => Gives(now', Past(ip, 0)', x + l),
             made'[ip] + Held(ip)'[c] + Available(ip)' <= made[ip] + Held(ip)[c] + l
      PROVE  \E p : Accounted(ip, p)'
  <2>1. \A d \in Conns : d # c => Held(ip)'[d] = Held(ip)[d]
    BY <1>0, <1>2, HeldElsewhere
  <2> HIDE DEF Acts
  <2> QED BY <1>0, <1>1, <1>2, <2>1, Rebalanced
<1>s. ASSUME UNCHANGED <<now, limiter>>
      PROVE  now' = now /\ Available(ip)' = Available(ip) /\ Past(ip, 0)' = Past(ip, 0)
  BY <1>s DEF limiter, Available, Refill, Tracked, Past
<1>l. ASSUME NEW c \in Conns, Acts(c), UNCHANGED <<now, limiter>>,
             made'[ip] + Held(ip)'[c] + Available(ip)' <= made[ip] + Held(ip)[c] + Available(ip)
      PROVE  \E p : Accounted(ip, p)'
  <2>1. PICK l \in Nat : l = Available(ip)
    BY <1>n
  <2> HIDE DEF Acts
  <2> QED BY <1>2, <1>s, <1>l, <2>1
<1>3. ASSUME NEW c \in Conns,
             Read(c) \/ Fail(c) \/ Partial(c) \/ Drop(c) \/ TooLarge(c) \/ Write(c)
      PROVE  \E p : Accounted(ip, p)'
  <2>1. made' = made /\ UNCHANGED <<now, limiter>>
    BY <1>3 DEF Read, Fail, Partial, Drop, TooLarge, Write, store
  <2>2. at[c] # "run" /\ at'[c] # "run"
    BY <1>0, <1>3 DEF Read, Fail, Partial, Drop, TooLarge, Write, Go, ServerTypeOK
  <2>3. Held(ip)'[c] = 0 /\ Held(ip)[c] = 0
    BY <2>2 DEF Held
  <2>4. made'[ip] + Held(ip)'[c] + Available(ip)' <= made[ip] + Held(ip)[c] + Available(ip)
    BY <1>n, <1>s, <2>1, <2>3
  <2> QED BY <1>3, <1>l, <2>1, <2>4
<1>4. ASSUME NEW c \in Conns, Run(c) PROVE \E p : Accounted(ip, p)'
  <2>1. UNCHANGED <<now, limiter>>
    BY <1>4 DEF Run
  <2>2. made'[ip] + Held(ip)'[c] <= made[ip] + Held(ip)[c]
    BY <1>4, RunPays
  <2>3. made'[ip] + Held(ip)'[c] + Available(ip)' <= made[ip] + Held(ip)[c] + Available(ip)
    <3> DEFINE h == Held(ip)[c]
               k == Held(ip)'[c]
    <3>1. h \in Nat /\ k \in Nat /\ made'[ip] + k <= made[ip] + h
      BY <1>n, <2>2
    <3> HIDE DEF h, k
    <3>2. made'[ip] + k + Available(ip)' <= made[ip] + h + Available(ip)
      BY <1>n, <1>s, <2>1, <3>1
    <3> QED BY <3>2 DEF h, k
  <2> QED BY <1>4, <1>l, <2>1, <2>3
<1>5. ASSUME NEW c \in Conns, Admit(c) PROVE \E p : Accounted(ip, p)'
  <2>1. /\ at[c] = "parse" /\ Complete(c) /\ HasHead(c) /\ made' = made
        /\ Client(c, Req(c)) \in Ips /\ Price(Req(c)) \in Costs
    <3>1. at[c] = "parse" /\ Complete(c) /\ HasHead(c) /\ UNCHANGED store
      BY <1>5, AdmitCases
    <3>2. Client(c, Req(c)) \in Ips /\ Price(Req(c)) \in Costs
      BY <1>0, <3>1, Charged
    <3> QED BY <3>1, <3>2 DEF store
  <2>k. PICK k \in Ips, n \in Costs : k = Client(c, Req(c)) /\ n = Price(Req(c))
    BY <2>1
  <2>2. Held(ip)[c] = 0
    BY <2>1 DEF Held
  <2>l. PICK l \in Nat : l = Level(ip)
    <3>1. Level(ip) \in 0..Burst /\ Burst \in Nat
      BY <1>0, SweepIsFair, RateAssumption
    <3> QED BY <3>1
  <2>c. ASSUME NEW left \in 0..Burst, Charge(k, left), now' = now, NEW x \in Nat,
               Gives(now, Past(ip, 0), x + Available(ip))
        PROVE  Gives(now', Past(ip, 0)', x + l)
    <3>1. 0 \in Nat /\ 0 <= now /\ now - 0 = now /\ ~ (ip \in Tracked /\ buckets[ip].last < 0)
      BY <1>0, <1>n DEF TypeOK, Bucket
    <3>2. Gives(now - 0,
                IF ip \notin Tracked' THEN now - 0
                ELSE IF buckets'[ip].last > 0 THEN buckets'[ip].last - 0 ELSE 0,
                x + Level(ip))
      BY <1>0, <2>c, <3>1, CallCovers
    <3>3. Past(ip, 0)' = IF ip \notin Tracked' THEN now - 0
                         ELSE IF buckets'[ip].last > 0 THEN buckets'[ip].last - 0 ELSE 0
      BY <2>c DEF Past
    <3> QED BY <2>l, <2>c, <3>1, <3>2, <3>3
  <2>3. CASE Allow(k, n) /\ Go(c, "run") /\ UNCHANGED <<client, wire, buf, out, closing, got, cut>>
    <3>1. /\ now' = now /\ n \in Nat /\ Level(k) \in 0..Burst /\ Level(k) - n \in 0..Burst
          /\ Charge(k, Level(k) - n) /\ Available(k)' = Level(k) - n
      BY <1>0, <2>3, AllowTakes
    <3>2. PICK left \in 0..Burst : left = Level(k) - n
      BY <3>1
    <3>3. Charge(k, left) /\ \A x \in Ips \ {k} : Available(x)' = Level(x)
      BY <1>0, <3>1, <3>2, ChargeIsLocal
    <3>4. at'[c] = "run" /\ Client(c, Req(c))' = k /\ Price(Req(c))' = n
      BY <1>0, <2>k, <2>3 DEF Go, Client, Price, Req, Index, ServerTypeOK
    <3>5. Held(ip)'[c] = IF k = ip THEN n ELSE 0
      BY <3>4 DEF Held
    <3>6. made'[ip] + Held(ip)'[c] + Available(ip)' <= made[ip] + Held(ip)[c] + l
      <4>1. CASE k = ip
        <5>1. Held(ip)'[c] = n /\ Available(ip)' = l - n /\ made' = made
          BY <2>1, <2>l, <3>1, <3>5, <4>1
        <5> QED BY <1>n, <2>2, <3>1, <5>1
      <4>2. CASE k # ip
        <5>1. Held(ip)'[c] = 0 /\ Available(ip)' = l /\ made' = made
          BY <2>1, <2>l, <3>3, <3>5, <4>2
        <5> QED BY <1>n, <2>2, <5>1
      <4> QED BY <4>1, <4>2
    <3>7. \A x \in Nat : Gives(now, Past(ip, 0), x + Available(ip)) => Gives(now', Past(ip, 0)', x + l)
      BY <2>c, <3>1, <3>3
    <3> QED BY <1>2, <1>5, <3>6, <3>7
  <2>4. CASE Deny(k, n) /\ \E s \in 200..599 : Respond(c, s)
    <3>1. /\ now' = now /\ Level(k) \in 0..Burst /\ Charge(k, Level(k)) /\ Available(k)' = Level(k)
      BY <1>0, <2>4, DenyTakesNothing
    <3>2. PICK left \in 0..Burst : left = Level(k)
      BY <3>1
    <3>3. Charge(k, left) /\ \A x \in Ips \ {k} : Available(x)' = Level(x)
      BY <1>0, <3>1, <3>2, ChargeIsLocal
    <3>4. at'[c] # "run"
      BY <1>0, <2>4 DEF Respond, Go, AfterReply, ServerTypeOK
    <3>5. Held(ip)'[c] = 0 /\ Available(ip)' = l
      BY <2>l, <3>1, <3>3, <3>4 DEF Held
    <3>6. made'[ip] + Held(ip)'[c] + Available(ip)' <= made[ip] + Held(ip)[c] + l
      BY <1>n, <2>1, <2>2, <3>5
    <3>7. \A x \in Nat : Gives(now, Past(ip, 0), x + Available(ip)) => Gives(now', Past(ip, 0)', x + l)
      BY <2>c, <3>1, <3>3
    <3> QED BY <1>2, <1>5, <3>6, <3>7
  <2> QED BY <1>5, <2>k, <2>3, <2>4, AdmitCases
<1>6. ASSUME UNCHANGED <<conns, store>>,
             \A x \in Nat : Gives(now, Past(ip, 0), x + Available(ip))
                              => Gives(now', Past(ip, 0)', x + Available(ip)')
      PROVE  \E p : Accounted(ip, p)'
  <2>1. Held(ip)' = Held(ip) /\ made' = made
    <3>1. client' = client /\ buf' = buf /\ at' = at /\ made' = made
      BY <1>6 DEF conns, store
    <3> QED BY <3>1 DEF Held, Client, Price, Req, Index
  <2>2. /\ o \in [SUBSET Conns -> Nat] /\ Additive(o, Held(ip))
        /\ Gives(now, Past(ip, 0), made[ip] + o[Conns] + Available(ip))
    BY <1>1 DEF Accounted
  <2>3. Gives(now', Past(ip, 0)', made'[ip] + o[Conns] + Available(ip)')
    <3>1. made[ip] + o[Conns] \in Nat
      BY <1>n, <2>2
    <3> QED BY <1>6, <2>1, <2>2, <3>1
  <2>4. Accounted(ip, o)'
    <3>1. Accounted(ip, o)' <=>
            /\ o \in [SUBSET Conns -> Nat] /\ Additive(o, Held(ip)')
            /\ Gives(now', Past(ip, 0)', made'[ip] + o[Conns] + Available(ip)')
      BY DEF Accounted, Additive, Gives
    <3> QED BY <2>1, <2>2, <2>3, <3>1
  <2> QED BY <2>4
<1>7. CASE Tick /\ UNCHANGED <<conns, store>>
  <2>1. now' = now + 1 /\ Available(ip)' <= Available(ip) + Rate
    BY <1>0, <1>7, TickRefills DEF Tick
  <2>2. Past(ip, 0) \in Nat /\ Past(ip, 0)' \in Nat /\ Past(ip, 0) <= Past(ip, 0)'
    <3>1. buckets' = buckets /\ (ip \in Tracked => buckets[ip].last \in Nat)
      BY <1>0, <1>7 DEF Tick, TypeOK, Bucket
    <3>2. now - 0 <= now' - 0 /\ now - 0 \in Nat /\ now' - 0 \in Nat
      BY <1>n, <2>1
    <3> QED BY <3>1, <3>2 DEF Past, Tracked
  <2>3. ASSUME NEW x \in Nat, Gives(now, Past(ip, 0), x + Available(ip))
        PROVE  Gives(now', Past(ip, 0)', x + Available(ip)')
    <3>1. PICK w \in Nat, p \in Nat, q \in Nat, e \in Nat, f \in Nat :
            /\ w = now /\ p = Past(ip, 0) /\ q = Past(ip, 0)'
            /\ e = x + Available(ip) /\ f = x + Available(ip)'
      BY <1>n, <2>2
    <3>2. f <= e + Rate /\ p <= q /\ Gives(w, p, e)
      <4>1. f <= e + Rate
        BY <1>n, <2>1, <3>1, RateAssumption
      <4> QED BY <2>2, <2>3, <3>1, <4>1
    <3>3. Gives(w + 1, q, f)
      BY <3>2, GivesMore
    <3> QED BY <2>1, <3>1, <3>3
  <2> QED BY <1>6, <1>7, <2>3
<1>8. ASSUME now' = now, Available(ip)' = Available(ip), Past(ip, 0)' = Past(ip, 0),
             UNCHANGED <<conns, store>>
      PROVE  \E p : Accounted(ip, p)'
  BY <1>6, <1>8
<1>9. CASE Observe /\ UNCHANGED <<conns, store>>
  <2>1. now' = now /\ Available(ip)' = Available(ip) /\ Past(ip, 0)' = Past(ip, 0)
    BY <1>9 DEF Observe, Available, Refill, Tracked, Past
  <2> QED BY <1>8, <1>9, <2>1
<1>10. CASE UNCHANGED serverVars
  <2>1. UNCHANGED <<now, limiter>> /\ UNCHANGED <<conns, store>>
    BY <1>10 DEF serverVars
  <2> QED BY <1>8, <1>s, <2>1
<1> QED BY <1>3, <1>4, <1>5, <1>7, <1>9, <1>10 DEF ServerNext

(* An address creates no more links than its bucket allows, for every rate *)
(* and burst, over any number of connections and although a thread asks    *)
(* the limiter and calls the store in two steps (route, shorten_one,       *)
(* shorten_bulk).                                                          *)
THEOREM ServerCreationBound == ServerSpec => []CreationBound
<1>1. ServerInit => Covered
  <2> SUFFICES ASSUME ServerInit, NEW ip \in Ips PROVE \E o : Accounted(ip, o)
    BY DEF Covered
  <2> DEFINE o == [S \in SUBSET Conns |-> 0]
  <2>1. Held(ip) = [c \in Conns |-> 0]
    BY DEF ServerInit, Held
  <2>2. Additive(o, Held(ip)) /\ o \in [SUBSET Conns -> Nat] /\ o[Conns] = 0
    BY <2>1 DEF Additive
  <2>3. made[ip] = 0 /\ Available(ip) = Burst /\ now = 0 /\ Past(ip, 0) = 0 /\ Burst \in Nat
    BY RateAssumption DEF ServerInit, Init, Available, Tracked, Past
  <2> HIDE DEF o
  <2>4. Gives(now, Past(ip, 0), made[ip] + o[Conns] + Available(ip))
    BY <2>2, <2>3, GivesBurst
  <2>5. Accounted(ip, o)
    BY <2>2, <2>4 DEF Accounted
  <2> QED BY <2>5
<1>2. ServerInv /\ ServerInv' /\ Covered /\ [ServerNext]_serverVars => Covered'
  BY CoveredStep
<1>3. ServerInv /\ Covered => CreationBound
  <2> SUFFICES ASSUME ServerInv, Covered, NEW ip \in Ips PROVE Gives(now, now, made[ip])
    BY DEF CreationBound
  <2>1. PICK o : Accounted(ip, o)
    BY DEF Covered
  <2> DEFINE a == made[ip] + o[Conns] + Available(ip)
             p == Past(ip, 0)
  <2>2. /\ made[ip] \in Nat /\ Available(ip) \in Nat /\ o[Conns] \in Nat
        /\ now \in Nat /\ p \in Nat /\ p <= now /\ Gives(now, p, a)
    BY <2>1, AmountsHold DEF Amounts, Accounted
  <2>3. a \in Nat /\ made[ip] <= a
    BY <2>2
  <2> HIDE DEF a, p
  <2> QED BY <2>2, <2>3, GivesMore
<1> QED BY ServerInvHolds, <1>1, <1>2, <1>3, PTL DEF ServerSpec
=============================================================================
