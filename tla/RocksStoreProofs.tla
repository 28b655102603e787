-------------------------- MODULE RocksStoreProofs --------------------------
(***************************************************************************)
(* The safety properties of the RocksDB engine, for any number of threads, *)
(* codes, urls, faults and steps.                                          *)
(***************************************************************************)
EXTENDS RocksStore, LruProofs

TypeInv == TypeOK /\ CacheConsistent /\ HistoryOK /\ RequestOK

-----------------------------------------------------------------------------
(* Types of what the actions are made of.                                  *)

LEMMA SpendType ==
    ASSUME spent \in [Kinds -> Nat], NEW k \in Kinds, Spend(k)
    PROVE  spent' \in [Kinds -> Nat]
BY DEF Spend, Kinds

LEMMA CostType ==
    ASSUME spent \in [Kinds -> Nat], NEW o, Cost(o)
    PROVE  spent' \in [Kinds -> Nat]
<1>1. CASE o = "ok"
  BY <1>1 DEF Cost
<1>2. CASE o # "ok"
  BY <1>2, SpendType DEF Cost, Kinds
<1> QED BY <1>1, <1>2

LEMMA UntilType == ASSUME now \in Nat, NEW ttl \in Nat PROVE Until(ttl) \in Nat
BY DEF Until

LEMMA IdleType == Idle \in Reqs /\ Fits("idle", Idle)
BY DEF Idle, Reqs, Fits

LEMMA GoType ==
    ASSUME pc \in [Threads -> Steps], req \in [Threads -> Reqs], RequestOK,
           NEW t \in Threads, NEW to \in Steps, NEW r \in Reqs, Fits(to, r), Go(t, to, r)
    PROVE  /\ pc' \in [Threads -> Steps] /\ req' \in [Threads -> Reqs] /\ RequestOK'
           /\ pc'[t] = to /\ req'[t] = r
           /\ \A o \in Threads \ {t} : pc'[o] = pc[o] /\ req'[o] = req[o]
<1>1. /\ pc' = [pc EXCEPT ![t] = to] /\ req' = [req EXCEPT ![t] = r]
  BY DEF Go
<1>2. /\ pc' \in [Threads -> Steps] /\ req' \in [Threads -> Reqs]
      /\ pc'[t] = to /\ req'[t] = r
      /\ \A o \in Threads \ {t} : pc'[o] = pc[o] /\ req'[o] = req[o]
  BY <1>1
<1>3. \A o \in Threads : Fits(pc'[o], req'[o])
  <2> TAKE o \in Threads
  <2>1. CASE o = t
    BY <1>2, <2>1
  <2>2. CASE o # t
    BY <1>2, <2>2 DEF RequestOK
  <2> QED BY <2>1, <2>2
<1>4. RequestOK'
  BY <1>3 DEF RequestOK, Fits
<1> QED BY <1>2, <1>4

LEMMA DoneType ==
    ASSUME pc \in [Threads -> Steps], req \in [Threads -> Reqs], RequestOK,
           NEW t \in Threads, Done(t)
    PROVE  /\ pc' \in [Threads -> Steps] /\ req' \in [Threads -> Reqs] /\ RequestOK'
           /\ pc'[t] = "idle" /\ req'[t] = Idle
           /\ \A o \in Threads \ {t} : pc'[o] = pc[o] /\ req'[o] = req[o]
BY IdleType, GoType DEF Done, Steps

LEMMA WriteType ==
    ASSUME row \in [Codes -> Rows \cup {None}], HistoryOK,
           NEW t, NEW S \in SUBSET Codes, NEW x \in Rows \cup {None}, NEW ok, Write(t, S, x, ok)
    PROVE  /\ row' \in [Codes -> Rows \cup {None}]
           /\ acked' \in [Codes -> Rows \cup {None}] /\ raced' \subseteq Codes
BY DEF Write, HistoryOK

LEMMA GrantType ==
    ASSUME grants \in [Codes -> Nat], NEW S, Grant(S)
    PROVE  grants' \in [Codes -> Nat]
<1>1. \A c \in Codes : (IF row[c] = None THEN 0 ELSE grants[c]) + (IF c \in S THEN 1 ELSE 0) \in Nat
  OBVIOUS
<1> QED BY <1>1 DEF Grant

LEMMA BumpType ==
    ASSUME dirty \in [Codes -> Nat], served \in [Codes -> Nat], NEW c \in Codes, Bump(c)
    PROVE  dirty' \in [Codes -> Nat] /\ served' \in [Codes -> Nat]
BY DEF Bump

LEMMA InitType == Init => TypeInv
<1> SUFFICES ASSUME Init PROVE TypeInv
  OBVIOUS
<1>1. row \in [Codes -> Rows \cup {None}]
  <2>1. PICK u \in Urls, ttl \in TTLs, v \in Formats :
          row = [c \in Codes |-> IF c \in Old THEN [u |-> u, e |-> Until(ttl), v |-> v] ELSE None]
    BY DEF Init
  <2>2. Until(ttl) \in Nat
    BY UntilType, RocksAssumption DEF Init
  <2> QED BY <2>1, <2>2 DEF Rows
<1>2. CacheOK(cache)
  BY NoCacheOK DEF Init
<1>3. grants \in [Codes -> Nat]
  BY DEF Init
<1>4. RequestOK
  BY IdleType DEF Init, RequestOK
<1>5. spent \in [Kinds -> Nat] /\ now \in 0..MaxNow
  BY RocksAssumption DEF Init
<1>6. TypeOK
  BY <1>1, <1>2, <1>5, IdleType DEF Init, TypeOK, CacheOK, NoHits, Steps
<1> QED BY <1>1, <1>2, <1>3, <1>4, <1>6 DEF Init, TypeInv, HistoryOK, CacheConsistent, CacheOK, NoHits

(* What a typed state gives, in the form the steps below use.              *)
LEMMA TypeFacts ==
    ASSUME TypeInv
    PROVE  /\ now \in Nat /\ now \in 0..MaxNow /\ spent \in [Kinds -> Nat]
           /\ row \in [Codes -> Rows \cup {None}]
           /\ count \in [Codes -> Nat] /\ dirty \in [Codes -> Nat]
           /\ mode \in {"up", "join", "last", "closed", "down"}
           /\ CacheOK(cache) /\ cache.map \in [Codes -> Entries \cup {None}]
           /\ batch \in [Flushers -> [Codes -> Nat] \cup {None}]
           /\ lock \in Threads \cup {None}
           /\ pc \in [Threads -> Steps] /\ req \in [Threads -> Reqs]
           /\ HistoryOK /\ RequestOK
           /\ \A t \in Threads : Fits(pc[t], req[t]) /\ req[t] \in Reqs /\ pc[t] \in Steps
BY RocksAssumption DEF TypeInv, TypeOK, CacheOK, CacheConsistent, RequestOK, Shards

(* And what makes one.                                                     *)
LEMMA TypeFrom ==
    ASSUME now' \in 0..MaxNow, spent' \in [Kinds -> Nat], row' \in [Codes -> Rows \cup {None}],
           count' \in [Codes -> Nat], dirty' \in [Codes -> Nat],
           mode' \in {"up", "join", "last", "closed", "down"}, CacheOK(cache)',
           batch' \in [Flushers -> [Codes -> Nat] \cup {None}], lock' \in Threads \cup {None},
           pc' \in [Threads -> Steps], req' \in [Threads -> Reqs], HistoryOK', RequestOK'
    PROVE  TypeInv'
BY DEF TypeInv, TypeOK, CacheOK, CacheConsistent

(* Steps that leave the requests alone, and steps that leave the history.  *)
LEMMA SameRequests == ASSUME RequestOK, UNCHANGED <<pc, req>> PROVE RequestOK'
BY DEF RequestOK, Fits

LEMMA SameHistory == ASSUME HistoryOK, UNCHANGED <<history, served>> PROVE HistoryOK'
BY DEF HistoryOK, history

LEMMA NewCache == ASSUME NEW s, CacheOK(s), cache' = s PROVE CacheOK(cache)'
BY DEF CacheOK, Consistent

LEMMA SameCache == ASSUME CacheOK(cache), UNCHANGED cache PROVE CacheOK(cache)'
BY DEF CacheOK, Consistent

-----------------------------------------------------------------------------
LEMMA RequestType ==
    ASSUME TypeInv, NEW t \in Threads, Request(t)
    PROVE  TypeInv'
<1>0. TypeInv
  OBVIOUS
<1>f. /\ now \in Nat /\ now \in 0..MaxNow /\ spent \in [Kinds -> Nat]
      /\ row \in [Codes -> Rows \cup {None}]
      /\ count \in [Codes -> Nat] /\ dirty \in [Codes -> Nat]
      /\ mode \in {"up", "join", "last", "closed", "down"}
      /\ CacheOK(cache) /\ batch \in [Flushers -> [Codes -> Nat] \cup {None}]
      /\ lock \in Threads \cup {None}
      /\ pc \in [Threads -> Steps] /\ req \in [Threads -> Reqs]
      /\ HistoryOK /\ RequestOK
  BY TypeFacts
<1>1. ASSUME NEW c \in Codes, ResolveHit(t, c) PROVE TypeInv'
  <2>1. spent' \in [Kinds -> Nat]
    BY <1>1, <1>f, SpendType DEF ResolveHit, Kinds
  <2>2. dirty' \in [Codes -> Nat] /\ served' \in [Codes -> Nat]
    BY <1>1, <1>f, BumpType DEF ResolveHit, HistoryOK
  <2>3. HistoryOK'
    BY <1>1, <1>f, <2>2 DEF ResolveHit, HistoryOK, history
  <2> QED BY <1>1, <1>f, <2>1, <2>2, <2>3, SameRequests, SameCache, TypeFrom DEF ResolveHit, Bump
<1>2. ASSUME NEW c \in Codes, ResolveMiss(t, c) PROVE TypeInv'
  <2>1. spent' \in [Kinds -> Nat]
    BY <1>2, <1>f, SpendType DEF ResolveMiss, Kinds
  <2> DEFINE r == [Idle EXCEPT !.k = "resolve", !.c = c]
  <2>2. r \in Reqs /\ Fits("get", r) /\ "get" \in Steps
    BY DEF Idle, Reqs, Fits, Steps
  <2>3. pc' \in [Threads -> Steps] /\ req' \in [Threads -> Reqs] /\ RequestOK'
    BY <1>2, <1>f, <2>2, GoType DEF ResolveMiss
  <2>4. CacheOK(cache)'
    BY <1>2, <1>f, LookedOK, NewCache DEF ResolveMiss
  <2> QED BY <1>2, <1>f, <2>1, <2>3, <2>4, SameHistory, TypeFrom DEF ResolveMiss, hits
<1>3. ASSUME NEW c \in Codes, NEW k \in {"remove", "stats"}, Ask(t, k, c, None, None) PROVE TypeInv'
  <2>1. spent' \in [Kinds -> Nat]
    BY <1>3, <1>f, SpendType DEF Ask, Kinds
  <2> DEFINE r == [Idle EXCEPT !.k = k, !.c = c, !.u = None, !.ttl = None]
  <2>2. r \in Reqs /\ Fits("get", r) /\ "get" \in Steps
    BY DEF Idle, Reqs, Fits, Steps
  <2>3. pc' \in [Threads -> Steps] /\ req' \in [Threads -> Reqs] /\ RequestOK'
    BY <1>3, <1>f, <2>2, GoType DEF Ask
  <2> QED BY <1>3, <1>f, <2>1, <2>3, SameHistory, SameCache, TypeFrom DEF Ask, hits
<1>4. ASSUME NEW c \in Codes, NEW u \in Urls, NEW ttl \in TTLs \cup {None}, Ask(t, "update", c, u, ttl)
      PROVE  TypeInv'
  <2>1. spent' \in [Kinds -> Nat]
    BY <1>4, <1>f, SpendType DEF Ask, Kinds
  <2> DEFINE r == [Idle EXCEPT !.k = "update", !.c = c, !.u = u, !.ttl = ttl]
  <2>2. r \in Reqs /\ Fits("get", r) /\ "get" \in Steps
    BY RocksAssumption DEF Idle, Reqs, Fits, Steps
  <2>3. pc' \in [Threads -> Steps] /\ req' \in [Threads -> Reqs] /\ RequestOK'
    BY <1>4, <1>f, <2>2, GoType DEF Ask
  <2> QED BY <1>4, <1>f, <2>1, <2>3, SameHistory, SameCache, TypeFrom DEF Ask, hits
<1>5. ASSUME NEW u \in Urls, NEW ttl \in TTLs, NEW c \in Codes \cup {None}, Shorten(t, c, u, ttl)
      PROVE  TypeInv'
  <2>1. spent' \in [Kinds -> Nat] /\ ttl \in Nat /\ Until(ttl) \in Nat
    BY <1>5, <1>f, SpendType, UntilType, RocksAssumption DEF Shorten, Kinds
  <2> DEFINE k == IF c = None THEN "gen" ELSE "alias"
             r == [Idle EXCEPT !.k = k, !.c = c, !.u = u, !.e = Until(ttl), !.ttl = ttl]
  <2>2. r \in Reqs /\ Fits("nx", r) /\ "nx" \in Steps
    BY <2>1 DEF Idle, Reqs, Fits, Steps
  <2>3. pc' \in [Threads -> Steps] /\ req' \in [Threads -> Reqs] /\ RequestOK'
    BY <1>5, <1>f, <2>2, GoType DEF Shorten
  <2> QED BY <1>5, <1>f, <2>1, <2>3, SameHistory, SameCache, TypeFrom DEF Shorten, hits
<1>6. ASSUME NEW u \in Urls, NEW ttl \in TTLs, NEW S \in SUBSET Generated \ {{}}, Bulk(t, S, u, ttl)
      PROVE  TypeInv'
  <2>0. S \in SUBSET Codes /\ ttl \in Nat /\ Until(ttl) \in Nat
    BY <1>f, UntilType, RocksAssumption
  <2>1. /\ CacheOK(cache)'
        /\ UNCHANGED <<now, count, mode, cache, hits, lock>>
    BY <1>6, <1>f, SameCache DEF Bulk
  <2>2. CASE /\ Spend("op")
             /\ Write(t, S, [u |-> u, e |-> Until(ttl), v |-> "v1"], TRUE)
             /\ Grant(S)
             /\ blind' = blind \cup {c \in S : row[c] # None \/ AtWork(t, c)}
             /\ UNCHANGED <<pc, req>>
    <3>1. spent' \in [Kinds -> Nat]
      BY <1>f, <2>2, SpendType DEF Kinds
    <3>2. [u |-> u, e |-> Until(ttl), v |-> "v1"] \in Rows
      BY <2>0 DEF Rows, Formats
    <3>3. /\ row' \in [Codes -> Rows \cup {None}]
          /\ acked' \in [Codes -> Rows \cup {None}] /\ raced' \subseteq Codes
      BY <1>f, <2>0, <2>2, <3>2, WriteType
    <3>4. grants' \in [Codes -> Nat]
      BY <1>f, <2>2, GrantType DEF HistoryOK
    <3>5. HistoryOK'
      BY <1>f, <2>0, <2>1, <2>2, <3>3, <3>4 DEF HistoryOK, hits
    <3> QED BY <1>f, <2>1, <2>2, <3>1, <3>3, <3>5, SameRequests, TypeFrom DEF hits
  <2>3. CASE /\ Spend("fault")
             /\ Go(t, "nx", [Idle EXCEPT !.k = "each", !.u = u, !.e = Until(ttl), !.ttl = ttl,
                                         !.todo = S, !.all = Until(ttl)])
             /\ UNCHANGED <<row, history>>
    <3>1. spent' \in [Kinds -> Nat]
      BY <1>f, <2>3, SpendType DEF Kinds
    <3> DEFINE r == [Idle EXCEPT !.k = "each", !.u = u, !.e = Until(ttl), !.ttl = ttl, !.todo = S,
                                 !.all = Until(ttl)]
    <3>2. r \in Reqs /\ Fits("nx", r) /\ "nx" \in Steps
      BY <2>0 DEF Idle, Reqs, Fits, Steps
    <3>3. pc' \in [Threads -> Steps] /\ req' \in [Threads -> Reqs] /\ RequestOK'
      BY <1>f, <2>3, <3>2, GoType
    <3> QED BY <1>f, <2>1, <2>3, <3>1, <3>3, SameHistory, TypeFrom DEF hits
  <2> QED BY <1>6, <2>2, <2>3 DEF Bulk
<1> QED BY <1>1, <1>2, <1>3, <1>4, <1>5, <1>6 DEF Request

(* What a call of put_nx goes on to.                                       *)
LEMMA SettledType ==
    ASSUME TypeInv, NEW t \in Threads, pc[t] \in {"nx", "nxput"}, NEW c, Settled(t, c)
    PROVE  /\ pc' \in [Threads -> Steps] /\ req' \in [Threads -> Reqs] /\ RequestOK'
           /\ pc'[t] \in {"idle", "nx"}
           /\ \A o \in Threads \ {t} : pc'[o] = pc[o] /\ req'[o] = req[o]
<1>1. /\ pc \in [Threads -> Steps] /\ req \in [Threads -> Reqs] /\ RequestOK
      /\ Fits(pc[t], req[t]) /\ req[t] \in Reqs
  BY TypeFacts
<1> DEFINE rest == req[t].todo \ {c}
           r == [req[t] EXCEPT !.k = "each", !.c = None, !.e = req[t].all, !.todo = rest]
<1>2. r \in Reqs /\ Fits("nx", r) /\ "nx" \in Steps
  BY <1>1 DEF Reqs, Fits, Steps
<1> HIDE DEF r
<1>3. CASE Done(t)
  BY <1>1, <1>3, DoneType
<1>4. CASE Go(t, "nx", r)
  BY <1>1, <1>2, <1>4, GoType
<1> QED BY <1>3, <1>4 DEF Settled, r

LEMMA RefusedType ==
    ASSUME TypeInv, NEW t \in Threads, pc[t] \in {"nx", "nxput"}, NEW c, Refused(t, c)
    PROVE  /\ pc' \in [Threads -> Steps] /\ req' \in [Threads -> Reqs] /\ RequestOK'
           /\ pc'[t] \in {"idle", "nx"}
           /\ \A o \in Threads \ {t} : pc'[o] = pc[o] /\ req'[o] = req[o]
<1>1. /\ pc \in [Threads -> Steps] /\ req \in [Threads -> Reqs] /\ RequestOK /\ now \in Nat
      /\ Fits(pc[t], req[t]) /\ req[t] \in Reqs
  BY TypeFacts
<1>2. CASE Done(t)
  BY <1>1, <1>2, DoneType
<1>3. CASE req[t].k = "gen" /\ Go(t, "nx", [req[t] EXCEPT !.c = None])
  <2>1. [req[t] EXCEPT !.c = None] \in Reqs /\ Fits("nx", [req[t] EXCEPT !.c = None])
    BY <1>1, <1>3 DEF Reqs, Fits
  <2> QED BY <1>1, <1>3, <2>1, GoType DEF Steps
<1>4. CASE Go(t, "nx", [req[t] EXCEPT !.k = "gen", !.c = None, !.e = Until(req[t].ttl),
                                      !.todo = @ \ {c}])
  <2> DEFINE r == [req[t] EXCEPT !.k = "gen", !.c = None, !.e = Until(req[t].ttl), !.todo = @ \ {c}]
  <2>1. Until(req[t].ttl) \in Nat
    BY <1>1, UntilType DEF Fits
  <2>2. r \in Reqs /\ Fits("nx", r)
    BY <1>1, <2>1 DEF Reqs, Fits
  <2> HIDE DEF r
  <2>3. Go(t, "nx", r)
    BY <1>4 DEF r
  <2> QED BY <1>1, <2>2, <2>3, GoType DEF Steps
<1> QED BY <1>2, <1>3, <1>4 DEF Refused

LEMMA StepType ==
    ASSUME TypeInv, NEW t \in Threads, ThreadStep(t)
    PROVE  TypeInv'
<1>f. /\ now \in Nat /\ now \in 0..MaxNow /\ spent \in [Kinds -> Nat]
      /\ row \in [Codes -> Rows \cup {None}]
      /\ count \in [Codes -> Nat] /\ dirty \in [Codes -> Nat]
      /\ mode \in {"up", "join", "last", "closed", "down"}
      /\ CacheOK(cache) /\ batch \in [Flushers -> [Codes -> Nat] \cup {None}]
      /\ lock \in Threads \cup {None}
      /\ pc \in [Threads -> Steps] /\ req \in [Threads -> Reqs]
      /\ HistoryOK /\ RequestOK
  BY TypeFacts
<1>r. Fits(pc[t], req[t]) /\ req[t] \in Reqs
  BY TypeFacts
<1>1. CASE RowGet(t)
  <2>1. PICK o \in Outcomes :
          /\ Cost(o)
          /\ LET x == row[req[t].c]
             IN  IF o = "ok" /\ x # None
                 THEN Go(t, "check", [req[t] EXCEPT !.e = x.e,
                                                    !.u = IF req[t].k = "resolve" THEN x.u ELSE @])
                 ELSE Done(t)
    BY <1>1 DEF RowGet
  <2>2. spent' \in [Kinds -> Nat]
    BY <1>f, <2>1, CostType
  <2>3. pc' \in [Threads -> Steps] /\ req' \in [Threads -> Reqs] /\ RequestOK'
    <3> DEFINE x == row[req[t].c]
               r == [req[t] EXCEPT !.e = x.e, !.u = IF req[t].k = "resolve" THEN x.u ELSE @]
    <3>1. CASE Done(t)
      BY <1>f, <3>1, DoneType
    <3>2. CASE x # None /\ Go(t, "check", r)
      <4>1. req[t].c \in Codes /\ x \in Rows
        BY <1>1, <1>f, <1>r, <3>2 DEF RowGet, Fits
      <4>2. r \in Reqs /\ Fits("check", r) /\ "check" \in Steps
        BY <1>1, <1>r, <4>1 DEF RowGet, Reqs, Rows, Fits, Steps
      <4> HIDE DEF r
      <4> QED BY <1>f, <3>2, <4>2, GoType
    <3> QED BY <2>1, <3>1, <3>2
  <2> QED BY <1>1, <1>f, <2>2, <2>3, SameHistory, SameCache, TypeFrom DEF RowGet, hits
<1>2. CASE RowCheck(t)
  <2>1. pc' \in [Threads -> Steps] /\ req' \in [Threads -> Reqs] /\ RequestOK'
    <3>1. CASE Go(t, "reap", req[t])
      <4>1. Fits("reap", req[t]) /\ "reap" \in Steps
        BY <1>2, <1>r DEF RowCheck, Fits, Steps
      <4> QED BY <1>f, <1>r, <3>1, <4>1, GoType
    <3>2. CASE Done(t)
      BY <1>f, <3>2, DoneType
    <3>3. CASE Go(t, "del", req[t])
      <4>1. Fits("del", req[t]) /\ "del" \in Steps
        BY <1>2, <1>r DEF RowCheck, Fits, Steps
      <4> QED BY <1>f, <1>r, <3>3, <4>1, GoType
    <3>4. CASE /\ req[t].k = "update"
               /\ Go(t, "put", [req[t] EXCEPT !.e = IF req[t].ttl = None THEN @ ELSE now + req[t].ttl])
      <4> DEFINE e == IF req[t].ttl = None THEN req[t].e ELSE now + req[t].ttl
                 r == [req[t] EXCEPT !.e = IF req[t].ttl = None THEN @ ELSE now + req[t].ttl]
      <4>1. r \in Reqs
        <5>1. e \in Nat /\ r = [req[t] EXCEPT !.e = e]
          BY <1>f, <1>r DEF Reqs
        <5> HIDE DEF e, r
        <5> QED BY <1>r, <5>1 DEF Reqs
      <4>2. Fits("put", r) /\ "put" \in Steps
        BY <1>2, <1>r, <3>4 DEF RowCheck, Reqs, Fits, Steps
      <4> HIDE DEF r
      <4>3. Go(t, "put", r)
        BY <3>4 DEF r
      <4> QED BY <1>f, <4>1, <4>2, <4>3, GoType
    <3> QED BY <1>2, <3>1, <3>2, <3>3, <3>4 DEF RowCheck
  <2> QED BY <1>2, <1>f, <2>1, SameHistory, SameCache, TypeFrom DEF RowCheck, hits
<1>3. CASE Reap(t)
  <2>1. PICK o \in Outcomes : Cost(o) /\ Write(t, {c \in {req[t].c} : o = "ok"}, None, FALSE)
    BY <1>3 DEF Reap
  <2>2. spent' \in [Kinds -> Nat]
    BY <1>f, <2>1, CostType
  <2>3. req[t].c \in Codes
    BY <1>3, <1>r DEF Reap, Fits
  <2>4. /\ row' \in [Codes -> Rows \cup {None}]
        /\ acked' \in [Codes -> Rows \cup {None}] /\ raced' \subseteq Codes
    BY <1>f, <2>1, <2>3, WriteType
  <2>5. pc' \in [Threads -> Steps] /\ req' \in [Threads -> Reqs] /\ RequestOK'
    BY <1>3, <1>f, DoneType DEF Reap
  <2>6. HistoryOK'
    BY <1>3, <1>f, <2>4 DEF Reap, HistoryOK, hits
  <2> QED BY <1>3, <1>f, <2>2, <2>4, <2>5, <2>6, SameCache, TypeFrom DEF Reap, hits
<1>4. CASE Fill(t)
  <2>1. req[t].c \in Codes
    BY <1>4, <1>r DEF Fill, Fits
  <2>2. dirty' \in [Codes -> Nat] /\ served' \in [Codes -> Nat] /\ UNCHANGED batch
    BY <1>4, <1>f, <2>1, BumpType DEF Fill, HistoryOK, Bump
  <2>3. pc' \in [Threads -> Steps] /\ req' \in [Threads -> Reqs] /\ RequestOK'
    BY <1>4, <1>f, DoneType DEF Fill
  <2>4. CacheOK(cache)'
    <3> DEFINE x == [u |-> req[t].u, e |-> req[t].e, at |-> now]
    <3>1. x \in Entries
      BY <1>4, <1>f, <1>r DEF Fill, Fits, Reqs, Entries
    <3> HIDE DEF x
    <3>2. cache' = With(cache, req[t].c, x)
      BY <1>4 DEF Fill, x
    <3>3. CacheOK(With(cache, req[t].c, x))
      BY <1>f, <2>1, <3>1, WithOK, RocksAssumption
    <3> QED BY <3>2, <3>3, NewCache
  <2>5. HistoryOK'
    BY <1>4, <1>f, <2>2 DEF Fill, HistoryOK, history
  <2> QED BY <1>4, <1>f, <2>2, <2>3, <2>4, <2>5, TypeFrom DEF Fill
<1>5. CASE Put(t)
  <2> DEFINE x == [u |-> req[t].u, e |-> req[t].e, v |-> "v1"]
  <2>1. PICK o \in Outcomes :
          /\ Cost(o)
          /\ Write(t, {c \in {req[t].c} : o = "ok"}, x, TRUE)
          /\ Grant({})
          /\ IF o = "ok" THEN Go(t, "forget", req[t]) ELSE Done(t)
    BY <1>5 DEF Put
  <2>2. spent' \in [Kinds -> Nat]
    BY <1>f, <2>1, CostType
  <2>3. req[t].c \in Codes /\ x \in Rows
    BY <1>5, <1>r DEF Put, Fits, Rows, Reqs, Formats
  <2> HIDE DEF x
  <2>4. /\ row' \in [Codes -> Rows \cup {None}]
        /\ acked' \in [Codes -> Rows \cup {None}] /\ raced' \subseteq Codes
    BY <1>f, <2>1, <2>3, WriteType
  <2>5. pc' \in [Threads -> Steps] /\ req' \in [Threads -> Reqs] /\ RequestOK'
    <3>1. Fits("forget", req[t]) /\ "forget" \in Steps
      BY <2>3 DEF Fits, Steps
    <3> QED BY <1>f, <1>r, <2>1, <3>1, GoType, DoneType
  <2>6. grants' \in [Codes -> Nat]
    BY <1>f, <2>1, GrantType DEF HistoryOK
  <2>7. HistoryOK'
    BY <1>5, <1>f, <2>4, <2>6 DEF Put, HistoryOK, hits
  <2> QED BY <1>5, <1>f, <2>2, <2>4, <2>5, <2>7, SameCache, TypeFrom DEF Put, hits
<1>6. CASE Del(t)
  <2>1. PICK o \in Outcomes :
          /\ Cost(o)
          /\ Write(t, {c \in {req[t].c} : o = "ok"}, None, TRUE)
          /\ count' = IF o = "ok" THEN [count EXCEPT ![req[t].c] = 0] ELSE count
          /\ IF o = "ok" THEN Go(t, "forget", req[t]) ELSE Done(t)
    BY <1>6 DEF Del
  <2>2. spent' \in [Kinds -> Nat] /\ count' \in [Codes -> Nat]
    BY <1>f, <2>1, CostType
  <2>3. req[t].c \in Codes
    BY <1>6, <1>r DEF Del, Fits
  <2>4. /\ row' \in [Codes -> Rows \cup {None}]
        /\ acked' \in [Codes -> Rows \cup {None}] /\ raced' \subseteq Codes
    BY <1>f, <2>1, <2>3, WriteType
  <2>5. pc' \in [Threads -> Steps] /\ req' \in [Threads -> Reqs] /\ RequestOK'
    <3>1. Fits("forget", req[t]) /\ "forget" \in Steps
      BY <2>3 DEF Fits, Steps
    <3> QED BY <1>f, <1>r, <2>1, <3>1, GoType, DoneType
  <2>6. HistoryOK'
    BY <1>6, <1>f, <2>4 DEF Del, HistoryOK, hits
  <2> QED BY <1>6, <1>f, <2>2, <2>4, <2>5, <2>6, SameCache, TypeFrom DEF Del, hits
<1>7. CASE Forget(t)
  <2>1. CacheOK(Without(cache, req[t].c))
    BY <1>7, <1>f, <1>r, WithoutOK DEF Forget, Fits
  <2>2. CacheOK(cache)'
    BY <1>7, <2>1, NewCache DEF Forget, Forgotten
  <2>3. pc' \in [Threads -> Steps] /\ req' \in [Threads -> Reqs] /\ RequestOK'
    BY <1>7, <1>f, DoneType DEF Forget
  <2> QED BY <1>7, <1>f, <2>2, <2>3, SameHistory, TypeFrom DEF Forget, hits
<1>8. CASE NxGet(t)
  <2>1. PICK c \in Tries(t), o \in Outcomes :
          /\ Cost(o)
          /\ \/ o = "fail" /\ Refused(t, c) /\ UNCHANGED <<lock, blind, grants>>
             \/ /\ o = "ok" /\ Taken(c)
                /\ IF req[t].k = "each"
                   THEN Settled(t, c) /\ Grant({c}) /\ blind' = blind \cup {c}
                   ELSE Refused(t, c) /\ UNCHANGED <<blind, grants>>
                /\ UNCHANGED lock
             \/ /\ o = "ok" /\ ~ Taken(c)
                /\ lock' = t
                /\ Go(t, "nxput", [req[t] EXCEPT !.c = c])
                /\ UNCHANGED <<blind, grants>>
    BY <1>8 DEF NxGet
  <2>2. spent' \in [Kinds -> Nat]
    BY <1>f, <2>1, CostType
  <2>3. c \in Codes
    BY <1>8, <1>r, <2>1, RocksAssumption DEF NxGet, Tries, Fits, Reqs
  <2>4. lock' \in Threads \cup {None}
    BY <1>f, <2>1
  <2>5. pc' \in [Threads -> Steps] /\ req' \in [Threads -> Reqs] /\ RequestOK'
    <3>1. pc[t] \in {"nx", "nxput"}
      BY <1>8 DEF NxGet
    <3>2. CASE Refused(t, c)
      BY <3>1, <3>2, RefusedType
    <3>3. CASE Settled(t, c)
      BY <3>1, <3>3, SettledType
    <3>4. CASE Go(t, "nxput", [req[t] EXCEPT !.c = c])
      <4> DEFINE r == [req[t] EXCEPT !.c = c]
      <4>1. r \in Reqs /\ Fits("nxput", r) /\ "nxput" \in Steps
        BY <1>8, <1>r, <2>3 DEF NxGet, Reqs, Fits, Steps
      <4> HIDE DEF r
      <4>2. Go(t, "nxput", r)
        BY <3>4 DEF r
      <4> QED BY <1>f, <4>1, <4>2, GoType
    <3> QED BY <2>1, <3>2, <3>3, <3>4
  <2>6. blind' \subseteq Codes /\ grants' \in [Codes -> Nat]
    BY <1>f, <2>1, <2>3, GrantType DEF HistoryOK
  <2>7. HistoryOK'
    BY <1>8, <1>f, <2>6 DEF NxGet, HistoryOK, hits
  <2> QED BY <1>8, <1>f, <2>2, <2>4, <2>5, <2>7, SameCache, TypeFrom DEF NxGet, hits
<1>9. CASE NxPut(t)
  <2> DEFINE c == req[t].c
             x == [u |-> req[t].u, e |-> req[t].e, v |-> "v1"]
  <2>1. PICK o \in Outcomes :
          /\ Cost(o)
          /\ Write(t, {d \in {c} : o = "ok"}, x, TRUE)
          /\ IF o = "ok" THEN Settled(t, c) /\ Grant({c}) ELSE Refused(t, c) /\ UNCHANGED grants
    BY <1>9 DEF NxPut
  <2>2. spent' \in [Kinds -> Nat]
    BY <1>f, <2>1, CostType
  <2>3. c \in Codes /\ x \in Rows
    BY <1>9, <1>r DEF NxPut, Fits, Rows, Reqs, Formats
  <2> HIDE DEF x, c
  <2>4. /\ row' \in [Codes -> Rows \cup {None}]
        /\ acked' \in [Codes -> Rows \cup {None}] /\ raced' \subseteq Codes
    BY <1>f, <2>1, <2>3, WriteType
  <2>5. pc' \in [Threads -> Steps] /\ req' \in [Threads -> Reqs] /\ RequestOK'
    <3>1. pc[t] \in {"nx", "nxput"}
      BY <1>9 DEF NxPut
    <3> QED BY <2>1, <3>1, RefusedType, SettledType
  <2>6. grants' \in [Codes -> Nat]
    BY <1>f, <2>1, GrantType DEF HistoryOK
  <2>7. HistoryOK'
    BY <1>9, <1>f, <2>4, <2>6 DEF NxPut, HistoryOK, hits
  <2> QED BY <1>9, <1>f, <2>2, <2>4, <2>5, <2>7, SameCache, TypeFrom DEF NxPut, hits
<1> QED BY <1>1, <1>2, <1>3, <1>4, <1>5, <1>6, <1>7, <1>8, <1>9 DEF ThreadStep

-----------------------------------------------------------------------------
LEMMA NextType ==
    ASSUME TypeInv, [Next]_vars
    PROVE  TypeInv'
<1>f. /\ now \in Nat /\ now \in 0..MaxNow /\ spent \in [Kinds -> Nat]
      /\ row \in [Codes -> Rows \cup {None}]
      /\ count \in [Codes -> Nat] /\ dirty \in [Codes -> Nat]
      /\ mode \in {"up", "join", "last", "closed", "down"}
      /\ CacheOK(cache) /\ batch \in [Flushers -> [Codes -> Nat] \cup {None}]
      /\ lock \in Threads \cup {None}
      /\ pc \in [Threads -> Steps] /\ req \in [Threads -> Reqs]
      /\ HistoryOK /\ RequestOK
  BY TypeFacts
<1>n. NoHits \in [Codes -> Nat]
  BY DEF NoHits
<1>1. CASE Tick
  <2>1. now' \in 0..MaxNow
    BY <1>1, <1>f, RocksAssumption DEF Tick
  <2> QED BY <1>1, <1>f, <2>1, SameRequests, SameHistory, SameCache, TypeFrom DEF Tick, hits
<1>2. ASSUME NEW f \in Flushers, FlushTake(f) PROVE TypeInv'
  <2>1. batch' \in [Flushers -> [Codes -> Nat] \cup {None}] /\ dirty' \in [Codes -> Nat]
    BY <1>2, <1>f, <1>n DEF FlushTake
  <2> QED BY <1>2, <1>f, <2>1, SameRequests, SameHistory, SameCache, TypeFrom DEF FlushTake
<1>3. ASSUME NEW f \in Flushers, FlushWrite(f) PROVE TypeInv'
  <2>1. PICK o \in Outcomes :
          /\ Cost(o)
          /\ count' = IF o = "ok" THEN [c \in Codes |-> count[c] + batch[f][c]] ELSE count
    BY <1>3 DEF FlushWrite
  <2>2. spent' \in [Kinds -> Nat]
    BY <1>f, <2>1, CostType
  <2>3. batch[f] \in [Codes -> Nat]
    BY <1>3, <1>f DEF FlushWrite
  <2>4. \A c \in Codes : count[c] + batch[f][c] \in Nat
    BY <1>f, <2>3
  <2>5. count' \in [Codes -> Nat]
    BY <1>f, <2>1, <2>4
  <2>6. batch' \in [Flushers -> [Codes -> Nat] \cup {None}]
    BY <1>3, <1>f DEF FlushWrite, Unwritten
  <2> QED BY <1>3, <1>f, <2>2, <2>5, <2>6, SameRequests, SameHistory, SameCache, TypeFrom
          DEF FlushWrite
<1>4. CASE Compact
  <2>1. row' \in [Codes -> Rows \cup {None}]
    BY <1>4, <1>f DEF Compact
  <2> QED BY <1>4, <1>f, <2>1, SameRequests, SameHistory, SameCache, TypeFrom DEF Compact, hits
<1>5. CASE Close
  <2>1. spent' \in [Kinds -> Nat]
    BY <1>5, <1>f, SpendType DEF Close, Kinds
  <2> QED BY <1>5, <1>f, <2>1, SameRequests, SameHistory, SameCache, TypeFrom DEF Close, hits
<1>6. CASE End
  <2>1. spent' \in [Kinds -> Nat]
    BY <1>6, <1>f, SpendType DEF End, Kinds
  <2>2. CacheOK(cache)'
    BY <1>6, NoCacheOK, NewCache DEF End
  <2>3. pc' \in [Threads -> Steps] /\ req' \in [Threads -> Reqs]
    BY <1>6, IdleType DEF End, Steps
  <2>4. \A t \in Threads : pc'[t] = "idle" /\ req'[t] = Idle
    BY <1>6 DEF End
  <2>5. RequestOK'
    BY <2>4, IdleType DEF RequestOK, Fits
  <2>6. batch' \in [Flushers -> [Codes -> Nat] \cup {None}] /\ dirty' \in [Codes -> Nat]
    BY <1>6, <1>n DEF End
  <2> QED BY <1>6, <1>f, <2>1, <2>2, <2>3, <2>5, <2>6, SameHistory, TypeFrom DEF End
<1>7. CASE Open
  BY <1>7, <1>f, SameRequests, SameHistory, SameCache, TypeFrom DEF Open, hits
<1>8. CASE UNCHANGED vars
  BY <1>8, <1>f, SameRequests, SameHistory, SameCache, TypeFrom DEF vars, hits, history
<1> QED BY <1>1, <1>2, <1>3, <1>4, <1>5, <1>6, <1>7, <1>8, RequestType, StepType DEF Next

LEMMA TypeHolds == Spec => []TypeInv
<1>1. Init => TypeInv
  BY InitType
<1>2. TypeInv /\ [Next]_vars => TypeInv'
  BY NextType
<1> QED BY <1>1, <1>2, PTL DEF Spec

(* Every variable of the engine keeps its type, and the cache never grows  *)
(* past its size, whatever threads, timers and faults do.                  *)
THEOREM RocksTypes == Spec => []TypeOK
<1>1. TypeInv => TypeOK
  BY DEF TypeInv
<1> QED BY <1>1, TypeHolds, PTL

(* The queue and the map of the cache always hold the same codes, each     *)
(* once: put never evicts the wrong entry and none is out of its reach.    *)
THEOREM RocksCacheConsistent == Spec => []CacheConsistent
<1>1. TypeInv => CacheConsistent
  BY DEF TypeInv
<1> QED BY <1>1, TypeHolds, PTL

-----------------------------------------------------------------------------
(* Hits.                                                                   *)

LEMMA FlushersFinite == IsFiniteSet(Flushers)
<1>1. IsFiniteSet({"timer"})
  BY FS_Singleton
<1>2. IsFiniteSet({"timer"} \cup {"list"})
  BY <1>1, FS_AddElement
<1>3. IsFiniteSet(({"timer"} \cup {"list"}) \cup {"close"})
  BY <1>2, FS_AddElement
<1>4. Flushers = ({"timer"} \cup {"list"}) \cup {"close"}
  BY DEF Flushers
<1> QED BY <1>3, <1>4

LEMMA FlusherSum ==
    ASSUME NEW w \in [Flushers -> Nat], NEW v \in [Flushers -> Nat], NEW f \in Flushers,
           \A g \in Flushers \ {f} : v[g] = w[g]
    PROVE  /\ SumFunction(v) \in Nat /\ SumFunction(w) \in Nat
           /\ SumFunction(v) + w[f] = SumFunction(w) + v[f]
BY FlushersFinite, SumUpdate

LEMMA InBatchesType ==
    ASSUME batch \in [Flushers -> [Codes -> Nat] \cup {None}], NEW c \in Codes
    PROVE  /\ InBatches(c) \in [Flushers -> Nat]
           /\ SumFunction(InBatches(c)) \in Nat
<1>1. \A f \in Flushers : (IF batch[f] = None THEN 0 ELSE batch[f][c]) \in Nat
  OBVIOUS
<1>2. InBatches(c) \in [Flushers -> Nat]
  BY <1>1 DEF InBatches
<1>3. "timer" \in Flushers
  BY DEF Flushers
<1> QED BY <1>2, <1>3, FlushersFinite, SumUpdate

(* A step that neither counts, takes nor writes hits leaves them alone, or *)
(* deletes a counter.                                                      *)
LEMMA HitsAlone ==
    ASSUME TypeInv, HitsNeverDoubled, UNCHANGED hits, count' \in [Codes -> Nat],
           \A c \in Codes : count'[c] <= count[c]
    PROVE  HitsNeverDoubled'
<1> SUFFICES ASSUME NEW c \in Codes
             PROVE  count'[c] + dirty'[c] + SumFunction(InBatches(c))' <= served'[c]
  BY DEF HitsNeverDoubled
<1>1. InBatches(c)' = InBatches(c) /\ dirty' = dirty /\ served' = served
  BY DEF InBatches, hits
<1>2. SumFunction(InBatches(c))' = SumFunction(InBatches(c))
  <2>1. SumFunction(InBatches(c)') = SumFunction(InBatches(c))
    BY <1>1
  <2> QED BY <2>1 DEF SumFunction, SumFunctionOnSet, FoldFunctionOnSet, MapThenFoldSet
<1>3. /\ count[c] \in Nat /\ count'[c] \in Nat /\ dirty[c] \in Nat /\ served[c] \in Nat
      /\ SumFunction(InBatches(c)) \in Nat
      /\ count[c] + dirty[c] + SumFunction(InBatches(c)) <= served[c]
  BY TypeFacts, InBatchesType DEF HistoryOK, HitsNeverDoubled
<1> QED BY <1>1, <1>2, <1>3

(* The flusher f alone has a new batch: the sum moves by the difference.   *)
LEMMA InBatchesMove ==
    ASSUME batch \in [Flushers -> [Codes -> Nat] \cup {None}], NEW f \in Flushers,
           NEW b \in [Codes -> Nat] \cup {None}, batch' = [batch EXCEPT ![f] = b], NEW c \in Codes
    PROVE  /\ SumFunction(InBatches(c))' \in Nat
           /\ SumFunction(InBatches(c))' + (IF batch[f] = None THEN 0 ELSE batch[f][c])
                = SumFunction(InBatches(c)) + (IF b = None THEN 0 ELSE b[c])
<1> DEFINE w == InBatches(c)
           v == [g \in Flushers |-> IF g = f THEN (IF b = None THEN 0 ELSE b[c]) ELSE w[g]]
<1>1. w \in [Flushers -> Nat]
  BY InBatchesType
<1>2. v \in [Flushers -> Nat]
  BY <1>1
<1>3. InBatches(c)' = v
  BY DEF InBatches
<1>4. w[f] = (IF batch[f] = None THEN 0 ELSE batch[f][c]) /\ v[f] = (IF b = None THEN 0 ELSE b[c])
  BY DEF InBatches
<1>5. \A g \in Flushers \ {f} : v[g] = w[g]
  OBVIOUS
<1> HIDE DEF w, v
<1>6. SumFunction(v) \in Nat /\ SumFunction(v) + w[f] = SumFunction(w) + v[f]
  BY <1>1, <1>2, <1>5, FlusherSum
<1>7. SumFunction(InBatches(c))' = SumFunction(v)
  BY <1>3 DEF SumFunction, SumFunctionOnSet, FoldFunctionOnSet, MapThenFoldSet
<1> QED BY <1>4, <1>6, <1>7 DEF w

LEMMA InitHits == Init => HitsNeverDoubled
<1> SUFFICES ASSUME Init, NEW c \in Codes
             PROVE  count[c] + dirty[c] + SumFunction(InBatches(c)) <= served[c]
  BY DEF HitsNeverDoubled
<1>1. InBatches(c) = [f \in Flushers |-> 0]
  BY DEF Init, InBatches
<1>2. SumFunction(InBatches(c)) = 0
  BY <1>1, FlushersFinite, SumOfZeros
<1> QED BY <1>2 DEF Init, NoHits

LEMMA BumpHits ==
    ASSUME TypeInv, HitsNeverDoubled, NEW d \in Codes, Bump(d), UNCHANGED count
    PROVE  HitsNeverDoubled'
<1> SUFFICES ASSUME NEW c \in Codes
             PROVE  count'[c] + dirty'[c] + SumFunction(InBatches(c))' <= served'[c]
  BY DEF HitsNeverDoubled
<1>1. /\ count[c] \in Nat /\ dirty[c] \in Nat /\ served[c] \in Nat
      /\ dirty \in [Codes -> Nat] /\ served \in [Codes -> Nat]
      /\ SumFunction(InBatches(c)) \in Nat
      /\ count[c] + dirty[c] + SumFunction(InBatches(c)) <= served[c]
  BY TypeFacts, InBatchesType DEF HistoryOK, HitsNeverDoubled
<1>2. SumFunction(InBatches(c))' = SumFunction(InBatches(c))
  <2>1. InBatches(c)' = InBatches(c)
    BY DEF Bump, InBatches
  <2> QED BY <2>1 DEF SumFunction, SumFunctionOnSet, FoldFunctionOnSet, MapThenFoldSet
<1>3. \/ dirty'[c] = dirty[c] /\ served'[c] = served[c]
      \/ dirty'[c] = dirty[c] + 1 /\ served'[c] = served[c] + 1
  BY <1>1 DEF Bump
<1> QED BY <1>1, <1>2, <1>3

LEMMA FlushHits ==
    ASSUME TypeInv, HitsNeverDoubled, NEW f \in Flushers, FlushTake(f) \/ FlushWrite(f)
    PROVE  HitsNeverDoubled'
<1> SUFFICES ASSUME NEW c \in Codes
             PROVE  count'[c] + dirty'[c] + SumFunction(InBatches(c))' <= served'[c]
  BY DEF HitsNeverDoubled
<1>1. /\ count[c] \in Nat /\ dirty[c] \in Nat /\ served[c] \in Nat
      /\ SumFunction(InBatches(c)) \in Nat
      /\ count[c] + dirty[c] + SumFunction(InBatches(c)) <= served[c]
      /\ batch \in [Flushers -> [Codes -> Nat] \cup {None}] /\ dirty \in [Codes -> Nat]
      /\ count \in [Codes -> Nat]
  BY TypeFacts, InBatchesType DEF HistoryOK, HitsNeverDoubled
<1>2. CASE FlushTake(f)
  <2>1. /\ SumFunction(InBatches(c))' \in Nat
        /\ SumFunction(InBatches(c))' = SumFunction(InBatches(c))
                                         + (IF dirty = None THEN 0 ELSE dirty[c])
    <3>1. /\ batch[f] = None /\ batch' = [batch EXCEPT ![f] = dirty]
          /\ dirty \in [Codes -> Nat] \cup {None}
      BY <1>1, <1>2 DEF FlushTake
    <3>2. /\ SumFunction(InBatches(c))' \in Nat
          /\ SumFunction(InBatches(c))' + (IF batch[f] = None THEN 0 ELSE batch[f][c])
                = SumFunction(InBatches(c)) + (IF dirty = None THEN 0 ELSE dirty[c])
      BY ONLY <1>1, <3>1, InBatchesMove, f \in Flushers, c \in Codes
    <3> QED BY ONLY <3>1, <3>2
  <2>2. SumFunction(InBatches(c))' <= SumFunction(InBatches(c)) + dirty[c]
    BY <1>1, <2>1
  <2> QED BY <1>1, <1>2, <2>1, <2>2 DEF FlushTake, NoHits
<1>3. CASE FlushWrite(f)
  <2>1. /\ SumFunction(InBatches(c))' \in Nat
        /\ SumFunction(InBatches(c))' + batch[f][c] = SumFunction(InBatches(c))
    <3>1. batch[f] # None /\ batch' = [batch EXCEPT ![f] = None]
      BY <1>1, <1>3 DEF FlushWrite, Unwritten
    <3>2. /\ SumFunction(InBatches(c))' \in Nat
          /\ SumFunction(InBatches(c))' + (IF batch[f] = None THEN 0 ELSE batch[f][c])
                = SumFunction(InBatches(c)) + (IF None = None THEN 0 ELSE None[c])
      BY <1>1, <3>1, InBatchesMove
    <3> QED BY ONLY <1>1, <3>1, <3>2
  <2>2. batch[f][c] \in Nat
    BY <1>1, <1>3 DEF FlushWrite
  <2>3. count'[c] \in {count[c], count[c] + batch[f][c]}
    BY <1>1, <1>3 DEF FlushWrite
  <2> QED BY <1>1, <1>3, <2>1, <2>2, <2>3 DEF FlushWrite
<1> QED BY <1>2, <1>3

LEMMA EndHits ==
    ASSUME TypeInv, HitsNeverDoubled, End
    PROVE  HitsNeverDoubled'
<1> SUFFICES ASSUME NEW c \in Codes
             PROVE  count'[c] + dirty'[c] + SumFunction(InBatches(c))' <= served'[c]
  BY DEF HitsNeverDoubled
<1>1. /\ count[c] \in Nat /\ dirty[c] \in Nat /\ served[c] \in Nat
      /\ SumFunction(InBatches(c)) \in Nat
      /\ count[c] + dirty[c] + SumFunction(InBatches(c)) <= served[c]
  BY TypeFacts, InBatchesType DEF HistoryOK, HitsNeverDoubled
<1>2. InBatches(c)' = [f \in Flushers |-> 0]
  BY DEF End, InBatches
<1>3. SumFunction(InBatches(c))' = 0
  <2>1. SumFunction([f \in Flushers |-> 0]) = 0
    BY FlushersFinite, SumOfZeros
  <2> QED BY <1>2, <2>1 DEF SumFunction, SumFunctionOnSet, FoldFunctionOnSet, MapThenFoldSet
<1> QED BY <1>1, <1>3 DEF End, NoHits

LEMMA NextHits ==
    ASSUME TypeInv, HitsNeverDoubled, [Next]_vars
    PROVE  HitsNeverDoubled'
<1>f. TypeInv' /\ count \in [Codes -> Nat] /\ count' \in [Codes -> Nat]
  BY NextType DEF TypeInv, TypeOK
<1>s. \A c \in Codes : count[c] <= count[c]
  BY <1>f
<1>1. CASE \E t \in Threads : Request(t)
  <2>1. PICK t \in Threads : Request(t)
    BY <1>1
  <2>2. CASE \E c \in Codes : ResolveHit(t, c)
    BY <2>2, BumpHits DEF ResolveHit
  <2>3. CASE UNCHANGED <<hits, count>>
    BY <1>f, <1>s, <2>3, HitsAlone
  <2> QED BY <2>1, <2>2, <2>3 DEF Request, ResolveMiss, Ask, Shorten, Bulk
<1>2. CASE \E t \in Threads : ThreadStep(t)
  <2>1. PICK t \in Threads : ThreadStep(t)
    BY <1>2
  <2>2. CASE Fill(t)
    <3>1. req[t].c \in Codes
      BY <2>2, TypeFacts DEF Fill, Fits
    <3> QED BY <2>2, <3>1, BumpHits DEF Fill
  <2>3. CASE Del(t)
    <3>1. \A c \in Codes : count'[c] \in {count[c], 0}
      BY <1>f, <2>3 DEF Del
    <3>2. \A c \in Codes : count'[c] <= count[c]
      BY <1>f, <3>1
    <3> QED BY <1>f, <2>3, <3>2, HitsAlone DEF Del
  <2>4. CASE UNCHANGED <<hits, count>>
    BY <1>f, <1>s, <2>4, HitsAlone
  <2> QED BY <2>1, <2>2, <2>3, <2>4
          DEF ThreadStep, RowGet, RowCheck, Reap, Put, Forget, NxGet, NxPut
<1>3. CASE \E f \in Flushers : FlushTake(f) \/ FlushWrite(f)
  BY <1>3, FlushHits
<1>4. CASE End
  BY <1>4, EndHits
<1>5. CASE UNCHANGED <<hits, count>>
  BY <1>f, <1>s, <1>5, HitsAlone
<1> QED BY <1>1, <1>2, <1>3, <1>4, <1>5 DEF Next, Tick, Compact, Close, Open, vars, hits

(* Whoever flushes at the same time, and whichever writes fail, no hit is  *)
(* counted twice.                                                          *)
THEOREM RocksHitsNeverDoubled == Spec => []HitsNeverDoubled
<1>1. Init => TypeInv /\ HitsNeverDoubled
  BY InitType, InitHits
<1>2. TypeInv /\ HitsNeverDoubled /\ [Next]_vars => (TypeInv /\ HitsNeverDoubled)'
  BY NextType, NextHits
<1> QED BY <1>1, <1>2, PTL DEF Spec

-----------------------------------------------------------------------------
(* Rows, what was read of them and what is cached.  None of the five       *)
(* properties below is inductive without the others: AckedRowKept needs to *)
(* know what a thread that reaps has read (ReadHolds), CreatedOnce and     *)
(* CacheHolds that put_nx finds no row where it writes (NxHolds), NxHolds  *)
(* that whoever else wrote was noticed (raced, blind), and CacheHolds that *)
(* what a resolve is about to cache is still the row (ReadHolds).          *)

RowInv == AckedRowKept /\ CreatedOnce /\ NxHolds /\ ReadHolds /\ CacheHolds

(* Only thread t moves, and what it then does rests on no row.             *)
Moves(t) ==
    /\ pc'[t] \notin {"check", "reap", "nxput"}
    /\ \A o \in Threads \ {t} : pc'[o] = pc[o] /\ req'[o] = req[o]

(* CacheHolds speaks of threads that are about to drop an entry.           *)
Dropping(c) == \E t \in Threads : pc[t] = "forget" /\ req[t].c = c

LEMMA DroppingStays ==
    ASSUME NEW t \in Threads, Moves(t), NEW c, Dropping(c), pc[t] # "forget" \/ req[t].c # c
    PROVE  Dropping(c)'
BY DEF Dropping, Moves

(* Written or not, a row that was read stays, or its code is in raced.     *)
LEMMA ReadStays ==
    ASSUME TypeInv, ReadHolds, NEW t \in Threads, Moves(t), UNCHANGED now,
           NEW S \in SUBSET Codes, NEW x, NEW ok, Write(t, S, x, ok)
    PROVE  ReadHolds'
<1> SUFFICES ASSUME NEW o \in Threads, pc'[o] \in {"check", "reap"}, req'[o].c \notin raced'
             PROVE  /\ pc'[o] = "check" =>
                        \/ /\ row'[req'[o].c] # None /\ row'[req'[o].c].e = req'[o].e
                           /\ req'[o].k = "resolve" => row'[req'[o].c].u = req'[o].u
                        \/ row'[req'[o].c] = None /\ Past(req'[o].e, now')
                    /\ pc'[o] = "reap" =>
                        /\ Past(req'[o].e, now')
                        /\ row'[req'[o].c] = None \/ row'[req'[o].c].e = req'[o].e
  BY DEF ReadHolds, Past
<1>1. o # t /\ pc'[o] = pc[o] /\ req'[o] = req[o]
  BY DEF Moves
<1>2. req[o].c \in Codes
  BY <1>1, TypeFacts DEF Fits
<1>3. req[o].c \notin S /\ req[o].c \notin raced
  BY <1>1, <1>2 DEF Write, AtWork
<1>4. row'[req[o].c] = row[req[o].c]
  BY <1>2, <1>3 DEF Write
<1> QED BY <1>1, <1>3, <1>4 DEF ReadHolds

(* What is written and acknowledged is what clients know.                  *)
LEMMA AckStays ==
    ASSUME TypeInv, AckedRowKept, UNCHANGED now, NEW t, NEW S \in SUBSET Codes, NEW x,
           Write(t, S, x, TRUE)
    PROVE  AckedRowKept'
<1> SUFFICES ASSUME NEW c \in Codes, c \notin raced'
             PROVE  IF acked'[c] # None /\ Past(acked'[c].e, now')
                    THEN row'[c] \in {acked'[c], None} ELSE row'[c] = acked'[c]
  BY DEF AckedRowKept, Past
<1>1. CASE c \in S
  BY <1>1 DEF Write
<1>2. CASE c \notin S
  BY <1>2 DEF Write, AckedRowKept
<1> QED BY <1>1, <1>2

(* Whoever is between the look and the write of put_nx was noticed, if the *)
(* grants of a row that replaces none are forgotten.                       *)
LEMMA NxStays ==
    ASSUME TypeInv, NxHolds, NEW t \in Threads, Moves(t),
           NEW S \in SUBSET Codes, NEW x, NEW ok, Write(t, S, x, ok),
           blind \subseteq blind',
           \A o \in Threads \ {t} : pc[o] = "nxput" => lock' = o,
           \A c \in Codes \ blind' : row[c] = None \/ grants[c] = 0
                                       => row'[c] = None \/ grants'[c] = 0
    PROVE  NxHolds'
<1> SUFFICES ASSUME NEW o \in Threads, pc'[o] = "nxput"
             PROVE  /\ lock' = o
                    /\ req'[o].c \notin raced' => row'[req'[o].c] = None
                    /\ req'[o].c \notin blind' => row'[req'[o].c] = None \/ grants'[req'[o].c] = 0
  BY DEF NxHolds
<1>1. o # t /\ pc'[o] = pc[o] /\ req'[o] = req[o]
  BY DEF Moves
<1>2. req[o].c \in Codes
  BY <1>1, TypeFacts DEF Fits
<1>3. lock' = o
  BY <1>1
<1>4. ASSUME req[o].c \notin raced' PROVE row'[req[o].c] = None
  <2>1. req[o].c \notin S /\ req[o].c \notin raced
    BY <1>1, <1>2, <1>4 DEF Write, AtWork
  <2> QED BY <1>1, <1>2, <2>1 DEF Write, NxHolds
<1>5. ASSUME req[o].c \notin blind' PROVE row'[req[o].c] = None \/ grants'[req[o].c] = 0
  BY <1>1, <1>2, <1>5 DEF NxHolds
<1> QED BY <1>1, <1>3, <1>4, <1>5

LEMMA CacheStays ==
    ASSUME TypeInv, CacheHolds, NEW t \in Threads, Moves(t), pc[t] # "forget", UNCHANGED now,
           NEW S \in SUBSET Codes, NEW x, NEW ok, Write(t, S, x, ok), blind \subseteq blind',
           \A c \in Codes : cache'.map[c] \in {cache.map[c], None},
           \A c \in S \ (raced' \cup blind') :
                cache.map[c] # None => Past(cache.map[c].e, now) \/ Dropping(c)'
    PROVE  CacheHolds'
<1> SUFFICES ASSUME NEW c \in Codes, c \notin raced' \cup blind', cache'.map[c] # None
             PROVE  \/ /\ row'[c] # None /\ row'[c].u = cache'.map[c].u
                       /\ row'[c].e = cache'.map[c].e
                    \/ Past(cache'.map[c].e, now')
                    \/ Dropping(c)'
  BY DEF CacheHolds, Past, Dropping
<1>1. cache'.map[c] = cache.map[c] /\ cache.map[c] # None
  OBVIOUS
<1>2. CASE c \in S
  BY <1>1, <1>2
<1>3. CASE c \notin S
  <2>1. row'[c] = row[c] /\ c \notin raced \cup blind
    BY <1>3 DEF Write
  <2>2. \/ row[c] # None /\ row[c].u = cache.map[c].u /\ row[c].e = cache.map[c].e
        \/ Past(cache.map[c].e, now)
        \/ Dropping(c)
    BY <1>1, <2>1 DEF CacheHolds, Dropping
  <2> QED BY <1>1, <2>1, <2>2, DroppingStays
<1> QED BY <1>2, <1>3

(* A step that writes no row.                                              *)
LEMMA NoWrite ==
    ASSUME TypeInv, UNCHANGED <<row, acked, raced>>, NEW t
    PROVE  Write(t, {}, None, TRUE)
<1>1. row \in [Codes -> Rows \cup {None}] /\ acked \in [Codes -> Rows \cup {None}]
  BY TypeFacts DEF HistoryOK
<1>2. row = [c \in Codes |-> row[c]] /\ acked = [c \in Codes |-> acked[c]]
  BY <1>1
<1> QED BY <1>2 DEF Write

LEMMA RowsAlone ==
    ASSUME TypeInv, RowInv, NEW t \in Threads, Moves(t), pc[t] # "forget",
           UNCHANGED <<now, row, acked, raced, blind, grants, lock>>,
           \A c \in Codes : cache'.map[c] \in {cache.map[c], None}
    PROVE  RowInv'
<1>1. Write(t, {}, None, TRUE)
  BY NoWrite
<1>2. AckedRowKept'
  BY <1>1, AckStays DEF RowInv
<1>3. CreatedOnce'
  BY DEF RowInv, CreatedOnce
<1>4. NxHolds'
  <2>1. \A o \in Threads \ {t} : pc[o] = "nxput" => lock' = o
    BY DEF RowInv, NxHolds
  <2> QED BY <1>1, <2>1, NxStays DEF RowInv
<1>5. ReadHolds'
  BY <1>1, ReadStays DEF RowInv
<1>6. CacheHolds'
  BY <1>1, CacheStays DEF RowInv
<1> QED BY <1>2, <1>3, <1>4, <1>5, <1>6 DEF RowInv

(* Steps of no thread.                                                     *)
LEMMA RowsSame ==
    ASSUME TypeInv, RowInv, UNCHANGED <<now, row, cache, lock, pc, req, history>>
    PROVE  RowInv'
BY DEF RowInv, AckedRowKept, CreatedOnce, NxHolds, ReadHolds, CacheHolds, history, Past

LEMMA InitRows == Init => RowInv
<1> SUFFICES ASSUME Init PROVE RowInv
  OBVIOUS
<1>1. AckedRowKept
  BY DEF Init, AckedRowKept
<1>2. CreatedOnce
  BY DEF Init, CreatedOnce
<1>3. NxHolds /\ ReadHolds
  BY DEF Init, NxHolds, ReadHolds
<1>4. CacheHolds
  BY DEF Init, CacheHolds, NoCache
<1> QED BY <1>1, <1>2, <1>3, <1>4 DEF RowInv

LEMMA TickRows ==
    ASSUME TypeInv, RowInv, Tick
    PROVE  RowInv'
<1>1. /\ now \in Nat /\ now' = now + 1
      /\ row' = row /\ cache' = cache /\ lock' = lock /\ pc' = pc /\ req' = req
      /\ acked' = acked /\ raced' = raced /\ blind' = blind /\ grants' = grants
      /\ acked \in [Codes -> Rows \cup {None}] /\ cache.map \in [Codes -> Entries \cup {None}]
      /\ \A t \in Threads : req[t].e \in Nat
  BY TypeFacts DEF Tick, history, HistoryOK, Reqs
<1>2. \A e \in Nat : Past(e, now) => Past(e, now')
  BY <1>1 DEF Past
<1>3. AckedRowKept'
  <2> SUFFICES ASSUME NEW c \in Codes, c \notin raced'
               PROVE  IF acked'[c] # None /\ Past(acked'[c].e, now')
                      THEN row'[c] \in {acked'[c], None} ELSE row'[c] = acked'[c]
    BY DEF AckedRowKept, Past
  <2>1. acked[c] # None => acked[c].e \in Nat
    BY <1>1 DEF Rows
  <2> QED BY <1>1, <1>2, <2>1 DEF RowInv, AckedRowKept
<1>4. CreatedOnce'
  BY <1>1 DEF RowInv, CreatedOnce
<1>5. NxHolds'
  BY <1>1 DEF RowInv, NxHolds
<1>6. ReadHolds'
  <2> SUFFICES ASSUME NEW o \in Threads, pc[o] \in {"check", "reap"}, req[o].c \notin raced
               PROVE  /\ pc[o] = "check" =>
                          \/ /\ row[req[o].c] # None /\ row[req[o].c].e = req[o].e
                             /\ req[o].k = "resolve" => row[req[o].c].u = req[o].u
                          \/ row[req[o].c] = None /\ Past(req[o].e, now')
                      /\ pc[o] = "reap" =>
                          /\ Past(req[o].e, now')
                          /\ row[req[o].c] = None \/ row[req[o].c].e = req[o].e
    BY <1>1 DEF ReadHolds, Past
  <2> QED BY <1>1, <1>2 DEF RowInv, ReadHolds
<1>7. CacheHolds'
  <2> SUFFICES ASSUME NEW c \in Codes, c \notin raced \cup blind, cache.map[c] # None
               PROVE  \/ row[c] # None /\ row[c].u = cache.map[c].u /\ row[c].e = cache.map[c].e
                      \/ Past(cache.map[c].e, now')
                      \/ Dropping(c)
    BY <1>1 DEF CacheHolds, Past, Dropping
  <2>1. cache.map[c].e \in Nat
    BY <1>1 DEF Entries
  <2> QED BY <1>1, <1>2, <2>1 DEF RowInv, CacheHolds, Dropping
<1> QED BY <1>3, <1>4, <1>5, <1>6, <1>7 DEF RowInv

(* A compaction takes only rows whose expiry has come.                     *)
LEMMA CompactRows ==
    ASSUME TypeInv, RowInv, Compact
    PROVE  RowInv'
<1>1. /\ now' = now /\ cache' = cache /\ lock' = lock /\ pc' = pc /\ req' = req
      /\ acked' = acked /\ raced' = raced /\ blind' = blind /\ grants' = grants
      /\ \A t \in Threads : pc[t] \in {"check", "reap", "nxput"} => req[t].c \in Codes
  BY TypeFacts DEF Compact, history, Fits
<1>2. \A c \in Codes :
        \/ row'[c] = row[c]
        \/ row'[c] = None /\ row[c] # None /\ Past(row[c].e, now)
  <2> TAKE c \in Codes
  <2>1. row'[c] = IF Filtered(row[c]) THEN None ELSE row[c]
    BY DEF Compact
  <2>2. Filtered(row[c]) => row[c] # None /\ Past(row[c].e, now)
    BY DEF Filtered, FilterSees, Expired
  <2> QED BY <2>1, <2>2
<1>3. AckedRowKept'
  <2> SUFFICES ASSUME NEW c \in Codes, c \notin raced
               PROVE  IF acked[c] # None /\ Past(acked[c].e, now)
                      THEN row'[c] \in {acked[c], None} ELSE row'[c] = acked[c]
    BY <1>1 DEF AckedRowKept, Past
  <2> QED BY <1>2 DEF RowInv, AckedRowKept
<1>4. CreatedOnce'
  BY <1>1 DEF RowInv, CreatedOnce
<1>5. NxHolds'
  BY <1>1, <1>2 DEF RowInv, NxHolds
<1>6. ReadHolds'
  <2> SUFFICES ASSUME NEW o \in Threads, pc[o] \in {"check", "reap"}, req[o].c \notin raced
               PROVE  /\ pc[o] = "check" =>
                          \/ /\ row'[req[o].c] # None /\ row'[req[o].c].e = req[o].e
                             /\ req[o].k = "resolve" => row'[req[o].c].u = req[o].u
                          \/ row'[req[o].c] = None /\ Past(req[o].e, now)
                      /\ pc[o] = "reap" =>
                          /\ Past(req[o].e, now)
                          /\ row'[req[o].c] = None \/ row'[req[o].c].e = req[o].e
    BY <1>1 DEF ReadHolds, Past
  <2> QED BY <1>1, <1>2 DEF RowInv, ReadHolds
<1>7. CacheHolds'
  <2> SUFFICES ASSUME NEW c \in Codes, c \notin raced \cup blind, cache.map[c] # None
               PROVE  \/ row'[c] # None /\ row'[c].u = cache.map[c].u /\ row'[c].e = cache.map[c].e
                      \/ Past(cache.map[c].e, now)
                      \/ Dropping(c)
    BY <1>1 DEF CacheHolds, Past, Dropping
  <2> QED BY <1>1, <1>2 DEF RowInv, CacheHolds, Dropping
<1> QED BY <1>3, <1>4, <1>5, <1>6, <1>7 DEF RowInv

LEMMA EndRows ==
    ASSUME TypeInv, RowInv, End
    PROVE  RowInv'
<1>1. /\ now' = now /\ row' = row /\ acked' = acked /\ raced' = raced /\ blind' = blind
      /\ grants' = grants
      /\ \A t \in Threads : pc'[t] = "idle"
      /\ \A c \in Codes : cache'.map[c] = None
  BY DEF End, history, NoCache
<1>2. AckedRowKept'
  BY <1>1 DEF RowInv, AckedRowKept, Past
<1>3. CreatedOnce'
  BY <1>1 DEF RowInv, CreatedOnce
<1>4. NxHolds' /\ ReadHolds'
  BY <1>1 DEF NxHolds, ReadHolds
<1>5. CacheHolds'
  BY <1>1 DEF CacheHolds
<1> QED BY <1>2, <1>3, <1>4, <1>5 DEF RowInv

(* What a thread goes on to, in the form the lemmas above use.             *)
LEMMA GoMoves ==
    ASSUME TypeInv, NEW t \in Threads, NEW to, NEW r, Go(t, to, r),
           to \notin {"check", "reap", "nxput"}
    PROVE  Moves(t) /\ pc'[t] = to /\ req'[t] = r
BY TypeFacts DEF Go, Moves

LEMMA DoneMoves == ASSUME TypeInv, NEW t \in Threads, Done(t) PROVE Moves(t)
BY GoMoves DEF Done

LEMMA NxMoves ==
    ASSUME TypeInv, NEW t \in Threads, pc[t] \in {"nx", "nxput"}, NEW c,
           Settled(t, c) \/ Refused(t, c)
    PROVE  Moves(t)
<1>1. CASE Settled(t, c)
  BY <1>1, SettledType DEF Moves
<1>2. CASE Refused(t, c)
  BY <1>2, RefusedType DEF Moves
<1> QED BY <1>1, <1>2

LEMMA GrantsFall ==
    ASSUME TypeInv, NEW S, Grant(S), NEW c \in Codes
    PROVE  /\ grants[c] \in Nat /\ grants'[c] \in Nat
           /\ c \notin S => grants'[c] \in {grants[c], 0}
           /\ c \notin S /\ row[c] = None => grants'[c] = 0
           /\ c \in S /\ (row[c] = None \/ grants[c] = 0) => grants'[c] = 1
<1>1. grants[c] \in Nat
  BY TypeFacts DEF HistoryOK
<1>2. grants'[c] = (IF row[c] = None THEN 0 ELSE grants[c]) + (IF c \in S THEN 1 ELSE 0)
  BY DEF Grant
<1> QED BY <1>1, <1>2

LEMMA RequestRows ==
    ASSUME TypeInv, RowInv, NEW t \in Threads, Request(t)
    PROVE  RowInv'
<1>0. /\ cache.map \in [Codes -> Entries \cup {None}] /\ CacheOK(cache) /\ now \in Nat
      /\ \A c \in Codes : cache.map[c] \in {cache.map[c], None}
  BY TypeFacts
<1>1. ASSUME NEW c \in Codes, ResolveHit(t, c) PROVE RowInv'
  BY <1>1, RowsSame DEF ResolveHit
<1>2. ASSUME NEW c \in Codes, ResolveMiss(t, c) PROVE RowInv'
  <2>1. \A d \in Codes : cache'.map[d] \in {cache.map[d], None}
    BY <1>0, <1>2, LookedOK DEF ResolveMiss
  <2>2. Moves(t) /\ pc[t] # "forget"
    BY <1>2, GoMoves DEF ResolveMiss, Ready
  <2> QED BY <1>2, <2>1, <2>2, RowsAlone DEF ResolveMiss, history
<1>3. ASSUME NEW k, NEW c, NEW u, NEW ttl, Ask(t, k, c, u, ttl) PROVE RowInv'
  <2>1. Moves(t) /\ pc[t] # "forget"
    BY <1>3, GoMoves DEF Ask, Ready
  <2> QED BY <1>0, <1>3, <2>1, RowsAlone DEF Ask, history
<1>4. ASSUME NEW u, NEW ttl, NEW c, Shorten(t, c, u, ttl) PROVE RowInv'
  <2>1. Moves(t) /\ pc[t] # "forget"
    BY <1>4, GoMoves DEF Shorten, Ready
  <2> QED BY <1>0, <1>4, <2>1, RowsAlone DEF Shorten, history
<1>5. ASSUME NEW u \in Urls, NEW ttl \in TTLs, NEW S \in SUBSET Generated \ {{}}, Bulk(t, S, u, ttl)
      PROVE  RowInv'
  <2> DEFINE x == [u |-> u, e |-> Until(ttl), v |-> "v1"]
  <2>0. S \in SUBSET Codes /\ pc[t] = "idle" /\ UNCHANGED <<now, cache, lock>>
    BY <1>5, RocksAssumption DEF Bulk, Ready
  <2>1. CASE UNCHANGED <<row, history>> /\ \E r : Go(t, "nx", r)
    <3>1. Moves(t)
      BY <2>1, GoMoves
    <3> QED BY <1>0, <2>0, <2>1, <3>1, RowsAlone DEF history
  <2>2. CASE /\ Write(t, S, x, TRUE) /\ Grant(S)
             /\ blind' = blind \cup {c \in S : row[c] # None \/ AtWork(t, c)}
             /\ UNCHANGED <<pc, req>>
    <3> HIDE DEF x
    <3>1. Moves(t)
      BY <2>0, <2>2 DEF Moves
    <3>2. AckedRowKept'
      BY <2>0, <2>2, AckStays DEF RowInv
    <3>3. ReadHolds'
      BY <2>0, <2>2, <3>1, ReadStays DEF RowInv
    <3>4. \A c \in S \ blind' : row[c] = None /\ ~ AtWork(t, c)
      BY <2>2
    <3>5. CreatedOnce'
      <4> SUFFICES ASSUME NEW c \in Codes, c \notin blind' PROVE grants'[c] <= 1
        BY DEF CreatedOnce
      <4>1. c \notin blind /\ grants[c] <= 1
        BY <2>2 DEF RowInv, CreatedOnce
      <4> QED BY <2>2, <3>4, <4>1, GrantsFall
    <3>6. NxHolds'
      <4> SUFFICES ASSUME NEW o \in Threads, pc'[o] = "nxput"
                   PROVE  /\ lock' = o
                          /\ req'[o].c \notin raced' => row'[req'[o].c] = None
                          /\ req'[o].c \notin blind' => row'[req'[o].c] = None \/ grants'[req'[o].c] = 0
        BY DEF NxHolds
      <4> DEFINE c == req[o].c
      <4>1. o # t /\ pc[o] = "nxput" /\ req'[o] = req[o] /\ c \in Codes
        BY <2>0, <2>2, TypeFacts DEF Fits
      <4>2. CASE c \in S
        BY <2>0, <2>2, <4>1, <4>2 DEF RowInv, NxHolds, Write, AtWork
      <4>3. CASE c \notin S
        <5>1. row'[c] = row[c] /\ (c \notin raced' => c \notin raced) /\ (c \notin blind' => c \notin blind)
          BY <2>2, <4>1, <4>3 DEF Write
        <5>2. c \notin S /\ grants[c] = 0 => grants'[c] = 0
          BY <2>2, <4>1, GrantsFall
        <5> QED BY <2>0, <4>1, <4>3, <5>1, <5>2 DEF RowInv, NxHolds
      <4> QED BY <4>2, <4>3
    <3>7. CacheHolds'
      <4>1. \A c \in S \ (raced' \cup blind') :
              cache.map[c] # None => Past(cache.map[c].e, now) \/ Dropping(c)'
        <5> SUFFICES ASSUME NEW c \in S, c \notin raced' \cup blind', cache.map[c] # None
                     PROVE  Past(cache.map[c].e, now) \/ Dropping(c)'
          OBVIOUS
        <5>1. row[c] = None /\ c \in Codes /\ c \notin raced \cup blind
          BY <2>0, <2>2, <3>4 DEF Write
        <5>2. Past(cache.map[c].e, now) \/ Dropping(c)
          BY <5>1 DEF RowInv, CacheHolds, Dropping
        <5> QED BY <2>0, <3>1, <5>2, DroppingStays
      <4> QED BY <1>0, <2>0, <2>2, <3>1, <4>1, CacheStays DEF RowInv
    <3> QED BY <3>2, <3>3, <3>5, <3>6, <3>7 DEF RowInv
  <2> QED BY <1>5, <2>1, <2>2 DEF Bulk
<1> QED BY <1>1, <1>2, <1>3, <1>4, <1>5 DEF Request

LEMMA StepRows ==
    ASSUME TypeInv, RowInv, NEW t \in Threads, ThreadStep(t)
    PROVE  RowInv'
<1>f. /\ row \in [Codes -> Rows \cup {None}] /\ now \in Nat /\ CacheOK(cache)
      /\ cache.map \in [Codes -> Entries \cup {None}]
      /\ \A c \in Codes : cache.map[c] \in {cache.map[c], None}
      /\ pc \in [Threads -> Steps] /\ req \in [Threads -> Reqs] /\ RequestOK
      /\ Fits(pc[t], req[t]) /\ req[t] \in Reqs
  BY TypeFacts
<1>1. CASE RowGet(t)
  <2> DEFINE x == row[req[t].c]
             r == [req[t] EXCEPT !.e = x.e, !.u = IF req[t].k = "resolve" THEN x.u ELSE @]
  <2>0. /\ UNCHANGED <<now, row, acked, raced, blind, grants, lock, cache>>
        /\ pc[t] # "forget" /\ req[t].c \in Codes
    BY <1>1, <1>f DEF RowGet, history, Fits
  <2>1. CASE Done(t)
    <3>1. Moves(t)
      BY <2>1, DoneMoves
    <3> QED BY <1>f, <2>0, <3>1, RowsAlone
  <2>2. CASE x # None /\ Go(t, "check", r)
    <3>1. /\ r.c = req[t].c /\ r.k = req[t].k /\ r.e = x.e
          /\ r.k = "resolve" => r.u = x.u
      BY <1>f DEF Reqs
    <3> HIDE DEF r
    <3>2. /\ pc'[t] = "check" /\ req'[t] = r
          /\ \A o \in Threads \ {t} : pc'[o] = pc[o] /\ req'[o] = req[o]
      BY <1>f, <2>2 DEF Go
    <3>3. AckedRowKept' /\ CreatedOnce'
      BY <2>0 DEF RowInv, AckedRowKept, CreatedOnce, Past
    <3>4. NxHolds'
      BY <2>0, <3>2 DEF RowInv, NxHolds
    <3>5. ReadHolds'
      <4> SUFFICES ASSUME NEW o \in Threads, req'[o].c \notin raced
                   PROVE  /\ pc'[o] = "check" =>
                              \/ /\ row[req'[o].c] # None /\ row[req'[o].c].e = req'[o].e
                                 /\ req'[o].k = "resolve" => row[req'[o].c].u = req'[o].u
                              \/ row[req'[o].c] = None /\ Past(req'[o].e, now)
                          /\ pc'[o] = "reap" =>
                              /\ Past(req'[o].e, now)
                              /\ row[req'[o].c] = None \/ row[req'[o].c].e = req'[o].e
        BY <2>0 DEF ReadHolds, Past
      <4>1. CASE o = t
        BY <2>2, <3>1, <3>2, <4>1
      <4>2. CASE o # t
        BY <3>2, <4>2 DEF RowInv, ReadHolds
      <4> QED BY <4>1, <4>2
    <3>6. CacheHolds'
      <4>1. \A c \in Codes : Dropping(c) => Dropping(c)'
        BY <2>0, <3>2 DEF Dropping
      <4> QED BY <2>0, <4>1 DEF RowInv, CacheHolds, Dropping, Past
    <3> QED BY <3>3, <3>4, <3>5, <3>6 DEF RowInv
  <2> QED BY <1>1, <2>1, <2>2 DEF RowGet
<1>2. CASE RowCheck(t)
  <2>0. /\ UNCHANGED <<now, row, acked, raced, blind, grants, lock, cache>>
        /\ pc[t] = "check"
    BY <1>2, <1>f DEF RowCheck, history
  <2>1. CASE Done(t) \/ Go(t, "del", req[t]) \/ \E r : Go(t, "put", r)
    <3>1. Moves(t)
      BY <2>1, DoneMoves, GoMoves
    <3> QED BY <1>f, <2>0, <3>1, RowsAlone
  <2>2. CASE Past(req[t].e, now) /\ Go(t, "reap", req[t])
    <3>2. /\ pc'[t] = "reap" /\ req'[t] = req[t]
          /\ \A o \in Threads \ {t} : pc'[o] = pc[o] /\ req'[o] = req[o]
      BY <1>f, <2>2 DEF Go
    <3>3. AckedRowKept' /\ CreatedOnce'
      BY <2>0 DEF RowInv, AckedRowKept, CreatedOnce, Past
    <3>4. NxHolds'
      BY <2>0, <3>2 DEF RowInv, NxHolds
    <3>5. ReadHolds'
      <4> SUFFICES ASSUME NEW o \in Threads, req'[o].c \notin raced
                   PROVE  /\ pc'[o] = "check" =>
                              \/ /\ row[req'[o].c] # None /\ row[req'[o].c].e = req'[o].e
                                 /\ req'[o].k = "resolve" => row[req'[o].c].u = req'[o].u
                              \/ row[req'[o].c] = None /\ Past(req'[o].e, now)
                          /\ pc'[o] = "reap" =>
                              /\ Past(req'[o].e, now)
                              /\ row[req'[o].c] = None \/ row[req'[o].c].e = req'[o].e
        BY <2>0 DEF ReadHolds, Past
      <4>1. CASE o = t
        BY <2>0, <2>2, <3>2, <4>1 DEF RowInv, ReadHolds
      <4>2. CASE o # t
        BY <3>2, <4>2 DEF RowInv, ReadHolds
      <4> QED BY <4>1, <4>2
    <3>6. CacheHolds'
      <4>1. \A c \in Codes : Dropping(c) => Dropping(c)'
        BY <2>0, <3>2 DEF Dropping
      <4> QED BY <2>0, <4>1 DEF RowInv, CacheHolds, Dropping, Past
    <3> QED BY <3>3, <3>4, <3>5, <3>6 DEF RowInv
  <2> QED BY <1>2, <2>1, <2>2 DEF RowCheck, Expired
<1>3. CASE Reap(t)
  <2> DEFINE c == req[t].c
  <2>1. PICK o \in Outcomes : Write(t, {d \in {c} : o = "ok"}, None, FALSE)
    BY <1>3 DEF Reap
  <2> DEFINE S == {d \in {c} : o = "ok"}
  <2>2. /\ UNCHANGED <<now, cache, lock, blind, grants>> /\ pc[t] = "reap"
        /\ c \in Codes /\ S \in SUBSET Codes
    BY <1>3, <1>f DEF Reap, Fits
  <2>3. Moves(t)
    BY <1>3, DoneMoves DEF Reap
  <2>4. Write(t, S, None, FALSE) /\ S \subseteq {c}
    BY <2>1
  <2>5. \A d \in S \ raced' : row[d] = None \/ Past(row[d].e, now)
    <3>1. raced \subseteq raced'
      BY <2>4 DEF Write
    <3> QED BY <2>2, <2>4, <3>1 DEF RowInv, ReadHolds
  <2> HIDE DEF S
  <2>6. AckedRowKept'
    <3> SUFFICES ASSUME NEW d \in Codes, d \notin raced'
                 PROVE  IF acked'[d] # None /\ Past(acked'[d].e, now)
                        THEN row'[d] \in {acked'[d], None} ELSE row'[d] = acked'[d]
      BY <2>2 DEF AckedRowKept, Past
    <3>1. acked'[d] = acked[d] /\ d \notin raced /\ row'[d] = IF d \in S THEN None ELSE row[d]
      BY <2>4 DEF Write
    <3> QED BY <2>5, <3>1 DEF RowInv, AckedRowKept
  <2>7. CreatedOnce'
    BY <2>2 DEF RowInv, CreatedOnce
  <2>8. ReadHolds'
    BY <2>2, <2>3, <2>4, ReadStays DEF RowInv
  <2>9. NxHolds'
    <3>1. \A p \in Threads \ {t} : pc[p] = "nxput" => lock' = p
      BY <2>2 DEF RowInv, NxHolds
    <3>2. \A d \in Codes \ blind' : row[d] = None \/ grants[d] = 0
                                      => row'[d] = None \/ grants'[d] = 0
      BY <2>2, <2>4 DEF Write
    <3> QED BY <2>2, <2>3, <2>4, <3>1, <3>2, NxStays DEF RowInv
  <2>10. CacheHolds'
    <3>1. \A d \in S \ (raced' \cup blind') :
            cache.map[d] # None => Past(cache.map[d].e, now) \/ Dropping(d)'
      <4> SUFFICES ASSUME NEW d \in S, d \notin raced' \cup blind', cache.map[d] # None
                   PROVE  Past(cache.map[d].e, now) \/ Dropping(d)'
        OBVIOUS
      <4>1. d \in Codes /\ d \notin raced \cup blind
        BY <2>2, <2>4 DEF Write
      <4>2. \/ row[d] # None /\ row[d].e = cache.map[d].e
            \/ Past(cache.map[d].e, now)
            \/ Dropping(d)
        BY <4>1 DEF RowInv, CacheHolds, Dropping
      <4> QED BY <2>2, <2>3, <2>5, <4>2, DroppingStays
    <3> QED BY <1>f, <2>2, <2>3, <2>4, <3>1, CacheStays DEF RowInv
  <2> QED BY <2>6, <2>7, <2>8, <2>9, <2>10 DEF RowInv
<1>4. CASE Fill(t)
  <2> DEFINE c == req[t].c
             x == [u |-> req[t].u, e |-> req[t].e, at |-> now]
  <2>0. /\ UNCHANGED <<now, row, acked, raced, blind, grants, lock>>
        /\ pc[t] = "check" /\ req[t].k = "resolve" /\ ~ Past(req[t].e, now) /\ c \in Codes
    BY <1>4, <1>f DEF Fill, history, Fits, Expired
  <2>1. x \in Entries
    BY <1>f, <2>0 DEF Fits, Reqs, Entries
  <2>2. x.u = req[t].u /\ x.e = req[t].e
    OBVIOUS
  <2>3. cache' = With(cache, c, x)
    BY <1>4 DEF Fill
  <2> HIDE DEF x
  <2>4. cache'.map[c] = x /\ \A d \in Codes \ {c} : cache'.map[d] \in {cache.map[d], None}
    BY <1>f, <2>0, <2>1, <2>3, WithOK, RocksAssumption
  <2>5. Moves(t)
    BY <1>4, DoneMoves DEF Fill
  <2>6. Write(t, {}, None, TRUE)
    BY <2>0, NoWrite
  <2>7. AckedRowKept' /\ CreatedOnce'
    BY <2>0 DEF RowInv, AckedRowKept, CreatedOnce, Past
  <2>8. ReadHolds'
    BY <2>0, <2>5, <2>6, ReadStays DEF RowInv
  <2>9. NxHolds'
    <3>1. \A o \in Threads \ {t} : pc[o] = "nxput" => lock' = o
      BY <2>0 DEF RowInv, NxHolds
    <3> QED BY <2>0, <2>5, <2>6, <3>1, NxStays DEF RowInv
  <2>10. CacheHolds'
    <3> SUFFICES ASSUME NEW d \in Codes, d \notin raced \cup blind, cache'.map[d] # None
                 PROVE  \/ row[d] # None /\ row[d].u = cache'.map[d].u /\ row[d].e = cache'.map[d].e
                        \/ Past(cache'.map[d].e, now)
                        \/ Dropping(d)'
      BY <2>0 DEF CacheHolds, Past, Dropping
    <3>1. CASE d = c
      BY <2>0, <2>2, <2>4, <3>1 DEF RowInv, ReadHolds
    <3>2. CASE d # c
      <4>1. \/ row[d] # None /\ row[d].u = cache.map[d].u /\ row[d].e = cache.map[d].e
            \/ Past(cache.map[d].e, now)
            \/ Dropping(d)
        BY <2>4, <3>2 DEF RowInv, CacheHolds, Dropping
      <4> QED BY <2>0, <2>4, <2>5, <3>2, <4>1, DroppingStays
    <3> QED BY <3>1, <3>2
  <2> QED BY <2>7, <2>8, <2>9, <2>10 DEF RowInv
<1>5. CASE Put(t)
  <2> DEFINE c == req[t].c
             x == [u |-> req[t].u, e |-> req[t].e, v |-> "v1"]
  <2>1. PICK o \in Outcomes :
          /\ Write(t, {d \in {c} : o = "ok"}, x, TRUE)
          /\ Grant({})
          /\ IF o = "ok" THEN Go(t, "forget", req[t]) ELSE Done(t)
    BY <1>5 DEF Put
  <2> DEFINE S == {d \in {c} : o = "ok"}
  <2>2. /\ UNCHANGED <<now, cache, lock, blind>> /\ pc[t] = "put"
        /\ c \in Codes /\ S \in SUBSET Codes
    BY <1>5, <1>f DEF Put, Fits
  <2>3. Write(t, S, x, TRUE) /\ S \subseteq {c}
    BY <2>1
  <2>4. Moves(t) /\ (S # {} => pc'[t] = "forget" /\ req'[t] = req[t])
    BY <2>1, GoMoves, DoneMoves
  <2> HIDE DEF S, x
  <2>5. \A d \in Codes : grants[d] \in Nat /\ grants'[d] \in {grants[d], 0}
                           /\ (row[d] = None => grants'[d] = 0)
    BY <2>1, GrantsFall
  <2>6. AckedRowKept'
    BY <2>2, <2>3, AckStays DEF RowInv
  <2>7. CreatedOnce'
    BY <2>2, <2>5 DEF RowInv, CreatedOnce
  <2>8. ReadHolds'
    BY <2>2, <2>3, <2>4, ReadStays DEF RowInv
  <2>9. NxHolds'
    <3>1. \A p \in Threads \ {t} : pc[p] = "nxput" => lock' = p
      BY <2>2 DEF RowInv, NxHolds
    <3>2. \A d \in Codes \ blind' : row[d] = None \/ grants[d] = 0
                                      => row'[d] = None \/ grants'[d] = 0
      BY <2>5
    <3> QED BY <2>2, <2>3, <2>4, <3>1, <3>2, NxStays DEF RowInv
  <2>10. CacheHolds'
    <3>1. \A d \in S : Dropping(d)'
      BY <2>3, <2>4 DEF Dropping
    <3> QED BY <1>f, <2>2, <2>3, <2>4, <3>1, CacheStays DEF RowInv
  <2> QED BY <2>6, <2>7, <2>8, <2>9, <2>10 DEF RowInv
<1>6. CASE Del(t)
  <2> DEFINE c == req[t].c
  <2>1. PICK o \in Outcomes :
          /\ Write(t, {d \in {c} : o = "ok"}, None, TRUE)
          /\ IF o = "ok" THEN Go(t, "forget", req[t]) ELSE Done(t)
    BY <1>6 DEF Del
  <2> DEFINE S == {d \in {c} : o = "ok"}
  <2>2. /\ UNCHANGED <<now, cache, lock, blind, grants>> /\ pc[t] = "del"
        /\ c \in Codes /\ S \in SUBSET Codes
    BY <1>6, <1>f DEF Del, Fits
  <2>3. Write(t, S, None, TRUE) /\ S \subseteq {c}
    BY <2>1
  <2>4. Moves(t) /\ (S # {} => pc'[t] = "forget" /\ req'[t] = req[t])
    BY <2>1, GoMoves, DoneMoves
  <2> HIDE DEF S
  <2>6. AckedRowKept'
    BY <2>2, <2>3, AckStays DEF RowInv
  <2>7. CreatedOnce'
    BY <2>2 DEF RowInv, CreatedOnce
  <2>8. ReadHolds'
    BY <2>2, <2>3, <2>4, ReadStays DEF RowInv
  <2>9. NxHolds'
    <3>1. \A p \in Threads \ {t} : pc[p] = "nxput" => lock' = p
      BY <2>2 DEF RowInv, NxHolds
    <3>2. \A d \in Codes \ blind' : row[d] = None \/ grants[d] = 0
                                      => row'[d] = None \/ grants'[d] = 0
      BY <2>2, <2>3 DEF Write
    <3> QED BY <2>2, <2>3, <2>4, <3>1, <3>2, NxStays DEF RowInv
  <2>10. CacheHolds'
    <3>1. \A d \in S : Dropping(d)'
      BY <2>3, <2>4 DEF Dropping
    <3> QED BY <1>f, <2>2, <2>3, <2>4, <3>1, CacheStays DEF RowInv
  <2> QED BY <2>6, <2>7, <2>8, <2>9, <2>10 DEF RowInv
<1>7. CASE Forget(t)
  <2> DEFINE c == req[t].c
  <2>0. /\ UNCHANGED <<now, row, acked, raced, blind, grants, lock>>
        /\ pc[t] = "forget" /\ c \in Codes
    BY <1>7, <1>f DEF Forget, history, Fits
  <2>1. cache'.map[c] = None /\ \A d \in Codes \ {c} : cache'.map[d] = cache.map[d]
    <3>1. cache' = Without(cache, c)
      BY <1>7 DEF Forget, Forgotten
    <3>2. Without(cache, c).map = [cache.map EXCEPT ![c] = None]
      BY <1>f, <2>0, WithoutOK
    <3> QED BY <1>f, <2>0, <3>1, <3>2
  <2>2. Moves(t)
    BY <1>7, DoneMoves DEF Forget
  <2>3. Write(t, {}, None, TRUE)
    BY <2>0, NoWrite
  <2>4. AckedRowKept' /\ CreatedOnce'
    BY <2>0 DEF RowInv, AckedRowKept, CreatedOnce, Past
  <2>5. ReadHolds'
    BY <2>0, <2>2, <2>3, ReadStays DEF RowInv
  <2>6. NxHolds'
    <3>1. \A o \in Threads \ {t} : pc[o] = "nxput" => lock' = o
      BY <2>0 DEF RowInv, NxHolds
    <3> QED BY <2>0, <2>2, <2>3, <3>1, NxStays DEF RowInv
  <2>7. CacheHolds'
    <3> SUFFICES ASSUME NEW d \in Codes, d \notin raced \cup blind, cache'.map[d] # None
                 PROVE  \/ row[d] # None /\ row[d].u = cache'.map[d].u /\ row[d].e = cache'.map[d].e
                        \/ Past(cache'.map[d].e, now)
                        \/ Dropping(d)'
      BY <2>0 DEF CacheHolds, Past, Dropping
    <3>1. d # c /\ cache'.map[d] = cache.map[d]
      BY <2>1
    <3>2. \/ row[d] # None /\ row[d].u = cache.map[d].u /\ row[d].e = cache.map[d].e
          \/ Past(cache.map[d].e, now)
          \/ Dropping(d)
      BY <3>1 DEF RowInv, CacheHolds, Dropping
    <3> QED BY <2>2, <3>1, <3>2, DroppingStays
  <2> QED BY <2>4, <2>5, <2>6, <2>7 DEF RowInv
<1>8. CASE NxGet(t)
  <2>0. /\ UNCHANGED <<now, row, acked, raced, cache>> /\ pc[t] = "nx" /\ lock = None
        /\ \A o \in Threads : pc[o] # "nxput"
    BY <1>8, RocksAssumption DEF NxGet, RowInv, NxHolds
  <2>w. Write(t, {}, None, TRUE)
    BY <2>0, NoWrite
  <2>1. PICK c \in Tries(t) :
          \/ Refused(t, c) /\ UNCHANGED <<lock, blind, grants>>
          \/ Settled(t, c) /\ Grant({c}) /\ blind' = blind \cup {c} /\ UNCHANGED lock
          \/ /\ ~ Taken(c) /\ lock' = t /\ Go(t, "nxput", [req[t] EXCEPT !.c = c])
             /\ UNCHANGED <<blind, grants>>
    BY <1>8 DEF NxGet
  <2>2. CASE Refused(t, c) /\ UNCHANGED <<lock, blind, grants>>
    <3>1. Moves(t)
      BY <2>0, <2>2, NxMoves
    <3> QED BY <1>f, <2>0, <2>2, <3>1, RowsAlone
  <2>3. CASE Settled(t, c) /\ Grant({c}) /\ blind' = blind \cup {c} /\ UNCHANGED lock
    <3>1. Moves(t)
      BY <2>0, <2>3, NxMoves
    <3>2. AckedRowKept'
      BY <2>0, <2>w, AckStays DEF RowInv
    <3>3. ReadHolds'
      BY <2>0, <2>w, <3>1, ReadStays DEF RowInv
    <3>4. CreatedOnce'
      <4> SUFFICES ASSUME NEW d \in Codes, d \notin blind' PROVE grants'[d] <= 1
        BY DEF CreatedOnce
      <4> QED BY <2>3, GrantsFall DEF RowInv, CreatedOnce
    <3>5. NxHolds'
      <4>1. \A o \in Threads : pc'[o] # "nxput"
        BY <2>0, <3>1 DEF Moves
      <4> QED BY <4>1 DEF NxHolds
    <3>6. CacheHolds'
      BY <1>f, <2>0, <2>w, <2>3, <3>1, CacheStays DEF RowInv
    <3> QED BY <3>2, <3>3, <3>4, <3>5, <3>6 DEF RowInv
  <2>4. CASE /\ ~ Taken(c) /\ lock' = t /\ Go(t, "nxput", [req[t] EXCEPT !.c = c])
             /\ UNCHANGED <<blind, grants>>
    <3>1. /\ pc'[t] = "nxput" /\ req'[t].c = c /\ row[c] = None
          /\ \A o \in Threads \ {t} : pc'[o] = pc[o] /\ req'[o] = req[o]
      BY <1>f, <2>4 DEF Go, Taken, Reqs
    <3>2. AckedRowKept' /\ CreatedOnce'
      BY <2>0, <2>4 DEF RowInv, AckedRowKept, CreatedOnce, Past
    <3>3. ReadHolds'
      <4> SUFFICES ASSUME NEW o \in Threads, pc'[o] \in {"check", "reap"}, req'[o].c \notin raced
                   PROVE  /\ pc'[o] = "check" =>
                              \/ /\ row[req'[o].c] # None /\ row[req'[o].c].e = req'[o].e
                                 /\ req'[o].k = "resolve" => row[req'[o].c].u = req'[o].u
                              \/ row[req'[o].c] = None /\ Past(req'[o].e, now)
                          /\ pc'[o] = "reap" =>
                              /\ Past(req'[o].e, now)
                              /\ row[req'[o].c] = None \/ row[req'[o].c].e = req'[o].e
        BY <2>0 DEF ReadHolds, Past
      <4>1. pc'[o] = pc[o] /\ req'[o] = req[o]
        BY <3>1
      <4> QED BY <4>1 DEF RowInv, ReadHolds
    <3>4. NxHolds'
      BY <2>0, <2>4, <3>1 DEF NxHolds
    <3>5. CacheHolds'
      <4>1. \A d \in Codes : Dropping(d) => Dropping(d)'
        BY <2>0, <3>1 DEF Dropping
      <4> QED BY <2>0, <2>4, <4>1 DEF RowInv, CacheHolds, Dropping, Past
    <3> QED BY <3>2, <3>3, <3>4, <3>5 DEF RowInv
  <2> QED BY <2>1, <2>2, <2>3, <2>4
<1>9. CASE NxPut(t)
  <2> DEFINE c == req[t].c
             x == [u |-> req[t].u, e |-> req[t].e, v |-> "v1"]
  <2>0. /\ UNCHANGED <<now, cache, blind>> /\ pc[t] = "nxput" /\ c \in Codes
        /\ lock = t /\ \A o \in Threads \ {t} : pc[o] # "nxput"
        /\ c \notin raced => row[c] = None
        /\ c \notin blind => row[c] = None \/ grants[c] = 0
    BY <1>9, <1>f DEF NxPut, Fits, RowInv, NxHolds
  <2>1. PICK o \in Outcomes :
          /\ Write(t, {d \in {c} : o = "ok"}, x, TRUE)
          /\ IF o = "ok" THEN Settled(t, c) /\ Grant({c}) ELSE Refused(t, c) /\ UNCHANGED grants
    BY <1>9 DEF NxPut
  <2> DEFINE S == {d \in {c} : o = "ok"}
  <2>2. Write(t, S, x, TRUE) /\ S \in SUBSET Codes /\ S \subseteq {c}
    BY <2>0, <2>1
  <2>3. Moves(t)
    BY <2>0, <2>1, NxMoves
  <2>4. Grant({c}) \/ UNCHANGED grants
    BY <2>1
  <2> HIDE DEF S, x
  <2>5. AckedRowKept'
    BY <2>0, <2>2, AckStays DEF RowInv
  <2>6. ReadHolds'
    BY <2>0, <2>2, <2>3, ReadStays DEF RowInv
  <2>7. CreatedOnce'
    <3> SUFFICES ASSUME NEW d \in Codes, d \notin blind' PROVE grants'[d] <= 1
      BY DEF CreatedOnce
    <3>1. d \notin blind /\ grants[d] <= 1
      BY <2>0 DEF RowInv, CreatedOnce
    <3>2. CASE Grant({c})
      BY <2>0, <3>1, <3>2, GrantsFall
    <3>3. CASE UNCHANGED grants
      BY <3>1, <3>3
    <3> QED BY <2>4, <3>2, <3>3
  <2>8. NxHolds'
    <3>1. \A p \in Threads : pc'[p] # "nxput"
      BY <2>0, <2>3 DEF Moves
    <3> QED BY <3>1 DEF NxHolds
  <2>9. CacheHolds'
    <3>1. \A d \in S \ (raced' \cup blind') :
            cache.map[d] # None => Past(cache.map[d].e, now) \/ Dropping(d)'
      <4> SUFFICES ASSUME NEW d \in S, d \notin raced' \cup blind', cache.map[d] # None
                   PROVE  Past(cache.map[d].e, now) \/ Dropping(d)'
        OBVIOUS
      <4>1. d = c /\ d \notin raced \cup blind /\ row[d] = None
        BY <2>0, <2>2 DEF Write
      <4>2. Past(cache.map[d].e, now) \/ Dropping(d)
        BY <2>0, <4>1 DEF RowInv, CacheHolds, Dropping
      <4> QED BY <2>0, <2>3, <4>2, DroppingStays
    <3> QED BY <1>f, <2>0, <2>2, <2>3, <3>1, CacheStays DEF RowInv
  <2> QED BY <2>5, <2>6, <2>7, <2>8, <2>9 DEF RowInv
<1> QED BY <1>1, <1>2, <1>3, <1>4, <1>5, <1>6, <1>7, <1>8, <1>9 DEF ThreadStep

LEMMA NextRows ==
    ASSUME TypeInv, RowInv, [Next]_vars
    PROVE  RowInv'
<1>1. CASE UNCHANGED <<now, row, cache, lock, pc, req, history>>
  BY <1>1, RowsSame
<1>2. CASE \E t \in Threads : Request(t) \/ ThreadStep(t)
  BY <1>2, RequestRows, StepRows
<1>3. CASE Tick \/ Compact \/ End
  BY <1>3, TickRows, CompactRows, EndRows
<1> QED BY <1>1, <1>2, <1>3 DEF Next, FlushTake, FlushWrite, Close, Open, vars, history

LEMMA RowsHold == Spec => [](TypeInv /\ RowInv)
<1>1. Init => TypeInv /\ RowInv
  BY InitType, InitRows
<1>2. TypeInv /\ RowInv /\ [Next]_vars => (TypeInv /\ RowInv)'
  BY NextType, NextRows
<1> QED BY <1>1, <1>2, PTL DEF Spec

(* Reads that reap, compactions, failed calls, bulk calls and restarts     *)
(* neither lose the row that clients were last told of nor bring another   *)
(* back, unless two threads wrote the code at once.                        *)
THEOREM RocksAckedRowKept == Spec => []AckedRowKept
<1>1. TypeInv /\ RowInv => AckedRowKept
  BY DEF RowInv
<1> QED BY <1>1, RowsHold, PTL

(* Once an update or a removal has returned, the cache answers             *)
(* accordingly.                                                            *)
THEOREM RocksReadsOwnWrites == Spec => []ReadsOwnWrites
<1>1. TypeInv /\ RowInv => ReadsOwnWrites
  <2> SUFFICES ASSUME TypeInv, RowInv PROVE ReadsOwnWrites
    OBVIOUS
  <2>1. CacheHolds
    BY DEF RowInv
  <2> QED BY <2>1 DEF CacheHolds, ReadsOwnWrites, Answers
<1> QED BY <1>1, RowsHold, PTL

(* put_nx never tells two clients that the same row is theirs.             *)
THEOREM RocksCreatedOnce == Spec => []CreatedOnce
<1>1. TypeInv /\ RowInv => CreatedOnce
  BY DEF RowInv
<1> QED BY <1>1, RowsHold, PTL
=============================================================================
