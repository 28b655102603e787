---------------------------- MODULE KvStoreProofs ----------------------------
(***************************************************************************)
(* The safety properties of the engine over an external server, for any    *)
(* number of nodes, threads, codes, urls, faults and steps.                *)
(***************************************************************************)
EXTENDS KvStore, LruProofs

TypeInv == TypeOK /\ HistoryOK /\ RequestOK

-----------------------------------------------------------------------------
(* Types of what the actions are made of.                                  *)

LEMMA SpendType ==
    ASSUME spent \in [Kinds -> Nat], NEW k \in Kinds, Spend(k)
    PROVE  spent' \in [Kinds -> Nat]
BY DEF Spend, Kinds

LEMMA CostType ==
    ASSUME spent \in [Kinds -> Nat], NEW o, Cost(o)
    PROVE  spent' \in [Kinds -> Nat]
<1>1. CASE o = "ok"
  BY <1>1 DEF Cost
<1>2. CASE o # "ok"
  BY <1>2, SpendType DEF Cost, Kinds
<1> QED BY <1>1, <1>2

LEMMA UntilType ==
    ASSUME now \in Nat, NEW ttl \in Nat
    PROVE  Until(ttl) \in Nat /\ (ttl > 0 => Until(ttl) > 0 /\ Until(ttl) = now + ttl)
BY DEF Until

LEMMA KeptType ==
    ASSUME now \in Nat, NEW u \in Urls, NEW e \in Nat, NEW px \in Nat
    PROVE  Kept(u, e, px) \in Rows
<1>1. (IF layout = "key" /\ px > 0 THEN now + px ELSE 0) \in Nat
  OBVIOUS
<1> QED BY <1>1 DEF Kept, Rows

(* What a typed state gives, in the form the steps below use.              *)
LEMMA TypeFacts ==
    ASSUME TypeInv
    PROVE  /\ now \in Nat /\ now \in 0..MaxNow /\ spent \in [Kinds -> Nat] /\ layout \in Layouts
           /\ row \in [Codes -> Rows \cup {None}] /\ count \in [Codes -> Nat]
           /\ mode \in [Nodes -> {"up", "join", "last", "closed", "down"}]
           /\ cache \in [Nodes -> Shards] /\ \A n \in Nodes : CacheOK(cache[n])
           /\ dirty \in [Nodes -> [Codes -> Nat]] /\ batch \in [Nodes -> [Codes -> Nat]]
           /\ fpc \in [Nodes -> BOOLEAN] /\ dead \in [Nodes -> SUBSET Codes]
           /\ pc \in [Threads -> Steps] /\ req \in [Threads -> Reqs]
           /\ HistoryOK /\ RequestOK
           /\ \A t \in Threads : Home[t] \in Nodes
BY KvAssumption DEF TypeInv, TypeOK, CacheOK

(* And what makes one.                                                     *)
LEMMA TypeFrom ==
    ASSUME now' \in 0..MaxNow, spent' \in [Kinds -> Nat], layout' \in Layouts,
           row' \in [Codes -> Rows \cup {None}], count' \in [Codes -> Nat],
           mode' \in [Nodes -> {"up", "join", "last", "closed", "down"}],
           cache' \in [Nodes -> Shards], \A n \in Nodes : CacheOK(cache'[n]),
           dirty' \in [Nodes -> [Codes -> Nat]], batch' \in [Nodes -> [Codes -> Nat]],
           fpc' \in [Nodes -> BOOLEAN], dead' \in [Nodes -> SUBSET Codes],
           pc' \in [Threads -> Steps], req' \in [Threads -> Reqs], HistoryOK', RequestOK'
    PROVE  TypeInv'
BY DEF TypeInv, TypeOK, CacheOK, Consistent

LEMMA IdleType == Idle \in Reqs /\ \A p : p = "idle" => Fits(p, Idle)
BY DEF Idle, Reqs, Fits

LEMMA GoType ==
    ASSUME pc \in [Threads -> Steps], req \in [Threads -> Reqs], RequestOK, UNCHANGED now,
           NEW t \in Threads, NEW to \in Steps, NEW r \in Reqs, Fits(to, r), Go(t, to, r)
    PROVE  /\ pc' \in [Threads -> Steps] /\ req' \in [Threads -> Reqs] /\ RequestOK'
           /\ pc'[t] = to /\ req'[t] = r
           /\ \A o \in Threads \ {t} : pc'[o] = pc[o] /\ req'[o] = req[o]
<1>1. /\ pc' = [pc EXCEPT ![t] = to] /\ req' = [req EXCEPT ![t] = r]
  BY DEF Go
<1>2. /\ pc' \in [Threads -> Steps] /\ req' \in [Threads -> Reqs]
      /\ pc'[t] = to /\ req'[t] = r
      /\ \A o \in Threads \ {t} : pc'[o] = pc[o] /\ req'[o] = req[o]
  BY <1>1
<1>3. \A o \in Threads : Fits(pc'[o], req'[o])
  <2> TAKE o \in Threads
  <2>1. CASE o = t
    BY <1>2, <2>1
  <2>2. CASE o # t
    BY <1>2, <2>2 DEF RequestOK
  <2> QED BY <2>1, <2>2
<1>4. RequestOK'
  BY <1>3 DEF RequestOK, Fits
<1> QED BY <1>2, <1>4

LEMMA DoneType ==
    ASSUME pc \in [Threads -> Steps], req \in [Threads -> Reqs], RequestOK, UNCHANGED now,
           NEW t \in Threads, Done(t)
    PROVE  /\ pc' \in [Threads -> Steps] /\ req' \in [Threads -> Reqs] /\ RequestOK'
           /\ pc'[t] = "idle" /\ req'[t] = Idle
           /\ \A o \in Threads \ {t} : pc'[o] = pc[o] /\ req'[o] = req[o]
BY IdleType, GoType DEF Done, Steps

LEMMA SameRequests == ASSUME RequestOK, UNCHANGED <<now, pc, req>> PROVE RequestOK'
BY DEF RequestOK, Fits

(* Steps that write no row.                                                *)
LEMMA SameHistory ==
    ASSUME HistoryOK, UNCHANGED <<now, last, grants, blind, renewed>>, served' \in [Codes -> Nat]
    PROVE  HistoryOK'
BY DEF HistoryOK

LEMMA SameCaches ==
    ASSUME \A n \in Nodes : CacheOK(cache[n]), UNCHANGED cache
    PROVE  \A n \in Nodes : CacheOK(cache'[n])
OBVIOUS

LEMMA NewCache ==
    ASSUME \A n \in Nodes : CacheOK(cache[n]), cache \in [Nodes -> Shards],
           NEW n \in Nodes, NEW s, CacheOK(s), cache' = [cache EXCEPT ![n] = s]
    PROVE  cache' \in [Nodes -> Shards] /\ \A m \in Nodes : CacheOK(cache'[m])
<1>1. s \in Shards
  BY DEF CacheOK
<1> QED BY <1>1

LEMMA NoteType ==
    ASSUME HistoryOK, now \in Nat, Note
    PROVE  /\ last' \in [Codes -> [Urls -> Nat]]
           /\ \A c \in Codes, u \in Urls : last'[c][u] <= now /\ last[c][u] <= last'[c][u]
           /\ \A c \in Codes, u \in Urls : Target(c, u) => last'[c][u] = now
<1>1. \A c \in Codes, u \in Urls : last'[c][u] = IF Target(c, u) THEN now ELSE last[c][u]
  BY DEF Note
<1>2. \A c \in Codes, u \in Urls : last[c][u] \in Nat /\ last[c][u] <= now
  BY DEF HistoryOK
<1>3. \A c \in Codes, u \in Urls : (IF Target(c, u) THEN now ELSE last[c][u]) \in Nat
  BY <1>2
<1>4. last' \in [Codes -> [Urls -> Nat]]
  BY <1>3 DEF Note
<1> QED BY <1>1, <1>2, <1>4

LEMMA BumpType ==
    ASSUME dirty \in [Nodes -> [Codes -> Nat]], served \in [Codes -> Nat],
           NEW n \in Nodes, NEW c \in Codes, Bump(n, c)
    PROVE  dirty' \in [Nodes -> [Codes -> Nat]] /\ served' \in [Codes -> Nat]
<1>1. dirty[n] \in [Codes -> Nat] /\ dirty[n][c] + 1 \in Nat
  OBVIOUS
<1>2. [dirty[n] EXCEPT ![c] = @ + 1] \in [Codes -> Nat]
  BY <1>1
<1>3. dirty' = [dirty EXCEPT ![n] = [dirty[n] EXCEPT ![c] = @ + 1]]
  BY DEF Bump
<1> QED BY <1>2, <1>3 DEF Bump

LEMMA SetNxType ==
    ASSUME TypeInv, UNCHANGED <<now, served>>, blind' \subseteq Codes,
           NEW S \in SUBSET Codes, NEW T, NEW r \in Reqs, r.u \in Urls, SetNx(S, T, r)
    PROVE  /\ row' \in [Codes -> Rows \cup {None}] /\ count' \in [Codes -> Nat]
           /\ layout' \in Layouts /\ HistoryOK'
<1>f. /\ now \in Nat /\ row \in [Codes -> Rows \cup {None}] /\ count \in [Codes -> Nat]
      /\ HistoryOK /\ layout \in Layouts /\ grants \in [Codes -> Nat]
  BY TypeFacts DEF HistoryOK
<1>1. Kept(r.u, r.e, r.px) \in Rows
  BY <1>f, KeptType DEF Reqs
<1>2. row' \in [Codes -> Rows \cup {None}]
  BY <1>f, <1>1 DEF SetNx
<1>3. \A c \in Codes : (IF c \in S /\ ~ Visible(row[c]) THEN 0 ELSE grants[c])
                          + (IF c \in T THEN 1 ELSE 0) \in Nat
  BY <1>f
<1>4. grants' \in [Codes -> Nat]
  BY <1>3 DEF SetNx
<1>5. renewed' \subseteq Codes
  BY <1>f DEF SetNx, Renew, HistoryOK
<1>6. last' \in [Codes -> [Urls -> Nat]] /\ \A c \in Codes, u \in Urls : last'[c][u] <= now
  BY <1>f, NoteType DEF SetNx
<1> QED BY <1>f, <1>2, <1>4, <1>5, <1>6 DEF SetNx, HistoryOK

LEMMA DelType ==
    ASSUME TypeInv, UNCHANGED <<now, served, blind>>, renewed' \subseteq Codes,
           NEW S, Del(S)
    PROVE  /\ row' \in [Codes -> Rows \cup {None}] /\ count' \in [Codes -> Nat]
           /\ layout' \in Layouts /\ HistoryOK'
<1>f. /\ now \in Nat /\ row \in [Codes -> Rows \cup {None}] /\ count \in [Codes -> Nat]
      /\ HistoryOK /\ layout \in Layouts /\ grants \in [Codes -> Nat]
  BY TypeFacts DEF HistoryOK
<1>1. row' \in [Codes -> Rows \cup {None}] /\ grants' \in [Codes -> Nat]
  BY <1>f DEF Del
<1>2. last' \in [Codes -> [Urls -> Nat]] /\ \A c \in Codes, u \in Urls : last'[c][u] <= now
  BY <1>f, NoteType DEF Del
<1> QED BY <1>f, <1>1, <1>2 DEF Del, HistoryOK

-----------------------------------------------------------------------------
LEMMA InitType == Init => TypeInv
<1> SUFFICES ASSUME Init PROVE TypeInv
  OBVIOUS
<1>0. now \in Nat /\ now \in 0..MaxNow
  BY KvAssumption DEF Init
<1>1. row \in [Codes -> Rows \cup {None}]
  <2>1. PICK u \in Urls, ttl \in TTLs :
          row = [c \in Codes |-> IF c \in Old THEN Kept(u, Until(ttl), ttl) ELSE None]
    BY DEF Init
  <2>2. ttl \in Nat /\ Until(ttl) \in Nat
    BY <1>0, UntilType, KvAssumption
  <2>3. Kept(u, Until(ttl), ttl) \in Rows
    BY <1>0, <2>2, KeptType
  <2> QED BY <2>1, <2>3
<1>2. cache \in [Nodes -> Shards] /\ \A n \in Nodes : CacheOK(cache[n])
  BY NoCacheOK DEF Init, CacheOK
<1>3. NoHits \in [Codes -> Nat]
  BY DEF NoHits
<1>4. HistoryOK
  <2>1. grants \in [Codes -> Nat] /\ last \in [Codes -> [Urls -> Nat]]
    BY DEF Init
  <2> QED BY <1>0, <1>3, <2>1 DEF Init, HistoryOK
<1>5. RequestOK
  BY IdleType DEF Init, RequestOK
<1>6. TypeOK
  BY <1>0, <1>1, <1>2, <1>3, IdleType DEF Init, TypeOK, CacheOK, Steps
<1> QED BY <1>4, <1>5, <1>6 DEF TypeInv

LEMMA RequestType ==
    ASSUME TypeInv, NEW t \in Threads, Request(t)
    PROVE  TypeInv'
<1>f. /\ now \in Nat /\ now \in 0..MaxNow /\ spent \in [Kinds -> Nat] /\ layout \in Layouts
      /\ row \in [Codes -> Rows \cup {None}] /\ count \in [Codes -> Nat]
      /\ mode \in [Nodes -> {"up", "join", "last", "closed", "down"}]
      /\ cache \in [Nodes -> Shards] /\ \A n \in Nodes : CacheOK(cache[n])
      /\ dirty \in [Nodes -> [Codes -> Nat]] /\ batch \in [Nodes -> [Codes -> Nat]]
      /\ fpc \in [Nodes -> BOOLEAN] /\ dead \in [Nodes -> SUBSET Codes]
      /\ pc \in [Threads -> Steps] /\ req \in [Threads -> Reqs]
      /\ HistoryOK /\ RequestOK /\ Home[t] \in Nodes /\ served \in [Codes -> Nat]
  BY TypeFacts DEF HistoryOK
<1>1. ASSUME NEW c \in Codes, ResolveHit(t, c) PROVE TypeInv'
  <2>1. spent' \in [Kinds -> Nat]
    BY <1>1, <1>f, SpendType DEF ResolveHit, Kinds
  <2>2. dirty' \in [Nodes -> [Codes -> Nat]] /\ served' \in [Codes -> Nat]
    BY <1>1, <1>f, BumpType DEF ResolveHit
  <2>3. HistoryOK' /\ RequestOK'
    BY <1>1, <1>f, <2>2, SameHistory, SameRequests DEF ResolveHit
  <2> QED BY <1>1, <1>f, <2>1, <2>2, <2>3, TypeFrom DEF ResolveHit, Bump, nodes
<1>2. ASSUME NEW c \in Codes, ResolveMiss(t, c) PROVE TypeInv'
  <2>1. spent' \in [Kinds -> Nat]
    BY <1>2, <1>f, SpendType DEF ResolveMiss, Kinds
  <2> DEFINE r == [Idle EXCEPT !.c = c]
  <2>2. r \in Reqs /\ Fits("get", r) /\ "get" \in Steps
    BY DEF Idle, Reqs, Fits, Steps
  <2>3. pc' \in [Threads -> Steps] /\ req' \in [Threads -> Reqs] /\ RequestOK'
    BY <1>2, <1>f, <2>2, GoType DEF ResolveMiss
  <2>4. cache' \in [Nodes -> Shards] /\ \A n \in Nodes : CacheOK(cache'[n])
    <3>1. CacheOK(Looked(cache[Home[t]], c, now))
      BY <1>f, LookedOK
    <3> QED BY <1>2, <1>f, <3>1, NewCache DEF ResolveMiss
  <2>5. HistoryOK'
    BY <1>2, <1>f, SameHistory DEF ResolveMiss
  <2> QED BY <1>2, <1>f, <2>1, <2>3, <2>4, <2>5, TypeFrom DEF ResolveMiss, hits, nodes
<1>3. ASSUME NEW c \in Codes, RemoveRow(t, c) PROVE TypeInv'
  <2>1. spent' \in [Kinds -> Nat]
    BY <1>3, <1>f, SpendType DEF RemoveRow, Kinds
  <2>2. PICK o \in Outcomes :
          /\ Del({d \in {c} : o # "refuse"})
          /\ IF o = "ok" THEN Go(t, "remove", [Idle EXCEPT !.c = c]) ELSE UNCHANGED <<pc, req>>
    BY <1>3 DEF RemoveRow
  <2>3. /\ row' \in [Codes -> Rows \cup {None}] /\ count' \in [Codes -> Nat]
        /\ layout' \in Layouts /\ HistoryOK'
    <3>1. UNCHANGED <<now, served, blind>> /\ renewed' \subseteq Codes
      BY <1>3, <1>f DEF RemoveRow, HistoryOK
    <3> QED BY <2>2, <3>1, DelType
  <2> DEFINE r == [Idle EXCEPT !.c = c]
  <2>4. r \in Reqs /\ Fits("remove", r) /\ "remove" \in Steps
    BY DEF Idle, Reqs, Fits, Steps
  <2>5. pc' \in [Threads -> Steps] /\ req' \in [Threads -> Reqs] /\ RequestOK'
    <3>1. UNCHANGED now
      BY <1>3 DEF RemoveRow
    <3>2. CASE Go(t, "remove", r)
      BY <1>f, <2>4, <3>1, <3>2, GoType
    <3>3. CASE UNCHANGED <<pc, req>>
      BY <1>f, <3>1, <3>3, SameRequests
    <3> QED BY <2>2, <3>2, <3>3
  <2> QED BY <1>3, <1>f, <2>1, <2>3, <2>5, TypeFrom DEF RemoveRow, hits, nodes
<1>4. ASSUME NEW u \in Urls, NEW ttl \in TTLs, NEW c \in Codes \cup {None}, Shorten(t, c, u, ttl)
      PROVE  TypeInv'
  <2>1. /\ spent' \in [Kinds -> Nat] /\ ttl \in Nat /\ Until(ttl) \in Nat
        /\ ttl > 0 => Until(ttl) > 0 /\ Until(ttl) = now + ttl
    BY <1>4, <1>f, SpendType, UntilType, KvAssumption DEF Shorten, Kinds
  <2> DEFINE p == IF c = None THEN "gen" ELSE "alias"
             r == [Idle EXCEPT !.c = c, !.u = u, !.e = Until(ttl), !.px = ttl, !.n = 1]
  <2>2. r \in Reqs /\ r.c = c /\ r.u = u /\ r.e = Until(ttl) /\ r.px = ttl
    BY <2>1 DEF Idle, Reqs
  <2>3. Fits(p, r) /\ p \in Steps
    <3> HIDE DEF r
    <3> QED BY <1>f, <2>1, <2>2 DEF Fits, Steps
  <2>4. pc' \in [Threads -> Steps] /\ req' \in [Threads -> Reqs] /\ RequestOK'
    <3>1. Go(t, p, r) /\ UNCHANGED now
      BY <1>4 DEF Shorten
    <3> HIDE DEF p, r
    <3> QED BY <1>f, <2>2, <2>3, <3>1, GoType
  <2>5. HistoryOK'
    BY <1>4, <1>f, SameHistory DEF Shorten
  <2> QED BY <1>4, <1>f, <2>1, <2>4, <2>5, TypeFrom DEF Shorten, hits, nodes
<1>5. ASSUME NEW u \in Urls, NEW ttl \in TTLs, Bulk(t, u, ttl) PROVE TypeInv'
  <2>1. /\ spent' \in [Kinds -> Nat] /\ ttl \in Nat /\ Until(ttl) \in Nat
        /\ ttl > 0 => Until(ttl) > 0 /\ Until(ttl) = now + ttl
    BY <1>5, <1>f, SpendType, UntilType, KvAssumption DEF Bulk, Kinds
  <2> DEFINE r == [Idle EXCEPT !.u = u, !.e = Until(ttl), !.px = ttl]
  <2>2. r \in Reqs /\ r.u = u /\ r.e = Until(ttl) /\ r.px = ttl
    BY <2>1 DEF Idle, Reqs
  <2>3. Go(t, "bulk", r) /\ UNCHANGED now
    BY <1>5 DEF Bulk
  <2> HIDE DEF r
  <2>4. Fits("bulk", r) /\ "bulk" \in Steps
    BY <1>f, <2>1, <2>2 DEF Fits, Steps
  <2>5. pc' \in [Threads -> Steps] /\ req' \in [Threads -> Reqs] /\ RequestOK'
    BY <1>f, <2>2, <2>3, <2>4, GoType
  <2>6. HistoryOK'
    BY <1>5, <1>f, SameHistory DEF Bulk
  <2> QED BY <1>5, <1>f, <2>1, <2>5, <2>6, TypeFrom DEF Bulk, hits, nodes
<1>6. ASSUME NEW c \in Codes, NEW u \in Urls, NEW ttl \in TTLs \cup {None}, UpdateRead(t, c, u, ttl)
      PROVE  TypeInv'
  <2> DEFINE e == IF ttl = None THEN row[c].e ELSE Until(ttl)
             px == IF e > now THEN e - now ELSE 0
             r == [Idle EXCEPT !.c = c, !.u = u, !.e = e, !.px = px]
  <2>1. spent' \in [Kinds -> Nat]
    BY <1>6, <1>f, SpendType DEF UpdateRead, Kinds
  <2>2. e \in Nat
    <3>1. row[c].e \in Nat
      BY <1>6, <1>f DEF UpdateRead, Visible, Rows
    <3>2. ttl # None => Until(ttl) \in Nat
      BY <1>f, UntilType, KvAssumption
    <3> QED BY <3>1, <3>2
  <2>3. Go(t, "update", r) /\ UNCHANGED now
    BY <1>6 DEF UpdateRead
  <2> HIDE DEF e
  <2>4. px \in Nat /\ (px > 0 => e > 0 /\ e <= now + px)
    BY <1>f, <2>2
  <2> HIDE DEF px
  <2>5. r \in Reqs /\ r.c = c /\ r.u = u /\ r.e = e /\ r.px = px
    BY <2>2, <2>4 DEF Idle, Reqs
  <2> HIDE DEF r
  <2>6. Fits("update", r) /\ "update" \in Steps
    BY <2>4, <2>5 DEF Fits, Steps
  <2>7. pc' \in [Threads -> Steps] /\ req' \in [Threads -> Reqs] /\ RequestOK'
    BY <1>f, <2>3, <2>5, <2>6, GoType
  <2>8. HistoryOK'
    BY <1>6, <1>f, SameHistory DEF UpdateRead
  <2> QED BY <1>6, <1>f, <2>1, <2>7, <2>8, TypeFrom DEF UpdateRead, hits, nodes
<1> QED BY <1>1, <1>2, <1>3, <1>4, <1>5, <1>6 DEF Request

(* What a caller with n more rows to create goes on to.                    *)
LEMMA FurtherType ==
    ASSUME pc \in [Threads -> Steps], req \in [Threads -> Reqs], RequestOK, UNCHANGED now,
           NEW t \in Threads, pc[t] \in {"gen", "bulk"}, NEW n \in Int, Further(t, n)
    PROVE  /\ pc' \in [Threads -> Steps] /\ req' \in [Threads -> Reqs] /\ RequestOK'
           /\ pc'[t] \in {"idle", "retry"}
           /\ \A o \in Threads \ {t} : pc'[o] = pc[o] /\ req'[o] = req[o]
<1>1. CASE n > 0
  <2> DEFINE r == [req[t] EXCEPT !.n = n]
  <2>1. req[t] \in Reqs /\ Fits(pc[t], req[t]) /\ n \in Nat
    BY <1>1 DEF RequestOK
  <2>2. r \in Reqs /\ r.u = req[t].u /\ r.e = req[t].e /\ r.px = req[t].px
    BY <2>1 DEF Reqs
  <2>3. Go(t, "retry", r)
    BY <1>1 DEF Further
  <2> HIDE DEF r
  <2>4. Fits("retry", r) /\ "retry" \in Steps
    BY <2>1, <2>2 DEF Fits, Steps
  <2> QED BY <2>2, <2>3, <2>4, GoType
<1>2. CASE ~ (n > 0)
  BY <1>2, DoneType DEF Further
<1> QED BY <1>1, <1>2

LEMMA StepType ==
    ASSUME TypeInv, NEW t \in Threads, ThreadStep(t)
    PROVE  TypeInv'
<1>f. /\ now \in Nat /\ now \in 0..MaxNow /\ spent \in [Kinds -> Nat] /\ layout \in Layouts
      /\ row \in [Codes -> Rows \cup {None}] /\ count \in [Codes -> Nat]
      /\ mode \in [Nodes -> {"up", "join", "last", "closed", "down"}]
      /\ cache \in [Nodes -> Shards] /\ \A n \in Nodes : CacheOK(cache[n])
      /\ dirty \in [Nodes -> [Codes -> Nat]] /\ batch \in [Nodes -> [Codes -> Nat]]
      /\ fpc \in [Nodes -> BOOLEAN] /\ dead \in [Nodes -> SUBSET Codes]
      /\ pc \in [Threads -> Steps] /\ req \in [Threads -> Reqs]
      /\ HistoryOK /\ RequestOK /\ Home[t] \in Nodes /\ served \in [Codes -> Nat]
  BY TypeFacts DEF HistoryOK
<1>r. Fits(pc[t], req[t]) /\ req[t] \in Reqs
  BY <1>f DEF RequestOK
<1>1. CASE KvGet(t)
  <2> DEFINE x == row[req[t].c]
             r == [req[t] EXCEPT !.u = x.u, !.e = x.e, !.r = now]
  <2>1. PICK o \in Outcomes \ {"lost"} :
          /\ Cost(o)
          /\ IF o = "ok" /\ Visible(row[req[t].c]) THEN Go(t, "fill", r) ELSE Done(t)
    BY <1>1 DEF KvGet
  <2>2. spent' \in [Kinds -> Nat] /\ UNCHANGED now
    BY <1>1, <1>f, <2>1, CostType DEF KvGet
  <2>3. pc' \in [Threads -> Steps] /\ req' \in [Threads -> Reqs] /\ RequestOK'
    <3>1. CASE Done(t)
      BY <1>f, <2>2, <3>1, DoneType
    <3>2. CASE Visible(x) /\ Go(t, "fill", r)
      <4>1. req[t].c \in Codes /\ x \in Rows
        BY <1>1, <1>f, <1>r, <3>2 DEF KvGet, Fits, Visible
      <4>2. r \in Reqs /\ Fits("fill", r) /\ "fill" \in Steps
        BY <1>f, <1>r, <4>1 DEF Reqs, Rows, Fits, Steps
      <4> HIDE DEF r
      <4> QED BY <1>f, <2>2, <3>2, <4>2, GoType
    <3> QED BY <2>1, <3>1, <3>2
  <2>4. HistoryOK'
    BY <1>1, <1>f, SameHistory DEF KvGet
  <2> QED BY <1>1, <1>f, <2>2, <2>3, <2>4, TypeFrom DEF KvGet, hits, nodes
<1>2. CASE Fill(t)
  <2>1. req[t].c \in Codes /\ UNCHANGED now
    BY <1>2, <1>r DEF Fill, Fits
  <2>2. pc' \in [Threads -> Steps] /\ req' \in [Threads -> Reqs] /\ RequestOK'
    BY <1>2, <1>f, <2>1, DoneType DEF Fill
  <2>3. CASE UNCHANGED <<cache, hits, served>>
    <3>1. HistoryOK'
      BY <1>2, <1>f, <2>3, SameHistory DEF Fill
    <3> QED BY <1>2, <1>f, <2>2, <2>3, <3>1, TypeFrom DEF Fill, hits, nodes
  <2>4. CASE /\ cache' = [cache EXCEPT ![Home[t]] =
                            With(@, req[t].c, [u |-> req[t].u, e |-> req[t].e, at |-> now])]
             /\ Bump(Home[t], req[t].c)
    <3> DEFINE x == [u |-> req[t].u, e |-> req[t].e, at |-> now]
    <3>1. x \in Entries
      BY <1>2, <1>f, <1>r DEF Fill, Fits, Reqs, Entries
    <3>2. cache' = [cache EXCEPT ![Home[t]] = With(cache[Home[t]], req[t].c, x)]
      BY <2>4
    <3> HIDE DEF x
    <3>3. CacheOK(With(cache[Home[t]], req[t].c, x))
      BY <1>f, <2>1, <3>1, WithOK, KvAssumption
    <3>4. cache' \in [Nodes -> Shards] /\ \A n \in Nodes : CacheOK(cache'[n])
      BY <1>f, <3>2, <3>3, NewCache
    <3>5. dirty' \in [Nodes -> [Codes -> Nat]] /\ served' \in [Codes -> Nat]
      BY <1>f, <2>1, <2>4, BumpType
    <3>6. HistoryOK'
      BY <1>2, <1>f, <3>5, SameHistory DEF Fill
    <3> QED BY <1>2, <1>f, <2>2, <2>4, <3>4, <3>5, <3>6, TypeFrom DEF Fill, Bump, nodes
  <2> QED BY <1>2, <2>3, <2>4 DEF Fill
<1>3. CASE SetAlias(t)
  <2> DEFINE c == req[t].c
  <2>1. PICK o \in Outcomes :
          /\ Cost(o)
          /\ SetNx({d \in {c} : o # "refuse"}, {d \in {c} : o = "ok" /\ Creates(d)}, req[t])
    BY <1>3 DEF SetAlias
  <2>2. /\ spent' \in [Kinds -> Nat] /\ UNCHANGED <<now, served, blind>>
        /\ {d \in {c} : o # "refuse"} \in SUBSET Codes /\ req[t].u \in Urls
    BY <1>3, <1>f, <1>r, <2>1, CostType DEF SetAlias, Fits
  <2>3. /\ row' \in [Codes -> Rows \cup {None}] /\ count' \in [Codes -> Nat]
        /\ layout' \in Layouts /\ HistoryOK'
    BY <1>f, <1>r, <2>1, <2>2, SetNxType DEF HistoryOK
  <2>4. pc' \in [Threads -> Steps] /\ req' \in [Threads -> Reqs] /\ RequestOK'
    BY <1>3, <1>f, <2>2, DoneType DEF SetAlias
  <2> QED BY <1>3, <1>f, <2>2, <2>3, <2>4, TypeFrom DEF SetAlias, hits, nodes
<1>4. CASE SetDrawn(t)
  <2>1. PICK c \in Generated, o \in Outcomes :
          /\ Cost(o)
          /\ SetNx({d \in {c} : o # "refuse"}, {d \in {c} : o = "ok" /\ Creates(d)}, req[t])
          /\ IF o = "ok" /\ Creates(c) THEN Further(t, req[t].n - 1) ELSE UNCHANGED <<pc, req>>
    BY <1>4 DEF SetDrawn
  <2>2. /\ spent' \in [Kinds -> Nat] /\ UNCHANGED <<now, served, blind>>
        /\ {d \in {c} : o # "refuse"} \in SUBSET Codes /\ req[t].u \in Urls
        /\ pc[t] = "gen" /\ req[t].n - 1 \in Int
    BY <1>4, <1>f, <1>r, <2>1, CostType, KvAssumption DEF SetDrawn, Fits, Reqs
  <2>3. /\ row' \in [Codes -> Rows \cup {None}] /\ count' \in [Codes -> Nat]
        /\ layout' \in Layouts /\ HistoryOK'
    BY <1>f, <1>r, <2>1, <2>2, SetNxType DEF HistoryOK
  <2>4. pc' \in [Threads -> Steps] /\ req' \in [Threads -> Reqs] /\ RequestOK'
    <3>1. CASE Further(t, req[t].n - 1)
      BY <1>f, <2>2, <3>1, FurtherType
    <3>2. CASE UNCHANGED <<pc, req>>
      BY <1>f, <2>2, <3>2, SameRequests
    <3> QED BY <2>1, <3>1, <3>2
  <2> QED BY <1>4, <1>f, <2>2, <2>3, <2>4, TypeFrom DEF SetDrawn, hits, nodes
<1>5. CASE Retry(t)
  <2> DEFINE r == [req[t] EXCEPT !.e = Until(req[t].px)]
  <2>1. /\ Until(req[t].px) \in Nat /\ req[t].px \in Nat
        /\ req[t].px > 0 => Until(req[t].px) > 0 /\ Until(req[t].px) = now + req[t].px
    BY <1>f, <1>r, UntilType DEF Reqs
  <2>2. r \in Reqs /\ r.u = req[t].u /\ r.e = Until(req[t].px) /\ r.px = req[t].px
    BY <1>r, <2>1 DEF Reqs
  <2>3. Go(t, "gen", r) /\ UNCHANGED now /\ pc[t] = "retry"
    BY <1>5 DEF Retry
  <2> HIDE DEF r
  <2>4. Fits("gen", r) /\ "gen" \in Steps
    BY <1>f, <1>r, <2>1, <2>2, <2>3 DEF Fits, Steps
  <2>5. pc' \in [Threads -> Steps] /\ req' \in [Threads -> Reqs] /\ RequestOK'
    BY <1>f, <2>2, <2>3, <2>4, GoType
  <2>6. HistoryOK'
    BY <1>5, <1>f, SameHistory DEF Retry
  <2> QED BY <1>5, <1>f, <2>5, <2>6, TypeFrom DEF Retry, hits, nodes
<1>6. CASE BulkPipe(t)
  <2>1. PICK S \in SUBSET Generated \ {{}} :
          \/ /\ UNCHANGED <<spent, blind>>
             /\ SetNx(S, {c \in S : Creates(c)}, req[t])
             /\ Further(t, Cardinality({c \in S : ~ Creates(c)}))
          \/ /\ Outcomes # {"ok"} /\ Spend("op")
             /\ \E D \in SUBSET S : SetNx(D, S, req[t])
             /\ blind' = blind \cup S
             /\ Done(t)
    BY <1>6 DEF BulkPipe
  <2>2. /\ UNCHANGED <<now, served>> /\ req[t].u \in Urls /\ pc[t] = "bulk"
        /\ S \in SUBSET Codes /\ blind \subseteq Codes
    BY <1>6, <1>f, <1>r, KvAssumption DEF BulkPipe, Fits, HistoryOK
  <2>3. CASE /\ UNCHANGED <<spent, blind>>
             /\ SetNx(S, {c \in S : Creates(c)}, req[t])
             /\ Further(t, Cardinality({c \in S : ~ Creates(c)}))
    <3>1. /\ row' \in [Codes -> Rows \cup {None}] /\ count' \in [Codes -> Nat]
          /\ layout' \in Layouts /\ HistoryOK'
      BY <1>r, <2>2, <2>3, SetNxType
    <3>2. Cardinality({c \in S : ~ Creates(c)}) \in Int
      <4>1. IsFiniteSet({c \in S : ~ Creates(c)})
        BY <2>2, LruAssumption, FS_Subset
      <4> QED BY <4>1, FS_CardinalityType
    <3>3. pc' \in [Threads -> Steps] /\ req' \in [Threads -> Reqs] /\ RequestOK'
      BY <1>f, <2>2, <2>3, <3>2, FurtherType
    <3> QED BY <1>6, <1>f, <2>3, <3>1, <3>3, TypeFrom DEF BulkPipe, hits, nodes
  <2>4. CASE /\ Spend("op")
             /\ \E D \in SUBSET S : SetNx(D, S, req[t])
             /\ blind' = blind \cup S
             /\ Done(t)
    <3>1. PICK D \in SUBSET S : SetNx(D, S, req[t])
      BY <2>4
    <3>2. D \in SUBSET Codes /\ blind' \subseteq Codes
      BY <2>2, <2>4, <3>1
    <3>3. /\ row' \in [Codes -> Rows \cup {None}] /\ count' \in [Codes -> Nat]
          /\ layout' \in Layouts /\ HistoryOK'
      BY <1>r, <2>2, <3>1, <3>2, SetNxType
    <3>4. pc' \in [Threads -> Steps] /\ req' \in [Threads -> Reqs] /\ RequestOK'
      BY <1>f, <2>2, <2>4, DoneType
    <3>5. spent' \in [Kinds -> Nat]
      BY <1>f, <2>4, SpendType DEF Kinds
    <3> QED BY <1>6, <1>f, <3>3, <3>4, <3>5, TypeFrom DEF BulkPipe, hits, nodes
  <2> QED BY <2>1, <2>3, <2>4
<1>7. CASE UpdateSet(t)
  <2> DEFINE c == req[t].c
  <2>1. PICK o \in Outcomes :
          /\ Cost(o)
          /\ IF o = "refuse"
             THEN UNCHANGED <<row, grants, last, renewed>>
             ELSE /\ row' = [row EXCEPT ![c] = Kept(req[t].u, req[t].e, req[t].px)]
                  /\ grants' = [grants EXCEPT ![c] = IF Visible(row[c]) THEN @ ELSE 0]
                  /\ Renew({c})
                  /\ Note
          /\ IF o = "ok" THEN Go(t, "forget", req[t]) ELSE Done(t)
    BY <1>7 DEF UpdateSet
  <2>2. /\ spent' \in [Kinds -> Nat] /\ UNCHANGED <<now, served, blind>>
        /\ c \in Codes /\ req[t].u \in Urls
    BY <1>7, <1>f, <1>r, <2>1, CostType DEF UpdateSet, Fits
  <2>3. Kept(req[t].u, req[t].e, req[t].px) \in Rows
    BY <1>f, <1>r, <2>2, KeptType DEF Reqs
  <2>4. row' \in [Codes -> Rows \cup {None}]
    BY <1>f, <2>1, <2>2, <2>3
  <2>5. HistoryOK'
    <3>1. CASE UNCHANGED <<grants, last, renewed>>
      BY <1>f, <2>2, <3>1, SameHistory
    <3>2. CASE /\ grants' = [grants EXCEPT ![c] = IF Visible(row[c]) THEN @ ELSE 0]
               /\ Renew({c}) /\ Note
      <4>1. grants' \in [Codes -> Nat] /\ renewed' \subseteq Codes
        BY <1>f, <2>2, <3>2 DEF Renew, HistoryOK
      <4>2. last' \in [Codes -> [Urls -> Nat]] /\ \A d \in Codes, u \in Urls : last'[d][u] <= now
        BY <1>f, <3>2, NoteType
      <4> QED BY <1>f, <2>2, <4>1, <4>2 DEF HistoryOK
    <3> QED BY <2>1, <3>1, <3>2
  <2>6. pc' \in [Threads -> Steps] /\ req' \in [Threads -> Reqs] /\ RequestOK'
    <3>1. Fits("forget", req[t]) /\ "forget" \in Steps
      BY <2>2 DEF Fits, Steps
    <3> QED BY <1>f, <1>r, <2>1, <2>2, <3>1, GoType, DoneType
  <2> QED BY <1>7, <1>f, <2>2, <2>4, <2>5, <2>6, TypeFrom DEF UpdateSet, hits, nodes
<1>8. CASE RemoveHits(t)
  <2>1. PICK o \in Outcomes :
          /\ Cost(o)
          /\ count' = IF o = "refuse" THEN count ELSE [count EXCEPT ![req[t].c] = 0]
    BY <1>8 DEF RemoveHits
  <2>2. spent' \in [Kinds -> Nat] /\ count' \in [Codes -> Nat]
    BY <1>f, <2>1, CostType
  <2>3. pc' \in [Threads -> Steps] /\ req' \in [Threads -> Reqs] /\ RequestOK'
    <3>1. Fits("forget", req[t]) /\ "forget" \in Steps
      BY <1>8, <1>r DEF RemoveHits, Fits, Steps
    <3> QED BY <1>8, <1>f, <1>r, <3>1, GoType DEF RemoveHits
  <2>4. HistoryOK'
    BY <1>8, <1>f, SameHistory DEF RemoveHits
  <2> QED BY <1>8, <1>f, <2>2, <2>3, <2>4, TypeFrom DEF RemoveHits, hits, nodes
<1>9. CASE Forget(t)
  <2>1. CacheOK(Without(cache[Home[t]], req[t].c))
    BY <1>9, <1>f, <1>r, WithoutOK DEF Forget, Fits
  <2>2. cache' \in [Nodes -> Shards] /\ \A n \in Nodes : CacheOK(cache'[n])
    BY <1>9, <1>f, <2>1, NewCache DEF Forget
  <2>3. pc' \in [Threads -> Steps] /\ req' \in [Threads -> Reqs] /\ RequestOK'
    BY <1>9, <1>f, DoneType DEF Forget
  <2>4. HistoryOK'
    BY <1>9, <1>f, SameHistory DEF Forget
  <2> QED BY <1>9, <1>f, <2>2, <2>3, <2>4, TypeFrom DEF Forget, hits, nodes
<1> QED BY <1>1, <1>2, <1>3, <1>4, <1>5, <1>6, <1>7, <1>8, <1>9 DEF ThreadStep

LEMMA NodeType ==
    ASSUME TypeInv, NEW n \in Nodes, NodeStep(n)
    PROVE  TypeInv'
<1>f. /\ now \in Nat /\ now \in 0..MaxNow /\ spent \in [Kinds -> Nat] /\ layout \in Layouts
      /\ row \in [Codes -> Rows \cup {None}] /\ count \in [Codes -> Nat]
      /\ mode \in [Nodes -> {"up", "join", "last", "closed", "down"}]
      /\ cache \in [Nodes -> Shards] /\ \A m \in Nodes : CacheOK(cache[m])
      /\ dirty \in [Nodes -> [Codes -> Nat]] /\ batch \in [Nodes -> [Codes -> Nat]]
      /\ fpc \in [Nodes -> BOOLEAN] /\ dead \in [Nodes -> SUBSET Codes]
      /\ pc \in [Threads -> Steps] /\ req \in [Threads -> Reqs]
      /\ HistoryOK /\ RequestOK /\ served \in [Codes -> Nat]
  BY TypeFacts DEF HistoryOK
<1>n. NoHits \in [Codes -> Nat]
  BY DEF NoHits
<1>1. CASE FlushTake(n)
  <2>1. /\ mode' \in [Nodes -> {"up", "join", "last", "closed", "down"}]
        /\ fpc' \in [Nodes -> BOOLEAN] /\ batch' \in [Nodes -> [Codes -> Nat]]
        /\ dirty' \in [Nodes -> [Codes -> Nat]]
    BY <1>1, <1>f, <1>n DEF FlushTake
  <2>2. HistoryOK' /\ RequestOK'
    BY <1>1, <1>f, SameHistory, SameRequests DEF FlushTake
  <2> QED BY <1>1, <1>f, <2>1, <2>2, TypeFrom DEF FlushTake
<1>2. CASE FlushSend(n)
  <2>1. PICK o \in {"ok", "fail"}, S \in SUBSET {c \in Codes : batch[n][c] > 0} :
          /\ IF o = "ok"
             THEN S = {c \in Codes : batch[n][c] > 0} /\ UNCHANGED spent
             ELSE Outcomes # {"ok"} /\ batch[n] # NoHits /\ Spend("op")
          /\ count' = [c \in Codes |-> count[c] + (IF c \in S THEN batch[n][c] ELSE 0)]
          /\ dirty' = [dirty EXCEPT ![n] = [c \in Codes |-> @[c] + Unsent(n, o)[c]]]
    BY <1>2 DEF FlushSend
  <2>2. spent' \in [Kinds -> Nat]
    BY <1>f, <2>1, SpendType DEF Kinds
  <2>3. count' \in [Codes -> Nat]
    <3>1. \A c \in Codes : count[c] + (IF c \in S THEN batch[n][c] ELSE 0) \in Nat
      BY <1>f
    <3> QED BY <2>1, <3>1
  <2>4. dirty' \in [Nodes -> [Codes -> Nat]]
    <3>1. [c \in Codes |-> dirty[n][c] + Unsent(n, o)[c]] \in [Codes -> Nat]
      BY <1>f DEF Unsent, NoHits
    <3> QED BY <1>f, <2>1, <3>1
  <2>5. /\ mode' \in [Nodes -> {"up", "join", "last", "closed", "down"}]
        /\ fpc' \in [Nodes -> BOOLEAN] /\ batch' \in [Nodes -> [Codes -> Nat]]
    BY <1>2, <1>f, <1>n DEF FlushSend
  <2>6. HistoryOK' /\ RequestOK'
    BY <1>2, <1>f, SameHistory, SameRequests DEF FlushSend
  <2> QED BY <1>2, <1>f, <2>2, <2>3, <2>4, <2>5, <2>6, TypeFrom DEF FlushSend
<1>3. CASE SweepScan(n)
  <2>1. dead' \in [Nodes -> SUBSET Codes]
    BY <1>3, <1>f DEF SweepScan, ExpiredFields
  <2>2. HistoryOK' /\ RequestOK'
    BY <1>3, <1>f, SameHistory, SameRequests DEF SweepScan
  <2> QED BY <1>3, <1>f, <2>1, <2>2, TypeFrom DEF SweepScan, hits
<1>4. CASE SweepDel(n)
  <2>1. PICK S : Del(S) /\ (UNCHANGED spent \/ Spend("op"))
    BY <1>4 DEF SweepDel
  <2>2. spent' \in [Kinds -> Nat] /\ dead' \in [Nodes -> SUBSET Codes]
    BY <1>4, <1>f, <2>1, SpendType DEF SweepDel, Kinds
  <2>3. UNCHANGED <<now, served, blind>> /\ renewed' \subseteq Codes
    BY <1>4, <1>f DEF SweepDel, HistoryOK
  <2>4. /\ row' \in [Codes -> Rows \cup {None}] /\ count' \in [Codes -> Nat]
        /\ layout' \in Layouts /\ HistoryOK'
    BY <2>1, <2>3, DelType
  <2>5. RequestOK'
    BY <1>4, <1>f, SameRequests DEF SweepDel
  <2> QED BY <1>4, <1>f, <2>2, <2>4, <2>5, TypeFrom DEF SweepDel, hits
<1>5. CASE Close(n)
  <2>1. /\ spent' \in [Kinds -> Nat]
        /\ mode' \in [Nodes -> {"up", "join", "last", "closed", "down"}]
    BY <1>5, <1>f, SpendType DEF Close, Kinds
  <2>2. HistoryOK' /\ RequestOK'
    BY <1>5, <1>f, SameHistory, SameRequests DEF Close
  <2> QED BY <1>5, <1>f, <2>1, <2>2, TypeFrom DEF Close, hits
<1>6. CASE End(n)
  <2>1. spent' \in [Kinds -> Nat]
    BY <1>6, <1>f, SpendType DEF End, Kinds
  <2>2. /\ mode' \in [Nodes -> {"up", "join", "last", "closed", "down"}]
        /\ fpc' \in [Nodes -> BOOLEAN] /\ batch' \in [Nodes -> [Codes -> Nat]]
        /\ dirty' \in [Nodes -> [Codes -> Nat]] /\ dead' \in [Nodes -> SUBSET Codes]
    BY <1>6, <1>f, <1>n DEF End
  <2>3. cache' \in [Nodes -> Shards] /\ \A m \in Nodes : CacheOK(cache'[m])
    BY <1>6, <1>f, NoCacheOK, NewCache DEF End
  <2>4. pc' \in [Threads -> Steps] /\ req' \in [Threads -> Reqs]
    BY <1>6, <1>f, IdleType DEF End, Steps
  <2>5. RequestOK'
    <3> SUFFICES ASSUME NEW t \in Threads PROVE Fits(pc'[t], req'[t])
      BY <1>6 DEF End, RequestOK, Fits
    <3> QED BY <1>6, <1>f, IdleType DEF End, RequestOK
  <2>6. HistoryOK'
    BY <1>6, <1>f, SameHistory DEF End
  <2> QED BY <1>6, <1>f, <2>1, <2>2, <2>3, <2>4, <2>5, <2>6, TypeFrom DEF End
<1>7. CASE Open(n)
  <2>1. mode' \in [Nodes -> {"up", "join", "last", "closed", "down"}]
    BY <1>7, <1>f DEF Open
  <2>2. HistoryOK' /\ RequestOK'
    BY <1>7, <1>f, SameHistory, SameRequests DEF Open
  <2> QED BY <1>7, <1>f, <2>1, <2>2, TypeFrom DEF Open, hits
<1> QED BY <1>1, <1>2, <1>3, <1>4, <1>5, <1>6, <1>7 DEF NodeStep

LEMMA NextType ==
    ASSUME TypeInv, [Next]_vars
    PROVE  TypeInv'
<1>f. /\ now \in Nat /\ now \in 0..MaxNow /\ spent \in [Kinds -> Nat] /\ layout \in Layouts
      /\ row \in [Codes -> Rows \cup {None}] /\ count \in [Codes -> Nat]
      /\ mode \in [Nodes -> {"up", "join", "last", "closed", "down"}]
      /\ cache \in [Nodes -> Shards] /\ \A m \in Nodes : CacheOK(cache[m])
      /\ dirty \in [Nodes -> [Codes -> Nat]] /\ batch \in [Nodes -> [Codes -> Nat]]
      /\ fpc \in [Nodes -> BOOLEAN] /\ dead \in [Nodes -> SUBSET Codes]
      /\ pc \in [Threads -> Steps] /\ req \in [Threads -> Reqs]
      /\ HistoryOK /\ RequestOK /\ served \in [Codes -> Nat]
  BY TypeFacts DEF HistoryOK
<1>1. CASE Tick
  <2>1. now' \in 0..MaxNow /\ now' = now + 1
    BY <1>1, <1>f, KvAssumption DEF Tick
  <2>2. HistoryOK'
    <3>1. /\ last' \in [Codes -> [Urls -> Nat]]
          /\ \A c \in Codes, u \in Urls : last'[c][u] <= now /\ last'[c][u] \in Nat
      BY <1>1, <1>f, NoteType DEF Tick
    <3>2. \A c \in Codes, u \in Urls : last'[c][u] <= now'
      BY <1>f, <2>1, <3>1
    <3> QED BY <1>1, <1>f, <3>1, <3>2 DEF Tick, HistoryOK
  <2>3. RequestOK'
    <3> SUFFICES ASSUME NEW t \in Threads PROVE Fits(pc[t], req[t])'
      BY DEF RequestOK
    <3>1. req[t].px \in Nat /\ req[t].e \in Nat
      BY <1>f DEF Reqs
    <3> QED BY <1>1, <1>f, <2>1, <3>1 DEF Tick, RequestOK, Fits
  <2> QED BY <1>1, <1>f, <2>1, <2>2, <2>3, TypeFrom DEF Tick, hits, nodes
<1>2. CASE UNCHANGED vars
  <2>1. HistoryOK' /\ RequestOK'
    BY <1>2, <1>f, SameHistory, SameRequests DEF vars
  <2> QED BY <1>2, <1>f, <2>1, TypeFrom DEF vars
<1> QED BY <1>1, <1>2, RequestType, StepType, NodeType DEF Next

LEMMA TypeHolds == Spec => []TypeInv
<1>1. Init => TypeInv
  BY InitType
<1>2. TypeInv /\ [Next]_vars => TypeInv'
  BY NextType
<1> QED BY <1>1, <1>2, PTL DEF Spec

(* Every variable of nodes and server keeps its type, the cache of a node  *)
(* never grows past its size, and its queue and its map hold the same      *)
(* codes, whatever threads, timers and faults do.                          *)
THEOREM KvTypes == Spec => []TypeOK
<1>1. TypeInv => TypeOK
  BY DEF TypeInv
<1> QED BY <1>1, TypeHolds, PTL

-----------------------------------------------------------------------------
(* The server's NX is one step: what it grants, it has just created.       *)

LEMMA NextCreated ==
    ASSUME TypeInv, CreatedOnce, [Next]_vars
    PROVE  CreatedOnce'
<1>f. grants \in [Codes -> Nat]
  BY TypeFacts DEF HistoryOK
<1> SUFFICES ASSUME NEW c \in Codes, c \notin blind' PROVE grants'[c] <= 1
  BY DEF CreatedOnce
<1>1. blind \subseteq blind'
  <2>1. CASE Tick \/ UNCHANGED vars
    BY <2>1 DEF Tick, vars
  <2>2. ASSUME NEW t \in Threads, Request(t) PROVE blind \subseteq blind'
    BY <2>2 DEF Request, ResolveHit, ResolveMiss, RemoveRow, Shorten, Bulk, UpdateRead
  <2>3. ASSUME NEW t \in Threads, ThreadStep(t) PROVE blind \subseteq blind'
    <3>1. CASE KvGet(t) \/ Fill(t) \/ SetAlias(t) \/ SetDrawn(t) \/ Retry(t)
      BY <3>1 DEF KvGet, Fill, SetAlias, SetDrawn, Retry
    <3>2. CASE BulkPipe(t)
      BY <3>2 DEF BulkPipe
    <3>3. CASE UpdateSet(t) \/ RemoveHits(t) \/ Forget(t)
      BY <3>3 DEF UpdateSet, RemoveHits, Forget
    <3> QED BY <2>3, <3>1, <3>2, <3>3 DEF ThreadStep
  <2>4. ASSUME NEW n \in Nodes, NodeStep(n) PROVE blind \subseteq blind'
    BY <2>4 DEF NodeStep, FlushTake, FlushSend, SweepScan, SweepDel, Close, End, Open
  <2> QED BY <2>1, <2>2, <2>3, <2>4 DEF Next
<1>2. grants[c] <= 1 /\ grants[c] \in Nat
  BY <1>1, <1>f DEF CreatedOnce
<1>3. ASSUME NEW S, NEW T, NEW r, SetNx(S, T, r), c \in T => c \in S /\ ~ Visible(row[c])
      PROVE  grants'[c] <= 1
  <2>1. grants'[c] = (IF c \in S /\ ~ Visible(row[c]) THEN 0 ELSE grants[c]) + (IF c \in T THEN 1 ELSE 0)
    BY <1>3 DEF SetNx
  <2> QED BY <1>2, <1>3, <2>1
<1>4. ASSUME NEW S, Del(S) PROVE grants'[c] <= 1
  BY <1>2, <1>4 DEF Del
<1>5. CASE UNCHANGED grants
  BY <1>2, <1>5
<1>6. CASE \E t \in Threads : Request(t)
  BY <1>4, <1>5, <1>6 DEF Request, ResolveHit, ResolveMiss, RemoveRow, Shorten, Bulk, UpdateRead
<1>7. ASSUME NEW t \in Threads, ThreadStep(t) PROVE grants'[c] <= 1
  <2>1. CASE SetAlias(t)
    BY <1>3, <2>1 DEF SetAlias, Creates
  <2>2. CASE SetDrawn(t)
    BY <1>3, <2>2 DEF SetDrawn, Creates
  <2>3. CASE BulkPipe(t)
    BY <1>3, <2>3 DEF BulkPipe, Creates
  <2>4. CASE UpdateSet(t)
    BY <1>f, <1>2, <2>4 DEF UpdateSet
  <2> QED BY <1>5, <1>7, <2>1, <2>2, <2>3, <2>4 DEF ThreadStep, KvGet, Fill, Retry, RemoveHits, Forget
<1>8. CASE \E n \in Nodes : NodeStep(n)
  BY <1>4, <1>5, <1>8
     DEF NodeStep, FlushTake, FlushSend, SweepScan, SweepDel, Close, End, Open
<1> QED BY <1>5, <1>6, <1>7, <1>8 DEF Next, Tick, vars

(* No two clients are told that the same row is theirs, whichever nodes    *)
(* they asked, unless through a bulk call that has not seen the replies.   *)
THEOREM KvCreatedOnce == Spec => []CreatedOnce
<1>1. Init => TypeInv /\ CreatedOnce
  BY InitType DEF Init, CreatedOnce
<1>2. TypeInv /\ CreatedOnce /\ [Next]_vars => (TypeInv /\ CreatedOnce)'
  BY NextType, NextCreated
<1> QED BY <1>1, <1>2, PTL DEF Spec

-----------------------------------------------------------------------------
(* Hits.                                                                   *)

LEMMA UnflushedType ==
    ASSUME TypeInv, NEW c \in Codes
    PROVE  Unflushed(c) \in [Nodes -> Nat] /\ SumFunction(Unflushed(c)) \in Nat
<1>1. \A n \in Nodes : dirty[n][c] + batch[n][c] \in Nat
  BY TypeFacts
<1>2. Unflushed(c) \in [Nodes -> Nat]
  BY <1>1 DEF Unflushed
<1> QED BY <1>2, SumIsNatural, KvAssumption

(* One node alone has other hits in hand: the sum moves by the difference. *)
LEMMA UnflushedMove ==
    ASSUME TypeInv, TypeInv', NEW c \in Codes, NEW n \in Nodes,
           \A m \in Nodes \ {n} : dirty'[m] = dirty[m] /\ batch'[m] = batch[m]
    PROVE  /\ SumFunction(Unflushed(c)) \in Nat /\ SumFunction(Unflushed(c))' \in Nat
           /\ SumFunction(Unflushed(c))' + (dirty[n][c] + batch[n][c])
                = SumFunction(Unflushed(c)) + (dirty'[n][c] + batch'[n][c])
<1> DEFINE w == Unflushed(c)
           v == [m \in Nodes |-> dirty'[m][c] + batch'[m][c]]
<1>1. w \in [Nodes -> Nat]
  BY UnflushedType
<1>2. \A m \in Nodes : dirty'[m][c] + batch'[m][c] \in Nat
  BY DEF TypeInv, TypeOK
<1>3. v \in [Nodes -> Nat] /\ Unflushed(c)' = v
  BY <1>2 DEF Unflushed
<1>4. w[n] = dirty[n][c] + batch[n][c] /\ v[n] = dirty'[n][c] + batch'[n][c]
  BY DEF Unflushed
<1>5. \A m \in Nodes \ {n} : v[m] = w[m]
  BY DEF Unflushed
<1> HIDE DEF w, v
<1>6. /\ SumFunction(v) \in Nat /\ SumFunction(w) \in Nat
      /\ SumFunction(v) + w[n] = SumFunction(w) + v[n]
  BY <1>1, <1>3, <1>5, SumUpdate, KvAssumption
<1>7. SumFunction(Unflushed(c))' = SumFunction(v)
  BY <1>3 DEF SumFunction, SumFunctionOnSet, FoldFunctionOnSet, MapThenFoldSet
<1> QED BY <1>4, <1>6, <1>7 DEF w

LEMMA HitsAlone ==
    ASSUME TypeInv, TypeInv', HitsNeverDoubled, UNCHANGED <<dirty, batch, served>>,
           \A c \in Codes : count'[c] <= count[c]
    PROVE  HitsNeverDoubled'
<1> SUFFICES ASSUME NEW c \in Codes
             PROVE  count'[c] + SumFunction(Unflushed(c))' <= served'[c]
  BY DEF HitsNeverDoubled
<1>1. Unflushed(c)' = Unflushed(c)
  BY DEF Unflushed
<1>2. SumFunction(Unflushed(c))' = SumFunction(Unflushed(c))
  BY <1>1 DEF SumFunction, SumFunctionOnSet, FoldFunctionOnSet, MapThenFoldSet
<1>3. /\ count[c] \in Nat /\ served[c] \in Nat /\ SumFunction(Unflushed(c)) \in Nat
      /\ count[c] + SumFunction(Unflushed(c)) <= served[c]
  BY TypeFacts, UnflushedType DEF HistoryOK, HitsNeverDoubled
<1>4. count'[c] \in Nat
  BY DEF TypeInv, TypeOK
<1> QED BY <1>2, <1>3, <1>4

LEMMA InitHits == Init => HitsNeverDoubled
<1> SUFFICES ASSUME Init, NEW c \in Codes
             PROVE  count[c] + SumFunction(Unflushed(c)) <= served[c]
  BY DEF HitsNeverDoubled
<1>1. Unflushed(c) = [n \in Nodes |-> 0]
  BY DEF Init, Unflushed, NoHits
<1>2. SumFunction(Unflushed(c)) = 0
  BY <1>1, SumOfZeros, KvAssumption
<1> QED BY <1>2 DEF Init, NoHits

LEMMA BumpHits ==
    ASSUME TypeInv, TypeInv', HitsNeverDoubled, NEW n \in Nodes, NEW d \in Codes, Bump(n, d),
           UNCHANGED count
    PROVE  HitsNeverDoubled'
<1> SUFFICES ASSUME NEW c \in Codes
             PROVE  count'[c] + SumFunction(Unflushed(c))' <= served'[c]
  BY DEF HitsNeverDoubled
<1>1. /\ count[c] \in Nat /\ served[c] \in Nat /\ dirty[n][c] \in Nat /\ batch[n][c] \in Nat
      /\ count[c] + SumFunction(Unflushed(c)) <= served[c]
      /\ dirty \in [Nodes -> [Codes -> Nat]] /\ served \in [Codes -> Nat]
  BY TypeFacts DEF HistoryOK, HitsNeverDoubled
<1>2. \A m \in Nodes \ {n} : dirty'[m] = dirty[m] /\ batch'[m] = batch[m]
  BY <1>1 DEF Bump
<1>3. /\ SumFunction(Unflushed(c)) \in Nat /\ SumFunction(Unflushed(c))' \in Nat
      /\ SumFunction(Unflushed(c))' + (dirty[n][c] + batch[n][c])
           = SumFunction(Unflushed(c)) + (dirty'[n][c] + batch'[n][c])
  BY <1>2, UnflushedMove
<1>4. batch'[n][c] = batch[n][c]
  BY DEF Bump
<1>5. \/ dirty'[n][c] = dirty[n][c] /\ served'[c] = served[c]
      \/ dirty'[n][c] = dirty[n][c] + 1 /\ served'[c] = served[c] + 1
  BY <1>1 DEF Bump
<1> QED BY <1>1, <1>3, <1>4, <1>5

LEMMA NodeHits ==
    ASSUME TypeInv, TypeInv', HitsNeverDoubled, NEW n \in Nodes,
           FlushTake(n) \/ FlushSend(n) \/ End(n)
    PROVE  HitsNeverDoubled'
<1> SUFFICES ASSUME NEW c \in Codes
             PROVE  count'[c] + SumFunction(Unflushed(c))' <= served'[c]
  BY DEF HitsNeverDoubled
<1>1. /\ count[c] \in Nat /\ served[c] \in Nat /\ dirty[n][c] \in Nat /\ batch[n][c] \in Nat
      /\ count[c] + SumFunction(Unflushed(c)) <= served[c]
      /\ dirty \in [Nodes -> [Codes -> Nat]] /\ batch \in [Nodes -> [Codes -> Nat]]
  BY TypeFacts DEF HistoryOK, HitsNeverDoubled
<1>2. \A m \in Nodes \ {n} : dirty'[m] = dirty[m] /\ batch'[m] = batch[m]
  BY <1>1 DEF FlushTake, FlushSend, End
<1>3. /\ SumFunction(Unflushed(c)) \in Nat /\ SumFunction(Unflushed(c))' \in Nat
      /\ SumFunction(Unflushed(c))' + (dirty[n][c] + batch[n][c])
           = SumFunction(Unflushed(c)) + (dirty'[n][c] + batch'[n][c])
  BY <1>2, UnflushedMove
<1>4. CASE FlushTake(n)
  <2>1. dirty'[n][c] = 0 /\ batch'[n][c] = dirty[n][c] /\ count'[c] = count[c] /\ served'[c] = served[c]
    BY <1>1, <1>4 DEF FlushTake, NoHits
  <2> QED BY <1>1, <1>3, <2>1
<1>5. CASE End(n)
  <2>1. dirty'[n][c] = 0 /\ batch'[n][c] = 0 /\ count'[c] = count[c] /\ served'[c] = served[c]
    BY <1>1, <1>5 DEF End, NoHits
  <2> QED BY <1>1, <1>3, <2>1
<1>6. CASE FlushSend(n)
  <2>1. PICK o \in {"ok", "fail"}, S \in SUBSET {d \in Codes : batch[n][d] > 0} :
          /\ count' = [d \in Codes |-> count[d] + (IF d \in S THEN batch[n][d] ELSE 0)]
          /\ dirty' = [dirty EXCEPT ![n] = [d \in Codes |-> @[d] + Unsent(n, o)[d]]]
    BY <1>6 DEF FlushSend
  <2>2. count'[c] = count[c] \/ count'[c] = count[c] + batch[n][c]
    BY <1>1, <2>1
  <2>3. dirty'[n][c] = dirty[n][c]
    BY <1>1, <2>1 DEF Unsent, NoHits
  <2>4. batch'[n][c] = 0 /\ served'[c] = served[c]
    BY <1>1, <1>6 DEF FlushSend, NoHits
  <2> QED BY <1>1, <1>3, <2>2, <2>3, <2>4
<1> QED BY <1>4, <1>5, <1>6

LEMMA NextHits ==
    ASSUME TypeInv, HitsNeverDoubled, [Next]_vars
    PROVE  HitsNeverDoubled'
<1>f. TypeInv' /\ count \in [Codes -> Nat]
  BY NextType, TypeFacts
<1>s. CASE UNCHANGED <<dirty, batch, served, count>>
  <2>1. \A c \in Codes : count'[c] <= count[c]
    BY <1>f, <1>s
  <2> QED BY <1>f, <1>s, <2>1, HitsAlone
<1>1. ASSUME NEW t \in Threads, Request(t) PROVE HitsNeverDoubled'
  <2>1. CASE \E c \in Codes : ResolveHit(t, c)
    BY <1>f, <2>1, TypeFacts, BumpHits DEF ResolveHit
  <2> QED BY <1>s, <1>1, <2>1
          DEF Request, ResolveMiss, RemoveRow, Del, Shorten, Bulk, UpdateRead, hits
<1>2. ASSUME NEW t \in Threads, ThreadStep(t) PROVE HitsNeverDoubled'
  <2>1. CASE Fill(t)
    <3>1. req[t].c \in Codes /\ Home[t] \in Nodes
      BY <2>1, TypeFacts DEF Fill, RequestOK, Fits
    <3>2. CASE Bump(Home[t], req[t].c)
      BY <1>f, <2>1, <3>1, <3>2, BumpHits DEF Fill
    <3>3. CASE UNCHANGED <<hits, served>>
      BY <1>s, <2>1, <3>3 DEF Fill, hits
    <3> QED BY <2>1, <3>2, <3>3 DEF Fill
  <2>2. CASE RemoveHits(t)
    <3>1. \A c \in Codes : count'[c] \in {count[c], 0}
      BY <1>f, <2>2 DEF RemoveHits
    <3>2. \A c \in Codes : count'[c] <= count[c]
      BY <1>f, <3>1
    <3> QED BY <1>f, <2>2, <3>2, HitsAlone DEF RemoveHits, hits
  <2> QED BY <1>s, <1>2, <2>1, <2>2
          DEF ThreadStep, KvGet, SetAlias, SetDrawn, SetNx, Retry, BulkPipe, UpdateSet, Forget, hits
<1>3. ASSUME NEW n \in Nodes, NodeStep(n) PROVE HitsNeverDoubled'
  <2>1. CASE FlushTake(n) \/ FlushSend(n) \/ End(n)
    BY <1>f, <2>1, NodeHits
  <2> QED BY <1>s, <1>3, <2>1 DEF NodeStep, SweepScan, SweepDel, Del, Close, Open, hits
<1> QED BY <1>s, <1>1, <1>2, <1>3 DEF Next, Tick, vars, hits

(* Whichever nodes flush at the same time, whichever pipes fail half-way   *)
(* and whichever processes end, no hit is counted twice.                   *)
THEOREM KvHitsNeverDoubled == Spec => []HitsNeverDoubled
<1>1. Init => TypeInv /\ HitsNeverDoubled
  BY InitType, InitHits
<1>2. TypeInv /\ HitsNeverDoubled /\ [Next]_vars => (TypeInv /\ HitsNeverDoubled)'
  BY NextType, NextHits
<1> QED BY <1>1, <1>2, PTL DEF Spec

-----------------------------------------------------------------------------
(* How old an answer of the cache can be.  StaleBound is not inductive: it *)
(* needs to know when an entry was put (CacheHolds), and that in turn what *)
(* the answer said that a thread has in hand (ReadHolds).                  *)

StaleInv == ReadHolds /\ CacheHolds

(* Only the clock moves the clock.                                         *)
LEMMA OnlyTick == ASSUME [Next]_vars PROVE Tick \/ now' = now
<1>1. ASSUME NEW t \in Threads, Request(t) PROVE now' = now
  BY <1>1 DEF Request, ResolveHit, ResolveMiss, RemoveRow, Shorten, Bulk, UpdateRead
<1>2. ASSUME NEW t \in Threads, ThreadStep(t) PROVE now' = now
  BY <1>2 DEF ThreadStep, KvGet, Fill, SetAlias, SetDrawn, Retry, BulkPipe, UpdateSet, RemoveHits,
              Forget
<1>3. ASSUME NEW n \in Nodes, NodeStep(n) PROVE now' = now
  BY <1>3 DEF NodeStep, FlushTake, FlushSend, SweepScan, SweepDel, Close, End, Open
<1> QED BY <1>1, <1>2, <1>3 DEF Next, vars

(* Rows and time change only in steps that note the targets before.        *)
LEMMA AlwaysNoted ==
    ASSUME [Next]_vars
    PROVE  Note \/ UNCHANGED <<now, row, last>>
<1>1. ASSUME NEW t \in Threads, Request(t) PROVE Note \/ UNCHANGED <<now, row, last>>
  BY <1>1 DEF Request, ResolveHit, ResolveMiss, RemoveRow, Del, Shorten, Bulk, UpdateRead
<1>2. ASSUME NEW t \in Threads, ThreadStep(t) PROVE Note \/ UNCHANGED <<now, row, last>>
  BY <1>2 DEF ThreadStep, KvGet, Fill, SetAlias, SetDrawn, SetNx, Retry, BulkPipe, UpdateSet,
              RemoveHits, Forget
<1>3. ASSUME NEW n \in Nodes, NodeStep(n) PROVE Note \/ UNCHANGED <<now, row, last>>
  BY <1>3 DEF NodeStep, FlushTake, FlushSend, SweepScan, SweepDel, Del, Close, End, Open
<1> QED BY <1>1, <1>2, <1>3 DEF Next, Tick, vars

(* What was the target at time k or later still is, or was.                *)
LEMMA TargetKept ==
    ASSUME TypeInv, TypeInv', Note \/ UNCHANGED <<now, row, last>>, NEW c \in Codes, NEW u \in Urls,
           NEW k \in Nat, NEW d \in Nat, k <= now, Target(c, u) \/ k <= last[c][u] + d
    PROVE  Target(c, u)' \/ k <= last'[c][u] + d
<1>1. now \in Nat /\ last[c][u] \in Nat /\ last'[c][u] \in Nat
  BY TypeFacts DEF TypeInv, HistoryOK
<1>2. CASE UNCHANGED <<now, row, last>>
  BY <1>2 DEF Target, Visible, Expired, Past
<1>3. CASE Note
  <2>1. last[c][u] <= last'[c][u] /\ (Target(c, u) => last'[c][u] = now)
    BY <1>1, <1>3, TypeFacts, NoteType
  <2> QED BY <1>1, <2>1
<1> QED BY <1>2, <1>3

(* Who has an answer in hand that is to be cached.                         *)
LEMMA FillComesFromGet ==
    ASSUME TypeInv, [Next]_vars, NEW t \in Threads, pc'[t] = "fill"
    PROVE  (pc[t] = "fill" /\ req'[t] = req[t]) \/ KvGet(t)
<1>f. pc \in [Threads -> Steps] /\ req \in [Threads -> Reqs]
  BY TypeFacts
<1>1. CASE UNCHANGED <<pc, req>>
  BY <1>1
<1>2. ASSUME NEW o \in Threads, NEW p, NEW r, Go(o, p, r), p # "fill"
      PROVE  pc[t] = "fill" /\ req'[t] = req[t]
  BY <1>2, <1>f DEF Go
<1>3. ASSUME NEW o \in Threads, Request(o) PROVE pc[t] = "fill" /\ req'[t] = req[t]
  <2>1. CASE UNCHANGED <<pc, req>>
    BY <2>1
  <2>2. CASE \E p \in Steps \ {"fill"} : \E r : Go(o, p, r)
    BY <1>2, <2>2
  <2> QED BY <1>3, <2>1, <2>2
          DEF Request, ResolveHit, ResolveMiss, RemoveRow, Shorten, Bulk, UpdateRead, Steps
<1>4. ASSUME NEW o \in Threads, ThreadStep(o) PROVE (pc[t] = "fill" /\ req'[t] = req[t]) \/ KvGet(t)
  <2>1. CASE UNCHANGED <<pc, req>>
    BY <2>1
  <2>2. CASE \E p \in Steps \ {"fill"} : \E r : Go(o, p, r)
    BY <1>2, <2>2
  <2>3. CASE KvGet(o)
    <3>1. CASE o = t
      BY <2>3, <3>1
    <3>2. CASE o # t
      BY <1>f, <2>3, <3>2 DEF KvGet, Go, Done
    <3> QED BY <3>1, <3>2
  <2> QED BY <1>4, <2>1, <2>2, <2>3
          DEF ThreadStep, Fill, SetAlias, SetDrawn, Further, Retry, BulkPipe, UpdateSet, RemoveHits,
              Forget, Done, Steps
<1>5. ASSUME NEW n \in Nodes, NodeStep(n) PROVE pc[t] = "fill" /\ req'[t] = req[t]
  <2>1. CASE UNCHANGED <<pc, req>>
    BY <2>1
  <2>2. CASE End(n)
    BY <1>f, <2>2 DEF End
  <2> QED BY <1>5, <2>1, <2>2 DEF NodeStep, FlushTake, FlushSend, SweepScan, SweepDel, Close, Open
<1> QED BY <1>1, <1>3, <1>4, <1>5 DEF Next, Tick, vars

LEMMA NextRead ==
    ASSUME TypeInv, ReadHolds, [Next]_vars
    PROVE  ReadHolds'
<1>f. TypeInv' /\ now \in Nat /\ now' \in Nat /\ Latency \in Nat
  BY NextType, TypeFacts, KvAssumption DEF TypeInv, TypeOK
<1> SUFFICES ASSUME NEW t \in Threads, pc'[t] = "fill"
             PROVE  /\ req'[t].r <= now' /\ now' - req'[t].r <= Latency
                    /\ \/ Past(req'[t].e, now')
                       \/ Target(req[t].c, req[t].u)'
                       \/ req'[t].r <= last'[req'[t].c][req'[t].u]
  BY DEF ReadHolds, Expired, Past, Target, Visible
<1>0. req'[t] \in Reqs /\ req'[t].c \in Codes /\ req'[t].u \in Urls
  BY <1>f DEF TypeInv, TypeOK, RequestOK, Fits
<1>1. CASE KvGet(t)
  <2> DEFINE x == row[req[t].c]
             r == [req[t] EXCEPT !.u = x.u, !.e = x.e, !.r = now]
  <2>1. Visible(x) /\ req' = [req EXCEPT ![t] = r] /\ UNCHANGED <<now, row>>
    BY <1>1, TypeFacts DEF KvGet, Done, Go
  <2>2. /\ r.c = req[t].c /\ r.u = x.u /\ r.e = x.e /\ r.r = now
    BY TypeFacts DEF Reqs
  <2>3. req'[t] = r
    BY <2>1, TypeFacts
  <2> HIDE DEF r
  <2>4. Past(req'[t].e, now') \/ Target(req[t].c, req[t].u)'
    BY <2>1, <2>2, <2>3 DEF Target, Visible, Expired, Past
  <2> QED BY <1>f, <2>1, <2>2, <2>3, <2>4
<1>2. CASE pc[t] = "fill" /\ req'[t] = req[t]
  <2>1. req[t].r \in Nat /\ req[t].e \in Nat /\ last[req[t].c][req[t].u] \in Nat
    BY <1>0, <1>2, TypeFacts DEF Reqs, HistoryOK
  <2>2. /\ req[t].r <= now /\ now - req[t].r <= Latency
        /\ Past(req[t].e, now) \/ Target(req[t].c, req[t].u) \/ req[t].r <= last[req[t].c][req[t].u]
    BY <1>2 DEF ReadHolds, Expired
  <2>3. now' = now \/ (now' = now + 1 /\ now - req[t].r < Latency)
    <3>1. CASE Tick
      BY <1>2, <3>1 DEF Tick
    <3>2. CASE now' = now
      BY <3>2
    <3> QED BY <3>1, <3>2, OnlyTick
  <2>4. Past(req[t].e, now) => Past(req[t].e, now')
    BY <1>f, <2>1, <2>3 DEF Past
  <2>5. ASSUME Target(req[t].c, req[t].u) \/ req[t].r <= last[req[t].c][req[t].u]
        PROVE  Target(req[t].c, req[t].u)' \/ req[t].r <= last'[req[t].c][req[t].u]
    <3>1. PICK c \in Codes, u \in Urls : c = req[t].c /\ u = req[t].u
      BY <1>0, <1>2
    <3>2. Note \/ UNCHANGED <<now, row, last>>
      BY AlwaysNoted
    <3>3. Target(c, u) \/ req[t].r <= last[c][u] + 0
      BY <2>1, <2>5, <3>1
    <3>4. Target(c, u)' \/ req[t].r <= last'[c][u] + 0
      BY <1>f, <2>1, <2>2, <3>2, <3>3, TargetKept
    <3>5. CASE req[t].r <= last'[c][u] + 0
      <4>1. last'[c][u] \in Nat
        BY <1>f DEF TypeInv, HistoryOK
      <4> QED BY <2>1, <3>1, <3>5, <4>1
    <3>6. CASE Target(c, u)'
      BY <1>2, <3>1, <3>6 DEF Target
    <3> QED BY <3>4, <3>5, <3>6
  <2>6. /\ req[t].r <= now' /\ now' - req[t].r <= Latency
    BY <1>f, <2>1, <2>2, <2>3
  <2> QED BY <1>2, <2>2, <2>4, <2>5, <2>6
<1> QED BY <1>1, <1>2, FillComesFromGet

(* What comes into a cache comes from Fill.                                *)
LEMMA CachedByFill ==
    ASSUME TypeInv, [Next]_vars, NEW n \in Nodes, NEW c \in Codes
    PROVE  \/ cache'[n].map[c] \in {cache[n].map[c], None}
           \/ \E t \in Threads :
                /\ Fill(t) /\ ~ Past(req[t].e, now) /\ req[t].c = c /\ UNCHANGED <<now, row, last>>
                /\ cache'[n].map[c] = [u |-> req[t].u, e |-> req[t].e, at |-> now]
<1>f. /\ cache \in [Nodes -> Shards] /\ \A m \in Nodes : CacheOK(cache[m])
      /\ now \in Nat /\ \A t \in Threads : Home[t] \in Nodes
  BY TypeFacts
<1>1. CASE UNCHANGED cache
  BY <1>1
<1>2. ASSUME NEW t \in Threads, NEW d \in Codes, ResolveMiss(t, d)
      PROVE  cache'[n].map[c] \in {cache[n].map[c], None}
  <2>1. cache' = [cache EXCEPT ![Home[t]] = Looked(cache[Home[t]], d, now)]
    BY <1>2 DEF ResolveMiss
  <2>2. Looked(cache[Home[t]], d, now).map[c] \in {cache[Home[t]].map[c], None}
    BY <1>f, LookedOK
  <2> QED BY <1>f, <2>1, <2>2
<1>3. ASSUME NEW t \in Threads, Forget(t)
      PROVE  cache'[n].map[c] \in {cache[n].map[c], None}
  <2>1. req[t].c \in Codes
    BY <1>3, TypeFacts DEF Forget, RequestOK, Fits
  <2>2. cache' = [cache EXCEPT ![Home[t]] = Without(cache[Home[t]], req[t].c)]
    BY <1>3 DEF Forget
  <2>3. Without(cache[Home[t]], req[t].c).map = [cache[Home[t]].map EXCEPT ![req[t].c] = None]
    BY <1>f, <2>1, WithoutOK
  <2>4. cache[Home[t]].map \in [Codes -> Entries \cup {None}]
    BY <1>f DEF Shards
  <2> QED BY <1>f, <2>2, <2>3, <2>4
<1>4. ASSUME NEW m \in Nodes, End(m)
      PROVE  cache'[n].map[c] \in {cache[n].map[c], None}
  BY <1>4, <1>f DEF End, NoCache
<1>5. ASSUME NEW t \in Threads, Fill(t), ~ UNCHANGED cache
      PROVE  \/ cache'[n].map[c] \in {cache[n].map[c], None}
             \/ /\ ~ Past(req[t].e, now) /\ req[t].c = c /\ UNCHANGED <<now, row, last>>
                /\ cache'[n].map[c] = [u |-> req[t].u, e |-> req[t].e, at |-> now]
  <2> DEFINE x == [u |-> req[t].u, e |-> req[t].e, at |-> now]
             s == cache[Home[t]]
             d == req[t].c
  <2>1. ~ Past(req[t].e, now) /\ UNCHANGED <<now, row, last>>
    BY <1>5 DEF Fill, Expired
  <2>2. cache' = [cache EXCEPT ![Home[t]] = With(s, d, x)]
    BY <1>5 DEF Fill, Expired
  <2>3. d \in Codes /\ x \in Entries
    BY <1>5, <1>f, TypeFacts DEF Fill, RequestOK, Fits, Reqs, Entries
  <2> HIDE DEF x, d
  <2>4. /\ With(s, d, x).map[d] = x
        /\ \A e \in Codes \ {d} : With(s, d, x).map[e] \in {s.map[e], None}
    BY <1>f, <2>3, WithOK, KvAssumption
  <2>5. CASE n = Home[t] /\ c = d
    BY <1>f, <2>1, <2>2, <2>4, <2>5 DEF x, d
  <2>6. CASE n = Home[t] /\ c # d
    BY <1>f, <2>2, <2>4, <2>6
  <2>7. CASE n # Home[t]
    BY <1>f, <2>2, <2>7
  <2> QED BY <2>5, <2>6, <2>7
<1>6. ASSUME NEW t \in Threads, Request(t)
      PROVE  UNCHANGED cache \/ \E d \in Codes : ResolveMiss(t, d)
  BY <1>6 DEF Request, ResolveHit, RemoveRow, Shorten, Bulk, UpdateRead
<1>7. ASSUME NEW t \in Threads, ThreadStep(t)
      PROVE  UNCHANGED cache \/ Fill(t) \/ Forget(t)
  BY <1>7 DEF ThreadStep, KvGet, SetAlias, SetDrawn, Retry, BulkPipe, UpdateSet, RemoveHits
<1>8. ASSUME NEW m \in Nodes, NodeStep(m)
      PROVE  UNCHANGED cache \/ End(m)
  BY <1>8 DEF NodeStep, FlushTake, FlushSend, SweepScan, SweepDel, Close, Open
<1>9. UNCHANGED cache \/ (\E t \in Threads : Request(t) \/ ThreadStep(t)) \/ \E m \in Nodes : NodeStep(m)
  BY DEF Next, Tick, vars
<1> QED BY <1>1, <1>2, <1>3, <1>4, <1>5, <1>6, <1>7, <1>8, <1>9

LEMMA NextCache ==
    ASSUME TypeInv, ReadHolds, CacheHolds, [Next]_vars
    PROVE  CacheHolds'
<1>f. TypeInv' /\ now \in Nat /\ now' \in Nat /\ Latency \in Nat /\ now <= now'
  <2>1. now' = now \/ now' = now + 1
    BY OnlyTick DEF Tick
  <2>2. TypeInv' /\ now \in Nat /\ now' \in Nat /\ Latency \in Nat
    BY NextType, TypeFacts, KvAssumption DEF TypeInv, TypeOK
  <2> QED BY <2>1, <2>2
<1> SUFFICES ASSUME NEW n \in Nodes, NEW c \in Codes, cache'[n].map[c] # None
             PROVE  /\ cache'[n].map[c].at <= now'
                    /\ \/ Target(c, cache[n].map[c].u)'
                       \/ cache'[n].map[c].at <= last'[c][cache'[n].map[c].u] + Latency
  BY DEF CacheHolds, Target
<1>0. cache'[n].map[c] \in Entries
  BY <1>f DEF TypeInv, TypeOK, Shards
<1>1. PICK x \in Entries : x = cache'[n].map[c]
  BY <1>0
<1>2. x.at \in Nat /\ x.u \in Urls
  BY <1>1 DEF Entries
<1>3. CASE x = cache[n].map[c]
  <2>1. x.at <= now /\ (Target(c, x.u) \/ x.at <= last[c][x.u] + Latency)
    BY <1>1, <1>3 DEF CacheHolds
  <2>2. Target(c, x.u)' \/ x.at <= last'[c][x.u] + Latency
    BY <1>f, <1>2, <2>1, AlwaysNoted, TargetKept
  <2>3. x.at <= now'
    BY <1>f, <1>2, <2>1
  <2> QED BY <1>1, <2>2, <2>3 DEF Target
<1>4. CASE \E t \in Threads :
             /\ Fill(t) /\ ~ Past(req[t].e, now) /\ req[t].c = c /\ UNCHANGED <<now, row, last>>
             /\ cache'[n].map[c] = [u |-> req[t].u, e |-> req[t].e, at |-> now]
  <2>1. PICK t \in Threads :
             /\ Fill(t) /\ ~ Past(req[t].e, now) /\ req[t].c = c /\ UNCHANGED <<now, row, last>>
             /\ cache'[n].map[c] = [u |-> req[t].u, e |-> req[t].e, at |-> now]
    BY <1>4
  <2>2. /\ req[t].r <= now /\ now - req[t].r <= Latency
        /\ Target(c, req[t].u) \/ req[t].r <= last[c][req[t].u]
    BY <2>1 DEF ReadHolds, Expired, Fill
  <2>3. x.u = req[t].u /\ x.at = now
    BY <1>1, <2>1
  <2>4. last[c][x.u] \in Nat /\ req[t].r \in Nat
    BY <1>2, TypeFacts DEF HistoryOK, Reqs
  <2>5. Target(c, x.u) \/ x.at <= last[c][x.u] + Latency
    BY <1>f, <2>2, <2>3, <2>4
  <2>6. CASE Target(c, x.u)
    BY <1>1, <1>f, <2>1, <2>3, <2>6 DEF Target, Visible, Expired, Past
  <2>7. CASE x.at <= last[c][x.u] + Latency
    BY <1>1, <1>f, <2>1, <2>3, <2>7
  <2> QED BY <2>5, <2>6, <2>7
<1> QED BY <1>1, <1>3, <1>4, CachedByFill

(* Whatever a node answers from its cache was the target at most           *)
(* CACHE_TTL_MS and the delay of one answer ago, if entries go stale at    *)
(* all (0 turns that off).                                                 *)
THEOREM KvStaleBound ==
    ASSUME CacheTtl > 0
    PROVE  Spec => []StaleBound
<1>1. Init => TypeInv /\ StaleInv
  <2> SUFFICES ASSUME Init PROVE TypeInv /\ StaleInv
    OBVIOUS
  <2>1. ReadHolds
    BY DEF Init, ReadHolds
  <2>2. CacheHolds
    BY DEF Init, CacheHolds, NoCache
  <2> QED BY <2>1, <2>2, InitType DEF StaleInv
<1>2. TypeInv /\ StaleInv /\ [Next]_vars => (TypeInv /\ StaleInv)'
  BY NextType, NextRead, NextCache DEF StaleInv
<1>3. TypeInv /\ StaleInv => StaleBound
  <2> SUFFICES ASSUME TypeInv, StaleInv, NEW n \in Nodes, NEW c \in Codes, Answers(cache[n], c, now)
               PROVE  \/ Target(c, cache[n].map[c].u)
                      \/ now - last[c][cache[n].map[c].u] <= CacheTtl + Latency
    BY DEF StaleBound
  <2>1. PICK x \in Entries : x = cache[n].map[c]
    BY TypeFacts DEF Answers, Shards
  <2>2. x # None /\ now - x.at <= CacheTtl /\ CacheTtl \in Nat /\ Latency \in Nat
    BY <2>1, LruAssumption, KvAssumption DEF Answers, Fresh
  <2>3. x.at \in Nat /\ now \in Nat /\ last[c][x.u] \in Nat
    BY TypeFacts DEF Entries, HistoryOK
  <2>4. Target(c, x.u) \/ x.at <= last[c][x.u] + Latency
    BY <2>1, <2>2 DEF StaleInv, CacheHolds
  <2> QED BY <2>1, <2>2, <2>3, <2>4
<1> QED BY <1>1, <1>2, <1>3, PTL DEF Spec

-----------------------------------------------------------------------------
(* Live rows.  LiveRowKept needs to know that the server drops no row      *)
(* before its expiry (PxHolds), and what the janitors have in hand         *)
(* (DeadHolds).                                                            *)

(* A row does not leave the server before it expires.                      *)
Lasts(x) == x.px > 0 => x.e > 0 /\ x.e <= x.px

LEMMA KeptLasts ==
    ASSUME now \in Nat, NEW u, NEW e \in Nat, NEW px \in Nat, px > 0 => e > 0 /\ e <= now + px
    PROVE  Lasts(Kept(u, e, px))
<1>1. CASE layout = "key" /\ px > 0
  BY <1>1 DEF Kept, Lasts
<1>2. CASE ~ (layout = "key" /\ px > 0)
  BY <1>2 DEF Kept, Lasts
<1> QED BY <1>1, <1>2

(* A step that puts a row at c: one that lasts, and janitors which have c  *)
(* in hand are known to be late.                                           *)
Puts(c) ==
    /\ row'[c] # None /\ Lasts(row'[c])
    /\ \A n \in Nodes : c \in dead[n] => c \in renewed'
    /\ UNCHANGED dead

LEMMA SetNxPuts ==
    ASSUME TypeInv, NEW S \in SUBSET Codes, NEW T, NEW r \in Reqs, r.u \in Urls,
           r.px > 0 => r.e > 0 /\ r.e <= now + r.px,
           SetNx(S, T, r), UNCHANGED dead, NEW c \in Codes
    PROVE  row'[c] = row[c] \/ (~ Visible(row[c]) /\ Puts(c))
<1>1. now \in Nat /\ r.e \in Nat /\ r.px \in Nat
  BY TypeFacts DEF Reqs
<1>2. CASE ~ (c \in S /\ Creates(c))
  BY <1>2 DEF SetNx
<1>3. CASE c \in S /\ Creates(c)
  <2>1. row'[c] = Kept(r.u, r.e, r.px)
    BY <1>3 DEF SetNx
  <2>2. row'[c] # None
    BY <1>1, <2>1, KeptType, KvAssumption
  <2>3. Lasts(row'[c])
    BY <1>1, <2>1, KeptLasts
  <2>4. \A n \in Nodes : c \in dead[n] => c \in renewed'
    BY <1>3 DEF SetNx, Renew
  <2> QED BY <1>3, <2>2, <2>3, <2>4 DEF Puts, Creates
<1> QED BY <1>2, <1>3

(* Who changes the row of c, and to what.                                  *)
LEMMA RowChanges ==
    ASSUME TypeInv, [Next]_vars, NEW c \in Codes
    PROVE  \/ row'[c] = row[c]
           \/ ~ Visible(row[c]) /\ Puts(c)
           \/ Puts(c) /\ \E t \in Threads : req[t].c = c /\ UpdateSet(t)
           \/ row'[c] = None /\ \E t \in Threads : RemoveRow(t, c)
           \/ row'[c] = None /\ \E n \in Nodes : SweepDel(n) /\ c \in dead[n]
<1>f. /\ now \in Nat /\ row \in [Codes -> Rows \cup {None}] /\ RequestOK
      /\ req \in [Threads -> Reqs]
  BY TypeFacts
<1>1. ASSUME NEW t \in Threads, Request(t)
      PROVE  row'[c] = row[c] \/ (row'[c] = None /\ RemoveRow(t, c))
  <2>1. CASE \E d \in Codes : RemoveRow(t, d)
    <3>1. PICK d \in Codes : RemoveRow(t, d)
      BY <2>1
    <3>2. row'[c] = row[c] \/ (row'[c] = None /\ c = d)
      BY <3>1 DEF RemoveRow, Del
    <3> QED BY <3>1, <3>2
  <2> QED BY <1>1, <2>1 DEF Request, ResolveHit, ResolveMiss, Shorten, Bulk, UpdateRead
<1>2. ASSUME NEW t \in Threads, ThreadStep(t)
      PROVE  \/ row'[c] = row[c]
             \/ ~ Visible(row[c]) /\ Puts(c)
             \/ Puts(c) /\ req[t].c = c /\ UpdateSet(t)
  <2>f. req[t] \in Reqs /\ Fits(pc[t], req[t])
    BY <1>f DEF RequestOK
  <2>1. CASE \/ (SetAlias(t) \/ SetDrawn(t) \/ BulkPipe(t))
    <3>1. UNCHANGED dead
      BY <2>1 DEF SetAlias, SetDrawn, BulkPipe, nodes
    <3>2. /\ req[t].u \in Urls
          /\ req[t].px > 0 => req[t].e > 0 /\ req[t].e <= now + req[t].px
      BY <2>1, <2>f DEF SetAlias, SetDrawn, BulkPipe, Fits
    <3>3. \E S \in SUBSET Codes : \E T : SetNx(S, T, req[t])
      <4>1. CASE SetAlias(t)
        <5>1. req[t].c \in Codes
          BY <2>f, <4>1 DEF SetAlias, Fits
        <5>2. PICK o : SetNx({d \in {req[t].c} : o # "refuse"},
                             {d \in {req[t].c} : o = "ok" /\ Creates(d)}, req[t])
          BY <4>1 DEF SetAlias
        <5>3. {d \in {req[t].c} : o # "refuse"} \in SUBSET Codes
          BY <5>1
        <5> QED BY <5>2, <5>3
      <4>2. CASE SetDrawn(t)
        <5>1. PICK d \in Generated : \E o :
                SetNx({e \in {d} : o # "refuse"}, {e \in {d} : o = "ok" /\ Creates(e)}, req[t])
          BY <4>2 DEF SetDrawn
        <5>2. \A o : {e \in {d} : o # "refuse"} \in SUBSET Codes
          BY KvAssumption
        <5> QED BY <5>1, <5>2
      <4>3. CASE BulkPipe(t)
        <5>1. PICK S \in SUBSET Generated :
                \/ SetNx(S, {d \in S : Creates(d)}, req[t])
                \/ \E D \in SUBSET S : SetNx(D, S, req[t])
          BY <4>3 DEF BulkPipe
        <5>2. S \in SUBSET Codes /\ \A D \in SUBSET S : D \in SUBSET Codes
          BY KvAssumption
        <5> QED BY <5>1, <5>2
      <4> QED BY <2>1, <4>1, <4>2, <4>3
    <3> QED BY <2>f, <3>1, <3>2, <3>3, SetNxPuts
  <2>2. CASE UpdateSet(t)
    <3>0. /\ req[t].c \in Codes /\ req[t].u \in Urls /\ req[t].e \in Nat /\ req[t].px \in Nat
          /\ req[t].px > 0 => req[t].e > 0 /\ req[t].e <= now + req[t].px
      BY <2>2, <2>f DEF UpdateSet, Fits, Reqs
    <3>1. CASE req[t].c # c
      BY <1>f, <2>2, <3>1 DEF UpdateSet
    <3>2. CASE req[t].c = c /\ UNCHANGED row
      BY <3>2
    <3>3. CASE req[t].c = c /\ ~ UNCHANGED row
      <4>1. row' = [row EXCEPT ![c] = Kept(req[t].u, req[t].e, req[t].px)] /\ Renew({c})
        BY <2>2, <3>3 DEF UpdateSet
      <4>2. row'[c] = Kept(req[t].u, req[t].e, req[t].px)
        BY <1>f, <4>1
      <4>3. row'[c] # None /\ Lasts(row'[c])
        BY <1>f, <3>0, <4>2, KeptType, KeptLasts, KvAssumption
      <4>4. \A n \in Nodes : c \in dead[n] => c \in renewed'
        BY <4>1 DEF Renew
      <4> QED BY <2>2, <3>3, <4>3, <4>4 DEF Puts, UpdateSet, nodes
    <3> QED BY <3>1, <3>2, <3>3
  <2> QED BY <1>2, <2>1, <2>2 DEF ThreadStep, KvGet, Fill, Retry, RemoveHits, Forget
<1>3. ASSUME NEW n \in Nodes, NodeStep(n)
      PROVE  row'[c] = row[c] \/ (row'[c] = None /\ SweepDel(n) /\ c \in dead[n])
  <2>1. CASE SweepDel(n)
    BY <2>1 DEF SweepDel, Del
  <2> QED BY <1>3, <2>1 DEF NodeStep, FlushTake, FlushSend, SweepScan, Close, End, Open
<1> QED BY <1>1, <1>2, <1>3 DEF Next, Tick, vars

(* What a janitor gets in hand has expired; what it keeps in hand and was  *)
(* renewed stays known as such.                                            *)
LEMMA DeadChanges ==
    ASSUME TypeInv, [Next]_vars, NEW n \in Nodes, NEW c \in dead'[n]
    PROVE  \/ c \in dead[n] /\ (c \in renewed => c \in renewed')
           \/ row[c] # None /\ Past(row[c].e, now) /\ UNCHANGED <<now, row>>
<1>f. dead \in [Nodes -> SUBSET Codes]
  BY TypeFacts
<1>1. CASE UNCHANGED dead /\ renewed \subseteq renewed'
  BY <1>1
<1>2. ASSUME NEW t \in Threads, Request(t) PROVE UNCHANGED dead /\ renewed \subseteq renewed'
  BY <1>2 DEF Request, ResolveHit, ResolveMiss, RemoveRow, Shorten, Bulk, UpdateRead, nodes
<1>3. ASSUME NEW t \in Threads, ThreadStep(t) PROVE UNCHANGED dead /\ renewed \subseteq renewed'
  <2>1. UNCHANGED dead
    BY <1>3 DEF ThreadStep, KvGet, Fill, SetAlias, SetDrawn, Retry, BulkPipe, UpdateSet, RemoveHits,
                Forget, nodes
  <2>2. UNCHANGED renewed \/ \E S : Renew(S)
    BY <1>3 DEF ThreadStep, KvGet, Fill, SetAlias, SetDrawn, SetNx, Retry, BulkPipe, UpdateSet,
                RemoveHits, Forget
  <2> QED BY <2>1, <2>2 DEF Renew
<1>4. ASSUME NEW m \in Nodes, NodeStep(m)
      PROVE  \/ c \in dead[n] /\ (c \in renewed => c \in renewed')
             \/ row[c] # None /\ Past(row[c].e, now) /\ UNCHANGED <<now, row>>
  <2>1. CASE SweepScan(m)
    BY <1>f, <2>1 DEF SweepScan, ExpiredFields, Expired
  <2>2. CASE SweepDel(m)
    <3>1. n # m /\ c \in dead[n]
      BY <1>f, <2>2 DEF SweepDel
    <3>2. c \in renewed => c \in renewed'
      BY <2>2, <3>1 DEF SweepDel
    <3> QED BY <3>1, <3>2
  <2>3. CASE End(m)
    BY <1>f, <2>3 DEF End
  <2> QED BY <1>4, <1>1, <2>1, <2>2, <2>3 DEF NodeStep, FlushTake, FlushSend, Close, Open
<1> QED BY <1>1, <1>2, <1>3, <1>4 DEF Next, Tick, vars, nodes

LEMMA NextPx ==
    ASSUME TypeInv, PxHolds, [Next]_vars
    PROVE  PxHolds'
<1> SUFFICES ASSUME NEW c \in Codes, row'[c] # None PROVE Lasts(row'[c])
  BY DEF PxHolds, Lasts
<1>1. CASE row'[c] = row[c]
  BY <1>1 DEF PxHolds, Lasts
<1>2. CASE Puts(c)
  BY <1>2 DEF Puts
<1> QED BY <1>1, <1>2, RowChanges

LEMMA NextDead ==
    ASSUME TypeInv, DeadHolds, [Next]_vars
    PROVE  DeadHolds'
<1>f. TypeInv' /\ now \in Nat /\ row \in [Codes -> Rows \cup {None}] /\ dead' \in [Nodes -> SUBSET Codes]
  BY NextType, TypeFacts DEF TypeInv, TypeOK
<1> SUFFICES ASSUME NEW n \in Nodes, NEW c \in dead'[n], c \notin renewed', row'[c] # None
             PROVE  Past(row'[c].e, now')
  BY DEF DeadHolds, Expired, Past
<1>0. c \in Codes
  BY <1>f
<1>1. CASE Past(row[c].e, now) /\ UNCHANGED <<now, row>>
  BY <1>1
<1>2. CASE c \in dead[n] /\ (c \in renewed => c \in renewed')
  <2>1. CASE row'[c] = row[c]
    <3>1. Past(row[c].e, now) /\ row[c].e \in Nat
      BY <1>0, <1>2, <1>f, <2>1 DEF DeadHolds, Expired, Rows
    <3>2. now' = now \/ now' = now + 1
      BY OnlyTick DEF Tick
    <3> QED BY <1>f, <2>1, <3>1, <3>2 DEF Past
  <2>2. ~ Puts(c)
    BY <1>2 DEF Puts
  <2> QED BY <1>0, <2>1, <2>2, RowChanges
<1> QED BY <1>1, <1>2, DeadChanges

(* Nothing but its expiry and its clients end a live row: not a creation,  *)
(* a bulk call or a janitor, and not the server's own expiry, which a code *)
(* that keeps the remaining lifetime and the expiry apart could set too    *)
(* early.                                                                  *)
THEOREM KvLiveRowKept == Spec => LiveRowKept
<1> DEFINE A == \A c \in Codes \ renewed :
                  /\ Visible(row[c]) /\ ~ Past(row[c].e, now')
                  /\ ~ \E t \in Threads : RemoveRow(t, c) \/ (req[t].c = c /\ UpdateSet(t))
                  => row'[c] = row[c] /\ Visible(row[c])'
<1>1. Init => TypeInv /\ PxHolds /\ DeadHolds
  <2> SUFFICES ASSUME Init PROVE PxHolds /\ DeadHolds
    BY InitType
  <2>1. PICK u \in Urls, ttl \in TTLs :
          row = [c \in Codes |-> IF c \in Old THEN Kept(u, Until(ttl), ttl) ELSE None]
    BY DEF Init
  <2>2. now \in Nat /\ ttl \in Nat
    BY KvAssumption DEF Init
  <2>3. Until(ttl) \in Nat /\ (ttl > 0 => Until(ttl) > 0 /\ Until(ttl) <= now + ttl)
    BY <2>2, UntilType
  <2>4. Lasts(Kept(u, Until(ttl), ttl))
    BY <2>2, <2>3, KeptLasts
  <2>5. PxHolds
    BY <2>1, <2>4 DEF PxHolds, Lasts
  <2> QED BY <2>5 DEF Init, DeadHolds
<1>2. TypeInv /\ PxHolds /\ DeadHolds /\ [Next]_vars => (TypeInv /\ PxHolds /\ DeadHolds)'
  BY NextType, NextPx, NextDead
<1>3. TypeInv /\ PxHolds /\ DeadHolds /\ [Next]_vars => [A]_vars
  <2> SUFFICES ASSUME TypeInv, PxHolds, DeadHolds, [Next]_vars,
                      NEW c \in Codes \ renewed, Visible(row[c]), ~ Past(row[c].e, now'),
                      ~ \E t \in Threads : RemoveRow(t, c) \/ (req[t].c = c /\ UpdateSet(t))
               PROVE  row'[c] = row[c] /\ Visible(row[c])'
    OBVIOUS
  <2>f. now \in Nat /\ row[c] \in Rows /\ row[c] # None
    BY TypeFacts DEF Visible
  <2>n. now' = now \/ now' = now + 1
    BY OnlyTick DEF Tick
  <2>1. ASSUME NEW n \in Nodes, SweepDel(n), c \in dead[n] PROVE FALSE
    <3>1. Past(row[c].e, now)
      BY <2>1, <2>f DEF DeadHolds, Expired
    <3> QED BY <2>1, <2>f, <3>1 DEF SweepDel
  <2>2. row'[c] = row[c]
    BY <2>1, RowChanges
  <2>3. row[c].px > 0 => row[c].px > now'
    <3>1. row[c].px \in Nat /\ row[c].e \in Nat
      BY <2>f DEF Rows
    <3>2. row[c].px > 0 => row[c].e > 0 /\ row[c].e <= row[c].px
      BY <2>f DEF PxHolds
    <3> QED BY <2>f, <2>n, <3>1, <3>2 DEF Past
  <2> QED BY <2>2, <2>3, <2>f DEF Visible
<1> QED BY <1>1, <1>2, <1>3, PTL DEF Spec, LiveRowKept
=============================================================================
