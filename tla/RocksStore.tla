----------------------------- MODULE RocksStore -----------------------------
(***************************************************************************)
(* The engine over an embedded RocksDB (store_rocks.rs): one process with  *)
(* request threads, a flush timer, a compaction timer, a cache, and rows   *)
(* and hit counters in two column families.                                *)
(*                                                                         *)
(* A step is one call into the database, each of which is atomic, or what  *)
(* a thread does under one of the engine's locks.  alias_lock orders the   *)
(* creations of put_nx with each other, and with nothing else.             *)
(***************************************************************************)
EXTENDS Lru, FiniteSetsExt

CONSTANTS
    Threads,    \* request threads
    Generated,  \* codes that gen_code draws; any may be asked for as alias
    Old,        \* codes that have a row from the start
    TTLs,       \* time-to-live arguments
    Ops,        \* which operations clients call and which timers run
    Faults,     \* which faults happen: "fail" (a database call), "kill"
    MaxNow,     \* bound: the clock stops here
    Budget      \* bound: how often each kind of step may happen

(* Resolves, other requests, failures and ends of the process; all of      *)
(* them.                                                                   *)
Kinds == {"hit", "op", "fault", "all"}

(* An old row may be in the format without a version tag.                  *)
Formats == {"v1", "legacy"}
Rows    == [u : Urls, e : Nat, v : Formats]

ASSUME RocksAssumption ==
    /\ Generated \subseteq Codes /\ Old \subseteq Codes
    /\ None \notin Rows \cup Entries \cup Nat \cup Threads
    /\ TTLs \subseteq Nat
    /\ Ops \subseteq {"shorten", "bulk", "update", "remove", "stats", "resolve", "flush", "list",
                      "compact", "close"}
    /\ Faults \subseteq {"fail", "kill"}
    /\ MaxNow \in Nat
    /\ Budget \in [Kinds -> Nat]

(* Who runs flush_hits: the timer, a listing and close.                    *)
Flushers == {"timer", "list", "close"}

VARIABLES
    now,     \* the wall clock
    spent,   \* how much of Budget is used
    row,     \* default column family: code -> url, expiry, format
    count,   \* hits column family: code -> hits
    mode,    \* the process: "up", "join", "last" (closing), "closed" or "down"
    cache,   \* a shard of the cache
    dirty,   \* hits not yet written
    batch,   \* flusher -> the batch it is about to write, or None
    lock,    \* alias_lock: the thread that holds it, or None
    pc,      \* thread: what it is about to do
    req,     \* thread: operation, code, url, expiry, time to live, and for a
             \* bulk call the codes still to be written one by one, and the
             \* expiry that it began with
    \* ----- history, read by no guard
    acked,   \* the row that clients were last told of, or None
    raced,   \* codes that a thread wrote while another was at work on them
    blind,   \* codes that shorten_many handed out over another row
    grants,  \* how many clients were told that the row of a code is theirs
    served   \* hits that were answered

vars == <<now, spent, row, count, mode, cache, dirty, batch, lock, pc, req,
          acked, raced, blind, grants, served>>

hits    == <<dirty, batch, served>>
history == <<acked, raced, blind, grants>>

Spend(k) ==
    /\ spent[k] < Budget[k] /\ spent["all"] < Budget["all"]
    /\ spent' = [spent EXCEPT ![k] = @ + 1, !["all"] = @ + 1]

NoHits == [c \in Codes |-> 0]
Idle   == [k |-> None, c |-> None, u |-> None, e |-> 0, ttl |-> None, todo |-> {}, all |-> 0]

(* The process answers requests until it ends, also after close.           *)
Ready(t) == mode # "down" /\ pc[t] = "idle"

Expired(e) == Past(e, now)
Until(ttl) == IF ttl > 0 THEN now + ttl ELSE 0

Go(t, to, r) == pc' = [pc EXCEPT ![t] = to] /\ req' = [req EXCEPT ![t] = r]
Done(t)      == Go(t, "idle", Idle)

(* A call of the database works, or fails without effect.                  *)
Outcomes == {"ok"} \cup (Faults \cap {"fail"})
Cost(o)  == IF o = "ok" THEN UNCHANGED spent ELSE Spend("fault")

(* Who but t has read, or is about to write, code c.                       *)
AtWork(t, c) ==
    \E o \in Threads \ {t} : req[o].c = c /\ pc[o] \in {"check", "reap", "put", "del", "nxput",
                                                       "forget"}

(* Thread t writes x at the codes of S, and clients are told so if ok.     *)
Write(t, S, x, ok) ==
    /\ row' = [c \in Codes |-> IF c \in S THEN x ELSE row[c]]
    /\ acked' = [c \in Codes |-> IF c \in S /\ ok THEN x ELSE acked[c]]
    /\ raced' = raced \cup {c \in S : AtWork(t, c)}

(* Clients are told that the rows of S are theirs.                         *)
Grant(S) ==
    grants' = [c \in Codes |-> (IF row[c] = None THEN 0 ELSE grants[c])
                                  + (IF c \in S THEN 1 ELSE 0)]

-----------------------------------------------------------------------------
(* The database as an earlier process left it.                             *)
Init ==
    /\ now = 0
    /\ spent = [k \in Kinds |-> 0]
    /\ \E u \in Urls, ttl \in TTLs, v \in Formats :
        row = [c \in Codes |-> IF c \in Old THEN [u |-> u, e |-> Until(ttl), v |-> v] ELSE None]
    /\ count = NoHits
    /\ mode = "up"
    /\ cache = NoCache
    /\ dirty = NoHits
    /\ batch = [f \in Flushers |-> None]
    /\ lock = None
    /\ pc = [t \in Threads |-> "idle"]
    /\ req = [t \in Threads |-> Idle]
    /\ acked = row
    /\ raced = {}
    /\ blind = {}
    /\ grants = [c \in Codes |-> IF row[c] = None THEN 0 ELSE 1]
    /\ served = NoHits

Tick ==
    /\ now < MaxNow
    /\ now' = now + 1
    /\ UNCHANGED <<spent, row, count, mode, cache, hits, lock, pc, req, history>>

-----------------------------------------------------------------------------
(* Reads.                                                                  *)

Bump(c) ==
    /\ dirty' = [dirty EXCEPT ![c] = @ + 1]
    /\ served' = [served EXCEPT ![c] = @ + 1]
    /\ UNCHANGED batch

ResolveHit(t, c) ==
    /\ Ready(t) /\ "resolve" \in Ops
    /\ Answers(cache, c, now)
    /\ Spend("hit")
    /\ Bump(c)
    /\ UNCHANGED <<now, row, count, mode, cache, lock, pc, req, history>>

ResolveMiss(t, c) ==
    /\ Ready(t) /\ "resolve" \in Ops
    /\ ~ Answers(cache, c, now)
    /\ Spend("hit")
    /\ cache' = Looked(cache, c, now)
    /\ Go(t, "get", [Idle EXCEPT !.k = "resolve", !.c = c])
    /\ UNCHANGED <<now, row, count, mode, hits, lock, history>>

(* update, remove and stats read the row first; ttl = None keeps the       *)
(* expiry.                                                                 *)
Ask(t, k, c, u, ttl) ==
    /\ Ready(t) /\ k \in Ops
    /\ Spend("op")
    /\ Go(t, "get", [Idle EXCEPT !.k = k, !.c = c, !.u = u, !.ttl = ttl])
    /\ UNCHANGED <<now, row, count, mode, cache, hits, lock, history>>

(* row: the read ...                                                       *)
RowGet(t) ==
    /\ pc[t] = "get"
    /\ \E o \in Outcomes :
        /\ Cost(o)
        /\ LET x == row[req[t].c]
           IN  IF o = "ok" /\ x # None
               THEN Go(t, "check", [req[t] EXCEPT !.e = x.e,
                                                  !.u = IF req[t].k = "resolve" THEN x.u ELSE @])
               ELSE Done(t)
    /\ UNCHANGED <<now, row, count, mode, cache, hits, lock, history>>

(* ... then the look at the clock ...                                      *)
RowCheck(t) ==
    /\ pc[t] = "check"
    /\ \/ Expired(req[t].e) /\ Go(t, "reap", req[t])
       \/ ~ Expired(req[t].e) /\ req[t].k = "stats" /\ Done(t)
       \/ ~ Expired(req[t].e) /\ req[t].k = "remove" /\ Go(t, "del", req[t])
       \/ /\ ~ Expired(req[t].e) /\ req[t].k = "update"
          /\ Go(t, "put", [req[t] EXCEPT !.e = IF req[t].ttl = None THEN @ ELSE now + req[t].ttl])
    /\ UNCHANGED <<now, spent, row, count, mode, cache, hits, lock, history>>

(* ... and an expired row is deleted by name, whatever it is by now.       *)
Reap(t) ==
    /\ pc[t] = "reap"
    /\ \E o \in Outcomes :
        /\ Cost(o)
        /\ Write(t, {c \in {req[t].c} : o = "ok"}, None, FALSE)
    /\ Done(t)
    /\ UNCHANGED <<now, count, mode, cache, hits, lock, blind, grants>>

(* A live row is cached, and the hit counted.                              *)
Fill(t) ==
    /\ pc[t] = "check" /\ req[t].k = "resolve"
    /\ ~ Expired(req[t].e)
    /\ cache' = With(cache, req[t].c, [u |-> req[t].u, e |-> req[t].e, at |-> now])
    /\ Bump(req[t].c)
    /\ Done(t)
    /\ UNCHANGED <<now, spent, row, count, mode, lock, history>>

-----------------------------------------------------------------------------
(* update and remove: written without a second look.                       *)

Put(t) ==
    /\ pc[t] = "put"
    /\ \E o \in Outcomes :
        /\ Cost(o)
        /\ Write(t, {c \in {req[t].c} : o = "ok"},
                 [u |-> req[t].u, e |-> req[t].e, v |-> "v1"], TRUE)
        /\ Grant({})
        /\ IF o = "ok" THEN Go(t, "forget", req[t]) ELSE Done(t)
    /\ UNCHANGED <<now, count, mode, cache, hits, lock, blind>>

(* Row and counter go in one batch.                                        *)
Del(t) ==
    /\ pc[t] = "del"
    /\ \E o \in Outcomes :
        /\ Cost(o)
        /\ Write(t, {c \in {req[t].c} : o = "ok"}, None, TRUE)
        /\ count' = IF o = "ok" THEN [count EXCEPT ![req[t].c] = 0] ELSE count
        /\ IF o = "ok" THEN Go(t, "forget", req[t]) ELSE Done(t)
    /\ UNCHANGED <<now, mode, cache, hits, lock, blind, grants>>

(* Faulty variant, for mutation only: a write leaves the cache alone.      *)
ForgottenNot(shard, c) == shard

Forgotten(shard, c) == Without(shard, c)

Forget(t) ==
    /\ pc[t] = "forget"
    /\ cache' = Forgotten(cache, req[t].c)
    /\ Done(t)
    /\ UNCHANGED <<now, spent, row, count, mode, hits, lock, history>>

-----------------------------------------------------------------------------
(* shorten and shorten_many.                                               *)

Shorten(t, c, u, ttl) ==
    /\ Ready(t) /\ "shorten" \in Ops
    /\ Spend("op")
    /\ Go(t, "nx", [Idle EXCEPT !.k = IF c = None THEN "gen" ELSE "alias", !.c = c, !.u = u,
                                !.e = Until(ttl), !.ttl = ttl])
    /\ UNCHANGED <<now, row, count, mode, cache, hits, lock, history>>

(* The codes that thread t may try next.                                   *)
Tries(t) ==
    CASE req[t].k = "alias" -> {req[t].c}
      [] req[t].k = "gen"   -> Generated
      [] OTHER              -> req[t].todo

(* What follows when code c is settled, as its own or, in a bulk call, as  *)
(* somebody's: the rest of the bulk call, whose codes are tried as drawn   *)
(* and with the expiry that the call began with.                           *)
Settled(t, c) ==
    LET rest == req[t].todo \ {c}
    IN  IF rest = {} THEN Done(t)
        ELSE Go(t, "nx", [req[t] EXCEPT !.k = "each", !.c = None, !.e = req[t].all,
                                        !.todo = rest])

(* What follows an error: an alias is given up, everything else draws a    *)
(* code of its own, in a bulk call with an expiry of its own.              *)
Refused(t, c) ==
    \/ req[t].k = "alias" /\ Done(t)
    \/ req[t].k = "gen" /\ Go(t, "nx", [req[t] EXCEPT !.c = None])
    \/ /\ req[t].k = "each"
       /\ Go(t, "nx", [req[t] EXCEPT !.k = "gen", !.c = None, !.e = Until(req[t].ttl),
                                     !.todo = @ \ {c}])

(* Faulty variant, for mutation only: put_nx does not look.                *)
TakenNever(c) == FALSE

(* put_nx sees any row, an expired one too.                                *)
Taken(c) == row[c] # None

(* put_nx under alias_lock: the look ...                                   *)
NxGet(t) ==
    /\ pc[t] = "nx" /\ lock = None
    /\ \E c \in Tries(t), o \in Outcomes :
        /\ Cost(o)
        /\ \/ o = "fail" /\ Refused(t, c) /\ UNCHANGED <<lock, blind, grants>>
           \/ /\ o = "ok" /\ Taken(c)
              /\ IF req[t].k = "each"
                 THEN Settled(t, c) /\ Grant({c}) /\ blind' = blind \cup {c}
                 ELSE Refused(t, c) /\ UNCHANGED <<blind, grants>>
              /\ UNCHANGED lock
           \/ /\ o = "ok" /\ ~ Taken(c)
              /\ lock' = t
              /\ Go(t, "nxput", [req[t] EXCEPT !.c = c])
              /\ UNCHANGED <<blind, grants>>
    /\ UNCHANGED <<now, row, count, mode, cache, hits, acked, raced>>

(* ... and the write.                                                      *)
NxPut(t) ==
    /\ pc[t] = "nxput"
    /\ lock' = None
    /\ LET c == req[t].c
       IN  \E o \in Outcomes :
            /\ Cost(o)
            /\ Write(t, {d \in {c} : o = "ok"},
                     [u |-> req[t].u, e |-> req[t].e, v |-> "v1"], TRUE)
            /\ IF o = "ok" THEN Settled(t, c) /\ Grant({c})
                           ELSE Refused(t, c) /\ UNCHANGED grants
    /\ UNCHANGED <<now, count, mode, cache, hits, blind>>

(* shorten_many writes its drawn codes in one batch, without a look; if    *)
(* that fails it takes them one by one.                                    *)
Bulk(t, S, u, ttl) ==
    /\ Ready(t) /\ "bulk" \in Ops
    /\ \/ /\ Spend("op")
          /\ Write(t, S, [u |-> u, e |-> Until(ttl), v |-> "v1"], TRUE)
          /\ Grant(S)
          /\ blind' = blind \cup {c \in S : row[c] # None \/ AtWork(t, c)}
          /\ UNCHANGED <<pc, req>>
       \/ /\ "fail" \in Faults /\ Spend("fault")
          /\ Go(t, "nx", [Idle EXCEPT !.k = "each", !.u = u, !.e = Until(ttl), !.ttl = ttl,
                                      !.todo = S, !.all = Until(ttl)])
          /\ UNCHANGED <<row, history>>
    /\ UNCHANGED <<now, count, mode, cache, hits, lock>>

-----------------------------------------------------------------------------
(* The engine's own threads, and the end of the process.                   *)

(* Whether f may start a flush: the timer until stop, a listing at any     *)
(* time, close once the threads have ended.                                *)
MayFlush(f) ==
    \/ f = "timer" /\ mode = "up" /\ "flush" \in Ops /\ dirty # NoHits
    \/ f = "list" /\ mode # "down" /\ "list" \in Ops /\ dirty # NoHits
    \/ f = "close" /\ mode = "join" /\ batch["timer"] = None

FlushTake(f) ==
    /\ batch[f] = None /\ MayFlush(f)
    /\ batch' = [batch EXCEPT ![f] = dirty]
    /\ dirty' = NoHits
    /\ mode' = IF f = "close" THEN "last" ELSE mode
    /\ UNCHANGED <<now, spent, row, count, cache, lock, pc, req, history, served>>

(* Faulty variant, for mutation only: the batch is kept for another try.   *)
UnwrittenKept(f) == batch[f]

(* What a batch leaves behind, whether or not it could be written.         *)
Unwritten(f) == None

(* One atomic batch of merges.                                             *)
FlushWrite(f) ==
    /\ batch[f] # None
    /\ \E o \in Outcomes :
        /\ Cost(o)
        /\ count' = IF o = "ok" THEN [c \in Codes |-> count[c] + batch[f][c]] ELSE count
    /\ batch' = [batch EXCEPT ![f] = Unwritten(f)]
    /\ mode' = IF f = "close" THEN "closed" ELSE mode
    /\ UNCHANGED <<now, row, cache, dirty, lock, pc, req, history, served>>

(* Faulty variant, for mutation only: what follows the version tag is read *)
(* as an expiry that has come.                                             *)
FilterSeesTag(x) == IF x.v = "v1" THEN 1 ELSE x.e

(* The expiry that expired_filter parses in front of the first '|': in a   *)
(* row with a version tag there is none.                                   *)
FilterSees(x) == IF x.v = "v1" THEN None ELSE x.e

Filtered(x) == x # None /\ FilterSees(x) # None /\ Expired(FilterSees(x))

(* A full compaction, by the sweep timer or on request.                    *)
Compact ==
    /\ mode # "down" /\ "compact" \in Ops
    /\ \E c \in Codes : Filtered(row[c])
    /\ row' = [c \in Codes |-> IF Filtered(row[c]) THEN None ELSE row[c]]
    /\ UNCHANGED <<now, spent, count, mode, cache, hits, lock, pc, req, history>>

(* A signal, or the drop of a handle, which may come again.                *)
Close ==
    /\ mode \in {"up", "closed"} /\ "close" \in Ops
    /\ Spend("fault")
    /\ mode' = "join"
    /\ UNCHANGED <<now, row, count, cache, hits, lock, pc, req, history>>

(* The process ends, after close or at any time; the database keeps what   *)
(* was written.                                                            *)
End ==
    /\ mode # "down"
    /\ \/ mode = "closed" /\ UNCHANGED spent
       \/ "kill" \in Faults /\ Spend("fault")
    /\ mode' = "down"
    /\ cache' = NoCache
    /\ dirty' = NoHits
    /\ batch' = [f \in Flushers |-> None]
    /\ lock' = None
    /\ pc' = [t \in Threads |-> "idle"]
    /\ req' = [t \in Threads |-> Idle]
    /\ UNCHANGED <<now, row, count, history, served>>

Open ==
    /\ mode = "down"
    /\ mode' = "up"
    /\ UNCHANGED <<now, spent, row, count, cache, hits, lock, pc, req, history>>

-----------------------------------------------------------------------------
Request(t) ==
    \/ \E c \in Codes :
        \/ ResolveHit(t, c) \/ ResolveMiss(t, c)
        \/ \E k \in {"remove", "stats"} : Ask(t, k, c, None, None)
        \/ \E u \in Urls, ttl \in TTLs \cup {None} : Ask(t, "update", c, u, ttl)
    \/ \E u \in Urls, ttl \in TTLs :
        \/ \E c \in Codes \cup {None} : Shorten(t, c, u, ttl)
        \/ \E S \in SUBSET Generated \ {{}} : Bulk(t, S, u, ttl)

ThreadStep(t) ==
    \/ RowGet(t) \/ RowCheck(t) \/ Reap(t) \/ Fill(t)
    \/ Put(t) \/ Del(t) \/ Forget(t) \/ NxGet(t) \/ NxPut(t)

Next ==
    \/ Tick
    \/ \E t \in Threads : Request(t) \/ ThreadStep(t)
    \/ \E f \in Flushers : FlushTake(f) \/ FlushWrite(f)
    \/ Compact \/ Close \/ End \/ Open

Spec == Init /\ [][Next]_vars

(* The timers of a running process fire again and again, time passes, and  *)
(* a request that was begun goes on.                                       *)
FairSpec ==
    /\ Spec
    /\ WF_vars(Tick) /\ WF_vars(Compact) /\ WF_vars(Open)
    /\ \A f \in Flushers : WF_vars(FlushTake(f)) /\ WF_vars(FlushWrite(f))
    /\ \A t \in Threads : WF_vars(ThreadStep(t))

-----------------------------------------------------------------------------
Steps == {"idle", "get", "check", "reap", "put", "del", "forget", "nx", "nxput"}
Reqs  == [k : {None, "resolve", "update", "remove", "stats", "alias", "gen", "each"},
          c : Codes \cup {None}, u : Urls \cup {None}, e : Nat, ttl : Nat \cup {None},
          todo : SUBSET Codes, all : Nat]

(* Types, and the bound on the cache.                                      *)
TypeOK ==
    /\ now \in 0..MaxNow
    /\ spent \in [Kinds -> Nat]
    /\ row \in [Codes -> Rows \cup {None}]
    /\ count \in [Codes -> Nat]
    /\ mode \in {"up", "join", "last", "closed", "down"}
    /\ cache \in Shards /\ Len(cache.order) <= CacheSize
    /\ dirty \in [Codes -> Nat]
    /\ batch \in [Flushers -> [Codes -> Nat] \cup {None}]
    /\ lock \in Threads \cup {None}
    /\ pc \in [Threads -> Steps]
    /\ req \in [Threads -> Reqs]

(* The queue of the cache lists the codes of its map, each once, so that   *)
(* eviction always finds the oldest entry (Lru::put, get and remove).      *)
CacheConsistent == Consistent(cache)

(* The database has the row that clients were last told of, until it       *)
(* expires: reads that reap, compactions with their filter, failed calls,  *)
(* bulk calls and restarts neither lose it nor bring another back.  Except *)
(* for codes that one thread wrote while another had read them and had not *)
(* finished: row, update and remove write without a second look.           *)
AckedRowKept ==
    \A c \in Codes \ raced :
        IF acked[c] # None /\ Past(acked[c].e, now)
        THEN row[c] \in {acked[c], None}
        ELSE row[c] = acked[c]

(* Once an update or a removal has returned, the cache of this process     *)
(* answers accordingly, however old its entry; except for codes that       *)
(* somebody was reading meanwhile (the entry is put after it was dropped,  *)
(* and goes stale after CACHE_TTL_MS), and for codes that shorten_many     *)
(* drew although they had a row.                                           *)
ReadsOwnWrites ==
    \A c \in Codes \ (raced \cup blind) :
        Answers(cache, c, now) =>
            \/ row[c] # None /\ row[c].u = cache.map[c].u
            \/ \E t \in Threads : pc[t] = "forget" /\ req[t].c = c

(* The hits of c that each flusher has in hand.                            *)
InBatches(c) == [f \in Flushers |-> IF batch[f] = None THEN 0 ELSE batch[f][c]]

(* Hits are at most once, whoever flushes at the same time: the timer, a   *)
(* listing and close drain before they write, and a batch that failed is   *)
(* not written again.                                                      *)
HitsNeverDoubled ==
    \A c \in Codes :
        count[c] + dirty[c] + SumFunction(InBatches(c)) <= served[c]

(* No two clients are told that the same row is theirs: alias_lock makes   *)
(* the look and the write of put_nx one.  Except for codes that            *)
(* shorten_many drew although they were taken: it does not look, and when  *)
(* it looks, after its batch failed, it does not mind.                     *)
CreatedOnce == \A c \in Codes \ blind : grants[c] <= 1

-----------------------------------------------------------------------------
(* What the invariants above need to be inductive.                         *)

HistoryOK ==
    /\ acked \in [Codes -> Rows \cup {None}]
    /\ raced \subseteq Codes /\ blind \subseteq Codes
    /\ grants \in [Codes -> Nat] /\ served \in [Codes -> Nat]

(* What request r has in hand, by what its thread is about to do.          *)
Fits(p, r) ==
    /\ p \notin {"idle", "nx"} => r.c \in Codes
    /\ p = "get" => r.k \in {"resolve", "update", "remove", "stats"}
    /\ p \in {"get", "check"} /\ r.k = "update" => r.u \in Urls
    /\ p = "check" /\ r.k = "resolve" => r.u \in Urls
    /\ p \in {"put", "nx", "nxput"} => r.u \in Urls
    /\ p \in {"nx", "nxput"} => r.k \in {"alias", "gen", "each"} /\ r.ttl \in Nat
    /\ p = "nx" /\ r.k = "alias" => r.c \in Codes

RequestOK == \A t \in Threads : Fits(pc[t], req[t])

(* Between the look and the write of put_nx its thread has the lock, and   *)
(* the code has no row, or one that nobody was granted.                    *)
NxHolds ==
    \A t \in Threads :
        LET c == req[t].c
        IN  pc[t] = "nxput" =>
                /\ lock = t
                /\ c \notin raced => row[c] = None
                /\ c \notin blind => row[c] = None \/ grants[c] = 0

(* What a thread has read is still so, unless another wrote, or a          *)
(* compaction took what had expired.                                       *)
ReadHolds ==
    \A t \in Threads :
        LET r == req[t]
            x == row[r.c]
        IN  /\ pc[t] = "check" /\ r.c \notin raced =>
                \/ x # None /\ x.e = r.e /\ (r.k = "resolve" => x.u = r.u)
                \/ x = None /\ Past(r.e, now)
            /\ pc[t] = "reap" /\ r.c \notin raced =>
                Past(r.e, now) /\ (x = None \/ x.e = r.e)

(* What is cached is the row, or has expired, or is about to be dropped.   *)
CacheHolds ==
    \A c \in Codes \ (raced \cup blind) :
        LET x == cache.map[c]
        IN  x # None =>
                \/ row[c] # None /\ row[c].u = x.u /\ row[c].e = x.e
                \/ Past(x.e, now)
                \/ \E t \in Threads : pc[t] = "forget" /\ req[t].c = c

-----------------------------------------------------------------------------
(* An expired row goes away, with the compactions that SWEEP_MS forces, so *)
(* that its alias can be taken again ("compaction filter drops dead keys   *)
(* for free").                                                             *)
ExpiredReclaimed ==
    \A c \in Codes :
        (row[c] # None /\ Expired(row[c].e)) ~> (row[c] = None \/ ~ Expired(row[c].e))
=============================================================================
