------------------------------ MODULE KvStore -------------------------------
(***************************************************************************)
(* The engine that keeps its links in an external RESP server (store_kv.rs *)
(* over kv.rs): nodes with a bounded cache and batched hit counts in front *)
(* of one shared server, in both layouts, "key" and "hash".                *)
(*                                                                         *)
(* A step is a command that the server executes, or what a node does under *)
(* one of its own locks.  The server executes a command and answers, or    *)
(* the command does not reach it, or the answer does not come back: the    *)
(* caller cannot tell the last two apart.                                  *)
(***************************************************************************)
EXTENDS Lru, FiniteSetsExt

CONSTANTS
    Nodes,      \* server processes
    Threads,    \* request threads
    Home,       \* thread -> its node
    Old,        \* codes that have a row from the start
    Generated,  \* codes that nodes draw; any may be asked for as alias
    TTLs,       \* time-to-live arguments, 0 = none
    Ops,        \* which operations clients call and which timers run
    Faults,     \* which faults happen: "refuse", "lost", "kill"
    Latency,    \* bound: ticks between a read and the use of its answer
    MaxNow,     \* bound: the clock stops here
    Budget      \* bound: how often each kind of step may happen

(* Resolves; everything else that clients and the environment do; both.    *)
Kinds == {"hit", "op", "all"}

Rows    == [u : Urls, e : Nat, px : Nat]
Layouts == {"key", "hash"}

ASSUME KvAssumption ==
    /\ IsFiniteSet(Nodes) /\ Home \in [Threads -> Nodes]
    /\ Generated \subseteq Codes /\ Old \subseteq Codes
    /\ None \notin Rows \cup Entries
    /\ TTLs \subseteq Nat
    /\ Ops \subseteq {"shorten", "bulk", "update", "remove", "resolve", "flush", "sweep", "close"}
    /\ Faults \subseteq {"refuse", "lost", "kill"}
    /\ Latency \in Nat /\ MaxNow \in Nat
    /\ Budget \in [Kinds -> Nat]

VARIABLES
    now,     \* the wall clock, of nodes and server
    spent,   \* how much of Budget is used
    layout,  \* KV_LAYOUT
    row,     \* server: code -> url, expiry, when the server drops it (0 = never)
    count,   \* server: code -> hit counter
    mode,    \* node: "up", "join", "last" (closing), "closed" or "down"
    cache,   \* node: a shard of its cache
    dirty,   \* node: hits not yet sent
    fpc,     \* node: whether flush_hits has a batch in hand
    batch,   \* node: that batch
    dead,    \* node: fields the janitor found expired and is about to delete
    pc,      \* thread: what it is about to do
    req,     \* thread: code, url, expiry, lifetime at the server, time read, and
             \* how many rows are still to be created
    \* ----- history, read by no guard
    last,    \* when a url was last the live target of a code
    served,  \* hits that were answered
    grants,  \* how many clients were told that the row of a code is theirs
    blind,   \* codes that a bulk call handed out without having seen the replies
    renewed  \* codes written since a janitor found them expired that is still
             \* to delete them

vars == <<now, spent, layout, row, count, mode, cache, dirty, fpc, batch, dead,
          pc, req, last, served, grants, blind, renewed>>

nodes  == <<mode, dead>>
hits   == <<dirty, fpc, batch>>

Spend(k) ==
    /\ spent[k] < Budget[k] /\ spent["all"] < Budget["all"]
    /\ spent' = [spent EXCEPT ![k] = @ + 1, !["all"] = @ + 1]

NoHits == [c \in Codes |-> 0]
Idle   == [c |-> None, u |-> None, e |-> 0, px |-> 0, r |-> 0, n |-> 0]

(* A process answers requests until it ends, also after close.             *)
Ready(t) == mode[Home[t]] # "down" /\ pc[t] = "idle"

Until(ttl)  == IF ttl > 0 THEN now + ttl ELSE 0
Expired(e)  == Past(e, now)

Go(t, to, r) == pc' = [pc EXCEPT ![t] = to] /\ req' = [req EXCEPT ![t] = r]
Done(t)      == Go(t, "idle", Idle)

-----------------------------------------------------------------------------
(* The server.                                                             *)

(* The row a command finds: with PX the server drops keys by itself, hash  *)
(* fields stay.                                                            *)
Visible(x)   == x # None /\ (x.px > 0 => x.px > now)
Target(c, u) == Visible(row[c]) /\ ~ Expired(row[c].e) /\ row[c].u = u

(* Noted before rows change and before time passes.                        *)
Note == last' = [c \in Codes |-> [u \in Urls |-> IF Target(c, u) THEN now ELSE last[c][u]]]

(* A command is executed and answered, or not executed, or executed and    *)
(* the answer lost.                                                        *)
Outcomes == {"ok"} \cup (Faults \cap {"refuse", "lost"})
Cost(o)  == IF o = "ok" THEN UNCHANGED spent ELSE Spend("op")

(* What the server keeps of a row with expiry e and lifetime px.           *)
Kept(u, e, px) ==
    [u |-> u, e |-> e, px |-> IF layout = "key" /\ px > 0 THEN now + px ELSE 0]

(* Faulty variant, for mutation only: SET without NX.                      *)
CreatesAlways(c) == TRUE

(* SET NX and HSETNX write only where there is no row.                     *)
Creates(c) == ~ Visible(row[c])

(* The codes of S are written.                                             *)
Renew(S) == renewed' = renewed \cup (S \cap UNION {dead[n] : n \in Nodes})

(* The row that request r creates at each code of S, as far as NX lets it; *)
(* T are the codes whose clients are told.                                 *)
SetNx(S, T, r) ==
    /\ row' = [c \in Codes |->
                  IF c \in S /\ Creates(c) THEN Kept(r.u, r.e, r.px) ELSE row[c]]
    /\ grants' = [c \in Codes |-> (IF c \in S /\ ~ Visible(row[c]) THEN 0 ELSE grants[c])
                                     + (IF c \in T THEN 1 ELSE 0)]
    /\ Renew({c \in S : Creates(c)})
    /\ Note
    /\ UNCHANGED <<layout, count>>

(* DEL and HDEL of the rows of S.                                          *)
Del(S) ==
    /\ row' = [c \in Codes |-> IF c \in S THEN None ELSE row[c]]
    /\ grants' = [c \in Codes |-> IF c \in S THEN 0 ELSE grants[c]]
    /\ Note
    /\ UNCHANGED <<layout, count>>

-----------------------------------------------------------------------------
(* Nodes that have just opened a server which holds the rows of Old.       *)
Init ==
    /\ now = 0
    /\ spent = [k \in Kinds |-> 0]
    /\ layout \in Layouts
    /\ \E u \in Urls, ttl \in TTLs :
        row = [c \in Codes |-> IF c \in Old THEN Kept(u, Until(ttl), ttl) ELSE None]
    /\ count = NoHits
    /\ mode = [n \in Nodes |-> "up"]
    /\ cache = [n \in Nodes |-> NoCache]
    /\ dirty = [n \in Nodes |-> NoHits]
    /\ fpc = [n \in Nodes |-> FALSE]
    /\ batch = [n \in Nodes |-> NoHits]
    /\ dead = [n \in Nodes |-> {}]
    /\ pc = [t \in Threads |-> "idle"]
    /\ req = [t \in Threads |-> Idle]
    /\ last = [c \in Codes |-> [u \in Urls |-> 0]]
    /\ served = NoHits
    /\ grants = [c \in Codes |-> IF row[c] = None THEN 0 ELSE 1]
    /\ blind = {}
    /\ renewed = {}

(* Time passes; an answer is used at most Latency ticks after the server   *)
(* gave it.                                                                *)
Tick ==
    /\ now < MaxNow
    /\ \A t \in Threads : pc[t] = "fill" => now - req[t].r < Latency
    /\ now' = now + 1
    /\ Note
    /\ UNCHANGED <<spent, layout, row, count, nodes, cache, hits, pc, req, served, grants,
                   blind, renewed>>

-----------------------------------------------------------------------------
(* Requests.                                                               *)

(* A client resolves c: one more hit to send.                              *)
Bump(n, c) ==
    /\ dirty' = [dirty EXCEPT ![n][c] = @ + 1]
    /\ served' = [served EXCEPT ![c] = @ + 1]
    /\ UNCHANGED <<fpc, batch>>

ResolveHit(t, c) ==
    /\ Ready(t) /\ "resolve" \in Ops
    /\ Answers(cache[Home[t]], c, now)
    /\ Spend("hit")
    /\ Bump(Home[t], c)
    /\ UNCHANGED <<now, layout, row, count, nodes, cache, pc, req, last, grants, blind, renewed>>

(* A stale entry leaves the cache, an expired one stays.                   *)
ResolveMiss(t, c) ==
    /\ Ready(t) /\ "resolve" \in Ops
    /\ ~ Answers(cache[Home[t]], c, now)
    /\ Spend("hit")
    /\ cache' = [cache EXCEPT ![Home[t]] = Looked(@, c, now)]
    /\ Go(t, "get", [Idle EXCEPT !.c = c])
    /\ UNCHANGED <<now, layout, row, count, nodes, hits, last, served, grants, blind, renewed>>

(* An error and a missing row end the request alike.                       *)
KvGet(t) ==
    /\ pc[t] = "get"
    /\ \E o \in Outcomes \ {"lost"} :
        /\ Cost(o)
        /\ IF o = "ok" /\ Visible(row[req[t].c])
           THEN LET x == row[req[t].c]
                IN  Go(t, "fill", [req[t] EXCEPT !.u = x.u, !.e = x.e, !.r = now])
           ELSE Done(t)
    /\ UNCHANGED <<now, layout, row, count, nodes, cache, hits, last, served, grants, blind, renewed>>

Fill(t) ==
    /\ pc[t] = "fill"
    /\ IF Expired(req[t].e)
       THEN UNCHANGED <<cache, hits, served>>
       ELSE /\ cache' = [cache EXCEPT ![Home[t]] =
                            With(@, req[t].c, [u |-> req[t].u, e |-> req[t].e, at |-> now])]
            /\ Bump(Home[t], req[t].c)
    /\ Done(t)
    /\ UNCHANGED <<now, spent, layout, row, count, nodes, last, grants, blind, renewed>>

Shorten(t, c, u, ttl) ==
    /\ Ready(t) /\ "shorten" \in Ops
    /\ Spend("op")
    /\ Go(t, IF c = None THEN "gen" ELSE "alias",
          [Idle EXCEPT !.c = c, !.u = u, !.e = Until(ttl), !.px = ttl, !.n = 1])
    /\ UNCHANGED <<now, layout, row, count, nodes, cache, hits, last, served, grants, blind, renewed>>

(* An alias is tried once; the client hears "taken" also when the command  *)
(* failed.                                                                 *)
SetAlias(t) ==
    /\ pc[t] = "alias"
    /\ \E o \in Outcomes :
        /\ Cost(o)
        /\ LET c == req[t].c
           IN  SetNx({d \in {c} : o # "refuse"},
                     {d \in {c} : o = "ok" /\ Creates(d)}, req[t])
    /\ Done(t)
    /\ UNCHANGED <<now, nodes, cache, hits, served, blind>>

(* What a caller does that still has n rows to create: the next one starts *)
(* over, with a new expiry.                                                *)
Further(t, n) ==
    IF n > 0 THEN Go(t, "retry", [req[t] EXCEPT !.n = n]) ELSE Done(t)

(* A drawn code that is taken, and an error, make the loop draw another.   *)
SetDrawn(t) ==
    /\ pc[t] = "gen"
    /\ \E c \in Generated, o \in Outcomes :
        /\ Cost(o)
        /\ SetNx({d \in {c} : o # "refuse"}, {d \in {c} : o = "ok" /\ Creates(d)}, req[t])
        /\ IF o = "ok" /\ Creates(c)
           THEN Further(t, req[t].n - 1)
           ELSE UNCHANGED <<pc, req>>
    /\ UNCHANGED <<now, nodes, cache, hits, served, blind>>

Retry(t) ==
    /\ pc[t] = "retry"
    /\ Go(t, "gen", [req[t] EXCEPT !.e = Until(req[t].px)])
    /\ UNCHANGED <<now, spent, layout, row, count, nodes, cache, hits, last, served, grants,
                   blind, renewed>>

Bulk(t, u, ttl) ==
    /\ Ready(t) /\ "bulk" \in Ops
    /\ Spend("op")
    /\ Go(t, "bulk", [Idle EXCEPT !.u = u, !.e = Until(ttl), !.px = ttl])
    /\ UNCHANGED <<now, layout, row, count, nodes, cache, hits, last, served, grants, blind, renewed>>

(* One pipe for the codes of S.  What its replies refuse is created again  *)
(* one by one; when it fails half-way, at the codes of D, all codes are    *)
(* handed out unseen.                                                      *)
BulkPipe(t) ==
    /\ pc[t] = "bulk"
    /\ \E S \in SUBSET Generated \ {{}} :
        \/ /\ UNCHANGED <<spent, blind>>
           /\ SetNx(S, {c \in S : Creates(c)}, req[t])
           /\ Further(t, Cardinality({c \in S : ~ Creates(c)}))
        \/ /\ Outcomes # {"ok"} /\ Spend("op")
           /\ \E D \in SUBSET S : SetNx(D, S, req[t])
           /\ blind' = blind \cup S
           /\ Done(t)
    /\ UNCHANGED <<now, nodes, cache, hits, served>>

(* The row is read, expired or not; ttl = None keeps its expiry.           *)
UpdateRead(t, c, u, ttl) ==
    /\ Ready(t) /\ "update" \in Ops
    /\ Visible(row[c])
    /\ Spend("op")
    /\ LET e == IF ttl = None THEN row[c].e ELSE Until(ttl)
       IN  Go(t, "update", [Idle EXCEPT !.c = c, !.u = u, !.e = e,
                                        !.px = IF e > now THEN e - now ELSE 0])
    /\ UNCHANGED <<now, layout, row, count, nodes, cache, hits, last, served, grants, blind, renewed>>

(* SET and HSET write whether or not the row is still there; only an       *)
(* answer makes the node forget what it cached.                            *)
UpdateSet(t) ==
    /\ pc[t] = "update"
    /\ \E o \in Outcomes :
        /\ Cost(o)
        /\ IF o = "refuse"
           THEN UNCHANGED <<row, grants, last, renewed>>
           ELSE /\ row' = [row EXCEPT ![req[t].c] = Kept(req[t].u, req[t].e, req[t].px)]
                /\ grants' = [grants EXCEPT ![req[t].c] =
                                 IF Visible(row[req[t].c]) THEN @ ELSE 0]
                /\ Renew({req[t].c})
                /\ Note
        /\ IF o = "ok" THEN Go(t, "forget", req[t]) ELSE Done(t)
    /\ UNCHANGED <<now, layout, count, nodes, cache, hits, served, blind>>

RemoveRow(t, c) ==
    /\ Ready(t) /\ "remove" \in Ops
    /\ Visible(row[c])
    /\ Spend("op")
    /\ \E o \in Outcomes :
        /\ Del({d \in {c} : o # "refuse"})
        /\ IF o = "ok" THEN Go(t, "remove", [Idle EXCEPT !.c = c]) ELSE UNCHANGED <<pc, req>>
    /\ UNCHANGED <<now, nodes, cache, hits, served, blind, renewed>>

(* The hit counter goes too; nobody looks whether that worked.             *)
RemoveHits(t) ==
    /\ pc[t] = "remove"
    /\ \E o \in Outcomes :
        /\ Cost(o)
        /\ count' = IF o = "refuse" THEN count ELSE [count EXCEPT ![req[t].c] = 0]
    /\ Go(t, "forget", req[t])
    /\ UNCHANGED <<now, layout, row, nodes, cache, hits, last, served, grants, blind, renewed>>

Forget(t) ==
    /\ pc[t] = "forget"
    /\ cache' = [cache EXCEPT ![Home[t]] = Without(@, req[t].c)]
    /\ Done(t)
    /\ UNCHANGED <<now, spent, layout, row, count, nodes, hits, last, served, grants, blind, renewed>>

-----------------------------------------------------------------------------
(* The threads of a node, and its end.                                     *)

(* The flush timer, and the last flush of close once the timers have       *)
(* ended.                                                                  *)
FlushTake(n) ==
    /\ ~ fpc[n] /\ "flush" \in Ops
    /\ \/ mode[n] = "up" /\ dirty[n] # NoHits /\ UNCHANGED mode
       \/ mode[n] = "join" /\ dead[n] = {} /\ mode' = [mode EXCEPT ![n] = "last"]
    /\ fpc' = [fpc EXCEPT ![n] = TRUE]
    /\ batch' = [batch EXCEPT ![n] = dirty[n]]
    /\ dirty' = [dirty EXCEPT ![n] = NoHits]
    /\ UNCHANGED <<now, spent, layout, row, count, dead, cache, pc, req, last, served, grants,
                   blind, renewed>>

(* Faulty variant, for mutation only: a batch whose pipe failed is sent    *)
(* again.                                                                  *)
UnsentRetried(n, o) == IF o = "ok" THEN NoHits ELSE batch[n]

(* What is left of a batch after its pipe: nothing, whatever came of it.   *)
Unsent(n, o) == NoHits

(* When the pipe fails, the counters of S were increased.                  *)
FlushSend(n) ==
    /\ fpc[n]
    /\ \E o \in {"ok", "fail"}, S \in SUBSET {c \in Codes : batch[n][c] > 0} :
        /\ IF o = "ok"
           THEN S = {c \in Codes : batch[n][c] > 0} /\ UNCHANGED spent
           ELSE Outcomes # {"ok"} /\ batch[n] # NoHits /\ Spend("op")
        /\ count' = [c \in Codes |-> count[c] + (IF c \in S THEN batch[n][c] ELSE 0)]
        /\ dirty' = [dirty EXCEPT ![n] = [c \in Codes |-> @[c] + Unsent(n, o)[c]]]
    /\ batch' = [batch EXCEPT ![n] = NoHits]
    /\ fpc' = [fpc EXCEPT ![n] = FALSE]
    /\ mode' = [mode EXCEPT ![n] = IF @ = "last" THEN "closed" ELSE @]
    /\ UNCHANGED <<now, layout, row, dead, cache, pc, req, last, served, grants, blind, renewed>>

(* Faulty variant, for mutation only: every field with an expiry.          *)
ExpiredFieldsAll == {c \in Codes : row[c] # None /\ row[c].e > 0}

(* What a scan of all buckets finds expired.                               *)
ExpiredFields == {c \in Codes : row[c] # None /\ Expired(row[c].e)}

(* The janitor of the hash layout finds the expired fields ...             *)
SweepScan(n) ==
    /\ mode[n] = "up" /\ layout = "hash" /\ dead[n] = {} /\ "sweep" \in Ops
    /\ ExpiredFields # {}
    /\ dead' = [dead EXCEPT ![n] = ExpiredFields]
    /\ UNCHANGED <<now, spent, layout, row, count, mode, cache, hits, pc, req, last, served,
                   grants, blind, renewed>>

(* ... and deletes them by name; a pipe that fails deletes some.           *)
SweepDel(n) ==
    /\ dead[n] # {}
    /\ \/ Del(dead[n]) /\ UNCHANGED spent
       \/ /\ Outcomes # {"ok"} /\ Spend("op")
          /\ \E S \in SUBSET dead[n] : Del(S)
    /\ dead' = [dead EXCEPT ![n] = {}]
    /\ renewed' = renewed \cap UNION {dead[m] : m \in Nodes \ {n}}
    /\ UNCHANGED <<now, mode, cache, hits, pc, req, served, blind>>

(* A signal, or the drop of a handle, which may come again.                *)
Close(n) ==
    /\ mode[n] \in {"up", "closed"} /\ "close" \in Ops
    /\ Spend("op")
    /\ mode' = [mode EXCEPT ![n] = "join"]
    /\ UNCHANGED <<now, layout, row, count, dead, cache, hits, pc, req, last, served, grants,
                   blind, renewed>>

(* The process ends: after close, or at any time.                          *)
End(n) ==
    /\ mode[n] # "down"
    /\ \/ mode[n] = "closed" /\ UNCHANGED spent
       \/ "kill" \in Faults /\ Spend("op")
    /\ mode' = [mode EXCEPT ![n] = "down"]
    /\ cache' = [cache EXCEPT ![n] = NoCache]
    /\ dirty' = [dirty EXCEPT ![n] = NoHits]
    /\ batch' = [batch EXCEPT ![n] = NoHits]
    /\ fpc' = [fpc EXCEPT ![n] = FALSE]
    /\ dead' = [dead EXCEPT ![n] = {}]
    /\ pc' = [t \in Threads |-> IF Home[t] = n THEN "idle" ELSE pc[t]]
    /\ req' = [t \in Threads |-> IF Home[t] = n THEN Idle ELSE req[t]]
    /\ UNCHANGED <<now, layout, row, count, last, served, grants, blind, renewed>>

Open(n) ==
    /\ mode[n] = "down"
    /\ mode' = [mode EXCEPT ![n] = "up"]
    /\ UNCHANGED <<now, spent, layout, row, count, dead, cache, hits, pc, req, last, served,
                   grants, blind, renewed>>

-----------------------------------------------------------------------------
Request(t) ==
    \/ \E c \in Codes : ResolveHit(t, c) \/ ResolveMiss(t, c) \/ RemoveRow(t, c)
    \/ \E u \in Urls, ttl \in TTLs :
        \/ \E c \in Codes \cup {None} : Shorten(t, c, u, ttl)
        \/ Bulk(t, u, ttl)
    \/ \E c \in Codes, u \in Urls, ttl \in TTLs \cup {None} : UpdateRead(t, c, u, ttl)

ThreadStep(t) ==
    KvGet(t) \/ Fill(t) \/ SetAlias(t) \/ SetDrawn(t) \/ Retry(t) \/ BulkPipe(t)
      \/ UpdateSet(t) \/ RemoveHits(t) \/ Forget(t)

NodeStep(n) ==
    FlushTake(n) \/ FlushSend(n) \/ SweepScan(n) \/ SweepDel(n) \/ Close(n) \/ End(n) \/ Open(n)

Next ==
    \/ Tick
    \/ \E t \in Threads : Request(t) \/ ThreadStep(t)
    \/ \E n \in Nodes : NodeStep(n)

Spec == Init /\ [][Next]_vars

-----------------------------------------------------------------------------
Steps == {"idle", "get", "fill", "alias", "gen", "retry", "bulk", "update", "remove", "forget"}
Reqs  == [c : Codes \cup {None}, u : Urls \cup {None}, e : Nat, px : Nat, r : Nat, n : Nat]

(* Types, the bound on the cache that keeps a node's memory flat, and its  *)
(* queue in step with its map (Lru::put, get and remove).                  *)
TypeOK ==
    /\ now \in 0..MaxNow
    /\ spent \in [Kinds -> Nat]
    /\ layout \in Layouts
    /\ row \in [Codes -> Rows \cup {None}]
    /\ count \in [Codes -> Nat]
    /\ mode \in [Nodes -> {"up", "join", "last", "closed", "down"}]
    /\ cache \in [Nodes -> Shards]
    /\ \A n \in Nodes : Consistent(cache[n]) /\ Len(cache[n].order) <= CacheSize
    /\ dirty \in [Nodes -> [Codes -> Nat]]
    /\ fpc \in [Nodes -> BOOLEAN]
    /\ batch \in [Nodes -> [Codes -> Nat]]
    /\ dead \in [Nodes -> SUBSET Codes]
    /\ pc \in [Threads -> Steps]
    /\ req \in [Threads -> Reqs]

(* What any node still answers from its cache was the live target of the   *)
(* code at most CACHE_TTL_MS and the time an answer of the server takes    *)
(* ago, whatever updates, removals and expiries happened on other nodes,   *)
(* lost replies and entries put after they were invalidated included.      *)
StaleBound ==
    \A n \in Nodes, c \in Codes :
        Answers(cache[n], c, now) =>
            LET u == cache[n].map[c].u
            IN  Target(c, u) \/ now - last[c][u] <= CacheTtl + Latency

(* The hits of c that each node has not sent.                              *)
Unflushed(c) == [n \in Nodes |-> dirty[n][c] + batch[n][c]]

(* Hits are at most once: flush_hits takes a batch before it sends it, and *)
(* a pipe that failed after some of its INCRBYs is not sent again.         *)
HitsNeverDoubled ==
    \A c \in Codes :
        count[c] + SumFunction(Unflushed(c)) <= served[c]

(* No two clients are told that the same row is theirs, whichever nodes    *)
(* they asked and however rows expire, are swept or come back; except      *)
(* through a bulk call whose pipe failed, which hands out codes it has     *)
(* not seen created.                                                       *)
CreatedOnce == \A c \in Codes \ blind : grants[c] <= 1

(* A live row stays as it is until it expires, unless a client updates or  *)
(* removes it: janitors of any node, the server's own expiry, creations,   *)
(* bulk calls and their retries leave it alone.  Except for a row that was *)
(* written after a janitor had found its predecessor expired: the janitor  *)
(* deletes by name.                                                        *)
LiveRowKept ==
    [][\A c \in Codes \ renewed :
          /\ Visible(row[c]) /\ ~ Past(row[c].e, now')
          /\ ~ \E t \in Threads : RemoveRow(t, c) \/ (req[t].c = c /\ UpdateSet(t))
          => row'[c] = row[c] /\ Visible(row[c])']_vars

-----------------------------------------------------------------------------
(* What the properties above need to be inductive.                         *)

HistoryOK ==
    /\ last \in [Codes -> [Urls -> Nat]] /\ \A c \in Codes, u \in Urls : last[c][u] <= now
    /\ served \in [Codes -> Nat] /\ grants \in [Codes -> Nat]
    /\ blind \subseteq Codes /\ renewed \subseteq Codes

(* What request r has in hand, by what its thread is about to do; what it  *)
(* is about to write does not leave the server before it expires.          *)
Fits(p, r) ==
    /\ p \in {"get", "fill", "alias", "update", "remove", "forget"} => r.c \in Codes
    /\ p \in {"fill", "alias", "gen", "retry", "bulk", "update"} => r.u \in Urls
    /\ p \in {"alias", "gen", "retry", "bulk", "update"} /\ r.px > 0 => r.e > 0 /\ r.e <= now + r.px

RequestOK == \A t \in Threads : Fits(pc[t], req[t])

(* Nor does any row.                                                       *)
PxHolds ==
    \A c \in Codes : row[c] # None /\ row[c].px > 0 => row[c].e > 0 /\ row[c].e <= row[c].px

(* What a janitor is about to delete has expired, or is known as renewed.  *)
DeadHolds ==
    \A n \in Nodes : \A c \in dead[n] \ renewed : row[c] # None => Expired(row[c].e)

(* What the server answered is the target, or was when it answered, or has *)
(* expired meanwhile.                                                      *)
ReadHolds ==
    \A t \in Threads :
        LET r == req[t]
        IN  pc[t] = "fill" =>
                /\ r.r <= now /\ now - r.r <= Latency
                /\ Expired(r.e) \/ Target(r.c, r.u) \/ r.r <= last[r.c][r.u]

(* What is cached is the target, or was at most Latency before it was put. *)
CacheHolds ==
    \A n \in Nodes, c \in Codes :
        LET x == cache[n].map[c]
        IN  x # None => x.at <= now /\ (Target(c, x.u) \/ x.at <= last[c][x.u] + Latency)
=============================================================================
