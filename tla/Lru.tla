-------------------------------- MODULE Lru ---------------------------------
(***************************************************************************)
(* The bounded cache that the KV and the RocksDB engine keep in front of   *)
(* their rows (Lru of store_kv.rs): one shard, a map and the queue of its  *)
(* codes, oldest first.  A shard is a value here; an engine that holds its *)
(* lock replaces it.                                                       *)
(***************************************************************************)
EXTENDS Naturals, Sequences, FiniteSets, SequencesExt

CONSTANTS
    Codes,     \* short codes
    Urls,      \* target urls
    None,      \* no row, no entry
    CacheTtl,  \* CACHE_TTL_MS, 0 = entries do not go stale
    CacheSize  \* entries per shard

ASSUME LruAssumption ==
    /\ IsFiniteSet(Codes) /\ None \notin Codes
    /\ CacheTtl \in Nat /\ CacheSize \in Nat \ {0}

Entries == [u : Urls, e : Nat, at : Nat]
Shards  == [map : [Codes -> Entries \cup {None}], order : Seq(Codes)]

NoCache == [map |-> [c \in Codes |-> None], order |-> <<>>]

(* Whether an expiry has come; 0 is never.                                 *)
Past(e, now) == e > 0 /\ e <= now

(* Faulty variant, for mutation only: entries do not go stale.             *)
FreshAlways(x, now) == TRUE

Fresh(x, now) == CacheTtl = 0 \/ now - x.at <= CacheTtl

(* Whether get returns what is cached: neither stale nor past its expiry.  *)
Answers(shard, c, now) ==
    /\ shard.map[c] # None
    /\ Fresh(shard.map[c], now) /\ ~ Past(shard.map[c].e, now)

(* retain: what is left of queue q without c, in the same order.           *)
Retained(q, c) ==
    LET kept[k \in 0..Len(q)] ==
            IF k = 0 THEN <<>>
            ELSE IF q[k] = c THEN kept[k - 1] ELSE Append(kept[k - 1], q[k])
    IN  kept[Len(q)]

(* Faulty variant, for mutation only: an entry leaves the map and not the  *)
(* queue.                                                                  *)
WithoutMapOnly(shard, c) == [shard EXCEPT !.map[c] = None]

Without(shard, c) ==
    [map |-> [shard.map EXCEPT ![c] = None], order |-> Retained(shard.order, c)]

(* What get leaves behind: a stale entry goes, an expired one stays.       *)
Looked(shard, c, now) ==
    IF shard.map[c] # None /\ ~ Fresh(shard.map[c], now) THEN Without(shard, c) ELSE shard

(* Faulty variant, for mutation only: one entry too many stays.            *)
PoppedTooFew(q) == IF Len(q) > CacheSize THEN Len(q) - CacheSize ELSE 0

(* How many codes put pops from the front of a queue, so that there is     *)
(* room for one more.                                                      *)
Popped(q) == IF Len(q) >= CacheSize THEN Len(q) + 1 - CacheSize ELSE 0

(* put: an entry that is there is overwritten in place, a new one goes to  *)
(* the end of the queue.                                                   *)
With(shard, c, x) ==
    IF shard.map[c] # None
    THEN [shard EXCEPT !.map[c] = x]
    ELSE LET q   == shard.order
             out == {q[k] : k \in 1..Popped(q)}
         IN  [map   |-> [d \in Codes |-> IF d = c THEN x
                                         ELSE IF d \in out THEN None ELSE shard.map[d]],
              order |-> Append(SubSeq(q, Popped(q) + 1, Len(q)), c)]

(* The queue lists the codes of the map, each once.                        *)
Consistent(shard) ==
    /\ ToSet(shard.order) = {c \in Codes : shard.map[c] # None}
    /\ Len(shard.order) = Cardinality(ToSet(shard.order))
=============================================================================
