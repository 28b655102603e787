----------------------------- MODULE LocalStore -----------------------------
(***************************************************************************)
(* The in-process engine of store.rs with its append-only log (aof.rs), as *)
(* the only instance in its data directory, at the grain of its locks: a   *)
(* step is what one thread does while it holds one lock.                   *)
(*                                                                         *)
(* Request threads change the index under a shard lock and queue the log   *)
(* line afterwards under the log's own lock.  Timers move the queue to the *)
(* file and fsync it, compaction replaces the log by a snapshot, closing   *)
(* stops the timers.  The process may be killed, the machine may lose      *)
(* power, the disk may be full, and the next process replays what is left. *)
(***************************************************************************)
EXTENDS LogOps

CONSTANTS
    Threads,     \* request threads
    Me,          \* the instance id
    TTLs,        \* time-to-live arguments, 0 = none
    Ops,         \* which operations clients call
    Faults,      \* which faults the environment injects
    FlushLines,  \* FLUSH_BYTES, in lines
    MaxNow,      \* bound: the clock stops here
    Budget       \* bound: how often each kind of step may happen

Kinds == {"op", "hit", "crash", "compact"}

ASSUME StoreAssumption ==
    /\ IsFiniteSet(Threads)
    /\ Me \in Nat
    /\ TTLs \subseteq Nat
    /\ FlushLines \in Nat
    /\ MaxNow \in Nat
    /\ Budget \in [Kinds -> Nat]
    /\ Ops \subseteq {"shorten", "bulk", "update", "remove", "resolve", "flush", "close"}
    /\ Faults \subseteq {"kill", "powerloss", "tear", "diskfull", "snapfail", "drop"}

VARIABLES
    mode,      \* "down", "load" (replaying) or "up"
    now,       \* the wall clock
    spent,     \* how much of Budget is used
    \* ----- memory of the process
    index,     \* the sharded map: code -> entry or None
    stray,     \* hit deltas without a row
    dirty,     \* hits counted and not yet written as delta lines
    pc,        \* what each request thread is about to do
    pend,      \* the log lines it still has to queue
    hot,       \* the code whose hit it still has to add to dirty
    fpc,       \* what each caller of flush_locked is about to do
    drained,   \* the delta lines it took out of dirty
    cpc,       \* what compaction is about to do
    tmp,       \* the rows it wrote to the temporary snapshot
    closer,    \* how far close has come
    quit,      \* the signal handler: "no", "waits" for close, or exits "now"
    buf,       \* the log's queue
    replayed,  \* lines of the log replayed so far, while loading
    \* ----- files
    file,      \* complete lines of the log
    torn,      \* the unfinished line at its end, or None
    synced,    \* how many of its lines an fsync covered
    snap,      \* the snapshot: code -> row line or None
    \* ----- history, read by no guard
    excused,   \* codes whose log a race or an injected fault disturbed
    since,     \* values of a code since the last flush, the last fsync
    owed       \* values a restart may find

vars == <<mode, now, spent, index, stray, dirty, pc, pend, hot, fpc, drained,
          cpc, tmp, closer, quit, buf, replayed, file, torn, synced, snap,
          excused, since, owed>>

memory == <<index, stray, dirty>>
workers == <<pc, pend, hot, fpc, drained, cpc, tmp, closer, quit>>
disk    == <<file, torn, synced>>
history == <<excused, since, owed>>

(* Callers of flush_locked: the timer thread, an API caller (Store::flush, *)
(* seed), compaction and close.                                            *)
Flushers == {"timer", "caller", "compact", "close"}

Spend(k) == spent[k] < Budget[k] /\ spent' = [spent EXCEPT ![k] = @ + 1]

(* Lines queued or about to be queued by thread t that set code c.         *)
InFlight(p, c) == \E t \in Threads : Touches(p[t], c)

(* gate: mutations and flushes share it, compaction has it alone.          *)
GateIgnored == TRUE  \* faulty variant, for mutation only: no gate
GateFree == cpc = "idle"
GateAlone ==
    /\ \A t \in Threads : pc[t] \notin {"push", "append", "bulk"}
    /\ \A f \in Flushers : fpc[f] = "idle"

-----------------------------------------------------------------------------
Nothing == [c \in Codes |-> None]

Init ==
    /\ mode = "up" /\ now = 0
    /\ spent = [k \in Kinds |-> 0]
    /\ index = Nothing
    /\ stray = [c \in Codes |-> NoStray]
    /\ dirty = [c \in Codes |-> 0]
    /\ pc = [t \in Threads |-> "idle"]
    /\ pend = [t \in Threads |-> <<>>]
    /\ hot = [t \in Threads |-> None]
    /\ fpc = [f \in Flushers |-> "idle"]
    /\ drained = [f \in Flushers |-> <<>>]
    /\ cpc = "idle" /\ tmp = Nothing
    /\ closer = "open" /\ quit = "no"
    /\ buf = <<>> /\ replayed = 0
    /\ file = <<>> /\ torn = None /\ synced = 0 /\ snap = Nothing
    /\ excused = {}
    /\ since = [k \in {"flush", "sync"} |-> [c \in Codes |-> {None}]]
    /\ owed = [c \in Codes |-> {None}]

Tick ==
    /\ now < MaxNow
    /\ now' = now + 1
    /\ UNCHANGED <<mode, spent, memory, workers, buf, replayed, disk, snap, history>>

-----------------------------------------------------------------------------
(* Request threads, first half: the index, under the shard's write lock.   *)

(* Faulty variant, for mutation only: a time-to-live that counts back.     *)
ExpiryBackwards(ttl) == IF ttl > 0 THEN now - ttl ELSE 0

Expiry(ttl) == IF ttl > 0 THEN now + ttl ELSE 0

NewEntry(u, e) == [u |-> u, e |-> e, i |-> Me, h |-> 0, oh |-> 0]

(* Thread t gives code c the entry x and will queue line l.                *)
Write(t, c, x, l) ==
    /\ index' = [index EXCEPT ![c] = x]
    /\ pend' = [pend EXCEPT ![t] = Append(@, l)]
    /\ since' = [k \in {"flush", "sync"} |->
                    [since[k] EXCEPT ![c] = @ \cup {Value(x)}]]
    /\ excused' = IF \E s \in Threads \ {t} : Touches(pend[s], c)
                  THEN excused \cup {c} ELSE excused
    /\ UNCHANGED <<mode, now, stray, dirty, hot, fpc, drained, cpc, tmp, closer, quit,
                   buf, replayed, disk, snap, owed>>

(* A generated code is drawn until it is free; a taken alias changes       *)
(* nothing.                                                                *)
Shorten(t) ==
    /\ mode = "up" /\ "shorten" \in Ops /\ GateFree /\ pc[t] = "idle"
    /\ Spend("op")
    /\ \E c \in Codes, u \in Urls, ttl \in TTLs :
          /\ index[c] = None
          /\ Write(t, c, NewEntry(u, Expiry(ttl)), RowLine(c, u, Expiry(ttl), Me, 0))
    /\ pc' = [pc EXCEPT ![t] = "push"]

(* shorten_many: each row under its own shard lock, one push at the end.   *)
Bulk(t) ==
    /\ mode = "up" /\ "bulk" \in Ops
    /\ pc[t] = "bulk" \/ (pc[t] = "idle" /\ GateFree)
    /\ Spend("op")
    /\ \E c \in Codes, u \in Urls, ttl \in TTLs :
          LET e == IF pend[t] = <<>> THEN Expiry(ttl) ELSE pend[t][1].e
          IN  /\ index[c] = None
              /\ Write(t, c, NewEntry(u, e), RowLine(c, u, e, Me, 0))
    /\ pc' = [pc EXCEPT ![t] = "bulk"]

Update(t) ==
    /\ mode = "up" /\ "update" \in Ops /\ GateFree /\ pc[t] = "idle"
    /\ Spend("op")
    /\ \E c \in Codes, u \in Urls :
          /\ index[c] # None
          /\ index[c].i = Me
          /\ \E e \in {index[c].e} \cup {Expiry(ttl) : ttl \in TTLs} :
                Write(t, c, [index[c] EXCEPT !.u = u, !.e = e], RowLine(c, u, e, Me, 0))
    /\ pc' = [pc EXCEPT ![t] = "append"]

Remove(t) ==
    /\ mode = "up" /\ "remove" \in Ops /\ GateFree /\ pc[t] = "idle"
    /\ Spend("op")
    /\ \E c \in Codes :
          /\ index[c] # None
          /\ index[c].i = Me
          /\ Write(t, c, None, DelLine(c))
    /\ pc' = [pc EXCEPT ![t] = "append"]

-----------------------------------------------------------------------------
(* Aof: the queue q goes to the file in one write whose error is ignored.  *)
(* On a full disk only a part arrives, and the queue is cleared as well.   *)
(* "lost" holds the codes whose lines did not arrive as they were queued.  *)

SetBy(ls) == {c \in Codes : \E l \in ls : Sets(l, c)}

Glued(q) ==
    IF torn = None \/ q = <<>> THEN {q} ELSE {<<g>> \o Tail(q) : g \in GluedLines(torn, Head(q))}

FullWrites(q) ==
    {[add |-> g, torn |-> IF q = <<>> THEN torn ELSE None,
      lost |-> IF g = q THEN {} ELSE SetBy({Head(g), Head(q)})] : g \in Glued(q)}

CutAt(q, w, n) ==
    {[add |-> SubSeq(w.add, 1, n), torn |-> x,
      lost |-> w.lost \cup SetBy({q[j] : j \in (n + 1)..Len(q)})] :
        x \in (IF n = 0 THEN {torn} ELSE {None}) \cup
              (IF n > 0 \/ torn = None THEN {q[n + 1]} ELSE {})}

ShortWrites(q) == UNION {CutAt(q, w, n) : w \in FullWrites(q), n \in 0..(Len(q) - 1)}

Writes(q) ==
    FullWrites(q) \cup (IF "diskfull" \in Faults THEN ShortWrites(q) ELSE {})

(* Aof::flush of the queue q.                                              *)
FlushQueue(q) ==
    /\ \E w \in Writes(q) :
          /\ file' = file \o w.add
          /\ torn' = w.torn
          /\ excused' = excused \cup w.lost
    /\ buf' = <<>>

(* The values since the last flush (or fsync) start over with the current  *)
(* one, but for codes that a thread has changed and not queued (p).        *)
Settle(kinds, p) ==
    since' = [k \in {"flush", "sync"} |->
                 [c \in Codes |-> IF k \notin kinds \/ InFlight(p, c)
                                  THEN since[k][c] ELSE {Value(index[c])}]]

Flush(q, p) == FlushQueue(q) /\ Settle({"flush"}, p) /\ UNCHANGED synced

(* Faulty variant, for mutation only: the fsync left out.                  *)
SyncFlushesOnly(q, p) ==
    /\ FlushQueue(q)
    /\ Settle({"flush", "sync"}, p)
    /\ UNCHANGED synced

Sync(q, p) ==
    /\ FlushQueue(q)
    /\ Settle({"flush", "sync"}, p)
    /\ synced' = Len(file')

(* Request threads, second half: the log, under its lock.                  *)

(* End of shorten and shorten_many: queue the rows, flush a long queue.    *)
Push(t) ==
    LET q == buf \o pend[t]
        p == [pend EXCEPT ![t] = <<>>]
    IN  /\ pc[t] \in {"push", "bulk"}
        /\ pc' = [pc EXCEPT ![t] = "idle"]
        /\ pend' = p
        /\ \/ Len(q) > FlushLines /\ Flush(q, p)
           \/ Len(q) <= FlushLines /\ buf' = q /\ UNCHANGED <<disk, excused, since>>
        /\ UNCHANGED <<mode, now, spent, memory, hot, fpc, drained, cpc, tmp, closer,
                       quit, replayed, snap, owed>>

(* End of update and remove: queue the line.                               *)
Queue(t) ==
    /\ pc[t] = "append"
    /\ pc' = [pc EXCEPT ![t] = "idle"]
    /\ pend' = [pend EXCEPT ![t] = <<>>]
    /\ buf' = buf \o pend[t]
    /\ UNCHANGED <<mode, now, spent, memory, hot, fpc, drained, cpc, tmp, closer, quit,
                   replayed, disk, snap, history>>

Live(x) == x # None /\ (x.e = 0 \/ x.e > now)

(* resolve counts the hit in the entry under the shard's read lock ...     *)
Resolve(t) ==
    /\ mode = "up" /\ "resolve" \in Ops /\ pc[t] = "idle"
    /\ Spend("hit")
    /\ \E c \in Codes :
          /\ Live(index[c])
          /\ index' = [index EXCEPT ![c].h = @ + 1, ![c].oh = @ + 1]
          /\ hot' = [hot EXCEPT ![t] = c]
    /\ pc' = [pc EXCEPT ![t] = "bump"]
    /\ UNCHANGED <<mode, now, stray, dirty, pend, fpc, drained, cpc, tmp, closer, quit,
                   buf, replayed, disk, snap, history>>

(* ... and, that lock released, in dirty.  It never holds the gate.        *)
Bump(t) ==
    /\ pc[t] = "bump"
    /\ dirty' = [dirty EXCEPT ![hot[t]] = @ + 1]
    /\ hot' = [hot EXCEPT ![t] = None]
    /\ pc' = [pc EXCEPT ![t] = "idle"]
    /\ UNCHANGED <<mode, now, spent, index, stray, pend, fpc, drained, cpc, tmp, closer,
                   quit, buf, replayed, disk, snap, history>>

-----------------------------------------------------------------------------
(* flush_locked: take the hit deltas, in whatever order the hash maps give *)
(* them, then queue and flush them.                                        *)

Deltas == {HitLine(c, dirty[c], Me) : c \in {c \in Codes : dirty[c] > 0}}

(* Faulty variant, for mutation only: close cannot stop the flush timer.   *)
MayDrainNoStop(f) ==
    \/ f = "timer" /\ GateFree
    \/ f = "caller" /\ "flush" \in Ops /\ GateFree
    \/ f = "compact" /\ cpc = "flush"
    \/ f = "close" /\ closer = "join" /\ fpc["timer"] = "idle" /\ GateFree

MayDrain(f) ==
    \/ f = "timer" /\ closer = "open" /\ GateFree
    \/ f = "caller" /\ "flush" \in Ops /\ GateFree
    \/ f = "compact" /\ cpc = "flush"
    \/ f = "close" /\ closer = "join" /\ fpc["timer"] = "idle" /\ GateFree

Drain(f) ==
    /\ mode = "up" /\ fpc[f] = "idle" /\ MayDrain(f)
    /\ fpc' = [fpc EXCEPT ![f] = "write"]
    /\ \E s \in Orders(Deltas) : drained' = [drained EXCEPT ![f] = s]
    /\ dirty' = [c \in Codes |-> 0]
    /\ UNCHANGED <<mode, now, spent, index, stray, pc, pend, hot, cpc, tmp, closer, quit,
                   buf, replayed, disk, snap, history>>

(* Faulty variant, for mutation only: the deltas are not queued.           *)
FlushWriteNoHits(f) ==
    /\ fpc[f] = "write"
    /\ fpc' = [fpc EXCEPT ![f] = "idle"]
    /\ drained' = [drained EXCEPT ![f] = <<>>]
    /\ Flush(buf, pend)
    /\ cpc' = IF f = "compact" THEN "snap" ELSE cpc
    /\ closer' = IF f = "close" THEN "sync" ELSE closer
    /\ UNCHANGED <<mode, now, spent, memory, pc, pend, hot, tmp, quit, replayed, snap, owed>>

FlushWrite(f) ==
    /\ fpc[f] = "write"
    /\ fpc' = [fpc EXCEPT ![f] = "idle"]
    /\ drained' = [drained EXCEPT ![f] = <<>>]
    /\ Flush(buf \o drained[f], pend)
    /\ cpc' = IF f = "compact" THEN "snap" ELSE cpc
    /\ closer' = IF f = "close" THEN "sync" ELSE closer
    /\ UNCHANGED <<mode, now, spent, memory, pc, pend, hot, tmp, quit, replayed, snap, owed>>

(* The fsync thread.                                                       *)
Fsync ==
    /\ mode = "up" /\ closer = "open"
    /\ Sync(buf, pend)
    /\ UNCHANGED <<mode, now, spent, memory, workers, replayed, snap, owed>>

-----------------------------------------------------------------------------
(* compact, holding the gate alone.  Shards are read one by one, but only  *)
(* hits change the index meanwhile.                                        *)

CompactStart ==
    /\ mode = "up" /\ cpc = "idle" /\ GateAlone
    /\ Spend("compact")
    /\ cpc' = "flush"
    /\ UNCHANGED <<mode, now, memory, pc, pend, hot, fpc, drained, tmp, closer, quit, buf,
                   replayed, disk, snap, history>>

OwnRow(c) ==
    IF index[c] # None /\ index[c].i = Me
    THEN RowLine(c, index[c].u, index[c].e, index[c].i, index[c].oh)
    ELSE None

CompactSnap ==
    /\ cpc = "snap"
    /\ tmp' = [c \in Codes |-> OwnRow(c)]
    /\ cpc' = "rename"
    /\ UNCHANGED <<mode, now, spent, memory, pc, pend, hot, fpc, drained, closer, quit,
                   buf, replayed, disk, snap, history>>

(* The temporary file cannot be created, or some of its rows not written:  *)
(* both errors are ignored.                                                *)
CompactSnapFail ==
    /\ cpc = "snap" /\ "snapfail" \in Faults
    /\ \/ /\ cpc' = "trunc"
          /\ excused' = excused \cup SetBy({file[k] : k \in 1..Len(file)})
          /\ UNCHANGED tmp
       \/ \E cut \in SUBSET Codes :
             /\ cpc' = "rename"
             /\ tmp' = [c \in Codes |-> IF c \in cut THEN None ELSE OwnRow(c)]
             /\ excused' = excused \cup cut
    /\ UNCHANGED <<mode, now, spent, memory, pc, pend, hot, fpc, drained, closer, quit,
                   buf, replayed, disk, snap, since, owed>>

CompactRename ==
    /\ cpc = "rename"
    /\ \/ snap' = tmp /\ UNCHANGED excused
       \/ /\ "snapfail" \in Faults
          /\ excused' = excused \cup SetBy({file[k] : k \in 1..Len(file)})
          /\ UNCHANGED snap
    /\ cpc' = "trunc"
    /\ UNCHANGED <<mode, now, spent, memory, pc, pend, hot, fpc, drained, tmp, closer, quit,
                   buf, replayed, disk, since, owed>>

(* Aof::truncate, whatever became of the snapshot.                         *)
CompactTrunc ==
    /\ cpc = "trunc"
    /\ cpc' = "idle"
    /\ tmp' = Nothing
    /\ \/ /\ file' = <<>> /\ torn' = None /\ synced' = 0 /\ buf' = <<>>
          /\ UNCHANGED <<excused, since>>
       \/ "snapfail" \in Faults /\ Flush(buf, pend)
    /\ UNCHANGED <<mode, now, spent, memory, pc, pend, hot, fpc, drained, closer, quit,
                   replayed, snap, owed>>

-----------------------------------------------------------------------------
(* close: the first caller stops and joins the timers, flushes and fsyncs; *)
(* later callers return at once.                                           *)

StartClose == closer' = IF closer = "open" THEN "join" ELSE closer

(* The signal handler closes the store and exits.                          *)
Signal ==
    /\ mode = "up" /\ "close" \in Ops /\ quit = "no"
    /\ quit' = IF closer = "open" THEN "waits" ELSE "now"
    /\ StartClose
    /\ UNCHANGED <<mode, now, spent, memory, pc, pend, hot, fpc, drained, cpc, tmp, buf,
                   replayed, disk, snap, history>>

(* Dropping any clone of the handle closes the store the others use.       *)
DropHandle ==
    /\ mode = "up" /\ "drop" \in Faults /\ closer = "open"
    /\ StartClose
    /\ UNCHANGED <<mode, now, spent, memory, pc, pend, hot, fpc, drained, cpc, tmp, quit,
                   buf, replayed, disk, snap, history>>

CloseSync ==
    /\ closer = "sync"
    /\ closer' = "closed"
    /\ Sync(buf, pend)
    /\ UNCHANGED <<mode, now, spent, memory, pc, pend, hot, fpc, drained, cpc, tmp, quit,
                   replayed, snap, owed>>

-----------------------------------------------------------------------------
(* The end of a process, and the start of the next one.                    *)

Stopped ==
    /\ mode' = "down"
    /\ index' = Nothing
    /\ stray' = [c \in Codes |-> NoStray]
    /\ dirty' = [c \in Codes |-> 0]
    /\ pc' = [t \in Threads |-> "idle"]
    /\ pend' = [t \in Threads |-> <<>>]
    /\ hot' = [t \in Threads |-> None]
    /\ fpc' = [f \in Flushers |-> "idle"]
    /\ drained' = [f \in Flushers |-> <<>>]
    /\ cpc' = "idle" /\ tmp' = Nothing
    /\ closer' = "open" /\ quit' = "no"
    /\ buf' = <<>> /\ replayed' = 0
    /\ UNCHANGED <<now, snap, excused, since>>

Exit ==
    /\ mode = "up"
    /\ quit = "now" \/ (quit = "waits" /\ closer = "closed")
    /\ owed' = since["flush"]
    /\ Stopped
    /\ UNCHANGED <<spent, disk>>

Kill ==
    /\ mode # "down" /\ "kill" \in Faults /\ Spend("crash")
    /\ owed' = IF mode = "up" THEN since["flush"] ELSE owed
    /\ Stopped
    /\ UNCHANGED disk

(* The lines past the last fsync may be gone, the first of them in part.   *)
PowerLoss ==
    /\ "powerloss" \in Faults /\ Spend("crash")
    /\ \E n \in synced..Len(file) :
          /\ file' = SubSeq(file, 1, n)
          /\ \/ torn' = IF n < Len(file) THEN None ELSE torn
             \/ "tear" \in Faults /\ n < Len(file) /\ torn' = file[n + 1]
          /\ synced' = n
    /\ owed' = since["sync"]
    /\ Stopped

(* Faulty variant, for mutation only: the snapshot left unread.            *)
BootWithoutSnap ==
    /\ mode = "down"
    /\ mode' = "load"
    /\ index' = Nothing
    /\ UNCHANGED <<now, spent, stray, dirty, workers, buf, replayed, disk, snap, history>>

Boot ==
    /\ mode = "down"
    /\ mode' = "load"
    /\ index' = [c \in Codes |-> IF snap[c] = None THEN None ELSE RowEntry(snap[c], NoStray)]
    /\ UNCHANGED <<now, spent, stray, dirty, workers, buf, replayed, disk, snap, history>>

(* replay_file: complete lines only.                                       *)
LoadLine ==
    /\ mode = "load" /\ replayed < Len(file)
    /\ replayed' = replayed + 1
    /\ \E st \in Apply([index |-> index, stray |-> stray], file[replayed + 1], Me) :
          index' = st.index /\ stray' = st.stray
    /\ UNCHANGED <<mode, now, spent, dirty, workers, buf, disk, snap, history>>

(* This instance may change and must persist code c.                       *)
Own(c) == index[c] = None \/ index[c].i = Me

(* A row that lost its instance in a torn line is no longer this one's:    *)
(* compaction leaves it out.                                               *)
Loaded ==
    /\ mode = "load" /\ replayed = Len(file)
    /\ mode' = "up"
    /\ replayed' = 0
    /\ excused' = (IF synced = Len(file) THEN {} ELSE excused) \cup {c \in Codes : ~Own(c)}
    /\ since' = [flush |-> [c \in Codes |-> {Value(index[c])}],
                 sync  |-> [c \in Codes |-> since["sync"][c] \cup {Value(index[c])}]]
    /\ UNCHANGED <<now, spent, memory, workers, buf, disk, snap, owed>>

-----------------------------------------------------------------------------
ThreadStep(t) ==
    \/ Shorten(t) \/ Bulk(t) \/ Update(t) \/ Remove(t) \/ Resolve(t)
    \/ Push(t) \/ Queue(t) \/ Bump(t)

CompactStep ==
    CompactStart \/ CompactSnap \/ CompactSnapFail \/ CompactRename \/ CompactTrunc

Next ==
    \/ Tick
    \/ \E t \in Threads : ThreadStep(t)
    \/ \E f \in Flushers : Drain(f) \/ FlushWrite(f)
    \/ Fsync
    \/ CompactStep
    \/ Signal \/ DropHandle \/ CloseSync
    \/ Exit \/ Kill \/ PowerLoss
    \/ Boot \/ LoadLine \/ Loaded

Spec == Init /\ [][Next]_vars

(* Threads that hold a lock go on, timers fire again and again, a process  *)
(* that is starting comes up and one that is closing goes down.  Nobody    *)
(* has to call the store.                                                  *)
Fairness ==
    /\ \A t \in Threads : WF_vars(Push(t) \/ Queue(t) \/ Bump(t))
    /\ \A f \in Flushers \ {"caller"} : WF_vars(Drain(f))
    /\ \A f \in Flushers : WF_vars(FlushWrite(f))
    /\ WF_vars(Fsync)
    /\ WF_vars(CompactSnap \/ CompactRename \/ CompactTrunc)
    /\ WF_vars(CloseSync)
    /\ WF_vars(Exit)
    /\ WF_vars(LoadLine \/ Loaded)

FairSpec == Spec /\ Fairness

-----------------------------------------------------------------------------
TypeOK ==
    /\ mode \in {"down", "load", "up"}
    /\ now \in Nat /\ spent \in [Kinds -> Nat]
    /\ index \in [Codes -> Entries \cup {None}]
    /\ stray \in [Codes -> Strays]
    /\ dirty \in [Codes -> Nat]
    /\ pc \in [Threads -> {"idle", "push", "append", "bulk", "bump"}]
    /\ pend \in [Threads -> Seq(RowLines \cup DelLines)]
    /\ hot \in [Threads -> Codes \cup {None}]
    /\ fpc \in [Flushers -> {"idle", "write"}]
    /\ drained \in [Flushers -> Seq(HitLines)]
    /\ cpc \in {"idle", "flush", "snap", "rename", "trunc"}
    /\ tmp \in [Codes -> RowLines \cup {None}]
    /\ closer \in {"open", "join", "sync", "closed"}
    /\ quit \in {"no", "waits", "now"}
    /\ buf \in Seq(Lines) /\ file \in Seq(Lines)
    /\ replayed \in Nat /\ synced \in 0..Len(file)
    /\ torn \in Lines \cup {None}
    /\ snap \in [Codes -> RowLines \cup {None}]
    /\ excused \subseteq Codes
    /\ since \in [{"flush", "sync"} -> [Codes -> SUBSET Values]]
    /\ owed \in [Codes -> SUBSET Values]

Matches(c) ==
    IF InFlight(pend, c)
    THEN \A t \in Threads : Touches(pend[t], c) => EndsWith(pend[t], c, Value(index[c]))
    ELSE Determines(snap, file \o buf, c, Value(index[c]))

(* Snapshot, log and queue determine the index: whatever the threads,      *)
(* timers, compaction and close are doing, replaying the files and the     *)
(* queue would give a code the value it has in memory, or, while a thread  *)
(* has changed it and not yet queued its line, that thread's line does.    *)
LogMatchesIndex ==
    mode = "up" => \A c \in Codes \ excused : Own(c) => Matches(c)

Logged(s, c) == Cardinality(HitsIn(s, c))

HitsHeld(c) ==
    Logged(drained["timer"], c) + Logged(drained["caller"], c)
    + Logged(drained["compact"], c) + Logged(drained["close"], c)
    + dirty[c] + Cardinality({t \in Threads : hot[t] = c})

(* Every hit this instance counts for a code is on its way exactly once:   *)
(* in the log, its queue, a flusher's hands, dirty or a thread about to    *)
(* bump dirty.  Replay puts the deltas that were logged ahead of their row *)
(* back together with it (stray).  It holds as long as nobody updates,     *)
(* removes or compacts, no write is cut short and stray has room.          *)
HitsAccounted ==
    mode = "up" =>
        \A c \in Codes :
            (IF index[c] = None THEN 0 ELSE index[c].oh) + stray[c].o
              = Logged(file \o buf, c) + HitsHeld(c)

(* What a restart finds for a code is a value the code had at or after the *)
(* last flush (the process was killed or exited) or the last fsync (the    *)
(* machine lost power): README, "Durability".                              *)
RecoverySound ==
    [][Loaded => \A c \in Codes \ excused : Value(index[c]) \in owed[c]]_vars

(* The same with no exception: what README and the comments of aof.rs and  *)
(* store.rs say, with no word on races, torn lines or failed snapshots.    *)
RecoveryExact ==
    [][Loaded => \A c \in Codes : Value(index[c]) \in owed[c]]_vars

(* The fsync timer: the value of a code keeps reaching the part of the     *)
(* files that an fsync covers, as long as the process lives.               *)
EventuallySynced ==
    \A c \in Codes :
        []<>(mode = "up" /\ c \notin excused =>
                Determines(snap, SubSeq(file, 1, synced), c, Value(index[c])))

(* What the files say of the hits of code c since it was last removed: the *)
(* sum of its snapshot and of its deltas.                                  *)
HitsOnDisk(c) ==
    LET dels == {k \in 1..Len(file) : file[k] = DelLine(c)}
        new  == {h \in HitsIn(file, c) : \A k \in dels : h[1] > k}
    IN  Cardinality(new) + (IF dels # {} \/ snap[c] = None THEN 0 ELSE snap[c].n)

Counts(c, n) == mode = "up" /\ index[c] # None /\ index[c].oh >= n

(* The flush timer: the hits that a code has at any moment come to be in   *)
(* the files, through dirty, a flusher's hands and the log's queue and     *)
(* past compaction, unless the code goes or the process does.              *)
HitsReachLog ==
    \A c \in Codes, n \in 1..Budget["hit"] :
        Counts(c, n) ~> (HitsOnDisk(c) >= n \/ ~ Counts(c, n))

(* A signal ends the process: close waits for its timers, for the gate and *)
(* for the log, and none of them waits for close.                          *)
SignalEnds == quit # "no" ~> mode = "down"

-----------------------------------------------------------------------------
(* The engine implements the durable map when nothing tears its files and  *)
(* no two writers meet on a code.                                          *)
Map == INSTANCE DurableMap WITH
    Missing <- None,
    map <- IF mode = "up" THEN [c \in Codes |-> Value(index[c])] ELSE Nothing,
    up <- mode = "up"

ImplementsMap == Map!MapSpec
=============================================================================
