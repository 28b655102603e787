------------------------------ MODULE Tailing -------------------------------
(***************************************************************************)
(* Several instances of the in-process engine over one data directory      *)
(* (WORKERS > 1).  Each appends to its own log and follows the logs of its *)
(* siblings (poll_locked and tail_missed in store.rs, TailReader in        *)
(* aof.rs); a reader applies a line at a time under the tail lock while    *)
(* requests go on.                                                         *)
(*                                                                         *)
(* The races between a mutation's two halves are those of LocalStore; here *)
(* a mutation is one step.  Links do not expire.  An offset counts lines   *)
(* where the code counts bytes: what a reader finds past it in a log that  *)
(* was truncated and has grown again is then any part of that log.         *)
(***************************************************************************)
EXTENDS LogOps, Integers

CONSTANTS
    Instances,  \* instance ids: the indices of their prefix characters
    Owner,      \* code -> alpha_idx of its first character, -1 if it has none
    Aliases,    \* codes that clients ask for, generated ones among them
    Ops,        \* which operations clients call
    TailTimer,  \* TAIL_MS > 0
    Budget      \* bound: how often each kind of step may happen

Kinds == {"op", "hit", "crash", "compact", "tick"}

ASSUME TailAssumption ==
    /\ Instances \subseteq Nat /\ IsFiniteSet(Instances)
    /\ Owner \in [Codes -> Nat \cup {-1}]
    /\ Aliases \subseteq Codes
    /\ Ops \subseteq {"shorten", "update", "remove", "resolve", "poll"}
    /\ TailTimer \in BOOLEAN
    /\ Budget \in [Kinds -> Nat]

VARIABLES
    up,       \* "down", "own" (replaying its log), "boot" (reading the
              \* siblings' snapshots) or "up"
    index,    \* per instance: code -> entry or None
    stray,    \* per instance: hit deltas without a row
    dirty,    \* per instance: hits not yet written
    buf,      \* per instance: the queue of its log
    cpc,      \* per instance: "idle", or "trunc" once its snapshot is in place
    offset,   \* per instance: log -> lines consumed, one reader per log
    recent,   \* per instance: it polled less than TAIL_MIN_INTERVAL ago
    reading,  \* per instance: logs still to be read (snapshots, when booting)
    inbox,    \* per instance: lines read and not yet applied
    source,   \* per instance: the log they were read from
    asking,   \* per instance: the code a missed resolve waits for, or None
    log,      \* the log files there are
    snap,     \* per instance: its snapshot
    lapsed,   \* per instance: logs truncated behind its readers, whose bytes
              \* its offsets say nothing of
    spent,    \* how much of Budget is used
    \* ----- history, read by no guard
    due,      \* per instance: the siblings in whose log the code it asks for
              \* was, and who have not removed it since
    unread,   \* per instance: codes with lines that a compaction took from its
              \* readers, or that grew back below their offsets
    granted   \* code -> the instances that have created it

vars == <<up, index, stray, dirty, buf, cpc, offset, recent, reading, inbox, source,
          asking, log, snap, spent, due, unread, lapsed, granted>>

tail    == <<offset, recent, reading, inbox, source, asking>>
files   == <<log, snap>>
history == <<due, unread, lapsed, granted>>  \* with lapsed, which steps leave alone too

Spend(k) == spent[k] < Budget[k] /\ spent' = [spent EXCEPT ![k] = @ + 1]

Nothing  == [c \in Codes |-> None]
NoHits   == [c \in Codes |-> 0]
NoStrays == [c \in Codes |-> NoStray]

(* The codes that instance j draws: its prefix is their first character.   *)
(* As aliases they can be asked of others.                                 *)
Generated(j) == {c \in Codes : Owner[c] = j}

(* The codes that nobody but instance j has ever created: those that were  *)
(* asked of no other.                                                      *)
Sole(j) == {c \in Codes : granted[c] \subseteq {j}}

Init ==
    /\ up = [i \in Instances |-> "down"]
    /\ index = [i \in Instances |-> Nothing]
    /\ stray = [i \in Instances |-> NoStrays]
    /\ dirty = [i \in Instances |-> NoHits]
    /\ buf = [i \in Instances |-> <<>>]
    /\ cpc = [i \in Instances |-> "idle"]
    /\ offset = [i \in Instances |-> [j \in {} |-> 0]]
    /\ recent = [i \in Instances |-> FALSE]
    /\ reading = [i \in Instances |-> {}]
    /\ inbox = [i \in Instances |-> <<>>]
    /\ source = [i \in Instances |-> i]
    /\ asking = [i \in Instances |-> None]
    /\ log = [j \in {} |-> <<>>]
    /\ snap = [i \in Instances |-> Nothing]
    /\ spent = [k \in Kinds |-> 0]
    /\ due = [i \in Instances |-> {}]
    /\ unread = [i \in Instances |-> {}]
    /\ lapsed = [i \in Instances |-> {}]
    /\ granted = [c \in Codes |-> {}]

-----------------------------------------------------------------------------
(* Mutations: the index and the queue of the log (gate: not while the      *)
(* instance compacts).                                                     *)

Serving(i, op) == up[i] = "up" /\ cpc[i] = "idle" /\ op \in Ops /\ Spend("op")

Write(i, c, x, l) ==
    /\ index' = [index EXCEPT ![i][c] = x]
    /\ buf' = [buf EXCEPT ![i] = Append(@, l)]
    /\ UNCHANGED <<up, stray, dirty, cpc, tail, files, unread, lapsed>>

(* A free code of its own prefix, or an alias that its own index lacks.    *)
Shorten(i) ==
    /\ Serving(i, "shorten")
    /\ \E c \in Generated(i) \cup Aliases, u \in Urls :
          /\ index[i][c] = None
          /\ Write(i, c, [u |-> u, e |-> 0, i |-> i, h |-> 0, oh |-> 0],
                   RowLine(c, u, 0, i, 0))
          /\ granted' = [granted EXCEPT ![c] = @ \cup {i}]
    /\ UNCHANGED due

Mine(i, c) == index[i][c] # None /\ index[i][c].i = i

Update(i) ==
    /\ Serving(i, "update")
    /\ \E c \in Codes, u \in Urls :
          /\ Mine(i, c)
          /\ Write(i, c, [index[i][c] EXCEPT !.u = u], RowLine(c, u, 0, i, 0))
    /\ UNCHANGED <<due, granted>>

Remove(i) ==
    /\ Serving(i, "remove")
    /\ \E c \in Codes :
          /\ Mine(i, c)
          /\ Write(i, c, None, DelLine(c))
          /\ due' = [k \in Instances |-> IF asking[k] = c THEN due[k] \ {i} ELSE due[k]]
    /\ UNCHANGED granted

(* The flush timer: queue and hit deltas reach the file.                   *)
Deltas(i) == {HitLine(c, dirty[i][c], i) : c \in {c \in Codes : dirty[i][c] > 0}}

FlushTo(i, s) ==
    /\ log' = [log EXCEPT ![i] = @ \o buf[i] \o s]
    /\ buf' = [buf EXCEPT ![i] = <<>>]
    /\ dirty' = [dirty EXCEPT ![i] = NoHits]

Flush(i) ==
    /\ up[i] = "up" /\ cpc[i] = "idle"
    /\ \E s \in Orders(Deltas(i)) : FlushTo(i, s)
    /\ UNCHANGED <<up, index, stray, cpc, tail, snap, spent, history>>

-----------------------------------------------------------------------------
(* resolve.                                                                *)

CountHit(i, c) ==
    /\ index' = [index EXCEPT ![i][c].h = @ + 1, ![i][c].oh = @ + 1]
    /\ dirty' = [dirty EXCEPT ![i][c] = @ + 1]

Resolve(i) ==
    /\ up[i] = "up" /\ "resolve" \in Ops
    /\ Spend("hit")
    /\ \E c \in Codes : index[i][c] # None /\ CountHit(i, c)
    /\ UNCHANGED <<up, stray, buf, cpc, tail, files, history>>

SiblingsAndSelf(i) == DOMAIN log  \* faulty variant, for mutation only
Siblings(i) == DOMAIN log \ {i}

(* Faulty variant, for mutation only: new logs are not discovered.         *)
PollKnown(i) == DOMAIN offset[i]

(* The readers a poll goes through: those there are, and one for each log  *)
(* of the directory.                                                       *)
PollTargets(i) == DOMAIN offset[i] \cup Siblings(i)

Prefixed(i, c) == Owner[c] >= 0 /\ Owner[c] # i

(* Faulty variant, for mutation only: the rate limit covers every miss.    *)
MissedLimited(i, c) ==
    CASE recent[i] -> {}
      [] ~recent[i] /\ Prefixed(i, c) -> {Owner[c]}
      [] ~recent[i] /\ ~Prefixed(i, c) -> PollTargets(i)

(* tail_missed: the log of the code's prefix, or, for a code with none of  *)
(* a sibling, every log, unless the last poll was too recent.              *)
Missed(i, c) ==
    CASE Prefixed(i, c) -> {Owner[c]}
      [] ~Prefixed(i, c) /\ ~recent[i] -> PollTargets(i)
      [] ~Prefixed(i, c) /\ recent[i] -> {}

Limited(i, c) == ~Prefixed(i, c) /\ recent[i]

LogIdle(i) == reading[i] = {} /\ inbox[i] = <<>> /\ asking[i] = None

(* New readers start at the beginning of their log.                        *)
WithReaders(i, js) ==
    [offset EXCEPT ![i] = [j \in js \cup DOMAIN offset[i] |->
                              IF j \in DOMAIN offset[i] THEN offset[i][j] ELSE 0]]

(* The log of j has code c, and no removal of it is on its way there.      *)
Logged(j, c) ==
    /\ j \in DOMAIN log /\ Touches(log[j], c) /\ ~EndsWith(log[j], c, None)
    /\ \A k \in 1..Len(buf[j]) : buf[j][k] # DelLine(c)

Ask(i) ==
    /\ up[i] = "up" /\ "resolve" \in Ops /\ LogIdle(i)
    /\ Spend("hit")
    /\ \E c \in Codes :
          /\ index[i][c] = None
          /\ asking' = [asking EXCEPT ![i] = c]
          /\ reading' = [reading EXCEPT ![i] = Missed(i, c)]
          /\ offset' = WithReaders(i, Missed(i, c))
          /\ due' = [due EXCEPT ![i] = IF Limited(i, c) THEN {}
                                       ELSE {j \in Siblings(i) : Logged(j, c)}]
          /\ recent' = IF Limited(i, c) THEN recent ELSE [recent EXCEPT ![i] = TRUE]
    /\ UNCHANGED <<up, index, stray, dirty, buf, cpc, inbox, source, files, unread, lapsed,
                   granted>>

(* poll_tails: the tail timer, or a caller.                                *)
Poll(i) ==
    /\ up[i] = "up" /\ LogIdle(i) /\ (TailTimer \/ "poll" \in Ops)
    /\ reading' = [reading EXCEPT ![i] = PollTargets(i)]
    /\ offset' = WithReaders(i, PollTargets(i))
    /\ recent' = [recent EXCEPT ![i] = TRUE]
    /\ UNCHANGED <<up, index, stray, dirty, buf, cpc, inbox, source, asking, files, spent,
                   history>>

(* Faulty variant, for mutation only: a log that has not grown is read     *)
(* again from the start.                                                   *)
ResumeTooOften(i, j, size) ==
    IF j \in lapsed[i] THEN 0..size
    ELSE {IF size <= offset[i][j] THEN 0 ELSE offset[i][j]}

(* TailReader::read_new: how many lines come before those it takes.  A log *)
(* that was not truncated is read on where the last read ended.  One that  *)
(* was is read from the start if it is now shorter in bytes than what was  *)
(* read of the old one, else from the offset into the old one, which is    *)
(* anywhere in it: lines before it are skipped, and one that it cuts is    *)
(* parsed as what it was (its brace is gone) or as nothing.                *)
Resume(i, j, size) ==
    IF j \in lapsed[i] THEN 0..size
    ELSE {IF size < offset[i][j] THEN 0 ELSE offset[i][j]}

SetBy(s) == {c \in Codes : Touches(s, c)}

ReadNew(i) ==
    /\ up[i] = "up" /\ inbox[i] = <<>>
    /\ \E j \in reading[i] :
          LET s == IF j \in DOMAIN log THEN log[j] ELSE <<>>
          IN \E from \in Resume(i, j, Len(s)) :
              /\ inbox' = [inbox EXCEPT ![i] = SubSeq(s, from + 1, Len(s))]
              /\ source' = [source EXCEPT ![i] = j]
              /\ offset' = [offset EXCEPT ![i][j] = Len(s)]
              /\ reading' = [reading EXCEPT ![i] = @ \ {j}]
              /\ unread' = IF j \in lapsed[i]
                           THEN [unread EXCEPT ![i] = @ \cup SetBy(SubSeq(s, 1, from))]
                           ELSE unread
              /\ lapsed' = [lapsed EXCEPT ![i] = @ \ {j}]
    /\ UNCHANGED <<up, index, stray, dirty, buf, cpc, recent, asking, files, spent, due,
                   granted>>

ApplyLine(i) ==
    /\ up[i] \in {"own", "up"} /\ inbox[i] # <<>>
    /\ \E st \in Apply([index |-> index[i], stray |-> stray[i]], Head(inbox[i]), i) :
          /\ index' = [index EXCEPT ![i] = st.index]
          /\ stray' = [stray EXCEPT ![i] = st.stray]
    /\ inbox' = [inbox EXCEPT ![i] = Tail(@)]
    /\ UNCHANGED <<up, dirty, buf, cpc, offset, recent, reading, source, asking, files,
                   spent, history>>

(* The missed resolve looks the code up again.                             *)
Answer(i, c) ==
    /\ up[i] = "up" /\ asking[i] = c /\ reading[i] = {} /\ inbox[i] = <<>>
    /\ asking' = [asking EXCEPT ![i] = None]
    /\ IF index[i][c] = None THEN UNCHANGED <<index, dirty>> ELSE CountHit(i, c)
    /\ due' = [due EXCEPT ![i] = {}]
    /\ UNCHANGED <<up, stray, buf, cpc, offset, recent, reading, inbox, source, files,
                   spent, unread, lapsed, granted>>

(* TAIL_MIN_INTERVAL passes.                                               *)
Tick(i) ==
    /\ recent[i] /\ Spend("tick")
    /\ recent' = [recent EXCEPT ![i] = FALSE]
    /\ UNCHANGED <<up, index, stray, dirty, buf, cpc, offset, reading, inbox, source,
                   asking, files, history>>

-----------------------------------------------------------------------------
(* compact: the snapshot replaced, then the log truncated.                 *)

OwnRow(i, c) ==
    IF Mine(i, c) THEN RowLine(c, index[i][c].u, 0, i, index[i][c].oh) ELSE None

CompactSnap(i) ==
    /\ up[i] = "up" /\ cpc[i] = "idle" /\ Spend("compact")
    /\ \E s \in Orders(Deltas(i)) : FlushTo(i, s)
    /\ snap' = [snap EXCEPT ![i] = [c \in Codes |-> OwnRow(i, c)]]
    /\ cpc' = [cpc EXCEPT ![i] = "trunc"]
    /\ unread' = [k \in Instances |->
                     IF k = i THEN unread[k]
                     ELSE unread[k] \cup
                          SetBy(SubSeq(log'[i], IF i \in DOMAIN offset[k] \ lapsed[k]
                                                THEN offset[k][i] + 1 ELSE 1,
                                       Len(log'[i])))]
    /\ UNCHANGED <<up, index, stray, tail, due, lapsed, granted>>

CompactTrunc(i) ==
    /\ cpc[i] = "trunc"
    /\ log' = [log EXCEPT ![i] = <<>>]
    /\ cpc' = [cpc EXCEPT ![i] = "idle"]
    /\ lapsed' = [k \in Instances |->
                     IF k # i /\ i \in DOMAIN offset[k] /\ offset[k][i] > 0
                     THEN lapsed[k] \cup {i} ELSE lapsed[k]]
    /\ UNCHANGED <<up, index, stray, dirty, buf, tail, snap, spent, due, unread, granted>>

-----------------------------------------------------------------------------
(* The end of a process, and load_all of the next one: own snapshot, own   *)
(* log line by line, then the siblings' snapshots.                         *)

Crash(i) ==
    /\ up[i] # "down" /\ Spend("crash")
    /\ up' = [up EXCEPT ![i] = "down"]
    /\ index' = [index EXCEPT ![i] = Nothing]
    /\ stray' = [stray EXCEPT ![i] = NoStrays]
    /\ dirty' = [dirty EXCEPT ![i] = NoHits]
    /\ buf' = [buf EXCEPT ![i] = <<>>]
    /\ cpc' = [cpc EXCEPT ![i] = "idle"]
    /\ offset' = [offset EXCEPT ![i] = [j \in {} |-> 0]]
    /\ recent' = [recent EXCEPT ![i] = FALSE]
    /\ reading' = [reading EXCEPT ![i] = {}]
    /\ inbox' = [inbox EXCEPT ![i] = <<>>]
    /\ asking' = [asking EXCEPT ![i] = None]
    /\ due' = [due EXCEPT ![i] = {}]
    /\ unread' = [unread EXCEPT ![i] = {}]
    /\ lapsed' = [lapsed EXCEPT ![i] = {}]
    /\ UNCHANGED <<source, files, granted>>

Boot(i) ==
    /\ up[i] = "down"
    /\ up' = [up EXCEPT ![i] = "own"]
    /\ log' = [j \in DOMAIN log \cup {i} |-> IF j \in DOMAIN log THEN log[j] ELSE <<>>]
    /\ index' = [index EXCEPT ![i] =
                    [c \in Codes |-> IF snap[i][c] = None THEN None
                                     ELSE RowEntry(snap[i][c], NoStray)]]
    /\ inbox' = [inbox EXCEPT ![i] = log'[i]]
    /\ source' = [source EXCEPT ![i] = i]
    /\ UNCHANGED <<stray, dirty, buf, cpc, offset, recent, reading, asking, snap, spent,
                   history>>

BootList(i) ==
    /\ up[i] = "own" /\ inbox[i] = <<>>
    /\ up' = [up EXCEPT ![i] = "boot"]
    /\ reading' = [reading EXCEPT ![i] = Siblings(i)]
    /\ UNCHANGED <<index, stray, dirty, buf, cpc, offset, recent, inbox, source, asking,
                   files, spent, history>>

(* Faulty variant, for mutation only: a sibling's snapshot is not read.    *)
BootSiblingNoSnap(i) ==
    /\ up[i] = "boot"
    /\ \E j \in reading[i] :
          /\ reading' = [reading EXCEPT ![i] = @ \ {j}]
          /\ offset' = WithReaders(i, {j})
          /\ unread' = [unread EXCEPT ![i] = @ \ Sole(j)]
    /\ UNCHANGED <<up, index, stray, dirty, buf, cpc, recent, inbox, source, asking, files,
                   spent, due, lapsed, granted>>

(* The rows of a sibling's snapshot, and a reader at the start of its log. *)
(* Siblings come in the order of their file names, which is any order of   *)
(* their ids.                                                              *)
BootSibling(i) ==
    /\ up[i] = "boot"
    /\ \E j \in reading[i] :
          /\ index' = [index EXCEPT ![i] =
                          [c \in Codes |-> IF snap[j][c] = None THEN index[i][c]
                                           ELSE RowEntry(snap[j][c], stray[i][c])]]
          /\ stray' = [stray EXCEPT ![i] =
                          [c \in Codes |-> IF snap[j][c] = None THEN stray[i][c]
                                           ELSE NoStray]]
          /\ reading' = [reading EXCEPT ![i] = @ \ {j}]
          /\ offset' = WithReaders(i, {j})
          /\ unread' = [unread EXCEPT ![i] = @ \ Sole(j)]
    /\ UNCHANGED <<up, dirty, buf, cpc, recent, inbox, source, asking, files, spent, due,
                   lapsed, granted>>

BootDone(i) ==
    /\ up[i] = "boot" /\ reading[i] = {}
    /\ up' = [up EXCEPT ![i] = "up"]
    /\ UNCHANGED <<index, stray, dirty, buf, cpc, tail, files, spent, history>>

-----------------------------------------------------------------------------
Next ==
    \E i \in Instances :
        \/ Shorten(i) \/ Update(i) \/ Remove(i) \/ Flush(i)
        \/ Resolve(i) \/ Ask(i) \/ Poll(i) \/ ReadNew(i) \/ ApplyLine(i)
        \/ \E c \in Codes : Answer(i, c)
        \/ Tick(i)
        \/ CompactSnap(i) \/ CompactTrunc(i)
        \/ Crash(i) \/ Boot(i) \/ BootList(i) \/ BootSibling(i) \/ BootDone(i)

Spec == Init /\ [][Next]_vars

(* The timers fire, a started read goes on, a process comes up.            *)
Fairness ==
    \A i \in Instances :
        /\ WF_vars(Flush(i))
        /\ WF_vars(Poll(i))
        /\ WF_vars(ReadNew(i) \/ ApplyLine(i) \/ (\E c \in Codes : Answer(i, c)))
        /\ WF_vars(CompactTrunc(i))
        /\ WF_vars(Boot(i) \/ BootList(i) \/ BootSibling(i) \/ BootDone(i))

FairSpec == Spec /\ Fairness

-----------------------------------------------------------------------------
TypeOK ==
    /\ up \in [Instances -> {"down", "own", "boot", "up"}]
    /\ index \in [Instances -> [Codes -> Entries \cup {None}]]
    /\ stray \in [Instances -> [Codes -> Strays]]
    /\ dirty \in [Instances -> [Codes -> Nat]]
    /\ buf \in [Instances -> Seq(Lines)]
    /\ cpc \in [Instances -> {"idle", "trunc"}]
    /\ DOMAIN offset = Instances
    /\ \A i \in Instances : \A j \in DOMAIN offset[i] : j # i /\ offset[i][j] \in Nat
    /\ recent \in [Instances -> BOOLEAN]
    /\ DOMAIN reading = Instances
    /\ \A i \in Instances : up[i] = "up" => reading[i] \subseteq DOMAIN offset[i]
    /\ inbox \in [Instances -> Seq(Lines)]
    /\ asking \in [Instances -> Codes \cup {None}]
    /\ DOMAIN log \subseteq Instances /\ \A j \in DOMAIN log : log[j] \in Seq(Lines)
    /\ snap \in [Instances -> [Codes -> RowLines \cup {None}]]
    /\ unread \in [Instances -> SUBSET Codes]
    /\ granted \in [Codes -> SUBSET Instances]

(* What the lines that i read from j and has not applied yet add to its    *)
(* index.                                                                  *)
Coming(i, j) == IF source[i] = j THEN inbox[i] ELSE <<>>

(* Once instance i has applied the lines in its hands, it has, of every    *)
(* code that sibling j alone has created, what j's snapshot and the part   *)
(* of j's log that i has read say, whoever crashed, restarted or compacted *)
(* meanwhile: no line is skipped, or applied out of order.  Excepted are   *)
(* codes whose lines j moved to its snapshot before i had read them, or    *)
(* wrote to its truncated log below the offset of a reader of the old one. *)
PrefixView ==
    \A i \in Instances :
        up[i] = "up" =>
            \A j \in (DOMAIN offset[i] \cap DOMAIN log) \ lapsed[i] :
                \A c \in Sole(j) \ unread[i] :
                    \E v \in {None} \cup (Urls \X {0}) :
                        /\ Determines(index[i], Coming(i, j), c, v)
                        /\ Determines(snap[j], SubSeq(log[j], 1, offset[i][j]), c, v)

(* A miss on a code whose first character is a sibling's prefix reads that *)
(* sibling's log, any other miss reads them all (at most every             *)
(* TAIL_MIN_INTERVAL): a link that was in a log when the request came in,  *)
(* and that only the writer of that log has ever created, is found, unless *)
(* it was removed or compacted away, or lies below a reader's offset into  *)
(* the log as it was before a compaction.  An alias that starts with       *)
(* another's prefix is sought where that prefix points, and need not be    *)
(* found.                                                                  *)
Sought(i, j, c) == c \in Sole(j) /\ (Owner[c] = j \/ ~Prefixed(i, c))

MissFindsFlushed ==
    [][\A i \in Instances, c \in Codes :
          Answer(i, c) /\ index[i][c] = None =>
              \A j \in due[i] : Sought(i, j, c) => c \in unread[i]]_vars

(* The lines of log j that instance i has applied: of its own, all.        *)
Applied(i, j) ==
    IF j = i THEN 1..Len(log[j])
    ELSE IF j \in DOMAIN offset[i] THEN 1..(offset[i][j] - Len(Coming(i, j)))
    ELSE {}

(* The hits of code c that those lines record: <<j, k, m>> is the m-th of  *)
(* the hits of line k of log j.                                            *)
Counted(i, c) ==
    UNION {UNION {{<<j, k, m>> : m \in Hits(log[j][k], c)} : k \in Applied(i, j)} :
              j \in DOMAIN log}

(* A hit counted anywhere reaches every instance exactly once: the total   *)
(* an instance shows for a code is its own hits, logged or not, and those  *)
(* in the parts of its siblings' logs that it has applied, also when a hit *)
(* was logged before the row it belongs to arrived, and after a restart.   *)
(* It holds of codes that one instance alone has created, as long as       *)
(* nobody updates, removes or compacts.                                    *)
HitsTailed ==
    \A i, j \in Instances :
        up[i] = "up" =>
            \A c \in Sole(j) :
                (IF index[i][c] = None THEN 0 ELSE index[i][c].h) + stray[i][c].t
                  = Cardinality(Counted(i, c)) + dirty[i][c]

(* With the tail timer, siblings keep agreeing on codes that one of them   *)
(* alone has created.                                                      *)
Converges ==
    \A i, j \in Instances : \A c \in Codes :
        []<>(up[i] = "up" /\ up[j] = "up" /\ c \in Sole(j) \ unread[i]
                => Value(index[i][c]) = Value(index[j][c]))
=============================================================================
