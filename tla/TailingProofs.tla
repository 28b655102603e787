--------------------------- MODULE TailingProofs ----------------------------
(***************************************************************************)
(* What a follower has of its siblings' links, for any number of           *)
(* instances, codes and urls, any assignment of prefixes, and any crashes, *)
(* restarts and compactions.                                               *)
(***************************************************************************)
EXTENDS Tailing, LogOpsProofs, FiniteSetTheorems

LogOf(j) == IF j \in DOMAIN log THEN log[j] ELSE <<>>

(* TypeOK, and the types of what the guards do not read.                   *)
TypeInv ==
    /\ TypeOK
    /\ offset = [i \in Instances |-> offset[i]]
    /\ \A i \in Instances : /\ DOMAIN offset[i] \subseteq Nat
                            /\ offset[i] \in [DOMAIN offset[i] -> Nat]
    /\ reading \in [Instances -> SUBSET Nat]
    /\ source \in [Instances -> Nat]
    /\ log = [j \in DOMAIN log |-> log[j]]
    /\ spent \in [Kinds -> Nat]
    /\ due \in [Instances -> SUBSET Instances]
    /\ lapsed \in [Instances -> SUBSET Instances]

(* Where a process is in its life.                                         *)
Stage(i) ==
    /\ i \notin DOMAIN log => up[i] = "down" /\ \A c \in Codes : snap[i][c] = None
    /\ up[i] = "down" => \A c \in Codes : index[i][c] = None
    /\ up[i] # "up" => buf[i] = <<>> /\ cpc[i] = "idle" /\ asking[i] = None
    /\ up[i] \in {"down", "own"} => DOMAIN offset[i] = {}
    /\ up[i] \in {"down", "boot"} => inbox[i] = <<>>
    /\ up[i] = "own" => source[i] = i
    /\ up[i] = "boot" => /\ reading[i] \subseteq DOMAIN log \ {i}
                         /\ reading[i] \cap DOMAIN offset[i] = {}
    /\ up[i] = "up" /\ inbox[i] # <<>> => source[i] # i
    /\ cpc[i] = "trunc" => buf[i] = <<>>
    /\ lapsed[i] \subseteq DOMAIN offset[i] \cap DOMAIN log

StageInv == \A i \in Instances : Stage(i)

(* A reader that no truncation overtook is within its log.                 *)
LengthInv ==
    \A i \in Instances :
        \A j \in DOMAIN offset[i] \ lapsed[i] : offset[i][j] <= Len(LogOf(j))

(* Line l is one that instance j wrote, g being what has been granted.      *)
Wrote(g, j, l) ==
    l.k \in {"row", "del"} =>
        /\ j \in g[l.c]
        /\ l.k = "row" => l.u \in Urls /\ l.e = 0 /\ l.i = j

WroteAll(g, j, s) == \A k \in 1..Len(s) : Wrote(g, j, s[k])

(* Lines are in the files and queues of those who created their codes, and *)
(* so are the rows of the snapshots.                                       *)
LinesInv ==
    /\ \A j \in DOMAIN log : WroteAll(granted, j, log[j])
    /\ \A i \in Instances :
          /\ WroteAll(granted, i, buf[i])
          /\ WroteAll(granted, source[i], inbox[i])
          /\ \A c \in Codes :
                snap[i][c] # None => Wrote(granted, i, snap[i][c]) /\ snap[i][c].c = c

(* So are the entries of the indexes: an instance that boots has only what *)
(* it has read so far.                                                     *)
Had(i, c) ==
    index[i][c] # None =>
        /\ index[i][c].i \in granted[c]
        /\ index[i][c].u \in Urls /\ index[i][c].e = 0
        /\ up[i] \in {"down", "own"} => index[i][c].i = i
        /\ up[i] = "boot" => index[i][c].i \notin reading[i]

HadInv == \A i \in Instances, c \in Codes : Had(i, c)

(* An instance's own index is what its snapshot, log and queue determine,  *)
(* of the codes that it alone has created.                                 *)
Self(j, c) ==
    /\ up[j] = "own" => \E v : /\ Determines(index[j], inbox[j], c, v)
                               /\ Determines(snap[j], LogOf(j), c, v)
    /\ up[j] \in {"boot", "up"} =>
          Determines(snap[j], LogOf(j) \o buf[j], c, Value(index[j][c]))

SelfInv == \A j \in Instances, c \in Codes : c \in Sole(j) => Self(j, c)

(* Instance i has seen the snapshot of j, or there was none when it came   *)
(* up, and this much of its log.                                           *)
Follows(i, j) == i # j /\ up[i] \in {"boot", "up"} /\ (up[i] = "boot" => j \notin reading[i])

Seen(i, j) ==
    IF j \in DOMAIN offset[i] \ lapsed[i] THEN SubSeq(LogOf(j), 1, offset[i][j]) ELSE <<>>

(* Before the log is truncated the new snapshot says what the log said,    *)
(* all of it and any part that a follower has seen.                        *)
Sealed(j, c) == Determines(snap[j], LogOf(j), c, Value(snap[j][c]))
SealedFor(i, j, c) == Determines(snap[j], Seen(i, j), c, Value(snap[j][c]))

TruncInv ==
    \A j \in Instances, c \in Codes :
        cpc[j] = "trunc" /\ c \in Sole(j) =>
            /\ Sealed(j, c)
            /\ \A i \in Instances :
                  Follows(i, j) /\ c \notin unread[i] => SealedFor(i, j, c)

(* PrefixView, also while an instance boots and for logs that it has no    *)
(* reader for or that were truncated behind it: of those it has seen       *)
(* nothing beyond the snapshot.                                            *)
Agree(i, j, c) ==
    \E v : /\ Determines(index[i], Coming(i, j), c, v)
           /\ Determines(snap[j], Seen(i, j), c, v)

ViewInv ==
    \A i, j \in Instances, c \in Codes :
        Follows(i, j) /\ c \in Sole(j) /\ c \notin unread[i] => Agree(i, j, c)

(* A log that was due when a resolve missed is still to be read, with      *)
(* lines for the code past what has been seen, or has been read and gave   *)
(* the code a value.                                                       *)
ToRead(i, j, c) ==
    /\ j \in reading[i] /\ cpc[j] = "idle"
    /\ ~EndsWith(LogOf(j), c, None) /\ \A k \in 1..Len(buf[j]) : buf[j][k] # DelLine(c)
    /\ \E k \in (Len(Seen(i, j)) + 1)..Len(LogOf(j)) : Sets(LogOf(j)[k], c)

Found(i, j, c) ==
    /\ j \notin reading[i]
    /\ \E v : v # None /\ Determines(index[i], Coming(i, j), c, v)

AskInv ==
    \A i, j \in Instances, c \in Codes :
        asking[i] = c /\ j \in due[i] /\ Sought(i, j, c) /\ c \notin unread[i] =>
            i # j /\ (ToRead(i, j, c) \/ Found(i, j, c))

-----------------------------------------------------------------------------
(* Types.                                                                  *)

LEMMA SpendType ==
    ASSUME TypeInv, NEW k \in Kinds, Spend(k)
    PROVE  spent' \in [Kinds -> Nat]
BY DEF TypeInv, Spend

LEMMA DeltasType ==
    ASSUME TypeInv, NEW i \in Instances, NEW s \in Orders(Deltas(i))
    PROVE  s \in Seq(HitLines)
<1> DEFINE D == {c \in Codes : dirty[i][c] > 0}
           f == [c \in D |-> HitLine(c, dirty[i][c], i)]
<1>1. IsFiniteSet(D)
  BY LogAssumption, FS_Subset
<1>2. f \in Surjection(D, Deltas(i))
  BY DEF Surjection, Deltas
<1>3. IsFiniteSet(Deltas(i)) /\ Cardinality(Deltas(i)) \in Nat
  BY <1>1, <1>2, FS_Surjection, FS_CardinalityType
<1>4. Deltas(i) \subseteq HitLines
  <2>1. i \in Nat /\ \A c \in Codes : dirty[i][c] \in Nat
    BY TailAssumption DEF TypeInv, TypeOK
  <2> QED BY <2>1 DEF Deltas, HitLine, HitLines
<1> QED BY <1>3, <1>4, OrdersSeq

LEMMA FlushType ==
    ASSUME TypeInv, NEW i \in Instances, NEW s \in Orders(Deltas(i)), FlushTo(i, s)
    PROVE  /\ DOMAIN log' = DOMAIN log /\ log' = [j \in DOMAIN log' |-> log'[j]]
           /\ \A j \in DOMAIN log : log'[j] = IF j = i THEN log[j] \o buf[i] \o s ELSE log[j]
           /\ \A j \in DOMAIN log : log'[j] \in Seq(Lines)
           /\ buf' \in [Instances -> Seq(Lines)]
           /\ dirty' \in [Instances -> [Codes -> Nat]]
<1>1. s \in Seq(Lines)
  BY DeltasType DEF Lines
<1>2. buf[i] \in Seq(Lines) /\ \A j \in DOMAIN log : log[j] \in Seq(Lines)
  BY DEF TypeInv, TypeOK
<1>3. /\ DOMAIN log' = DOMAIN log
      /\ \A j \in DOMAIN log : log'[j] = IF j = i THEN log[j] \o buf[i] \o s ELSE log[j]
      /\ log' = [j \in DOMAIN log' |-> log'[j]]
  BY DEF FlushTo
<1>4. ASSUME NEW j \in DOMAIN log PROVE log'[j] \in Seq(Lines)
  <2>1. log[j] \in Seq(Lines) /\ log[j] \o buf[i] \in Seq(Lines)
    BY <1>2
  <2>2. (log[j] \o buf[i]) \o s \in Seq(Lines)
    BY <1>1, <2>1
  <2> QED BY <1>3, <2>1, <2>2
<1>5. buf' \in [Instances -> Seq(Lines)] /\ dirty' \in [Instances -> [Codes -> Nat]]
  BY DEF FlushTo, NoHits, TypeInv, TypeOK
<1> QED BY <1>3, <1>4, <1>5

LEMMA ReadersType ==
    ASSUME TypeInv, NEW i \in Instances, NEW J \in SUBSET Nat, i \notin J,
           offset' = WithReaders(i, J)
    PROVE  /\ offset' = [k \in Instances |-> offset'[k]]
           /\ \A k \in Instances : k # i => offset'[k] = offset[k]
           /\ DOMAIN offset'[i] = J \cup DOMAIN offset[i]
           /\ \A j \in DOMAIN offset'[i] :
                 offset'[i][j] = IF j \in DOMAIN offset[i] THEN offset[i][j] ELSE 0
           /\ \A k \in Instances : /\ DOMAIN offset'[k] \subseteq Nat
                                   /\ offset'[k] \in [DOMAIN offset'[k] -> Nat]
                                   /\ k \notin DOMAIN offset'[k]
<1>1. offset = [k \in Instances |-> offset[k]]
  BY DEF TypeInv
<1>2. offset' = [k \in Instances |->
                    IF k = i
                    THEN [j \in J \cup DOMAIN offset[i] |->
                             IF j \in DOMAIN offset[i] THEN offset[i][j] ELSE 0]
                    ELSE offset[k]]
  BY <1>1 DEF WithReaders
<1>3. \A k \in Instances : /\ DOMAIN offset[k] \subseteq Nat
                           /\ offset[k] \in [DOMAIN offset[k] -> Nat]
                           /\ k \notin DOMAIN offset[k]
  BY DEF TypeInv, TypeOK
<1>4. \A k \in Instances : k # i => offset'[k] = offset[k]
  BY <1>2
<1>5. offset'[i] = [j \in J \cup DOMAIN offset[i] |->
                       IF j \in DOMAIN offset[i] THEN offset[i][j] ELSE 0]
  BY <1>2
<1>6. /\ DOMAIN offset'[i] \subseteq Nat /\ offset'[i] \in [DOMAIN offset'[i] -> Nat]
      /\ i \notin DOMAIN offset'[i]
  <2> DEFINE D == J \cup DOMAIN offset[i]
             f == [j \in D |-> IF j \in DOMAIN offset[i] THEN offset[i][j] ELSE 0]
  <2>1. \A j \in DOMAIN offset[i] : offset[i][j] \in Nat
    BY <1>3
  <2>2. f \in [D -> Nat] /\ D \subseteq Nat /\ i \notin D /\ DOMAIN f = D
    BY <1>3, <2>1
  <2>3. offset'[i] = f
    BY <1>5
  <2> HIDE DEF f, D
  <2> QED BY <2>2, <2>3
<1>7. offset' = [k \in Instances |-> offset'[k]]
  BY <1>2
<1> QED BY <1>3, <1>4, <1>5, <1>6, <1>7

LEMMA InitType == Init => TypeInv
<1> SUFFICES ASSUME Init PROVE TypeInv
  OBVIOUS
<1>1. NoStray \in Strays /\ Nothing \in [Codes -> Entries \cup {None}]
      /\ Nothing \in [Codes -> RowLines \cup {None}]
      /\ NoStrays \in [Codes -> Strays] /\ NoHits \in [Codes -> Nat]
  BY DEF NoStray, Strays, Nothing, NoStrays, NoHits
<1>2. <<>> \in Seq(Lines) /\ Instances \subseteq Nat
  BY TailAssumption
<1> QED BY <1>1, <1>2 DEF Init, TypeInv, TypeOK

LEMMA WriteType ==
    ASSUME TypeInv, NEW i \in Instances, NEW c \in Codes, NEW x \in Entries \cup {None},
           NEW l \in Lines, Write(i, c, x, l)
    PROVE  /\ index' \in [Instances -> [Codes -> Entries \cup {None}]]
           /\ buf' \in [Instances -> Seq(Lines)]
<1>1. index \in [Instances -> [Codes -> Entries \cup {None}]] /\ buf \in [Instances -> Seq(Lines)]
  BY DEF TypeInv, TypeOK
<1>2. [index[i] EXCEPT ![c] = x] \in [Codes -> Entries \cup {None}]
  BY <1>1
<1>3. Append(buf[i], l) \in Seq(Lines)
  BY <1>1
<1> QED BY <1>1, <1>2, <1>3 DEF Write

LEMMA CountType ==
    ASSUME TypeInv, NEW i \in Instances, NEW c \in Codes, index[i][c] # None, CountHit(i, c)
    PROVE  /\ index' \in [Instances -> [Codes -> Entries \cup {None}]]
           /\ dirty' \in [Instances -> [Codes -> Nat]]
           /\ index' = [index EXCEPT ![i] = index'[i]]
           /\ \A d \in Codes : d # c => index'[i][d] = index[i][d]
           /\ index'[i][c] \in Entries /\ index'[i][c].i = index[i][c].i
           /\ index'[i][c].u = index[i][c].u /\ index'[i][c].e = index[i][c].e
           /\ Value(index'[i][c]) = Value(index[i][c])
<1> DEFINE x == index[i][c]
           y == [x EXCEPT !.h = @ + 1, !.oh = @ + 1]
<1>1. /\ index \in [Instances -> [Codes -> Entries \cup {None}]]
      /\ dirty \in [Instances -> [Codes -> Nat]] /\ x \in Entries
  BY DEF TypeInv, TypeOK
<1>2. index' = [index EXCEPT ![i] = [index[i] EXCEPT ![c] = y]]
  BY DEF CountHit
<1>3. y \in Entries /\ Value(y) = Value(x) /\ y.i = x.i /\ y.u = x.u /\ y.e = x.e
  <2> DEFINE a == x.h + 1
             b == x.oh + 1
  <2>1. a \in Nat /\ b \in Nat
    BY <1>1 DEF Entries
  <2>2. y = [x EXCEPT !.h = a, !.oh = b]
    OBVIOUS
  <2> HIDE DEF x, y, a, b
  <2>3. y \in Entries /\ y.i = x.i /\ y.u = x.u /\ y.e = x.e
    BY <1>1, <2>1, <2>2 DEF Entries
  <2> QED BY <1>1, <2>3, SameLink
<1> HIDE DEF y
<1>4. [index[i] EXCEPT ![c] = y] \in [Codes -> Entries \cup {None}]
  BY <1>1, <1>3
<1>5. dirty' \in [Instances -> [Codes -> Nat]]
  BY <1>1 DEF CountHit
<1>6. index'[i] = [index[i] EXCEPT ![c] = y]
  BY <1>1, <1>2
<1>7. index' \in [Instances -> [Codes -> Entries \cup {None}]]
  BY <1>1, <1>2, <1>4
<1>8. index'[i][c] = y /\ \A d \in Codes : d # c => index'[i][d] = index[i][d]
  BY <1>1, <1>6
<1> QED BY <1>2, <1>3, <1>5, <1>6, <1>7, <1>8

(* A read, in terms of LogOf.                                              *)
Reads(i, j, n) ==
    /\ inbox' = [inbox EXCEPT ![i] = SubSeq(LogOf(j), n + 1, Len(LogOf(j)))]
    /\ source' = [source EXCEPT ![i] = j]
    /\ offset' = [offset EXCEPT ![i][j] = Len(LogOf(j))]
    /\ reading' = [reading EXCEPT ![i] = @ \ {j}]
    /\ unread' = IF j \in lapsed[i]
                 THEN [unread EXCEPT ![i] = @ \cup SetBy(SubSeq(LogOf(j), 1, n))]
                 ELSE unread
    /\ lapsed' = [lapsed EXCEPT ![i] = @ \ {j}]

LEMMA ReadStep ==
    ASSUME TypeInv, NEW i \in Instances, ReadNew(i)
    PROVE  \E j \in reading[i] : \E n \in Nat :
              /\ Reads(i, j, n)
              /\ j \in DOMAIN offset[i] /\ j \in Nat /\ j # i
              /\ LogOf(j) \in Seq(Lines) /\ offset[i][j] \in Nat
              /\ n \in Resume(i, j, Len(LogOf(j)))
<1>0. PICK j \in reading[i] : \E n \in Resume(i, j, Len(LogOf(j))) : Reads(i, j, n)
  BY DEF ReadNew, Reads, LogOf
<1>1. PICK n \in Resume(i, j, Len(LogOf(j))) : Reads(i, j, n)
  BY <1>0
<1>2. /\ j \in DOMAIN offset[i] /\ j \in Nat /\ j # i
      /\ LogOf(j) \in Seq(Lines) /\ offset[i][j] \in Nat
  BY <1>1 DEF ReadNew, TypeInv, TypeOK, LogOf
<1>3. Len(LogOf(j)) \in Nat
  BY <1>2
<1>4. n \in Nat
  BY <1>1, <1>2, <1>3 DEF Resume
<1> QED BY <1>1, <1>2, <1>4

LEMMA NextType == ASSUME TypeInv, StageInv, [Next]_vars PROVE TypeInv'
<1> USE DEF history, tail, files
<1>a. Instances \subseteq Nat /\ \A c \in Codes : Owner[c] \in Nat \cup {-1}
  BY TailAssumption
<1>b. Kinds = {"op", "hit", "crash", "compact", "tick"}
  BY DEF Kinds
<1>r. ASSUME NEW k \in Instances, up[k] = "up" PROVE reading[k] \subseteq DOMAIN offset[k]
  BY <1>r DEF TypeInv, TypeOK
<1>1. ASSUME NEW i \in Instances, Shorten(i) PROVE TypeInv'
  <2>1. PICK c \in Codes, u \in Urls :
           /\ Write(i, c, [u |-> u, e |-> 0, i |-> i, h |-> 0, oh |-> 0], RowLine(c, u, 0, i, 0))
           /\ granted' = [granted EXCEPT ![c] = @ \cup {i}]
    BY <1>1, TailAssumption DEF Shorten, Generated
  <2>2. /\ [u |-> u, e |-> 0, i |-> i, h |-> 0, oh |-> 0] \in Entries
        /\ RowLine(c, u, 0, i, 0) \in Lines
    BY <1>a, LineTypes DEF Entries, AllUrls, Lines
  <2>3. /\ index' \in [Instances -> [Codes -> Entries \cup {None}]]
        /\ buf' \in [Instances -> Seq(Lines)]
    BY <2>1, <2>2, WriteType
  <2>4. spent' \in [Kinds -> Nat]
    BY <1>1, <1>b, SpendType DEF Shorten, Serving
  <2>5. granted' \in [Codes -> SUBSET Instances]
    BY <2>1 DEF TypeInv, TypeOK
  <2> QED BY <1>1, <2>1, <2>3, <2>4, <2>5 DEF Shorten, Write, TypeInv, TypeOK
<1>2. ASSUME NEW i \in Instances, Update(i) PROVE TypeInv'
  <2>1. PICK c \in Codes, u \in Urls :
           /\ Mine(i, c)
           /\ Write(i, c, [index[i][c] EXCEPT !.u = u], RowLine(c, u, 0, i, 0))
    BY <1>2 DEF Update
  <2>2. index[i][c] \in Entries
    BY <2>1 DEF Mine, TypeInv, TypeOK
  <2>3. [index[i][c] EXCEPT !.u = u] \in Entries /\ RowLine(c, u, 0, i, 0) \in Lines
    BY <1>a, <2>2, LineTypes DEF Entries, AllUrls, Lines
  <2>4. /\ index' \in [Instances -> [Codes -> Entries \cup {None}]]
        /\ buf' \in [Instances -> Seq(Lines)]
    BY <2>1, <2>3, WriteType
  <2>5. spent' \in [Kinds -> Nat]
    BY <1>2, <1>b, SpendType DEF Update, Serving
  <2> QED BY <1>2, <2>1, <2>4, <2>5 DEF Update, Write, TypeInv, TypeOK
<1>3. ASSUME NEW i \in Instances, Remove(i) PROVE TypeInv'
  <2>1. PICK c \in Codes :
           /\ Write(i, c, None, DelLine(c))
           /\ due' = [k \in Instances |-> IF asking[k] = c THEN due[k] \ {i} ELSE due[k]]
    BY <1>3 DEF Remove
  <2>2. DelLine(c) \in Lines
    BY LineTypes DEF Lines
  <2>3. /\ index' \in [Instances -> [Codes -> Entries \cup {None}]]
        /\ buf' \in [Instances -> Seq(Lines)]
    BY <2>1, <2>2, WriteType
  <2>4. spent' \in [Kinds -> Nat]
    BY <1>3, <1>b, SpendType DEF Remove, Serving
  <2>5. due' \in [Instances -> SUBSET Instances]
    BY <2>1 DEF TypeInv
  <2> QED BY <1>3, <2>1, <2>3, <2>4, <2>5 DEF Remove, Write, TypeInv, TypeOK
<1>4. ASSUME NEW i \in Instances, Flush(i) PROVE TypeInv'
  <2>1. PICK s \in Orders(Deltas(i)) : FlushTo(i, s)
    BY <1>4 DEF Flush
  <2>2. /\ DOMAIN log' = DOMAIN log /\ log' = [j \in DOMAIN log' |-> log'[j]]
        /\ \A j \in DOMAIN log : log'[j] \in Seq(Lines)
        /\ buf' \in [Instances -> Seq(Lines)]
        /\ dirty' \in [Instances -> [Codes -> Nat]]
    BY <2>1, FlushType
  <2> QED BY <1>4, <2>2 DEF Flush, TypeInv, TypeOK
<1>5. ASSUME NEW i \in Instances, Resolve(i) PROVE TypeInv'
  <2>1. PICK c \in Codes : index[i][c] # None /\ CountHit(i, c)
    BY <1>5 DEF Resolve
  <2>2. /\ index' \in [Instances -> [Codes -> Entries \cup {None}]]
        /\ dirty' \in [Instances -> [Codes -> Nat]]
    BY <2>1, CountType
  <2>3. spent' \in [Kinds -> Nat]
    BY <1>5, <1>b, SpendType DEF Resolve
  <2>4. UNCHANGED <<up, stray, buf, cpc, tail, files, history>>
    BY <1>5 DEF Resolve
  <2> QED BY <2>2, <2>3, <2>4 DEF TypeInv, TypeOK
<1>6. ASSUME NEW i \in Instances, Ask(i) PROVE TypeInv'
  <2>1. PICK c \in Codes :
           /\ asking' = [asking EXCEPT ![i] = c]
           /\ reading' = [reading EXCEPT ![i] = Missed(i, c)]
           /\ offset' = WithReaders(i, Missed(i, c))
           /\ due' = [due EXCEPT ![i] = IF Limited(i, c) THEN {}
                                        ELSE {j \in Siblings(i) : Logged(j, c)}]
           /\ recent' = IF Limited(i, c) THEN recent ELSE [recent EXCEPT ![i] = TRUE]
    BY <1>6 DEF Ask
  <2>2. Missed(i, c) \subseteq Nat /\ i \notin Missed(i, c)
    BY <1>a DEF Missed, Prefixed, PollTargets, Siblings, TypeInv, TypeOK
  <2>3. /\ offset' = [k \in Instances |-> offset'[k]]
        /\ \A k \in Instances : k # i => offset'[k] = offset[k]
        /\ DOMAIN offset'[i] = Missed(i, c) \cup DOMAIN offset[i]
        /\ \A k \in Instances : /\ DOMAIN offset'[k] \subseteq Nat
                                /\ offset'[k] \in [DOMAIN offset'[k] -> Nat]
                                /\ k \notin DOMAIN offset'[k]
    BY <2>1, <2>2, ReadersType
  <2>4. DOMAIN offset' = Instances
        /\ \A k \in Instances : \A j \in DOMAIN offset'[k] : j # k /\ offset'[k][j] \in Nat
    BY <2>3
  <2>5. reading' \in [Instances -> SUBSET Nat] /\ reading'[i] = Missed(i, c)
        /\ \A k \in Instances : k # i => reading'[k] = reading[k]
    BY <2>1, <2>2 DEF TypeInv
  <2>6. due' \in [Instances -> SUBSET Instances]
    BY <2>1 DEF TypeInv, TypeOK, Siblings
  <2>7. asking' \in [Instances -> Codes \cup {None}] /\ recent' \in [Instances -> BOOLEAN]
    BY <2>1 DEF TypeInv, TypeOK
  <2>8. spent' \in [Kinds -> Nat]
    BY <1>6, <1>b, SpendType DEF Ask
  <2>9. ASSUME NEW k \in Instances, up[k] = "up" PROVE reading'[k] \subseteq DOMAIN offset'[k]
    BY <1>r, <2>3, <2>5, <2>9
  <2>10. UNCHANGED <<up, index, stray, dirty, buf, cpc, inbox, source, log, snap, unread, lapsed,
                     granted>>
    BY <1>6 DEF Ask
  <2>11. TypeOK'
    BY <2>4, <2>5, <2>7, <2>9, <2>10 DEF TypeInv, TypeOK
  <2> QED BY <2>3, <2>5, <2>6, <2>8, <2>10, <2>11 DEF TypeInv
<1>7. ASSUME NEW i \in Instances, Poll(i) PROVE TypeInv'
  <2>2. PollTargets(i) \subseteq Nat /\ i \notin PollTargets(i)
    BY <1>a DEF PollTargets, Siblings, TypeInv, TypeOK
  <2>3. /\ offset' = [k \in Instances |-> offset'[k]]
        /\ \A k \in Instances : k # i => offset'[k] = offset[k]
        /\ DOMAIN offset'[i] = PollTargets(i) \cup DOMAIN offset[i]
        /\ \A k \in Instances : /\ DOMAIN offset'[k] \subseteq Nat
                                /\ offset'[k] \in [DOMAIN offset'[k] -> Nat]
                                /\ k \notin DOMAIN offset'[k]
    BY <1>7, <2>2, ReadersType DEF Poll
  <2>4. DOMAIN offset' = Instances
        /\ \A k \in Instances : \A j \in DOMAIN offset'[k] : j # k /\ offset'[k][j] \in Nat
    BY <2>3
  <2>5. reading' \in [Instances -> SUBSET Nat] /\ reading'[i] = PollTargets(i)
        /\ \A k \in Instances : k # i => reading'[k] = reading[k]
    BY <1>7, <2>2 DEF Poll, TypeInv
  <2>7. recent' \in [Instances -> BOOLEAN]
    BY <1>7 DEF Poll, TypeInv, TypeOK
  <2>9. ASSUME NEW k \in Instances, up[k] = "up" PROVE reading'[k] \subseteq DOMAIN offset'[k]
    BY <1>r, <2>3, <2>5, <2>9
  <2> QED BY <1>7, <2>3, <2>4, <2>5, <2>7, <2>9 DEF Poll, TypeInv, TypeOK
<1>8. ASSUME NEW i \in Instances, ReadNew(i) PROVE TypeInv'
  <2>1. PICK j \in reading[i], n \in Nat :
           /\ Reads(i, j, n)
           /\ j \in DOMAIN offset[i] /\ j \in Nat /\ j # i
           /\ LogOf(j) \in Seq(Lines) /\ offset[i][j] \in Nat
    BY <1>8, ReadStep
  <2> DEFINE t == LogOf(j)
  <2>3. t \in Seq(Lines) /\ Len(t) \in Nat
    BY <2>1
  <2>4. /\ inbox' = [inbox EXCEPT ![i] = SubSeq(t, n + 1, Len(t))]
        /\ source' = [source EXCEPT ![i] = j]
        /\ reading' = [reading EXCEPT ![i] = @ \ {j}]
        /\ lapsed' = [lapsed EXCEPT ![i] = @ \ {j}]
        /\ offset' = [offset EXCEPT ![i][j] = Len(t)]
    BY <2>1 DEF Reads
  <2> HIDE DEF t
  <2>5. SubSeq(t, n + 1, Len(t)) \in Seq(Lines)
    BY <2>3
  <2>6. inbox' \in [Instances -> Seq(Lines)]
    BY <2>4, <2>5 DEF TypeInv, TypeOK
  <2>7. unread' \in [Instances -> SUBSET Codes]
    BY <2>1 DEF Reads, TypeInv, TypeOK, SetBy
  <2>8. /\ offset' = [k \in Instances |-> IF k = i THEN [offset[i] EXCEPT ![j] = Len(t)]
                                          ELSE offset[k]]
    <3>1. offset = [k \in Instances |-> offset[k]]
      BY DEF TypeInv
    <3> QED BY <2>4, <3>1
  <2>9. /\ offset' = [k \in Instances |-> offset'[k]]
        /\ \A k \in Instances : DOMAIN offset'[k] = DOMAIN offset[k]
        /\ offset'[i] = [offset[i] EXCEPT ![j] = Len(t)]
        /\ \A k \in Instances : k # i => offset'[k] = offset[k]
    BY <2>8
  <2>10. \A k \in Instances : offset'[k] \in [DOMAIN offset'[k] -> Nat]
    <3>1. offset[i] \in [DOMAIN offset[i] -> Nat]
          /\ \A k \in Instances : offset[k] \in [DOMAIN offset[k] -> Nat]
      BY DEF TypeInv
    <3>2. [offset[i] EXCEPT ![j] = Len(t)] \in [DOMAIN offset[i] -> Nat]
      BY <2>3, <3>1
    <3> QED BY <2>9, <3>1, <3>2
  <2>11. \A k \in Instances : \A m \in DOMAIN offset'[k] : m # k /\ offset'[k][m] \in Nat
    BY <2>9, <2>10 DEF TypeInv, TypeOK
  <2>12. /\ reading' \in [Instances -> SUBSET Nat] /\ source' \in [Instances -> Nat]
         /\ lapsed' \in [Instances -> SUBSET Instances]
         /\ \A k \in Instances : reading'[k] \subseteq reading[k]
    BY <2>1, <2>4 DEF TypeInv, TypeOK
  <2>13. \A k \in Instances : DOMAIN offset'[k] \subseteq Nat
    BY <2>9 DEF TypeInv
  <2>14. ASSUME NEW k \in Instances, up[k] = "up" PROVE reading'[k] \subseteq DOMAIN offset'[k]
    BY <1>r, <2>9, <2>12, <2>14
  <2>15. DOMAIN offset' = Instances /\ DOMAIN reading' = Instances
    BY <2>8, <2>12
  <2>16. UNCHANGED <<up, index, stray, dirty, buf, cpc, recent, asking, log, snap, spent, due,
                     granted>>
    BY <1>8 DEF ReadNew
  <2>17. TypeOK'
    BY <2>6, <2>7, <2>11, <2>14, <2>15, <2>16 DEF TypeInv, TypeOK
  <2> QED BY <2>8, <2>10, <2>12, <2>13, <2>16, <2>17 DEF TypeInv
<1>9. ASSUME NEW i \in Instances, ApplyLine(i) PROVE TypeInv'
  <2>1. PICK st \in Apply([index |-> index[i], stray |-> stray[i]], Head(inbox[i]), i) :
           /\ index' = [index EXCEPT ![i] = st.index]
           /\ stray' = [stray EXCEPT ![i] = st.stray]
    BY <1>9 DEF ApplyLine
  <2>2. /\ index[i] \in [Codes -> Entries \cup {None}] /\ stray[i] \in [Codes -> Strays]
        /\ inbox[i] \in Seq(Lines) /\ inbox[i] # <<>>
    BY <1>9 DEF ApplyLine, TypeInv, TypeOK
  <2>3. Head(inbox[i]) \in Lines /\ Tail(inbox[i]) \in Seq(Lines)
    BY <2>2
  <2>4. st.index \in [Codes -> Entries \cup {None}] /\ st.stray \in [Codes -> Strays]
    BY <2>1, <2>2, <2>3, ApplyType
  <2>5. /\ index' \in [Instances -> [Codes -> Entries \cup {None}]]
        /\ stray' \in [Instances -> [Codes -> Strays]]
    BY <2>1, <2>4 DEF TypeInv, TypeOK
  <2>6. inbox' \in [Instances -> Seq(Lines)]
    BY <1>9, <2>3 DEF ApplyLine, TypeInv, TypeOK
  <2> QED BY <1>9, <2>5, <2>6 DEF ApplyLine, TypeInv, TypeOK
<1>10. ASSUME NEW i \in Instances, NEW c \in Codes, Answer(i, c) PROVE TypeInv'
  <2>1. /\ index' \in [Instances -> [Codes -> Entries \cup {None}]]
        /\ dirty' \in [Instances -> [Codes -> Nat]]
    BY <1>10, CountType DEF Answer, TypeInv, TypeOK
  <2>2. asking' \in [Instances -> Codes \cup {None}] /\ due' \in [Instances -> SUBSET Instances]
    BY <1>10 DEF Answer, TypeInv, TypeOK
  <2> QED BY <1>10, <2>1, <2>2 DEF Answer, TypeInv, TypeOK
<1>11. ASSUME NEW i \in Instances, Tick(i) PROVE TypeInv'
  <2>1. spent' \in [Kinds -> Nat] /\ recent' \in [Instances -> BOOLEAN]
    BY <1>11, <1>b, SpendType DEF Tick, TypeInv, TypeOK
  <2> QED BY <1>11, <2>1 DEF Tick, TypeInv, TypeOK
<1>12. ASSUME NEW i \in Instances, CompactSnap(i) PROVE TypeInv'
  <2>1. PICK s \in Orders(Deltas(i)) : FlushTo(i, s)
    BY <1>12 DEF CompactSnap
  <2>2. /\ DOMAIN log' = DOMAIN log /\ log' = [j \in DOMAIN log' |-> log'[j]]
        /\ \A j \in DOMAIN log : log'[j] \in Seq(Lines)
        /\ buf' \in [Instances -> Seq(Lines)]
        /\ dirty' \in [Instances -> [Codes -> Nat]]
    BY <2>1, FlushType
  <2>3. spent' \in [Kinds -> Nat]
    BY <1>12, <1>b, SpendType DEF CompactSnap
  <2>4. ASSUME NEW c \in Codes PROVE OwnRow(i, c) \in RowLines \cup {None}
    <3>1. CASE ~Mine(i, c)
      BY <3>1 DEF OwnRow
    <3>2. CASE Mine(i, c)
      <4>1. index[i][c] \in Entries
        BY <3>2 DEF Mine, TypeInv, TypeOK
      <4>2. index[i][c].u \in AllUrls /\ index[i][c].oh \in Nat /\ i \in Nat /\ 0 \in Nat
        BY <1>a, <4>1 DEF Entries
      <4> QED BY <3>2, <4>2, LineTypes DEF OwnRow
    <3> QED BY <3>1, <3>2
  <2>5. snap' \in [Instances -> [Codes -> RowLines \cup {None}]]
        /\ cpc' \in [Instances -> {"idle", "trunc"}]
    BY <1>12, <2>4 DEF CompactSnap, TypeInv, TypeOK
  <2>6. unread' \in [Instances -> SUBSET Codes]
    BY <1>12 DEF CompactSnap, TypeInv, TypeOK, SetBy
  <2> QED BY <1>12, <2>2, <2>3, <2>5, <2>6 DEF CompactSnap, TypeInv, TypeOK
<1>13. ASSUME NEW i \in Instances, CompactTrunc(i) PROVE TypeInv'
  <2>1. /\ DOMAIN log' = DOMAIN log /\ log' = [j \in DOMAIN log' |-> log'[j]]
        /\ \A j \in DOMAIN log : log'[j] \in Seq(Lines)
    <3>1. \A j \in DOMAIN log : log[j] \in Seq(Lines)
      BY DEF TypeInv, TypeOK
    <3>2. DOMAIN log' = DOMAIN log /\ \A j \in DOMAIN log : log'[j] = IF j = i THEN <<>> ELSE log[j]
      BY <1>13 DEF CompactTrunc
    <3>3. log' = [j \in DOMAIN log' |-> log'[j]]
      BY <1>13 DEF CompactTrunc
    <3>4. <<>> \in Seq(Lines)
      OBVIOUS
    <3> QED BY <3>1, <3>2, <3>3, <3>4
  <2>2. cpc' \in [Instances -> {"idle", "trunc"}] /\ lapsed' \in [Instances -> SUBSET Instances]
    BY <1>13 DEF CompactTrunc, TypeInv, TypeOK
  <2> QED BY <1>13, <2>1, <2>2 DEF CompactTrunc, TypeInv, TypeOK
<1>14. ASSUME NEW i \in Instances, Crash(i) PROVE TypeInv'
  <2>1. NoStray \in Strays /\ Nothing \in [Codes -> Entries \cup {None}]
        /\ NoStrays \in [Codes -> Strays] /\ NoHits \in [Codes -> Nat]
    BY DEF NoStray, Strays, Nothing, NoStrays, NoHits
  <2>2. /\ up' \in [Instances -> {"down", "own", "boot", "up"}]
        /\ index' \in [Instances -> [Codes -> Entries \cup {None}]]
        /\ stray' \in [Instances -> [Codes -> Strays]]
        /\ dirty' \in [Instances -> [Codes -> Nat]]
    BY <1>14, <2>1 DEF Crash, TypeInv, TypeOK
  <2>3. /\ buf' \in [Instances -> Seq(Lines)] /\ inbox' \in [Instances -> Seq(Lines)]
        /\ cpc' \in [Instances -> {"idle", "trunc"}] /\ recent' \in [Instances -> BOOLEAN]
        /\ asking' \in [Instances -> Codes \cup {None}]
        /\ reading' \in [Instances -> SUBSET Nat]
    BY <1>14 DEF Crash, TypeInv, TypeOK
  <2>4. /\ due' \in [Instances -> SUBSET Instances]
        /\ unread' \in [Instances -> SUBSET Codes]
        /\ lapsed' \in [Instances -> SUBSET Instances]
    BY <1>14 DEF Crash, TypeInv, TypeOK
  <2>5. spent' \in [Kinds -> Nat]
    BY <1>14, <1>b, SpendType DEF Crash
  <2>6. /\ offset' = [k \in Instances |-> offset'[k]]
        /\ \A k \in Instances : IF k = i THEN offset'[k] = [j \in {} |-> 0]
                                ELSE offset'[k] = offset[k]
    BY <1>14 DEF Crash, TypeInv, TypeOK
  <2>7. /\ \A k \in Instances : /\ DOMAIN offset'[k] \subseteq Nat
                                /\ offset'[k] \in [DOMAIN offset'[k] -> Nat]
                                /\ \A j \in DOMAIN offset'[k] : j # k /\ offset'[k][j] \in Nat
    <3>1. \A k \in Instances : /\ DOMAIN offset[k] \subseteq Nat
                               /\ offset[k] \in [DOMAIN offset[k] -> Nat]
                               /\ \A j \in DOMAIN offset[k] : j # k /\ offset[k][j] \in Nat
      BY DEF TypeInv, TypeOK
    <3>2. DOMAIN [j \in {} |-> 0] = {} /\ [j \in {} |-> 0] \in [{} -> Nat]
      OBVIOUS
    <3> QED BY <2>6, <3>1, <3>2
  <2>8. \A k \in Instances : up'[k] = "up" => reading'[k] \subseteq DOMAIN offset'[k]
    BY <1>14, <2>6 DEF Crash, TypeInv, TypeOK
  <2>9. DOMAIN offset' = Instances
    BY <2>6
  <2> QED BY <1>14, <2>2, <2>3, <2>4, <2>5, <2>6, <2>7, <2>8, <2>9 DEF Crash, TypeInv, TypeOK
<1>15. ASSUME NEW i \in Instances, Boot(i) PROVE TypeInv'
  <2>1. /\ DOMAIN log' = DOMAIN log \cup {i} /\ log' = [j \in DOMAIN log' |-> log'[j]]
        /\ \A j \in DOMAIN log' : log'[j] = IF j \in DOMAIN log THEN log[j] ELSE <<>>
    BY <1>15 DEF Boot
  <2>2. \A j \in DOMAIN log' : log'[j] \in Seq(Lines)
    <3>1. <<>> \in Seq(Lines) /\ \A j \in DOMAIN log : log[j] \in Seq(Lines)
      BY DEF TypeInv, TypeOK
    <3> QED BY <2>1, <3>1
  <2>3. ASSUME NEW c \in Codes, snap[i][c] # None
        PROVE  RowEntry(snap[i][c], NoStray) \in Entries
    <3>1. snap[i][c] \in RowLines
      BY <2>3 DEF TypeInv, TypeOK
    <3> QED BY <3>1 DEF RowEntry, RowLines, NoStray, Entries
  <2>4. index' \in [Instances -> [Codes -> Entries \cup {None}]]
    <3> DEFINE ix == [c \in Codes |-> IF snap[i][c] = None THEN None
                                      ELSE RowEntry(snap[i][c], NoStray)]
    <3>1. ix \in [Codes -> Entries \cup {None}]
      BY <2>3
    <3>2. index' = [index EXCEPT ![i] = ix]
      BY <1>15 DEF Boot
    <3> HIDE DEF ix
    <3> QED BY <3>1, <3>2 DEF TypeInv, TypeOK
  <2>5. inbox' \in [Instances -> Seq(Lines)]
    BY <1>15, <2>1, <2>2 DEF Boot, TypeInv, TypeOK
  <2>6. up' \in [Instances -> {"down", "own", "boot", "up"}] /\ source' \in [Instances -> Nat]
    BY <1>15, <1>a DEF Boot, TypeInv, TypeOK
  <2>7. \A k \in Instances : up'[k] = "up" => reading[k] \subseteq DOMAIN offset[k]
    BY <1>15 DEF Boot, TypeInv, TypeOK
  <2>8. DOMAIN log' \subseteq Instances
    BY <2>1 DEF TypeInv, TypeOK
  <2> QED BY <1>15, <2>1, <2>2, <2>4, <2>5, <2>6, <2>7, <2>8 DEF Boot, TypeInv, TypeOK
<1>16. ASSUME NEW i \in Instances, BootList(i) PROVE TypeInv'
  <2>1. Siblings(i) \subseteq Nat
    BY <1>a DEF Siblings, TypeInv, TypeOK
  <2>2. up' \in [Instances -> {"down", "own", "boot", "up"}]
        /\ reading' \in [Instances -> SUBSET Nat]
        /\ \A k \in Instances : up'[k] = "up" => reading'[k] \subseteq DOMAIN offset[k]
    BY <1>16, <2>1 DEF BootList, TypeInv, TypeOK
  <2> QED BY <1>16, <2>2 DEF BootList, TypeInv, TypeOK
<1>17. ASSUME NEW i \in Instances, BootSibling(i) PROVE TypeInv'
  <2>1. PICK j \in reading[i] :
           /\ index' = [index EXCEPT ![i] =
                          [c \in Codes |-> IF snap[j][c] = None THEN index[i][c]
                                           ELSE RowEntry(snap[j][c], stray[i][c])]]
           /\ stray' = [stray EXCEPT ![i] =
                          [c \in Codes |-> IF snap[j][c] = None THEN stray[i][c]
                                           ELSE NoStray]]
           /\ reading' = [reading EXCEPT ![i] = @ \ {j}]
           /\ offset' = WithReaders(i, {j})
           /\ unread' = [unread EXCEPT ![i] = @ \ Sole(j)]
    BY <1>17 DEF BootSibling
  <2>2. j \in Instances /\ j # i /\ j \in Nat
    BY <1>17, <1>a DEF BootSibling, StageInv, Stage, TypeInv, TypeOK
  <2>3. ASSUME NEW c \in Codes, snap[j][c] # None
        PROVE  RowEntry(snap[j][c], stray[i][c]) \in Entries
    <3>1. snap[j][c] \in RowLines /\ stray[i][c] \in Strays
      BY <2>2, <2>3 DEF TypeInv, TypeOK
    <3> QED BY <3>1 DEF RowEntry, RowLines, Strays, Entries
  <2>4. index' \in [Instances -> [Codes -> Entries \cup {None}]]
    <3> DEFINE ix == [c \in Codes |-> IF snap[j][c] = None THEN index[i][c]
                                      ELSE RowEntry(snap[j][c], stray[i][c])]
    <3>1. ix \in [Codes -> Entries \cup {None}]
      BY <2>3 DEF TypeInv, TypeOK
    <3>2. index' = [index EXCEPT ![i] = ix]
      BY <2>1
    <3> HIDE DEF ix
    <3> QED BY <3>1, <3>2 DEF TypeInv, TypeOK
  <2>5. stray' \in [Instances -> [Codes -> Strays]]
    BY <2>1 DEF TypeInv, TypeOK, NoStray, Strays
  <2>6. /\ offset' = [k \in Instances |-> offset'[k]]
        /\ \A k \in Instances : k # i => offset'[k] = offset[k]
        /\ DOMAIN offset'[i] = {j} \cup DOMAIN offset[i]
        /\ \A k \in Instances : /\ DOMAIN offset'[k] \subseteq Nat
                                /\ offset'[k] \in [DOMAIN offset'[k] -> Nat]
                                /\ k \notin DOMAIN offset'[k]
    <3>1. {j} \in SUBSET Nat /\ i \notin {j}
      BY <2>2
    <3> QED BY <2>1, <3>1, ReadersType
  <2>7. DOMAIN offset' = Instances
        /\ \A k \in Instances : \A m \in DOMAIN offset'[k] : m # k /\ offset'[k][m] \in Nat
    BY <2>6
  <2>8. /\ reading' \in [Instances -> SUBSET Nat] /\ unread' \in [Instances -> SUBSET Codes]
        /\ \A k \in Instances : reading'[k] \subseteq reading[k]
    BY <2>1 DEF TypeInv, TypeOK
  <2>9. ASSUME NEW k \in Instances, up[k] = "up" PROVE reading'[k] \subseteq DOMAIN offset'[k]
    BY <1>r, <2>6, <2>8, <2>9
  <2>10. DOMAIN reading' = Instances
    BY <2>8
  <2>11. UNCHANGED <<up, dirty, buf, cpc, recent, inbox, source, asking, log, snap, spent, due,
                     lapsed, granted>>
    BY <1>17 DEF BootSibling
  <2> QED BY <2>4, <2>5, <2>6, <2>7, <2>8, <2>9, <2>10, <2>11 DEF TypeInv, TypeOK
<1>18. ASSUME NEW i \in Instances, BootDone(i) PROVE TypeInv'
  BY <1>18 DEF BootDone, TypeInv, TypeOK
<1>19. CASE UNCHANGED vars
  BY <1>19 DEF vars, TypeInv, TypeOK
<1> QED
  BY <1>1, <1>2, <1>3, <1>4, <1>5, <1>6, <1>7, <1>8, <1>9, <1>10, <1>11, <1>12, <1>13,
     <1>14, <1>15, <1>16, <1>17, <1>18, <1>19
  DEF Next

-----------------------------------------------------------------------------
(* The life of a process.                                                  *)

LEMMA InitStage == Init => StageInv /\ LengthInv
BY DEF Init, StageInv, Stage, LengthInv, Nothing

LEMMA NextStage == ASSUME TypeInv, StageInv, [Next]_vars PROVE StageInv'
<1> USE DEF history, tail, files
<1>t. /\ up \in [Instances -> {"down", "own", "boot", "up"}]
      /\ index \in [Instances -> [Codes -> Entries \cup {None}]]
      /\ buf \in [Instances -> Seq(Lines)] /\ cpc \in [Instances -> {"idle", "trunc"}]
      /\ inbox \in [Instances -> Seq(Lines)] /\ asking \in [Instances -> Codes \cup {None}]
      /\ snap \in [Instances -> [Codes -> RowLines \cup {None}]]
      /\ reading \in [Instances -> SUBSET Nat] /\ source \in [Instances -> Nat]
      /\ lapsed \in [Instances -> SUBSET Instances] /\ DOMAIN log \subseteq Instances
      /\ offset = [i \in Instances |-> offset[i]] /\ DOMAIN offset = Instances
  BY DEF TypeInv, TypeOK
<1>1. ASSUME NEW i \in Instances, Shorten(i) \/ Update(i) \/ Remove(i) PROVE StageInv'
  <2>1. PICK c, x, l : c \in Codes /\ Write(i, c, x, l)
    BY <1>1, TailAssumption DEF Shorten, Update, Remove, Generated
  <2>2. up[i] = "up" /\ cpc[i] = "idle"
    BY <1>1 DEF Shorten, Update, Remove, Serving
  <2> QED BY <1>t, <2>1, <2>2 DEF Write, StageInv, Stage
<1>4. ASSUME NEW i \in Instances, Flush(i) PROVE StageInv'
  <2>1. /\ DOMAIN log' = DOMAIN log /\ up[i] = "up"
        /\ buf' = [buf EXCEPT ![i] = <<>>]
    BY <1>4 DEF Flush, FlushTo
  <2> QED BY <1>t, <1>4, <2>1 DEF Flush, StageInv, Stage
<1>5. ASSUME NEW i \in Instances, Resolve(i) PROVE StageInv'
  <2>1. index' = [index EXCEPT ![i] = index'[i]] /\ up[i] = "up"
    BY <1>5, CountType DEF Resolve
  <2>2. \A k \in Instances \ {i} : index'[k] = index[k]
    BY <1>t, <2>1
  <2>3. UNCHANGED <<up, buf, cpc, offset, reading, inbox, source, asking, log, snap, lapsed>>
    BY <1>5 DEF Resolve
  <2> QED BY <2>1, <2>2, <2>3 DEF StageInv, Stage
<1>6. ASSUME NEW i \in Instances, Ask(i) \/ Poll(i) PROVE StageInv'
  <2>1. PICK J : offset' = WithReaders(i, J)
    BY <1>6 DEF Ask, Poll
  <2>2. /\ UNCHANGED <<up, index, buf, cpc, inbox, source, log, snap, lapsed>>
        /\ \A k \in Instances \ {i} : UNCHANGED <<asking[k], reading[k]>>
        /\ up[i] = "up"
    BY <1>t, <1>6 DEF Ask, Poll
  <2>3. /\ \A k \in Instances \ {i} : offset'[k] = offset[k]
        /\ DOMAIN offset[i] \subseteq DOMAIN offset'[i]
    BY <1>t, <2>1 DEF WithReaders
  <2> QED BY <2>2, <2>3 DEF StageInv, Stage
<1>8. ASSUME NEW i \in Instances, ReadNew(i) PROVE StageInv'
  <2>1. PICK j \in reading[i], n \in Nat : Reads(i, j, n) /\ j # i
    BY <1>8, ReadStep
  <2>2. /\ UNCHANGED <<up, index, buf, cpc, asking, log, snap>> /\ up[i] = "up"
    BY <1>8 DEF ReadNew
  <2>3. \A k \in Instances : DOMAIN offset'[k] = DOMAIN offset[k]
    BY <1>t, <2>1 DEF Reads
  <2>4. /\ \A k \in Instances \ {i} : UNCHANGED <<inbox[k], source[k], reading[k]>>
        /\ \A k \in Instances : lapsed'[k] \subseteq lapsed[k]
        /\ source'[i] # i
    BY <1>t, <2>1 DEF Reads
  <2> SUFFICES ASSUME NEW k \in Instances PROVE Stage(k)'
    BY DEF StageInv
  <2>5. Stage(k)
    BY DEF StageInv
  <2>6. CASE k = i
    BY <2>2, <2>3, <2>4, <2>5, <2>6 DEF Stage
  <2>7. CASE k # i
    BY <2>2, <2>3, <2>4, <2>5, <2>7 DEF Stage
  <2> QED BY <2>6, <2>7
<1>9. ASSUME NEW i \in Instances, ApplyLine(i) PROVE StageInv'
  <2>1. PICK ix : index' = [index EXCEPT ![i] = ix]
    BY <1>9 DEF ApplyLine
  <2> QED BY <1>t, <1>9, <2>1 DEF ApplyLine, StageInv, Stage
<1>10. ASSUME NEW i \in Instances, NEW c \in Codes, Answer(i, c) PROVE StageInv'
  <2>1. index' = [index EXCEPT ![i] = index'[i]] /\ up[i] = "up"
    <3>1. CASE index[i][c] = None
      BY <1>t, <1>10, <3>1 DEF Answer
    <3>2. CASE index[i][c] # None
      BY <1>10, <3>2, CountType DEF Answer
    <3> QED BY <1>10, <3>1, <3>2 DEF Answer
  <2> QED BY <1>t, <1>10, <2>1 DEF Answer, StageInv, Stage
<1>11. ASSUME NEW i \in Instances, Tick(i) PROVE StageInv'
  BY <1>11 DEF Tick, StageInv, Stage
<1>12. ASSUME NEW i \in Instances, CompactSnap(i) PROVE StageInv'
  <2>1. /\ DOMAIN log' = DOMAIN log /\ up[i] = "up"
        /\ buf' = [buf EXCEPT ![i] = <<>>]
    BY <1>12 DEF CompactSnap, FlushTo
  <2>2. i \in DOMAIN log
    BY <2>1 DEF StageInv, Stage
  <2> QED BY <1>t, <1>12, <2>1, <2>2 DEF CompactSnap, StageInv, Stage
<1>13. ASSUME NEW i \in Instances, CompactTrunc(i) PROVE StageInv'
  <2>1. DOMAIN log' = DOMAIN log /\ up[i] = "up" /\ i \in DOMAIN log
    BY <1>t, <1>13 DEF CompactTrunc, StageInv, Stage
  <2> QED BY <1>t, <1>13, <2>1 DEF CompactTrunc, StageInv, Stage
<1>14. ASSUME NEW i \in Instances, Crash(i) PROVE StageInv'
  <2>1. /\ \A k \in Instances \ {i} :
              UNCHANGED <<up[k], index[k], buf[k], cpc[k], offset[k], reading[k], inbox[k],
                          asking[k], lapsed[k]>>
        /\ UNCHANGED <<log, snap, source>>
    BY <1>t, <1>14 DEF Crash
  <2>2. /\ up'[i] = "down" /\ index'[i] = Nothing /\ buf'[i] = <<>> /\ cpc'[i] = "idle"
        /\ DOMAIN offset'[i] = {} /\ inbox'[i] = <<>> /\ asking'[i] = None /\ lapsed'[i] = {}
    BY <1>t, <1>14 DEF Crash
  <2> QED BY <2>1, <2>2 DEF StageInv, Stage, Nothing
<1>15. ASSUME NEW i \in Instances, Boot(i) PROVE StageInv'
  <2>1. DOMAIN log' = DOMAIN log \cup {i}
    BY <1>15 DEF Boot
  <2>2. /\ \A k \in Instances \ {i} : UNCHANGED <<up[k], index[k], inbox[k], source[k]>>
        /\ UNCHANGED <<buf, cpc, offset, reading, asking, snap, lapsed>>
    BY <1>t, <1>15 DEF Boot
  <2>3. up[i] = "down" /\ up'[i] = "own" /\ source'[i] = i
    BY <1>t, <1>15 DEF Boot
  <2> QED BY <2>1, <2>2, <2>3 DEF StageInv, Stage
<1>16. ASSUME NEW i \in Instances, BootList(i) PROVE StageInv'
  BY <1>t, <1>16 DEF BootList, StageInv, Stage, Siblings
<1>17. ASSUME NEW i \in Instances, BootSibling(i) PROVE StageInv'
  <2>1. PICK j \in reading[i] : /\ reading' = [reading EXCEPT ![i] = @ \ {j}]
                                /\ offset' = WithReaders(i, {j})
    BY <1>17 DEF BootSibling
  <2>2. /\ UNCHANGED <<up, buf, cpc, inbox, source, asking, log, snap, lapsed>>
        /\ up[i] = "boot"
        /\ \A k \in Instances \ {i} : UNCHANGED <<index[k], reading[k]>>
        /\ reading'[i] = reading[i] \ {j}
    BY <1>t, <1>17, <2>1 DEF BootSibling
  <2>3. /\ \A k \in Instances \ {i} : offset'[k] = offset[k]
        /\ DOMAIN offset'[i] = DOMAIN offset[i] \cup {j}
    BY <1>t, <2>1 DEF WithReaders
  <2> QED BY <2>2, <2>3 DEF StageInv, Stage
<1>18. ASSUME NEW i \in Instances, BootDone(i) PROVE StageInv'
  BY <1>t, <1>18 DEF BootDone, StageInv, Stage
<1>19. CASE UNCHANGED vars
  BY <1>19 DEF vars, StageInv, Stage
<1> QED
  BY <1>1, <1>4, <1>5, <1>6, <1>8, <1>9, <1>10, <1>11, <1>12, <1>13, <1>14, <1>15, <1>16,
     <1>17, <1>18, <1>19
  DEF Next

LEMMA LogOfType == ASSUME TypeInv, NEW j PROVE LogOf(j) \in Seq(Lines) /\ Len(LogOf(j)) \in Nat
<1>1. LogOf(j) \in Seq(Lines)
  BY DEF LogOf, TypeInv, TypeOK
<1> QED BY <1>1

(* Flushing appends to one log: lines that set codes from the queue, then  *)
(* hits.                                                                   *)
LEMMA FlushLog ==
    ASSUME TypeInv, StageInv, NEW i \in Instances, up[i] = "up",
           NEW s \in Orders(Deltas(i)), FlushTo(i, s)
    PROVE  /\ s \in Seq(HitLines) /\ s \in Seq(Lines) /\ i \in DOMAIN log
           /\ DOMAIN log' = DOMAIN log
           /\ log'[i] = (log[i] \o buf[i]) \o s
           /\ \A j : j # i => LogOf(j)' = LogOf(j)
           /\ LogOf(i) = log[i] /\ LogOf(i)' = log'[i]
<1>1. s \in Seq(HitLines) /\ s \in Seq(Lines)
  BY DeltasType DEF Lines
<1>2. i \in DOMAIN log
  BY DEF StageInv, Stage
<1>3. /\ DOMAIN log' = DOMAIN log
      /\ \A j \in DOMAIN log : log'[j] = IF j = i THEN (log[j] \o buf[i]) \o s ELSE log[j]
  BY FlushType
<1> QED BY <1>1, <1>2, <1>3 DEF LogOf

LEMMA NextLength ==
    ASSUME TypeInv, StageInv, LengthInv, TypeInv', [Next]_vars
    PROVE  LengthInv'
<1> USE DEF history, tail, files
<1>t. /\ offset = [i \in Instances |-> offset[i]] /\ DOMAIN offset = Instances
      /\ \A k \in Instances : \A j \in DOMAIN offset[k] : j # k /\ offset[k][j] \in Nat
      /\ lapsed \in [Instances -> SUBSET Instances]
  BY DEF TypeInv, TypeOK
<1>l. \A j : Len(LogOf(j)) \in Nat /\ LogOf(j) \in Seq(Lines)
  BY LogOfType
<1>s. CASE UNCHANGED <<offset, lapsed>> /\ \A j : Len(LogOf(j)') >= Len(LogOf(j))
  <2> SUFFICES ASSUME NEW k \in Instances, NEW j \in DOMAIN offset[k] \ lapsed[k]
               PROVE  offset[k][j] <= Len(LogOf(j)')
    BY <1>s DEF LengthInv
  <2>1. offset[k][j] <= Len(LogOf(j)) /\ offset[k][j] \in Nat
    BY <1>t DEF LengthInv
  <2>2. Len(LogOf(j)) \in Nat /\ Len(LogOf(j)') \in Nat /\ Len(LogOf(j)') >= Len(LogOf(j))
    <3>1. LogOf(j)' \in Seq(Lines)
      <4>1. \A m \in DOMAIN log' : log'[m] \in Seq(Lines)
        BY DEF TypeInv, TypeOK
      <4> QED BY <4>1 DEF LogOf
    <3> QED BY <1>s, <1>l, <3>1
  <2> HIDE DEF LogOf
  <2> QED BY <2>1, <2>2
<1>u. CASE UNCHANGED <<offset, lapsed, log>>
  <2>1. \A j : LogOf(j)' = LogOf(j)
    BY <1>u DEF LogOf
  <2> QED BY <1>u, <1>s, <1>l, <2>1
<1>4. ASSUME NEW i \in Instances, Flush(i) \/ CompactSnap(i) PROVE LengthInv'
  <2>1. PICK s \in Orders(Deltas(i)) : FlushTo(i, s)
    BY <1>4 DEF Flush, CompactSnap
  <2>2. UNCHANGED <<offset, lapsed>> /\ up[i] = "up"
    BY <1>4 DEF Flush, CompactSnap
  <2>3. /\ s \in Seq(Lines) /\ i \in DOMAIN log
        /\ log'[i] = (log[i] \o buf[i]) \o s
        /\ \A j : j # i => LogOf(j)' = LogOf(j)
        /\ LogOf(i) = log[i] /\ LogOf(i)' = log'[i]
    BY <2>1, <2>2, FlushLog
  <2>4. log[i] \in Seq(Lines) /\ buf[i] \in Seq(Lines)
    BY <2>3 DEF TypeInv, TypeOK
  <2>5. Len(log'[i]) >= Len(log[i])
    <3>1. log[i] \o buf[i] \in Seq(Lines) /\ Len(log[i] \o buf[i]) = Len(log[i]) + Len(buf[i])
      BY <2>4
    <3>2. Len((log[i] \o buf[i]) \o s) = Len(log[i]) + Len(buf[i]) + Len(s)
      BY <2>3, <3>1
    <3>3. Len(log[i]) \in Nat /\ Len(buf[i]) \in Nat /\ Len(s) \in Nat
      BY <2>3, <2>4
    <3> QED BY <2>3, <3>2, <3>3
  <2>6. ASSUME NEW j PROVE Len(LogOf(j)') >= Len(LogOf(j))
    <3>1. CASE j = i
      BY <2>3, <2>5, <3>1
    <3>2. CASE j # i
      <4>1. Len(LogOf(j)') = Len(LogOf(j))
        BY <2>3, <3>2
      <4> QED BY <1>l, <4>1
    <3> QED BY <3>1, <3>2
  <2> QED BY <1>s, <2>2, <2>6
<1>6. ASSUME NEW i \in Instances, NEW J, offset' = WithReaders(i, J), UNCHANGED <<log, lapsed>>
      PROVE  LengthInv'
  <2>1. /\ \A k \in Instances \ {i} : offset'[k] = offset[k]
        /\ DOMAIN offset'[i] = J \cup DOMAIN offset[i]
        /\ \A j \in DOMAIN offset'[i] :
              offset'[i][j] = IF j \in DOMAIN offset[i] THEN offset[i][j] ELSE 0
    BY <1>t, <1>6 DEF WithReaders
  <2>2. \A j : LogOf(j)' = LogOf(j)
    BY <1>6 DEF LogOf
  <2> SUFFICES ASSUME NEW k \in Instances, NEW j \in DOMAIN offset'[k] \ lapsed[k]
               PROVE  offset'[k][j] <= Len(LogOf(j))
    BY <1>6, <2>2 DEF LengthInv
  <2> HIDE DEF LogOf
  <2> QED BY <1>l, <2>1 DEF LengthInv
<1>8. ASSUME NEW i \in Instances, ReadNew(i) PROVE LengthInv'
  <2>1. PICK j \in reading[i], n \in Nat : Reads(i, j, n) /\ j \in DOMAIN offset[i]
    BY <1>8, ReadStep
  <2>2. \A m : LogOf(m)' = LogOf(m)
    BY <1>8 DEF ReadNew, LogOf
  <2>3. /\ \A k \in Instances \ {i} : offset'[k] = offset[k] /\ lapsed'[k] = lapsed[k]
        /\ offset'[i] = [offset[i] EXCEPT ![j] = Len(LogOf(j))]
        /\ lapsed'[i] = lapsed[i] \ {j}
    BY <1>t, <2>1 DEF Reads
  <2> SUFFICES ASSUME NEW k \in Instances, NEW m \in DOMAIN offset'[k] \ lapsed'[k]
               PROVE  offset'[k][m] <= Len(LogOf(m))
    BY <2>2 DEF LengthInv
  <2>4. CASE k = i /\ m = j
    BY <1>l, <2>1, <2>3, <2>4
  <2>5. CASE k # i \/ m # j
    <3>1. m \in DOMAIN offset[k] \ lapsed[k] /\ offset'[k][m] = offset[k][m]
      BY <2>3, <2>5
    <3> QED BY <3>1 DEF LengthInv
  <2> QED BY <2>4, <2>5
<1>13. ASSUME NEW i \in Instances, CompactTrunc(i) PROVE LengthInv'
  <2>1. /\ \A j : j # i => LogOf(j)' = LogOf(j)
        /\ Len(LogOf(i)') = 0
    BY <1>13 DEF CompactTrunc, LogOf
  <2>2. /\ UNCHANGED offset
        /\ \A k \in Instances : lapsed[k] \subseteq lapsed'[k]
        /\ \A k \in Instances : k # i /\ i \in DOMAIN offset[k] /\ offset[k][i] > 0 => i \in lapsed'[k]
    BY <1>t, <1>13 DEF CompactTrunc
  <2> SUFFICES ASSUME NEW k \in Instances, NEW j \in DOMAIN offset[k] \ lapsed'[k]
               PROVE  offset[k][j] <= Len(LogOf(j)')
    BY <2>2 DEF LengthInv
  <2>3. CASE j = i
    <3>1. k # i /\ ~(offset[k][i] > 0) /\ offset[k][i] \in Nat
      BY <1>t, <2>2, <2>3
    <3>2. offset[k][i] = 0
      BY <3>1
    <3> QED BY <2>1, <2>3, <3>2
  <2>4. CASE j # i
    BY <2>1, <2>2, <2>4 DEF LengthInv
  <2> QED BY <2>3, <2>4
<1>14. ASSUME NEW i \in Instances, Crash(i) PROVE LengthInv'
  <2>1. \A m : LogOf(m)' = LogOf(m)
    BY <1>14 DEF Crash, LogOf
  <2>2. /\ \A k \in Instances \ {i} : offset'[k] = offset[k] /\ lapsed'[k] = lapsed[k]
        /\ DOMAIN offset'[i] = {}
    BY <1>t, <1>14 DEF Crash
  <2> SUFFICES ASSUME NEW k \in Instances, NEW m \in DOMAIN offset'[k] \ lapsed'[k]
               PROVE  offset'[k][m] <= Len(LogOf(m))
    BY <2>1 DEF LengthInv
  <2> QED BY <2>2 DEF LengthInv
<1>15. ASSUME NEW i \in Instances, Boot(i) PROVE LengthInv'
  <2>1. \A m : LogOf(m)' = LogOf(m)
    BY <1>15 DEF Boot, LogOf
  <2>2. UNCHANGED <<offset, lapsed>>
    BY <1>15 DEF Boot
  <2> QED BY <1>l, <1>s, <2>1, <2>2
<1>17. ASSUME NEW i \in Instances, BootSibling(i) \/ Ask(i) \/ Poll(i) PROVE LengthInv'
  <2>1. UNCHANGED <<log, lapsed>> /\ \E J : offset' = WithReaders(i, J)
    BY <1>17 DEF BootSibling, Ask, Poll
  <2> QED BY <1>6, <2>1
<1>18. ASSUME NEW i \in Instances,
              \/ Shorten(i) \/ Update(i) \/ Remove(i) \/ Resolve(i) \/ ApplyLine(i)
              \/ (\E c \in Codes : Answer(i, c)) \/ Tick(i) \/ BootList(i) \/ BootDone(i)
       PROVE  LengthInv'
  <2>1. UNCHANGED <<offset, lapsed, log>>
    BY <1>18 DEF Shorten, Update, Remove, Write, Resolve, ApplyLine, Answer, Tick, BootList,
                 BootDone
  <2> QED BY <1>u, <2>1
<1>19. CASE UNCHANGED vars
  BY <1>u, <1>19 DEF vars
<1> QED
  BY <1>4, <1>8, <1>13, <1>14, <1>15, <1>17, <1>18, <1>19 DEF Next

LEMMA TypesHold == Spec => [](TypeInv /\ StageInv /\ LengthInv)
<1>1. Init => TypeInv /\ StageInv /\ LengthInv
  BY InitType, InitStage
<1>2. TypeInv /\ StageInv /\ LengthInv /\ [Next]_vars => (TypeInv /\ StageInv /\ LengthInv)'
  BY NextType, NextStage, NextLength
<1> QED BY <1>1, <1>2, PTL DEF Spec

(* The variables of all instances keep their types, whoever crashes, and   *)
(* an instance reads only logs that it has a reader for, never its own.    *)
THEOREM TailTypes == Spec => []TypeOK
<1>1. TypeInv => TypeOK
  BY DEF TypeInv
<1> QED BY <1>1, TypesHold, PTL

-----------------------------------------------------------------------------
(* Who wrote what.                                                         *)

LEMMA WroteMore ==
    ASSUME NEW g, NEW h, NEW j, NEW s \in Seq(Lines), WroteAll(g, j, s),
           \A c \in Codes : g[c] \subseteq h[c]
    PROVE  WroteAll(h, j, s)
<1> SUFFICES ASSUME NEW k \in 1..Len(s), s[k].k \in {"row", "del"}
             PROVE  Wrote(h, j, s[k])
  BY DEF WroteAll, Wrote
<1>1. s[k] \in Lines
  OBVIOUS
<1>2. s[k].c \in Codes
  BY <1>1 DEF Lines, RowLines, DelLines, HitLines, JunkLine
<1>3. Wrote(g, j, s[k])
  BY DEF WroteAll
<1> QED BY <1>2, <1>3 DEF Wrote

LEMMA WroteConcat ==
    ASSUME NEW g, NEW j, NEW s \in Seq(Lines), NEW t \in Seq(Lines),
           WroteAll(g, j, s), WroteAll(g, j, t)
    PROVE  WroteAll(g, j, s \o t)
<1> SUFFICES ASSUME NEW k \in 1..Len(s \o t) PROVE Wrote(g, j, (s \o t)[k])
  BY DEF WroteAll
<1>1. CASE k \in 1..Len(s)
  <2>1. (s \o t)[k] = s[k]
    BY <1>1
  <2> QED BY <1>1, <2>1 DEF WroteAll
<1>2. CASE k \notin 1..Len(s)
  <2>1. k - Len(s) \in 1..Len(t) /\ (s \o t)[k] = t[k - Len(s)]
    BY <1>2
  <2> QED BY <2>1 DEF WroteAll
<1> QED BY <1>1, <1>2

LEMMA WroteAppend ==
    ASSUME NEW g, NEW j, NEW s \in Seq(Lines), NEW l \in Lines,
           WroteAll(g, j, s), Wrote(g, j, l)
    PROVE  WroteAll(g, j, Append(s, l))
BY DEF WroteAll

LEMMA WroteHits ==
    ASSUME NEW g, NEW j, NEW s \in Seq(HitLines)
    PROVE  WroteAll(g, j, s)
<1> SUFFICES ASSUME NEW k \in 1..Len(s) PROVE Wrote(g, j, s[k])
  BY DEF WroteAll
<1>1. s[k] \in HitLines
  OBVIOUS
<1> QED BY <1>1 DEF HitLines, Wrote

LEMMA WrotePart ==
    ASSUME NEW g, NEW j, NEW s \in Seq(Lines), WroteAll(g, j, s), NEW n \in Nat
    PROVE  WroteAll(g, j, SubSeq(s, n + 1, Len(s)))
<1> DEFINE t == SubSeq(s, n + 1, Len(s))
<1> SUFFICES ASSUME NEW k \in 1..Len(t) PROVE Wrote(g, j, t[k])
  BY DEF WroteAll
<1>1. n + k \in 1..Len(s) /\ t[k] = s[n + k]
  OBVIOUS
<1> HIDE DEF t
<1> QED BY <1>1 DEF WroteAll

LEMMA WroteTail ==
    ASSUME NEW g, NEW j, NEW s \in Seq(Lines), s # <<>>, WroteAll(g, j, s)
    PROVE  Wrote(g, j, Head(s)) /\ WroteAll(g, j, Tail(s))
<1>1. Head(s) = s[1] /\ 1 \in 1..Len(s)
  OBVIOUS
<1>2. ASSUME NEW k \in 1..Len(Tail(s)) PROVE Wrote(g, j, Tail(s)[k])
  <2>1. k + 1 \in 1..Len(s) /\ Tail(s)[k] = s[k + 1]
    OBVIOUS
  <2> QED BY <2>1 DEF WroteAll
<1> QED BY <1>1, <1>2 DEF WroteAll

LEMMA WroteNothing == \A g, j : WroteAll(g, j, <<>>)
BY DEF WroteAll

Step(i) ==
    \/ Shorten(i) \/ Update(i) \/ Remove(i) \/ Flush(i)
    \/ Resolve(i) \/ Ask(i) \/ Poll(i) \/ ReadNew(i) \/ ApplyLine(i)
    \/ \E c \in Codes : Answer(i, c)
    \/ Tick(i)
    \/ CompactSnap(i) \/ CompactTrunc(i)
    \/ Crash(i) \/ Boot(i) \/ BootList(i) \/ BootSibling(i) \/ BootDone(i)

LEMMA NextSteps == ASSUME [Next]_vars PROVE (\E i \in Instances : Step(i)) \/ UNCHANGED vars
BY DEF Next, Step

(* Only a shorten grants a code.                                           *)
LEMMA GrantedKept ==
    ASSUME [Next]_vars, ~\E i \in Instances : Shorten(i)
    PROVE  UNCHANGED granted
<1> USE DEF history
<1>1. CASE UNCHANGED vars
  BY <1>1 DEF vars
<1>2. ASSUME NEW i \in Instances, Step(i) PROVE UNCHANGED granted
  <2>1. CASE Update(i) \/ Remove(i) \/ Flush(i) \/ Resolve(i)
    BY <2>1 DEF Update, Remove, Flush, Resolve
  <2>2. CASE Ask(i) \/ Poll(i) \/ ReadNew(i)
    BY <2>2 DEF Ask, Poll, ReadNew
  <2>3. CASE ApplyLine(i) \/ (\E c \in Codes : Answer(i, c)) \/ Tick(i)
    BY <2>3 DEF ApplyLine, Answer, Tick
  <2>4. CASE CompactSnap(i) \/ CompactTrunc(i) \/ Crash(i)
    BY <2>4 DEF CompactSnap, CompactTrunc, Crash
  <2>5. CASE Boot(i) \/ BootList(i) \/ BootSibling(i) \/ BootDone(i)
    BY <2>5 DEF Boot, BootList, BootSibling, BootDone
  <2> QED BY <1>2, <2>1, <2>2, <2>3, <2>4, <2>5 DEF Step
<1> QED BY <1>1, <1>2, NextSteps

(* A code once created is never forgotten to have been.                    *)
LEMMA GrantsGrow ==
    ASSUME TypeInv, [Next]_vars
    PROVE  /\ \A c \in Codes : granted[c] \subseteq granted'[c]
           /\ \A j, c : c \in Sole(j)' => c \in Sole(j)
<1>1. \A c \in Codes : granted[c] \subseteq granted'[c]
  <2>1. ASSUME NEW i \in Instances, Shorten(i) PROVE \A c \in Codes : granted[c] \subseteq granted'[c]
    BY <2>1 DEF Shorten, TypeInv, TypeOK
  <2>2. CASE ~\E i \in Instances : Shorten(i)
    <3>1. UNCHANGED granted
      BY <2>2, GrantedKept
    <3> QED BY <3>1
  <2> QED BY <2>1, <2>2
<1> QED BY <1>1 DEF Sole

LEMMA NextLines ==
    ASSUME TypeInv, StageInv, LinesInv, HadInv, [Next]_vars
    PROVE  LinesInv'
<1> USE DEF history, tail, files
<1>t. /\ buf \in [Instances -> Seq(Lines)] /\ inbox \in [Instances -> Seq(Lines)]
      /\ source \in [Instances -> Nat] /\ \A j \in DOMAIN log : log[j] \in Seq(Lines)
      /\ snap \in [Instances -> [Codes -> RowLines \cup {None}]]
      /\ DOMAIN log \subseteq Instances /\ granted \in [Codes -> SUBSET Instances]
      /\ Instances \subseteq Nat
  BY TailAssumption DEF TypeInv, TypeOK
<1>g. \A c \in Codes : granted[c] \subseteq granted'[c]
  BY GrantsGrow
<1>L. \A j \in DOMAIN log : WroteAll(granted', j, log[j])
  <2>1. \A j \in DOMAIN log : WroteAll(granted, j, log[j])
    BY DEF LinesInv
  <2> QED BY <1>t, <1>g, <2>1, WroteMore
<1>B. \A i \in Instances : WroteAll(granted', i, buf[i])
  <2>1. \A i \in Instances : WroteAll(granted, i, buf[i])
    BY DEF LinesInv
  <2> QED BY <1>t, <1>g, <2>1, WroteMore
<1>X. \A i \in Instances : WroteAll(granted', source[i], inbox[i])
  <2>1. \A i \in Instances : WroteAll(granted, source[i], inbox[i])
    BY DEF LinesInv
  <2> QED BY <1>t, <1>g, <2>1, WroteMore
<1>S. \A i \in Instances, c \in Codes :
         snap[i][c] # None => Wrote(granted', i, snap[i][c]) /\ snap[i][c].c = c
  <2> SUFFICES ASSUME NEW i \in Instances, NEW c \in Codes, snap[i][c] # None
               PROVE  Wrote(granted', i, snap[i][c]) /\ snap[i][c].c = c
    OBVIOUS
  <2>1. Wrote(granted, i, snap[i][c]) /\ snap[i][c].c = c
    BY DEF LinesInv
  <2> QED BY <1>g, <2>1 DEF Wrote
<1>1. ASSUME NEW i \in Instances, NEW c \in Codes, NEW x, NEW l \in Lines, Write(i, c, x, l),
             Wrote(granted', i, l)
      PROVE  LinesInv'
  <2>1. WroteAll(granted', i, Append(buf[i], l))
    BY <1>t, <1>B, <1>1, WroteAppend
  <2>2. \A k \in Instances : WroteAll(granted', k, buf'[k])
    BY <1>t, <1>B, <1>1, <2>1 DEF Write
  <2>3. UNCHANGED <<log, source, inbox, snap>>
    BY <1>1 DEF Write
  <2> QED BY <1>L, <1>X, <1>S, <2>2, <2>3 DEF LinesInv
<1>2. ASSUME NEW i \in Instances, Shorten(i) PROVE LinesInv'
  <2>1. PICK c \in Codes, u \in Urls :
           /\ Write(i, c, [u |-> u, e |-> 0, i |-> i, h |-> 0, oh |-> 0], RowLine(c, u, 0, i, 0))
           /\ granted' = [granted EXCEPT ![c] = @ \cup {i}]
    BY <1>2, TailAssumption DEF Shorten, Generated
  <2>2. RowLine(c, u, 0, i, 0) \in Lines /\ Wrote(granted', i, RowLine(c, u, 0, i, 0))
    BY <1>t, <2>1, LineTypes DEF Lines, AllUrls, Wrote, RowLine
  <2> QED BY <1>1, <2>1, <2>2
<1>3. ASSUME NEW i \in Instances, Update(i) \/ Remove(i) PROVE LinesInv'
  <2>1. PICK c, u, x, l :
           /\ c \in Codes /\ u \in Urls
           /\ Mine(i, c) /\ Write(i, c, x, l) /\ (l = RowLine(c, u, 0, i, 0) \/ l = DelLine(c))
    <3>1. CASE Update(i)
      BY <3>1 DEF Update
    <3>2. CASE Remove(i)
      <4>1. PICK c \in Codes : Mine(i, c) /\ Write(i, c, None, DelLine(c))
        BY <3>2 DEF Remove
      <4>2. index[i][c].u \in Urls
        BY <4>1 DEF Mine, HadInv, Had
      <4> QED BY <4>1, <4>2
    <3> QED BY <1>3, <3>1, <3>2
  <2>2. i \in granted[c]
    BY <2>1 DEF Mine, HadInv, Had
  <2>3. l \in Lines /\ Wrote(granted', i, l)
    <3>1. RowLine(c, u, 0, i, 0) \in Lines /\ DelLine(c) \in Lines
      BY <1>t, <2>1, LineTypes DEF Lines, AllUrls
    <3>2. Wrote(granted', i, RowLine(c, u, 0, i, 0)) /\ Wrote(granted', i, DelLine(c))
      BY <1>g, <2>1, <2>2 DEF Wrote, RowLine, DelLine
    <3> QED BY <2>1, <3>1, <3>2
  <2> QED BY <1>1, <2>1, <2>3
<1>4. ASSUME NEW i \in Instances, NEW s \in Orders(Deltas(i)), FlushTo(i, s), up[i] = "up"
      PROVE  /\ \A j \in DOMAIN log' : WroteAll(granted', j, log'[j])
             /\ \A k \in Instances : WroteAll(granted', k, buf'[k])
  <2>1. /\ s \in Seq(HitLines) /\ s \in Seq(Lines) /\ i \in DOMAIN log
        /\ DOMAIN log' = DOMAIN log /\ log'[i] = (log[i] \o buf[i]) \o s
        /\ \A j \in DOMAIN log : j # i => log'[j] = log[j]
    <3>1. \A j \in DOMAIN log : j # i => log'[j] = log[j]
      BY <1>4 DEF FlushTo
    <3> QED BY <1>4, <3>1, FlushLog
  <2>2. WroteAll(granted', i, log[i] \o buf[i]) /\ log[i] \o buf[i] \in Seq(Lines)
    BY <1>t, <1>L, <1>B, <2>1, WroteConcat
  <2>3. WroteAll(granted', i, log'[i])
    BY <2>1, <2>2, WroteConcat, WroteHits
  <2>4. \A k \in Instances : WroteAll(granted', k, buf'[k])
    BY <1>t, <1>B, <1>4, WroteNothing DEF FlushTo
  <2> QED BY <1>L, <2>1, <2>3, <2>4
<1>5. ASSUME NEW i \in Instances, Flush(i) PROVE LinesInv'
  <2>1. PICK s \in Orders(Deltas(i)) : FlushTo(i, s)
    BY <1>5 DEF Flush
  <2>2. UNCHANGED <<source, inbox, snap>> /\ up[i] = "up"
    BY <1>5 DEF Flush
  <2> QED BY <1>4, <1>X, <1>S, <2>1, <2>2 DEF LinesInv
<1>6. ASSUME NEW i \in Instances, ReadNew(i) PROVE LinesInv'
  <2>1. PICK j \in reading[i], n \in Nat : Reads(i, j, n) /\ LogOf(j) \in Seq(Lines)
    BY <1>6, ReadStep
  <2>2. WroteAll(granted', j, LogOf(j))
    BY <1>L, WroteNothing DEF LogOf
  <2>3. WroteAll(granted', j, SubSeq(LogOf(j), n + 1, Len(LogOf(j))))
    BY <2>1, <2>2, WrotePart
  <2>4. /\ inbox'[i] = SubSeq(LogOf(j), n + 1, Len(LogOf(j))) /\ source'[i] = j
        /\ \A k \in Instances \ {i} : source'[k] = source[k] /\ inbox'[k] = inbox[k]
    BY <1>t, <2>1 DEF Reads
  <2>5. \A k \in Instances : WroteAll(granted', source'[k], inbox'[k])
    BY <1>X, <2>3, <2>4
  <2>6. UNCHANGED <<log, buf, snap>>
    BY <1>6 DEF ReadNew
  <2> QED BY <1>L, <1>B, <1>S, <2>5, <2>6 DEF LinesInv
<1>7. ASSUME NEW i \in Instances, ApplyLine(i) PROVE LinesInv'
  <2>1. inbox[i] \in Seq(Lines) /\ inbox[i] # <<>>
    BY <1>t, <1>7 DEF ApplyLine
  <2>2. WroteAll(granted', source[i], Tail(inbox[i]))
    BY <1>X, <2>1, WroteTail
  <2>3. UNCHANGED <<log, buf, snap, source>> /\ inbox' = [inbox EXCEPT ![i] = Tail(@)]
    BY <1>7 DEF ApplyLine
  <2>4. \A k \in Instances : WroteAll(granted', source'[k], inbox'[k])
    BY <1>t, <1>X, <2>2, <2>3
  <2> QED BY <1>L, <1>B, <1>S, <2>3, <2>4 DEF LinesInv
<1>8. ASSUME NEW i \in Instances, CompactSnap(i) PROVE LinesInv'
  <2>1. PICK s \in Orders(Deltas(i)) : FlushTo(i, s)
    BY <1>8 DEF CompactSnap
  <2>2. UNCHANGED <<source, inbox>> /\ up[i] = "up"
    BY <1>8 DEF CompactSnap
  <2>3. /\ snap'[i] = [c \in Codes |-> OwnRow(i, c)]
        /\ \A k \in Instances \ {i} : snap'[k] = snap[k]
    BY <1>t, <1>8 DEF CompactSnap
  <2>4. ASSUME NEW c \in Codes, snap'[i][c] # None
        PROVE  Wrote(granted', i, snap'[i][c]) /\ snap'[i][c].c = c
    <3>1. Mine(i, c) /\ snap'[i][c] = RowLine(c, index[i][c].u, 0, i, index[i][c].oh)
      BY <2>3, <2>4 DEF OwnRow
    <3>2. i \in granted[c] /\ index[i][c].u \in Urls
      BY <3>1 DEF Mine, HadInv, Had
    <3> QED BY <1>g, <3>1, <3>2 DEF Wrote, RowLine
  <2>5. \A k \in Instances, c \in Codes :
           snap'[k][c] # None => Wrote(granted', k, snap'[k][c]) /\ snap'[k][c].c = c
    BY <1>S, <2>3, <2>4
  <2> QED BY <1>4, <1>X, <2>1, <2>2, <2>5 DEF LinesInv
<1>9. ASSUME NEW i \in Instances, CompactTrunc(i) PROVE LinesInv'
  <2>1. /\ UNCHANGED <<source, inbox, snap, buf>> /\ DOMAIN log' = DOMAIN log
        /\ \A j \in DOMAIN log : log'[j] = IF j = i THEN <<>> ELSE log[j]
    BY <1>9 DEF CompactTrunc
  <2>2. \A j \in DOMAIN log' : WroteAll(granted', j, log'[j])
    BY <1>L, <2>1, WroteNothing
  <2> QED BY <1>B, <1>X, <1>S, <2>1, <2>2 DEF LinesInv
<1>10. ASSUME NEW i \in Instances, Crash(i) PROVE LinesInv'
  <2>1. /\ UNCHANGED <<log, snap, source>> /\ buf' = [buf EXCEPT ![i] = <<>>]
        /\ inbox' = [inbox EXCEPT ![i] = <<>>]
    BY <1>10 DEF Crash
  <2>2. \A k \in Instances : /\ WroteAll(granted', k, buf'[k])
                             /\ WroteAll(granted', source'[k], inbox'[k])
    BY <1>t, <1>B, <1>X, <2>1, WroteNothing
  <2> QED BY <1>L, <1>S, <2>1, <2>2 DEF LinesInv
<1>11. ASSUME NEW i \in Instances, Boot(i) PROVE LinesInv'
  <2>1. /\ UNCHANGED <<buf, snap>> /\ DOMAIN log' = DOMAIN log \cup {i}
        /\ \A j \in DOMAIN log' : log'[j] = IF j \in DOMAIN log THEN log[j] ELSE <<>>
        /\ inbox' = [inbox EXCEPT ![i] = log'[i]] /\ source' = [source EXCEPT ![i] = i]
    BY <1>11 DEF Boot
  <2>2. \A j \in DOMAIN log' : WroteAll(granted', j, log'[j])
    BY <1>L, <2>1, WroteNothing
  <2>3. WroteAll(granted', i, log'[i])
    BY <2>1, <2>2
  <2>4. \A k \in Instances : WroteAll(granted', source'[k], inbox'[k])
    BY <1>t, <1>X, <2>1, <2>3
  <2> QED BY <1>B, <1>S, <2>1, <2>2, <2>4 DEF LinesInv
<1>12. CASE UNCHANGED <<log, buf, source, inbox, snap>>
  BY <1>12, <1>L, <1>B, <1>X, <1>S DEF LinesInv
<1>13. ASSUME NEW i \in Instances,
              \/ Resolve(i) \/ Ask(i) \/ Poll(i) \/ (\E c \in Codes : Answer(i, c)) \/ Tick(i)
              \/ BootList(i) \/ BootSibling(i) \/ BootDone(i)
       PROVE  LinesInv'
  <2>1. UNCHANGED <<log, buf, source, inbox, snap>>
    BY <1>13 DEF Resolve, Ask, Poll, Answer, Tick, BootList, BootSibling, BootDone
  <2> QED BY <1>12, <2>1
<1>14. CASE UNCHANGED vars
  BY <1>12, <1>14 DEF vars
<1> QED
  BY <1>2, <1>3, <1>5, <1>6, <1>7, <1>8, <1>9, <1>10, <1>11, <1>13, <1>14 DEF Next

LEMMA NextHad ==
    ASSUME TypeInv, StageInv, LinesInv, HadInv, TypeInv', [Next]_vars
    PROVE  HadInv'
<1> USE DEF history, tail, files
<1>t. /\ up \in [Instances -> {"down", "own", "boot", "up"}]
      /\ index \in [Instances -> [Codes -> Entries \cup {None}]]
      /\ stray \in [Instances -> [Codes -> Strays]]
      /\ snap \in [Instances -> [Codes -> RowLines \cup {None}]]
      /\ inbox \in [Instances -> Seq(Lines)]
      /\ reading \in [Instances -> SUBSET Nat] /\ granted \in [Codes -> SUBSET Instances]
  BY DEF TypeInv, TypeOK
<1>g. \A c \in Codes : granted[c] \subseteq granted'[c]
  BY GrantsGrow
<1>h. ASSUME NEW k \in Instances, NEW c \in Codes, index'[k][c] # None,
             index[k][c] # None, index'[k][c].i = index[k][c].i,
             index'[k][c].u = index[k][c].u \/ index'[k][c].u \in Urls,
             index'[k][c].e = index[k][c].e,
             up'[k] = up[k] \/ up'[k] = "up",
             up[k] = "boot" => reading'[k] \subseteq reading[k]
      PROVE  Had(k, c)'
  <2>1. Had(k, c)
    BY DEF HadInv
  <2> QED BY <1>g, <1>h, <2>1 DEF Had
<1>k. ASSUME NEW k \in Instances, index'[k] = index[k],
             up'[k] = up[k] \/ up'[k] = "up", up[k] = "boot" => reading'[k] \subseteq reading[k]
      PROVE  \A c \in Codes : Had(k, c)'
  <2> SUFFICES ASSUME NEW c \in Codes PROVE Had(k, c)'
    OBVIOUS
  <2>1. CASE index[k][c] = None
    BY <1>k, <2>1 DEF Had
  <2>2. CASE index[k][c] # None
    BY <1>h, <1>k, <2>2
  <2> QED BY <2>1, <2>2
<1>1. ASSUME NEW i \in Instances, Shorten(i) PROVE HadInv'
  <2>1. PICK c \in Codes, u \in Urls :
           /\ Write(i, c, [u |-> u, e |-> 0, i |-> i, h |-> 0, oh |-> 0], RowLine(c, u, 0, i, 0))
           /\ granted' = [granted EXCEPT ![c] = @ \cup {i}]
    BY <1>1, TailAssumption DEF Shorten, Generated
  <2>2. /\ index'[i] = [index[i] EXCEPT ![c] = [u |-> u, e |-> 0, i |-> i, h |-> 0, oh |-> 0]]
        /\ \A k \in Instances \ {i} : index'[k] = index[k]
        /\ UNCHANGED <<up, reading>> /\ up[i] = "up" /\ i \in granted'[c]
    <3>1. up[i] = "up"
      BY <1>1 DEF Shorten, Serving
    <3>2. i \in granted'[c]
      BY <1>t, <2>1
    <3> QED BY <1>t, <2>1, <3>1, <3>2 DEF Write
  <2>3. ASSUME NEW d \in Codes PROVE Had(i, d)'
    <3>1. CASE d = c
      BY <1>t, <2>2, <3>1 DEF Had
    <3>2. CASE d # c
      <4>1. index'[i][d] = index[i][d]
        BY <1>t, <2>2, <3>2
      <4> QED BY <1>h, <2>2, <4>1 DEF Had
    <3> QED BY <3>1, <3>2
  <2> QED BY <1>k, <2>2, <2>3 DEF HadInv
<1>2. ASSUME NEW i \in Instances, Update(i) PROVE HadInv'
  <2>1. PICK c \in Codes, u \in Urls :
           /\ Mine(i, c)
           /\ Write(i, c, [index[i][c] EXCEPT !.u = u], RowLine(c, u, 0, i, 0))
    BY <1>2 DEF Update
  <2> DEFINE x == index[i][c]
             y == [x EXCEPT !.u = u]
  <2>2. x \in Entries /\ x # None
    BY <1>t, <2>1 DEF Mine
  <2>3. y.u = u /\ y.e = x.e /\ y.i = x.i
    BY <2>2 DEF Entries
  <2>4. /\ index'[i] = [index[i] EXCEPT ![c] = y]
        /\ \A k \in Instances \ {i} : index'[k] = index[k]
        /\ UNCHANGED <<up, reading>>
    BY <1>t, <1>2, <2>1 DEF Update, Serving, Write
  <2> HIDE DEF y
  <2>5. ASSUME NEW d \in Codes PROVE Had(i, d)'
    <3>1. CASE d = c
      <4>1. index'[i][d] = y
        BY <1>t, <2>4, <3>1
      <4> QED BY <1>h, <2>2, <2>3, <2>4, <3>1, <4>1 DEF Had
    <3>2. CASE d # c
      <4>1. index'[i][d] = index[i][d]
        BY <1>t, <2>4, <3>2
      <4> QED BY <1>h, <2>4, <4>1 DEF Had
    <3> QED BY <3>1, <3>2
  <2> QED BY <1>k, <2>4, <2>5 DEF HadInv
<1>3. ASSUME NEW i \in Instances, Remove(i) PROVE HadInv'
  <2>1. PICK c \in Codes : Write(i, c, None, DelLine(c))
    BY <1>3 DEF Remove
  <2>4. /\ index'[i] = [index[i] EXCEPT ![c] = None]
        /\ \A k \in Instances \ {i} : index'[k] = index[k]
        /\ UNCHANGED <<up, reading>>
    BY <1>t, <2>1 DEF Write
  <2>5. ASSUME NEW d \in Codes PROVE Had(i, d)'
    <3>1. CASE d = c
      BY <1>t, <2>4, <3>1 DEF Had
    <3>2. CASE d # c
      <4>1. index'[i][d] = index[i][d]
        BY <1>t, <2>4, <3>2
      <4> QED BY <1>h, <2>4, <4>1 DEF Had
    <3> QED BY <3>1, <3>2
  <2> QED BY <1>k, <2>4, <2>5 DEF HadInv
<1>4. ASSUME NEW i \in Instances, NEW c \in Codes, index[i][c] # None, CountHit(i, c),
             UNCHANGED <<up, reading>>
      PROVE  HadInv'
  <2>1. /\ index' = [index EXCEPT ![i] = index'[i]]
        /\ \A d \in Codes : d # c => index'[i][d] = index[i][d]
        /\ index'[i][c] \in Entries /\ index'[i][c].i = index[i][c].i
        /\ index'[i][c].u = index[i][c].u /\ index'[i][c].e = index[i][c].e
    BY <1>4, CountType
  <2>2. \A k \in Instances \ {i} : index'[k] = index[k]
    BY <1>t, <2>1
  <2>3. ASSUME NEW d \in Codes PROVE Had(i, d)'
    <3>1. CASE d = c
      BY <1>h, <1>4, <2>1, <3>1 DEF Had
    <3>2. CASE d # c
      BY <1>h, <1>4, <2>1, <3>2 DEF Had
    <3> QED BY <3>1, <3>2
  <2> QED BY <1>k, <1>4, <2>2, <2>3 DEF HadInv
<1>5. CASE UNCHANGED <<up, index>> /\ \A k \in Instances : up[k] = "boot" => reading'[k] \subseteq reading[k]
  BY <1>5, <1>k DEF HadInv
<1>6. ASSUME NEW i \in Instances, Resolve(i) \/ \E c \in Codes : Answer(i, c) PROVE HadInv'
  <2>1. CASE Resolve(i)
    BY <1>4, <2>1 DEF Resolve
  <2>2. ASSUME NEW c \in Codes, Answer(i, c) PROVE HadInv'
    BY <1>4, <1>5, <2>2 DEF Answer
  <2> QED BY <1>6, <2>1, <2>2
<1>7. ASSUME NEW i \in Instances, ApplyLine(i) PROVE HadInv'
  <2> DEFINE l == Head(inbox[i])
  <2>1. PICK st \in Apply([index |-> index[i], stray |-> stray[i]], l, i) :
           index' = [index EXCEPT ![i] = st.index]
    BY <1>7 DEF ApplyLine
  <2>2. UNCHANGED <<up, reading, granted>> /\ up[i] \in {"own", "up"}
    BY <1>7 DEF ApplyLine
  <2>3. inbox[i] \in Seq(Lines) /\ inbox[i] # <<>>
    BY <1>t, <1>7 DEF ApplyLine
  <2>4. l \in Lines /\ Wrote(granted, source[i], l)
    <3>1. WroteAll(granted, source[i], inbox[i])
      BY DEF LinesInv
    <3>2. Wrote(granted, source[i], Head(inbox[i]))
      BY <2>3, <3>1, WroteTail
    <3>3. Head(inbox[i]) \in Lines
      BY <2>3
    <3> QED BY <3>2, <3>3
  <2>5. index'[i] = st.index /\ \A k \in Instances \ {i} : index'[k] = index[k]
    BY <1>t, <2>1
  <2>6. ASSUME NEW c \in Codes PROVE Had(i, c)'
    <3>1. CASE index'[i][c] = None
      BY <3>1 DEF Had
    <3>2. CASE index'[i][c] # None
      <4> DEFINE z == index'[i][c]
      <4>1. \/ Sets(l, c) /\ l.k = "row" /\ z.u = l.u /\ z.e = l.e /\ z.i = l.i
            \/ /\ index[i][c] # None
               /\ z.u = index[i][c].u /\ z.e = index[i][c].e /\ z.i = index[i][c].i
        <5>1. st.index[c] # None /\ st.index[c] = z
          BY <2>5, <3>2
        <5>2. /\ index[i] \in [Codes -> Entries \cup {None}] /\ stray[i] \in [Codes -> Strays]
              /\ st \in Apply([index |-> index[i], stray |-> stray[i]], l, i) /\ l \in Lines
          BY <1>t, <2>1, <2>4
        <5> HIDE DEF l, z
        <5> QED BY <5>1, <5>2, ApplyEntry
      <4>2. CASE Sets(l, c) /\ l.k = "row" /\ z.u = l.u /\ z.e = l.e /\ z.i = l.i
        <5>1. source[i] \in granted[c] /\ l.u \in Urls /\ l.e = 0 /\ l.i = source[i]
          BY <2>4, <4>2 DEF Wrote, Sets
        <5>2. up[i] = "own" => source[i] = i
          BY DEF StageInv, Stage
        <5> QED BY <2>2, <4>2, <5>1, <5>2 DEF Had
      <4>3. CASE /\ index[i][c] # None
                 /\ z.u = index[i][c].u /\ z.e = index[i][c].e /\ z.i = index[i][c].i
        BY <1>h, <2>2, <3>2, <4>3
      <4> QED BY <4>1, <4>2, <4>3
    <3> QED BY <3>1, <3>2
  <2> QED BY <1>k, <2>2, <2>5, <2>6 DEF HadInv
<1>8. ASSUME NEW i \in Instances, Crash(i) PROVE HadInv'
  <2>1. /\ \A k \in Instances \ {i} : UNCHANGED <<index[k], up[k], reading[k]>>
        /\ index'[i] = Nothing
    BY <1>t, <1>8 DEF Crash
  <2>2. \A c \in Codes : Had(i, c)'
    BY <2>1 DEF Had, Nothing
  <2> QED BY <1>k, <2>1, <2>2 DEF HadInv
<1>9. ASSUME NEW j \in Instances, NEW c \in Codes, snap[j][c] # None, NEW y
      PROVE  /\ RowEntry(snap[j][c], y).i = j /\ j \in granted[c]
             /\ RowEntry(snap[j][c], y).u \in Urls /\ RowEntry(snap[j][c], y).e = 0
  <2>1. Wrote(granted, j, snap[j][c]) /\ snap[j][c].c = c /\ snap[j][c] \in RowLines
    BY <1>t, <1>9 DEF LinesInv
  <2>2. snap[j][c].k = "row"
    BY <2>1 DEF RowLines
  <2> QED BY <2>1, <2>2 DEF Wrote, RowEntry
<1>10. ASSUME NEW i \in Instances, Boot(i) PROVE HadInv'
  <2>1. /\ \A k \in Instances \ {i} : UNCHANGED <<index[k], up[k]>>
        /\ UNCHANGED <<reading, granted>> /\ up'[i] = "own"
        /\ index'[i] = [c \in Codes |-> IF snap[i][c] = None THEN None
                                        ELSE RowEntry(snap[i][c], NoStray)]
    BY <1>t, <1>10 DEF Boot
  <2>2. ASSUME NEW c \in Codes, index'[i][c] # None PROVE Had(i, c)'
    <3>1. snap[i][c] # None /\ index'[i][c] = RowEntry(snap[i][c], NoStray)
      BY <2>1, <2>2
    <3> QED BY <1>9, <2>1, <3>1 DEF Had
  <2>3. \A c \in Codes : Had(i, c)'
    BY <2>2 DEF Had
  <2> QED BY <1>k, <2>1, <2>3 DEF HadInv
<1>11. ASSUME NEW i \in Instances, BootList(i) PROVE HadInv'
  <2>1. /\ \A k \in Instances \ {i} : UNCHANGED <<up[k], reading[k]>>
        /\ UNCHANGED <<index, granted>> /\ up[i] = "own" /\ up'[i] = "boot"
        /\ reading'[i] = Siblings(i)
    BY <1>t, <1>11 DEF BootList
  <2>2. ASSUME NEW c \in Codes, index[i][c] # None PROVE Had(i, c)'
    <3>1. Had(i, c) /\ index[i][c].i = i
      BY <2>1, <2>2 DEF HadInv, Had
    <3> QED BY <2>1, <3>1 DEF Had, Siblings
  <2>3. \A c \in Codes : Had(i, c)'
    BY <2>1, <2>2 DEF Had
  <2> QED BY <1>k, <2>1, <2>3 DEF HadInv
<1>12. ASSUME NEW i \in Instances, BootSibling(i) PROVE HadInv'
  <2>1. PICK j \in reading[i] :
          /\ index' = [index EXCEPT ![i] =
                          [c \in Codes |-> IF snap[j][c] = None THEN index[i][c]
                                           ELSE RowEntry(snap[j][c], stray[i][c])]]
          /\ reading' = [reading EXCEPT ![i] = @ \ {j}]
    BY <1>12 DEF BootSibling
  <2>2. /\ \A k \in Instances \ {i} : UNCHANGED <<index[k], reading[k]>>
        /\ UNCHANGED <<up, granted>> /\ up[i] = "boot" /\ reading'[i] = reading[i] \ {j}
        /\ index'[i] = [c \in Codes |-> IF snap[j][c] = None THEN index[i][c]
                                        ELSE RowEntry(snap[j][c], stray[i][c])]
    BY <1>t, <1>12, <2>1 DEF BootSibling
  <2>3. j \in Instances
    BY <2>2 DEF StageInv, Stage, TypeInv, TypeOK
  <2>4. ASSUME NEW c \in Codes, index'[i][c] # None PROVE Had(i, c)'
    <3>1. CASE snap[j][c] = None
      <4>1. index'[i][c] = index[i][c]
        BY <2>2, <3>1
      <4> QED BY <1>h, <2>2, <2>4, <4>1
    <3>2. CASE snap[j][c] # None
      <4>1. index'[i][c] = RowEntry(snap[j][c], stray[i][c])
        BY <2>2, <3>2
      <4> QED BY <1>9, <2>2, <2>3, <3>2, <4>1 DEF Had
    <3> QED BY <3>1, <3>2
  <2>5. \A c \in Codes : Had(i, c)'
    BY <2>4 DEF Had
  <2> QED BY <1>k, <2>2, <2>5 DEF HadInv
<1>13. ASSUME NEW i \in Instances, BootDone(i) PROVE HadInv'
  <2>1. UNCHANGED <<index, reading>> /\ \A k \in Instances : up'[k] = up[k] \/ up'[k] = "up"
    BY <1>t, <1>13 DEF BootDone
  <2> QED BY <1>k, <2>1 DEF HadInv
<1>14. ASSUME NEW i \in Instances, Ask(i) \/ Poll(i) \/ ReadNew(i) PROVE HadInv'
  <2>1. /\ UNCHANGED <<up, index>> /\ up[i] = "up"
        /\ \A k \in Instances \ {i} : reading'[k] = reading[k]
    BY <1>t, <1>14 DEF Ask, Poll, ReadNew
  <2> QED BY <1>5, <2>1
<1>15. ASSUME NEW i \in Instances, Flush(i) \/ Tick(i) \/ CompactSnap(i) \/ CompactTrunc(i)
       PROVE  HadInv'
  <2>1. UNCHANGED <<up, index, reading>>
    BY <1>15 DEF Flush, Tick, CompactSnap, CompactTrunc
  <2> QED BY <1>5, <2>1
<1>16. CASE UNCHANGED vars
  BY <1>5, <1>16 DEF vars
<1> QED
  BY <1>1, <1>2, <1>3, <1>6, <1>7, <1>8, <1>10, <1>11, <1>12, <1>13, <1>14, <1>15, <1>16 DEF Next

-----------------------------------------------------------------------------
(* A step is one instance's, and leaves the others' state alone.           *)

Same(j) ==
    UNCHANGED <<up[j], index[j], stray[j], buf[j], cpc[j], offset[j], reading[j], inbox[j],
                source[j], asking[j], LogOf(j), snap[j]>>

LEMMA Others ==
    ASSUME TypeInv, StageInv, NEW i \in Instances, Step(i), NEW j \in Instances, j # i
    PROVE  Same(j)
<1> USE DEF history, tail, files
<1>t. /\ up \in [Instances -> {"down", "own", "boot", "up"}]
      /\ index \in [Instances -> [Codes -> Entries \cup {None}]]
      /\ stray \in [Instances -> [Codes -> Strays]]
      /\ buf \in [Instances -> Seq(Lines)] /\ cpc \in [Instances -> {"idle", "trunc"}]
      /\ inbox \in [Instances -> Seq(Lines)] /\ asking \in [Instances -> Codes \cup {None}]
      /\ snap \in [Instances -> [Codes -> RowLines \cup {None}]]
      /\ reading \in [Instances -> SUBSET Nat] /\ source \in [Instances -> Nat]
      /\ offset = [k \in Instances |-> offset[k]] /\ DOMAIN offset = Instances
  BY DEF TypeInv, TypeOK
<1>l. UNCHANGED log => LogOf(j)' = LogOf(j)
  BY DEF LogOf
<1>1. CASE Shorten(i) \/ Update(i) \/ Remove(i)
  <2>1. PICK c, x, l : Write(i, c, x, l)
    BY <1>1 DEF Shorten, Update, Remove
  <2> QED BY <1>t, <1>l, <2>1 DEF Write, Same
<1>2. CASE Flush(i) \/ CompactSnap(i)
  <2>1. PICK s \in Orders(Deltas(i)) : FlushTo(i, s)
    BY <1>2 DEF Flush, CompactSnap
  <2>2. LogOf(j)' = LogOf(j) /\ buf'[j] = buf[j]
    <3>1. up[i] = "up"
      BY <1>2 DEF Flush, CompactSnap
    <3>2. LogOf(j)' = LogOf(j)
      BY <2>1, <3>1, FlushLog
    <3> QED BY <1>t, <2>1, <3>2 DEF FlushTo
  <2>3. snap'[j] = snap[j] /\ cpc'[j] = cpc[j]
        /\ UNCHANGED <<up, index, stray, offset, reading, inbox, source, asking>>
    BY <1>t, <1>2 DEF Flush, CompactSnap
  <2> QED BY <2>2, <2>3 DEF Same
<1>3. CASE Resolve(i) \/ \E c \in Codes : Answer(i, c)
  <2>1. /\ UNCHANGED <<up, stray, buf, cpc, offset, reading, inbox, source, log, snap>>
        /\ asking'[j] = asking[j]
    BY <1>t, <1>3 DEF Resolve, Answer
  <2>2. index'[j] = index[j]
    <3>1. UNCHANGED index \/ \E c \in Codes : CountHit(i, c)
      BY <1>3 DEF Resolve, Answer
    <3>2. ASSUME NEW c \in Codes, CountHit(i, c) PROVE index'[j] = index[j]
      BY <1>t, <3>2 DEF CountHit
    <3> QED BY <3>1, <3>2
  <2> QED BY <1>l, <2>1, <2>2 DEF Same
<1>4. CASE Ask(i) \/ Poll(i)
  <2>1. /\ UNCHANGED <<up, index, stray, buf, cpc, inbox, source, log, snap>>
        /\ asking'[j] = asking[j] /\ reading'[j] = reading[j] /\ offset'[j] = offset[j]
    BY <1>t, <1>4 DEF Ask, Poll, WithReaders
  <2> QED BY <1>l, <2>1 DEF Same
<1>5. CASE ReadNew(i)
  <2>1. PICK m \in reading[i], n \in Nat : Reads(i, m, n)
    BY <1>5, ReadStep
  <2>2. UNCHANGED <<up, index, stray, buf, cpc, asking, log, snap>>
    BY <1>5 DEF ReadNew
  <2> QED BY <1>t, <1>l, <2>1, <2>2 DEF Reads, Same
<1>6. CASE ApplyLine(i)
  BY <1>t, <1>l, <1>6 DEF ApplyLine, Same
<1>7. CASE Tick(i)
  BY <1>l, <1>7 DEF Tick, Same
<1>8. CASE CompactTrunc(i)
  <2>1. LogOf(j)' = LogOf(j)
    BY <1>8 DEF CompactTrunc, LogOf
  <2> QED BY <1>t, <1>8, <2>1 DEF CompactTrunc, Same
<1>9. CASE Crash(i)
  BY <1>t, <1>l, <1>9 DEF Crash, Same
<1>10. CASE Boot(i)
  <2>1. LogOf(j)' = LogOf(j)
    BY <1>10 DEF Boot, LogOf
  <2> QED BY <1>t, <1>10, <2>1 DEF Boot, Same
<1>11. CASE BootList(i) \/ BootDone(i)
  BY <1>t, <1>l, <1>11 DEF BootList, BootDone, Same
<1>12. CASE BootSibling(i)
  <2>1. /\ UNCHANGED <<up, buf, cpc, inbox, source, asking, log, snap>>
        /\ index'[j] = index[j] /\ stray'[j] = stray[j] /\ reading'[j] = reading[j]
        /\ offset'[j] = offset[j]
    BY <1>t, <1>12 DEF BootSibling, WithReaders
  <2> QED BY <1>l, <2>1 DEF Same
<1> QED
  BY <1>1, <1>2, <1>3, <1>4, <1>5, <1>6, <1>7, <1>8, <1>9, <1>10, <1>11, <1>12 DEF Step

-----------------------------------------------------------------------------
(* Of a code that one instance alone has created, the others' files and    *)
(* lines say nothing.                                                      *)

LEMMA Foreign ==
    ASSUME NEW j, NEW c \in Sole(j), NEW k, k # j, NEW s, WroteAll(granted, k, s)
    PROVE  ~Touches(s, c)
BY DEF Touches, Sets, WroteAll, Wrote, Sole

LEMMA SnapForeign ==
    ASSUME TypeInv, LinesInv, NEW j, NEW c \in Sole(j), NEW k \in Instances, k # j
    PROVE  snap[k][c] = None
<1>1. c \in Codes
  BY DEF Sole
<1> SUFFICES ASSUME snap[k][c] # None PROVE FALSE
  OBVIOUS
<1>2. Wrote(granted, k, snap[k][c]) /\ snap[k][c].c = c /\ snap[k][c] \in RowLines
  BY <1>1 DEF LinesInv, TypeInv, TypeOK
<1>3. k \in granted[c]
  BY <1>2 DEF Wrote, RowLines
<1> QED BY <1>3 DEF Sole

LEMMA RowValue ==
    ASSUME NEW l \in RowLines, NEW y \in Strays
    PROVE  /\ Value(l) = <<l.u, l.e>>
           /\ Value(RowEntry(l, y)) = <<l.u, l.e>>
<1>1. l # None
  BY NoneAssumption DEF Lines
<1>2. RowEntry(l, y) \in Entries /\ RowEntry(l, y).u = l.u /\ RowEntry(l, y).e = l.e
  BY DEF RowEntry, RowLines, Strays, Entries
<1>3. RowEntry(l, y) # None
  BY <1>2, NoneAssumption
<1> QED BY <1>1, <1>2, <1>3 DEF Value

(* The snapshot an instance writes says of such a code what its index says.*)
LEMMA OwnValue ==
    ASSUME TypeInv, HadInv, NEW j \in Instances, NEW c \in Sole(j)
    PROVE  Value(OwnRow(j, c)) = Value(index[j][c])
<1>0. c \in Codes /\ index[j][c] \in Entries \cup {None}
  BY DEF Sole, TypeInv, TypeOK
<1>1. CASE index[j][c] = None
  BY <1>1 DEF OwnRow, Mine
<1>2. CASE index[j][c] # None
  <2>1. index[j][c].i \in granted[c] /\ index[j][c].e = 0
    BY <1>0, <1>2 DEF HadInv, Had
  <2>2. Mine(j, c)
    BY <1>2, <2>1 DEF Mine, Sole
  <2>3. index[j][c].u \in AllUrls /\ index[j][c].oh \in Nat /\ j \in Nat
    BY <1>0, <1>2, TailAssumption DEF Entries
  <2>4. OwnRow(j, c) = RowLine(c, index[j][c].u, 0, j, index[j][c].oh)
    BY <2>2 DEF OwnRow
  <2>5. OwnRow(j, c) \in RowLines
    BY <1>0, <2>3, <2>4, LineTypes
  <2>6. OwnRow(j, c) # None
    BY <2>5, NoneAssumption DEF Lines
  <2> QED BY <1>2, <2>1, <2>4, <2>6 DEF Value, RowLine
<1> QED BY <1>1, <1>2

LEMMA HitsTouchNothing == ASSUME NEW s \in Seq(HitLines), NEW c PROVE ~Touches(s, c)
<1> SUFFICES ASSUME NEW k \in 1..Len(s), Sets(s[k], c) PROVE FALSE
  BY DEF Touches
<1>1. s[k] \in HitLines
  OBVIOUS
<1> QED BY <1>1 DEF HitLines, Sets

LEMMA ConcatNothing == ASSUME NEW s \in Seq(Lines) PROVE s \o <<>> = s
OBVIOUS

(* What a mutation queues is what it does to the index.                    *)
LEMMA WriteValue ==
    ASSUME TypeInv, HadInv, NEW i \in Instances, Shorten(i) \/ Update(i) \/ Remove(i)
    PROVE  \E d \in Codes, x \in Entries \cup {None}, l \in Lines :
              /\ Write(i, d, x, l) /\ l.k \in {"row", "del"} /\ l.c = d
              /\ LineValue(l) = Value(x)
<1>a. i \in Nat
  BY TailAssumption
<1>1. CASE Shorten(i)
  <2>1. PICK d \in Codes, u \in Urls :
           Write(i, d, [u |-> u, e |-> 0, i |-> i, h |-> 0, oh |-> 0], RowLine(d, u, 0, i, 0))
    BY <1>1, TailAssumption DEF Shorten, Generated
  <2> DEFINE x == [u |-> u, e |-> 0, i |-> i, h |-> 0, oh |-> 0]
             l == RowLine(d, u, 0, i, 0)
  <2>2. x \in Entries /\ l \in Lines /\ x.u = u /\ x.e = 0
    BY <1>a, LineTypes DEF Entries, AllUrls, Lines
  <2>3. x # None
    BY <2>2, NoneAssumption
  <2>4. l.k = "row" /\ l.c = d /\ LineValue(l) = <<u, 0>>
    BY DEF RowLine, LineValue
  <2>5. Value(x) = <<u, 0>>
    BY <2>2, <2>3 DEF Value
  <2> HIDE DEF x, l
  <2> QED BY <2>1, <2>2, <2>4, <2>5 DEF x, l
<1>2. CASE Update(i)
  <2>1. PICK d \in Codes, u \in Urls :
           Mine(i, d) /\ Write(i, d, [index[i][d] EXCEPT !.u = u], RowLine(d, u, 0, i, 0))
    BY <1>2 DEF Update
  <2> DEFINE x == [index[i][d] EXCEPT !.u = u]
             l == RowLine(d, u, 0, i, 0)
  <2>2. index[i][d] \in Entries /\ index[i][d].e = 0
    BY <2>1 DEF Mine, HadInv, Had, TypeInv, TypeOK
  <2>3. x \in Entries /\ l \in Lines /\ x.u = u /\ x.e = 0
    BY <1>a, <2>2, LineTypes DEF Entries, AllUrls, Lines
  <2>4. x # None
    BY <2>3, NoneAssumption
  <2>5. l.k = "row" /\ l.c = d /\ LineValue(l) = <<u, 0>>
    BY DEF RowLine, LineValue
  <2>6. Value(x) = <<u, 0>>
    BY <2>3, <2>4 DEF Value
  <2> HIDE DEF x, l
  <2> QED BY <2>1, <2>3, <2>5, <2>6 DEF x, l
<1>3. CASE Remove(i)
  <2>1. PICK d \in Codes : Write(i, d, None, DelLine(d))
    BY <1>3 DEF Remove
  <2>2. /\ DelLine(d) \in Lines /\ DelLine(d).k = "del" /\ DelLine(d).c = d
        /\ LineValue(DelLine(d)) = None /\ Value(None) = None
    BY LineTypes DEF Lines, DelLine, LineValue, Value
  <2> QED BY <2>1, <2>2
<1> QED BY <1>1, <1>2, <1>3

(* A line that is not about a code leaves what the index says of it.       *)
LEMMA AppliedForeign ==
    ASSUME TypeInv, LinesInv, NEW i \in Instances, ApplyLine(i), NEW j, source[i] # j,
           NEW c \in Sole(j)
    PROVE  Value(index'[i][c]) = Value(index[i][c])
<1> DEFINE l == Head(inbox[i])
<1>1. PICK st \in Apply([index |-> index[i], stray |-> stray[i]], l, i) :
         index' = [index EXCEPT ![i] = st.index]
  BY DEF ApplyLine
<1>2. /\ index[i] \in [Codes -> Entries \cup {None}] /\ stray[i] \in [Codes -> Strays]
      /\ inbox[i] \in Seq(Lines) /\ inbox[i] # <<>> /\ c \in Codes
      /\ index'[i] = st.index
  BY <1>1 DEF ApplyLine, TypeInv, TypeOK, Sole
<1>3. l \in Lines /\ l = inbox[i][1] /\ 1 \in 1..Len(inbox[i])
  BY <1>2
<1>4. ~Touches(inbox[i], c)
  <2>1. WroteAll(granted, source[i], inbox[i])
    BY DEF LinesInv
  <2> QED BY <2>1, Foreign
<1>5. ~Sets(l, c)
  BY <1>3, <1>4 DEF Touches
<1>6. Value(st.index[c]) = IF Sets(l, c) THEN LineValue(l) ELSE Value(index[i][c])
  <2> HIDE DEF l
  <2> QED BY <1>1, <1>2, <1>3, ApplyValue
<1> QED BY <1>2, <1>5, <1>6

(* A counted hit is no change of what a client sees.                       *)
LEMMA CountedValue ==
    ASSUME TypeInv, NEW i \in Instances, Resolve(i) \/ (\E d \in Codes : Answer(i, d)),
           NEW c \in Codes
    PROVE  Value(index'[i][c]) = Value(index[i][c])
<1>1. CASE UNCHANGED index
  BY <1>1
<1>2. ASSUME NEW d \in Codes, index[i][d] # None, CountHit(i, d)
      PROVE  Value(index'[i][c]) = Value(index[i][c])
  <2>1. /\ \A b \in Codes : b # d => index'[i][b] = index[i][b]
        /\ Value(index'[i][d]) = Value(index[i][d])
    BY <1>2, CountType
  <2> QED BY <2>1
<1>3. UNCHANGED index \/ \E d \in Codes : index[i][d] # None /\ CountHit(i, d)
  BY DEF Resolve, Answer
<1> QED BY <1>1, <1>2, <1>3

LEMMA NextSelf ==
    ASSUME TypeInv, StageInv, LinesInv, HadInv, SelfInv, TruncInv, [Next]_vars
    PROVE  SelfInv'
<1> USE DEF history, tail, files
<1> SUFFICES ASSUME NEW j \in Instances, NEW c \in Codes, c \in Sole(j), Self(j, c)
             PROVE  Self(j, c)'
  BY GrantsGrow DEF SelfInv
<1>t. /\ index[j] \in [Codes -> Entries \cup {None}] /\ stray[j] \in [Codes -> Strays]
      /\ buf[j] \in Seq(Lines) /\ inbox[j] \in Seq(Lines) /\ LogOf(j) \in Seq(Lines)
      /\ LogOf(j) \o buf[j] \in Seq(Lines)
      /\ up \in [Instances -> {"down", "own", "boot", "up"}]
  <2>1. LogOf(j) \in Seq(Lines) /\ buf[j] \in Seq(Lines)
    BY LogOfType DEF TypeInv, TypeOK
  <2> QED BY <2>1 DEF TypeInv, TypeOK
<1>e. /\ index \in [Instances -> [Codes -> Entries \cup {None}]]
      /\ stray \in [Instances -> [Codes -> Strays]]
      /\ buf \in [Instances -> Seq(Lines)] /\ inbox \in [Instances -> Seq(Lines)]
      /\ snap \in [Instances -> [Codes -> RowLines \cup {None}]]
  BY DEF TypeInv, TypeOK
<1>l. UNCHANGED log => LogOf(j)' = LogOf(j)
  BY DEF LogOf
<1>v. CASE /\ Value(index'[j][c]) = Value(index[j][c])
           /\ up[j] = "up" /\ UNCHANGED <<up[j], snap[j], LogOf(j), buf[j]>>
  BY <1>v DEF Self
<1>0. CASE UNCHANGED vars
  <2>1. UNCHANGED <<up, index, inbox, snap, log, buf>>
    BY <1>0 DEF vars
  <2> QED BY <1>l, <2>1 DEF Self
<1>1. ASSUME NEW i \in Instances, Step(i), i # j PROVE Self(j, c)'
  <2>1. Same(j)
    BY <1>1, Others
  <2> QED BY <2>1 DEF Same, Self
<1>2. CASE Shorten(j) \/ Update(j) \/ Remove(j)
  <2>1. PICK d \in Codes, x \in Entries \cup {None}, l \in Lines :
           /\ Write(j, d, x, l) /\ l.k \in {"row", "del"} /\ l.c = d
           /\ LineValue(l) = Value(x)
    BY <1>2, WriteValue
  <2>2. /\ index'[j] = [index[j] EXCEPT ![d] = x] /\ buf'[j] = Append(buf[j], l)
        /\ UNCHANGED <<up, snap>> /\ LogOf(j)' = LogOf(j) /\ up[j] = "up"
    <3>1. up[j] = "up"
      BY <1>2 DEF Shorten, Update, Remove, Serving
    <3>2. UNCHANGED <<up, snap, log>>
      BY <2>1 DEF Write
    <3>3. index'[j] = [index[j] EXCEPT ![d] = x] /\ buf'[j] = Append(buf[j], l)
      BY <1>e, <2>1 DEF Write
    <3> QED BY <1>l, <3>1, <3>2, <3>3
  <2>3. LogOf(j) \o buf'[j] = Append(LogOf(j) \o buf[j], l)
    BY <1>t, <2>2
  <2>4. Determines(snap[j], LogOf(j) \o buf[j], c, Value(index[j][c]))
    BY <2>2 DEF Self
  <2>5. Determines(snap[j], Append(LogOf(j) \o buf[j], l), c, Value(index'[j][c]))
    <3> DEFINE s == LogOf(j) \o buf[j]
    <3> HIDE DEF s
    <3>1. s \in Seq(Lines) /\ Determines(snap[j], s, c, Value(index[j][c]))
      BY <1>t, <2>4 DEF s
    <3>2. CASE c = d
      <4>1. Sets(l, c) /\ Value(index'[j][c]) = LineValue(l)
        BY <1>t, <2>1, <2>2, <3>2 DEF Sets
      <4>2. EndsWith(Append(s, l), c, LineValue(l)) /\ Touches(Append(s, l), c)
        BY <3>1, <4>1, EndsAppend, TouchesAppend
      <4> QED BY <4>1, <4>2 DEF Determines, s
    <3>3. CASE c # d
      <4>1. ~Sets(l, c) /\ index'[j][c] = index[j][c]
        BY <1>t, <2>1, <2>2, <3>3 DEF Sets
      <4>2. Touches(Append(s, l), c) <=> Touches(s, c)
        BY <3>1, <4>1, TouchesAppend
      <4>3. EndsWith(s, c, Value(index[j][c])) => EndsWith(Append(s, l), c, Value(index[j][c]))
        BY <3>1, <4>1, EndsAppend
      <4> QED BY <3>1, <4>1, <4>2, <4>3 DEF Determines, s
    <3> QED BY <3>2, <3>3
  <2> QED BY <2>2, <2>3, <2>5 DEF Self
<1>3. CASE Flush(j) \/ CompactSnap(j)
  <2>1. PICK s \in Orders(Deltas(j)) : FlushTo(j, s)
    BY <1>3 DEF Flush, CompactSnap
  <2>2. up[j] = "up" /\ UNCHANGED <<up, index>>
    BY <1>3 DEF Flush, CompactSnap
  <2>3. /\ s \in Seq(HitLines) /\ s \in Seq(Lines)
        /\ LogOf(j)' = (LogOf(j) \o buf[j]) \o s
    BY <2>1, <2>2, FlushLog
  <2>4. buf'[j] = <<>>
    BY <1>e, <2>1 DEF FlushTo
  <2>5. LogOf(j)' \o buf'[j] = (LogOf(j) \o buf[j]) \o s
    BY <1>t, <2>3, <2>4, ConcatNothing
  <2>6. Determines(snap[j], (LogOf(j) \o buf[j]) \o s, c, Value(index[j][c]))
    BY <1>t, <2>2, <2>3, DeterminesLeft, HitsTouchNothing DEF Self
  <2>7. CASE Flush(j)
    BY <2>2, <2>5, <2>6, <2>7 DEF Flush, Self
  <2>8. CASE CompactSnap(j)
    <3>1. snap'[j][c] = OwnRow(j, c)
      BY <1>e, <2>8 DEF CompactSnap
    <3>2. Value(snap'[j][c]) = Value(index[j][c])
      BY <3>1, OwnValue
    <3>3. Determines(snap'[j], (LogOf(j) \o buf[j]) \o s, c, Value(index[j][c]))
      BY <2>6, <3>2 DEF Determines
    <3> QED BY <2>2, <2>5, <3>3 DEF Self
  <2> QED BY <1>3, <2>7, <2>8
<1>4. CASE Resolve(j) \/ \E d \in Codes : Answer(j, d)
  <2>1. Value(index'[j][c]) = Value(index[j][c])
    BY <1>4, CountedValue
  <2>2. UNCHANGED <<up, snap, log, buf>> /\ up[j] = "up"
    BY <1>4 DEF Resolve, Answer
  <2> QED BY <1>l, <1>v, <2>1, <2>2
<1>5. CASE Ask(j) \/ Poll(j) \/ ReadNew(j)
  <2>1. UNCHANGED <<up, index, snap, log, buf>> /\ up[j] = "up"
    BY <1>5 DEF Ask, Poll, ReadNew
  <2> QED BY <1>l, <1>v, <2>1
<1>6. CASE ApplyLine(j)
  <2>1. UNCHANGED <<up, snap, log, buf>> /\ inbox'[j] = Tail(inbox[j]) /\ inbox[j] # <<>>
    BY <1>e, <1>6 DEF ApplyLine
  <2>2. CASE up[j] = "up"
    <3>1. source[j] # j
      BY <2>1, <2>2 DEF StageInv, Stage
    <3>2. Value(index'[j][c]) = Value(index[j][c])
      BY <1>6, <3>1, AppliedForeign
    <3> QED BY <1>l, <1>v, <2>1, <2>2, <3>2
  <2>3. CASE up[j] = "own"
    <3>1. PICK st \in Apply([index |-> index[j], stray |-> stray[j]], Head(inbox[j]), j) :
             index' = [index EXCEPT ![j] = st.index]
      BY <1>6 DEF ApplyLine
    <3>2. PICK v : Determines(index[j], inbox[j], c, v) /\ Determines(snap[j], LogOf(j), c, v)
      BY <2>3 DEF Self
    <3>3. Determines(st.index, Tail(inbox[j]), c, v)
      BY <1>t, <2>1, <3>1, <3>2, DeterminesTail
    <3>4. index'[j] = st.index
      BY <1>e, <3>1
    <3> QED BY <1>l, <2>1, <2>3, <3>2, <3>3, <3>4 DEF Self
  <2> QED BY <1>6, <2>2, <2>3 DEF ApplyLine
<1>7. CASE Tick(j)
  <2>1. UNCHANGED <<up, index, inbox, snap, log, buf>>
    BY <1>7 DEF Tick
  <2> QED BY <1>l, <2>1 DEF Self
<1>8. CASE CompactTrunc(j)
  <2>1. UNCHANGED <<up, index, snap, buf>> /\ cpc[j] = "trunc" /\ LogOf(j)' = <<>>
    BY <1>8 DEF CompactTrunc, LogOf
  <2>2. buf[j] = <<>> /\ up[j] = "up"
    BY <1>t, <2>1 DEF StageInv, Stage
  <2>3. Determines(snap[j], LogOf(j), c, Value(snap[j][c]))
    BY <2>1 DEF TruncInv, Sealed
  <2>4. Determines(snap[j], LogOf(j), c, Value(index[j][c]))
    BY <1>t, <2>2, ConcatNothing DEF Self
  <2>5. Value(snap[j][c]) = Value(index[j][c])
    BY <1>t, <2>3, <2>4, DeterminesOne
  <2>6. LogOf(j)' \o buf'[j] = <<>>
    BY <2>1, <2>2
  <2>7. Determines(snap[j], <<>>, c, Value(index[j][c]))
    BY <2>5, DeterminesEmpty
  <2> QED BY <2>1, <2>2, <2>6, <2>7 DEF Self
<1>9. CASE Crash(j)
  <2>1. up'[j] = "down"
    BY <1>t, <1>9 DEF Crash
  <2> QED BY <2>1 DEF Self
<1>10. CASE Boot(j)
  <2>1. /\ UNCHANGED snap /\ up'[j] = "own"
        /\ index'[j] = [d \in Codes |-> IF snap[j][d] = None THEN None
                                        ELSE RowEntry(snap[j][d], NoStray)]
        /\ inbox'[j] = LogOf(j) /\ LogOf(j)' = LogOf(j)
    BY <1>t, <1>e, <1>10 DEF Boot, LogOf
  <2>2. PICK v : Determines(snap[j], LogOf(j), c, v)
    BY <1>t, DeterminesSome
  <2>3. Value(snap[j][c]) = Value(index'[j][c])
    <3>1. CASE snap[j][c] = None
      BY <2>1, <3>1 DEF Value
    <3>2. CASE snap[j][c] # None
      <4>1. snap[j][c] \in RowLines /\ NoStray \in Strays
        BY <1>e, <3>2 DEF NoStray, Strays
      <4> QED BY <2>1, <3>2, <4>1, RowValue
    <3> QED BY <3>1, <3>2
  <2>4. Determines(index'[j], LogOf(j), c, v)
    BY <2>2, <2>3, DeterminesBase
  <2> QED BY <2>1, <2>2, <2>4 DEF Self
<1>11. CASE BootList(j)
  <2>1. UNCHANGED <<index, buf, snap, log>> /\ up[j] = "own" /\ up'[j] = "boot" /\ inbox[j] = <<>>
    BY <1>t, <1>11 DEF BootList
  <2>2. PICK v : Determines(index[j], <<>>, c, v) /\ Determines(snap[j], LogOf(j), c, v)
    BY <2>1 DEF Self
  <2>3. v = Value(index[j][c]) /\ buf[j] = <<>>
    BY <2>1, <2>2, DeterminesEmpty DEF StageInv, Stage
  <2>4. LogOf(j) \o buf[j] = LogOf(j)
    BY <1>t, <2>3, ConcatNothing
  <2> QED BY <1>l, <2>1, <2>2, <2>3, <2>4 DEF Self
<1>12. CASE BootSibling(j)
  <2>1. PICK m \in reading[j] :
          index' = [index EXCEPT ![j] =
                       [d \in Codes |-> IF snap[m][d] = None THEN index[j][d]
                                        ELSE RowEntry(snap[m][d], stray[j][d])]]
    BY <1>12 DEF BootSibling
  <2>2. UNCHANGED <<up, buf, snap, log>> /\ up[j] = "boot"
    BY <1>12 DEF BootSibling
  <2>3. m \in Instances /\ m # j
    BY <2>2 DEF StageInv, Stage, TypeInv, TypeOK
  <2>4. snap[m][c] = None
    BY <2>3, SnapForeign
  <2>5. index'[j][c] = index[j][c]
    BY <1>e, <2>1, <2>4
  <2> QED BY <1>l, <2>2, <2>5 DEF Self
<1>13. CASE BootDone(j)
  <2>1. UNCHANGED <<index, buf, snap, log>> /\ up[j] = "boot" /\ up'[j] = "up"
    BY <1>t, <1>13 DEF BootDone
  <2> QED BY <1>l, <2>1 DEF Self
<1>14. ASSUME Step(j) PROVE Self(j, c)'
  BY <1>2, <1>3, <1>4, <1>5, <1>6, <1>7, <1>8, <1>9, <1>10, <1>11, <1>12, <1>13, <1>14 DEF Step
<1> QED BY <1>0, <1>1, <1>14, NextSteps

-----------------------------------------------------------------------------
(* How far a follower has seen a log.                                      *)

LEMMA DeterminesDrop ==
    ASSUME NEW base, NEW s \in Seq(Lines), NEW t \in Seq(Lines), NEW c, NEW v,
           Determines(base, s \o t, c, v), ~Touches(t, c)
    PROVE  Determines(base, s, c, v)
<1>1. PICK w : Determines(base, s, c, w)
  BY DeterminesSome
<1>2. Determines(base, s \o t, c, w) /\ s \o t \in Seq(Lines)
  BY <1>1, DeterminesLeft
<1>3. v = w
  BY <1>2, DeterminesOne
<1> QED BY <1>1, <1>3

LEMMA SplitAt ==
    ASSUME NEW s \in Seq(Lines), NEW n \in 0..Len(s)
    PROVE  /\ SubSeq(s, 1, n) \in Seq(Lines) /\ SubSeq(s, n + 1, Len(s)) \in Seq(Lines)
           /\ SubSeq(s, 1, n) \o SubSeq(s, n + 1, Len(s)) = s
           /\ Len(SubSeq(s, 1, n)) = n
<1>1. Len(s) \in Nat /\ n \in Nat
  OBVIOUS
<1>2. /\ SubSeq(s, 1, n) \in Seq(Lines) /\ Len(SubSeq(s, 1, n)) = n
      /\ \A k \in 1..n : SubSeq(s, 1, n)[k] = s[k]
  BY <1>1
<1>3. /\ SubSeq(s, n + 1, Len(s)) \in Seq(Lines) /\ Len(SubSeq(s, n + 1, Len(s))) = Len(s) - n
      /\ \A k \in 1..(Len(s) - n) : SubSeq(s, n + 1, Len(s))[k] = s[n + k]
  BY <1>1
<1> DEFINE a == SubSeq(s, 1, n)
           b == SubSeq(s, n + 1, Len(s))
<1> HIDE DEF a, b
<1>7. /\ a \in Seq(Lines) /\ Len(a) = n /\ \A k \in 1..n : a[k] = s[k]
      /\ b \in Seq(Lines) /\ Len(b) = Len(s) - n /\ \A k \in 1..(Len(s) - n) : b[k] = s[n + k]
  BY <1>2, <1>3 DEF a, b
<1>4. a \o b \in Seq(Lines) /\ Len(a \o b) = Len(s)
  BY <1>1, <1>7
<1>5. ASSUME NEW k \in 1..Len(s) PROVE (a \o b)[k] = s[k]
  <2>1. CASE k <= n
    BY <1>1, <1>7, <2>1
  <2>2. CASE k > n
    <3>1. PICK m \in 1..(Len(s) - n) : m = k - n
      BY <1>1, <2>2
    <3>2. b[m] = s[n + m] /\ n + m = k
      BY <1>1, <1>7, <3>1
    <3>3. (a \o b)[k] = b[m]
      BY <1>1, <1>7, <2>2, <3>1
    <3> QED BY <3>2, <3>3
  <2>3. k <= n \/ k > n
    BY <1>1
  <2> QED BY <2>1, <2>2, <2>3, Zenon
<1>6. a \o b = s
  <2> DEFINE q == a \o b
  <2> HIDE DEF q
  <2>1. q \in Seq(Lines) /\ Len(q) = Len(s) /\ \A k \in 1..Len(s) : q[k] = s[k]
    BY <1>4, <1>5 DEF q
  <2>2. q = s
    BY <2>1
  <2> QED BY <2>2 DEF q
<1> QED BY <1>2, <1>3, <1>6 DEF a, b

(* What the first n lines of a log have to do with all of them.            *)
LEMMA FirstLines ==
    ASSUME NEW s \in Seq(Lines), NEW n \in 0..Len(s), NEW c
    PROVE  /\ Touches(SubSeq(s, 1, n), c) => Touches(s, c)
           /\ ~Touches(SubSeq(s, n + 1, Len(s)), c) =>
                 \A base, v : Determines(base, s, c, v) =>
                                 Determines(base, SubSeq(s, 1, n), c, v)
<1> DEFINE a == SubSeq(s, 1, n)
           b == SubSeq(s, n + 1, Len(s))
<1>1. a \in Seq(Lines) /\ b \in Seq(Lines) /\ a \o b = s
  BY SplitAt
<1> HIDE DEF a, b
<1>2. Touches(a, c) => Touches(a \o b, c)
  BY <1>1, TouchesConcat
<1>3. ~Touches(b, c) => \A base, v : Determines(base, a \o b, c, v) => Determines(base, a, c, v)
  BY <1>1, DeterminesDrop
<1> QED BY <1>1, <1>2, <1>3 DEF a, b

LEMMA SplitMore ==
    ASSUME NEW s \in Seq(Lines), NEW t \in Seq(Lines), NEW n \in 0..Len(s)
    PROVE  SubSeq(s \o t, 1, n) = SubSeq(s, 1, n) /\ n \in 0..Len(s \o t)
<1>1. Len(s) \in Nat /\ Len(t) \in Nat /\ n \in Nat /\ s \o t \in Seq(Lines)
      /\ Len(s \o t) = Len(s) + Len(t)
  OBVIOUS
<1>2. /\ SubSeq(s, 1, n) \in Seq(Lines) /\ Len(SubSeq(s, 1, n)) = n
      /\ \A k \in 1..n : SubSeq(s, 1, n)[k] = s[k]
  BY <1>1
<1> DEFINE st == s \o t
<1>3. \A k \in 1..n : st[k] = s[k]
  BY <1>1
<1> HIDE DEF st
<1>4. /\ SubSeq(st, 1, n) \in Seq(Lines) /\ Len(SubSeq(st, 1, n)) = n
      /\ \A k \in 1..n : SubSeq(st, 1, n)[k] = st[k]
  BY <1>1 DEF st
<1>5. SubSeq(st, 1, n) = SubSeq(s, 1, n)
  BY <1>2, <1>3, <1>4
<1> QED BY <1>1, <1>5 DEF st

LEMMA SeenType ==
    ASSUME TypeInv, LengthInv, NEW i \in Instances, NEW j
    PROVE  /\ Seen(i, j) \in Seq(Lines)
           /\ \E n \in 0..Len(LogOf(j)) : Seen(i, j) = SubSeq(LogOf(j), 1, n)
<1>1. LogOf(j) \in Seq(Lines) /\ Len(LogOf(j)) \in Nat
  BY LogOfType
<1> HIDE DEF LogOf
<1>2. CASE j \in DOMAIN offset[i] \ lapsed[i]
  <2>1. offset[i][j] \in 0..Len(LogOf(j))
    BY <1>1, <1>2 DEF LengthInv, TypeInv, TypeOK
  <2> QED BY <1>1, <1>2, <2>1, SplitAt DEF Seen
<1>3. CASE j \notin DOMAIN offset[i] \ lapsed[i]
  <2>1. SubSeq(LogOf(j), 1, 0) = <<>> /\ <<>> \in Seq(Lines) /\ 0 \in 0..Len(LogOf(j))
    BY <1>1
  <2> QED BY <1>3, <2>1 DEF Seen
<1> QED BY <1>2, <1>3

LEMMA SeenSame ==
    ASSUME NEW i, NEW j, UNCHANGED <<offset[i], LogOf(j)>>,
           j \in lapsed'[i] <=> j \in lapsed[i]
    PROVE  Seen(i, j)' = Seen(i, j)
BY DEF Seen

LEMMA SeenReaders ==
    ASSUME TypeInv, NEW i \in Instances, NEW J, offset' = WithReaders(i, J),
           UNCHANGED <<log, lapsed>>, NEW j
    PROVE  Seen(i, j)' = Seen(i, j)
<1>1. /\ DOMAIN offset'[i] = J \cup DOMAIN offset[i]
      /\ \A m \in DOMAIN offset'[i] :
            offset'[i][m] = IF m \in DOMAIN offset[i] THEN offset[i][m] ELSE 0
  BY DEF WithReaders, TypeInv, TypeOK
<1>2. LogOf(j)' = LogOf(j) /\ LogOf(j) \in Seq(Lines)
  BY LogOfType DEF LogOf
<1> HIDE DEF LogOf
<1>3. SubSeq(LogOf(j), 1, 0) = <<>>
  BY <1>2
<1>4. CASE j \in DOMAIN offset[i]
  BY <1>1, <1>2, <1>4 DEF Seen
<1>5. CASE j \notin DOMAIN offset[i]
  BY <1>1, <1>2, <1>3, <1>5 DEF Seen
<1> QED BY <1>4, <1>5

(* What a step of instance k takes from the readers of another.            *)
LEMMA OthersHistory ==
    ASSUME TypeInv, NEW k \in Instances, Step(k), NEW i \in Instances, i # k
    PROVE  /\ unread[i] \subseteq unread'[i]
           /\ ~CompactSnap(k) => unread'[i] = unread[i]
           /\ \A j : j # k => (j \in lapsed'[i] <=> j \in lapsed[i])
           /\ ~CompactTrunc(k) => lapsed'[i] = lapsed[i]
<1> USE DEF history, tail, files
<1>t. unread \in [Instances -> SUBSET Codes] /\ lapsed \in [Instances -> SUBSET Instances]
  BY DEF TypeInv, TypeOK
<1>u. CASE unread'[i] = unread[i] /\ lapsed'[i] = lapsed[i]
  BY <1>u
<1>1. CASE CompactSnap(k)
  BY <1>t, <1>1 DEF CompactSnap
<1>2. CASE CompactTrunc(k)
  BY <1>t, <1>2 DEF CompactTrunc
<1>3. CASE ReadNew(k)
  <2>1. PICK m \in reading[k], n \in Nat : Reads(k, m, n)
    BY <1>3, ReadStep
  <2> QED BY <1>t, <1>u, <2>1 DEF Reads
<1>4. CASE Crash(k) \/ BootSibling(k)
  BY <1>t, <1>u, <1>4 DEF Crash, BootSibling
<1>5. CASE \/ Shorten(k) \/ Update(k) \/ Remove(k) \/ Flush(k) \/ Resolve(k) \/ Ask(k) \/ Poll(k)
           \/ ApplyLine(k) \/ (\E c \in Codes : Answer(k, c)) \/ Tick(k) \/ Boot(k)
           \/ BootList(k) \/ BootDone(k)
  <2>1. UNCHANGED <<unread, lapsed>>
    BY <1>5 DEF Shorten, Update, Remove, Write, Flush, Resolve, Ask, Poll, ApplyLine, Answer,
       Tick, Boot, BootList, BootDone
  <2> QED BY <1>u, <2>1
<1> QED BY <1>1, <1>2, <1>3, <1>4, <1>5 DEF Step

LEMMA Bystander ==
    ASSUME TypeInv, StageInv, NEW i \in Instances, NEW j \in Instances,
           NEW k \in Instances, Step(k), k # i, k # j
    PROVE  /\ Same(i) /\ Same(j) /\ unread[i] \subseteq unread'[i]
           /\ Seen(i, j)' = Seen(i, j) /\ (Follows(i, j)' <=> Follows(i, j))
<1>1. Same(i) /\ Same(j)
  BY Others
<1>2. unread[i] \subseteq unread'[i] /\ (j \in lapsed'[i] <=> j \in lapsed[i])
  BY OthersHistory
<1>3. Seen(i, j)' = Seen(i, j)
  <2>1. UNCHANGED <<offset[i], LogOf(j)>>
    BY <1>1 DEF Same
  <2> QED BY <1>2, <2>1, SeenSame
<1>4. Follows(i, j)' <=> Follows(i, j)
  BY <1>1 DEF Same, Follows
<1> QED BY <1>1, <1>2, <1>3, <1>4

(* A writer's step takes nothing from what its followers have seen, but    *)
(* for the truncation.                                                     *)
LEMMA WriterStep ==
    ASSUME TypeInv, StageInv, LengthInv, NEW i \in Instances, NEW j \in Instances, i # j,
           Step(j), ~CompactTrunc(j)
    PROVE  /\ Same(i) /\ Seen(i, j)' = Seen(i, j) /\ (Follows(i, j)' <=> Follows(i, j))
           /\ unread[i] \subseteq unread'[i]
           /\ ~CompactSnap(j) => snap'[j] = snap[j]
<1> USE DEF history, tail, files
<1>1. Same(i)
  BY Others
<1>2. unread[i] \subseteq unread'[i] /\ lapsed'[i] = lapsed[i]
  BY OthersHistory
<1>3. Follows(i, j)' <=> Follows(i, j)
  BY <1>1 DEF Same, Follows
<1>4. offset'[i] = offset[i]
  BY <1>1 DEF Same
<1>5. CASE Flush(j) \/ CompactSnap(j)
  <2>1. PICK s \in Orders(Deltas(j)) : FlushTo(j, s)
    BY <1>5 DEF Flush, CompactSnap
  <2>2. up[j] = "up" /\ (Flush(j) => UNCHANGED snap)
    BY <1>5 DEF Flush, CompactSnap
  <2>3. /\ s \in Seq(Lines) /\ LogOf(j)' = (LogOf(j) \o buf[j]) \o s
    BY <2>1, <2>2, FlushLog
  <2>4. LogOf(j) \in Seq(Lines) /\ buf[j] \in Seq(Lines)
    BY LogOfType DEF TypeInv, TypeOK
  <2>5. CASE j \in DOMAIN offset[i] \ lapsed[i]
    <3> DEFINE n == offset[i][j]
    <3>1. n \in 0..Len(LogOf(j))
      <4>1. n \in Nat /\ n <= Len(LogOf(j)) /\ Len(LogOf(j)) \in Nat
        BY <2>5, LogOfType DEF LengthInv, TypeInv, TypeOK
      <4> QED BY <4>1
    <3>2. /\ SubSeq(LogOf(j) \o buf[j], 1, n) = SubSeq(LogOf(j), 1, n)
          /\ n \in 0..Len(LogOf(j) \o buf[j]) /\ LogOf(j) \o buf[j] \in Seq(Lines)
      BY <2>4, <3>1, SplitMore
    <3>3. SubSeq((LogOf(j) \o buf[j]) \o s, 1, n) = SubSeq(LogOf(j) \o buf[j], 1, n)
      BY <2>3, <3>2, SplitMore
    <3>4. Seen(i, j) = SubSeq(LogOf(j), 1, n) /\ Seen(i, j)' = SubSeq(LogOf(j)', 1, n)
      BY <1>2, <1>4, <2>5 DEF Seen
    <3>5. Seen(i, j)' = Seen(i, j)
      <4>1. SubSeq(LogOf(j)', 1, n) = SubSeq((LogOf(j) \o buf[j]) \o s, 1, n)
        BY <2>3
      <4> QED BY <3>2, <3>3, <3>4, <4>1, Zenon
    <3> QED BY <1>1, <1>2, <1>3, <1>5, <2>2, <3>5
  <2>6. CASE j \notin DOMAIN offset[i] \ lapsed[i]
    <3>1. Seen(i, j)' = <<>> /\ Seen(i, j) = <<>>
      BY <1>2, <1>4, <2>6 DEF Seen
    <3> QED BY <1>1, <1>2, <1>3, <1>5, <2>2, <3>1
  <2> QED BY <2>5, <2>6
<1>6. CASE ~Flush(j) /\ ~CompactSnap(j)
  <2>1. LogOf(j)' = LogOf(j) /\ UNCHANGED snap
    <3>1. CASE Boot(j)
      BY <3>1 DEF Boot, LogOf
    <3>2. CASE ~Boot(j)
      <4>1. UNCHANGED <<log, snap>>
        BY <1>6, <3>2 DEF Step, Shorten, Update, Remove, Write, Resolve, Ask, Poll, ReadNew,
           ApplyLine, Answer, Tick, Crash, BootList, BootSibling, BootDone
      <4> QED BY <4>1 DEF LogOf
    <3> QED BY <3>1, <3>2
  <2>2. Seen(i, j)' = Seen(i, j)
    BY <1>2, <1>4, <2>1, SeenSame
  <2> QED BY <1>1, <1>2, <1>3, <2>1, <2>2
<1> QED BY <1>5, <1>6

(* How a follower comes to see more.                                       *)
LEMMA FollowerStep ==
    ASSUME TypeInv, StageInv, NEW i \in Instances, NEW j \in Instances, i # j,
           Step(i), Follows(i, j)'
    PROVE  \/ Follows(i, j) /\ Seen(i, j)' = Seen(i, j) /\ unread[i] \subseteq unread'[i]
           \/ ReadNew(i) /\ \E n \in Nat : Reads(i, j, n)
           \/ BootList(i)
           \/ BootSibling(i)
<1> USE DEF history, tail, files
<1>t. /\ up \in [Instances -> {"down", "own", "boot", "up"}]
      /\ unread \in [Instances -> SUBSET Codes] /\ lapsed \in [Instances -> SUBSET Instances]
      /\ offset = [k \in Instances |-> offset[k]] /\ DOMAIN offset = Instances
  BY DEF TypeInv, TypeOK
<1>l. LogOf(j)' = LogOf(j)
  BY Others DEF Same
<1>1. CASE ReadNew(i)
  <2>1. PICK m \in reading[i], n \in Nat : Reads(i, m, n)
    BY <1>1, ReadStep
  <2>2. CASE m = j
    BY <1>1, <2>1, <2>2
  <2>3. CASE m # j
    <3>1. up[i] = "up" /\ UNCHANGED up /\ unread[i] \subseteq unread'[i]
      BY <1>t, <1>1, <2>1 DEF ReadNew, Reads
    <3>2. /\ DOMAIN offset'[i] = DOMAIN offset[i]
          /\ j \in DOMAIN offset[i] => offset'[i][j] = offset[i][j]
          /\ j \in lapsed'[i] <=> j \in lapsed[i]
      BY <1>t, <2>1, <2>3 DEF Reads
    <3>3. Seen(i, j)' = Seen(i, j)
      BY <1>l, <3>2 DEF Seen
    <3> QED BY <3>1, <3>3 DEF Follows
  <2> QED BY <2>2, <2>3
<1>2. CASE Crash(i) \/ Boot(i)
  <2>1. up'[i] \in {"down", "own"}
    BY <1>t, <1>2 DEF Crash, Boot
  <2> QED BY <2>1 DEF Follows
<1>3. CASE Ask(i) \/ Poll(i)
  <2>1. PICK J : offset' = WithReaders(i, J)
    BY <1>3 DEF Ask, Poll
  <2>2. UNCHANGED <<log, lapsed, unread, up>> /\ up[i] = "up"
    BY <1>3 DEF Ask, Poll
  <2>3. Seen(i, j)' = Seen(i, j)
    BY <2>1, <2>2, SeenReaders
  <2> QED BY <2>2, <2>3 DEF Follows
<1>4. CASE BootDone(i)
  <2>1. UNCHANGED <<log, offset, lapsed, unread>> /\ up[i] = "boot" /\ reading[i] = {}
    BY <1>4 DEF BootDone
  <2>2. Seen(i, j)' = Seen(i, j)
    BY <1>l, <2>1, SeenSame
  <2> QED BY <2>1, <2>2 DEF Follows
<1>5. CASE CompactTrunc(i)
  <2>1. UNCHANGED <<up, reading, offset, unread>> /\ (j \in lapsed'[i] <=> j \in lapsed[i])
    BY <1>t, <1>5 DEF CompactTrunc
  <2>2. Seen(i, j)' = Seen(i, j)
    BY <1>l, <2>1, SeenSame
  <2> QED BY <2>1, <2>2 DEF Follows
<1>6. CASE CompactSnap(i)
  <2>1. UNCHANGED <<up, reading, offset, lapsed>> /\ unread'[i] = unread[i]
    BY <1>t, <1>6 DEF CompactSnap
  <2>2. Seen(i, j)' = Seen(i, j)
    BY <1>l, <2>1, SeenSame
  <2> QED BY <2>1, <2>2 DEF Follows
<1>7. CASE \/ Shorten(i) \/ Update(i) \/ Remove(i) \/ Flush(i) \/ Resolve(i) \/ ApplyLine(i)
           \/ (\E c \in Codes : Answer(i, c)) \/ Tick(i)
  <2>1. UNCHANGED <<up, reading, offset, lapsed, unread>>
    BY <1>7 DEF Shorten, Update, Remove, Write, Flush, Resolve, ApplyLine, Answer, Tick
  <2>2. Seen(i, j)' = Seen(i, j)
    BY <1>l, <2>1, SeenSame
  <2> QED BY <2>1, <2>2 DEF Follows
<1> QED BY <1>1, <1>2, <1>3, <1>4, <1>5, <1>6, <1>7 DEF Step

LEMMA ReadSees ==
    ASSUME TypeInv, StageInv, NEW i \in Instances, NEW j \in Instances, i # j, NEW n \in Nat,
           ReadNew(i), Reads(i, j, n)
    PROVE  Seen(i, j)' = LogOf(j) /\ unread[i] \subseteq unread'[i]
<1>1. j \in reading[i]' \/ j \in reading[i]
  <2>1. PICK m \in reading[i], k \in Nat : Reads(i, m, k)
    BY ReadStep
  <2>2. source'[i] = m /\ source'[i] = j
    BY <2>1 DEF Reads, TypeInv
  <2> QED BY <2>1, <2>2
<1>2. up[i] = "up" /\ UNCHANGED log
  BY DEF ReadNew, files
<1>3. j \in DOMAIN offset[i]
  <2>1. reading'[i] = reading[i] \ {j}
    BY DEF Reads, TypeInv
  <2> QED BY <1>1, <1>2, <2>1 DEF TypeInv, TypeOK
<1>4. /\ j \in DOMAIN offset'[i] /\ offset'[i][j] = Len(LogOf(j)) /\ j \notin lapsed'[i]
      /\ unread[i] \subseteq unread'[i]
  <2>1. /\ unread \in [Instances -> SUBSET Codes] /\ lapsed \in [Instances -> SUBSET Instances]
        /\ offset = [k \in Instances |-> offset[k]]
    BY DEF TypeInv, TypeOK
  <2> QED BY <1>3, <2>1 DEF Reads
<1>5. LogOf(j)' = LogOf(j) /\ LogOf(j) \in Seq(Lines)
  BY <1>2, LogOfType DEF LogOf
<1> HIDE DEF LogOf
<1>6. SubSeq(LogOf(j), 1, Len(LogOf(j))) = LogOf(j)
  BY <1>5
<1> QED BY <1>4, <1>5, <1>6 DEF Seen

(* A process that comes up has of a sibling what its snapshot says.        *)
LEMMA BootSees ==
    ASSUME TypeInv, StageInv, LengthInv, LinesInv, HadInv,
           NEW i \in Instances, NEW j \in Instances, i # j,
           BootList(i) \/ BootSibling(i), Follows(i, j)',
           NEW c \in Sole(j), c \notin unread'[i]
    PROVE  \/ Value(index'[i][c]) = Value(snap[j][c]) /\ ~Touches(Seen(i, j)', c)
           \/ /\ Follows(i, j) /\ c \notin unread[i]
              /\ Seen(i, j)' = Seen(i, j) /\ index'[i][c] = index[i][c]
<1> USE DEF history, tail, files
<1>t. /\ up \in [Instances -> {"down", "own", "boot", "up"}]
      /\ index \in [Instances -> [Codes -> Entries \cup {None}]]
      /\ stray \in [Instances -> [Codes -> Strays]]
      /\ snap \in [Instances -> [Codes -> RowLines \cup {None}]]
      /\ reading \in [Instances -> SUBSET Nat]
      /\ unread \in [Instances -> SUBSET Codes] /\ DOMAIN log \subseteq Instances
      /\ offset = [k \in Instances |-> offset[k]] /\ c \in Codes
  BY DEF TypeInv, TypeOK, Sole
<1>e. ~Touches(<<>>, c)
  BY DEF Touches
<1>1. CASE BootList(i)
  <2>1. /\ up[i] = "own" /\ up'[i] = "boot" /\ reading'[i] = DOMAIN log \ {i}
        /\ UNCHANGED <<index, offset>>
    BY <1>t, <1>1 DEF BootList, Siblings
  <2>2. j \notin DOMAIN log
    BY <2>1 DEF Follows
  <2>3. snap[j][c] = None /\ DOMAIN offset[i] = {}
    BY <1>t, <2>1, <2>2 DEF StageInv, Stage
  <2>4. index[i][c] = None
    BY <1>t, <2>1 DEF HadInv, Had, Sole
  <2>5. Seen(i, j)' = <<>>
    BY <2>1, <2>3 DEF Seen
  <2> QED BY <1>e, <2>1, <2>3, <2>4, <2>5
<1>2. CASE BootSibling(i)
  <2>1. PICK m \in reading[i] :
          /\ index' = [index EXCEPT ![i] =
                          [d \in Codes |-> IF snap[m][d] = None THEN index[i][d]
                                           ELSE RowEntry(snap[m][d], stray[i][d])]]
          /\ reading' = [reading EXCEPT ![i] = @ \ {m}]
          /\ offset' = WithReaders(i, {m})
          /\ unread' = [unread EXCEPT ![i] = @ \ Sole(m)]
    BY <1>2 DEF BootSibling
  <2>2. UNCHANGED <<up, log, lapsed>> /\ up[i] = "boot"
    BY <1>2 DEF BootSibling
  <2>3. m \in Instances /\ m # i /\ m \notin DOMAIN offset[i]
    BY <1>t, <2>2 DEF StageInv, Stage
  <2>4. /\ index'[i][c] = IF snap[m][c] = None THEN index[i][c]
                          ELSE RowEntry(snap[m][c], stray[i][c])
        /\ unread'[i] = unread[i] \ Sole(m) /\ reading'[i] = reading[i] \ {m}
    BY <1>t, <2>1
  <2>5. Seen(i, j)' = Seen(i, j)
    BY <2>1, <2>2, SeenReaders
  <2>6. CASE m = j
    <3>1. index[i][c] = None
      BY <1>t, <2>2, <2>6 DEF HadInv, Had, Sole
    <3>2. Value(index'[i][c]) = Value(snap[j][c])
      <4>1. CASE snap[j][c] = None
        BY <2>4, <2>6, <3>1, <4>1
      <4>2. CASE snap[j][c] # None
        <5>1. snap[j][c] \in RowLines /\ stray[i][c] \in Strays
          BY <1>t, <4>2
        <5> QED BY <2>4, <2>6, <4>2, <5>1, RowValue
      <4> QED BY <4>1, <4>2
    <3>3. Seen(i, j) = <<>>
      BY <2>3, <2>6 DEF Seen
    <3> QED BY <1>e, <2>5, <3>2, <3>3
  <2>7. CASE m # j
    <3>1. snap[m][c] = None /\ index'[i][c] = index[i][c]
      BY <2>3, <2>4, <2>7, SnapForeign
    <3>2. CASE c \in Sole(m)
      <4>1. snap[j][c] = None
        BY <2>7, <3>2, SnapForeign
      <4>2. index[i][c] = None
        <5>1. granted[c] \subseteq {m} /\ c \in Codes
          BY <3>2 DEF Sole
        <5>2. Had(i, c)
          BY <5>1 DEF HadInv
        <5> QED BY <2>2, <5>1, <5>2 DEF Had
      <4>3. ~Touches(Seen(i, j), c)
        <5>1. WroteAll(granted, j, LogOf(j))
          BY WroteNothing DEF LinesInv, LogOf
        <5>2. ~Touches(LogOf(j), c)
          BY <2>7, <3>2, <5>1, Foreign
        <5>3. PICK n \in 0..Len(LogOf(j)) : Seen(i, j) = SubSeq(LogOf(j), 1, n)
          BY SeenType
        <5>4. LogOf(j) \in Seq(Lines)
          BY LogOfType
        <5> QED BY <5>2, <5>3, <5>4, FirstLines
      <4> QED BY <2>5, <3>1, <4>1, <4>2, <4>3
    <3>3. CASE c \notin Sole(m)
      <4>1. c \notin unread[i]
        BY <2>4, <3>3
      <4>2. Follows(i, j)
        BY <2>2, <2>4, <2>7 DEF Follows
      <4> QED BY <2>5, <3>1, <4>1, <4>2
    <3> QED BY <3>2, <3>3
  <2> QED BY <2>6, <2>7
<1> QED BY <1>1, <1>2

(* A compaction, for a follower that has read every line of the code.      *)
LEMMA CompactSees ==
    ASSUME TypeInv, StageInv, LengthInv, LinesInv, HadInv, SelfInv,
           NEW i \in Instances, NEW j \in Instances, i # j,
           CompactSnap(j), NEW c \in Sole(j), c \notin unread'[i]
    PROVE  /\ Value(snap'[j][c]) = Value(index[j][c])
           /\ Determines(snap[j], Seen(i, j), c, Value(index[j][c]))
           /\ Determines(snap'[j], Seen(i, j), c, Value(index[j][c]))
           /\ \A k \in (Len(Seen(i, j)) + 1)..Len(LogOf(j)) : ~Sets(LogOf(j)[k], c)
<1> USE DEF history, tail, files
<1>c. c \in Codes
  BY DEF Sole
<1>1. PICK s \in Orders(Deltas(j)) : FlushTo(j, s)
  BY DEF CompactSnap
<1>2. up[j] = "up" /\ UNCHANGED <<offset, lapsed>>
  BY DEF CompactSnap
<1>3. /\ s \in Seq(HitLines) /\ s \in Seq(Lines) /\ j \in DOMAIN log
      /\ LogOf(j)' = (LogOf(j) \o buf[j]) \o s /\ LogOf(j)' = log'[j]
  BY <1>1, <1>2, FlushLog
<1>4. LogOf(j) \in Seq(Lines) /\ buf[j] \in Seq(Lines) /\ LogOf(j) \o buf[j] \in Seq(Lines)
  <2>1. LogOf(j) \in Seq(Lines) /\ buf[j] \in Seq(Lines)
    BY LogOfType DEF TypeInv, TypeOK
  <2> QED BY <2>1
<1>5. Determines(snap[j], LogOf(j)', c, Value(index[j][c])) /\ LogOf(j)' \in Seq(Lines)
  <2>1. Determines(snap[j], LogOf(j) \o buf[j], c, Value(index[j][c]))
    BY <1>c, <1>2 DEF SelfInv, Self
  <2>2. Determines(snap[j], (LogOf(j) \o buf[j]) \o s, c, Value(index[j][c]))
    BY <1>3, <1>4, <2>1, DeterminesLeft, HitsTouchNothing
  <2>3. ASSUME NEW p \in Seq(Lines) PROVE p \o s \in Seq(Lines)
    BY <1>3
  <2>4. (LogOf(j) \o buf[j]) \o s \in Seq(Lines)
    BY <1>4, <2>3
  <2> QED BY <1>3, <2>2, <2>4
<1>6. Value(snap'[j][c]) = Value(index[j][c])
  <2>1. snap'[j][c] = OwnRow(j, c)
    BY <1>c DEF CompactSnap, TypeInv, TypeOK
  <2> QED BY <2>1, OwnValue
<1> DEFINE L == LogOf(j)'
           n == IF j \in DOMAIN offset[i] \ lapsed[i] THEN offset[i][j] ELSE 0
<1>7. Seen(i, j)' = Seen(i, j) /\ n \in 0..Len(L) /\ Seen(i, j) = SubSeq(L, 1, n)
  <2>1. Step(j) /\ ~CompactTrunc(j)
    BY DEF Step, CompactSnap, CompactTrunc
  <2>2. Seen(i, j)' = Seen(i, j)
    BY <2>1, WriterStep
  <2>3. L \in Seq(Lines) /\ Len(L) \in Nat
    BY <1>5
  <2>4. CASE j \in DOMAIN offset[i] \ lapsed[i]
    <3>1. Seen(i, j)' = SubSeq(L, 1, n)
      BY <1>2, <2>4 DEF Seen
    <3>2. n \in Nat /\ n <= Len(LogOf(j)) /\ Len(LogOf(j)) \in Nat
      BY <2>4, LogOfType DEF LengthInv, TypeInv, TypeOK
    <3>3. n \in 0..Len(LogOf(j))
      BY <3>2
    <3> HIDE DEF n
    <3>4. n \in 0..Len(LogOf(j) \o buf[j])
      BY <1>4, <3>3, SplitMore
    <3>5. n \in 0..Len((LogOf(j) \o buf[j]) \o s)
      BY <1>3, <1>4, <3>4, SplitMore
    <3> QED BY <1>3, <2>2, <3>1, <3>5
  <2>5. CASE j \notin DOMAIN offset[i] \ lapsed[i]
    <3>1. n = 0 /\ Seen(i, j) = <<>>
      BY <2>5 DEF Seen
    <3> HIDE DEF L, n
    <3> QED BY <2>2, <2>3, <3>1
  <2> QED BY <2>4, <2>5
<1>8. ~Touches(SubSeq(L, n + 1, Len(L)), c)
  <2>1. c \notin SetBy(SubSeq(log'[j], IF j \in DOMAIN offset[i] \ lapsed[i]
                                       THEN offset[i][j] + 1 ELSE 1, Len(log'[j])))
    BY DEF CompactSnap
  <2>2. (IF j \in DOMAIN offset[i] \ lapsed[i] THEN offset[i][j] + 1 ELSE 1) = n + 1
    OBVIOUS
  <2>3. log'[j] = L
    BY <1>3
  <2> HIDE DEF L, n
  <2> QED BY <1>c, <2>1, <2>2, <2>3 DEF SetBy
<1> HIDE DEF n
<1>9. Determines(snap[j], Seen(i, j), c, Value(index[j][c]))
  <2> HIDE DEF L
  <2>1. L \in Seq(Lines) /\ Determines(snap[j], L, c, Value(index[j][c]))
    BY <1>5 DEF L
  <2>3. Determines(snap[j], SubSeq(L, 1, n), c, Value(index[j][c]))
    BY <1>7, <1>8, <2>1, FirstLines
  <2> QED BY <1>7, <2>3
<1>10. ASSUME NEW k \in (Len(Seen(i, j)) + 1)..Len(LogOf(j)) PROVE ~Sets(LogOf(j)[k], c)
  <2>1. Len(LogOf(j)) \in Nat /\ Len(buf[j]) \in Nat /\ Len(s) \in Nat
        /\ Len(LogOf(j) \o buf[j]) = Len(LogOf(j)) + Len(buf[j])
    BY <1>3, <1>4
  <2>2. L = (LogOf(j) \o buf[j]) \o s /\ L \in Seq(Lines)
    BY <1>3, <1>5
  <2>3. Len(L) = Len(LogOf(j)) + Len(buf[j]) + Len(s)
    <3>1. ASSUME NEW p \in Seq(Lines) PROVE Len(p \o s) = Len(p) + Len(s)
      BY <1>3
    <3> QED BY <1>4, <2>1, <2>2, <3>1
  <2> HIDE DEF L
  <2>4. Len(Seen(i, j)) = n /\ n \in Nat
    BY <1>7, <2>2, SplitAt
  <2>5. k \in 1..Len(LogOf(j)) /\ k > n /\ k \in 1..Len(L)
    BY <2>1, <2>3, <2>4
  <2>6. L[k] = LogOf(j)[k]
    <3>1. (LogOf(j) \o buf[j])[k] = LogOf(j)[k] /\ k \in 1..Len(LogOf(j) \o buf[j])
      BY <1>4, <2>1, <2>5
    <3>2. ASSUME NEW p \in Seq(Lines), k \in 1..Len(p) PROVE (p \o s)[k] = p[k]
      BY <1>3, <3>2
    <3> QED BY <1>4, <2>2, <3>1, <3>2
  <2>7. PICK m \in 1..(Len(L) - n) : m = k - n
    BY <2>3, <2>1, <2>4, <2>5
  <2>8. SubSeq(L, n + 1, Len(L))[m] = L[n + m] /\ n + m = k
        /\ m \in 1..Len(SubSeq(L, n + 1, Len(L)))
    <3>1. Len(L) \in Nat /\ L \in Seq(Lines) /\ n \in Nat
      BY <2>1, <2>2, <2>3, <2>4
    <3>2. /\ SubSeq(L, n + 1, Len(L))[m] = L[n + m]
          /\ m \in 1..Len(SubSeq(L, n + 1, Len(L)))
      <4>1. m \in 1..(Len(L) - n)
        OBVIOUS
      <4> HIDE DEF n
      <4> QED BY <3>1, <4>1
    <3>3. n + m = k
      BY <2>4, <2>5, <2>7
    <3> QED BY <3>2, <3>3
  <2> QED BY <1>8, <2>6, <2>8 DEF Touches
<1> QED BY <1>5, <1>6, <1>9, <1>10 DEF Determines

LEMMA NextTrunc ==
    ASSUME TypeInv, StageInv, LengthInv, LinesInv, HadInv, SelfInv, TruncInv,
           TypeInv', SelfInv', [Next]_vars
    PROVE  TruncInv'
<1> USE DEF history, tail, files
<1> SUFFICES ASSUME NEW j \in Instances, NEW c \in Codes, cpc'[j] = "trunc", c \in Sole(j)'
             PROVE  /\ Sealed(j, c)'
                    /\ \A i \in Instances :
                          Follows(i, j)' /\ c \notin unread'[i] => SealedFor(i, j, c)'
  BY DEF TruncInv
<1>s. c \in Sole(j)
  BY GrantsGrow
<1>t. /\ cpc \in [Instances -> {"idle", "trunc"}]
      /\ up \in [Instances -> {"down", "own", "boot", "up"}]
      /\ buf \in [Instances -> Seq(Lines)]
      /\ snap \in [Instances -> [Codes -> RowLines \cup {None}]]
  BY DEF TypeInv, TypeOK
<1>h. cpc[j] = "trunc" =>
         /\ Sealed(j, c)
         /\ \A i \in Instances : Follows(i, j) /\ c \notin unread[i] => SealedFor(i, j, c)
  BY <1>s DEF TruncInv
<1>0. CASE UNCHANGED vars
  <2>1. UNCHANGED <<cpc, log, snap, offset, lapsed, unread, up, reading>>
    BY <1>0 DEF vars
  <2>2. LogOf(j)' = LogOf(j)
    BY <2>1 DEF LogOf
  <2>3. \A i \in Instances : Seen(i, j)' = Seen(i, j)
    BY <2>1, <2>2, SeenSame
  <2> QED BY <1>h, <2>1, <2>2, <2>3 DEF Sealed, SealedFor, Follows
<1>k. ASSUME Step(j), ~CompactSnap(j)
      PROVE  cpc[j] = "trunc" /\ UNCHANGED snap /\ LogOf(j)' = LogOf(j) /\ ~CompactTrunc(j)
  <2>1. ~CompactTrunc(j) /\ ~Crash(j)
    BY <1>t DEF CompactTrunc, Crash
  <2>2. cpc[j] = "trunc"
    BY <1>k, <2>1 DEF Step, Shorten, Update, Remove, Write, Flush, Resolve, Ask, Poll, ReadNew,
       ApplyLine, Answer, Tick, Boot, BootList, BootSibling, BootDone
  <2>3. up[j] = "up"
    BY <1>t, <2>2 DEF StageInv, Stage
  <2>4. UNCHANGED <<log, snap>>
    BY <1>k, <2>1, <2>2, <2>3 DEF Step, Shorten, Update, Remove, Serving, Write, Flush, Resolve,
       Ask, Poll, ReadNew, ApplyLine, Answer, Tick, Boot, BootList, BootSibling, BootDone
  <2> QED BY <2>1, <2>2, <2>4 DEF LogOf
<1>1. ASSUME NEW k \in Instances, Step(k) PROVE Sealed(j, c)'
  <2>1. CASE k # j
    <3>1. Same(j)
      BY <1>1, <2>1, Others
    <3> QED BY <1>h, <3>1 DEF Same, Sealed
  <2>2. CASE k = j /\ CompactSnap(j)
    <3>1. up[j] = "up" /\ UNCHANGED <<up, index>> /\ buf'[j] = <<>>
      BY <1>t, <2>2 DEF CompactSnap, FlushTo
    <3>2. Determines(snap'[j], LogOf(j)' \o buf'[j], c, Value(index'[j][c]))
      BY <3>1 DEF SelfInv, Self
    <3>3. LogOf(j)' \o buf'[j] = LogOf(j)'
      <4>1. LogOf(j)' \in Seq(Lines)
        <5>1. \A m \in DOMAIN log' : log'[m] \in Seq(Lines)
          BY DEF TypeInv, TypeOK
        <5> QED BY <5>1 DEF LogOf
      <4> QED BY <3>1, <4>1, ConcatNothing
    <3>4. Value(snap'[j][c]) = Value(index'[j][c])
      <4>1. snap'[j][c] = OwnRow(j, c)
        BY <1>t, <2>2 DEF CompactSnap
      <4> QED BY <1>s, <3>1, <4>1, OwnValue
    <3> QED BY <3>2, <3>3, <3>4 DEF Sealed
  <2>3. CASE k = j /\ ~CompactSnap(j)
    BY <1>h, <1>k, <1>1, <2>3 DEF Sealed
  <2> QED BY <2>1, <2>2, <2>3
<1>2. ASSUME NEW k \in Instances, Step(k), NEW i \in Instances,
             Follows(i, j)', c \notin unread'[i]
      PROVE  SealedFor(i, j, c)'
  <2>0. i # j
    BY <1>2 DEF Follows
  <2>1. CASE k # i /\ k # j
    <3>1. /\ Same(j) /\ unread[i] \subseteq unread'[i]
          /\ Seen(i, j)' = Seen(i, j) /\ Follows(i, j)
      BY <1>2, <2>1, Bystander
    <3> QED BY <1>h, <1>2, <3>1 DEF Same, SealedFor
  <2>2. CASE k = j /\ CompactSnap(j)
    <3>1. /\ Value(snap'[j][c]) = Value(index[j][c])
          /\ Determines(snap'[j], Seen(i, j), c, Value(index[j][c]))
      BY <1>s, <1>2, <2>0, <2>2, CompactSees
    <3>2. Seen(i, j)' = Seen(i, j)
      <4>1. ~CompactTrunc(j)
        BY <2>2 DEF CompactSnap, CompactTrunc
      <4> QED BY <1>2, <2>0, <2>2, <4>1, WriterStep
    <3> QED BY <3>1, <3>2 DEF SealedFor
  <2>3. CASE k = j /\ ~CompactSnap(j)
    <3>1. cpc[j] = "trunc" /\ UNCHANGED snap /\ ~CompactTrunc(j)
      BY <1>k, <1>2, <2>3
    <3>2. /\ Seen(i, j)' = Seen(i, j) /\ Follows(i, j) /\ unread[i] \subseteq unread'[i]
      BY <1>2, <2>0, <2>3, <3>1, WriterStep
    <3> QED BY <1>h, <1>2, <3>1, <3>2 DEF SealedFor
  <2>4. CASE k = i
    <3>1. Same(j)
      BY <1>2, <2>0, <2>4, Others
    <3>2. cpc[j] = "trunc" /\ snap'[j] = snap[j] /\ LogOf(j)' = LogOf(j)
      BY <3>1 DEF Same
    <3>3. CASE Follows(i, j) /\ Seen(i, j)' = Seen(i, j) /\ c \notin unread[i]
      BY <1>h, <3>2, <3>3 DEF SealedFor
    <3>4. ASSUME ReadNew(i), NEW n \in Nat, Reads(i, j, n) PROVE SealedFor(i, j, c)'
      <4>1. Seen(i, j)' = LogOf(j)
        BY <2>0, <3>4, ReadSees
      <4> QED BY <1>h, <3>2, <4>1 DEF Sealed, SealedFor
    <3>5. CASE BootList(i) \/ BootSibling(i)
      <4>1. \/ ~Touches(Seen(i, j)', c)
            \/ Follows(i, j) /\ c \notin unread[i] /\ Seen(i, j)' = Seen(i, j)
        BY <1>s, <1>2, <2>0, <3>5, BootSees
      <4>2. CASE ~Touches(Seen(i, j)', c)
        BY <3>2, <4>2 DEF SealedFor, Determines
      <4> QED BY <3>3, <4>1, <4>2
    <3>6. \/ Follows(i, j) /\ Seen(i, j)' = Seen(i, j) /\ unread[i] \subseteq unread'[i]
          \/ ReadNew(i) /\ \E n \in Nat : Reads(i, j, n)
          \/ BootList(i) \/ BootSibling(i)
      BY <1>2, <2>0, <2>4, FollowerStep
    <3> QED BY <1>2, <3>3, <3>4, <3>5, <3>6
  <2> QED BY <2>1, <2>2, <2>3, <2>4
<1> QED BY <1>0, <1>1, <1>2, NextSteps

(* Mutations of an instance are of codes that it has created.              *)
LEMMA WritesForeign ==
    ASSUME TypeInv, HadInv, NEW i \in Instances, Shorten(i) \/ Update(i) \/ Remove(i),
           NEW j, j # i, NEW c \in Sole(j), c \in Sole(j)'
    PROVE  index'[i][c] = index[i][c]
<1>t. /\ index \in [Instances -> [Codes -> Entries \cup {None}]]
      /\ granted \in [Codes -> SUBSET Instances] /\ c \in Codes
  BY DEF TypeInv, TypeOK, Sole
<1>1. CASE Shorten(i)
  <2>1. PICK d, x, l :
           /\ d \in Codes /\ Write(i, d, x, l)
           /\ granted' = [granted EXCEPT ![d] = @ \cup {i}]
    BY <1>1, TailAssumption DEF Shorten, Generated
  <2>2. d # c
    BY <1>t, <2>1 DEF Sole
  <2> QED BY <1>t, <2>1, <2>2 DEF Write
<1>2. CASE Update(i) \/ Remove(i)
  <2>1. PICK d, x, l : d \in Codes /\ Mine(i, d) /\ Write(i, d, x, l)
    BY <1>2 DEF Update, Remove
  <2>2. d # c
    BY <1>t, <2>1 DEF Mine, HadInv, Had, Sole
  <2> QED BY <1>t, <2>1, <2>2 DEF Write
<1> QED BY <1>1, <1>2

(* Whatever a follower does but reading on, it comes to have what it was   *)
(* to have.                                                                *)
LEMMA FollowerKeeps ==
    ASSUME TypeInv, StageInv, LinesInv, HadInv, NEW i \in Instances, NEW j \in Instances, i # j,
           Step(i), ReadNew(i) => source'[i] # j,
           ~BootSibling(i), ~BootList(i), ~Crash(i), ~Boot(i),
           NEW c \in Sole(j), c \in Sole(j)', NEW v, Determines(index[i], Coming(i, j), c, v)
    PROVE  Determines(index'[i], Coming(i, j)', c, v)
<1> USE DEF history, tail, files
<1>t. /\ index \in [Instances -> [Codes -> Entries \cup {None}]]
      /\ stray \in [Instances -> [Codes -> Strays]]
      /\ inbox \in [Instances -> Seq(Lines)] /\ c \in Codes
      /\ source \in [Instances -> Nat]
  BY DEF TypeInv, TypeOK, Sole
<1>k. CASE Coming(i, j)' = Coming(i, j) /\ Value(index'[i][c]) = Value(index[i][c])
  BY <1>k, DeterminesBase
<1>1. CASE Shorten(i) \/ Update(i) \/ Remove(i)
  <2>1. UNCHANGED <<inbox, source>>
    BY <1>1 DEF Shorten, Update, Remove, Write
  <2>2. index'[i][c] = index[i][c]
    BY <1>1, WritesForeign
  <2> QED BY <1>k, <2>1, <2>2 DEF Coming
<1>2. CASE Resolve(i) \/ \E d \in Codes : Answer(i, d)
  <2>1. UNCHANGED <<inbox, source>>
    BY <1>2 DEF Resolve, Answer
  <2>2. Value(index'[i][c]) = Value(index[i][c])
    BY <1>t, <1>2, CountedValue
  <2> QED BY <1>k, <2>1, <2>2 DEF Coming
<1>3. CASE ApplyLine(i)
  <2>1. UNCHANGED source /\ inbox'[i] = Tail(inbox[i]) /\ inbox[i] # <<>>
    BY <1>t, <1>3 DEF ApplyLine
  <2>2. CASE source[i] = j
    <3>1. PICK st \in Apply([index |-> index[i], stray |-> stray[i]], Head(inbox[i]), i) :
             index' = [index EXCEPT ![i] = st.index]
      BY <1>3 DEF ApplyLine
    <3>2. Determines(index[i], inbox[i], c, v)
      BY <2>2 DEF Coming
    <3>3. index[i] \in [Codes -> Entries \cup {None}] /\ stray[i] \in [Codes -> Strays]
          /\ inbox[i] \in Seq(Lines)
      BY <1>t
    <3>4. Determines(st.index, Tail(inbox[i]), c, v)
      BY <1>t, <2>1, <3>1, <3>2, <3>3, DeterminesTail
    <3>5. index'[i] = st.index
      BY <1>t, <3>1
    <3> QED BY <2>1, <2>2, <3>4, <3>5 DEF Coming
  <2>3. CASE source[i] # j
    <3>1. Value(index'[i][c]) = Value(index[i][c])
      BY <1>3, <2>3, AppliedForeign
    <3>2. Coming(i, j)' = Coming(i, j)
      BY <2>1, <2>3 DEF Coming
    <3> QED BY <1>k, <3>1, <3>2
  <2> QED BY <2>2, <2>3
<1>4. CASE ReadNew(i)
  <2>1. UNCHANGED index /\ inbox[i] = <<>> /\ source'[i] # j
    BY <1>4 DEF ReadNew
  <2>2. Coming(i, j)' = Coming(i, j)
    BY <2>1 DEF Coming
  <2> QED BY <1>k, <2>1, <2>2
<1>5. CASE \/ Flush(i) \/ Ask(i) \/ Poll(i) \/ Tick(i) \/ CompactSnap(i) \/ CompactTrunc(i)
           \/ BootDone(i)
  <2>1. UNCHANGED <<index, inbox, source>>
    BY <1>5 DEF Flush, Ask, Poll, Tick, CompactSnap, CompactTrunc, BootDone
  <2> QED BY <1>k, <2>1 DEF Coming
<1> QED BY <1>1, <1>2, <1>3, <1>4, <1>5 DEF Step

(* What a read brings: with it the index gets to where the log ends.       *)
LEMMA ReadGives ==
    ASSUME TypeInv, StageInv, LengthInv, NEW i \in Instances, NEW j \in Instances, i # j,
           ReadNew(i), source'[i] = j, NEW c \in Codes, c \notin unread'[i], Agree(i, j, c)
    PROVE  \E w : /\ Determines(index[i], Coming(i, j)', c, w)
                  /\ Determines(snap[j], LogOf(j), c, w)
<1>1. PICK m \in reading[i], k \in Nat :
         /\ Reads(i, m, k) /\ m \in DOMAIN offset[i] /\ offset[i][m] \in Nat
         /\ k \in Resume(i, m, Len(LogOf(m)))
  BY ReadStep
<1>2. m = j
  BY <1>1 DEF Reads, TypeInv
<1> DEFINE L == LogOf(j)
<1>3. L \in Seq(Lines) /\ Len(L) \in Nat
  BY LogOfType
<1>4. inbox[i] = <<>> /\ inbox'[i] = SubSeq(L, k + 1, Len(L))
  BY <1>1, <1>2 DEF ReadNew, Reads, TypeInv, TypeOK
<1>5. k \in 0..Len(L) /\ (j \notin lapsed[i] => k = offset[i][j])
  <2>1. \/ j \in lapsed[i] /\ k \in 0..Len(L)
        \/ j \notin lapsed[i] /\ k = IF Len(L) < offset[i][j] THEN 0 ELSE offset[i][j]
    BY <1>1, <1>2 DEF Resume
  <2>2. offset[i][j] \in Nat /\ (j \notin lapsed[i] => offset[i][j] <= Len(L))
    BY <1>1, <1>2 DEF LengthInv
  <2> HIDE DEF L
  <2> QED BY <1>3, <2>1, <2>2
<1>6. Determines(snap[j], Seen(i, j), c, Value(index[i][c]))
  <2>1. PICK v : Determines(index[i], <<>>, c, v) /\ Determines(snap[j], Seen(i, j), c, v)
    BY <1>4 DEF Agree, Coming
  <2> QED BY <2>1, DeterminesEmpty
<1>7. Determines(snap[j], SubSeq(L, 1, k), c, Value(index[i][c]))
  <2>1. CASE j \notin lapsed[i]
    BY <1>1, <1>2, <1>5, <1>6, <2>1 DEF Seen
  <2>2. CASE j \in lapsed[i]
    <3>1. Value(snap[j][c]) = Value(index[i][c])
      BY <1>6, <2>2, DeterminesEmpty DEF Seen
    <3>2. ~Touches(SubSeq(L, 1, k), c)
      BY <1>1, <1>2, <2>2 DEF Reads, SetBy, TypeInv, TypeOK
    <3> HIDE DEF L
    <3> QED BY <3>1, <3>2 DEF Determines
  <2> QED BY <2>1, <2>2
<1> HIDE DEF L
<1> DEFINE a == SubSeq(L, 1, k)
           b == SubSeq(L, k + 1, Len(L))
<1>8. a \in Seq(Lines) /\ b \in Seq(Lines) /\ a \o b = L
  BY <1>3, <1>5, SplitAt
<1>9. Determines(snap[j], a, c, Value(index[i][c])) /\ inbox'[i] = b
  BY <1>4, <1>7
<1> HIDE DEF a, b
<1>10. PICK w : Determines(index[i], b, c, w)
  BY <1>8, DeterminesSome
<1>11. Determines(snap[j], a \o b, c, w)
  BY <1>8, <1>9, <1>10, DeterminesSplit
<1> QED BY <1>8, <1>9, <1>10, <1>11 DEF Coming, L

LEMMA NextView ==
    ASSUME TypeInv, StageInv, LengthInv, LinesInv, HadInv, SelfInv, TruncInv, ViewInv,
           TypeInv', StageInv', [Next]_vars
    PROVE  ViewInv'
<1> USE DEF history, tail, files
<1> SUFFICES ASSUME NEW i \in Instances, NEW j \in Instances, NEW c \in Codes,
                    Follows(i, j)', c \in Sole(j)', c \notin unread'[i]
             PROVE  Agree(i, j, c)'
  BY DEF ViewInv
<1>s. c \in Sole(j) /\ i # j
  BY GrantsGrow DEF Follows
<1>h. Follows(i, j) /\ c \notin unread[i] => Agree(i, j, c)
  BY <1>s DEF ViewInv
<1>t. /\ offset = [k \in Instances |-> offset[k]] /\ DOMAIN offset = Instances
      /\ Seen(i, j) \in Seq(Lines)
      /\ \A m \in DOMAIN offset[i] : offset[i][m] \in Nat
      /\ lapsed \in [Instances -> SUBSET Instances]
  BY SeenType DEF TypeInv, TypeOK
<1>0. CASE UNCHANGED vars
  <2>1. UNCHANGED <<index, inbox, source, log, snap, offset, lapsed, unread, up, reading>>
    BY <1>0 DEF vars
  <2>2. Seen(i, j)' = Seen(i, j)
    <3>1. LogOf(j)' = LogOf(j)
      BY <2>1 DEF LogOf
    <3> QED BY <2>1, <3>1, SeenSame
  <2> QED BY <1>h, <2>1, <2>2 DEF Agree, Coming, Follows
<1>1. ASSUME NEW k \in Instances, Step(k), k # i, k # j PROVE Agree(i, j, c)'
  <2>1. /\ Same(i) /\ Same(j) /\ unread[i] \subseteq unread'[i]
        /\ Seen(i, j)' = Seen(i, j) /\ Follows(i, j)
    BY <1>1, Bystander
  <2> QED BY <1>h, <2>1 DEF Same, Agree, Coming
<1>2. CASE CompactTrunc(j)
  <2>1. Step(j)
    BY <1>2 DEF Step
  <2>2. Same(i) /\ unread[i] \subseteq unread'[i]
    BY <1>s, <2>1, Others, OthersHistory
  <2>3. Follows(i, j) /\ c \notin unread[i]
    BY <2>2 DEF Same, Follows
  <2>4. cpc[j] = "trunc" /\ UNCHANGED <<snap, offset>> /\ LogOf(j)' = <<>>
    BY <1>2 DEF CompactTrunc, LogOf
  <2>5. PICK v : Determines(index[i], Coming(i, j), c, v) /\ Determines(snap[j], Seen(i, j), c, v)
    BY <1>h, <2>3 DEF Agree
  <2>6. Determines(snap[j], Seen(i, j), c, Value(snap[j][c]))
    BY <1>s, <2>3, <2>4 DEF TruncInv, SealedFor
  <2>7. v = Value(snap[j][c])
    BY <1>t, <2>5, <2>6, DeterminesOne
  <2>8. Seen(i, j)' = <<>>
    <3>1. CASE j \in DOMAIN offset[i] /\ offset[i][j] > 0
      <4>1. j \in lapsed'[i]
        BY <1>s, <1>2, <3>1 DEF CompactTrunc
      <4> QED BY <4>1 DEF Seen
    <3>2. CASE j \in DOMAIN offset[i] /\ ~(offset[i][j] > 0)
      <4>1. offset[i][j] = 0
        BY <1>t, <3>2
      <4>2. SubSeq(LogOf(j)', 1, offset'[i][j]) = <<>>
        BY <2>4, <4>1
      <4> QED BY <4>2 DEF Seen
    <3>3. CASE j \notin DOMAIN offset[i]
      BY <2>4, <3>3 DEF Seen
    <3> QED BY <3>1, <3>2, <3>3
  <2>9. Determines(snap'[j], <<>>, c, v)
    BY <2>4, <2>7, DeterminesEmpty
  <2> QED BY <2>2, <2>5, <2>8, <2>9 DEF Same, Agree, Coming
<1>3. CASE CompactSnap(j)
  <2>1. Step(j) /\ ~CompactTrunc(j)
    BY <1>3 DEF Step, CompactSnap, CompactTrunc
  <2>2. /\ Same(i) /\ Seen(i, j)' = Seen(i, j) /\ Follows(i, j)
        /\ unread[i] \subseteq unread'[i]
    BY <1>s, <2>1, WriterStep
  <2>3. PICK v : Determines(index[i], Coming(i, j), c, v) /\ Determines(snap[j], Seen(i, j), c, v)
    BY <1>h, <2>2 DEF Agree
  <2>4. /\ Determines(snap[j], Seen(i, j), c, Value(index[j][c]))
        /\ Determines(snap'[j], Seen(i, j), c, Value(index[j][c]))
    BY <1>s, <1>3, CompactSees
  <2>5. v = Value(index[j][c])
    BY <1>t, <2>3, <2>4, DeterminesOne
  <2> QED BY <2>2, <2>3, <2>4, <2>5 DEF Same, Agree, Coming
<1>4. CASE Step(j) /\ ~CompactTrunc(j) /\ ~CompactSnap(j)
  <2>1. /\ Same(i) /\ Seen(i, j)' = Seen(i, j) /\ Follows(i, j)
        /\ unread[i] \subseteq unread'[i] /\ snap'[j] = snap[j]
    BY <1>s, <1>4, WriterStep
  <2> QED BY <1>h, <2>1 DEF Same, Agree, Coming
<1>5. CASE BootList(i) \/ BootSibling(i)
  <2>1. Step(i)
    BY <1>5 DEF Step
  <2>2. snap'[j] = snap[j]
    BY <1>s, <2>1, Others DEF Same
  <2>3. inbox[i] = <<>> /\ inbox'[i] = <<>>
    BY <1>5 DEF BootList, BootSibling, StageInv, Stage
  <2>4. Coming(i, j) = <<>> /\ Coming(i, j)' = <<>>
    BY <2>3 DEF Coming
  <2>5. \/ Value(index'[i][c]) = Value(snap[j][c]) /\ ~Touches(Seen(i, j)', c)
        \/ /\ Follows(i, j) /\ c \notin unread[i]
           /\ Seen(i, j)' = Seen(i, j) /\ index'[i][c] = index[i][c]
    BY <1>s, <1>5, BootSees
  <2>6. CASE Value(index'[i][c]) = Value(snap[j][c]) /\ ~Touches(Seen(i, j)', c)
    <3>1. Determines(index'[i], <<>>, c, Value(snap[j][c]))
      BY <2>6, DeterminesEmpty
    <3>2. Determines(snap'[j], Seen(i, j)', c, Value(snap[j][c]))
      BY <2>2, <2>6 DEF Determines
    <3> QED BY <2>4, <3>1, <3>2 DEF Agree
  <2>7. CASE /\ Follows(i, j) /\ c \notin unread[i]
             /\ Seen(i, j)' = Seen(i, j) /\ index'[i][c] = index[i][c]
    <3>1. PICK v : Determines(index[i], <<>>, c, v) /\ Determines(snap[j], Seen(i, j), c, v)
      BY <1>h, <2>4, <2>7 DEF Agree
    <3>2. Determines(index'[i], <<>>, c, v)
      BY <2>7, <3>1, DeterminesBase
    <3> QED BY <2>2, <2>4, <2>7, <3>1, <3>2 DEF Agree
  <2> QED BY <2>5, <2>6, <2>7
<1>6. CASE ReadNew(i) /\ source'[i] = j
  <2>1. Step(i)
    BY <1>6 DEF Step
  <2>2. PICK m \in reading[i], n \in Nat : Reads(i, m, n)
    BY <1>6, ReadStep
  <2>3. m = j
    BY <1>6, <2>2 DEF Reads, TypeInv
  <2>4. Seen(i, j)' = LogOf(j) /\ unread[i] \subseteq unread'[i]
    BY <1>s, <1>6, <2>2, <2>3, ReadSees
  <2>5. UNCHANGED <<up, index>> /\ up[i] = "up" /\ snap'[j] = snap[j]
    BY <1>6 DEF ReadNew
  <2>6. Agree(i, j, c)
    BY <1>h, <1>s, <2>4, <2>5 DEF Follows
  <2>7. \E w : /\ Determines(index[i], Coming(i, j)', c, w)
               /\ Determines(snap[j], LogOf(j), c, w)
    BY <1>s, <1>6, <2>6, ReadGives
  <2> QED BY <2>4, <2>5, <2>7 DEF Agree
<1>7. CASE /\ Step(i) /\ (ReadNew(i) => source'[i] # j)
           /\ ~BootSibling(i) /\ ~BootList(i) /\ ~Crash(i) /\ ~Boot(i)
  <2>1. snap'[j] = snap[j]
    BY <1>s, <1>7, Others DEF Same
  <2>2. Follows(i, j) /\ Seen(i, j)' = Seen(i, j) /\ unread[i] \subseteq unread'[i]
    <3>1. ASSUME NEW n \in Nat, Reads(i, j, n) PROVE source'[i] = j
      BY <3>1 DEF Reads, TypeInv
    <3> QED BY <1>s, <1>7, <3>1, FollowerStep
  <2>3. PICK v : Determines(index[i], Coming(i, j), c, v) /\ Determines(snap[j], Seen(i, j), c, v)
    BY <1>h, <2>2 DEF Agree
  <2>4. Determines(index'[i], Coming(i, j)', c, v)
    BY <1>s, <1>7, <2>3, FollowerKeeps
  <2> QED BY <2>1, <2>2, <2>3, <2>4 DEF Agree
<1>8. CASE Crash(i) \/ Boot(i)
  <2>1. up'[i] \in {"down", "own"}
    BY <1>8 DEF Crash, Boot, TypeInv, TypeOK
  <2> QED BY <2>1 DEF Follows
<1> QED BY <1>0, <1>1, <1>2, <1>3, <1>4, <1>5, <1>6, <1>7, <1>8, NextSteps

ViewsInv ==
    /\ TypeInv /\ StageInv /\ LengthInv /\ LinesInv /\ HadInv
    /\ SelfInv /\ TruncInv /\ ViewInv

LEMMA InitViews == Init => ViewsInv
<1> SUFFICES ASSUME Init PROVE ViewsInv
  OBVIOUS
<1>1. TypeInv /\ StageInv /\ LengthInv
  BY InitType, InitStage
<1>2. LinesInv /\ HadInv
  BY WroteNothing DEF Init, Nothing, LinesInv, HadInv, Had
<1>3. \A i \in Instances : up[i] = "down" /\ cpc[i] = "idle"
  BY DEF Init
<1>4. SelfInv
  BY <1>3 DEF SelfInv, Self
<1>5. TruncInv
  BY <1>3 DEF TruncInv
<1>6. ViewInv
  BY <1>3 DEF ViewInv, Follows
<1> QED BY <1>1, <1>2, <1>4, <1>5, <1>6 DEF ViewsInv

LEMMA NextViews == ViewsInv /\ [Next]_vars => ViewsInv'
<1> SUFFICES ASSUME ViewsInv, [Next]_vars PROVE ViewsInv'
  OBVIOUS
<1>0. /\ TypeInv /\ StageInv /\ LengthInv /\ LinesInv /\ HadInv
      /\ SelfInv /\ TruncInv /\ ViewInv
  BY DEF ViewsInv
<1>1. TypeInv'
  BY <1>0, NextType
<1>2. StageInv'
  BY <1>0, NextStage
<1>3. LengthInv'
  BY <1>0, <1>1, NextLength
<1>4. LinesInv'
  BY <1>0, NextLines
<1>5. HadInv'
  BY <1>0, <1>1, NextHad
<1>6. SelfInv'
  BY <1>0, NextSelf
<1>7. TruncInv'
  BY <1>0, <1>1, <1>6, NextTrunc
<1>8. ViewInv'
  BY <1>0, <1>1, <1>2, NextView
<1> QED BY <1>1, <1>2, <1>3, <1>4, <1>5, <1>6, <1>7, <1>8 DEF ViewsInv

(* What an index and lines in hand say is something clients have stored.   *)
LEMMA ValueKnown ==
    ASSUME TypeInv, LinesInv, HadInv, NEW i \in Instances, NEW j, NEW c \in Codes, NEW v,
           Determines(index[i], Coming(i, j), c, v)
    PROVE  v \in {None} \cup (Urls \X {0})
<1>1. CASE Touches(Coming(i, j), c)
  <2>1. source[i] = j /\ EndsWith(inbox[i], c, v)
    BY <1>1 DEF Determines, Coming, Touches
  <2>2. PICK k \in 1..Len(inbox[i]) : Sets(inbox[i][k], c) /\ LineValue(inbox[i][k]) = v
    BY <2>1 DEF EndsWith
  <2>3. Wrote(granted, source[i], inbox[i][k])
    BY DEF LinesInv, WroteAll
  <2> QED BY <2>2, <2>3 DEF Wrote, Sets, LineValue
<1>2. CASE ~Touches(Coming(i, j), c)
  <2>1. v = Value(index[i][c])
    BY <1>2 DEF Determines
  <2> QED BY <2>1 DEF Value, HadInv, Had
<1> QED BY <1>1, <1>2

(* For any number of instances, whoever crashes, restarts or compacts and  *)
(* whenever: an instance has, of the codes that a sibling alone has        *)
(* created, exactly what the sibling's snapshot and the part of its log    *)
(* that was read say, unless a compaction came between.                    *)
THEOREM TailView == Spec => []PrefixView
<1>1. ASSUME ViewsInv PROVE PrefixView
  <2>0. TypeInv /\ LinesInv /\ HadInv /\ ViewInv
    BY <1>1 DEF ViewsInv
  <2> SUFFICES ASSUME NEW i \in Instances, up[i] = "up",
                      NEW j \in (DOMAIN offset[i] \cap DOMAIN log) \ lapsed[i],
                      NEW c \in Sole(j) \ unread[i]
               PROVE  \E v \in {None} \cup (Urls \X {0}) :
                         /\ Determines(index[i], Coming(i, j), c, v)
                         /\ Determines(snap[j], SubSeq(log[j], 1, offset[i][j]), c, v)
    BY DEF PrefixView
  <2>1. j \in Instances /\ j # i /\ c \in Codes
    BY <2>0 DEF TypeInv, TypeOK, Sole
  <2>2. Agree(i, j, c)
    BY <2>0, <2>1 DEF ViewInv, Follows
  <2>3. PICK v : Determines(index[i], Coming(i, j), c, v) /\ Determines(snap[j], Seen(i, j), c, v)
    BY <2>2 DEF Agree
  <2>4. v \in {None} \cup (Urls \X {0})
    BY <2>0, <2>1, <2>3, ValueKnown
  <2>5. Seen(i, j) = SubSeq(log[j], 1, offset[i][j])
    BY DEF Seen, LogOf
  <2> QED BY <2>3, <2>4, <2>5
<1>2. Spec => []ViewsInv
  BY InitViews, NextViews, PTL DEF Spec
<1> QED BY <1>1, <1>2, PTL

-----------------------------------------------------------------------------
(* A resolve that misses.                                                  *)

LEMMA NoneLine ==
    ASSUME NEW l \in Lines, NEW c, Sets(l, c), LineValue(l) = None
    PROVE  l = DelLine(c)
<1>1. CASE l.k = "row"
  <2>1. l \in RowLines
    BY <1>1 DEF Lines, HitLines, DelLines, JunkLine
  <2>2. <<l.u, l.e>> \in AllUrls \X Nat
    BY <2>1 DEF RowLines
  <2> QED BY <1>1, <2>2, NoneAssumption DEF LineValue
<1>2. CASE l.k = "del"
  <2>1. l \in DelLines
    BY <1>2 DEF Lines, HitLines, RowLines, JunkLine
  <2> QED BY <2>1 DEF DelLines, DelLine, Sets
<1> QED BY <1>1, <1>2 DEF Sets

(* Without a removal among them, further lines do not remove the code.     *)
LEMMA StaysLogged ==
    ASSUME NEW s \in Seq(Lines), NEW t \in Seq(Lines), NEW c, ~EndsWith(s, c, None),
           \A k \in 1..Len(t) : t[k] # DelLine(c)
    PROVE  ~EndsWith(s \o t, c, None)
<1> SUFFICES ASSUME EndsWith(s \o t, c, None) PROVE FALSE
  OBVIOUS
<1>1. PICK k \in 1..Len(s \o t) :
         /\ Sets((s \o t)[k], c) /\ LineValue((s \o t)[k]) = None
         /\ \A m \in (k + 1)..Len(s \o t) : ~Sets((s \o t)[m], c)
  BY DEF EndsWith
<1>2. /\ Len(s) \in Nat /\ Len(t) \in Nat /\ Len(s \o t) = Len(s) + Len(t) /\ k \in Nat
      /\ \A m \in 1..Len(s) : (s \o t)[m] = s[m]
      /\ \A m \in 1..Len(t) : (s \o t)[Len(s) + m] = t[m]
  OBVIOUS
<1>3. CASE k \in 1..Len(s)
  <2>1. Sets(s[k], c) /\ LineValue(s[k]) = None
    BY <1>1, <1>2, <1>3
  <2>2. \A m \in (k + 1)..Len(s) : ~Sets(s[m], c)
    BY <1>1, <1>2, <1>3
  <2> QED BY <1>3, <2>1, <2>2 DEF EndsWith
<1>4. CASE k \notin 1..Len(s)
  <2>1. PICK m \in 1..Len(t) : k = Len(s) + m
    <3>1. k - Len(s) \in 1..Len(t) /\ k = Len(s) + (k - Len(s))
      BY <1>2, <1>4
    <3> QED BY <3>1
  <2>2. t[m] \in Lines /\ Sets(t[m], c) /\ LineValue(t[m]) = None
    <3>1. (s \o t)[k] = t[m]
      BY <1>2, <2>1
    <3>2. t[m] \in Lines
      OBVIOUS
    <3> QED BY <1>1, <3>1, <3>2
  <2> QED BY <2>2, NoneLine
<1> QED BY <1>3, <1>4

LEMMA UnseenLines ==
    ASSUME TypeInv, LengthInv, NEW i \in Instances, NEW j, NEW c,
           \A k \in (Len(Seen(i, j)) + 1)..Len(LogOf(j)) : ~Sets(LogOf(j)[k], c),
           NEW base, NEW v, Determines(base, LogOf(j), c, v)
    PROVE  Determines(base, Seen(i, j), c, v)
<1> DEFINE L == LogOf(j)
<1>1. L \in Seq(Lines) /\ Len(L) \in Nat
  BY LogOfType
<1>2. PICK n \in 0..Len(L) : Seen(i, j) = SubSeq(L, 1, n)
  BY SeenType
<1> HIDE DEF L
<1>3. Len(Seen(i, j)) = n /\ n \in Nat
  BY <1>1, <1>2, SplitAt
<1>4. ~Touches(SubSeq(L, n + 1, Len(L)), c)
  <2> SUFFICES ASSUME NEW m \in 1..Len(SubSeq(L, n + 1, Len(L)))
               PROVE  ~Sets(SubSeq(L, n + 1, Len(L))[m], c)
    BY DEF Touches
  <2>1. SubSeq(L, n + 1, Len(L))[m] = L[n + m] /\ n + m \in (n + 1)..Len(L)
    BY <1>1, <1>3
  <2> QED BY <1>3, <2>1 DEF L
<1>5. Determines(base, SubSeq(L, 1, n), c, v)
  <2>1. Determines(base, L, c, v)
    BY DEF L
  <2> QED BY <1>1, <1>4, <2>1, FirstLines
<1> QED BY <1>2, <1>5

(* When the miss happens, the log has something that was not read.         *)
LEMMA AskStarts ==
    ASSUME ViewsInv, NEW i \in Instances, Ask(i), NEW j \in due'[i], NEW c \in Codes,
           asking'[i] = c, Sought(i, j, c), c \notin unread[i]
    PROVE  i # j /\ ToRead(i, j, c)'
<1> USE DEF history, tail, files
<1>0. TypeInv /\ StageInv /\ LengthInv /\ TruncInv /\ ViewInv
  BY DEF ViewsInv
<1>1. /\ index[i][c] = None
      /\ reading' = [reading EXCEPT ![i] = Missed(i, c)]
      /\ offset' = WithReaders(i, Missed(i, c))
      /\ due' = [due EXCEPT ![i] = IF Limited(i, c) THEN {}
                                   ELSE {m \in Siblings(i) : Logged(m, c)}]
  BY <1>0 DEF Ask, TypeInv, TypeOK
<1>2. UNCHANGED <<log, buf, cpc, lapsed>> /\ up[i] = "up" /\ inbox[i] = <<>>
  BY DEF Ask, LogIdle
<1>3. j \in DOMAIN log /\ j # i /\ Logged(j, c) /\ ~Limited(i, c)
  BY <1>0, <1>1 DEF TypeInv, Siblings
<1>4. j \in Instances /\ j \in reading'[i]
  <2>1. j \in Missed(i, c)
    BY <1>3 DEF Missed, Limited, Sought, PollTargets, Siblings
  <2> QED BY <1>0, <1>1, <1>3, <2>1 DEF TypeInv, TypeOK
<1> DEFINE L == LogOf(j)
<1>5. L \in Seq(Lines) /\ L = log[j] /\ LogOf(j)' = L
  BY <1>0, <1>2, <1>3, LogOfType DEF LogOf
<1> HIDE DEF L
<1>6. Touches(L, c) /\ ~EndsWith(L, c, None) /\ \A k \in 1..Len(buf[j]) : buf[j][k] # DelLine(c)
  BY <1>3, <1>5 DEF Logged
<1>7. Determines(snap[j], Seen(i, j), c, None) /\ Follows(i, j) /\ Seen(i, j) \in Seq(Lines)
  <2>1. Follows(i, j)
    BY <1>2, <1>3 DEF Follows
  <2>2. Agree(i, j, c)
    BY <1>0, <1>4, <2>1 DEF ViewInv, Sought
  <2>3. PICK v : Determines(index[i], <<>>, c, v) /\ Determines(snap[j], Seen(i, j), c, v)
    BY <1>2, <2>2 DEF Agree, Coming
  <2>4. v = None
    BY <1>1, <2>3, DeterminesEmpty DEF Value
  <2> QED BY <1>0, <2>1, <2>3, <2>4, SeenType
<1>8. cpc[j] = "idle"
  <2> SUFFICES ASSUME cpc[j] = "trunc" PROVE FALSE
    BY <1>0, <1>4 DEF TypeInv, TypeOK
  <2>1. Determines(snap[j], L, c, Value(snap[j][c]))
        /\ Determines(snap[j], Seen(i, j), c, Value(snap[j][c]))
    BY <1>0, <1>4, <1>7 DEF TruncInv, Sealed, SealedFor, Sought, L
  <2>2. Value(snap[j][c]) # None
    BY <1>6, <2>1 DEF Determines
  <2> QED BY <1>7, <2>1, <2>2, DeterminesOne
<1>9. \E k \in (Len(Seen(i, j)) + 1)..Len(L) : Sets(L[k], c)
  <2> SUFFICES ASSUME \A k \in (Len(Seen(i, j)) + 1)..Len(L) : ~Sets(L[k], c) PROVE FALSE
    OBVIOUS
  <2>1. PICK w : Determines(snap[j], L, c, w)
    BY <1>5, DeterminesSome
  <2>2. w # None
    BY <1>6, <2>1 DEF Determines
  <2>3. Determines(snap[j], Seen(i, j), c, w)
    BY <1>0, <2>1, UnseenLines DEF L
  <2> QED BY <1>7, <2>2, <2>3, DeterminesOne
<1>10. Seen(i, j)' = Seen(i, j)
  BY <1>0, <1>1, <1>2, SeenReaders
<1> QED BY <1>2, <1>3, <1>4, <1>5, <1>6, <1>8, <1>9, <1>10 DEF ToRead

(* While a resolve waits, what its instance reads is settled.              *)
LEMMA AskGoesOn ==
    ASSUME TypeInv, StageInv, NEW i \in Instances, NEW k \in Instances, Step(k),
           k = i => ~Ask(i), NEW c \in Codes, asking'[i] = c
    PROVE  /\ asking[i] = c /\ up[i] = "up" /\ due'[i] \subseteq due[i]
           /\ unread[i] \subseteq unread'[i] /\ reading'[i] \subseteq reading[i]
           /\ k = i /\ ~ReadNew(i) => reading'[i] = reading[i]
           /\ k = i => /\ ~Poll(i) /\ ~Crash(i) /\ ~Boot(i) /\ ~BootList(i) /\ ~BootSibling(i)
                       /\ ~BootDone(i)
<1> USE DEF history, tail, files
<1>t. /\ asking \in [Instances -> Codes \cup {None}] /\ due \in [Instances -> SUBSET Instances]
      /\ unread \in [Instances -> SUBSET Codes] /\ reading \in [Instances -> SUBSET Nat]
      /\ up \in [Instances -> {"down", "own", "boot", "up"}] /\ c # None
  BY NoneAssumption DEF TypeInv, TypeOK
<1>u. ASSUME asking[i] = c PROVE up[i] = "up"
  BY <1>t, <1>u DEF StageInv, Stage
<1>1. CASE k # i
  <2>1. Same(i) /\ unread[i] \subseteq unread'[i]
    BY <1>1, Others, OthersHistory
  <2>2. asking[i] = c /\ reading'[i] = reading[i]
    BY <2>1 DEF Same
  <2>3. due'[i] \subseteq due[i]
    <3>1. CASE Remove(k)
      BY <1>t, <3>1 DEF Remove
    <3>2. CASE Ask(k) \/ Crash(k) \/ \E d \in Codes : Answer(k, d)
      BY <1>t, <1>1, <3>2 DEF Ask, Crash, Answer
    <3>3. CASE ~Remove(k) /\ ~Ask(k) /\ ~Crash(k) /\ ~\E d \in Codes : Answer(k, d)
      <4>1. UNCHANGED due
        BY <3>3 DEF Step, Shorten, Update, Write, Flush, Resolve, Poll, ReadNew, ApplyLine, Tick,
           CompactSnap, CompactTrunc, Boot, BootList, BootSibling, BootDone
      <4> QED BY <4>1
    <3> QED BY <3>1, <3>2, <3>3
  <2> QED BY <1>u, <1>1, <2>1, <2>2, <2>3
<1>2. CASE k = i
  <2>1. ~Crash(i) /\ ~\E d \in Codes : Answer(i, d)
    BY <1>t DEF Crash, Answer
  <2>2. asking[i] = c
    BY <1>2, <2>1 DEF Step, Shorten, Update, Remove, Write, Flush, Resolve, Poll, ReadNew,
       ApplyLine, Tick, CompactSnap, CompactTrunc, Boot, BootList, BootSibling, BootDone
  <2>3. up[i] = "up"
    BY <1>u, <2>2
  <2>4. ~Poll(i) /\ ~Boot(i) /\ ~BootList(i) /\ ~BootSibling(i) /\ ~BootDone(i)
    BY <1>t, <2>2, <2>3 DEF Poll, LogIdle, Boot, BootList, BootSibling, BootDone
  <2>5. CASE ReadNew(i)
    <3>1. PICK m \in reading[i], n \in Nat : Reads(i, m, n)
      BY <2>5, ReadStep
    <3>2. UNCHANGED due
      BY <2>5 DEF ReadNew
    <3> QED BY <1>t, <2>1, <2>2, <2>3, <2>4, <2>5, <3>1, <3>2 DEF Reads
  <2>6. CASE CompactSnap(i)
    BY <1>t, <2>1, <2>2, <2>3, <2>4, <2>6 DEF CompactSnap
  <2>7. CASE Remove(i)
    <3>1. UNCHANGED <<reading, unread>> /\ due'[i] \subseteq due[i]
      BY <1>t, <2>7 DEF Remove, Write
    <3> QED BY <2>1, <2>2, <2>3, <2>4, <3>1
  <2>8. CASE \/ Shorten(i) \/ Update(i) \/ Flush(i) \/ Resolve(i) \/ ApplyLine(i) \/ Tick(i)
             \/ CompactTrunc(i)
    <3>1. UNCHANGED <<reading, unread, due>>
      BY <2>8 DEF Shorten, Update, Write, Flush, Resolve, ApplyLine, Tick, CompactTrunc
    <3> QED BY <2>1, <2>2, <2>3, <2>4, <3>1
  <2> QED BY <1>2, <2>1, <2>4, <2>5, <2>6, <2>7, <2>8 DEF Step
<1> QED BY <1>1, <1>2

(* Lines that a follower has yet to read stay in the log until they are    *)
(* compacted, and a removal is known to those who wait.                    *)
LEMMA WriterWaits ==
    ASSUME ViewsInv, NEW i \in Instances, NEW j \in Instances, i # j, Step(j),
           NEW c \in Sole(j), c \notin unread'[i], asking[i] = c, j \in due'[i],
           ToRead(i, j, c)
    PROVE  ToRead(i, j, c)'
<1> USE DEF history, tail, files
<1>0. TypeInv /\ StageInv /\ LengthInv /\ LinesInv /\ HadInv /\ SelfInv
  BY DEF ViewsInv
<1>t. /\ buf \in [Instances -> Seq(Lines)] /\ cpc \in [Instances -> {"idle", "trunc"}]
      /\ due \in [Instances -> SUBSET Instances]
  BY <1>0 DEF TypeInv, TypeOK
<1>1. ~CompactTrunc(j)
  BY DEF ToRead, CompactTrunc
<1>2. ~CompactSnap(j)
  <2> SUFFICES ASSUME CompactSnap(j) PROVE FALSE
    OBVIOUS
  <2>1. \A k \in (Len(Seen(i, j)) + 1)..Len(LogOf(j)) : ~Sets(LogOf(j)[k], c)
    BY <1>0, CompactSees
  <2> QED BY <2>1 DEF ToRead
<1>3. Same(i) /\ Seen(i, j)' = Seen(i, j)
  BY <1>0, <1>1, WriterStep
<1>4. j \in reading'[i] /\ cpc'[j] = "idle"
  <2>1. j \in reading'[i]
    BY <1>3 DEF Same, ToRead
  <2>2. cpc'[j] = "idle"
    BY <1>t, <1>1, <1>2 DEF ToRead, Step, Shorten, Update, Remove, Write, Flush, Resolve, Ask,
       Poll, ReadNew, ApplyLine, Answer, Tick, Crash, Boot, BootList, BootSibling, BootDone
  <2> QED BY <2>1, <2>2
<1>5. CASE Flush(j)
  <2>1. PICK s \in Orders(Deltas(j)) : FlushTo(j, s)
    BY <1>5 DEF Flush
  <2>2. up[j] = "up"
    BY <1>5 DEF Flush
  <2>3. /\ s \in Seq(HitLines) /\ s \in Seq(Lines) /\ LogOf(j)' = (LogOf(j) \o buf[j]) \o s
    BY <1>0, <2>1, <2>2, FlushLog
  <2> DEFINE L == LogOf(j)
             B == L \o buf[j]
  <2>4. L \in Seq(Lines) /\ buf[j] \in Seq(Lines)
    BY <1>0, <1>t, LogOfType
  <2> HIDE DEF L
  <2>5. B \in Seq(Lines) /\ Len(B) = Len(L) + Len(buf[j]) /\ \A k \in 1..Len(L) : B[k] = L[k]
    BY <2>4
  <2>6. ~EndsWith(B, c, None)
    BY <2>4, StaysLogged DEF ToRead, L
  <2> HIDE DEF B
  <2>7. B \o s \in Seq(Lines) /\ Len(B \o s) = Len(B) + Len(s)
        /\ \A k \in 1..Len(B) : (B \o s)[k] = B[k]
    <3>1. B \in Seq(Lines) /\ s \in Seq(Lines)
      BY <2>3, <2>5
    <3> QED BY <3>1
  <2>8. ~EndsWith(B \o s, c, None)
    <3>1. ASSUME NEW k \in 1..Len(s) PROVE s[k] # DelLine(c)
      <4>1. s[k] \in HitLines
        BY <2>3
      <4> QED BY <4>1 DEF HitLines, DelLine
    <3> QED BY <2>3, <2>5, <2>6, <3>1, StaysLogged
  <2>9. \E k \in (Len(Seen(i, j)) + 1)..Len(B \o s) : Sets((B \o s)[k], c)
    <3>1. PICK k \in (Len(Seen(i, j)) + 1)..Len(L) : Sets(L[k], c)
      BY DEF ToRead, L
    <3>2. Len(Seen(i, j)) \in Nat /\ Len(L) \in Nat /\ Len(buf[j]) \in Nat /\ Len(s) \in Nat
      <4>1. Seen(i, j) \in Seq(Lines)
        BY <1>0, SeenType
      <4> QED BY <2>3, <2>4, <4>1
    <3>3. k \in 1..Len(L) /\ k \in 1..Len(B) /\ k \in (Len(Seen(i, j)) + 1)..Len(B \o s)
      BY <2>5, <2>7, <3>2
    <3>4. (B \o s)[k] = L[k]
      BY <2>5, <2>7, <3>3
    <3> QED BY <3>1, <3>3, <3>4
  <2>10. LogOf(j)' = B \o s
    BY <2>3 DEF B, L
  <2>11. buf'[j] = <<>>
    BY <1>t, <2>1 DEF FlushTo
  <2>12. \A k \in 1..Len(buf'[j]) : buf'[j][k] # DelLine(c)
    BY <2>11
  <2> QED BY <1>3, <1>4, <2>8, <2>9, <2>10, <2>12 DEF ToRead
<1>6. CASE ~Flush(j)
  <2>1. LogOf(j)' = LogOf(j)
    <3>1. CASE Boot(j)
      BY <3>1 DEF Boot, LogOf
    <3>2. CASE ~Boot(j)
      <4>1. UNCHANGED log
        BY <1>1, <1>2, <1>6, <3>2 DEF Step, Shorten, Update, Remove, Write, Resolve, Ask, Poll,
           ReadNew, ApplyLine, Answer, Tick, Crash, BootList, BootSibling, BootDone
      <4> QED BY <4>1 DEF LogOf
    <3> QED BY <3>1, <3>2
  <2>2. \A k \in 1..Len(buf'[j]) : buf'[j][k] # DelLine(c)
    <3>0. \A k \in 1..Len(buf[j]) : buf[j][k] # DelLine(c)
      BY DEF ToRead
    <3>1. ASSUME NEW d, NEW x, NEW l, Write(j, d, x, l), l # DelLine(c)
          PROVE  \A k \in 1..Len(buf'[j]) : buf'[j][k] # DelLine(c)
      <4>1. buf'[j] = Append(buf[j], l) /\ buf[j] \in Seq(Lines)
        BY <1>t, <3>1 DEF Write
      <4> QED BY <3>0, <3>1, <4>1
    <3>2. CASE Shorten(j) \/ Update(j)
      <4>1. PICK d, u, x : d \in Codes /\ Write(j, d, x, RowLine(d, u, 0, j, 0))
        BY <3>2, TailAssumption DEF Shorten, Update, Generated
      <4>2. RowLine(d, u, 0, j, 0) # DelLine(c)
        BY DEF RowLine, DelLine
      <4> QED BY <3>1, <4>1, <4>2
    <3>3. CASE Remove(j)
      <4>1. PICK d \in Codes :
               /\ Write(j, d, None, DelLine(d))
               /\ due' = [k \in Instances |-> IF asking[k] = d THEN due[k] \ {j} ELSE due[k]]
        BY <3>3 DEF Remove
      <4>2. d # c
        BY <4>1
      <4>3. DelLine(d).c = d /\ DelLine(c).c = c
        BY DEF DelLine
      <4>4. DelLine(d) # DelLine(c)
        BY <4>2, <4>3
      <4> QED BY <3>1, <4>1, <4>4
    <3>4. CASE Crash(j)
      <4>1. buf'[j] = <<>>
        BY <1>t, <3>4 DEF Crash
      <4> QED BY <4>1
    <3>5. CASE ~Shorten(j) /\ ~Update(j) /\ ~Remove(j) /\ ~Crash(j)
      <4>1. UNCHANGED buf
        BY <1>1, <1>2, <1>6, <3>5 DEF Step, Resolve, Ask, Poll, ReadNew, ApplyLine, Answer, Tick,
           Boot, BootList, BootSibling, BootDone
      <4> QED BY <3>0, <4>1
    <3> QED BY <3>2, <3>3, <3>4, <3>5
  <2> QED BY <1>3, <1>4, <2>1, <2>2 DEF ToRead
<1> QED BY <1>5, <1>6

LEMMA NextAsk == ASSUME ViewsInv, AskInv, [Next]_vars PROVE AskInv'
<1> USE DEF history, tail, files
<1>0. TypeInv /\ StageInv /\ LengthInv /\ LinesInv /\ HadInv /\ SelfInv /\ TruncInv /\ ViewInv
  BY DEF ViewsInv
<1> SUFFICES ASSUME NEW i \in Instances, NEW j \in Instances, NEW c \in Codes,
                    asking'[i] = c, j \in due'[i], Sought(i, j, c)', c \notin unread'[i]
             PROVE  i # j /\ (ToRead(i, j, c)' \/ Found(i, j, c)')
  BY DEF AskInv
<1>s. c \in Sole(j) /\ c \in Sole(j)' /\ Sought(i, j, c)
  BY <1>0, GrantsGrow DEF Sought, Prefixed
<1>1. CASE UNCHANGED vars
  <2>1. UNCHANGED <<index, inbox, source, log, buf, cpc, offset, lapsed, unread, reading,
                    asking, due>>
    BY <1>1 DEF vars
  <2>2. LogOf(j)' = LogOf(j)
    BY <2>1 DEF LogOf
  <2>3. Seen(i, j)' = Seen(i, j)
    BY <2>1, <2>2, SeenSame
  <2>4. i # j /\ (ToRead(i, j, c) \/ Found(i, j, c))
    BY <1>s, <2>1 DEF AskInv
  <2> QED BY <2>1, <2>2, <2>3, <2>4 DEF ToRead, Found, Coming
<1>2. CASE Ask(i)
  <2>1. UNCHANGED unread
    BY <1>2 DEF Ask
  <2> QED BY <1>s, <1>2, <2>1, AskStarts
<1>3. ASSUME NEW k \in Instances, Step(k), k = i => ~Ask(i)
      PROVE  i # j /\ (ToRead(i, j, c)' \/ Found(i, j, c)')
  <2>1. /\ asking[i] = c /\ up[i] = "up" /\ j \in due[i]
        /\ c \notin unread[i] /\ reading'[i] \subseteq reading[i]
        /\ k = i /\ ~ReadNew(i) => reading'[i] = reading[i]
        /\ k = i => /\ ~Crash(i) /\ ~Boot(i) /\ ~BootList(i) /\ ~BootSibling(i)
    BY <1>0, <1>3, AskGoesOn
  <2>2. i # j /\ (ToRead(i, j, c) \/ Found(i, j, c))
    BY <1>s, <2>1 DEF AskInv
  <2>r. ASSUME ReadNew(i)
        PROVE  \E m \in reading[i] : source'[i] = m /\ reading'[i] = reading[i] \ {m}
    <3>1. PICK m \in reading[i], n \in Nat : Reads(i, m, n)
      BY <1>0, <2>r, ReadStep
    <3> QED BY <1>0, <3>1 DEF Reads, TypeInv
  <2>3. CASE Found(i, j, c)
    <3>1. PICK v : v # None /\ Determines(index[i], Coming(i, j), c, v)
      BY <2>3 DEF Found
    <3>2. j \notin reading[i] /\ j \notin reading'[i]
      BY <2>1, <2>3 DEF Found
    <3>3. CASE k # i
      <4>1. Same(i)
        BY <1>0, <1>3, <3>3, Others
      <4> QED BY <2>2, <3>1, <3>2, <4>1 DEF Same, Coming, Found
    <3>4. CASE k = i
      <4>1. ReadNew(i) => source'[i] # j
        BY <2>r, <3>2
      <4>2. Determines(index'[i], Coming(i, j)', c, v)
        BY <1>0, <1>s, <1>3, <2>1, <2>2, <3>1, <3>4, <4>1, FollowerKeeps
      <4> QED BY <2>2, <3>1, <3>2, <4>2 DEF Found
    <3> QED BY <3>3, <3>4
  <2>4. CASE ToRead(i, j, c)
    <3>1. CASE k # i /\ k # j
      <4>1. Same(i) /\ Same(j) /\ Seen(i, j)' = Seen(i, j)
        BY <1>0, <1>3, <3>1, Bystander
      <4> QED BY <2>2, <2>4, <4>1 DEF Same, ToRead
    <3>2. CASE k = j
      BY <1>s, <1>3, <2>1, <2>2, <2>4, <3>2, WriterWaits
    <3>3. CASE k = i /\ ReadNew(i) /\ source'[i] = j
      <4>1. Agree(i, j, c)
        BY <1>0, <1>s, <2>1, <2>2 DEF ViewInv, Follows
      <4>2. PICK w : /\ Determines(index[i], Coming(i, j)', c, w)
                     /\ Determines(snap[j], LogOf(j), c, w)
        BY <1>0, <2>2, <3>3, <4>1, ReadGives
      <4>3. Touches(LogOf(j), c)
        <5>1. PICK m \in (Len(Seen(i, j)) + 1)..Len(LogOf(j)) : Sets(LogOf(j)[m], c)
          BY <2>4 DEF ToRead
        <5>2. Len(Seen(i, j)) \in Nat /\ Len(LogOf(j)) \in Nat
          <6>1. Seen(i, j) \in Seq(Lines)
            BY <1>0, SeenType
          <6> QED BY <1>0, <6>1, LogOfType
        <5>3. m \in 1..Len(LogOf(j))
          BY <5>2
        <5> QED BY <5>1, <5>3 DEF Touches
      <4>4. w # None
        BY <2>4, <4>2, <4>3 DEF ToRead, Determines
      <4>5. UNCHANGED index /\ j \notin reading'[i]
        BY <2>r, <3>3 DEF ReadNew
      <4> QED BY <2>2, <4>2, <4>4, <4>5 DEF Found
    <3>4. CASE k = i /\ (ReadNew(i) => source'[i] # j)
      <4>1. Same(j)
        BY <1>0, <1>3, <2>2, <3>4, Others
      <4>2. j \in reading'[i]
        BY <2>r, <2>1, <2>4, <3>4 DEF ToRead
      <4>3. Seen(i, j)' = Seen(i, j)
        <5>1. Follows(i, j)'
          <6>1. up'[i] = "up"
            BY <1>3, <2>1, <3>4 DEF Step, Shorten, Update, Remove, Write, Flush, Resolve, Poll,
               ReadNew, ApplyLine, Answer, Tick, CompactSnap, CompactTrunc, BootDone
          <6> QED BY <2>2, <6>1 DEF Follows
        <5>2. ASSUME NEW n \in Nat, Reads(i, j, n) PROVE source'[i] = j
          BY <1>0, <5>2 DEF Reads, TypeInv
        <5> QED BY <1>0, <1>3, <2>1, <2>2, <3>4, <5>1, <5>2, FollowerStep
      <4> QED BY <2>2, <2>4, <4>1, <4>2, <4>3 DEF Same, ToRead
    <3> QED BY <3>1, <3>2, <3>3, <3>4
  <2> QED BY <2>2, <2>3, <2>4
<1> QED BY <1>1, <1>2, <1>3, NextSteps

(* A link in the log of the only instance that ever created it, when a     *)
(* request for it missed, is found by that request: for any number of      *)
(* instances, prefixes and aliases, and any steps of the others between    *)
(* the miss and the answer, unless one of them removes it or compacts it   *)
(* away unread.                                                            *)
THEOREM TailMiss == Spec => MissFindsFlushed
<1>1. Init => AskInv
  <2>1. Init => \A i \in Instances : due[i] = {}
    BY DEF Init
  <2> QED BY <2>1 DEF AskInv
<1>2. Spec => [](ViewsInv /\ AskInv)
  <2>1. ViewsInv /\ AskInv /\ [Next]_vars => (ViewsInv /\ AskInv)'
    BY NextViews, NextAsk
  <2> QED BY <1>1, <2>1, InitViews, PTL DEF Spec
<1> DEFINE Step1 == \A i \in Instances, c \in Codes :
                       Answer(i, c) /\ index[i][c] = None =>
                           \A j \in due[i] : Sought(i, j, c) => c \in unread[i]
<1>3. ASSUME ViewsInv, AskInv PROVE Step1
  <2> SUFFICES ASSUME NEW i \in Instances, NEW c \in Codes, Answer(i, c), index[i][c] = None,
                      NEW j \in due[i], Sought(i, j, c), c \notin unread[i]
               PROVE  FALSE
    OBVIOUS
  <2>1. asking[i] = c /\ reading[i] = {} /\ inbox[i] = <<>> /\ j \in Instances
    BY <1>3 DEF Answer, ViewsInv, TypeInv
  <2>2. ToRead(i, j, c) \/ Found(i, j, c)
    BY <1>3, <2>1 DEF AskInv
  <2>3. PICK v : v # None /\ Determines(index[i], <<>>, c, v)
    BY <2>1, <2>2 DEF ToRead, Found, Coming
  <2> QED BY <2>3, DeterminesEmpty DEF Value
<1>4. ViewsInv /\ AskInv => [Step1]_vars
  BY <1>3
<1> QED BY <1>2, <1>4, PTL DEF MissFindsFlushed

-----------------------------------------------------------------------------
(* The hits.  They add up as long as nobody updates, removes or compacts,  *)
(* and the map of stray hits has room for every code.                      *)
Additive ==
    /\ Ops \cap {"update", "remove"} = {}
    /\ Budget["compact"] = 0
    /\ Cardinality(Codes) < MaxStray

(* How many lines of log j instance i has applied, also while it replays   *)
(* its own.                                                                *)
Done(i, j) ==
    IF j # i THEN (IF j \in DOMAIN offset[i] THEN offset[i][j] - Len(Coming(i, j)) ELSE 0)
    ELSE IF up[i] = "down" THEN 0
    ELSE IF up[i] = "own" THEN Len(LogOf(i)) - Len(inbox[i])
    ELSE Len(LogOf(i))

(* The hits that those lines record.                                       *)
HitsOf(j, k, c) == {<<j, k, m>> : m \in Hits(LogOf(j)[k], c)}
Recorded(i, c) == UNION {UNION {HitsOf(j, k, c) : k \in 1..Done(i, j)} : j \in Instances}

Shown(i, c) == Tally(index[i], stray[i], c)

(* Nothing is compacted, so files have rows without hits, and hits.        *)
PlainInv ==
    \A j \in Instances :
        /\ cpc[j] = "idle" /\ lapsed[j] = {} /\ \A c \in Codes : snap[j][c] = None
        /\ \A k \in 1..Len(LogOf(j)) : /\ LogOf(j)[k].k \in {"row", "hit"}
                                       /\ LogOf(j)[k].k = "row" => LogOf(j)[k].n = 0
        /\ \A k \in 1..Len(buf[j]) : buf[j][k].k = "row" /\ buf[j][k].n = 0

(* What an instance has read is what it has to apply next.                 *)
InboxInv ==
    \A i \in Instances :
        /\ \A j \in Instances : Done(i, j) \in 0..Len(LogOf(j))
        /\ inbox[i] # <<>> => source[i] \in Instances
        /\ inbox[i] # <<>> /\ up[i] = "up" => source[i] \in DOMAIN offset[i]
        /\ \A j \in Instances, k \in 1..Len(inbox[i]) :
              source[i] = j => /\ Done(i, j) + k <= Len(LogOf(j))
                               /\ inbox[i][k] = LogOf(j)[Done(i, j) + k]

(* No instance writes two rows of a code that it alone has created.        *)
OnceInv ==
    \A j \in Instances : \A c \in Sole(j) :
        /\ \A k, n \in 1..Len(LogOf(j)) : IsRow(LogOf(j)[k], c) /\ IsRow(LogOf(j)[n], c) => k = n
        /\ \A k, n \in 1..Len(buf[j]) : IsRow(buf[j][k], c) /\ IsRow(buf[j][n], c) => k = n
        /\ \A k \in 1..Len(LogOf(j)), n \in 1..Len(buf[j]) :
              ~(IsRow(LogOf(j)[k], c) /\ IsRow(buf[j][n], c))

(* Who has applied the row, and its creator, has the entry.                *)
RowInv ==
    \A i, j \in Instances : \A c \in Sole(j) :
        index[i][c] # None <=>
            \/ \E k \in 1..Done(i, j) : IsRow(LogOf(j)[k], c)
            \/ i = j /\ \E k \in 1..Len(buf[j]) : IsRow(buf[j][k], c)

SumInv ==
    \A i, j \in Instances : \A c \in Sole(j) :
        /\ IsFiniteSet(Recorded(i, c))
        /\ Shown(i, c) = Cardinality(Recorded(i, c)) + dirty[i][c]

(* What the hits need is done by no other step.                            *)
LEMMA NoneCompacts ==
    ASSUME Additive, TypeInv, PlainInv, NEW i \in Instances
    PROVE  ~CompactSnap(i) /\ ~CompactTrunc(i) /\ ~Update(i) /\ ~Remove(i)
<1>1. spent["compact"] \in Nat
  BY DEF TypeInv, Kinds
<1>2. ~Spend("compact")
  BY <1>1 DEF Additive, Spend
<1>3. cpc[i] # "trunc"
  BY DEF PlainInv
<1>4. "update" \notin Ops /\ "remove" \notin Ops
  BY DEF Additive
<1> QED BY <1>2, <1>3, <1>4 DEF CompactSnap, CompactTrunc, Update, Remove, Serving

(* What a flush appends: the queue, and the hits.                          *)
LEMMA FlushLines ==
    ASSUME TypeInv, StageInv, NEW i \in Instances, Flush(i)
    PROVE  \E s \in Orders(Deltas(i)) :
              LET a == Len(LogOf(i))
                  b == Len(buf[i])
              IN  /\ a \in Nat /\ b \in Nat /\ Len(s) \in Nat /\ s \in Seq(HitLines)
                  /\ Len(LogOf(i)') = a + b + Len(s)
                  /\ \A k \in 1..a : LogOf(i)'[k] = LogOf(i)[k]
                  /\ \A k \in 1..b : LogOf(i)'[a + k] = buf[i][k]
                  /\ \A k \in 1..Len(s) : LogOf(i)'[a + b + k] = s[k]
<1>1. PICK s \in Orders(Deltas(i)) : FlushTo(i, s)
  BY DEF Flush
<1>2. s \in Seq(HitLines) /\ LogOf(i)' = (LogOf(i) \o buf[i]) \o s
  BY <1>1, FlushLog DEF Flush
<1> DEFINE a == LogOf(i)
           b == buf[i]
           z == LogOf(i)'
<1>3. a \in Seq(Lines) /\ b \in Seq(Lines)
  BY LogOfType DEF TypeInv, TypeOK
<1>4. /\ Len(a) \in Nat /\ Len(b) \in Nat /\ Len(s) \in Nat /\ a \o b \in Seq(Lines)
      /\ Len(a \o b) = Len(a) + Len(b) /\ s \in Seq(Lines)
  BY <1>2, <1>3 DEF Lines
<1>5. Len((a \o b) \o s) = Len(a) + Len(b) + Len(s)
  BY <1>4
<1>6. /\ \A n \in 1..Len(a) : (a \o b)[n] = a[n]
      /\ \A n \in 1..Len(b) : (a \o b)[Len(a) + n] = b[n]
  BY <1>3
<1>7. /\ \A n \in 1..Len(a \o b) : ((a \o b) \o s)[n] = (a \o b)[n]
      /\ \A n \in 1..Len(s) : ((a \o b) \o s)[Len(a \o b) + n] = s[n]
  BY <1>4
<1>8. z = (a \o b) \o s
  BY <1>2
<1> HIDE DEF a, b, z
<1>9. \A k \in 1..Len(a) : z[k] = a[k]
  BY <1>4, <1>6, <1>7, <1>8
<1>10. \A k \in 1..Len(b) : z[Len(a) + k] = b[k]
  BY <1>4, <1>6, <1>7, <1>8
<1>11. \A k \in 1..Len(s) : z[Len(a) + Len(b) + k] = s[k]
  BY <1>4, <1>7, <1>8
<1> QED BY <1>2, <1>4, <1>5, <1>8, <1>9, <1>10, <1>11 DEF a, b, z

(* Logs only grow, at their end and by the timer of their instance.        *)
LEMMA LogsGrow ==
    ASSUME Additive, TypeInv, StageInv, PlainInv, NEW i \in Instances, Step(i), NEW j \in Instances
    PROVE  /\ ~Flush(i) \/ j # i => LogOf(j)' = LogOf(j)
           /\ Len(LogOf(j)) \in Nat /\ Len(LogOf(j)') \in Nat /\ Len(LogOf(j)) <= Len(LogOf(j)')
           /\ \A k \in 1..Len(LogOf(j)) : LogOf(j)'[k] = LogOf(j)[k]
<1>0. LogOf(j) \in Seq(Lines) /\ Len(LogOf(j)) \in Nat
  BY LogOfType
<1>1. CASE j # i
  <2>1. LogOf(j)' = LogOf(j)
    BY <1>1, Others DEF Same
  <2> QED BY <1>0, <1>1, <2>1
<1>2. CASE j = i /\ Flush(i)
  <2> DEFINE n == LogOf(i)'
             b == Len(buf[i])
  <2>1. PICK s \in Orders(Deltas(i)) :
           /\ b \in Nat /\ Len(s) \in Nat /\ Len(n) = Len(LogOf(i)) + b + Len(s)
           /\ \A k \in 1..Len(LogOf(i)) : n[k] = LogOf(i)[k]
    BY <1>2, FlushLines
  <2> HIDE DEF n, b
  <2>2. Len(n) \in Nat /\ Len(LogOf(i)) <= Len(n)
    BY <1>0, <1>2, <2>1
  <2> QED BY <1>0, <1>2, <2>1, <2>2 DEF n
<1>3. CASE j = i /\ ~Flush(i)
  <2>1. UNCHANGED log \/ Boot(i)
    BY <1>3, NoneCompacts DEF Step, Shorten, Write, Resolve, Ask, Poll, ReadNew, ApplyLine, Answer,
         Tick, Crash, BootList, BootSibling, BootDone, files, history, tail
  <2>2. LogOf(j)' = LogOf(j)
    BY <2>1 DEF Boot, LogOf
  <2> QED BY <1>0, <1>3, <2>2
<1> QED BY <1>1, <1>2, <1>3

(* The others' places and hits do not change.                              *)
LEMMA OthersPlace ==
    ASSUME TypeInv, StageInv, NEW i \in Instances, Step(i), NEW k \in Instances, k # i,
           NEW j
    PROVE  Done(k, j)' = Done(k, j) /\ dirty'[k] = dirty[k]
<1>1. Same(k)
  BY Others
<1>2. Done(k, j)' = Done(k, j)
  BY <1>1 DEF Same, Done, Coming
<1>3. dirty'[k] = dirty[k]
  <2>1. dirty \in [Instances -> [Codes -> Nat]]
    BY DEF TypeInv, TypeOK
  <2> QED BY <2>1 DEF Step, Shorten, Update, Remove, Write, Flush, FlushTo, Resolve, CountHit, Ask,
       Poll, ReadNew, ApplyLine, Answer, Tick, CompactSnap, CompactTrunc, Crash, Boot, BootList,
       BootSibling, BootDone, files, history, tail
<1> QED BY <1>2, <1>3

(* The place of the instance that makes a step changes when it applies a   *)
(* line, flushes or crashes.                                               *)
LEMMA ActorPlace ==
    ASSUME Additive, TypeInv, StageInv, LengthInv, PlainInv, NEW i \in Instances, Step(i),
           ~Flush(i), ~ApplyLine(i), ~Crash(i), NEW j \in Instances
    PROVE  Done(i, j)' = Done(i, j)
<1>l. LogOf(i)' = LogOf(i) /\ Len(LogOf(i)) \in Nat
  BY LogsGrow
<1>t. /\ up \in [Instances -> {"down", "own", "boot", "up"}]
      /\ inbox \in [Instances -> Seq(Lines)] /\ source \in [Instances -> Nat]
      /\ offset = [k \in Instances |-> offset[k]] /\ DOMAIN offset = Instances
      /\ offset[i] \in [DOMAIN offset[i] -> Nat] /\ i \notin DOMAIN offset[i]
  BY DEF TypeInv, TypeOK
<1>e. Len(<<>>) = 0 /\ (inbox[i] = <<>> => Coming(i, j) = <<>>)
  BY DEF Coming
<1>1. CASE Shorten(i) \/ Resolve(i) \/ (\E c \in Codes : Answer(i, c)) \/ Tick(i)
  <2>1. UNCHANGED <<up, offset, inbox, source>>
    BY <1>1 DEF Shorten, Write, Resolve, Answer, Tick, tail
  <2> QED BY <1>l, <2>1 DEF Done, Coming
<1>2. CASE Ask(i) \/ Poll(i)
  <2>1. UNCHANGED <<up, inbox, source>> /\ inbox[i] = <<>> /\ up[i] = "up"
    BY <1>2 DEF Ask, Poll, LogIdle
  <2>2. PICK J : offset' = WithReaders(i, J)
    BY <1>2 DEF Ask, Poll
  <2>3. offset'[i] = [m \in J \cup DOMAIN offset[i] |->
                          IF m \in DOMAIN offset[i] THEN offset[i][m] ELSE 0]
    BY <1>t, <2>2 DEF WithReaders
  <2>4. Coming(i, j) = <<>> /\ Coming(i, j)' = <<>>
    BY <2>1 DEF Coming
  <2>5. CASE j = i
    BY <1>l, <2>1, <2>5 DEF Done
  <2>6. CASE j # i
    <3>1. CASE j \in DOMAIN offset[i]
      <4>1. j \in DOMAIN offset'[i] /\ offset'[i][j] = offset[i][j]
        BY <2>3, <3>1
      <4> QED BY <2>4, <2>6, <3>1, <4>1 DEF Done
    <3>2. CASE j \notin DOMAIN offset[i]
      <4>1. j \in DOMAIN offset'[i] => offset'[i][j] = 0
        BY <2>3, <3>2
      <4> QED BY <1>e, <2>4, <2>6, <3>2, <4>1 DEF Done
    <3> QED BY <3>1, <3>2
  <2> QED BY <2>5, <2>6
<1>3. CASE ReadNew(i)
  <2>1. PICK m \in reading[i], n \in Nat :
           /\ Reads(i, m, n) /\ m \in DOMAIN offset[i] /\ m # i /\ LogOf(m) \in Seq(Lines)
           /\ offset[i][m] \in Nat /\ n \in Resume(i, m, Len(LogOf(m)))
    BY <1>3, ReadStep
  <2>2. inbox[i] = <<>> /\ UNCHANGED up /\ up[i] = "up"
    BY <1>3 DEF ReadNew
  <2>3. m \notin lapsed[i] /\ offset[i][m] <= Len(LogOf(m)) /\ Len(LogOf(m)) \in Nat
    BY <2>1, LogOfType DEF LengthInv, PlainInv
  <2>4. n = offset[i][m]
    BY <2>1, <2>3 DEF Resume
  <2>5. inbox'[i] = SubSeq(LogOf(m), n + 1, Len(LogOf(m))) /\ source'[i] = m
        /\ offset'[i] = [offset[i] EXCEPT ![m] = Len(LogOf(m))]
    BY <1>t, <2>1 DEF Reads
  <2>6. Len(inbox'[i]) = Len(LogOf(m)) - n
    BY <2>1, <2>3, <2>4, <2>5
  <2>7. CASE j = i
    BY <1>l, <2>2, <2>7 DEF Done
  <2>8. CASE j = m
    <3>1. Done(i, j) = offset[i][m]
      BY <1>e, <2>1, <2>2, <2>8 DEF Done
    <3>2. Coming(i, j)' = inbox'[i] /\ offset'[i][j] = Len(LogOf(m)) /\ j \in DOMAIN offset'[i]
      BY <1>t, <2>1, <2>5, <2>8 DEF Coming
    <3>3. Done(i, j)' = Len(LogOf(m)) - Len(inbox'[i])
      BY <2>1, <2>8, <3>2 DEF Done
    <3> QED BY <2>3, <2>4, <2>6, <3>1, <3>3
  <2>9. CASE j # i /\ j # m
    <3>1. Coming(i, j)' = <<>> /\ Coming(i, j) = <<>>
      BY <1>e, <2>2, <2>5, <2>9 DEF Coming
    <3>2. DOMAIN offset'[i] = DOMAIN offset[i] /\ (j \in DOMAIN offset[i] => offset'[i][j] = offset[i][j])
      BY <1>t, <2>5, <2>9
    <3> QED BY <2>9, <3>1, <3>2 DEF Done
  <2> QED BY <2>7, <2>8, <2>9
<1>4. CASE Boot(i)
  <2>1. UNCHANGED offset /\ DOMAIN offset[i] = {} /\ up[i] = "down" /\ up'[i] = "own"
    BY <1>t, <1>4 DEF Boot, StageInv, Stage
  <2>2. inbox'[i] = LogOf(i)'
    BY <1>t, <1>4 DEF Boot, LogOf
  <2>3. CASE j # i
    BY <2>1, <2>3 DEF Done
  <2>4. CASE j = i
    BY <1>l, <2>1, <2>2, <2>4 DEF Done
  <2> QED BY <2>3, <2>4
<1>5. CASE BootList(i) \/ BootDone(i)
  <2>1. UNCHANGED <<offset, inbox, source>> /\ inbox[i] = <<>> /\ up[i] \in {"own", "boot"}
        /\ up'[i] \in {"boot", "up"}
    BY <1>t, <1>5 DEF BootList, BootDone, tail, StageInv, Stage
  <2>2. Coming(i, j)' = Coming(i, j)
    BY <2>1 DEF Coming
  <2>3. CASE j # i
    BY <2>1, <2>2, <2>3 DEF Done
  <2>4. CASE j = i
    BY <1>l, <1>e, <2>1, <2>4 DEF Done
  <2> QED BY <2>3, <2>4
<1>6. CASE BootSibling(i)
  <2>1. UNCHANGED <<up, inbox, source>> /\ up[i] = "boot"
    BY <1>6 DEF BootSibling
  <2>2. inbox[i] = <<>>
    BY <2>1 DEF StageInv, Stage
  <2>3. PICK m \in reading[i] : offset' = WithReaders(i, {m})
    BY <1>6 DEF BootSibling
  <2>4. offset'[i] = [n \in {m} \cup DOMAIN offset[i] |->
                          IF n \in DOMAIN offset[i] THEN offset[i][n] ELSE 0]
    BY <1>t, <2>3 DEF WithReaders
  <2>5. Coming(i, j) = <<>> /\ Coming(i, j)' = <<>>
    BY <2>1, <2>2 DEF Coming
  <2>6. CASE j = i
    BY <1>l, <2>1, <2>6 DEF Done
  <2>7. CASE j # i /\ j \in DOMAIN offset[i]
    <3>1. j \in DOMAIN offset'[i] /\ offset'[i][j] = offset[i][j]
      BY <2>4, <2>7
    <3> QED BY <2>5, <2>7, <3>1 DEF Done
  <2>8. CASE j # i /\ j \notin DOMAIN offset[i]
    <3>1. j \in DOMAIN offset'[i] => offset'[i][j] = 0
      BY <2>4, <2>8
    <3> QED BY <1>e, <2>5, <2>8, <3>1 DEF Done
  <2> QED BY <2>6, <2>7, <2>8
<1> QED BY <1>1, <1>2, <1>3, <1>4, <1>5, <1>6, NoneCompacts DEF Step

LEMMA ApplyPlace ==
    ASSUME TypeInv, StageInv, InboxInv, NEW i \in Instances, ApplyLine(i)
    PROVE  /\ source[i] \in Instances /\ Head(inbox[i]) \in Lines
           /\ \A j \in Instances :
                 IF j = source[i]
                 THEN /\ Done(i, j) \in Nat /\ Done(i, j)' = Done(i, j) + 1
                      /\ Done(i, j) + 1 <= Len(LogOf(j))
                      /\ Head(inbox[i]) = LogOf(j)[Done(i, j) + 1]
                 ELSE Done(i, j)' = Done(i, j)
           /\ \A k \in 1..Len(inbox'[i]) : inbox'[i][k] = inbox[i][k + 1] /\ k + 1 \in 1..Len(inbox[i])
<1> DEFINE m == source[i]
           b == inbox[i]
<1>t. /\ b \in Seq(Lines) /\ b # <<>> /\ up[i] \in {"own", "up"}
      /\ UNCHANGED <<up, offset, source, log>> /\ inbox' = [inbox EXCEPT ![i] = Tail(b)]
      /\ inbox \in [Instances -> Seq(Lines)]
  BY DEF TypeInv, TypeOK, ApplyLine, files
<1>1. /\ Len(b) \in Nat /\ Len(b) >= 1 /\ Head(b) = b[1] /\ Head(b) \in Lines
      /\ Tail(b) \in Seq(Lines) /\ Len(Tail(b)) = Len(b) - 1
      /\ \A k \in 1..Len(Tail(b)) : Tail(b)[k] = b[k + 1] /\ k + 1 \in 1..Len(b)
  BY <1>t
<1>2. inbox'[i] = Tail(b)
  BY <1>t
<1>3. m \in Instances /\ Done(i, m) \in Nat
  BY <1>t DEF InboxInv
<1>4. Done(i, m) + 1 <= Len(LogOf(m)) /\ b[1] = LogOf(m)[Done(i, m) + 1]
  <2>1. 1 \in 1..Len(b)
    BY <1>1
  <2> QED BY <1>3, <2>1 DEF InboxInv
<1>5. LogOf(i)' = LogOf(i) /\ Len(LogOf(i)) \in Nat
  BY <1>t, LogOfType DEF LogOf
<1>6. ASSUME NEW j \in Instances, j = m PROVE Done(i, j)' = Done(i, j) + 1
  <2>1. CASE up[i] = "own"
    <3>1. j = i
      BY <1>6, <2>1 DEF StageInv, Stage
    <3>2. Done(i, j) = Len(LogOf(i)) - Len(b) /\ Done(i, j)' = Len(LogOf(i)) - Len(Tail(b))
      BY <1>t, <1>2, <1>5, <2>1, <3>1 DEF Done
    <3> HIDE DEF b, m
    <3> QED BY <1>1, <1>5, <3>2
  <2>2. CASE up[i] = "up"
    <3>1. j # i /\ j \in DOMAIN offset[i] /\ offset[i][j] \in Nat
      BY <1>t, <1>6, <2>2 DEF StageInv, Stage, InboxInv, TypeInv, TypeOK
    <3>2. Coming(i, j) = b /\ Coming(i, j)' = Tail(b)
      BY <1>t, <1>2, <1>6 DEF Coming
    <3>3. Done(i, j) = offset[i][j] - Len(b) /\ Done(i, j)' = offset[i][j] - Len(Tail(b))
      BY <1>t, <3>1, <3>2 DEF Done
    <3> HIDE DEF b, m
    <3> QED BY <1>1, <3>1, <3>3
  <2> QED BY <1>t, <2>1, <2>2
<1>7. ASSUME NEW j \in Instances, j # m PROVE Done(i, j)' = Done(i, j)
  <2>1. Coming(i, j) = <<>> /\ Coming(i, j)' = <<>>
    BY <1>t, <1>7 DEF Coming
  <2>2. j = i => up[i] = "up"
    BY <1>t, <1>7 DEF StageInv, Stage
  <2> QED BY <1>t, <1>5, <2>1, <2>2 DEF Done
<1> QED BY <1>1, <1>2, <1>3, <1>4, <1>6, <1>7

LEMMA FlushPlace ==
    ASSUME TypeInv, StageInv, NEW i \in Instances, Flush(i)
    PROVE  /\ up[i] = "up" /\ Done(i, i) = Len(LogOf(i)) /\ Done(i, i)' = Len(LogOf(i)')
           /\ \A j \in Instances : j # i => Done(i, j)' = Done(i, j)
<1>1. UNCHANGED <<up, offset, source, inbox>> /\ up[i] = "up"
  BY DEF Flush, tail
<1> QED BY <1>1 DEF Done, Coming

LEMMA CrashPlace ==
    ASSUME TypeInv, NEW i \in Instances, Crash(i)
    PROVE  /\ \A j \in Instances : Done(i, j)' = 0
           /\ index'[i] = Nothing /\ stray'[i] = NoStrays /\ dirty'[i] = NoHits
           /\ inbox'[i] = <<>> /\ buf'[i] = <<>>
<1>1. /\ up'[i] = "down" /\ DOMAIN offset'[i] = {}
      /\ index'[i] = Nothing /\ stray'[i] = NoStrays /\ dirty'[i] = NoHits
      /\ inbox'[i] = <<>> /\ buf'[i] = <<>>
  BY DEF Crash, TypeInv, TypeOK
<1> QED BY <1>1 DEF Done

LEMMA NextPlain ==
    ASSUME Additive, TypeInv, StageInv, PlainInv, [Next]_vars
    PROVE  PlainInv'
<1>0. CASE UNCHANGED vars
  BY <1>0 DEF vars, PlainInv, LogOf
<1>1. ASSUME NEW i \in Instances, Step(i), NEW j \in Instances
      PROVE  /\ cpc'[j] = "idle" /\ lapsed'[j] = {} /\ \A c \in Codes : snap'[j][c] = None
             /\ \A k \in 1..Len(LogOf(j)') : /\ LogOf(j)'[k].k \in {"row", "hit"}
                                             /\ LogOf(j)'[k].k = "row" => LogOf(j)'[k].n = 0
             /\ \A k \in 1..Len(buf'[j]) : buf'[j][k].k = "row" /\ buf'[j][k].n = 0
  <2>t. /\ cpc[j] = "idle" /\ lapsed[j] = {} /\ (\A c \in Codes : snap[j][c] = None)
        /\ buf \in [Instances -> Seq(Lines)]
        /\ cpc \in [Instances -> {"idle", "trunc"}] /\ lapsed \in [Instances -> SUBSET Instances]
    BY DEF PlainInv, TypeInv, TypeOK
  <2>n. ~CompactSnap(i) /\ ~CompactTrunc(i) /\ ~Update(i) /\ ~Remove(i)
    BY <1>1, NoneCompacts
  <2>1. cpc'[j] = "idle" /\ lapsed'[j] = {} /\ UNCHANGED snap
    <3>1. UNCHANGED snap
      BY <1>1, <2>n DEF Step, Shorten, Write, Flush, Resolve, Ask, Poll, ReadNew, ApplyLine, Answer,
         Tick, Crash, Boot, BootList, BootSibling, BootDone, files
    <3>2. cpc'[j] = "idle"
      <4>1. CASE Shorten(i) \/ Flush(i) \/ Resolve(i) \/ Ask(i) \/ Poll(i) \/ ReadNew(i) \/ ApplyLine(i)
        BY <2>t, <4>1 DEF Shorten, Write, Flush, Resolve, Ask, Poll, ReadNew, ApplyLine
      <4>2. CASE (\E c \in Codes : Answer(i, c)) \/ Tick(i) \/ Crash(i)
        BY <2>t, <4>2 DEF Answer, Tick, Crash
      <4>3. CASE Boot(i) \/ BootList(i) \/ BootSibling(i) \/ BootDone(i)
        BY <2>t, <4>3 DEF Boot, BootList, BootSibling, BootDone
      <4> QED BY <1>1, <2>n, <4>1, <4>2, <4>3 DEF Step
    <3>3. lapsed'[j] = {}
      <4> USE DEF history
      <4>1. CASE Shorten(i) \/ Flush(i) \/ Resolve(i) \/ Ask(i) \/ Poll(i)
        BY <2>t, <4>1 DEF Shorten, Write, Flush, Resolve, Ask, Poll
      <4>2. CASE ReadNew(i) \/ ApplyLine(i)
        <5>1. UNCHANGED lapsed \/ \E m : lapsed' = [lapsed EXCEPT ![i] = @ \ {m}]
          <6>1. CASE ApplyLine(i)
            BY <6>1 DEF ApplyLine
          <6>2. CASE ReadNew(i)
            BY <6>2 DEF ReadNew
          <6> QED BY <4>2, <6>1, <6>2
        <5> QED BY <2>t, <5>1
      <4>3. CASE (\E c \in Codes : Answer(i, c)) \/ Tick(i) \/ Crash(i)
        BY <2>t, <4>3 DEF Answer, Tick, Crash
      <4>4. CASE Boot(i) \/ BootList(i) \/ BootSibling(i) \/ BootDone(i)
        BY <2>t, <4>4 DEF Boot, BootList, BootSibling, BootDone
      <4> QED BY <1>1, <2>n, <4>1, <4>2, <4>3, <4>4 DEF Step
    <3> QED BY <3>1, <3>2, <3>3
  <2>2. ASSUME NEW k \in 1..Len(buf'[j]) PROVE buf'[j][k].k = "row" /\ buf'[j][k].n = 0
    <3>1. CASE Shorten(i)
      <4>1. PICK l : buf' = [buf EXCEPT ![i] = Append(@, l)] /\ l.k = "row" /\ l.n = 0 /\ l \in Lines
        <5>1. PICK c \in Codes, u \in Urls : buf' = [buf EXCEPT ![i] = Append(@, RowLine(c, u, 0, i, 0))]
          BY <3>1, TailAssumption DEF Shorten, Write, Generated
        <5>2. RowLine(c, u, 0, i, 0).k = "row" /\ RowLine(c, u, 0, i, 0).n = 0
          BY DEF RowLine
        <5>3. RowLine(c, u, 0, i, 0) \in Lines
          BY LineTypes, TailAssumption DEF AllUrls, Lines
        <5> QED BY <5>1, <5>2, <5>3
      <4>2. buf'[j] = IF j = i THEN Append(buf[j], l) ELSE buf[j]
        BY <2>t, <4>1
      <4>3. \A n \in 1..Len(buf[j]) : buf[j][n].k = "row" /\ buf[j][n].n = 0
        BY DEF PlainInv
      <4>4. CASE j = i
        <5>1. buf[j] \in Seq(Lines) /\ Len(buf[j]) \in Nat
          BY <2>t
        <5>2. k = Len(buf[j]) + 1 \/ k \in 1..Len(buf[j])
          BY <2>2, <4>1, <4>2, <4>4, <5>1
        <5>3. k = Len(buf[j]) + 1 => buf'[j][k] = l
          BY <4>1, <4>2, <4>4, <5>1
        <5>4. k \in 1..Len(buf[j]) => buf'[j][k] = buf[j][k]
          BY <4>1, <4>2, <4>4, <5>1
        <5> QED BY <4>1, <4>3, <5>2, <5>3, <5>4
      <4>5. CASE j # i
        BY <2>2, <4>2, <4>3, <4>5
      <4> QED BY <4>4, <4>5
    <3>2. CASE ~Shorten(i)
      <4>1. buf'[j] = buf[j] \/ buf'[j] = <<>>
        BY <1>1, <2>t, <2>n, <3>2 DEF Step, Flush, FlushTo, Resolve, Ask, Poll, ReadNew, ApplyLine,
           Answer, Tick, Crash, Boot, BootList, BootSibling, BootDone
      <4>2. buf'[j] # <<>>
        BY <2>2
      <4> QED BY <2>2, <4>1, <4>2 DEF PlainInv
    <3> QED BY <3>1, <3>2
  <2>3. ASSUME NEW k \in 1..Len(LogOf(j)')
        PROVE  /\ LogOf(j)'[k].k \in {"row", "hit"}
               /\ LogOf(j)'[k].k = "row" => LogOf(j)'[k].n = 0
    <3>1. CASE ~Flush(i) \/ j # i
      <4>1. LogOf(j)' = LogOf(j)
        BY <1>1, <3>1, LogsGrow
      <4> QED BY <2>3, <4>1 DEF PlainInv
    <3>2. CASE Flush(i) /\ j = i
      <4> DEFINE a == Len(LogOf(i))
                 b == Len(buf[i])
                 z == LogOf(i)'
      <4>1. PICK s \in Orders(Deltas(i)) :
               /\ a \in Nat /\ b \in Nat /\ Len(s) \in Nat /\ s \in Seq(HitLines)
               /\ Len(z) = a + b + Len(s)
               /\ \A n \in 1..a : z[n] = LogOf(i)[n]
               /\ \A n \in 1..b : z[a + n] = buf[i][n]
               /\ \A n \in 1..Len(s) : z[a + b + n] = s[n]
        BY <3>2, FlushLines
      <4>2. k \in 1..Len(z)
        BY <2>3, <3>2
      <4> HIDE DEF a, b, z
      <4>3. k \in 1..a \/ k - a \in 1..b \/ k - (a + b) \in 1..Len(s)
        BY <4>1, <4>2
      <4>4. \/ k \in 1..Len(LogOf(i)) /\ z[k] = LogOf(i)[k]
            \/ \E n \in 1..Len(buf[i]) : z[k] = buf[i][n]
            \/ \E n \in 1..Len(s) : z[k] = s[n]
        <5>1. CASE k \in 1..a
          BY <4>1, <5>1 DEF a
        <5>2. CASE k - a \in 1..b
          <6>1. a + (k - a) = k
            BY <4>1, <4>2
          <6> QED BY <4>1, <5>2, <6>1 DEF b
        <5>3. CASE k - (a + b) \in 1..Len(s)
          <6>1. (a + b) + (k - (a + b)) = k
            BY <4>1, <4>2
          <6> QED BY <4>1, <5>3, <6>1
        <5> QED BY <4>3, <5>1, <5>2, <5>3
      <4> USE <3>2 DEF z
      <4>5. CASE k \in 1..Len(LogOf(i)) /\ LogOf(j)'[k] = LogOf(i)[k]
        BY <4>5 DEF PlainInv
      <4>6. CASE \E n \in 1..Len(buf[i]) : LogOf(j)'[k] = buf[i][n]
        BY <4>6 DEF PlainInv
      <4>7. CASE \E n \in 1..Len(s) : LogOf(j)'[k] = s[n]
        <5>1. LogOf(j)'[k] \in HitLines
          BY <4>1, <4>7
        <5> QED BY <5>1 DEF HitLines
      <4> QED BY <4>4, <4>5, <4>6, <4>7
    <3> QED BY <3>1, <3>2
  <2> QED BY <2>t, <2>1, <2>2, <2>3
<1> QED BY <1>0, <1>1, NextSteps DEF PlainInv

LEMMA NextInbox ==
    ASSUME Additive, TypeInv, StageInv, LengthInv, PlainInv, InboxInv, TypeInv', [Next]_vars
    PROVE  InboxInv'
<1>0. CASE UNCHANGED vars
  <2>1. UNCHANGED <<up, inbox, source, offset, log>>
    BY <1>0 DEF vars
  <2>2. \A i, j : Done(i, j)' = Done(i, j) /\ LogOf(j)' = LogOf(j)
    BY <2>1 DEF Done, Coming, LogOf
  <2> QED BY <2>1, <2>2 DEF InboxInv
<1>1. ASSUME NEW a \in Instances, Step(a), NEW i \in Instances
      PROVE  /\ \A j \in Instances : Done(i, j)' \in 0..Len(LogOf(j)')
             /\ inbox'[i] # <<>> => source'[i] \in Instances
             /\ inbox'[i] # <<>> /\ up'[i] = "up" => source'[i] \in DOMAIN offset'[i]
             /\ \A j \in Instances, k \in 1..Len(inbox'[i]) :
                   source'[i] = j => /\ Done(i, j)' + k <= Len(LogOf(j)')
                                     /\ inbox'[i][k] = LogOf(j)'[Done(i, j)' + k]
  <2>t. /\ up \in [Instances -> {"down", "own", "boot", "up"}]
        /\ inbox \in [Instances -> Seq(Lines)] /\ source \in [Instances -> Nat]
        /\ offset = [k \in Instances |-> offset[k]] /\ DOMAIN offset = Instances
        /\ offset[i] \in [DOMAIN offset[i] -> Nat] /\ inbox' \in [Instances -> Seq(Lines)]
    BY DEF TypeInv, TypeOK
  <2>g. ASSUME NEW j \in Instances
        PROVE  /\ Len(LogOf(j)) \in Nat /\ Len(LogOf(j)') \in Nat /\ Len(LogOf(j)) <= Len(LogOf(j)')
               /\ \A k \in 1..Len(LogOf(j)) : LogOf(j)'[k] = LogOf(j)[k]
               /\ Done(i, j) \in 0..Len(LogOf(j))
    BY <1>1, LogsGrow DEF InboxInv
  <2>s. ASSUME inbox'[i] = inbox[i], source'[i] = source[i],
               \A j \in Instances : inbox[i] # <<>> /\ source[i] = j => Done(i, j)' = Done(i, j),
               DOMAIN offset[i] \subseteq DOMAIN offset'[i],
               inbox[i] # <<>> /\ up'[i] = "up" => up[i] = "up"
        PROVE  /\ inbox'[i] # <<>> => source'[i] \in Instances
               /\ inbox'[i] # <<>> /\ up'[i] = "up" => source'[i] \in DOMAIN offset'[i]
               /\ \A j \in Instances, k \in 1..Len(inbox'[i]) :
                     source'[i] = j => /\ Done(i, j)' + k <= Len(LogOf(j)')
                                       /\ inbox'[i][k] = LogOf(j)'[Done(i, j)' + k]
    <3>1. inbox[i] # <<>> => /\ source[i] \in Instances
                             /\ up[i] = "up" => source[i] \in DOMAIN offset[i]
      BY DEF InboxInv
    <3>2. ASSUME NEW m \in Instances, NEW k \in 1..Len(inbox[i]), source[i] = m
          PROVE  Done(i, m)' + k <= Len(LogOf(m)') /\ inbox[i][k] = LogOf(m)'[Done(i, m)' + k]
      <4>1. inbox[i] # <<>> /\ k \in Nat /\ k >= 1
        BY <2>t
      <4>2. Done(i, m) + k <= Len(LogOf(m)) /\ inbox[i][k] = LogOf(m)[Done(i, m) + k]
        BY <3>2 DEF InboxInv
      <4>3. Done(i, m)' = Done(i, m)
        BY <2>s, <3>2, <4>1
      <4>4. /\ Len(LogOf(m)) \in Nat /\ Len(LogOf(m)') \in Nat /\ Len(LogOf(m)) <= Len(LogOf(m)')
            /\ \A n \in 1..Len(LogOf(m)) : LogOf(m)'[n] = LogOf(m)[n]
            /\ Done(i, m) \in 0..Len(LogOf(m))
        BY <2>g
      <4>5. Done(i, m) + k \in 1..Len(LogOf(m))
        BY <4>1, <4>2, <4>4
      <4> QED BY <4>1, <4>2, <4>3, <4>4, <4>5
    <3> QED BY <2>s, <3>1, <3>2
  <2>1. CASE i # a
    <3>1. Same(i) /\ \A j \in Instances : Done(i, j)' = Done(i, j)
      BY <1>1, <2>1, Others, OthersPlace
    <3>2. inbox'[i] = inbox[i] /\ source'[i] = source[i] /\ offset'[i] = offset[i] /\ up'[i] = up[i]
      BY <3>1 DEF Same
    <3>3. \A j \in Instances : Done(i, j)' \in 0..Len(LogOf(j)')
      BY <2>g, <3>1
    <3> QED BY <2>s, <3>1, <3>2, <3>3
  <2>2. CASE i = a /\ ApplyLine(i)
    <3> DEFINE m == source[i]
    <3>1. /\ m \in Instances /\ Done(i, m) \in Nat /\ Done(i, m) + 1 <= Len(LogOf(m))
          /\ \A j \in Instances : Done(i, j)' = IF j = m THEN Done(i, j) + 1 ELSE Done(i, j)
          /\ \A k \in 1..Len(inbox'[i]) : inbox'[i][k] = inbox[i][k + 1] /\ k + 1 \in 1..Len(inbox[i])
      BY <2>2, ApplyPlace
    <3>2. UNCHANGED <<up, source, offset, log>> /\ inbox[i] # <<>>
      BY <2>2 DEF ApplyLine, files
    <3>3. \A j \in Instances : Done(i, j)' \in 0..Len(LogOf(j)')
      <4>1. ASSUME NEW j \in Instances PROVE Done(i, j)' \in 0..Len(LogOf(j)')
        <5>1. LogOf(j)' = LogOf(j) /\ Len(LogOf(j)) \in Nat /\ Done(i, j) \in 0..Len(LogOf(j))
          BY <2>g, <3>2 DEF LogOf
        <5> QED BY <3>1, <5>1
      <4> QED BY <4>1
    <3>4. ASSUME NEW j \in Instances, NEW k \in 1..Len(inbox'[i]), j = m
          PROVE  Done(i, j)' + k <= Len(LogOf(j)') /\ inbox'[i][k] = LogOf(j)'[Done(i, j)' + k]
      <4>1. k + 1 \in 1..Len(inbox[i]) /\ inbox'[i][k] = inbox[i][k + 1] /\ k \in Nat
        BY <2>t, <3>1
      <4>2. Done(i, j) + (k + 1) <= Len(LogOf(j)) /\ inbox[i][k + 1] = LogOf(j)[Done(i, j) + (k + 1)]
        BY <3>4, <4>1 DEF InboxInv
      <4>3. LogOf(j)' = LogOf(j) /\ Done(i, j) \in Nat
        BY <3>1, <3>2, <3>4 DEF LogOf
      <4>4. Done(i, j)' + k = Done(i, j) + (k + 1)
        BY <3>1, <3>4, <4>1, <4>3
      <4> QED BY <4>1, <4>2, <4>3, <4>4
    <3>6. up[i] = "up" => m \in DOMAIN offset[i]
      BY <3>2 DEF InboxInv
    <3> QED BY <3>1, <3>2, <3>3, <3>4, <3>6
  <2>3. CASE i = a /\ Crash(i)
    <3>1. (\A j \in Instances : Done(i, j)' = 0) /\ inbox'[i] = <<>>
      BY <2>3, CrashPlace
    <3>2. Len(inbox'[i]) = 0
      BY <3>1
    <3> QED BY <2>g, <3>1, <3>2
  <2>4. CASE i = a /\ Flush(i)
    <3>1. /\ Done(i, i)' = Len(LogOf(i)') /\ up[i] = "up"
          /\ \A j \in Instances : j # i => Done(i, j)' = Done(i, j)
      BY <2>4, FlushPlace
    <3>2. UNCHANGED <<up, offset, inbox, source>>
      BY <2>4 DEF Flush, tail
    <3>3. \A j \in Instances : Done(i, j)' \in 0..Len(LogOf(j)')
      <4>1. ASSUME NEW j \in Instances PROVE Done(i, j)' \in 0..Len(LogOf(j)')
        <5>1. CASE j = i
          BY <2>g, <3>1, <5>1
        <5>2. CASE j # i
          <6>1. Done(i, j)' = Done(i, j)
            BY <3>1, <5>2
          <6> QED BY <2>g, <6>1
        <5> QED BY <5>1, <5>2
      <4> QED BY <4>1
    <3>4. inbox[i] # <<>> => source[i] # i
      BY <3>1 DEF StageInv, Stage
    <3> QED BY <2>s, <3>1, <3>2, <3>3, <3>4
  <2>5. CASE i = a /\ ~ApplyLine(i) /\ ~Crash(i) /\ ~Flush(i)
    <3>1. ASSUME NEW j \in Instances PROVE Done(i, j)' = Done(i, j) /\ LogOf(j)' = LogOf(j)
      BY <1>1, <2>5, ActorPlace, LogsGrow
    <3>2. \A j \in Instances : Done(i, j)' \in 0..Len(LogOf(j)')
      BY <2>g, <3>1
    <3>3. CASE ReadNew(i)
      <4>1. PICK m \in reading[i], n \in Nat :
               /\ Reads(i, m, n) /\ m \in DOMAIN offset[i] /\ m # i /\ LogOf(m) \in Seq(Lines)
               /\ offset[i][m] \in Nat /\ n \in Resume(i, m, Len(LogOf(m)))
        BY <3>3, ReadStep
      <4>2. inbox[i] = <<>> /\ UNCHANGED <<up, log>>
        BY <3>3 DEF ReadNew, files
      <4>3. m \notin lapsed[i] /\ offset[i][m] <= Len(LogOf(m)) /\ Len(LogOf(m)) \in Nat
        BY <4>1, LogOfType DEF LengthInv, PlainInv
      <4>4. n = offset[i][m]
        BY <4>1, <4>3 DEF Resume
      <4>5. inbox'[i] = SubSeq(LogOf(m), n + 1, Len(LogOf(m))) /\ source'[i] = m
            /\ offset'[i] = [offset[i] EXCEPT ![m] = Len(LogOf(m))]
        BY <2>t, <4>1 DEF Reads
      <4>6. /\ Len(inbox'[i]) = Len(LogOf(m)) - n
            /\ \A k \in 1..Len(inbox'[i]) : inbox'[i][k] = LogOf(m)[n + k]
        <5> DEFINE L == LogOf(m)
        <5>1. L \in Seq(Lines) /\ n \in Nat /\ n <= Len(L) /\ Len(L) \in Nat
          BY <4>1, <4>3, <4>4
        <5>2. inbox'[i] = SubSeq(L, n + 1, Len(L))
          BY <4>5
        <5> HIDE DEF L
        <5>3. /\ Len(inbox'[i]) = Len(L) - n
              /\ \A k \in 1..Len(inbox'[i]) : inbox'[i][k] = L[n + k]
          BY <5>1, <5>2
        <5> QED BY <5>3 DEF L
      <4>7. inbox'[i] # <<>> => m \in Instances
        <5>1. inbox'[i] # <<>> => m \in DOMAIN log
          BY <4>5 DEF LogOf
        <5> QED BY <5>1 DEF TypeInv, TypeOK
      <4>8. Done(i, m) = n
        BY <4>1, <4>2, <4>4 DEF Done, Coming
      <4>9. ASSUME NEW k \in 1..Len(inbox'[i]), m \in Instances
            PROVE  Done(i, m)' + k <= Len(LogOf(m)') /\ inbox'[i][k] = LogOf(m)'[Done(i, m)' + k]
        <5>2. Done(i, m)' = n /\ LogOf(m)' = LogOf(m)
          BY <3>1, <4>8, <4>9
        <5> QED BY <4>1, <4>3, <4>4, <4>6, <5>2
      <4>11. m \in DOMAIN offset'[i]
        BY <2>t, <4>1, <4>5
      <4> QED BY <3>2, <4>5, <4>7, <4>9, <4>11
    <3>4. CASE Boot(i)
      <4>1. inbox'[i] = LogOf(i)' /\ source'[i] = i /\ up'[i] = "own"
        BY <2>t, <3>4 DEF Boot, LogOf
      <4>2. up[i] = "down" /\ Done(i, i) = 0
        BY <3>4 DEF Boot, Done
      <4>3. Done(i, i)' = 0
        BY <3>1, <4>2
      <4>4. ASSUME NEW k \in 1..Len(inbox'[i])
            PROVE  Done(i, i)' + k <= Len(LogOf(i)') /\ inbox'[i][k] = LogOf(i)'[Done(i, i)' + k]
        BY <2>g, <4>1, <4>3
      <4> QED BY <3>2, <4>1, <4>4
    <3>5. CASE ~ReadNew(i) /\ ~Boot(i)
      <4>1. inbox'[i] = inbox[i] /\ source'[i] = source[i]
        BY <1>1, <2>5, <3>5, NoneCompacts DEF Step, Shorten, Write, Resolve, Ask, Poll, Answer, Tick,
             BootList, BootSibling, BootDone, tail
      <4>2. DOMAIN offset[i] \subseteq DOMAIN offset'[i]
        <5>1. UNCHANGED offset \/ \E J : offset' = WithReaders(i, J)
          BY <1>1, <2>5, <3>5, NoneCompacts DEF Step, Shorten, Write, Resolve, Ask, Poll, Answer,
             Tick, BootList, BootSibling, BootDone, tail
        <5>2. ASSUME NEW J, offset' = WithReaders(i, J) PROVE DOMAIN offset[i] \subseteq DOMAIN offset'[i]
          BY <2>t, <5>2 DEF WithReaders
        <5> QED BY <5>1, <5>2
      <4>3. inbox[i] # <<>> /\ up'[i] = "up" => up[i] = "up"
        <5>1. UNCHANGED up \/ BootList(i) \/ BootDone(i)
          BY <1>1, <2>5, <3>5, NoneCompacts DEF Step, Shorten, Write, Resolve, Ask, Poll, Answer, Tick,
             BootSibling
        <5>2. BootList(i) \/ BootDone(i) => inbox[i] = <<>>
          BY DEF BootList, BootDone, StageInv, Stage
        <5> QED BY <5>1, <5>2
      <4> QED BY <2>s, <3>1, <3>2, <4>1, <4>2, <4>3
    <3> QED BY <3>3, <3>4, <3>5
  <2> QED BY <2>1, <2>2, <2>3, <2>4, <2>5
<1> QED BY <1>0, <1>1, NextSteps DEF InboxInv

(* The rows of a code after a flush.                                       *)
LEMMA FlushRows ==
    ASSUME TypeInv, StageInv, NEW i \in Instances, Flush(i), NEW c
    PROVE  LET a == Len(LogOf(i))
               b == Len(buf[i])
               z == LogOf(i)'
           IN  /\ a \in Nat /\ b \in Nat /\ Len(z) \in Nat /\ a + b <= Len(z)
               /\ \A k \in 1..Len(z) :
                     IsRow(z[k], c) <=> \/ k \in 1..a /\ IsRow(LogOf(i)[k], c)
                                        \/ k - a \in 1..b /\ IsRow(buf[i][k - a], c)
<1> DEFINE a == Len(LogOf(i))
           b == Len(buf[i])
           z == LogOf(i)'
<1>1. PICK s \in Orders(Deltas(i)) :
         /\ a \in Nat /\ b \in Nat /\ Len(s) \in Nat /\ s \in Seq(HitLines)
         /\ Len(z) = a + b + Len(s)
         /\ \A k \in 1..a : z[k] = LogOf(i)[k]
         /\ \A k \in 1..b : z[a + k] = buf[i][k]
         /\ \A k \in 1..Len(s) : z[a + b + k] = s[k]
  BY FlushLines
<1> HIDE DEF a, b, z
<1>2. Len(z) \in Nat /\ a + b <= Len(z)
  BY <1>1
<1>3. ASSUME NEW k \in 1..Len(z)
      PROVE  IsRow(z[k], c) <=> \/ k \in 1..a /\ IsRow(LogOf(i)[k], c)
                                \/ k - a \in 1..b /\ IsRow(buf[i][k - a], c)
  <2>1. CASE k <= a
    <3>1. k \in 1..a /\ ~(k - a \in 1..b)
      BY <1>1, <1>3, <2>1
    <3> QED BY <1>1, <3>1
  <2>2. CASE k > a /\ k <= a + b
    <3>1. k - a \in 1..b /\ a + (k - a) = k /\ ~(k \in 1..a)
      BY <1>1, <1>3, <2>2
    <3>2. z[a + (k - a)] = buf[i][k - a]
      BY <1>1, <3>1
    <3> QED BY <3>1, <3>2
  <2>3. CASE k > a + b
    <3>1. k - (a + b) \in 1..Len(s) /\ a + b + (k - (a + b)) = k /\ ~(k \in 1..a) /\ ~(k - a \in 1..b)
      BY <1>1, <1>3, <2>3
    <3>2. z[k] = s[k - (a + b)]
      BY <1>1, <3>1
    <3>3. z[k] \in HitLines
      BY <1>1, <3>1, <3>2
    <3>4. ~IsRow(z[k], c)
      BY <3>3 DEF IsRow, HitLines
    <3> QED BY <3>1, <3>4
  <2> QED BY <1>1, <1>3, <2>1, <2>2, <2>3
<1> QED BY <1>1, <1>2, <1>3 DEF a, b, z

(* What a creation does.                                                   *)
LEMMA ShortenStep ==
    ASSUME TypeInv, NEW i \in Instances, Shorten(i)
    PROVE  \E d \in Codes, x \in Entries, l \in Lines :
              /\ index[i][d] = None /\ x.h = 0 /\ l.k = "row" /\ l.c = d
              /\ up[i] = "up" /\ UNCHANGED <<stray, dirty, log>>
              /\ \A c \in Codes : index'[i][c] = IF c = d THEN x ELSE index[i][c]
              /\ buf'[i] = Append(buf[i], l) /\ buf[i] \in Seq(Lines)
              /\ i \in granted'[d]
<1>t. /\ index \in [Instances -> [Codes -> Entries \cup {None}]] /\ buf \in [Instances -> Seq(Lines)]
      /\ granted \in [Codes -> SUBSET Instances]
  BY DEF TypeInv, TypeOK
<1>1. PICK d \in Codes, u \in Urls :
         /\ index[i][d] = None
         /\ Write(i, d, [u |-> u, e |-> 0, i |-> i, h |-> 0, oh |-> 0], RowLine(d, u, 0, i, 0))
         /\ granted' = [granted EXCEPT ![d] = @ \cup {i}]
  BY TailAssumption DEF Shorten, Generated
<1> DEFINE x == [u |-> u, e |-> 0, i |-> i, h |-> 0, oh |-> 0]
           l == RowLine(d, u, 0, i, 0)
<1>2. x \in Entries /\ l \in Lines /\ x.h = 0
  BY LineTypes, TailAssumption DEF Entries, AllUrls, Lines
<1>3. l.k = "row" /\ l.c = d
  BY DEF RowLine
<1> HIDE DEF x, l
<1>4. Write(i, d, x, l)
  BY <1>1 DEF x, l
<1>5. /\ UNCHANGED <<stray, dirty, log>> /\ buf'[i] = Append(buf[i], l)
      /\ \A c \in Codes : index'[i][c] = IF c = d THEN x ELSE index[i][c]
  BY <1>t, <1>4 DEF Write, files
<1>6. up[i] = "up" /\ i \in granted'[d] /\ buf[i] \in Seq(Lines)
  BY <1>t, <1>1 DEF Shorten, Serving
<1> QED BY <1>1, <1>2, <1>3, <1>5, <1>6

(* The rows of a code in the queue after a creation.                       *)
LEMMA ShortenRows ==
    ASSUME NEW q \in Seq(Lines), NEW l \in Lines, NEW c
    PROVE  \A k \in 1..Len(Append(q, l)) :
              IsRow(Append(q, l)[k], c) <=> \/ k \in 1..Len(q) /\ IsRow(q[k], c)
                                            \/ k = Len(q) + 1 /\ IsRow(l, c)
<1>1. /\ Len(Append(q, l)) = Len(q) + 1 /\ Len(q) \in Nat /\ Append(q, l)[Len(q) + 1] = l
      /\ \A k \in 1..Len(q) : Append(q, l)[k] = q[k]
  OBVIOUS
<1> TAKE k \in 1..Len(Append(q, l))
<1>2. CASE k \in 1..Len(q)
  <2>1. k # Len(q) + 1 /\ Append(q, l)[k] = q[k]
    BY <1>1, <1>2
  <2> QED BY <1>2, <2>1
<1>3. CASE k = Len(q) + 1
  <2>1. k \notin 1..Len(q)
    BY <1>1, <1>3
  <2> QED BY <1>1, <1>3, <2>1
<1> QED BY <1>1, <1>2, <1>3

(* All other steps leave queues alone, or empty them.                      *)
LEMMA OtherBuf ==
    ASSUME Additive, TypeInv, PlainInv, NEW i \in Instances, Step(i), ~Shorten(i), ~Flush(i), ~Crash(i)
    PROVE  UNCHANGED buf
BY NoneCompacts DEF Step, Resolve, Ask, Poll, ReadNew, ApplyLine, Answer, Tick, Boot, BootList,
     BootSibling, BootDone

LEMMA NextOnce ==
    ASSUME Additive, TypeInv, StageInv, PlainInv, OnceInv, RowInv, [Next]_vars
    PROVE  OnceInv'
<1>0. CASE UNCHANGED vars
  <2>1. UNCHANGED <<buf, granted, log>>
    BY <1>0 DEF vars
  <2>2. \A j : LogOf(j)' = LogOf(j) /\ Sole(j)' = Sole(j)
    BY <2>1 DEF LogOf, Sole
  <2> QED BY <2>1, <2>2 DEF OnceInv
<1>1. ASSUME NEW i \in Instances, Step(i), NEW j \in Instances, NEW c, c \in Sole(j)'
      PROVE  LET z == LogOf(j)'
                 q == buf'[j]
             IN /\ \A k, n \in 1..Len(z) : IsRow(z[k], c) /\ IsRow(z[n], c) => k = n
                /\ \A k, n \in 1..Len(q) : IsRow(q[k], c) /\ IsRow(q[n], c) => k = n
                /\ \A k \in 1..Len(z), n \in 1..Len(q) : ~(IsRow(z[k], c) /\ IsRow(q[n], c))
  <2>s. c \in Sole(j)
    BY <1>1, GrantsGrow
  <2> DEFINE s == LogOf(j)
             p == buf[j]
             z == LogOf(j)'
             q == buf'[j]
  <2>o. /\ \A k, n \in 1..Len(s) : IsRow(s[k], c) /\ IsRow(s[n], c) => k = n
        /\ \A k, n \in 1..Len(p) : IsRow(p[k], c) /\ IsRow(p[n], c) => k = n
        /\ \A k \in 1..Len(s), n \in 1..Len(p) : ~(IsRow(s[k], c) /\ IsRow(p[n], c))
    BY <2>s DEF OnceInv
  <2>l. Len(s) \in Nat /\ Len(p) \in Nat /\ p \in Seq(Lines)
    BY LogOfType DEF TypeInv, TypeOK
  <2>1. CASE i # j
    <3>1. z = s /\ q = p
      BY <1>1, <2>1, Others DEF Same
    <3> QED BY <2>o, <3>1
  <2>2. CASE i = j /\ Shorten(i)
    <3>1. PICK d \in Codes, l \in Lines :
             /\ index[i][d] = None /\ l.k = "row" /\ l.c = d /\ up[i] = "up"
             /\ q = Append(p, l) /\ UNCHANGED log
      BY <2>2, ShortenStep
    <3>2. z = s
      BY <3>1 DEF LogOf
    <3>3. c = d => (\A k \in 1..Len(s) : ~IsRow(s[k], c)) /\ (\A k \in 1..Len(p) : ~IsRow(p[k], c))
      <4>1. Done(i, i) = Len(LogOf(i))
        BY <3>1 DEF Done
      <4> QED BY <2>s, <2>2, <3>1, <4>1 DEF RowInv
    <3>4. \A k \in 1..Len(q) : IsRow(q[k], c) => \/ k \in 1..Len(p) /\ IsRow(p[k], c)
                                                 \/ k = Len(p) + 1 /\ c = d
      BY <2>l, <3>1, ShortenRows DEF IsRow
    <3> HIDE DEF s, p, z, q
    <3>5. \A k, n \in 1..Len(q) : IsRow(q[k], c) /\ IsRow(q[n], c) => k = n
      BY <2>o, <3>3, <3>4
    <3>6. \A k \in 1..Len(s), n \in 1..Len(q) : ~(IsRow(s[k], c) /\ IsRow(q[n], c))
      BY <2>o, <3>3, <3>4
    <3> QED BY <2>o, <3>2, <3>5, <3>6 DEF z, q
  <2>3. CASE i = j /\ Flush(i)
    <3> DEFINE a == Len(s)
               b == Len(p)
    <3>1. /\ a \in Nat /\ b \in Nat /\ Len(z) \in Nat /\ a + b <= Len(z)
          /\ \A k \in 1..Len(z) : IsRow(z[k], c) <=> \/ k \in 1..a /\ IsRow(s[k], c)
                                                     \/ k - a \in 1..b /\ IsRow(p[k - a], c)
      BY <2>3, FlushRows
    <3>2. q = <<>>
      BY <2>3 DEF Flush, FlushTo, TypeInv, TypeOK
    <3> HIDE DEF s, p, z, q
    <3>3. ASSUME NEW k \in 1..Len(z), NEW n \in 1..Len(z), IsRow(z[k], c), IsRow(z[n], c) PROVE k = n
      <4> HIDE DEF a, b
      <4>1. /\ (k \in 1..a /\ IsRow(s[k], c)) \/ (k - a \in 1..b /\ IsRow(p[k - a], c))
            /\ (n \in 1..a /\ IsRow(s[n], c)) \/ (n - a \in 1..b /\ IsRow(p[n - a], c))
        BY <3>1, <3>3
      <4> USE DEF a, b
      <4>2. CASE k \in 1..a /\ IsRow(s[k], c) /\ n \in 1..a /\ IsRow(s[n], c)
        BY <2>o, <4>2
      <4>3. CASE k - a \in 1..b /\ IsRow(p[k - a], c) /\ n - a \in 1..b /\ IsRow(p[n - a], c)
        <5>1. k - a = n - a
          BY <2>o, <4>3
        <5> QED BY <3>1, <3>3, <5>1
      <4> QED BY <2>o, <4>1, <4>2, <4>3
    <3> QED BY <3>2, <3>3 DEF z, q
  <2>4. CASE i = j /\ Crash(i)
    <3>1. q = <<>> /\ z = s
      BY <1>1, <2>4, CrashPlace, LogsGrow DEF Crash, files, LogOf
    <3> HIDE DEF s, p, z, q
    <3>2. Len(q) = 0
      BY <3>1
    <3> QED BY <2>o, <3>1, <3>2 DEF z, q
  <2>5. CASE i = j /\ ~Shorten(i) /\ ~Flush(i) /\ ~Crash(i)
    <3>1. q = p
      BY <1>1, <2>5, OtherBuf
    <3>2. z = s
      BY <1>1, <2>5, LogsGrow
    <3> QED BY <2>o, <3>1, <3>2
  <2> QED BY <2>1, <2>2, <2>3, <2>4, <2>5
<1> QED BY <1>0, <1>1, NextSteps DEF OnceInv

LEMMA SomeValue == ASSUME NEW x \in Entries \cup {None} PROVE x = None <=> Value(x) = None
<1>1. CASE x = None
  BY <1>1 DEF Value
<1>2. CASE x # None
  <2>1. Value(x) \in AllUrls \X Nat
    BY <1>2 DEF Value, Entries
  <2> QED BY <1>2, <2>1, NoneAssumption
<1> QED BY <1>1, <1>2

(* A line makes an entry if it is the row, and none goes.                  *)
LEMMA ApplyRows ==
    ASSUME NEW ix \in [Codes -> Entries \cup {None}], NEW sy \in [Codes -> Strays],
           NEW l \in Lines, l.k \in {"row", "hit"}, NEW me,
           NEW x \in Apply([index |-> ix, stray |-> sy], l, me), NEW c \in Codes
    PROVE  x.index[c] # None <=> ix[c] # None \/ IsRow(l, c)
<1>1. x.index[c] \in Entries \cup {None} /\ ix[c] \in Entries \cup {None}
  BY ApplyType
<1>2. Value(x.index[c]) = IF Sets(l, c) THEN LineValue(l) ELSE Value(ix[c])
  BY ApplyValue
<1>3. CASE IsRow(l, c)
  <2>1. l \in RowLines
    BY <1>3 DEF IsRow, Lines, HitLines, DelLines, JunkLine
  <2>2. LineValue(l) \in AllUrls \X Nat
    BY <1>3, <2>1 DEF IsRow, LineValue, RowLines
  <2>3. Value(x.index[c]) # None
    BY <1>2, <1>3, <2>2, NoneAssumption DEF Sets, IsRow
  <2> QED BY <1>1, <1>3, <2>3, SomeValue
<1>4. CASE ~IsRow(l, c)
  <2>1. ~Sets(l, c)
    BY <1>4 DEF Sets, IsRow
  <2> QED BY <1>1, <1>2, <1>4, <2>1, SomeValue
<1> QED BY <1>3, <1>4

(* The line that an instance applies, where it stands and what it does.    *)
LEMMA ApplyStep ==
    ASSUME TypeInv, StageInv, LinesInv, PlainInv, InboxInv, NEW i \in Instances, ApplyLine(i)
    PROVE  \E m \in Instances, l \in Lines :
              \E x \in Apply([index |-> index[i], stray |-> stray[i]], l, i) :
                 /\ index'[i] = x.index /\ stray'[i] = x.stray /\ UNCHANGED <<buf, dirty, log, granted>>
                 /\ Done(i, m) \in Nat /\ Done(i, m)' = Done(i, m) + 1
                 /\ Done(i, m) + 1 <= Len(LogOf(m)) /\ l = LogOf(m)[Done(i, m) + 1]
                 /\ \A j \in Instances : j # m => Done(i, j)' = Done(i, j)
                 /\ l.k \in {"row", "hit"} /\ (l.k = "row" => l.n = 0 /\ m \in granted[l.c])
<1> DEFINE m == source[i]
           l == Head(inbox[i])
<1>1. /\ m \in Instances /\ l \in Lines
      /\ \A j \in Instances :
            IF j = m
            THEN /\ Done(i, j) \in Nat /\ Done(i, j)' = Done(i, j) + 1
                 /\ Done(i, j) + 1 <= Len(LogOf(j))
                 /\ l = LogOf(j)[Done(i, j) + 1]
            ELSE Done(i, j)' = Done(i, j)
  BY ApplyPlace
<1> HIDE DEF m, l
<1>2. PICK j \in Instances : j = m
  BY <1>1
<1>3. /\ Done(i, j) \in Nat /\ Done(i, j)' = Done(i, j) + 1
      /\ Done(i, j) + 1 <= Len(LogOf(j))
      /\ l = LogOf(j)[Done(i, j) + 1]
      /\ \A k \in Instances : k # j => Done(i, k)' = Done(i, k)
  BY <1>1, <1>2
<1>4. Done(i, j) + 1 \in 1..Len(LogOf(j)) /\ Len(LogOf(j)) \in Nat
  BY <1>3, LogOfType
<1>5. l.k \in {"row", "hit"} /\ (l.k = "row" => l.n = 0)
  BY <1>3, <1>4 DEF PlainInv
<1>6. l.k = "row" => j \in granted[l.c]
  <2>1. j \in DOMAIN log
    BY <1>4 DEF LogOf
  <2>2. Wrote(granted, j, l)
    BY <1>3, <1>4, <2>1 DEF LinesInv, WroteAll, LogOf
  <2> QED BY <2>2 DEF Wrote
<1>7. PICK x \in Apply([index |-> index[i], stray |-> stray[i]], l, i) :
         index' = [index EXCEPT ![i] = x.index] /\ stray' = [stray EXCEPT ![i] = x.stray]
  BY DEF ApplyLine, l
<1>8. index'[i] = x.index /\ stray'[i] = x.stray
  BY <1>7 DEF TypeInv, TypeOK
<1>9. UNCHANGED <<buf, dirty, log, granted>>
  BY DEF ApplyLine, files, history
<1> QED BY <1>1, <1>3, <1>5, <1>6, <1>7, <1>8, <1>9

(* The steps after which an instance has the entries it had.               *)
LEMMA EntriesStay ==
    ASSUME Additive, TypeInv, StageInv, PlainInv, NEW i \in Instances, Step(i),
           ~Shorten(i), ~ApplyLine(i), ~Crash(i), NEW c \in Codes
    PROVE  /\ index'[i][c] = None <=> index[i][c] = None
           /\ ~Resolve(i) /\ ~(\E d \in Codes : Answer(i, d)) =>
                 index'[i][c] = index[i][c] /\ stray'[i][c] = stray[i][c]
           /\ ~Resolve(i) /\ ~(\E d \in Codes : Answer(i, d)) /\ ~Flush(i) => UNCHANGED dirty
<1>t. /\ index \in [Instances -> [Codes -> Entries \cup {None}]]
      /\ stray \in [Instances -> [Codes -> Strays]]
  BY DEF TypeInv, TypeOK
<1>n. ~CompactSnap(i) /\ ~CompactTrunc(i) /\ ~Update(i) /\ ~Remove(i)
  BY NoneCompacts
<1>1. CASE Resolve(i) \/ \E d \in Codes : Answer(i, d)
  <2>1. index' = index \/ \E d \in Codes : index[i][d] # None /\ CountHit(i, d)
    BY <1>1 DEF Resolve, Answer
  <2>2. ASSUME NEW d \in Codes, index[i][d] # None, CountHit(i, d)
        PROVE  index'[i][c] = None <=> index[i][c] = None
    <3>1. index'[i][d] \in Entries /\ \A e \in Codes : e # d => index'[i][e] = index[i][e]
      BY <2>2, CountType
    <3>2. index'[i][d] # None
      BY <3>1, NoneAssumption
    <3> QED BY <2>2, <3>1, <3>2
  <2> QED BY <1>1, <2>1, <2>2
<1>2. CASE Boot(i)
  <2>1. up[i] = "down" /\ index[i][c] = None /\ snap[i][c] = None
    BY <1>2 DEF Boot, StageInv, Stage, PlainInv
  <2>2. index'[i][c] = None /\ UNCHANGED <<stray, dirty>>
    BY <1>t, <1>2, <2>1 DEF Boot
  <2> QED BY <2>1, <2>2
<1>3. CASE BootSibling(i)
  <2>1. PICK j \in reading[i] :
           /\ index' = [index EXCEPT ![i] =
                           [d \in Codes |-> IF snap[j][d] = None THEN index[i][d]
                                            ELSE RowEntry(snap[j][d], stray[i][d])]]
           /\ stray' = [stray EXCEPT ![i] =
                           [d \in Codes |-> IF snap[j][d] = None THEN stray[i][d]
                                            ELSE NoStray]]
    BY <1>3 DEF BootSibling
  <2>2. j \in Instances
    <3>1. up[i] = "boot"
      BY <1>3 DEF BootSibling
    <3> QED BY <3>1 DEF StageInv, Stage, TypeInv, TypeOK
  <2>3. snap[j][c] = None
    BY <2>2 DEF PlainInv
  <2>4. index'[i][c] = index[i][c] /\ stray'[i][c] = stray[i][c]
    BY <1>t, <2>1, <2>3
  <2>5. UNCHANGED dirty
    BY <1>3 DEF BootSibling
  <2> QED BY <2>4, <2>5
<1>4. CASE ~Resolve(i) /\ ~(\E d \in Codes : Answer(i, d)) /\ ~Boot(i) /\ ~BootSibling(i)
  <2>1. UNCHANGED <<index, stray>> /\ (~Flush(i) => UNCHANGED dirty)
    BY <1>4, <1>n DEF Step, Flush, Ask, Poll, ReadNew, Tick, BootList, BootDone
  <2> QED BY <2>1
<1> QED BY <1>1, <1>2, <1>3, <1>4

LEMMA NextRow ==
    ASSUME Additive, TypeInv, StageInv, LengthInv, LinesInv, PlainInv, InboxInv, RowInv,
           TypeInv', [Next]_vars
    PROVE  RowInv'
<1>0. CASE UNCHANGED vars
  <2>1. UNCHANGED <<up, inbox, source, offset, log, index, buf, granted>>
    BY <1>0 DEF vars
  <2>2. \A i, j : Done(i, j)' = Done(i, j) /\ LogOf(j)' = LogOf(j) /\ Sole(j)' = Sole(j)
    BY <2>1 DEF Done, Coming, LogOf, Sole
  <2> QED BY <2>1, <2>2 DEF RowInv
<1>1. ASSUME NEW a \in Instances, Step(a), NEW i \in Instances, NEW j \in Instances,
             NEW c, c \in Sole(j)'
      PROVE  index'[i][c] # None <=>
                \/ \E k \in 1..Done(i, j)' : IsRow(LogOf(j)'[k], c)
                \/ i = j /\ \E k \in 1..Len(buf'[j]) : IsRow(buf'[j][k], c)
  <2>s. c \in Sole(j) /\ c \in Codes
    BY <1>1, GrantsGrow DEF Sole
  <2>i. index[i][c] # None <=>
                \/ \E k \in 1..Done(i, j) : IsRow(LogOf(j)[k], c)
                \/ i = j /\ \E k \in 1..Len(buf[j]) : IsRow(buf[j][k], c)
    BY <2>s DEF RowInv
  <2>g. /\ Len(LogOf(j)) \in Nat /\ Done(i, j) \in 0..Len(LogOf(j))
        /\ \A k \in 1..Len(LogOf(j)) : LogOf(j)'[k] = LogOf(j)[k]
    BY <1>1, LogsGrow DEF InboxInv
  <2>h. \A k \in 1..Done(i, j) : LogOf(j)'[k] = LogOf(j)[k]
    BY <2>g
  <2>1. CASE i # a
    <3>1. Same(i) /\ Done(i, j)' = Done(i, j)
      BY <1>1, <2>1, Others, OthersPlace
    <3>2. index'[i] = index[i] /\ buf'[i] = buf[i]
      BY <3>1 DEF Same
    <3> QED BY <2>i, <2>h, <3>1, <3>2
  <2>2. CASE i = a /\ ApplyLine(i)
    <3>1. PICK m \in Instances, l \in Lines :
             \E x \in Apply([index |-> index[i], stray |-> stray[i]], l, i) :
                 /\ index'[i] = x.index /\ UNCHANGED <<buf, log>>
                 /\ Done(i, m) \in Nat /\ Done(i, m)' = Done(i, m) + 1
                 /\ Done(i, m) + 1 <= Len(LogOf(m)) /\ l = LogOf(m)[Done(i, m) + 1]
                 /\ \A k \in Instances : k # m => Done(i, k)' = Done(i, k)
                 /\ l.k \in {"row", "hit"} /\ (l.k = "row" => m \in granted[l.c])
      BY <2>2, ApplyStep
    <3>2. index'[i][c] # None <=> index[i][c] # None \/ IsRow(l, c)
      <4>1. index[i] \in [Codes -> Entries \cup {None}] /\ stray[i] \in [Codes -> Strays]
        BY DEF TypeInv, TypeOK
      <4>2. PICK x \in Apply([index |-> index[i], stray |-> stray[i]], l, i) : index'[i] = x.index
        BY <3>1
      <4>3. x.index[c] # None <=> index[i][c] # None \/ IsRow(l, c)
        BY <2>s, <3>1, <4>1, ApplyRows
      <4> QED BY <4>2, <4>3
    <3>3. IsRow(l, c) => m = j
      BY <2>s, <3>1 DEF IsRow, Sole
    <3>4. LogOf(j)' = LogOf(j) /\ buf' = buf
      BY <3>1 DEF LogOf
    <3>5. (\E k \in 1..Done(i, j)' : IsRow(LogOf(j)[k], c))
            <=> (\E k \in 1..Done(i, j) : IsRow(LogOf(j)[k], c)) \/ IsRow(l, c)
      <4>1. CASE m = j
        <5>1. Done(i, j) \in Nat /\ Done(i, j)' = Done(i, j) + 1 /\ l = LogOf(j)[Done(i, j) + 1]
          BY <3>1, <4>1
        <5>2. 1..(Done(i, j) + 1) = 1..Done(i, j) \cup {Done(i, j) + 1}
          BY <5>1
        <5> QED BY <5>1, <5>2
      <4>2. CASE m # j
        BY <3>1, <3>3, <4>2
      <4> QED BY <4>1, <4>2
    <3> QED BY <2>i, <3>2, <3>4, <3>5
  <2>3. CASE i = a /\ Crash(i)
    <3>1. Done(i, j)' = 0 /\ index'[i] = Nothing /\ buf'[i] = <<>>
      BY <2>3, CrashPlace
    <3>2. index'[i][c] = None /\ 1..0 = {} /\ Len(<<>>) = 0
      BY <2>s, <3>1 DEF Nothing
    <3> QED BY <3>1, <3>2
  <2>4. CASE i = a /\ Shorten(i)
    <3>1. PICK d \in Codes, x \in Entries, l \in Lines :
             /\ index[i][d] = None /\ l.k = "row" /\ l.c = d
             /\ \A e \in Codes : index'[i][e] = IF e = d THEN x ELSE index[i][e]
             /\ buf'[i] = Append(buf[i], l) /\ buf[i] \in Seq(Lines)
             /\ i \in granted'[d] /\ UNCHANGED log
      BY <2>4, ShortenStep
    <3>2. LogOf(j)' = LogOf(j)
      BY <3>1 DEF LogOf
    <3>3. ~Flush(i) /\ ~ApplyLine(i) /\ ~Crash(i)
      <4>1. index'[i][d] # index[i][d] /\ buf'[i] # <<>> /\ buf'[i] # buf[i]
        <5>1. x # None /\ Len(Append(buf[i], l)) = Len(buf[i]) + 1 /\ Len(buf[i]) \in Nat
          BY <3>1, NoneAssumption
        <5>2. Len(Append(buf[i], l)) # Len(buf[i]) /\ Len(Append(buf[i], l)) # 0
          BY <5>1
        <5> QED BY <3>1, <5>1, <5>2
      <4>2. Crash(i) => buf'[i] = <<>>
        BY DEF Crash, TypeInv, TypeOK
      <4> QED BY <4>1, <4>2 DEF Flush, ApplyLine
    <3>4. Done(i, j)' = Done(i, j)
      BY <1>1, <2>4, <3>3, ActorPlace
    <3>5. CASE c = d
      <4>1. j = i
        BY <1>1, <3>1, <3>5 DEF Sole
      <4>2. index'[i][c] # None
        BY <3>1, <3>5, NoneAssumption
      <4>3. Len(buf[i]) + 1 \in 1..Len(buf'[i]) /\ buf'[i][Len(buf[i]) + 1] = l
        BY <3>1
      <4>4. IsRow(l, c)
        BY <3>1, <3>5 DEF IsRow
      <4> QED BY <4>1, <4>2, <4>3, <4>4
    <3>6. CASE c # d
      <4>1. index'[i][c] = index[i][c] /\ ~IsRow(l, c)
        BY <2>s, <3>1, <3>6 DEF IsRow
      <4>2. (\E k \in 1..Len(buf'[i]) : IsRow(buf'[i][k], c)) <=> (\E k \in 1..Len(buf[i]) : IsRow(buf[i][k], c))
        <5>1. \A k \in 1..Len(buf[i]) : k \in 1..Len(buf'[i])
          BY <3>1
        <5> QED BY <3>1, <4>1, <5>1, ShortenRows
      <4> QED BY <2>i, <3>2, <3>4, <4>1, <4>2
    <3> QED BY <3>5, <3>6
  <2>5. CASE i = a /\ Flush(i)
    <3>1. index' = index
      BY <2>5 DEF Flush
    <3>2. CASE j # i
      <4>1. Done(i, j)' = Done(i, j)
        BY <2>5, <3>2, FlushPlace
      <4> QED BY <2>i, <2>h, <3>1, <3>2, <4>1
    <3>3. CASE j = i
      <4> DEFINE n == Len(LogOf(i))
                 b == Len(buf[i])
                 z == LogOf(i)'
      <4>1. /\ n \in Nat /\ b \in Nat /\ Len(z) \in Nat /\ n + b <= Len(z)
            /\ \A k \in 1..Len(z) :
                  IsRow(z[k], c) <=> \/ k \in 1..n /\ IsRow(LogOf(i)[k], c)
                                     \/ k - n \in 1..b /\ IsRow(buf[i][k - n], c)
        BY <2>5, FlushRows
      <4>2. Done(i, i) = n /\ Done(i, i)' = Len(z)
        BY <2>5, FlushPlace
      <4>3. buf'[i] = <<>>
        BY <2>5 DEF Flush, FlushTo, TypeInv, TypeOK
      <4> HIDE DEF n, b, z
      <4>4. (\E k \in 1..Len(z) : IsRow(z[k], c))
              <=> (\E k \in 1..n : IsRow(LogOf(i)[k], c)) \/ (\E k \in 1..b : IsRow(buf[i][k], c))
        <5>1. ASSUME NEW k \in 1..n, IsRow(LogOf(i)[k], c) PROVE \E m \in 1..Len(z) : IsRow(z[m], c)
          <6>1. k \in 1..Len(z)
            BY <4>1, <5>1
          <6> QED BY <4>1, <5>1, <6>1
        <5>2. ASSUME NEW k \in 1..b, IsRow(buf[i][k], c) PROVE \E m \in 1..Len(z) : IsRow(z[m], c)
          <6>1. n + k \in 1..Len(z) /\ (n + k) - n = k
            BY <4>1, <5>2
          <6>2. IsRow(z[n + k], c)
            BY <4>1, <5>2, <6>1
          <6> QED BY <6>1, <6>2
        <5> QED BY <4>1, <5>1, <5>2
      <4>5. Len(buf'[i]) = 0
        BY <4>3
      <4> QED BY <2>i, <3>1, <3>3, <4>2, <4>4, <4>5 DEF b, z
    <3> QED BY <3>2, <3>3
  <2>6. CASE i = a /\ ~ApplyLine(i) /\ ~Crash(i) /\ ~Shorten(i) /\ ~Flush(i)
    <3>1. Done(i, j)' = Done(i, j)
      BY <1>1, <2>6, ActorPlace
    <3>2. LogOf(j)' = LogOf(j)
      BY <1>1, <2>6, LogsGrow
    <3>3. UNCHANGED buf
      BY <1>1, <2>6, OtherBuf
    <3>4. index'[i][c] = None <=> index[i][c] = None
      BY <1>1, <2>s, <2>6, EntriesStay
    <3> QED BY <2>i, <3>1, <3>2, <3>3, <3>4
  <2> QED BY <2>1, <2>2, <2>3, <2>4, <2>5, <2>6
<1> QED BY <1>0, <1>1, NextSteps DEF RowInv

(* The lines of a log that were applied are still there, and others may    *)
(* have been applied since.                                                *)
Onward(i, j) ==
    /\ Done(i, j) \in Nat /\ Done(i, j)' \in Nat /\ Done(i, j) <= Done(i, j)'
    /\ \A k \in 1..Done(i, j) : LogOf(j)'[k] = LogOf(j)[k]

LEMMA RecordedSame ==
    ASSUME NEW i, NEW c, \A j \in Instances : Onward(i, j),
           \A j \in Instances : \A k \in 1..Done(i, j)' : k > Done(i, j) => Hits(LogOf(j)'[k], c) = {}
    PROVE  Recorded(i, c)' = Recorded(i, c)
<1> DEFINE H(j, k) == {<<j, k, m>> : m \in Hits(LogOf(j)[k], c)}
           N(j, k) == {<<j, k, m>> : m \in Hits(LogOf(j)'[k], c)}
<1>1. Recorded(i, c) = UNION {UNION {H(j, k) : k \in 1..Done(i, j)} : j \in Instances}
  BY DEF Recorded, HitsOf
<1>2. Recorded(i, c)' = UNION {UNION {N(j, k) : k \in 1..Done(i, j)'} : j \in Instances}
  BY DEF Recorded, HitsOf, Hits
<1>3. ASSUME NEW j \in Instances PROVE UNION {N(j, k) : k \in 1..Done(i, j)'} = UNION {H(j, k) : k \in 1..Done(i, j)}
  <2>1. \A k \in 1..Done(i, j) : N(j, k) = H(j, k) /\ k \in 1..Done(i, j)'
    BY DEF Onward
  <2>2. \A k \in 1..Done(i, j)' : k \in 1..Done(i, j) \/ k > Done(i, j)
    BY DEF Onward
  <2>3. \A k \in 1..Done(i, j)' : k > Done(i, j) => N(j, k) = {}
    OBVIOUS
  <2> HIDE DEF H, N
  <2> QED BY <2>1, <2>2, <2>3
<1> HIDE DEF H, N
<1> QED BY <1>1, <1>2, <1>3

(* One line more that records hits.                                        *)
LEMMA RecordedMore ==
    ASSUME NEW i, NEW c, \A j \in Instances : Onward(i, j), NEW a \in Instances, NEW p \in 1..Done(i, a)',
           p > Done(i, a), LogOf(a)'[p] \in Lines, IsFiniteSet(Recorded(i, c)),
           \A j \in Instances : \A k \in 1..Done(i, j)' :
              k > Done(i, j) /\ (j # a \/ k # p) => Hits(LogOf(j)'[k], c) = {}
    PROVE  /\ IsFiniteSet(Recorded(i, c)') /\ Cardinality(Recorded(i, c)) \in Nat
           /\ Cardinality(Recorded(i, c)') = Cardinality(Recorded(i, c)) + Gain(LogOf(a)'[p], c)
<1> DEFINE H(j, k) == {<<j, k, m>> : m \in Hits(LogOf(j)[k], c)}
           N(j, k) == {<<j, k, m>> : m \in Hits(LogOf(j)'[k], c)}
           R == Recorded(i, c)
           T == N(a, p)
           A(j) == UNION {N(j, k) : k \in 1..Done(i, j)'}
           B(j) == UNION {H(j, k) : k \in 1..Done(i, j)}
<1>1. R = UNION {B(j) : j \in Instances}
  BY DEF Recorded, HitsOf
<1>2. Recorded(i, c)' = UNION {A(j) : j \in Instances}
  BY DEF Recorded, HitsOf, Hits
<1>3. ASSUME NEW j \in Instances
      PROVE  /\ j # a => A(j) = B(j)
             /\ j = a => A(j) = B(j) \cup T
  <2>1. \A k \in 1..Done(i, j) : N(j, k) = H(j, k) /\ k \in 1..Done(i, j)'
    BY DEF Onward
  <2>2. \A k \in 1..Done(i, j)' : k \in 1..Done(i, j) \/ k > Done(i, j)
    BY DEF Onward
  <2>3. \A k \in 1..Done(i, j)' : k > Done(i, j) /\ (j # a \/ k # p) => N(j, k) = {}
    OBVIOUS
  <2> HIDE DEF H, N
  <2>4. CASE j # a
    BY <2>1, <2>2, <2>3, <2>4
  <2>5. CASE j = a
    <3>1. \A t \in A(j) : t \in B(j) \cup T
      <4>1. SUFFICES ASSUME NEW k \in 1..Done(i, j)', NEW t \in N(j, k) PROVE t \in B(j) \cup T
        OBVIOUS
      <4>2. CASE k \in 1..Done(i, j)
        BY <2>1, <4>1, <4>2
      <4>3. CASE k > Done(i, j) /\ k = p
        BY <2>5, <4>1, <4>3
      <4> QED BY <2>2, <2>3, <4>1, <4>2, <4>3
    <3>2. \A t \in B(j) : t \in A(j)
      BY <2>1
    <3>3. \A t \in T : t \in A(j)
      BY <2>5
    <3>4. A(j) = B(j) \cup T
      <4> HIDE DEF A, B, T
      <4> QED BY <3>1, <3>2, <3>3
    <3> HIDE DEF A, B, T
    <3> QED BY <2>5, <3>4
  <2> HIDE DEF A, B, T
  <2> QED BY <2>4, <2>5
<1>4. Recorded(i, c)' = R \cup T
  <2> HIDE DEF H, N, R, T, A, B
  <2>1. \A t : t \in Recorded(i, c)' <=> t \in R \/ t \in T
    BY <1>1, <1>2, <1>3
  <2> QED BY <2>1
<1>5. R \cap T = {}
  <2>1. SUFFICES ASSUME NEW j \in Instances, NEW k \in 1..Done(i, j), NEW t, t \in H(j, k), t \in T PROVE FALSE
    <3> HIDE DEF H, N, R, T
    <3> QED BY <1>1
  <2>2. j = a /\ k = p
    BY <2>1
  <2> QED BY <2>2 DEF Onward
<1>6. Gain(LogOf(a)'[p], c) \in Nat /\ Hits(LogOf(a)'[p], c) = 1..Gain(LogOf(a)'[p], c)
  BY GainType
<1>7. IsFiniteSet(T) /\ Cardinality(T) = Gain(LogOf(a)'[p], c)
  <2> DEFINE g == Gain(LogOf(a)'[p], c)
  <2>1. T = Triples(a, p, g)
    BY <1>6 DEF Triples
  <2>2. g \in Nat /\ a \in Instances
    BY <1>6
  <2> HIDE DEF g, T
  <2> QED BY <2>1, <2>2, HitsCount DEF g
<1> HIDE DEF R, T
<1> QED BY <1>4, <1>5, <1>7, HitsAdd DEF R

LEMMA OnwardStep ==
    ASSUME Additive, TypeInv, StageInv, LengthInv, PlainInv, InboxInv, NEW a \in Instances, Step(a),
           NEW i \in Instances, i = a => ~Crash(a), NEW j \in Instances
    PROVE  /\ Onward(i, j)
           /\ i # a \/ (~Flush(a) /\ ~ApplyLine(a)) => Done(i, j)' = Done(i, j)
<1>1. /\ Done(i, j) \in 0..Len(LogOf(j)) /\ Len(LogOf(j)) \in Nat /\ Len(LogOf(j)') \in Nat
      /\ Len(LogOf(j)) <= Len(LogOf(j)') /\ \A k \in 1..Len(LogOf(j)) : LogOf(j)'[k] = LogOf(j)[k]
  BY LogsGrow DEF InboxInv
<1>2. Done(i, j) \in Nat /\ \A k \in 1..Done(i, j) : LogOf(j)'[k] = LogOf(j)[k]
  BY <1>1
<1>3. CASE i # a
  <2>1. Done(i, j)' = Done(i, j)
    BY <1>3, OthersPlace
  <2> QED BY <1>2, <1>3, <2>1 DEF Onward
<1>4. CASE i = a /\ ~Flush(a) /\ ~ApplyLine(a)
  <2>1. Done(i, j)' = Done(i, j)
    BY <1>4, ActorPlace
  <2> QED BY <1>2, <1>4, <2>1 DEF Onward
<1>5. CASE i = a /\ ApplyLine(a)
  <2>1. Done(i, j)' = Done(i, j) + 1 \/ Done(i, j)' = Done(i, j)
    BY <1>5, ApplyPlace
  <2> QED BY <1>2, <1>5, <2>1 DEF Onward
<1>6. CASE i = a /\ Flush(a)
  <2>1. Done(i, j)' = Done(i, j) \/ (Done(i, j) = Len(LogOf(j)) /\ Done(i, j)' = Len(LogOf(j)'))
    BY <1>6, FlushPlace
  <2> QED BY <1>1, <1>2, <1>6, <2>1 DEF Onward
<1> QED BY <1>3, <1>4, <1>5, <1>6

(* A flush records the hits that were not yet written, each of them once.  *)
LEMMA FlushSum ==
    ASSUME Additive, TypeInv, StageInv, LengthInv, PlainInv, InboxInv, NEW i \in Instances, Step(i),
           Flush(i), ~Crash(i), NEW c \in Codes, IsFiniteSet(Recorded(i, c))
    PROVE  /\ IsFiniteSet(Recorded(i, c)') /\ Cardinality(Recorded(i, c)) \in Nat
           /\ Cardinality(Recorded(i, c)') = Cardinality(Recorded(i, c)) + dirty[i][c]
           /\ dirty[i][c] \in Nat /\ dirty'[i][c] = 0
<1> DEFINE n == Len(LogOf(i))
           b == Len(buf[i])
           z == LogOf(i)'
           v == HitLine(c, dirty[i][c], i)
<1>1. PICK s \in Orders(Deltas(i)) :
         /\ n \in Nat /\ b \in Nat /\ Len(s) \in Nat /\ s \in Seq(HitLines)
         /\ Len(z) = n + b + Len(s)
         /\ \A k \in 1..b : z[n + k] = buf[i][k]
         /\ \A k \in 1..Len(s) : z[n + b + k] = s[k]
  BY FlushLines
<1>2. /\ dirty[i][c] \in Nat /\ dirty'[i][c] = 0 /\ Cardinality(Recorded(i, c)) \in Nat
  <2>1. dirty \in [Instances -> [Codes -> Nat]]
    BY DEF TypeInv, TypeOK
  <2>2. dirty' = [dirty EXCEPT ![i] = NoHits]
    BY DEF Flush, FlushTo
  <2> QED BY <2>1, <2>2, FS_CardinalityType DEF NoHits
<1>3. \A j \in Instances : Onward(i, j) /\ (j # i => Done(i, j)' = Done(i, j))
  BY OnwardStep, FlushPlace
<1>4. Done(i, i) = n /\ Done(i, i)' = Len(z)
  BY FlushPlace
<1>5. IsFiniteSet(Deltas(i))
  <2> DEFINE D == {d \in Codes : dirty[i][d] > 0}
             f == [d \in D |-> HitLine(d, dirty[i][d], i)]
  <2>1. IsFiniteSet(D)
    BY LogAssumption, FS_Subset
  <2>2. f \in Surjection(D, Deltas(i))
    BY DEF Surjection, Deltas
  <2> QED BY <2>1, <2>2, FS_Surjection
<1>6. /\ \A k \in 1..Len(s) : s[k] \in Deltas(i)
      /\ \A y \in Deltas(i) : \E k \in 1..Len(s) : s[k] = y /\ \A m \in 1..Len(s) : s[m] = y => m = k
  BY <1>1, <1>5, OrdersAll
<1>7. \A y \in Deltas(i) : y.k = "hit" /\ (y.c = c => y = v /\ dirty[i][c] > 0)
  BY DEF Deltas, HitLine
<1>8. dirty[i][c] > 0 => v \in Deltas(i)
  BY DEF Deltas
<1>9. v.c = c /\ v.k = "hit" /\ v.d = dirty[i][c]
  BY DEF HitLine
<1> HIDE DEF n, b, z, v
<1>10. ASSUME NEW k \in 1..Len(z), k > n, Hits(z[k], c) # {}
       PROVE  k - (n + b) \in 1..Len(s) /\ z[k] = v /\ s[k - (n + b)] = v /\ dirty[i][c] > 0
  <2>1. z[k].k = "hit" /\ z[k].c = c
    BY <1>10 DEF Hits
  <2>2. k > n + b
    <3>1. SUFFICES ASSUME k <= n + b PROVE FALSE
      BY <1>1, <1>10
    <3>2. k - n \in 1..b /\ n + (k - n) = k
      BY <1>1, <1>10, <3>1
    <3>3. z[k] = buf[i][k - n]
      BY <1>1, <3>2
    <3>4. buf[i][k - n].k = "row"
      BY <3>2 DEF PlainInv, b
    <3> QED BY <2>1, <3>3, <3>4
  <2>3. k - (n + b) \in 1..Len(s) /\ n + b + (k - (n + b)) = k
    BY <1>1, <1>10, <2>2
  <2>4. z[k] = s[k - (n + b)]
    BY <1>1, <2>3
  <2>5. z[k] \in Deltas(i)
    BY <1>6, <2>3, <2>4
  <2> QED BY <1>7, <2>1, <2>3, <2>4, <2>5
<1>11. CASE dirty[i][c] = 0
  <2>1. \A j \in Instances : \A k \in 1..Done(i, j)' : k > Done(i, j) => Hits(LogOf(j)'[k], c) = {}
    <3>1. SUFFICES ASSUME NEW j \in Instances, NEW k \in 1..Done(i, j)', k > Done(i, j),
                          Hits(LogOf(j)'[k], c) # {} PROVE FALSE
      OBVIOUS
    <3>2. j = i
      BY <1>3, <3>1 DEF Onward
    <3>3. k \in 1..Len(z) /\ k > n /\ Hits(z[k], c) # {}
      BY <1>4, <3>1, <3>2 DEF z
    <3>4. dirty[i][c] > 0
      BY <1>10, <3>3
    <3> QED BY <1>2, <1>11, <3>4
  <2>2. Recorded(i, c)' = Recorded(i, c)
    BY <1>3, <2>1, RecordedSame
  <2> QED BY <1>2, <1>11, <2>2
<1>12. CASE dirty[i][c] > 0
  <2>1. PICK q \in 1..Len(s) : s[q] = v /\ \A m \in 1..Len(s) : s[m] = v => m = q
    BY <1>6, <1>8, <1>12
  <2> DEFINE p == n + b + q
  <2>2. p \in 1..Len(z) /\ p > n /\ z[p] = v
    BY <1>1, <2>1
  <2>3. p \in 1..Done(i, i)' /\ p > Done(i, i) /\ LogOf(i)'[p] = v
    BY <1>4, <2>2 DEF z
  <2>4. v \in Lines
    <3>1. i \in Nat
      BY TailAssumption
    <3> QED BY <1>2, <3>1 DEF v, HitLine, HitLines, Lines
  <2>5. ASSUME NEW j \in Instances, NEW k \in 1..Done(i, j)', k > Done(i, j), j # i \/ k # p
        PROVE  Hits(LogOf(j)'[k], c) = {}
    <3>1. SUFFICES ASSUME Hits(LogOf(j)'[k], c) # {} PROVE FALSE
      OBVIOUS
    <3>2. j = i
      BY <1>3, <2>5 DEF Onward
    <3>3. k \in 1..Len(z) /\ k > n /\ Hits(z[k], c) # {}
      BY <1>4, <2>5, <3>1, <3>2 DEF z
    <3>4. k - (n + b) = q
      BY <1>10, <2>1, <3>3
    <3>5. k = p
      BY <1>1, <3>3, <3>4
    <3> QED BY <2>5, <3>2, <3>5
  <2>6. Gain(v, c) = dirty[i][c]
    BY <1>9 DEF Gain
  <2> HIDE DEF p
  <2>7. /\ IsFiniteSet(Recorded(i, c)')
        /\ Cardinality(Recorded(i, c)') = Cardinality(Recorded(i, c)) + Gain(LogOf(i)'[p], c)
    BY <1>3, <2>3, <2>4, <2>5, RecordedMore
  <2> QED BY <1>2, <2>3, <2>6, <2>7
<1> QED BY <1>2, <1>11, <1>12

LEMMA CountTally ==
    ASSUME TypeInv, NEW i \in Instances, NEW d \in Codes, index[i][d] # None, CountHit(i, d),
           UNCHANGED stray, NEW c \in Codes
    PROVE  /\ Shown(i, c) \in Nat /\ dirty[i][c] \in Nat
           /\ Shown(i, c)' - Shown(i, c) = dirty'[i][c] - dirty[i][c]
           /\ Shown(i, c)' \in Nat /\ dirty'[i][c] \in Nat
<1> DEFINE x == index[i][d]
           y == [x EXCEPT !.h = @ + 1, !.oh = @ + 1]
<1>1. /\ index \in [Instances -> [Codes -> Entries \cup {None}]]
      /\ dirty \in [Instances -> [Codes -> Nat]] /\ stray \in [Instances -> [Codes -> Strays]]
      /\ x \in Entries
  BY DEF TypeInv, TypeOK
<1>2. index' = [index EXCEPT ![i] = [index[i] EXCEPT ![d] = y]]
  BY DEF CountHit
<1>3. y \in Entries /\ y.h = x.h + 1 /\ x.h \in Nat
  <2>1. y \in Entries
    BY <1>1, CountHits
  <2>2. y.h = x.h + 1 /\ x.h \in Nat
    BY <1>1 DEF Entries
  <2> QED BY <2>1, <2>2
<1>4. y # None
  BY <1>3, NoneAssumption
<1> HIDE DEF y
<1>5. index'[i] = [index[i] EXCEPT ![d] = y]
  BY <1>1, <1>2
<1>6. index'[i][d] = y /\ \A e \in Codes : e # d => index'[i][e] = index[i][e]
  BY <1>1, <1>5
<1>7. dirty'[i][c] = IF c = d THEN dirty[i][c] + 1 ELSE dirty[i][c]
  BY <1>1 DEF CountHit
<1>8. stray'[i] = stray[i] /\ stray[i][c].t \in Nat /\ dirty[i][c] \in Nat
  BY <1>1 DEF Strays
<1>9. CASE c = d
  <2>1. Shown(i, c) = x.h + stray[i][c].t
    BY <1>9 DEF Shown, Tally
  <2>2. Shown(i, c)' = y.h + stray[i][c].t
    BY <1>4, <1>6, <1>8, <1>9 DEF Shown, Tally
  <2> QED BY <1>3, <1>7, <1>8, <1>9, <2>1, <2>2
<1>10. CASE c # d
  <2>1. Shown(i, c)' = Shown(i, c)
    BY <1>6, <1>8, <1>10 DEF Shown, Tally
  <2>2. Shown(i, c) \in Nat
    <3>1. index[i][c] # None => index[i][c].h \in Nat
      BY <1>1 DEF Entries
    <3> QED BY <1>8, <3>1 DEF Shown, Tally
  <2> QED BY <1>7, <1>8, <1>10, <2>1, <2>2
<1> QED BY <1>9, <1>10

LEMMA NextSum ==
    ASSUME Additive, TypeInv, StageInv, LengthInv, LinesInv, PlainInv, InboxInv, OnceInv, RowInv,
           SumInv, [Next]_vars
    PROVE  SumInv'
<1>0. CASE UNCHANGED vars
  <2>1. UNCHANGED <<up, inbox, source, offset, log, index, stray, dirty, granted>>
    BY <1>0 DEF vars
  <2>2. \A j : Sole(j)' = Sole(j)
    BY <2>1 DEF Sole
  <2>3. \A i, c : Recorded(i, c)' = Recorded(i, c)
    BY <2>1 DEF Recorded, HitsOf, Hits, Done, Coming, LogOf
  <2>4. \A i, c : Shown(i, c)' = Shown(i, c)
    BY <2>1 DEF Shown, Tally
  <2> QED BY <2>1, <2>2, <2>3, <2>4 DEF SumInv
<1>1. ASSUME NEW a \in Instances, Step(a), NEW i \in Instances, NEW j \in Instances,
             NEW c, c \in Sole(j)'
      PROVE  /\ IsFiniteSet(Recorded(i, c)')
             /\ Shown(i, c)' = Cardinality(Recorded(i, c)') + dirty'[i][c]
  <2>s. c \in Sole(j) /\ c \in Codes
    BY <1>1, GrantsGrow DEF Sole
  <2>i. IsFiniteSet(Recorded(i, c)) /\ Shown(i, c) = Cardinality(Recorded(i, c)) + dirty[i][c]
    BY <2>s DEF SumInv
  <2>n. Cardinality(Recorded(i, c)) \in Nat /\ dirty[i][c] \in Nat
    BY <2>s, <2>i, FS_CardinalityType DEF TypeInv, TypeOK
  <2>o. i # a \/ ~Crash(a) =>
           /\ \A k \in Instances : Onward(i, k)
           /\ i # a \/ (~Flush(a) /\ ~ApplyLine(a)) => Recorded(i, c)' = Recorded(i, c)
    <3>1. SUFFICES ASSUME i # a \/ ~Crash(a)
                   PROVE  /\ \A k \in Instances : Onward(i, k)
                          /\ i # a \/ (~Flush(a) /\ ~ApplyLine(a)) => Recorded(i, c)' = Recorded(i, c)
      OBVIOUS
    <3>2. \A k \in Instances : /\ Onward(i, k)
                               /\ i # a \/ (~Flush(a) /\ ~ApplyLine(a)) => Done(i, k)' = Done(i, k)
      BY <1>1, <3>1, OnwardStep
    <3>3. ASSUME i # a \/ (~Flush(a) /\ ~ApplyLine(a)) PROVE Recorded(i, c)' = Recorded(i, c)
      <4>1. \A k \in Instances : \A m \in 1..Done(i, k)' : ~(m > Done(i, k))
        BY <3>2, <3>3 DEF Onward
      <4> QED BY <3>2, <4>1, RecordedSame
    <3> QED BY <3>2, <3>3
  <2>1. CASE i # a
    <3>1. Same(i) /\ dirty'[i] = dirty[i] /\ Recorded(i, c)' = Recorded(i, c)
      BY <1>1, <2>o, <2>1, Others, OthersPlace
    <3>2. Shown(i, c)' = Shown(i, c)
      BY <3>1 DEF Same, Shown, Tally
    <3> QED BY <2>i, <3>1, <3>2
  <2>2. CASE i = a /\ Crash(i)
    <3>1. (\A k \in Instances : Done(i, k)' = 0) /\ index'[i] = Nothing /\ stray'[i] = NoStrays /\ dirty'[i] = NoHits
      BY <2>2, CrashPlace
    <3>2. Recorded(i, c)' = {}
      <4>1. \A k \in Instances : 1..Done(i, k)' = {}
        BY <3>1
      <4> QED BY <4>1 DEF Recorded
    <3>3. Shown(i, c)' = 0 + 0 /\ dirty'[i][c] = 0
      BY <2>s, <3>1 DEF Shown, Tally, Nothing, NoStrays, NoStray, NoHits
    <3> QED BY <3>2, <3>3, FS_EmptySet
  <2>3. CASE i = a /\ ApplyLine(i) /\ ~Crash(i)
    <3>1. PICK m \in Instances, l \in Lines :
             \E x \in Apply([index |-> index[i], stray |-> stray[i]], l, i) :
                /\ index'[i] = x.index /\ stray'[i] = x.stray /\ UNCHANGED <<buf, dirty, log, granted>>
                /\ Done(i, m) \in Nat /\ Done(i, m)' = Done(i, m) + 1
                /\ Done(i, m) + 1 <= Len(LogOf(m)) /\ l = LogOf(m)[Done(i, m) + 1]
                /\ \A k \in Instances : k # m => Done(i, k)' = Done(i, k)
                /\ l.k \in {"row", "hit"} /\ (l.k = "row" => l.n = 0 /\ m \in granted[l.c])
      BY <2>3, ApplyStep
    <3>2. PICK x \in Apply([index |-> index[i], stray |-> stray[i]], l, i) :
                index'[i] = x.index /\ stray'[i] = x.stray
      BY <3>1
    <3> DEFINE p == Done(i, m) + 1
    <3>3. p \in 1..Len(LogOf(m)) /\ Len(LogOf(m)) \in Nat /\ p \in 1..Done(i, m)' /\ p > Done(i, m)
      BY <3>1, LogOfType
    <3>4. IsRow(l, c) => index[i][c] = None
      <4>1. SUFFICES ASSUME IsRow(l, c), index[i][c] # None PROVE FALSE
        OBVIOUS
      <4>2. m = j
        BY <2>s, <3>1, <4>1 DEF IsRow, Sole
      <4>3. l = LogOf(j)[p] /\ p \in 1..Len(LogOf(j)) /\ Done(i, j) \in Nat /\ p = Done(i, j) + 1
        BY <3>1, <3>3, <4>2
      <4>4. \/ \E k \in 1..Done(i, j) : IsRow(LogOf(j)[k], c)
            \/ i = j /\ \E k \in 1..Len(buf[j]) : IsRow(buf[j][k], c)
        BY <2>s, <4>1 DEF RowInv
      <4> HIDE DEF p
      <4>5. ~\E k \in 1..Done(i, j) : IsRow(LogOf(j)[k], c)
        <5>1. SUFFICES ASSUME NEW k \in 1..Done(i, j), IsRow(LogOf(j)[k], c) PROVE FALSE
          OBVIOUS
        <5>2. k \in 1..Len(LogOf(j)) /\ k # p
          BY <3>3, <4>2, <4>3
        <5> QED BY <2>s, <4>1, <4>3, <5>1, <5>2 DEF OnceInv
      <4>6. ~\E k \in 1..Len(buf[j]) : IsRow(buf[j][k], c)
        BY <2>s, <4>1, <4>3 DEF OnceInv
      <4> QED BY <4>4, <4>5, <4>6
    <3>5. index[i] \in [Codes -> Entries \cup {None}] /\ stray[i] \in [Codes -> Strays]
      BY DEF TypeInv, TypeOK
    <3>6. Tally(x.index, x.stray, c) = Tally(index[i], stray[i], c) + Gain(l, c)
      BY <2>s, <3>1, <3>4, <3>5, ApplyTally DEF Additive
    <3>7. Shown(i, c)' = Shown(i, c) + Gain(l, c)
      BY <3>2, <3>6 DEF Shown, Tally
    <3>8. \A k : LogOf(k)' = LogOf(k)
      BY <3>1 DEF LogOf
    <3>9. LogOf(m)'[p] = l
      BY <3>1, <3>8
    <3>10. ASSUME NEW k \in Instances, NEW n \in 1..Done(i, k)', n > Done(i, k), k # m \/ n # p
           PROVE  FALSE
      <4>1. k = m
        BY <2>3, <2>o, <3>1, <3>10 DEF Onward
      <4> QED BY <3>1, <3>10, <4>1
    <3> HIDE DEF p
    <3>11. /\ IsFiniteSet(Recorded(i, c)')
           /\ Cardinality(Recorded(i, c)') = Cardinality(Recorded(i, c)) + Gain(LogOf(m)'[p], c)
      BY <2>3, <2>i, <2>o, <3>3, <3>9, <3>10, RecordedMore
    <3>12. Gain(l, c) \in Nat /\ dirty' = dirty
      BY <3>1, GainType
    <3> QED BY <2>i, <2>n, <3>7, <3>9, <3>11, <3>12
  <2>4. CASE i = a /\ Shorten(i) /\ ~Flush(i) /\ ~ApplyLine(i) /\ ~Crash(i)
    <3>1. PICK d \in Codes, x \in Entries :
             /\ index[i][d] = None /\ x.h = 0 /\ UNCHANGED <<stray, dirty>>
             /\ \A e \in Codes : index'[i][e] = IF e = d THEN x ELSE index[i][e]
      BY <2>4, ShortenStep
    <3>2. x # None
      BY <3>1, NoneAssumption
    <3>3. Shown(i, c)' = Shown(i, c)
      BY <2>s, <3>1, <3>2 DEF Shown, Tally
    <3> QED BY <2>i, <2>o, <2>4, <3>1, <3>3
  <2>5. CASE i = a /\ Flush(i) /\ ~Crash(i)
    <3>1. /\ IsFiniteSet(Recorded(i, c)')
          /\ Cardinality(Recorded(i, c)') = Cardinality(Recorded(i, c)) + dirty[i][c] /\ dirty'[i][c] = 0
      BY <1>1, <2>s, <2>i, <2>5, FlushSum
    <3>2. Shown(i, c)' = Shown(i, c)
      BY <2>5 DEF Flush, Shown, Tally
    <3> QED BY <2>i, <2>n, <3>1, <3>2
  <2>6. CASE i = a /\ (Resolve(i) \/ \E d \in Codes : Answer(i, d)) /\ ~Flush(i) /\ ~ApplyLine(i) /\ ~Crash(i)
    <3>1. UNCHANGED stray /\ (UNCHANGED <<index, dirty>> \/ \E d \in Codes : index[i][d] # None /\ CountHit(i, d))
      BY <2>6 DEF Resolve, Answer
    <3>2. Recorded(i, c)' = Recorded(i, c)
      BY <2>o, <2>6
    <3>3. CASE UNCHANGED <<index, dirty>>
      <4>1. Shown(i, c)' = Shown(i, c)
        BY <3>1, <3>3 DEF Shown, Tally
      <4> QED BY <2>i, <3>2, <3>3, <4>1
    <3>4. CASE \E d \in Codes : index[i][d] # None /\ CountHit(i, d)
      <4>1. /\ Shown(i, c) \in Nat /\ Shown(i, c)' - Shown(i, c) = dirty'[i][c] - dirty[i][c]
            /\ Shown(i, c)' \in Nat /\ dirty'[i][c] \in Nat
        BY <2>s, <3>1, <3>4, CountTally
      <4> QED BY <2>i, <2>n, <3>2, <4>1
    <3> QED BY <3>1, <3>3, <3>4
  <2>7. CASE /\ i = a /\ ~Resolve(i) /\ ~(\E d \in Codes : Answer(i, d)) /\ ~Flush(i) /\ ~ApplyLine(i)
             /\ ~Crash(i) /\ ~Shorten(i)
    <3>1. index'[i][c] = index[i][c] /\ stray'[i][c] = stray[i][c] /\ dirty' = dirty
      BY <1>1, <2>s, <2>7, EntriesStay
    <3>2. Shown(i, c)' = Shown(i, c)
      BY <3>1 DEF Shown, Tally
    <3> QED BY <2>i, <2>o, <2>7, <3>1, <3>2
  <2> QED BY <2>1, <2>2, <2>3, <2>4, <2>5, <2>6, <2>7
<1> QED BY <1>0, <1>1, NextSteps DEF SumInv

HitInv == PlainInv /\ InboxInv /\ OnceInv /\ RowInv /\ SumInv

LEMMA InitHits == ASSUME Init PROVE HitInv
<1>1. \A j : LogOf(j) = <<>> /\ Len(LogOf(j)) = 0
  BY DEF Init, LogOf
<1>2. \A i, j \in Instances : Done(i, j) = 0
  BY DEF Init, Done
<1>3. \A j \in Instances : buf[j] = <<>> /\ inbox[j] = <<>> /\ Len(buf[j]) = 0 /\ Len(inbox[j]) = 0
  BY DEF Init
<1>4. PlainInv
  BY <1>1, <1>3 DEF Init, PlainInv, Nothing
<1>5. InboxInv
  BY <1>1, <1>2, <1>3 DEF InboxInv
<1>6. OnceInv
  BY <1>1, <1>3 DEF OnceInv
<1>7. RowInv
  <2>1. \A i \in Instances, c \in Codes : index[i][c] = None
    BY DEF Init, Nothing
  <2>2. \A i, j \in Instances : 1..Done(i, j) = {} /\ 1..Len(buf[j]) = {}
    BY <1>2, <1>3
  <2> QED BY <2>1, <2>2 DEF RowInv, Sole
<1>8. SumInv
  <2>1. ASSUME NEW i \in Instances, NEW c \in Codes
        PROVE  Recorded(i, c) = {} /\ Shown(i, c) = 0 /\ dirty[i][c] = 0
    <3>1. \A j \in Instances : 1..Done(i, j) = {}
      BY <1>2
    <3>2. Recorded(i, c) = {}
      BY <3>1 DEF Recorded
    <3>3. index[i][c] = None /\ stray[i][c].t = 0 /\ dirty[i][c] = 0
      BY DEF Init, Nothing, NoStrays, NoStray, NoHits
    <3> QED BY <3>2, <3>3 DEF Shown, Tally
  <2> QED BY <2>1, FS_EmptySet DEF SumInv, Sole
<1> QED BY <1>4, <1>5, <1>6, <1>7, <1>8 DEF HitInv

LEMMA NextHits == ASSUME Additive, ViewsInv, ViewsInv', HitInv, [Next]_vars PROVE HitInv'
<1>0. /\ TypeInv /\ StageInv /\ LengthInv /\ LinesInv /\ TypeInv'
      /\ PlainInv /\ InboxInv /\ OnceInv /\ RowInv /\ SumInv
  BY DEF ViewsInv, HitInv
<1>1. PlainInv'
  BY <1>0, NextPlain
<1>2. InboxInv'
  BY <1>0, NextInbox
<1>3. OnceInv'
  BY <1>0, NextOnce
<1>4. RowInv'
  BY <1>0, NextRow
<1>5. SumInv'
  BY <1>0, NextSum
<1> QED BY <1>1, <1>2, <1>3, <1>4, <1>5 DEF HitInv

LEMMA HitsCounted == ASSUME ViewsInv, HitInv PROVE HitsTailed
<1>1. SUFFICES ASSUME NEW i \in Instances, NEW j \in Instances, up[i] = "up", NEW c \in Sole(j)
               PROVE  (IF index[i][c] = None THEN 0 ELSE index[i][c].h) + stray[i][c].t
                         = Cardinality(Counted(i, c)) + dirty[i][c]
  BY DEF HitsTailed
<1>2. Shown(i, c) = Cardinality(Recorded(i, c)) + dirty[i][c]
  BY <1>1 DEF HitInv, SumInv
<1>3. Counted(i, c) = Recorded(i, c)
  <2> DEFINE C(m) == UNION {{<<m, k, n>> : n \in Hits(log[m][k], c)} : k \in Applied(i, m)}
             R(m) == UNION {HitsOf(m, k, c) : k \in 1..Done(i, m)}
  <2>1. ASSUME NEW m \in DOMAIN log PROVE m \in Instances /\ C(m) = R(m)
    <3>1. m \in Instances /\ LogOf(m) = log[m]
      BY <2>1 DEF LogOf, ViewsInv, TypeInv, TypeOK
    <3>2. Applied(i, m) = 1..Done(i, m)
      <4>1. 1..0 = {}
        OBVIOUS
      <4> QED BY <1>1, <3>1, <4>1 DEF Applied, Done
    <3> QED BY <3>1, <3>2 DEF HitsOf
  <2>2. ASSUME NEW m \in Instances, m \notin DOMAIN log PROVE R(m) = {}
    <3>1. LogOf(m) = <<>> /\ Len(<<>>) = 0
      BY <2>2 DEF LogOf
    <3>2. Done(i, m) \in 0..Len(LogOf(m))
      BY DEF HitInv, InboxInv
    <3>3. 1..Done(i, m) = {}
      BY <3>1, <3>2
    <3> QED BY <3>3
  <2>3. Counted(i, c) = UNION {C(m) : m \in DOMAIN log} /\ Recorded(i, c) = UNION {R(m) : m \in Instances}
    BY DEF Counted, Recorded
  <2> HIDE DEF C, R
  <2> QED BY <2>1, <2>2, <2>3
<1> QED BY <1>2, <1>3 DEF Shown, Tally

(* As long as nobody updates, removes or compacts, and the map of stray    *)
(* hits has room for every code, a hit counted by any instance is counted  *)
(* once by every instance that has applied the log line of it, through     *)
(* crashes and restarts, also when the hit came before the row.            *)
THEOREM TailHits == ASSUME Additive PROVE Spec => []HitsTailed
<1>1. Init => ViewsInv /\ HitInv
  BY InitViews, InitHits
<1>2. (ViewsInv /\ HitInv) /\ [Next]_vars => (ViewsInv /\ HitInv)'
  BY NextViews, NextHits
<1>3. ViewsInv /\ HitInv => HitsTailed
  BY HitsCounted
<1> QED BY <1>1, <1>2, <1>3, PTL DEF Spec
=============================================================================
