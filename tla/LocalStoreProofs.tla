-------------------------- MODULE LocalStoreProofs --------------------------
(***************************************************************************)
(* Theorems about LocalStore, for every set of codes, urls and threads,    *)
(* every bound and every choice of operations and faults: type             *)
(* correctness, that the files and the queue determine the index, that a   *)
(* restart finds what is owed, that the engine implements DurableMap, and  *)
(* that hits are neither lost nor counted twice.                           *)
(***************************************************************************)
EXTENDS LocalStore, LogOpsProofs, FiniteSetTheorems

-----------------------------------------------------------------------------
(* A thread holds lines only between the two halves of a mutation, and a   *)
(* bulk request holds rows only.                                           *)
ThreadInv ==
    \A t \in Threads :
        /\ pc[t] \in {"idle", "bump"} => pend[t] = <<>>
        /\ pc[t] = "bulk" => pend[t] \in Seq(RowLines)

TypeInv == TypeOK /\ ThreadInv

(* The parser makes lines, also from two run together.                     *)
LEMMA GluedType ==
    ASSUME NEW x \in Lines, NEW l \in Lines
    PROVE  GluedLines(x, l) \subseteq Lines
<1>1. CASE x \in RowLines
  <2>1. GluedRows(x, l) \subseteq RowLines
    <3>1. SUFFICES ASSUME NEW c \in {x.c} \cup (IF l.k = "row" THEN {l.c} ELSE {}),
                          NEW u \in {BadUrl, x.u} \cup (IF l.k = "row" THEN {l.u} ELSE {}),
                          NEW e \in {0, x.e} \cup (IF l.k = "row" THEN {l.e} ELSE {}),
                          NEW i \in {0, x.i}
                   PROVE  RowLine(c, u, e, i, 0) \in RowLines
      BY DEF GluedRows
    <3>2. c \in Codes /\ u \in AllUrls /\ e \in Nat /\ i \in Nat
      BY <1>1 DEF Lines, RowLines, HitLines, DelLines, JunkLine, AllUrls
    <3> QED BY <3>2 DEF RowLine, RowLines
  <2> QED BY <1>1, <2>1 DEF GluedLines, Lines, RowLines, JunkLine
<1>2. CASE x \in HitLines
  <2>1. GluedHits(x, l) \subseteq HitLines
    BY <1>2 DEF GluedHits, HitLine, Lines, RowLines, HitLines, DelLines, JunkLine
  <2> QED BY <1>2, <2>1 DEF GluedLines, Lines, HitLines, JunkLine
<1>3. CASE x \in DelLines
  BY <1>3 DEF GluedLines, Lines, DelLines, DelLine, JunkLine
<1>4. CASE x = JunkLine
  BY <1>4 DEF GluedLines, Lines, JunkLine
<1> QED BY <1>1, <1>2, <1>3, <1>4 DEF Lines

(* What a write of the queue leaves in the file is made of lines.          *)
LEMMA FullWritesType ==
    ASSUME NEW q \in Seq(Lines), torn \in Lines \cup {None}, NEW w \in FullWrites(q)
    PROVE  /\ w.add \in Seq(Lines) /\ Len(w.add) = Len(q)
           /\ w.torn \in Lines \cup {None}
           /\ w.lost \subseteq Codes
<1>1. PICK g \in Glued(q) :
          w = [add |-> g, torn |-> IF q = <<>> THEN torn ELSE None,
               lost |-> IF g = q THEN {} ELSE SetBy({Head(g), Head(q)})]
  BY DEF FullWrites
<1>2. g \in Seq(Lines) /\ Len(g) = Len(q)
  <2>1. CASE torn = None \/ q = <<>>
    BY <2>1 DEF Glued
  <2>2. CASE ~(torn = None \/ q = <<>>)
    <3>1. PICK h \in GluedLines(torn, Head(q)) : g = <<h>> \o Tail(q)
      BY <2>2 DEF Glued
    <3>2. h \in Lines
      BY <2>2, GluedType
    <3> QED BY <2>2, <3>1, <3>2
  <2> QED BY <2>1, <2>2
<1> QED BY <1>1, <1>2 DEF SetBy

(* Nor does a write cut short by a full disk leave anything else.          *)
LEMMA WritesType ==
    ASSUME NEW q \in Seq(Lines), torn \in Lines \cup {None}, NEW w \in Writes(q)
    PROVE  /\ w.add \in Seq(Lines)
           /\ w.torn \in Lines \cup {None}
           /\ w.lost \subseteq Codes
<1>1. CASE w \in FullWrites(q)
  BY <1>1, FullWritesType
<1>2. CASE w \in ShortWrites(q)
  <2>0. PICK x \in FullWrites(q), n \in 0..(Len(q) - 1) :
          w \in CutAt(q, x, n)
    BY <1>2 DEF ShortWrites
  <2>1. PICK y \in (IF n = 0 THEN {torn} ELSE {None}) \cup
                   (IF n > 0 \/ torn = None THEN {q[n + 1]} ELSE {}) :
          w = [add |-> SubSeq(x.add, 1, n), torn |-> y,
               lost |-> x.lost \cup SetBy({q[j] : j \in (n + 1)..Len(q)})]
    BY <2>0 DEF CutAt
  <2>2. x.add \in Seq(Lines) /\ Len(x.add) = Len(q) /\ x.lost \subseteq Codes
    BY FullWritesType
  <2>3. SubSeq(x.add, 1, n) \in Seq(Lines)
    BY <2>2
  <2>4. y \in Lines \cup {None}
    OBVIOUS
  <2> QED BY <2>1, <2>2, <2>3, <2>4 DEF SetBy
<1> QED BY <1>1, <1>2 DEF Writes

(* The hit deltas taken out of dirty form a log of hit lines.              *)
LEMMA OrdersType ==
    ASSUME dirty \in [Codes -> Nat], NEW s \in Orders(Deltas)
    PROVE  s \in Seq(HitLines)
<1> DEFINE D == {c \in Codes : dirty[c] > 0}
           f == [c \in D |-> HitLine(c, dirty[c], Me)]
<1>1. IsFiniteSet(D)
  BY LogAssumption, FS_Subset
<1>2. f \in Surjection(D, Deltas)
  BY DEF Surjection, Deltas
<1>3. IsFiniteSet(Deltas) /\ Cardinality(Deltas) \in Nat
  BY <1>1, <1>2, FS_Surjection, FS_CardinalityType
<1>4. Deltas \subseteq HitLines
  BY StoreAssumption DEF Deltas, HitLine, HitLines
<1> QED BY <1>3, <1>4 DEF Orders

LEMMA ValueType ==
    ASSUME NEW x \in Entries \cup RowLines \cup {None}
    PROVE  Value(x) \in Values
BY DEF Value, Values, Entries, RowLines

LEMMA SettleType ==
    ASSUME TypeOK, NEW kinds, NEW p, Settle(kinds, p)
    PROVE  since' \in [{"flush", "sync"} -> [Codes -> SUBSET Values]]
<1>1. \A c \in Codes : Value(index[c]) \in Values
  BY ValueType DEF TypeOK
<1> QED BY <1>1 DEF Settle, TypeOK

LEMMA FlushQueueType ==
    ASSUME TypeOK, NEW q \in Seq(Lines), FlushQueue(q)
    PROVE  /\ file' \in Seq(Lines) /\ buf' \in Seq(Lines)
           /\ torn' \in Lines \cup {None}
           /\ excused' \subseteq Codes
           /\ Len(file') \in Nat /\ Len(file) <= Len(file')
<1>1. PICK w \in Writes(q) : /\ file' = file \o w.add
                             /\ torn' = w.torn
                             /\ excused' = excused \cup w.lost
  BY DEF FlushQueue
<1>2. /\ w.add \in Seq(Lines)
      /\ w.torn \in Lines \cup {None}
      /\ w.lost \subseteq Codes
  BY WritesType DEF TypeOK
<1>3. file' \in Seq(Lines) /\ Len(file') = Len(file) + Len(w.add)
  BY <1>1, <1>2 DEF TypeOK
<1>4. buf' = <<>>
  BY DEF FlushQueue
<1> QED BY <1>1, <1>2, <1>3, <1>4 DEF TypeOK

(* Write leaves the parts of the state it touches well-formed.             *)
LEMMA WriteType ==
    ASSUME TypeOK, NEW t \in Threads, NEW c \in Codes, NEW x \in Entries \cup {None},
           NEW l \in RowLines \cup DelLines, Write(t, c, x, l)
    PROVE  /\ index' \in [Codes -> Entries \cup {None}]
           /\ pend' \in [Threads -> Seq(RowLines \cup DelLines)]
           /\ since' \in [{"flush", "sync"} -> [Codes -> SUBSET Values]]
           /\ excused' \subseteq Codes
<1>1. Value(x) \in Values
  BY ValueType
<1>2. since' \in [{"flush", "sync"} -> [Codes -> SUBSET Values]]
  BY <1>1 DEF Write, TypeOK
<1>3. Append(pend[t], l) \in Seq(RowLines \cup DelLines)
  BY DEF TypeOK
<1> QED BY <1>2, <1>3 DEF Write, TypeOK

LEMMA ExpiryType == ASSUME now \in Nat, NEW ttl \in TTLs PROVE Expiry(ttl) \in Nat
BY StoreAssumption DEF Expiry

LEMMA InitType == Init => TypeInv
<1> SUFFICES ASSUME Init PROVE TypeInv
  OBVIOUS
<1>1. NoStray \in Strays /\ None \in Values
  BY DEF NoStray, Strays, Values
<1>2. index \in [Codes -> Entries \cup {None}] /\ snap \in [Codes -> RowLines \cup {None}]
      /\ tmp \in [Codes -> RowLines \cup {None}]
  BY DEF Init, Nothing
<1> QED BY <1>1, <1>2 DEF Init, TypeInv, TypeOK, ThreadInv, Kinds, Flushers

LEMMA SpendType ==
    ASSUME spent \in [Kinds -> Nat], NEW k \in Kinds, Spend(k)
    PROVE  spent' \in [Kinds -> Nat]
BY DEF Spend

(* The variables a Write leaves alone, and the budget.                     *)
LEMMA WriteStep ==
    ASSUME TypeInv, NEW t \in Threads, NEW c \in Codes, NEW x \in Entries \cup {None},
           NEW l \in RowLines \cup DelLines, Write(t, c, x, l), Spend("op"),
           NEW p \in {"push", "append", "bulk"}, pc' = [pc EXCEPT ![t] = p],
           p = "bulk" => pend[t] \in Seq(RowLines) /\ l \in RowLines
    PROVE  TypeInv'
<1>1. /\ index' \in [Codes -> Entries \cup {None}]
      /\ pend' \in [Threads -> Seq(RowLines \cup DelLines)]
      /\ since' \in [{"flush", "sync"} -> [Codes -> SUBSET Values]]
      /\ excused' \subseteq Codes
  BY WriteType DEF TypeInv
<1>2. spent' \in [Kinds -> Nat]
  BY SpendType DEF Kinds, TypeInv, TypeOK
<1>3. pc' \in [Threads -> {"idle", "push", "append", "bulk", "bump"}]
  BY DEF TypeInv, TypeOK
<1>4. TypeOK'
  BY <1>1, <1>2, <1>3 DEF Write, TypeInv, TypeOK, disk
<1>5. p = "bulk" => pend'[t] \in Seq(RowLines)
  BY DEF Write, TypeInv, TypeOK
<1>6. ThreadInv'
  BY <1>5 DEF Write, TypeInv, TypeOK, ThreadInv
<1> QED BY <1>4, <1>6 DEF TypeInv

LEMMA SubLines == RowLines \cup DelLines \subseteq Lines /\ HitLines \subseteq Lines
BY DEF Lines

LEMMA NextType == TypeInv /\ [Next]_vars => TypeInv'
<1> SUFFICES ASSUME TypeInv, [Next]_vars PROVE TypeInv'
  OBVIOUS
<1> USE DEF TypeInv
<1>types. NoStray \in Strays /\ None \in Values /\ Me \in Nat
  BY StoreAssumption DEF NoStray, Strays, Values
<1>1. ASSUME NEW t \in Threads, Shorten(t) PROVE TypeInv'
  <2>1. PICK c \in Codes, u \in Urls, ttl \in TTLs :
          Write(t, c, NewEntry(u, Expiry(ttl)), RowLine(c, u, Expiry(ttl), Me, 0))
    BY <1>1 DEF Shorten
  <2>2. Expiry(ttl) \in Nat /\ u \in AllUrls
    BY ExpiryType DEF TypeOK, AllUrls
  <2>3. NewEntry(u, Expiry(ttl)) \in Entries /\ RowLine(c, u, Expiry(ttl), Me, 0) \in RowLines
    BY <1>types, <2>2, LineTypes DEF NewEntry, Entries
  <2> QED BY <1>1, <2>1, <2>3, WriteStep DEF Shorten
<1>2. ASSUME NEW t \in Threads, Bulk(t) PROVE TypeInv'
  <2>1. PICK c \in Codes, u \in Urls, ttl \in TTLs :
          LET e == IF pend[t] = <<>> THEN Expiry(ttl) ELSE pend[t][1].e
          IN  Write(t, c, NewEntry(u, e), RowLine(c, u, e, Me, 0))
    BY <1>2 DEF Bulk
  <2> DEFINE e == IF pend[t] = <<>> THEN Expiry(ttl) ELSE pend[t][1].e
  <2>2. pend[t] \in Seq(RowLines)
    <3>1. pend[t] = <<>> \/ pend[t] \in Seq(RowLines)
      BY <1>2 DEF Bulk, ThreadInv
    <3>2. <<>> \in Seq(RowLines)
      OBVIOUS
    <3> QED BY <3>1, <3>2
  <2>3. e \in Nat /\ u \in AllUrls
    <3>1. pend[t] # <<>> => pend[t][1] \in RowLines
      BY <2>2
    <3> QED BY <3>1, ExpiryType DEF TypeOK, AllUrls, RowLines
  <2>4. NewEntry(u, e) \in Entries /\ RowLine(c, u, e, Me, 0) \in RowLines
    BY <1>types, <2>3, LineTypes DEF NewEntry, Entries
  <2> QED BY <1>2, <2>1, <2>2, <2>4, WriteStep DEF Bulk
<1>3. ASSUME NEW t \in Threads, Update(t) PROVE TypeInv'
  <2>1. PICK c \in Codes, u \in Urls :
          /\ index[c] # None
          /\ \E e \in {index[c].e} \cup {Expiry(ttl) : ttl \in TTLs} :
                Write(t, c, [index[c] EXCEPT !.u = u, !.e = e], RowLine(c, u, e, Me, 0))
    BY <1>3 DEF Update
  <2>2. PICK e \in {index[c].e} \cup {Expiry(ttl) : ttl \in TTLs} :
          Write(t, c, [index[c] EXCEPT !.u = u, !.e = e], RowLine(c, u, e, Me, 0))
    BY <2>1
  <2>3. index[c] \in Entries /\ e \in Nat /\ u \in AllUrls
    BY <2>1, ExpiryType DEF TypeOK, AllUrls, Entries
  <2>4. /\ [index[c] EXCEPT !.u = u, !.e = e] \in Entries
        /\ RowLine(c, u, e, Me, 0) \in RowLines
    BY <1>types, <2>3, LineTypes DEF Entries
  <2> QED BY <1>3, <2>2, <2>4, WriteStep DEF Update
<1>4. ASSUME NEW t \in Threads, Remove(t) PROVE TypeInv'
  <2>1. PICK c \in Codes : Write(t, c, None, DelLine(c))
    BY <1>4 DEF Remove
  <2> QED BY <1>4, <2>1, LineTypes, WriteStep DEF Remove
<1>5. ASSUME NEW t \in Threads, Push(t) PROVE TypeInv'
  <2>1. buf \o pend[t] \in Seq(Lines)
    BY SubLines DEF TypeOK
  <2>2. ThreadInv'
    BY <1>5 DEF Push, TypeOK, ThreadInv
  <2>3. /\ pend' \in [Threads -> Seq(RowLines \cup DelLines)]
        /\ pc' \in [Threads -> {"idle", "push", "append", "bulk", "bump"}]
    BY <1>5 DEF Push, TypeOK
  <2>4. CASE Flush(buf \o pend[t], [pend EXCEPT ![t] = <<>>])
    <3>1. /\ file' \in Seq(Lines) /\ buf' \in Seq(Lines)
          /\ torn' \in Lines \cup {None} /\ excused' \subseteq Codes
          /\ Len(file') \in Nat /\ Len(file) <= Len(file')
      BY <2>1, <2>4, FlushQueueType DEF Flush
    <3>2. since' \in [{"flush", "sync"} -> [Codes -> SUBSET Values]]
      BY <2>4, SettleType DEF Flush
    <3>3. synced' \in 0..Len(file')
      BY <1>5, <2>4, <3>1 DEF Flush, Push, TypeOK
    <3> QED BY <1>5, <2>2, <2>3, <3>1, <3>2, <3>3 DEF Push, TypeOK, memory
  <2>5. CASE buf' = buf \o pend[t] /\ UNCHANGED <<disk, excused, since>>
    BY <1>5, <2>1, <2>2, <2>3, <2>5 DEF Push, TypeOK, memory, disk
  <2> QED BY <1>5, <2>4, <2>5 DEF Push
<1>6. ASSUME NEW t \in Threads, Queue(t) PROVE TypeInv'
  <2>1. buf \o pend[t] \in Seq(Lines)
    BY SubLines DEF TypeOK
  <2>2. ThreadInv'
    BY <1>6 DEF Queue, TypeOK, ThreadInv
  <2> QED BY <1>6, <2>1, <2>2 DEF Queue, TypeOK, memory, disk, history
<1>7. ASSUME NEW t \in Threads, Resolve(t) PROVE TypeInv'
  <2>1. spent' \in [Kinds -> Nat]
    BY <1>7, SpendType DEF Resolve, TypeOK, Kinds
  <2>0. PICK c \in Codes :
          /\ Live(index[c])
          /\ index' = [index EXCEPT ![c].h = @ + 1, ![c].oh = @ + 1]
          /\ hot' = [hot EXCEPT ![t] = c]
    BY <1>7 DEF Resolve
  <2>a. index[c] \in Entries
    BY <2>0 DEF Live, TypeOK
  <2>b. index[c].h + 1 \in Nat /\ index[c].oh + 1 \in Nat
    BY <2>a DEF Entries
  <2>2. index' \in [Codes -> Entries \cup {None}]
    BY <2>0, <2>a, <2>b DEF TypeOK, Entries
  <2>4. hot' \in [Threads -> Codes \cup {None}]
    BY <2>0 DEF TypeOK
  <2>3. ThreadInv'
    BY <1>7 DEF Resolve, TypeOK, ThreadInv
  <2> QED BY <1>7, <2>1, <2>2, <2>3, <2>4 DEF Resolve, TypeOK, disk, history
<1>8. ASSUME NEW t \in Threads, Bump(t) PROVE TypeInv'
  <2>1. ThreadInv'
    BY <1>8 DEF Bump, TypeOK, ThreadInv
  <2>2. dirty' \in [Codes -> Nat]
    <3>1. \A c \in Codes : dirty[c] + 1 \in Nat
      BY DEF TypeOK
    <3> QED BY <1>8, <3>1 DEF Bump, TypeOK
  <2>3. hot' \in [Threads -> Codes \cup {None}]
    BY <1>8 DEF Bump, TypeOK
  <2> QED BY <1>8, <2>1, <2>2, <2>3 DEF Bump, TypeOK, disk, history
<1>9. ASSUME NEW f \in Flushers, Drain(f) PROVE TypeInv'
  <2>1. drained' \in [Flushers -> Seq(HitLines)]
    BY <1>9, OrdersType DEF Drain, TypeOK
  <2>2. ThreadInv'
    BY <1>9 DEF Drain, ThreadInv
  <2> QED BY <1>9, <2>1, <2>2 DEF Drain, TypeOK, disk, history
<1>10. ASSUME NEW f \in Flushers, FlushWrite(f) PROVE TypeInv'
  <2>1. buf \o drained[f] \in Seq(Lines)
    BY SubLines DEF TypeOK
  <2>2. /\ file' \in Seq(Lines) /\ buf' \in Seq(Lines)
        /\ torn' \in Lines \cup {None} /\ excused' \subseteq Codes
        /\ Len(file') \in Nat /\ Len(file) <= Len(file')
    BY <1>10, <2>1, FlushQueueType DEF FlushWrite, Flush
  <2>3. since' \in [{"flush", "sync"} -> [Codes -> SUBSET Values]]
    BY <1>10, SettleType DEF FlushWrite, Flush
  <2>4. synced' \in 0..Len(file')
    BY <1>10, <2>2 DEF FlushWrite, Flush, TypeOK
  <2>5. ThreadInv'
    BY <1>10 DEF FlushWrite, ThreadInv
  <2> QED BY <1>10, <2>2, <2>3, <2>4, <2>5 DEF FlushWrite, TypeOK, memory
<1>11. ASSUME Fsync \/ CloseSync PROVE TypeInv'
  <2>0. Sync(buf, pend)
    BY <1>11 DEF Fsync, CloseSync
  <2>1. buf \in Seq(Lines)
    BY DEF TypeOK
  <2>2. /\ file' \in Seq(Lines) /\ buf' \in Seq(Lines)
        /\ torn' \in Lines \cup {None} /\ excused' \subseteq Codes
        /\ Len(file') \in Nat /\ Len(file) <= Len(file')
    BY <2>0, <2>1, FlushQueueType DEF Sync
  <2>3. since' \in [{"flush", "sync"} -> [Codes -> SUBSET Values]]
    BY <2>0, SettleType DEF Sync
  <2>4. synced' \in 0..Len(file')
    BY <1>11, <2>0, <2>2 DEF Sync, Fsync, CloseSync, TypeOK
  <2>5. ThreadInv'
    BY <1>11 DEF Fsync, CloseSync, ThreadInv, workers
  <2> QED BY <1>11, <2>2, <2>3, <2>4, <2>5 DEF Fsync, CloseSync, TypeOK, memory, workers
<1>12. ASSUME CompactStart PROVE TypeInv'
  <2>1. spent' \in [Kinds -> Nat]
    BY <1>12, SpendType DEF CompactStart, TypeOK, Kinds
  <2> QED BY <1>12, <2>1 DEF CompactStart, TypeOK, ThreadInv, memory, disk, history
<1>13. \A c \in Codes : OwnRow(c) \in RowLines \cup {None}
  BY LineTypes DEF OwnRow, TypeOK, Entries
<1>14. ASSUME CompactSnap PROVE TypeInv'
  BY <1>13, <1>14 DEF CompactSnap, TypeOK, ThreadInv, memory, disk, history
<1>15. ASSUME CompactSnapFail PROVE TypeInv'
  <2>1. tmp' \in [Codes -> RowLines \cup {None}] /\ excused' \subseteq Codes
        /\ cpc' \in {"rename", "trunc"}
    BY <1>13, <1>15 DEF CompactSnapFail, TypeOK, SetBy
  <2> QED BY <1>15, <2>1 DEF CompactSnapFail, TypeOK, ThreadInv, memory, disk
<1>16. ASSUME CompactRename PROVE TypeInv'
  <2>1. snap' \in [Codes -> RowLines \cup {None}] /\ excused' \subseteq Codes
    BY <1>16 DEF CompactRename, TypeOK, SetBy
  <2> QED BY <1>16, <2>1 DEF CompactRename, TypeOK, ThreadInv, memory, disk
<1>17. ASSUME CompactTrunc PROVE TypeInv'
  <2>1. tmp' \in [Codes -> RowLines \cup {None}]
    BY <1>17 DEF CompactTrunc, Nothing
  <2>2. ThreadInv'
    BY <1>17 DEF CompactTrunc, ThreadInv
  <2>3. CASE Flush(buf, pend)
    <3>1. buf \in Seq(Lines)
      BY DEF TypeOK
    <3>2. /\ file' \in Seq(Lines) /\ buf' \in Seq(Lines)
          /\ torn' \in Lines \cup {None} /\ excused' \subseteq Codes
          /\ Len(file') \in Nat /\ Len(file) <= Len(file')
      BY <2>3, <3>1, FlushQueueType DEF Flush
    <3>3. since' \in [{"flush", "sync"} -> [Codes -> SUBSET Values]]
      BY <2>3, SettleType DEF Flush
    <3>4. synced' \in 0..Len(file')
      BY <1>17, <2>3, <3>2 DEF Flush, CompactTrunc, TypeOK
    <3> QED BY <1>17, <2>1, <2>2, <3>2, <3>3, <3>4 DEF CompactTrunc, TypeOK, memory
  <2>4. CASE file' = <<>> /\ torn' = None /\ synced' = 0 /\ buf' = <<>>
             /\ UNCHANGED <<excused, since>>
    BY <1>17, <2>1, <2>2, <2>4 DEF CompactTrunc, TypeOK, memory
  <2> QED BY <1>17, <2>3, <2>4 DEF CompactTrunc
<1>18. ASSUME Tick PROVE TypeInv'
  BY <1>18 DEF Tick, TypeOK, ThreadInv, memory, workers, disk, history
<1>19. ASSUME Signal \/ DropHandle PROVE TypeInv'
  BY <1>19 DEF Signal, DropHandle, StartClose, TypeOK, ThreadInv, memory, disk, history
<1>20. ASSUME Stopped, spent' \in [Kinds -> Nat], owed' \in [Codes -> SUBSET Values],
              file' \in Seq(Lines), torn' \in Lines \cup {None}, synced' \in 0..Len(file')
       PROVE  TypeInv'
  <2>1. /\ index' \in [Codes -> Entries \cup {None}]
        /\ tmp' \in [Codes -> RowLines \cup {None}]
    BY <1>20 DEF Stopped, Nothing
  <2>2. ThreadInv'
    BY <1>20 DEF Stopped, ThreadInv
  <2> QED BY <1>types, <1>20, <2>1, <2>2 DEF Stopped, TypeOK
<1>21. ASSUME Exit PROVE TypeInv'
  BY <1>20, <1>21 DEF Exit, TypeOK, disk
<1>22. ASSUME Kill PROVE TypeInv'
  <2>1. spent' \in [Kinds -> Nat]
    BY <1>22, SpendType DEF Kill, TypeOK, Kinds
  <2> QED BY <1>20, <1>22, <2>1 DEF Kill, TypeOK, disk
<1>23. ASSUME PowerLoss PROVE TypeInv'
  <2>1. spent' \in [Kinds -> Nat]
    BY <1>23, SpendType DEF PowerLoss, TypeOK, Kinds
  <2>2. PICK n \in synced..Len(file) :
          /\ file' = SubSeq(file, 1, n)
          /\ \/ torn' = IF n < Len(file) THEN None ELSE torn
             \/ n < Len(file) /\ torn' = file[n + 1]
          /\ synced' = n
    BY <1>23 DEF PowerLoss
  <2>3. n \in 0..Len(file) /\ file \in Seq(Lines)
    BY DEF TypeOK
  <2>4. file' \in Seq(Lines) /\ Len(file') = n /\ synced' \in 0..Len(file')
    BY <2>2, <2>3
  <2>5. torn' \in Lines \cup {None}
    BY <2>2, <2>3 DEF TypeOK
  <2> QED BY <1>20, <1>23, <2>1, <2>4, <2>5 DEF PowerLoss, TypeOK
<1>24. ASSUME Boot PROVE TypeInv'
  <2>1. ASSUME NEW c \in Codes, snap[c] # None
        PROVE  RowEntry(snap[c], NoStray) \in Entries
    BY <2>1 DEF RowEntry, NoStray, Entries, TypeOK, RowLines
  <2>2. index' \in [Codes -> Entries \cup {None}]
    BY <1>24, <2>1 DEF Boot
  <2> QED BY <1>24, <2>2 DEF Boot, TypeOK, ThreadInv, workers, disk, history
<1>25. ASSUME LoadLine PROVE TypeInv'
  <2>1. file[replayed + 1] \in Lines
    BY <1>25 DEF LoadLine, TypeOK
  <2>2. index' \in [Codes -> Entries \cup {None}] /\ stray' \in [Codes -> Strays]
    <3>1. PICK st \in Apply([index |-> index, stray |-> stray], file[replayed + 1], Me) :
            index' = st.index /\ stray' = st.stray
      BY <1>25 DEF LoadLine
    <3>2. index \in [Codes -> Entries \cup {None}] /\ stray \in [Codes -> Strays]
      BY DEF TypeOK
    <3> QED BY <2>1, <3>1, <3>2, ApplyType
  <2> QED BY <1>25, <2>2 DEF LoadLine, TypeOK, ThreadInv, workers, disk, history
<1>26. ASSUME Loaded PROVE TypeInv'
  <2>1. \A c \in Codes : Value(index[c]) \in Values
    BY ValueType DEF TypeOK
  <2>2. since' \in [{"flush", "sync"} -> [Codes -> SUBSET Values]]
    BY <1>26, <2>1 DEF Loaded, TypeOK
  <2> QED BY <1>26, <2>2 DEF Loaded, TypeOK, ThreadInv, memory, workers, disk
<1>27. ASSUME UNCHANGED vars PROVE TypeInv'
  BY <1>27 DEF vars, TypeOK, ThreadInv
<1> QED
  BY <1>1, <1>2, <1>3, <1>4, <1>5, <1>6, <1>7, <1>8, <1>9, <1>10, <1>11, <1>12, <1>14,
     <1>15, <1>16, <1>17, <1>18, <1>19, <1>21, <1>22, <1>23, <1>24, <1>25, <1>26, <1>27
  DEF Next, ThreadStep, CompactStep

(* Every reachable state is well-formed, whatever the constants.           *)
THEOREM TypeCorrect == Spec => []TypeOK
<1>1. TypeInv => TypeOK
  BY DEF TypeInv
<1> QED BY InitType, NextType, <1>1, PTL DEF Spec

-----------------------------------------------------------------------------
(* The strengthening that makes LogMatchesIndex inductive.                 *)

(* Compaction excludes mutations until it has truncated the log, nothing   *)
(* is queued behind its flush, and only its flush takes it to the snapshot.*)
GateInv ==
    /\ cpc # "idle" => \A t \in Threads : pc[t] \notin {"push", "append", "bulk"}
    /\ cpc \in {"snap", "rename", "trunc"} => buf = <<>>
    /\ fpc["compact"] = "write" => cpc = "flush"

(* A process that is down or loading holds nothing.                        *)
DownInv ==
    /\ mode # "up" => /\ buf = <<>> /\ cpc = "idle" /\ closer = "open"
                      /\ \A t \in Threads : pc[t] = "idle"
                      /\ \A f \in Flushers : fpc[f] = "idle"
    /\ mode = "down" => replayed = 0
    /\ mode = "load" => replayed <= Len(file)

(* No two threads hold lines for a code, unless it is excused.             *)
AloneInv ==
    \A c \in Codes \ excused : \A s, t \in Threads :
        Touches(pend[s], c) /\ Touches(pend[t], c) => s = t

(* The snapshot that is to stand for the log holds what the index holds.   *)
SnapInv ==
    \A c \in Codes \ excused :
        Own(c) => /\ cpc = "rename" => Value(tmp[c]) = Value(index[c])
                  /\ cpc = "trunc" => Value(snap[c]) = Value(index[c])

(* While loading, the index is what the lines replayed so far determine.   *)
LoadInv ==
    mode = "load" =>
        \A c \in Codes : Determines(snap, SubSeq(file, 1, replayed), c, Value(index[c]))

StoreInv == TypeInv /\ GateInv /\ DownInv /\ AloneInv /\ SnapInv /\ LoadInv /\ LogMatchesIndex

LEMMA FullWritesCarry ==
    ASSUME NEW q \in Seq(Lines), torn \in Lines \cup {None}, NEW w \in FullWrites(q),
           NEW c \in Codes \ w.lost
    PROVE  Carries(w.add, q, c)
<1>1. PICK g \in Glued(q) :
          w = [add |-> g, torn |-> IF q = <<>> THEN torn ELSE None,
               lost |-> IF g = q THEN {} ELSE SetBy({Head(g), Head(q)})]
  BY DEF FullWrites
<1>2. g \in Seq(Lines) /\ Len(g) = Len(q)
  BY <1>1, FullWritesType
<1>3. CASE g = q
  BY <1>1, <1>2, <1>3 DEF Carries
<1>4. CASE g # q
  <2>1. q # <<>> /\ torn # None
    BY <1>4 DEF Glued
  <2>2. PICK h \in GluedLines(torn, Head(q)) : g = <<h>> \o Tail(q)
    BY <2>1 DEF Glued
  <2>3. h \in Lines
    BY <2>1, GluedType
  <2>4. Head(g) = g[1] /\ Head(q) = q[1]
    BY <1>2, <2>1
  <2>5. ~Sets(g[1], c) /\ ~Sets(q[1], c)
    BY <1>1, <1>4, <2>4 DEF SetBy
  <2>6. \A k \in 2..Len(q) : g[k] = q[k]
    BY <2>1, <2>2, <2>3
  <2> QED BY <1>1, <1>2, <2>5, <2>6 DEF Carries
<1> QED BY <1>3, <1>4

(* A write, glued or cut short, keeps the lines of the codes it does not   *)
(* report as lost.                                                         *)
LEMMA WritesCarry ==
    ASSUME NEW q \in Seq(Lines), torn \in Lines \cup {None}, NEW w \in Writes(q),
           NEW c \in Codes \ w.lost
    PROVE  Carries(w.add, q, c)
<1>1. CASE w \in FullWrites(q)
  BY <1>1, FullWritesCarry
<1>2. CASE w \in ShortWrites(q)
  <2>1. PICK x \in FullWrites(q), n \in 0..(Len(q) - 1) :
          w \in CutAt(q, x, n)
    BY <1>2 DEF ShortWrites
  <2>2. /\ w.add = SubSeq(x.add, 1, n)
        /\ c \notin x.lost
        /\ c \notin SetBy({q[j] : j \in (n + 1)..Len(q)})
    <3>1. PICK y \in (IF n = 0 THEN {torn} ELSE {None}) \cup
                    (IF n > 0 \/ torn = None THEN {q[n + 1]} ELSE {}) :
            w = [add |-> SubSeq(x.add, 1, n), torn |-> y,
                 lost |-> x.lost \cup SetBy({q[j] : j \in (n + 1)..Len(q)})]
      BY <2>1 DEF CutAt
    <3>2. /\ w.add = SubSeq(x.add, 1, n)
          /\ w.lost = x.lost \cup SetBy({q[j] : j \in (n + 1)..Len(q)})
      BY <3>1
    <3> QED BY <3>2
  <2>3. Carries(x.add, q, c) /\ x.add \in Seq(Lines) /\ Len(x.add) = Len(q)
    BY <2>2, FullWritesCarry, FullWritesType
  <2>4. \A j \in (n + 1)..Len(q) : ~Sets(q[j], c)
    BY <2>2 DEF SetBy
  <2>5. Len(w.add) = n /\ \A k \in 1..n : w.add[k] = x.add[k]
    BY <2>2, <2>3
  <2> QED BY <2>3, <2>4, <2>5 DEF Carries
<1> QED BY <1>1, <1>2 DEF Writes

LEMMA FlushKeeps ==
    ASSUME TypeOK, NEW q \in Seq(Lines), FlushQueue(q), NEW c \in Codes \ excused', NEW v,
           Determines(snap, file \o q, c, v)
    PROVE  Determines(snap, file' \o buf', c, v)
<1>1. PICK w \in Writes(q) : file' = file \o w.add /\ excused' = excused \cup w.lost
  BY DEF FlushQueue
<1>2. w.add \in Seq(Lines) /\ Carries(w.add, q, c)
  BY <1>1, WritesType, WritesCarry DEF TypeOK
<1>3. Determines(snap, file', c, v)
  BY <1>1, <1>2, CarriesDetermines DEF TypeOK
<1>4. file' \o buf' = file'
  <2>1. file' \in Seq(Lines)
    BY FlushQueueType
  <2>2. buf' = <<>>
    BY DEF FlushQueue
  <2> QED BY <2>1, <2>2
<1> QED BY <1>3, <1>4

(* Who holds the gate, and that a process that is not up holds nothing.    *)
LEMMA NextGate ==
    ASSUME TypeInv, GateInv, DownInv, [Next]_vars
    PROVE  GateInv' /\ DownInv'
<1> USE DEF GateInv, DownInv
<1>t. /\ pc \in [Threads -> {"idle", "push", "append", "bulk", "bump"}]
      /\ fpc \in [Flushers -> {"idle", "write"}]
      /\ "compact" \in Flushers /\ "timer" \in Flushers
  BY DEF TypeInv, TypeOK, Flushers
<1>1. ASSUME NEW t \in Threads, NEW p \in {"push", "append", "bulk"}, mode = "up",
             cpc = "idle", pc' = [pc EXCEPT ![t] = p],
             UNCHANGED <<mode, cpc, buf, fpc, closer, replayed, file>>
      PROVE  GateInv' /\ DownInv'
  BY <1>1
<1>2. ASSUME NEW t \in Threads, Shorten(t) \/ Update(t) \/ Remove(t) PROVE GateInv' /\ DownInv'
  BY <1>1, <1>2 DEF Shorten, Update, Remove, Write, GateFree, disk
<1>3. ASSUME NEW t \in Threads, Bulk(t) PROVE GateInv' /\ DownInv'
  <2>1. cpc = "idle"
    BY <1>3 DEF Bulk, GateFree
  <2> QED BY <1>1, <1>3, <2>1 DEF Bulk, Write, disk
<1>4. ASSUME NEW t \in Threads, Push(t) \/ Queue(t) PROVE GateInv' /\ DownInv'
  <2>1. mode = "up" /\ cpc = "idle"
    BY <1>4, <1>t DEF Push, Queue
  <2> QED BY <1>t, <1>4, <2>1 DEF Push, Queue
<1>5. ASSUME NEW t \in Threads, Resolve(t) \/ Bump(t) PROVE GateInv' /\ DownInv'
  <2>1. mode = "up"
    BY <1>5, <1>t DEF Resolve, Bump
  <2> QED BY <1>t, <1>5, <2>1 DEF Resolve, Bump
<1>6. ASSUME NEW f \in Flushers, Drain(f) PROVE GateInv' /\ DownInv'
  BY <1>t, <1>6 DEF Drain, MayDrain
<1>7. ASSUME NEW f \in Flushers, FlushWrite(f) PROVE GateInv' /\ DownInv'
  <2>1. mode = "up"
    BY <1>7, <1>t DEF FlushWrite
  <2>2. buf' = <<>>
    BY <1>7 DEF FlushWrite, Flush, FlushQueue
  <2>3. f = "compact" => cpc = "flush"
    BY <1>7 DEF FlushWrite
  <2> QED BY <1>t, <1>7, <2>1, <2>2, <2>3 DEF FlushWrite
<1>8. ASSUME Fsync \/ CloseSync PROVE GateInv' /\ DownInv'
  <2>1. mode = "up" /\ buf' = <<>>
    BY <1>8 DEF Fsync, CloseSync, Sync, FlushQueue
  <2> QED BY <1>8, <2>1 DEF Fsync, CloseSync, workers
<1>9. ASSUME CompactStart PROVE GateInv' /\ DownInv'
  BY <1>t, <1>9 DEF CompactStart, GateAlone
<1>10. ASSUME CompactSnap \/ CompactSnapFail \/ CompactRename PROVE GateInv' /\ DownInv'
  <2>1. mode = "up" /\ fpc["compact"] # "write"
    BY <1>10 DEF CompactSnap, CompactSnapFail, CompactRename
  <2> QED BY <1>10, <2>1 DEF CompactSnap, CompactSnapFail, CompactRename
<1>11. ASSUME CompactTrunc PROVE GateInv' /\ DownInv'
  <2>1. mode = "up" /\ fpc["compact"] # "write"
    BY <1>11 DEF CompactTrunc
  <2> QED BY <1>11, <2>1 DEF CompactTrunc
<1>12. ASSUME Tick PROVE GateInv' /\ DownInv'
  BY <1>12 DEF Tick, workers, disk
<1>13. ASSUME Signal \/ DropHandle PROVE GateInv' /\ DownInv'
  BY <1>13 DEF Signal, DropHandle
<1>14. ASSUME Exit \/ Kill \/ PowerLoss PROVE GateInv' /\ DownInv'
  <2>1. Stopped
    BY <1>14 DEF Exit, Kill, PowerLoss
  <2> QED BY <1>t, <2>1 DEF Stopped
<1>15. ASSUME Boot PROVE GateInv' /\ DownInv'
  <2>1. Len(file) \in Nat
    BY DEF TypeInv, TypeOK
  <2> QED BY <1>15, <2>1 DEF Boot, workers, disk
<1>16. ASSUME LoadLine PROVE GateInv' /\ DownInv'
  <2>1. Len(file) \in Nat /\ replayed \in Nat
    BY DEF TypeInv, TypeOK
  <2> QED BY <1>16, <2>1 DEF LoadLine, workers, disk
<1>17. ASSUME Loaded PROVE GateInv' /\ DownInv'
  BY <1>17 DEF Loaded, workers, disk
<1>18. ASSUME UNCHANGED vars PROVE GateInv' /\ DownInv'
  BY <1>18 DEF vars
<1> QED
  BY <1>2, <1>3, <1>4, <1>5, <1>6, <1>7, <1>8, <1>9, <1>10, <1>11, <1>12, <1>13, <1>14,
     <1>15, <1>16, <1>17, <1>18
  DEF Next, ThreadStep, CompactStep

(* A thread between requests holds nothing, and while compaction holds the *)
(* gate no thread does.                                                    *)
LEMMA NobodyInFlight ==
    ASSUME TypeInv, GateInv, DownInv, cpc # "idle" \/ mode # "up", NEW c \in Codes
    PROVE  ~InFlight(pend, c) /\ \A t \in Threads : ~Touches(pend[t], c)
<1>1. ASSUME NEW t \in Threads PROVE pend[t] = <<>>
  <2>1. pc[t] \in {"idle", "push", "append", "bulk", "bump"}
    BY DEF TypeInv, TypeOK
  <2>2. pc[t] \in {"idle", "bump"}
    BY <2>1 DEF GateInv, DownInv
  <2> QED BY <2>2 DEF TypeInv, ThreadInv
<1>2. ~Touches(<<>>, c)
  BY DEF Touches
<1> QED BY <1>1, <1>2 DEF InFlight

(* A step that leaves values, owners, lines and files alone disturbs none  *)
(* of the parts that speak of them; it may excuse more codes.              *)
LEMMA QuietStep ==
    ASSUME AloneInv, LoadInv, LogMatchesIndex,
           UNCHANGED <<mode, pend, file, buf, snap, replayed>>, excused \subseteq excused',
           \A c \in Codes : /\ Value(index'[c]) = Value(index[c])
                            /\ (index'[c] = None \/ index'[c].i = Me) => Own(c)
    PROVE  AloneInv' /\ LoadInv' /\ LogMatchesIndex'
<1>1. AloneInv'
  BY DEF AloneInv
<1>2. LoadInv'
  BY DEF LoadInv
<1>3. LogMatchesIndex'
  <2>1. SUFFICES ASSUME mode' = "up", NEW c \in Codes \ excused', Own(c)' PROVE Matches(c)'
    BY DEF LogMatchesIndex
  <2>2. Own(c) /\ c \in Codes \ excused /\ mode = "up"
    BY <2>1 DEF Own
  <2>3. Matches(c)
    BY <2>2 DEF LogMatchesIndex
  <2>4. Value(index'[c]) = Value(index[c])
    BY <2>1
  <2> QED BY <2>3, <2>4 DEF Matches, InFlight
<1> QED BY <1>1, <1>2, <1>3

(* First half of a mutation.                                               *)
LEMMA WriteKeeps ==
    ASSUME TypeInv, AloneInv, LogMatchesIndex, mode = "up", cpc = "idle",
           NEW t \in Threads, NEW c \in Codes, NEW x \in Entries \cup {None},
           NEW l \in RowLines \cup DelLines, l.c = c, LineValue(l) = Value(x),
           Write(t, c, x, l)
    PROVE  AloneInv' /\ SnapInv' /\ LoadInv' /\ LogMatchesIndex'
<1>1. /\ pend \in [Threads -> Seq(Lines)]
      /\ l \in Lines
      /\ index \in [Codes -> Entries \cup {None}]
  <2>1. pend \in [Threads -> Seq(RowLines \cup DelLines)]
    BY DEF TypeInv, TypeOK
  <2>2. \A s \in Threads : pend[s] \in Seq(Lines)
    BY <2>1, SubLines
  <2> QED BY <2>1, <2>2, SubLines DEF TypeInv, TypeOK
<1>2. pend' = [pend EXCEPT ![t] = Append(@, l)]
  BY DEF Write
<1>3. \A d : Sets(l, d) <=> d = c
  BY DEF Sets, RowLines, DelLines
<1>4. ASSUME NEW d PROVE Touches(pend'[t], d) <=> Touches(pend[t], d) \/ d = c
  BY <1>1, <1>2, <1>3, TouchesAppend
<1>5. \A s \in Threads \ {t} : pend'[s] = pend[s]
  BY <1>1, <1>2
<1>6. /\ excused \subseteq excused'
      /\ c \notin excused' => \A s \in Threads \ {t} : ~Touches(pend[s], c)
  BY DEF Write
<1>7. AloneInv'
  <2>1. SUFFICES ASSUME NEW d \in Codes \ excused', NEW s \in Threads, NEW r \in Threads,
                        Touches(pend'[s], d), Touches(pend'[r], d), s # r
                 PROVE  FALSE
    BY DEF AloneInv
  <2>2. CASE d = c
    BY <1>5, <1>6, <2>1, <2>2
  <2>3. CASE d # c
    <3>1. Touches(pend[s], d) /\ Touches(pend[r], d)
      BY <1>4, <1>5, <2>1, <2>3
    <3> QED BY <1>6, <2>1, <3>1 DEF AloneInv
  <2> QED BY <2>2, <2>3
<1>8. mode' = "up" /\ cpc' = "idle"
  BY DEF Write
<1>9. SnapInv' /\ LoadInv'
  BY <1>8 DEF SnapInv, LoadInv
<1>10. LogMatchesIndex'
  <2>1. SUFFICES ASSUME NEW d \in Codes \ excused', Own(d)' PROVE Matches(d)'
    BY DEF LogMatchesIndex
  <2>2. index' = [index EXCEPT ![c] = x] /\ UNCHANGED <<file, buf, snap>>
    BY DEF Write, disk
  <2>3. CASE d = c
    <3>1. Touches(pend'[t], c) /\ InFlight(pend', c)
      BY <1>4 DEF InFlight
    <3>2. EndsWith(pend'[t], c, Value(x))
      BY <1>1, <1>2, <1>3, EndsAppend
    <3>3. index'[c] = x
      BY <1>1, <2>2
    <3>4. \A s \in Threads : Touches(pend'[s], c) => s = t
      BY <1>5, <1>6, <2>1, <2>3
    <3> QED BY <2>3, <3>1, <3>2, <3>3, <3>4 DEF Matches
  <2>4. CASE d # c
    <3>1. index'[d] = index[d]
      BY <1>1, <2>2, <2>4
    <3>2. Matches(d)
      BY <1>6, <2>1, <3>1 DEF LogMatchesIndex, Own
    <3>3. \A s \in Threads : Touches(pend'[s], d) <=> Touches(pend[s], d)
      BY <1>4, <1>5, <2>4
    <3>4. InFlight(pend', d) <=> InFlight(pend, d)
      BY <3>3 DEF InFlight
    <3>5. CASE InFlight(pend, d)
      <4>1. ASSUME NEW s \in Threads, Touches(pend'[s], d)
            PROVE  EndsWith(pend'[s], d, Value(index'[d]))
        <5>1. EndsWith(pend[s], d, Value(index[d]))
          BY <3>2, <3>3, <3>5, <4>1 DEF Matches
        <5>2. CASE s = t
          BY <1>1, <1>2, <1>3, <2>4, <3>1, <5>1, <5>2, EndsAppend
        <5>3. CASE s # t
          BY <1>5, <3>1, <5>1, <5>3
        <5> QED BY <5>2, <5>3
      <4> QED BY <3>4, <3>5, <4>1 DEF Matches
    <3>6. CASE ~InFlight(pend, d)
      BY <2>2, <3>1, <3>2, <3>4, <3>6 DEF Matches
    <3> QED BY <3>5, <3>6
  <2> QED BY <2>3, <2>4
<1> QED BY <1>7, <1>9, <1>10

LEMMA LogAssoc ==
    ASSUME NEW a \in Seq(Lines), NEW b \in Seq(Lines), NEW d \in Seq(Lines)
    PROVE  (a \o b) \o d = a \o (b \o d)
OBVIOUS

(* Second half of a mutation: thread t hands its lines to the log, which   *)
(* keeps them for every code it does not lose.                             *)
LEMMA HandOver ==
    ASSUME TypeInv, AloneInv, LogMatchesIndex, mode = "up", NEW t \in Threads,
           pend' = [pend EXCEPT ![t] = <<>>], UNCHANGED <<mode, index, snap>>,
           excused \subseteq excused',
           \A c \in Codes \ excused', v \in Values :
               Determines(snap, file \o (buf \o pend[t]), c, v)
                   => Determines(snap, file' \o buf', c, v)
    PROVE  AloneInv' /\ LogMatchesIndex'
<1>1. /\ \A s \in Threads : pend[s] \in Seq(Lines)
      /\ file \in Seq(Lines) /\ buf \in Seq(Lines) /\ file \o buf \in Seq(Lines)
  <2>1. pend \in [Threads -> Seq(RowLines \cup DelLines)]
    BY DEF TypeInv, TypeOK
  <2> QED BY <2>1, SubLines DEF TypeInv, TypeOK
<1>2. /\ pend'[t] = <<>>
      /\ \A s \in Threads \ {t} : pend'[s] = pend[s]
  BY DEF TypeInv, TypeOK
<1>3. \A c : ~Touches(<<>>, c)
  BY DEF Touches
<1>4. \A s \in Threads, c \in Codes : Touches(pend'[s], c) => s # t /\ Touches(pend[s], c)
  BY <1>2, <1>3
<1>5. AloneInv'
  BY <1>4 DEF AloneInv
<1>6. ASSUME NEW c \in Codes \ excused', Own(c)' PROVE Matches(c)'
  <2>1. Own(c) /\ Matches(c) /\ Value(index[c]) \in Values /\ c \in Codes \ excused
    <3>1. Own(c) /\ c \in Codes \ excused
      BY <1>6 DEF Own
    <3> QED BY <3>1, ValueType DEF LogMatchesIndex, TypeInv, TypeOK
  <2>2. CASE Touches(pend[t], c)
    <3>1. EndsWith(pend[t], c, Value(index[c]))
      BY <2>1, <2>2 DEF Matches, InFlight
    <3>2. Determines(snap, (file \o buf) \o pend[t], c, Value(index[c]))
      BY <1>1, <3>1, DeterminesRight
    <3>3. Determines(snap, file \o (buf \o pend[t]), c, Value(index[c]))
      <4>1. (file \o buf) \o pend[t] = file \o (buf \o pend[t])
        BY <1>1, LogAssoc, Zenon
      <4> QED BY <3>2, <4>1, Zenon
    <3>4. Determines(snap, file' \o buf', c, Value(index[c]))
      BY <1>6, <2>1, <3>3
    <3>5. ~InFlight(pend', c)
      <4>1. \A s \in Threads : Touches(pend[s], c) => s = t
        BY <2>1, <2>2 DEF AloneInv
      <4> QED BY <1>4, <4>1 DEF InFlight
    <3> QED BY <3>4, <3>5 DEF Matches
  <2>3. CASE ~Touches(pend[t], c)
    <3>1. \A s \in Threads : Touches(pend'[s], c) <=> Touches(pend[s], c)
      BY <1>2, <1>3, <2>3
    <3>2. InFlight(pend', c) <=> InFlight(pend, c)
      BY <3>1 DEF InFlight
    <3>3. CASE InFlight(pend, c)
      <4>1. ASSUME NEW s \in Threads, Touches(pend'[s], c)
            PROVE  EndsWith(pend'[s], c, Value(index'[c]))
        <5>1. Touches(pend[s], c) /\ pend'[s] = pend[s]
          BY <1>2, <1>4, <4>1
        <5> QED BY <2>1, <3>3, <5>1 DEF Matches
      <4> QED BY <3>2, <3>3, <4>1 DEF Matches
    <3>4. CASE ~InFlight(pend, c)
      <4>1. Determines(snap, file \o buf, c, Value(index[c]))
        BY <2>1, <3>4 DEF Matches
      <4>2. Determines(snap, (file \o buf) \o pend[t], c, Value(index[c]))
        BY <1>1, <2>3, <4>1, DeterminesLeft
      <4>3. Determines(snap, file \o (buf \o pend[t]), c, Value(index[c]))
        <5>1. (file \o buf) \o pend[t] = file \o (buf \o pend[t])
          BY <1>1, LogAssoc, Zenon
        <5> QED BY <4>2, <5>1, Zenon
      <4>4. Determines(snap, file' \o buf', c, Value(index[c]))
        BY <1>6, <2>1, <4>3
      <4> QED BY <3>2, <3>4, <4>4 DEF Matches
    <3> QED BY <3>3, <3>4
  <2> QED BY <2>2, <2>3
<1> QED BY <1>5, <1>6 DEF LogMatchesIndex

(* A flush by a timer, by close or by compaction, with the hit deltas h.   *)
LEMMA FlushStep ==
    ASSUME TypeInv, AloneInv, LogMatchesIndex, mode = "up", NEW h \in Seq(HitLines),
           FlushQueue(buf \o h), UNCHANGED <<mode, index, snap, pend>>
    PROVE  AloneInv' /\ LogMatchesIndex' /\ excused \subseteq excused'
<1>1. /\ file \in Seq(Lines) /\ buf \in Seq(Lines) /\ h \in Seq(Lines)
      /\ file \o buf \in Seq(Lines) /\ buf \o h \in Seq(Lines)
  <2>1. h \in Seq(Lines)
    BY SubLines
  <2> QED BY <2>1 DEF TypeInv, TypeOK
<1>2. \A c : ~Touches(h, c)
  <2>1. \A k \in 1..Len(h) : h[k] \in HitLines
    OBVIOUS
  <2> QED BY <2>1 DEF Touches, Sets, HitLines
<1>3. excused \subseteq excused'
  BY DEF FlushQueue
<1>4. AloneInv'
  BY <1>3 DEF AloneInv
<1>5. ASSUME NEW c \in Codes \ excused', Own(c)' PROVE Matches(c)'
  <2>1. Matches(c)
    BY <1>3, <1>5 DEF LogMatchesIndex, Own
  <2>2. CASE InFlight(pend, c)
    BY <2>1, <2>2 DEF Matches, InFlight
  <2>3. CASE ~InFlight(pend, c)
    <3>1. Determines(snap, file \o buf, c, Value(index[c]))
      BY <2>1, <2>3 DEF Matches
    <3>2. Determines(snap, (file \o buf) \o h, c, Value(index[c]))
      BY <1>1, <1>2, <3>1, DeterminesLeft
    <3>3. Determines(snap, file \o (buf \o h), c, Value(index[c]))
      <4>1. (file \o buf) \o h = file \o (buf \o h)
        BY <1>1
      <4> QED BY <3>2, <4>1, Zenon
    <3>4. Determines(snap, file' \o buf', c, Value(index[c]))
      BY <1>1, <1>5, <3>3, FlushKeeps DEF TypeInv
    <3> QED BY <2>3, <3>4 DEF Matches, InFlight
  <2> QED BY <2>2, <2>3
<1> QED BY <1>3, <1>4, <1>5 DEF LogMatchesIndex

LEMMA InitStore == Init => StoreInv
<1> SUFFICES ASSUME Init PROVE StoreInv
  OBVIOUS
<1>1. TypeInv
  BY InitType
<1>2. GateInv /\ DownInv
  BY DEF Init, GateInv, DownInv, Flushers
<1>3. \A c : ~Touches(<<>>, c)
  BY DEF Touches
<1>4. AloneInv
  BY <1>3 DEF Init, AloneInv
<1>5. SnapInv /\ LoadInv
  BY DEF Init, SnapInv, LoadInv
<1>6. LogMatchesIndex
  <2>1. file \o buf = <<>>
    BY DEF Init
  <2>2. \A c \in Codes : ~InFlight(pend, c)
    BY <1>3 DEF Init, InFlight
  <2>3. \A c \in Codes : Value(snap[c]) = Value(index[c])
    BY DEF Init, Nothing
  <2> QED BY <1>3, <2>1, <2>2, <2>3 DEF LogMatchesIndex, Matches, Determines
<1> QED BY <1>1, <1>2, <1>4, <1>5, <1>6 DEF StoreInv

(* First half of a mutation: one entry of this instance, one line for it.  *)
Mutates(t) ==
    /\ mode = "up" /\ cpc = "idle"
    /\ \E c \in Codes, x \in Entries \cup {None}, l \in RowLines \cup DelLines :
          /\ Write(t, c, x, l)
          /\ l.c = c /\ LineValue(l) = Value(x)
          /\ x = None \/ x.i = Me
          /\ l \in RowLines => l.i = Me
          /\ Ops \cap {"update", "remove"} = {} => index[c] = None /\ x # None

LEMMA MutationWrites ==
    ASSUME TypeInv, GateInv, NEW t \in Threads, Shorten(t) \/ Bulk(t) \/ Update(t) \/ Remove(t)
    PROVE  Mutates(t)
<1>t. index \in [Codes -> Entries \cup {None}]
  BY DEF TypeInv, TypeOK
<1>v. \A c \in Codes : \A u, e, i, n :
         /\ RowLine(c, u, e, i, n).c = c /\ LineValue(RowLine(c, u, e, i, n)) = <<u, e>>
         /\ RowLine(c, u, e, i, n).i = i
         /\ DelLine(c).c = c /\ LineValue(DelLine(c)) = None /\ DelLine(c) \notin RowLines
  BY DEF RowLine, DelLine, LineValue, RowLines
<1>w. \A x \in Entries : Value(x) = <<x.u, x.e>>
  BY NoneAssumption DEF Value
<1>n. \A u, e : NewEntry(u, e).i = Me /\ NewEntry(u, e).u = u /\ NewEntry(u, e).e = e
  BY DEF NewEntry
<1>1. CASE Shorten(t)
  <2>1. PICK c \in Codes, u \in Urls, ttl \in TTLs :
          /\ index[c] = None
          /\ Write(t, c, NewEntry(u, Expiry(ttl)), RowLine(c, u, Expiry(ttl), Me, 0))
    BY <1>1 DEF Shorten
  <2>2. Expiry(ttl) \in Nat /\ u \in AllUrls /\ Me \in Nat
    BY ExpiryType, StoreAssumption DEF TypeInv, TypeOK, AllUrls
  <2>3. NewEntry(u, Expiry(ttl)) \in Entries /\ RowLine(c, u, Expiry(ttl), Me, 0) \in RowLines
    BY <2>2, LineTypes DEF NewEntry, Entries
  <2>4. Value(NewEntry(u, Expiry(ttl))) = <<u, Expiry(ttl)>>
    BY <1>w, <2>3 DEF NewEntry
  <2>5. mode = "up" /\ cpc = "idle"
    BY <1>1 DEF Shorten, GateFree
  <2> QED BY <1>n, <1>v, <2>1, <2>3, <2>4, <2>5, NoneAssumption DEF Mutates
<1>2. CASE Bulk(t)
  <2>1. PICK c \in Codes, u \in Urls, ttl \in TTLs :
          LET e == IF pend[t] = <<>> THEN Expiry(ttl) ELSE pend[t][1].e
          IN  index[c] = None /\ Write(t, c, NewEntry(u, e), RowLine(c, u, e, Me, 0))
    BY <1>2 DEF Bulk
  <2> DEFINE e == IF pend[t] = <<>> THEN Expiry(ttl) ELSE pend[t][1].e
  <2>2. e \in Nat /\ u \in AllUrls /\ Me \in Nat
    <3>1. pend[t] # <<>> => pend[t] \in Seq(RowLines)
      BY <1>2 DEF Bulk, TypeInv, ThreadInv
    <3>2. pend[t] # <<>> => pend[t][1] \in RowLines
      BY <3>1
    <3> QED BY <3>2, ExpiryType, StoreAssumption DEF TypeInv, TypeOK, AllUrls, RowLines
  <2>3. NewEntry(u, e) \in Entries /\ RowLine(c, u, e, Me, 0) \in RowLines
    BY <2>2, LineTypes DEF NewEntry, Entries
  <2>4. Value(NewEntry(u, e)) = <<u, e>>
    BY <1>w, <2>3 DEF NewEntry
  <2>5. mode = "up" /\ cpc = "idle"
    BY <1>2 DEF Bulk, GateFree, GateInv
  <2> QED BY <1>n, <1>v, <2>1, <2>3, <2>4, <2>5, NoneAssumption DEF Mutates
<1>3. CASE Update(t)
  <2>1. PICK c \in Codes, u \in Urls :
          /\ index[c] # None /\ index[c].i = Me
          /\ \E e \in {index[c].e} \cup {Expiry(ttl) : ttl \in TTLs} :
                Write(t, c, [index[c] EXCEPT !.u = u, !.e = e], RowLine(c, u, e, Me, 0))
    BY <1>3 DEF Update
  <2>2. PICK e \in {index[c].e} \cup {Expiry(ttl) : ttl \in TTLs} :
          Write(t, c, [index[c] EXCEPT !.u = u, !.e = e], RowLine(c, u, e, Me, 0))
    BY <2>1
  <2>3. index[c] \in Entries /\ e \in Nat /\ u \in AllUrls /\ Me \in Nat
    BY <1>t, <2>1, ExpiryType, StoreAssumption DEF TypeInv, TypeOK, AllUrls, Entries
  <2>4. /\ [index[c] EXCEPT !.u = u, !.e = e] \in Entries
        /\ [index[c] EXCEPT !.u = u, !.e = e].u = u
        /\ [index[c] EXCEPT !.u = u, !.e = e].e = e
        /\ [index[c] EXCEPT !.u = u, !.e = e].i = Me
    BY <2>1, <2>3 DEF Entries
  <2>5. RowLine(c, u, e, Me, 0) \in RowLines
    BY <2>3, LineTypes
  <2>6. Value([index[c] EXCEPT !.u = u, !.e = e]) = <<u, e>>
    BY <1>w, <2>4
  <2>7. mode = "up" /\ cpc = "idle" /\ "update" \in Ops
    BY <1>3 DEF Update, GateFree
  <2> DEFINE x == [index[c] EXCEPT !.u = u, !.e = e]
             l == RowLine(c, u, e, Me, 0)
  <2>8. /\ x \in Entries /\ x.i = Me /\ l \in RowLines /\ Write(t, c, x, l)
        /\ l.c = c /\ LineValue(l) = Value(x) /\ l.i = Me
    BY <1>v, <2>2, <2>4, <2>5, <2>6
  <2> HIDE DEF x, l
  <2> QED BY <2>7, <2>8 DEF Mutates
<1>4. CASE Remove(t)
  <2>1. PICK c \in Codes : Write(t, c, None, DelLine(c))
    BY <1>4 DEF Remove
  <2>2. DelLine(c) \in DelLines /\ Value(None) = None
    BY LineTypes DEF Value
  <2>3. mode = "up" /\ cpc = "idle" /\ "remove" \in Ops
    BY <1>4 DEF Remove, GateFree
  <2> QED BY <1>v, <2>1, <2>2, <2>3 DEF Mutates
<1> QED BY <1>1, <1>2, <1>3, <1>4

(* The parts about lines and values, action by action.                     *)
LEMMA NextStore ==
    ASSUME StoreInv, [Next]_vars
    PROVE  AloneInv' /\ SnapInv' /\ LoadInv' /\ LogMatchesIndex'
<1> DEFINE Goal == AloneInv' /\ SnapInv' /\ LoadInv' /\ LogMatchesIndex'
<1>i. TypeInv /\ GateInv /\ DownInv /\ AloneInv /\ SnapInv /\ LoadInv /\ LogMatchesIndex
  BY DEF StoreInv
<1>t. /\ pc \in [Threads -> {"idle", "push", "append", "bulk", "bump"}]
      /\ fpc \in [Flushers -> {"idle", "write"}]
      /\ index \in [Codes -> Entries \cup {None}]
      /\ \A s \in Threads : pend[s] \in Seq(Lines)
      /\ file \in Seq(Lines) /\ buf \in Seq(Lines)
  <2>1. pend \in [Threads -> Seq(RowLines \cup DelLines)]
    BY <1>i DEF TypeInv, TypeOK
  <2> QED BY <1>i, <2>1, SubLines DEF TypeInv, TypeOK
<1>w. \A x \in Entries : Value(x) = <<x.u, x.e>>
  BY NoneAssumption DEF Value
<1>1. ASSUME NEW t \in Threads, Shorten(t) \/ Bulk(t) \/ Update(t) \/ Remove(t) PROVE Goal
  BY <1>1, <1>i, MutationWrites, WriteKeeps DEF Mutates
<1>5. ASSUME NEW t \in Threads, Push(t) \/ Queue(t) PROVE Goal
  <2>1. mode = "up" /\ cpc = "idle"
    BY <1>i, <1>t, <1>5 DEF Push, Queue, GateInv, DownInv
  <2>2. SnapInv' /\ LoadInv'
    BY <1>5, <2>1 DEF Push, Queue, SnapInv, LoadInv
  <2>3. buf \o pend[t] \in Seq(Lines)
    BY <1>t
  <2>4. /\ excused \subseteq excused'
        /\ \A c \in Codes \ excused', v \in Values :
              Determines(snap, file \o (buf \o pend[t]), c, v)
                  => Determines(snap, file' \o buf', c, v)
    <3>1. CASE FlushQueue(buf \o pend[t])
      BY <1>i, <2>3, <3>1, FlushKeeps DEF FlushQueue, TypeInv
    <3>2. CASE buf' = buf \o pend[t] /\ UNCHANGED <<file, excused>>
      BY <3>2
    <3> QED BY <1>5, <3>1, <3>2 DEF Push, Queue, Flush, disk, history
  <2>5. pend' = [pend EXCEPT ![t] = <<>>] /\ UNCHANGED <<mode, index, snap>>
    BY <1>5 DEF Push, Queue, memory
  <2> QED BY <1>i, <2>1, <2>2, <2>4, <2>5, HandOver
<1>6. ASSUME NEW t \in Threads, Resolve(t) PROVE Goal
  <2>1. PICK c \in Codes :
          Live(index[c]) /\ index' = [index EXCEPT ![c].h = @ + 1, ![c].oh = @ + 1]
    BY <1>6 DEF Resolve
  <2>2. index[c] \in Entries
    BY <1>t, <2>1 DEF Live
  <2>3. /\ index'[c] = [index[c] EXCEPT !.h = @ + 1, !.oh = @ + 1]
        /\ \A d \in Codes \ {c} : index'[d] = index[d]
    BY <1>t, <2>1
  <2>4. /\ Value(index'[c]) = Value(index[c])
        /\ index'[c].i = index[c].i /\ index'[c] # None /\ index[c] # None
    <3> DEFINE y == [index[c] EXCEPT !.h = @ + 1, !.oh = @ + 1]
    <3>1. y \in Entries /\ Value(y) = Value(index[c]) /\ y.i = index[c].i
      <4>1. 1 \in Nat
        OBVIOUS
      <4> QED BY <2>2, <4>1, CountHits, Zenon
    <3>2. index'[c] = y
      BY <2>3
    <3> HIDE DEF y
    <3> QED BY <2>2, <3>1, <3>2, NoneAssumption
  <2>5. \A d \in Codes : /\ Value(index'[d]) = Value(index[d])
                         /\ (index'[d] = None \/ index'[d].i = Me) => Own(d)
    BY <2>3, <2>4 DEF Own
  <2>6. /\ UNCHANGED <<mode, pend, file, buf, snap, replayed, tmp, cpc, excused>>
    BY <1>6 DEF Resolve, disk, history
  <2>7. AloneInv' /\ LoadInv' /\ LogMatchesIndex'
    BY <1>i, <2>5, <2>6, QuietStep
  <2>8. SnapInv'
    BY <1>i, <2>5, <2>6 DEF SnapInv, Own
  <2> QED BY <2>7, <2>8
<1>7. ASSUME UNCHANGED <<mode, index, pend, file, buf, snap, replayed, tmp>>,
             cpc' \in {cpc, "idle", "flush"}, excused' = excused
      PROVE  Goal
  <2>1. AloneInv' /\ LoadInv' /\ LogMatchesIndex'
    BY <1>i, <1>7, QuietStep DEF Own
  <2>2. SnapInv'
    BY <1>i, <1>7 DEF SnapInv, Own
  <2> QED BY <2>1, <2>2
<1>8. ASSUME NEW t \in Threads, Bump(t) PROVE Goal
  BY <1>7, <1>8 DEF Bump, disk, history
<1>9. ASSUME NEW f \in Flushers, Drain(f) PROVE Goal
  BY <1>7, <1>9 DEF Drain, disk, history
<1>10. ASSUME Tick \/ CompactStart \/ Signal \/ DropHandle \/ UNCHANGED vars PROVE Goal
  BY <1>7, <1>10
     DEF Tick, CompactStart, Signal, DropHandle, vars, memory, workers, disk, history
<1>11. ASSUME NEW f \in Flushers, FlushWrite(f) PROVE Goal
  <2>1. mode = "up" /\ drained[f] \in Seq(HitLines)
    BY <1>i, <1>t, <1>11 DEF FlushWrite, DownInv, TypeInv, TypeOK
  <2>2. FlushQueue(buf \o drained[f]) /\ UNCHANGED <<mode, index, snap, pend, tmp>>
    BY <1>11 DEF FlushWrite, Flush, memory
  <2>3. AloneInv' /\ LogMatchesIndex' /\ excused \subseteq excused'
    BY <1>i, <2>1, <2>2, FlushStep
  <2>4. SnapInv'
    BY <1>i, <1>11, <2>2, <2>3 DEF FlushWrite, SnapInv, Own
  <2>5. LoadInv'
    BY <2>1, <2>2 DEF LoadInv
  <2> QED BY <2>3, <2>4, <2>5
<1>12. ASSUME Fsync \/ CloseSync PROVE Goal
  <2>1. mode = "up"
    BY <1>i, <1>12 DEF Fsync, CloseSync, DownInv
  <2>2. FlushQueue(buf) /\ UNCHANGED <<mode, index, snap, pend, tmp, cpc>>
    BY <1>12 DEF Fsync, CloseSync, Sync, memory, workers
  <2>3. buf \o <<>> = buf /\ <<>> \in Seq(HitLines)
    BY <1>t
  <2>4. AloneInv' /\ LogMatchesIndex' /\ excused \subseteq excused'
    BY <1>i, <2>1, <2>2, <2>3, FlushStep
  <2>5. SnapInv'
    BY <1>i, <2>2, <2>4 DEF SnapInv, Own
  <2>6. LoadInv'
    BY <2>1, <2>2 DEF LoadInv
  <2> QED BY <2>4, <2>5, <2>6
<1>c. ASSUME cpc \in {"snap", "rename", "trunc"}
      PROVE  /\ mode = "up" /\ file \o buf = file
             /\ \A c \in Codes : ~InFlight(pend, c) /\ \A t \in Threads : ~Touches(pend[t], c)
             /\ \A c \in Codes \ excused :
                   Own(c) => Determines(snap, file, c, Value(index[c]))
  <2>1. mode = "up" /\ buf = <<>>
    BY <1>i, <1>c DEF GateInv, DownInv
  <2>2. file \o buf = file
    BY <1>t, <2>1
  <2>3. \A c \in Codes : ~InFlight(pend, c) /\ \A t \in Threads : ~Touches(pend[t], c)
    BY <1>i, <1>c, NobodyInFlight
  <2> QED BY <1>i, <2>1, <2>2, <2>3 DEF LogMatchesIndex, Matches
<1>d. ASSUME NEW c \in Codes \ SetBy({file[k] : k \in 1..Len(file)}) PROVE ~Touches(file, c)
  BY <1>d DEF SetBy, Touches
<1>o. ASSUME NEW c \in Codes, Own(c) PROVE Value(OwnRow(c)) = Value(index[c])
  <2>1. CASE index[c] = None
    BY <2>1 DEF OwnRow
  <2>2. CASE index[c] # None
    <3>1. index[c] \in Entries /\ index[c].i = Me
      BY <1>t, <1>o, <2>2 DEF Own
    <3> DEFINE r == RowLine(c, index[c].u, index[c].e, index[c].i, index[c].oh)
    <3>2. OwnRow(c) = r
      BY <2>2, <3>1 DEF OwnRow
    <3>3. r \in RowLines
      BY <3>1, LineTypes DEF Entries
    <3>4. r # None
      BY <3>3, NoneAssumption DEF Lines
    <3>5. r.u = index[c].u /\ r.e = index[c].e
      BY DEF RowLine
    <3> QED BY <2>2, <3>2, <3>4, <3>5 DEF Value
  <2> QED BY <2>1, <2>2
<1>13. ASSUME CompactSnap PROVE Goal
  <2>1. cpc' = "rename" /\ tmp' = [c \in Codes |-> OwnRow(c)]
        /\ UNCHANGED <<mode, index, pend, file, buf, snap, replayed, excused>>
    BY <1>13 DEF CompactSnap, memory, disk, history
  <2>2. AloneInv' /\ LoadInv' /\ LogMatchesIndex'
    BY <1>i, <2>1, QuietStep DEF Own
  <2>3. SnapInv'
    BY <1>o, <2>1 DEF SnapInv, Own
  <2> QED BY <2>2, <2>3
<1>14. ASSUME CompactSnapFail PROVE Goal
  <2>1. UNCHANGED <<mode, index, pend, file, buf, snap, replayed>> /\ excused \subseteq excused'
    BY <1>14 DEF CompactSnapFail, memory, disk
  <2>2. AloneInv' /\ LoadInv' /\ LogMatchesIndex'
    BY <1>i, <2>1, QuietStep DEF Own
  <2>3. CASE cpc' = "trunc" /\ excused' = excused \cup SetBy({file[k] : k \in 1..Len(file)})
    <3>1. ASSUME NEW c \in Codes \ excused', Own(c) PROVE Value(snap[c]) = Value(index[c])
      <4>1. Determines(snap, file, c, Value(index[c]))
        BY <1>c, <1>14, <2>1, <3>1 DEF CompactSnapFail
      <4>2. ~Touches(file, c)
        BY <1>d, <2>3
      <4> QED BY <4>1, <4>2 DEF Determines
    <3> QED BY <2>1, <2>2, <2>3, <3>1 DEF SnapInv, Own
  <2>4. CASE \E cut \in SUBSET Codes :
                /\ cpc' = "rename"
                /\ tmp' = [c \in Codes |-> IF c \in cut THEN None ELSE OwnRow(c)]
                /\ excused' = excused \cup cut
    BY <1>o, <2>1, <2>2, <2>4 DEF SnapInv, Own
  <2> QED BY <1>14, <2>3, <2>4 DEF CompactSnapFail
<1>15. ASSUME CompactRename PROVE Goal
  <2>0. cpc = "rename" /\ cpc' = "trunc"
        /\ UNCHANGED <<mode, index, pend, file, buf, replayed>>
    BY <1>15 DEF CompactRename, memory, disk
  <2>1. CASE snap' = tmp /\ UNCHANGED excused
    <3>1. ASSUME NEW c \in Codes \ excused, Own(c) PROVE Value(tmp[c]) = Value(index[c])
      BY <1>i, <2>0, <3>1 DEF SnapInv
    <3>2. SnapInv'
      BY <2>0, <2>1, <3>1 DEF SnapInv, Own
    <3>3. AloneInv' /\ LoadInv'
      BY <1>i, <1>c, <2>0, <2>1 DEF AloneInv, LoadInv
    <3>4. ASSUME NEW c \in Codes \ excused', Own(c)' PROVE Matches(c)'
      <4>1. Own(c) /\ c \in Codes \ excused
        BY <2>0, <2>1, <3>4 DEF Own
      <4>2. Determines(snap, file, c, Value(index[c]))
        BY <1>c, <2>0, <4>1
      <4>3. Determines(tmp, file, c, Value(index[c]))
        BY <3>1, <4>1, <4>2 DEF Determines
      <4>4. ~InFlight(pend', c) /\ file' \o buf' = file
        BY <1>c, <2>0
      <4> QED BY <2>0, <2>1, <4>3, <4>4 DEF Matches
    <3> QED BY <3>2, <3>3, <3>4 DEF LogMatchesIndex
  <2>2. CASE excused' = excused \cup SetBy({file[k] : k \in 1..Len(file)}) /\ UNCHANGED snap
    <3>1. AloneInv' /\ LoadInv' /\ LogMatchesIndex'
      BY <1>i, <2>0, <2>2, QuietStep DEF Own
    <3>2. ASSUME NEW c \in Codes \ excused', Own(c) PROVE Value(snap[c]) = Value(index[c])
      <4>1. Determines(snap, file, c, Value(index[c]))
        BY <1>c, <2>0, <2>2, <3>2
      <4>2. ~Touches(file, c)
        BY <1>d, <2>2
      <4> QED BY <4>1, <4>2 DEF Determines
    <3> QED BY <2>0, <2>2, <3>1, <3>2 DEF SnapInv, Own
  <2> QED BY <1>15, <2>1, <2>2 DEF CompactRename
<1>16. ASSUME CompactTrunc PROVE Goal
  <2>0. /\ cpc = "trunc" /\ cpc' = "idle" /\ mode = "up"
        /\ UNCHANGED <<mode, index, pend, snap>>
    BY <1>c, <1>16 DEF CompactTrunc, memory
  <2>1. SnapInv' /\ LoadInv'
    BY <2>0 DEF SnapInv, LoadInv
  <2>2. CASE FlushQueue(buf)
    <3>1. buf \o <<>> = buf /\ <<>> \in Seq(HitLines)
      BY <1>t
    <3> QED BY <1>i, <2>0, <2>1, <2>2, <3>1, FlushStep
  <2>3. CASE file' = <<>> /\ buf' = <<>> /\ UNCHANGED excused
    <3>1. AloneInv'
      BY <1>i, <2>0, <2>3 DEF AloneInv
    <3>2. ASSUME NEW c \in Codes \ excused', Own(c)' PROVE Matches(c)'
      <4>1. Value(snap'[c]) = Value(index'[c])
        BY <1>i, <2>0, <2>3, <3>2 DEF SnapInv, Own
      <4>2. ~InFlight(pend', c) /\ file' \o buf' = <<>>
        BY <1>c, <2>0, <2>3
      <4>3. ~Touches(<<>>, c)
        BY DEF Touches
      <4> QED BY <4>1, <4>2, <4>3 DEF Matches, Determines
    <3> QED BY <2>1, <3>1, <3>2 DEF LogMatchesIndex
  <2> QED BY <1>16, <2>2, <2>3 DEF CompactTrunc, Flush
<1>17. ASSUME Exit \/ Kill \/ PowerLoss PROVE Goal
  <2>1. Stopped
    BY <1>17 DEF Exit, Kill, PowerLoss
  <2>2. \A c : ~Touches(<<>>, c)
    BY DEF Touches
  <2> QED BY <2>1, <2>2 DEF Stopped, AloneInv, SnapInv, LoadInv, LogMatchesIndex
<1>18. ASSUME Boot PROVE Goal
  <2>0. UNCHANGED <<pend, cpc, excused, file, snap, replayed>> /\ mode' = "load"
        /\ cpc = "idle" /\ replayed = 0
    BY <1>i, <1>18 DEF Boot, workers, disk, history, DownInv
  <2>1. AloneInv' /\ SnapInv' /\ LogMatchesIndex'
    BY <1>i, <2>0 DEF AloneInv, SnapInv, LogMatchesIndex
  <2>2. ASSUME NEW c \in Codes
        PROVE  Determines(snap, SubSeq(file, 1, 0), c, Value(index'[c]))
    <3>1. SubSeq(file, 1, 0) = <<>> /\ ~Touches(<<>>, c)
      BY <1>t DEF Touches
    <3>2. Value(index'[c]) = Value(snap[c])
      <4>1. CASE snap[c] = None
        BY <1>18, <4>1 DEF Boot
      <4>2. CASE snap[c] # None
        <5>1. snap[c] \in RowLines
          BY <1>i, <4>2 DEF TypeInv, TypeOK
        <5>2. RowEntry(snap[c], NoStray) \in Entries
          BY <5>1 DEF RowEntry, NoStray, RowLines, Entries
        <5>3. index'[c] = RowEntry(snap[c], NoStray)
          BY <1>18, <4>2 DEF Boot
        <5>4. Value(index'[c]) = <<snap[c].u, snap[c].e>>
          BY <1>w, <5>2, <5>3 DEF RowEntry
        <5> QED BY <4>2, <5>4 DEF Value
      <4> QED BY <4>1, <4>2
    <3> QED BY <3>1, <3>2 DEF Determines
  <2> QED BY <2>0, <2>1, <2>2 DEF LoadInv
<1>19. ASSUME LoadLine PROVE Goal
  <2>0. UNCHANGED <<mode, pend, cpc, excused, file, snap>> /\ mode = "load"
        /\ cpc = "idle" /\ replayed' = replayed + 1 /\ replayed < Len(file)
        /\ replayed \in Nat /\ stray \in [Codes -> Strays]
    BY <1>i, <1>19 DEF LoadLine, workers, disk, history, DownInv, TypeInv, TypeOK
  <2>1. AloneInv' /\ SnapInv' /\ LogMatchesIndex'
    BY <1>i, <2>0 DEF AloneInv, SnapInv, LogMatchesIndex
  <2> DEFINE p == SubSeq(file, 1, replayed)
             l == file[replayed + 1]
  <2>2. p \in Seq(Lines) /\ l \in Lines /\ SubSeq(file, 1, replayed + 1) = Append(p, l)
    BY <1>t, <2>0
  <2>3. PICK st \in Apply([index |-> index, stray |-> stray], l, Me) : index' = st.index
    BY <1>19 DEF LoadLine
  <2>4. ASSUME NEW c \in Codes PROVE Determines(snap, Append(p, l), c, Value(index'[c]))
    <3>1. Value(index'[c]) = IF Sets(l, c) THEN LineValue(l) ELSE Value(index[c])
      <4>1. index \in [Codes -> Entries \cup {None}] /\ stray \in [Codes -> Strays]
        BY <1>t, <2>0
      <4>2. Value(st.index[c]) = IF Sets(l, c) THEN LineValue(l) ELSE Value(index[c])
        BY <2>2, <2>3, <4>1, ApplyValue
      <4> QED BY <2>3, <4>2
    <3>2. Determines(snap, p, c, Value(index[c]))
      BY <1>i, <2>0 DEF LoadInv
    <3>3. Touches(Append(p, l), c) <=> Touches(p, c) \/ Sets(l, c)
      BY <2>2, TouchesAppend
    <3>4. CASE Sets(l, c)
      <4>1. EndsWith(Append(p, l), c, LineValue(l))
        BY <2>2, <3>4, EndsAppend
      <4> QED BY <3>1, <3>3, <3>4, <4>1 DEF Determines
    <3>5. CASE ~Sets(l, c)
      <4>1. EndsWith(p, c, Value(index[c])) => EndsWith(Append(p, l), c, Value(index[c]))
        BY <2>2, <3>5, EndsAppend
      <4> QED BY <3>1, <3>2, <3>3, <3>5, <4>1 DEF Determines
    <3> QED BY <3>4, <3>5
  <2> QED BY <2>0, <2>1, <2>2, <2>4 DEF LoadInv
<1>20. ASSUME Loaded PROVE Goal
  <2>0. UNCHANGED <<index, pend, cpc, buf, file, snap>> /\ mode = "load" /\ mode' = "up"
        /\ cpc = "idle" /\ buf = <<>> /\ replayed = Len(file)
    BY <1>i, <1>20 DEF Loaded, memory, workers, disk, DownInv
  <2>1. \A c \in Codes : ~InFlight(pend, c) /\ \A t \in Threads : ~Touches(pend[t], c)
    BY <1>i, <2>0, NobodyInFlight
  <2>2. AloneInv' /\ SnapInv' /\ LoadInv'
    BY <2>0, <2>1 DEF AloneInv, SnapInv, LoadInv
  <2>3. SubSeq(file, 1, Len(file)) = file /\ file \o buf = file
    BY <1>t, <2>0
  <2>4. \A c \in Codes : Determines(snap, file \o buf, c, Value(index[c]))
    BY <1>i, <2>0, <2>3 DEF LoadInv
  <2> QED BY <2>0, <2>1, <2>2, <2>4 DEF LogMatchesIndex, Matches, InFlight
<1> QED
  BY <1>1, <1>5, <1>6, <1>8, <1>9, <1>10, <1>11, <1>12, <1>13, <1>14,
     <1>15, <1>16, <1>17, <1>18, <1>19, <1>20
  DEF Next, ThreadStep, CompactStep

(* For every number of threads, codes, crashes and faults: the snapshot,   *)
(* the log and its queue determine the index, but for the codes that two   *)
(* writers raced on or that an injected fault disturbed.                   *)
THEOREM LogAlwaysMatches == Spec => []LogMatchesIndex
<1>1. StoreInv /\ [Next]_vars => StoreInv'
  BY NextType, NextGate, NextStore DEF StoreInv
<1>2. StoreInv => LogMatchesIndex
  BY DEF StoreInv
<1> QED BY InitStore, <1>1, <1>2, PTL DEF Spec

-----------------------------------------------------------------------------
(* Recovery: what a restart may find, whenever it happens.                 *)

Levels == {"flush", "sync"}

(* The codes that are not excused are this instance's.                     *)
OwnInv == mode = "up" => \A c \in Codes \ excused : Own(c)

(* What the index, the queue and the threads hold is among the values      *)
(* since the last flush and since the last fsync.                          *)
HeldInv ==
    \A c \in Codes, k \in Levels :
        /\ mode = "up" => Value(index[c]) \in since[k][c]
        /\ Gives(buf, c, since[k][c])
        /\ \A t \in Threads : Gives(pend[t], c, since[k][c])

(* The files determine a value that is owed, and so does what is left of   *)
(* them when any of the lines are gone that no fsync covers.               *)
FilesInv ==
    \A c \in Codes \ excused :
        /\ Finds(snap, file, c, IF mode = "up" THEN since["flush"][c] ELSE owed[c])
        /\ \A n \in synced..Len(file) : Finds(snap, SubSeq(file, 1, n), c, since["sync"][c])

RecoveryInv == OwnInv /\ HeldInv /\ FilesInv

LEMMA GivesNothing ==
    ASSUME NEW c, NEW V
    PROVE  Gives(<<>>, c, V) /\ ~Touches(<<>>, c)
BY DEF Gives, Touches

LEMMA GivesMore ==
    ASSUME NEW s, NEW c, NEW V, NEW W, Gives(s, c, V), V \subseteq W
    PROVE  Gives(s, c, W)
BY DEF Gives

LEMMA FindsWider ==
    ASSUME NEW base, NEW s, NEW c, NEW V, NEW W, Finds(base, s, c, V), V \subseteq W
    PROVE  Finds(base, s, c, W)
BY DEF Finds

LEMMA InitRecovery == Init => RecoveryInv
<1> SUFFICES ASSUME Init PROVE RecoveryInv
  OBVIOUS
<1>1. OwnInv
  BY DEF Init, OwnInv, Own, Nothing
<1>2. HeldInv
  BY GivesNothing DEF Init, HeldInv, Levels, Nothing, Value
<1>3. \A c \in Codes : Determines(snap, <<>>, c, None)
  BY GivesNothing DEF Init, Nothing, Determines, Value
<1>4. \A n \in 0..0 : SubSeq(<<>>, 1, n) = <<>>
  OBVIOUS
<1>5. FilesInv
  BY <1>3, <1>4 DEF Init, FilesInv, Finds
<1> QED BY <1>1, <1>2, <1>5 DEF RecoveryInv

(* First half of a mutation.                                               *)
LEMMA WriteRecovers ==
    ASSUME TypeInv, RecoveryInv, mode = "up", NEW t \in Threads, NEW c \in Codes,
           NEW x \in Entries \cup {None}, x = None \/ x.i = Me,
           NEW l \in RowLines \cup DelLines, l.c = c, LineValue(l) = Value(x),
           Write(t, c, x, l)
    PROVE  RecoveryInv'
<1>1. /\ index \in [Codes -> Entries \cup {None}]
      /\ since \in [Levels -> [Codes -> SUBSET Values]]
      /\ pend \in [Threads -> Seq(RowLines \cup DelLines)]
  BY DEF TypeInv, TypeOK, Levels
<1>2. /\ index' = [index EXCEPT ![c] = x]
      /\ pend' = [pend EXCEPT ![t] = Append(@, l)]
      /\ excused \subseteq excused'
      /\ UNCHANGED <<mode, buf, file, synced, snap>>
  BY DEF Write, disk
<1>3. \A k \in Levels : /\ since'[k][c] = since[k][c] \cup {Value(x)}
                        /\ \A d \in Codes : since[k][d] \subseteq since'[k][d]
  BY <1>1 DEF Write, Levels
<1>4. OwnInv'
  <2>1. ASSUME NEW d \in Codes \ excused' PROVE index'[d] = None \/ index'[d].i = Me
    <3>1. d # c => Own(d)
      BY <1>2, <2>1 DEF RecoveryInv, OwnInv
    <3> QED BY <1>1, <1>2, <3>1 DEF Own
  <2> QED BY <2>1 DEF OwnInv, Own
<1>5. HeldInv'
  <2>1. SUFFICES ASSUME NEW d \in Codes, NEW k \in Levels
                 PROVE  /\ Value(index'[d]) \in since'[k][d]
                        /\ Gives(buf', d, since'[k][d])
                        /\ \A s \in Threads : Gives(pend'[s], d, since'[k][d])
    BY DEF HeldInv
  <2>2. /\ Value(index[d]) \in since[k][d]
        /\ Gives(buf, d, since[k][d])
        /\ \A s \in Threads : Gives(pend[s], d, since[k][d])
    BY DEF RecoveryInv, HeldInv
  <2>3. Value(index'[d]) \in since'[k][d]
    BY <1>1, <1>2, <1>3, <2>2
  <2>4. Gives(buf', d, since'[k][d])
    BY <1>2, <1>3, <2>2, GivesMore
  <2>5. ASSUME NEW s \in Threads PROVE Gives(pend'[s], d, since'[k][d])
    <3>1. Gives(pend[s], d, since'[k][d])
      BY <1>3, <2>2, GivesMore
    <3>2. CASE s # t
      BY <1>1, <1>2, <3>1, <3>2
    <3>3. CASE s = t
      <4>1. pend'[s] = pend[s] \o <<l>> /\ pend[s] \in Seq(Lines) /\ <<l>> \in Seq(Lines)
        BY <1>1, <1>2, <3>3, SubLines
      <4>2. Sets(l, d) => d = c
        BY DEF Sets
      <4>3. Gives(<<l>>, d, since'[k][d])
        BY <1>3, <4>2 DEF Gives
      <4> QED BY <3>1, <4>1, <4>3, GivesConcat
    <3> QED BY <3>2, <3>3
  <2> QED BY <2>3, <2>4, <2>5
<1>6. FilesInv'
  <2>1. SUFFICES ASSUME NEW d \in Codes \ excused'
                 PROVE  /\ Finds(snap', file', d, since'["flush"][d])
                        /\ \A n \in synced'..Len(file') :
                              Finds(snap', SubSeq(file', 1, n), d, since'["sync"][d])
    BY <1>2 DEF FilesInv
  <2>2. /\ Finds(snap, file, d, since["flush"][d])
        /\ \A n \in synced..Len(file) : Finds(snap, SubSeq(file, 1, n), d, since["sync"][d])
    BY <1>2 DEF RecoveryInv, FilesInv
  <2> QED BY <1>2, <1>3, <2>2, FindsWider DEF Levels
<1> QED BY <1>4, <1>5, <1>6 DEF RecoveryInv

(* The queue q goes to the file: what the files determine afterwards, were *)
(* the values since the last flush and fsync not to start over.            *)
LEMMA WrittenFinds ==
    ASSUME TypeInv, FilesInv, mode = "up", NEW q \in Seq(Lines), FlushQueue(q),
           NEW c \in Codes \ excused', \A k \in Levels : Gives(q, c, since[k][c])
    PROVE  /\ Finds(snap, file', c, since["flush"][c])
           /\ \A n \in synced..Len(file') : Finds(snap, SubSeq(file', 1, n), c, since["sync"][c])
<1>1. PICK w \in Writes(q) : file' = file \o w.add /\ excused' = excused \cup w.lost
  BY DEF FlushQueue
<1>2. /\ w.add \in Seq(Lines) /\ Carries(w.add, q, c)
      /\ file \in Seq(Lines) /\ synced \in 0..Len(file)
  BY <1>1, WritesType, WritesCarry DEF TypeInv, TypeOK
<1>3. \A k \in Levels : Gives(w.add, c, since[k][c])
  BY <1>2, CarriesGives
<1>4. /\ Finds(snap, file, c, since["flush"][c])
      /\ \A n \in synced..Len(file) : Finds(snap, SubSeq(file, 1, n), c, since["sync"][c])
  BY <1>1 DEF FilesInv
<1>5. Finds(snap, file', c, since["flush"][c])
  BY <1>1, <1>2, <1>3, <1>4, FindsMore DEF Levels
<1>6. \A n \in synced..Len(file') : Finds(snap, SubSeq(file', 1, n), c, since["sync"][c])
  BY <1>1, <1>2, <1>3, <1>4, FindsPrefix DEF Levels
<1> QED BY <1>5, <1>6

(* Aof::flush and Aof::fsync, whoever calls them.                          *)
LEMMA FlushRecovers ==
    ASSUME TypeInv, TypeInv', RecoveryInv, LogMatchesIndex', mode = "up",
           UNCHANGED <<mode, index, snap>>, NEW q \in Seq(Lines), FlushQueue(q),
           \A c \in Codes, k \in Levels : Gives(q, c, since[k][c]),
           \A t \in Threads : pend'[t] \in {pend[t], <<>>},
           \/ Settle({"flush"}, pend') /\ synced' = synced
           \/ Settle({"flush", "sync"}, pend') /\ synced' = Len(file')
    PROVE  RecoveryInv'
<1>1. excused \subseteq excused' /\ buf' = <<>>
  BY DEF FlushQueue
<1>2. OwnInv'
  BY <1>1 DEF RecoveryInv, OwnInv, Own
<1>3. ASSUME NEW c \in Codes, NEW k \in Levels
      PROVE  \/ since'[k][c] = since[k][c]
             \/ since'[k][c] = {Value(index[c])} /\ ~InFlight(pend', c)
  BY DEF Settle, Levels
<1>4. HeldInv'
  <2>1. SUFFICES ASSUME NEW c \in Codes, NEW k \in Levels
                 PROVE  /\ Value(index'[c]) \in since'[k][c]
                        /\ Gives(buf', c, since'[k][c])
                        /\ \A t \in Threads : Gives(pend'[t], c, since'[k][c])
    BY DEF HeldInv
  <2>2. /\ Value(index[c]) \in since[k][c]
        /\ \A t \in Threads : Gives(pend[t], c, since[k][c])
    BY DEF RecoveryInv, HeldInv
  <2>3. Value(index'[c]) \in since'[k][c]
    BY <1>3, <2>2
  <2>4. Gives(buf', c, since'[k][c])
    BY <1>1, GivesNothing
  <2>5. ASSUME NEW t \in Threads PROVE Gives(pend'[t], c, since'[k][c])
    <3>1. CASE since'[k][c] = since[k][c]
      BY <2>2, <3>1, GivesNothing
    <3>2. CASE ~InFlight(pend', c)
      BY <3>2 DEF InFlight, Touches, Gives
    <3> QED BY <1>3, <3>1, <3>2
  <2> QED BY <2>3, <2>4, <2>5
<1>5. FilesInv'
  <2>1. SUFFICES ASSUME NEW c \in Codes \ excused'
                 PROVE  /\ Finds(snap, file', c, since'["flush"][c])
                        /\ \A n \in synced'..Len(file') :
                              Finds(snap, SubSeq(file', 1, n), c, since'["sync"][c])
    BY DEF FilesInv
  <2>2. /\ Finds(snap, file', c, since["flush"][c])
        /\ \A n \in synced..Len(file') : Finds(snap, SubSeq(file', 1, n), c, since["sync"][c])
    BY WrittenFinds DEF RecoveryInv
  <2>3. /\ file' \in Seq(Lines) /\ SubSeq(file', 1, Len(file')) = file'
        /\ synced' \in 0..Len(file') /\ synced \in 0..Len(file) /\ Len(file) <= Len(file')
        /\ Len(file) \in Nat /\ Len(file') \in Nat
    <3>1. file \in Seq(Lines) /\ synced \in 0..Len(file)
      BY DEF TypeInv, TypeOK
    <3>2. file' \in Seq(Lines) /\ synced' \in 0..Len(file') /\ Len(file) <= Len(file')
      BY FlushQueueType DEF TypeInv, TypeOK
    <3> QED BY <3>1, <3>2
  <2>4. ~InFlight(pend', c) => Finds(snap, file', c, {Value(index[c])})
    <3>1. ASSUME ~InFlight(pend', c) PROVE Determines(snap, file', c, Value(index[c]))
      <4>1. Own(c)'
        BY <1>2 DEF OwnInv
      <4>2. Matches(c)'
        BY <4>1 DEF LogMatchesIndex
      <4>3. file' \o buf' = file'
        BY <1>1, <2>3
      <4> QED BY <3>1, <4>2, <4>3 DEF Matches
    <3> QED BY <3>1 DEF Finds
  <2>5. Finds(snap, file', c, since'["flush"][c])
    BY <1>3, <2>2, <2>4 DEF Levels
  <2>6. CASE synced' = synced /\ Settle({"flush"}, pend')
    <3>1. since'["sync"][c] = since["sync"][c]
      BY <2>6 DEF Settle
    <3> QED BY <2>2, <2>5, <2>6, <3>1
  <2>7. CASE synced' = Len(file')
    <3>1. \A n \in synced'..Len(file') : n = Len(file')
      <4>1. \A m \in Nat : \A n \in m..m : n = m
        OBVIOUS
      <4> QED BY <2>3, <2>7, <4>1
    <3>2. Len(file') \in synced..Len(file')
      BY <2>3
    <3>3. Finds(snap, file', c, since["sync"][c])
      BY <2>2, <2>3, <3>2
    <3>4. Finds(snap, file', c, since'["sync"][c])
      BY <1>3, <2>4, <3>3 DEF Levels
    <3> QED BY <2>3, <2>5, <3>1, <3>4
  <2> QED BY <2>6, <2>7
<1> QED BY <1>2, <1>4, <1>5 DEF RecoveryInv

(* A step that leaves files, queue, threads and values alone.              *)
LEMMA QuietRecovers ==
    ASSUME RecoveryInv, UNCHANGED <<mode, pend, buf, file, synced, snap, since, owed>>,
           excused \subseteq excused',
           \A c \in Codes : /\ Value(index'[c]) = Value(index[c])
                            /\ Own(c) => Own(c)'
    PROVE  RecoveryInv'
<1>1. OwnInv'
  BY DEF RecoveryInv, OwnInv
<1>2. HeldInv'
  BY DEF RecoveryInv, HeldInv
<1>3. FilesInv'
  BY DEF RecoveryInv, FilesInv
<1> QED BY <1>1, <1>2, <1>3 DEF RecoveryInv

LEMMA NextRecovers ==
    ASSUME StoreInv, StoreInv', RecoveryInv, [Next]_vars
    PROVE  RecoveryInv'
<1>i. /\ TypeInv /\ GateInv /\ DownInv /\ SnapInv /\ LoadInv
      /\ TypeInv' /\ LogMatchesIndex'
  BY DEF StoreInv
<1>r. OwnInv /\ HeldInv /\ FilesInv
  BY DEF RecoveryInv
<1>t. /\ pc \in [Threads -> {"idle", "push", "append", "bulk", "bump"}]
      /\ fpc \in [Flushers -> {"idle", "write"}]
      /\ index \in [Codes -> Entries \cup {None}]
      /\ pend \in [Threads -> Seq(RowLines \cup DelLines)]
      /\ \A s \in Threads : pend[s] \in Seq(Lines)
      /\ file \in Seq(Lines) /\ buf \in Seq(Lines)
      /\ synced \in 0..Len(file) /\ Len(file) \in Nat
      /\ since \in [Levels -> [Codes -> SUBSET Values]]
  <2>1. pend \in [Threads -> Seq(RowLines \cup DelLines)]
    BY <1>i DEF TypeInv, TypeOK
  <2> QED BY <1>i, <2>1, SubLines DEF TypeInv, TypeOK, Levels
<1>b. \A c \in Codes, k \in Levels :
         /\ Gives(buf, c, since[k][c])
         /\ \A t \in Threads : Gives(pend[t], c, since[k][c])
         /\ Gives(<<>>, c, since[k][c])
  BY <1>r, GivesNothing DEF HeldInv
<1>1. ASSUME NEW t \in Threads, Shorten(t) \/ Bulk(t) \/ Update(t) \/ Remove(t)
      PROVE  RecoveryInv'
  BY <1>1, <1>i, MutationWrites, WriteRecovers DEF Mutates
<1>2. ASSUME NEW t \in Threads, Push(t) \/ Queue(t) PROVE RecoveryInv'
  <2>1. mode = "up" /\ UNCHANGED <<mode, index, snap, owed>>
    BY <1>i, <1>t, <1>2 DEF Push, Queue, DownInv, memory, history
  <2>2. pend' = [pend EXCEPT ![t] = <<>>] /\ \A s \in Threads : pend'[s] \in {pend[s], <<>>}
    BY <1>t, <1>2 DEF Push, Queue
  <2>3. \A c \in Codes, k \in Levels : Gives(buf \o pend[t], c, since[k][c])
    BY <1>t, <1>b, GivesConcat
  <2>4. CASE FlushQueue(buf \o pend[t]) /\ Settle({"flush"}, pend') /\ UNCHANGED synced
    <3>1. buf \o pend[t] \in Seq(Lines)
      BY <1>t
    <3> QED BY <1>i, <2>1, <2>2, <2>3, <2>4, <3>1, FlushRecovers
  <2>5. CASE buf' = buf \o pend[t] /\ UNCHANGED <<file, synced, excused, since>>
    <3>1. HeldInv'
      <4>1. SUFFICES ASSUME NEW c \in Codes, NEW k \in Levels
                     PROVE  /\ Value(index[c]) \in since[k][c]
                            /\ Gives(buf', c, since[k][c])
                            /\ \A s \in Threads : Gives(pend'[s], c, since[k][c])
        BY <2>1, <2>5 DEF HeldInv
      <4> QED BY <1>b, <1>r, <2>1, <2>2, <2>3, <2>5 DEF HeldInv
    <3>2. OwnInv'
      BY <1>r, <2>1, <2>5 DEF OwnInv, Own
    <3>3. FilesInv'
      BY <1>r, <2>1, <2>5 DEF FilesInv
    <3> QED BY <3>1, <3>2, <3>3 DEF RecoveryInv
  <2> QED BY <1>2, <2>2, <2>4, <2>5 DEF Push, Queue, Flush, disk, history
<1>3. ASSUME UNCHANGED <<mode, index, pend, buf, file, synced, snap, since, owed>>,
             excused \subseteq excused'
      PROVE  RecoveryInv'
  BY <1>3, QuietRecovers DEF Own
<1>4. ASSUME NEW t \in Threads, Resolve(t) PROVE RecoveryInv'
  <2>1. PICK c \in Codes :
          Live(index[c]) /\ index' = [index EXCEPT ![c].h = @ + 1, ![c].oh = @ + 1]
    BY <1>4 DEF Resolve
  <2> DEFINE y == [index[c] EXCEPT !.h = @ + 1, !.oh = @ + 1]
  <2>2. index[c] \in Entries /\ index'[c] = y /\ \A d \in Codes \ {c} : index'[d] = index[d]
    BY <1>t, <2>1 DEF Live
  <2>3. y \in Entries /\ Value(y) = Value(index[c]) /\ y.i = index[c].i
    <3> DEFINE x == index[c]
               a == x.h + 1
               b == x.oh + 1
    <3>1. x \in Entries /\ a \in Nat /\ b \in Nat
      BY <2>2 DEF Entries
    <3>2. y = [x EXCEPT !.h = a, !.oh = b]
      OBVIOUS
    <3> HIDE DEF x, y, a, b
    <3>3. y \in Entries /\ y.u = x.u /\ y.e = x.e /\ y.i = x.i
      BY <3>1, <3>2 DEF Entries
    <3>4. Value(y) = Value(x)
      BY <3>1, <3>3, SameLink
    <3> QED BY <3>3, <3>4 DEF x
  <2> HIDE DEF y
  <2>4. \A d \in Codes : Value(index'[d]) = Value(index[d]) /\ (Own(d) => Own(d)')
    BY <2>2, <2>3, NoneAssumption DEF Own
  <2>5. UNCHANGED <<mode, pend, buf, file, synced, snap, since, owed, excused>>
    BY <1>4 DEF Resolve, disk, history
  <2> QED BY <2>4, <2>5, QuietRecovers
<1>5. ASSUME NEW t \in Threads, Bump(t) PROVE RecoveryInv'
  BY <1>3, <1>5 DEF Bump, disk, history
<1>6. ASSUME NEW f \in Flushers, Drain(f) PROVE RecoveryInv'
  BY <1>3, <1>6 DEF Drain, disk, history
<1>7. ASSUME \/ Tick \/ CompactStart \/ CompactSnap \/ CompactSnapFail \/ Signal \/ DropHandle
             \/ UNCHANGED vars
      PROVE  RecoveryInv'
  BY <1>3, <1>7 DEF Tick, CompactStart, CompactSnap, CompactSnapFail, Signal, DropHandle, vars,
                    memory, workers, disk, history
<1>8. ASSUME NEW f \in Flushers, FlushWrite(f) PROVE RecoveryInv'
  <2>1. mode = "up" /\ drained[f] \in Seq(HitLines)
    BY <1>i, <1>t, <1>8 DEF FlushWrite, DownInv, TypeInv, TypeOK
  <2>2. /\ FlushQueue(buf \o drained[f]) /\ Settle({"flush"}, pend') /\ synced' = synced
        /\ UNCHANGED <<mode, index, snap, pend>>
    BY <1>8 DEF FlushWrite, Flush, memory, Settle
  <2>3. drained[f] \in Seq(Lines) /\ buf \o drained[f] \in Seq(Lines)
    BY <1>t, <2>1, SubLines
  <2>4. \A c, V : Gives(drained[f], c, V)
    <3>1. \A k \in 1..Len(drained[f]) : drained[f][k] \in HitLines
      BY <2>1
    <3> QED BY <3>1 DEF Gives, Sets, HitLines
  <2>5. \A c \in Codes, k \in Levels : Gives(buf \o drained[f], c, since[k][c])
    BY <1>b, <1>t, <2>3, <2>4, GivesConcat
  <2> QED BY <1>i, <2>1, <2>2, <2>3, <2>5, FlushRecovers
<1>9. ASSUME Fsync \/ CloseSync PROVE RecoveryInv'
  <2>1. mode = "up"
    BY <1>i, <1>9 DEF Fsync, CloseSync, DownInv
  <2>2. /\ FlushQueue(buf) /\ Settle({"flush", "sync"}, pend') /\ synced' = Len(file')
        /\ UNCHANGED <<mode, index, snap, pend>>
    BY <1>9 DEF Fsync, CloseSync, Sync, memory, workers
  <2> QED BY <1>b, <1>i, <1>t, <2>1, <2>2, FlushRecovers
<1>c. ASSUME cpc \in {"rename", "trunc"}
      PROVE  mode = "up" /\ \A c \in Codes \ excused : Own(c)
  BY <1>c, <1>i, <1>r DEF DownInv, OwnInv
<1>10. ASSUME CompactRename PROVE RecoveryInv'
  <2>0. cpc = "rename" /\ UNCHANGED <<mode, index, pend, buf, file, synced, since, owed>>
    BY <1>10 DEF CompactRename, memory, disk
  <2>1. CASE UNCHANGED snap /\ excused \subseteq excused'
    BY <1>3, <2>0, <2>1
  <2>2. CASE snap' = tmp /\ UNCHANGED excused
    <3>1. ASSUME NEW c \in Codes \ excused, NEW V, Value(index[c]) \in V,
                 NEW s, Finds(snap, s, c, V)
          PROVE  Finds(tmp, s, c, V)
      <4>1. Value(tmp[c]) = Value(index[c])
        BY <1>c, <1>i, <2>0, <3>1 DEF SnapInv
      <4> QED BY <3>1, <4>1 DEF Finds, Determines
    <3>2. \A c \in Codes : /\ Value(index[c]) \in since["flush"][c]
                           /\ Value(index[c]) \in since["sync"][c]
      BY <1>c, <1>r, <2>0 DEF HeldInv, Levels
    <3>3. mode = "up"
      BY <1>c, <2>0
    <3>4. FilesInv'
      <4>1. SUFFICES ASSUME NEW c \in Codes \ excused
                     PROVE  /\ Finds(tmp, file, c, since["flush"][c])
                            /\ \A n \in synced..Len(file) :
                                  Finds(tmp, SubSeq(file, 1, n), c, since["sync"][c])
        BY <2>0, <2>2, <3>3 DEF FilesInv
      <4>2. /\ Finds(snap, file, c, since["flush"][c])
            /\ \A n \in synced..Len(file) : Finds(snap, SubSeq(file, 1, n), c, since["sync"][c])
        BY <1>r, <3>3 DEF FilesInv
      <4> QED BY <3>1, <3>2, <4>2
    <3>5. OwnInv' /\ HeldInv'
      BY <1>r, <2>0, <2>2 DEF OwnInv, Own, HeldInv
    <3> QED BY <3>4, <3>5 DEF RecoveryInv
  <2> QED BY <1>10, <2>1, <2>2 DEF CompactRename
<1>11. ASSUME CompactTrunc PROVE RecoveryInv'
  <2>0. cpc = "trunc" /\ UNCHANGED <<mode, index, pend, snap, owed>> /\ mode = "up"
    BY <1>11, <1>c DEF CompactTrunc, memory
  <2>1. CASE Flush(buf, pend)
    BY <1>b, <1>i, <1>t, <2>0, <2>1, FlushRecovers DEF Flush
  <2>2. CASE file' = <<>> /\ synced' = 0 /\ buf' = <<>> /\ UNCHANGED <<excused, since>>
    <3>1. OwnInv' /\ HeldInv'
      BY <1>b, <1>r, <2>0, <2>2 DEF OwnInv, Own, HeldInv
    <3>2. ASSUME NEW c \in Codes \ excused
          PROVE  \A k \in Levels : Finds(snap, <<>>, c, since[k][c])
      <4>1. Value(snap[c]) = Value(index[c])
        BY <1>c, <1>i, <2>0, <3>2 DEF SnapInv
      <4>2. \A k \in Levels : Value(index[c]) \in since[k][c]
        BY <1>r, <2>0 DEF HeldInv
      <4> QED BY <4>1, <4>2, GivesNothing DEF Finds, Determines
    <3>3. Len(file') = 0 /\ \A n \in 0..0 : SubSeq(<<>>, 1, n) = <<>>
      BY <2>2
    <3>4. FilesInv'
      BY <2>0, <2>2, <3>2, <3>3 DEF FilesInv, Levels
    <3> QED BY <3>1, <3>4 DEF RecoveryInv
  <2> QED BY <1>11, <2>1, <2>2 DEF CompactTrunc
<1>12. ASSUME Stopped PROVE OwnInv' /\ HeldInv'
  BY <1>12, GivesNothing DEF Stopped, OwnInv, HeldInv
<1>13. ASSUME Exit \/ Kill PROVE RecoveryInv'
  <2>1. /\ Stopped /\ UNCHANGED <<file, synced, snap, excused, since>> /\ mode' = "down"
        /\ owed' = IF mode = "up" THEN since["flush"] ELSE owed
    BY <1>13 DEF Exit, Kill, Stopped, disk
  <2>2. FilesInv'
    BY <1>r, <2>1 DEF FilesInv
  <2> QED BY <1>12, <2>1, <2>2 DEF RecoveryInv
<1>14. ASSUME PowerLoss PROVE RecoveryInv'
  <2>1. PICK n \in synced..Len(file) : file' = SubSeq(file, 1, n) /\ synced' = n
    BY <1>14 DEF PowerLoss
  <2>2. /\ Stopped /\ UNCHANGED <<snap, excused, since>> /\ mode' = "down"
        /\ owed' = since["sync"]
    BY <1>14 DEF PowerLoss, Stopped
  <2>3. Len(file') = n /\ SubSeq(file', 1, n) = file' /\ \A m \in n..n : m = n
    BY <1>t, <2>1
  <2>4. FilesInv'
    <3>1. SUFFICES ASSUME NEW c \in Codes \ excused
                   PROVE  Finds(snap, file', c, since["sync"][c])
      BY <2>1, <2>2, <2>3 DEF FilesInv
    <3> QED BY <1>r, <2>1 DEF FilesInv
  <2> QED BY <1>12, <2>2, <2>4 DEF RecoveryInv
<1>15. ASSUME Boot \/ LoadLine PROVE RecoveryInv'
  <2>1. /\ mode # "up" /\ mode' # "up"
        /\ UNCHANGED <<pend, buf, file, synced, snap, excused, since, owed>>
    BY <1>15 DEF Boot, LoadLine, workers, disk, history
  <2> QED BY <1>r, <2>1 DEF RecoveryInv, OwnInv, HeldInv, FilesInv
<1>16. ASSUME Loaded PROVE RecoveryInv'
  <2>1. /\ mode = "load" /\ mode' = "up" /\ replayed = Len(file)
        /\ UNCHANGED <<index, pend, buf, file, synced, snap, owed>>
        /\ excused' = (IF synced = Len(file) THEN {} ELSE excused) \cup {c \in Codes : ~Own(c)}
        /\ \A c \in Codes : /\ since'["flush"][c] = {Value(index[c])}
                            /\ since'["sync"][c] = since["sync"][c] \cup {Value(index[c])}
    BY <1>16 DEF Loaded, memory, workers, disk
  <2>2. OwnInv'
    BY <2>1 DEF OwnInv, Own
  <2>3. \A t \in Threads : pend[t] = <<>>
    BY <1>i, <2>1 DEF TypeInv, ThreadInv, DownInv
  <2>4. HeldInv'
    <3>1. buf = <<>>
      BY <1>i, <2>1 DEF DownInv
    <3> QED BY <2>1, <2>3, <3>1, GivesNothing DEF HeldInv, Levels
  <2>5. \A c \in Codes : Determines(snap, file, c, Value(index[c]))
    <3>1. SubSeq(file, 1, Len(file)) = file
      BY <1>t
    <3> QED BY <1>i, <2>1, <3>1 DEF LoadInv
  <2>6. FilesInv'
    <3>1. SUFFICES ASSUME NEW c \in Codes \ excused'
                   PROVE  /\ Finds(snap, file, c, since'["flush"][c])
                          /\ \A n \in synced..Len(file) :
                                Finds(snap, SubSeq(file, 1, n), c, since'["sync"][c])
      <4>1. UNCHANGED <<file, synced, snap>> /\ mode' = "up"
        BY <2>1
      <4> QED BY <4>1 DEF FilesInv
    <3>2. /\ since["sync"][c] \subseteq since'["sync"][c]
          /\ Value(index[c]) \in since'["flush"][c] /\ Value(index[c]) \in since'["sync"][c]
      BY <2>1
    <3>3. Finds(snap, file, c, since'["flush"][c])
      BY <2>5, <3>2 DEF Finds
    <3>4. ASSUME NEW n \in synced..Len(file)
          PROVE  Finds(snap, SubSeq(file, 1, n), c, since'["sync"][c])
      <4>1. CASE c \notin excused
        <5>1. Finds(snap, SubSeq(file, 1, n), c, since["sync"][c])
          BY <1>r, <4>1 DEF FilesInv
        <5> QED BY <3>2, <5>1, FindsWider
      <4>2. CASE c \in excused
        <5>1. synced = Len(file)
          BY <2>1, <4>2
        <5>2. SubSeq(file, 1, n) = file
          BY <1>t, <5>1
        <5>3. Determines(snap, SubSeq(file, 1, n), c, Value(index[c]))
          BY <2>5, <5>2
        <5> QED BY <3>2, <5>3 DEF Finds
      <4> QED BY <4>1, <4>2
    <3> QED BY <3>3, <3>4
  <2> QED BY <2>2, <2>4, <2>6 DEF RecoveryInv
<1> QED
  BY <1>1, <1>2, <1>4, <1>5, <1>6, <1>7, <1>8, <1>9, <1>10, <1>11, <1>13, <1>14, <1>15, <1>16
  DEF Next, ThreadStep, CompactStep

(* The store's whole invariant.                                            *)
LEMMA StoreInvHolds == Spec => [](StoreInv /\ RecoveryInv)
<1>1. StoreInv /\ [Next]_vars => StoreInv'
  BY NextType, NextGate, NextStore DEF StoreInv
<1>2. StoreInv /\ StoreInv' /\ RecoveryInv /\ [Next]_vars => RecoveryInv'
  BY NextRecovers
<1> QED BY InitStore, InitRecovery, <1>1, <1>2, PTL DEF Spec

LEMMA LoadedSound ==
    ASSUME StoreInv, RecoveryInv, Loaded, NEW c \in Codes \ excused
    PROVE  Value(index[c]) \in owed[c]
<1>1. /\ file \in Seq(Lines) /\ SubSeq(file, 1, Len(file)) = file
      /\ mode = "load" /\ replayed = Len(file)
  BY DEF StoreInv, TypeInv, TypeOK, Loaded
<1>2. Determines(snap, file, c, Value(index[c]))
  BY <1>1 DEF StoreInv, LoadInv
<1>3. PICK v \in owed[c] : Determines(snap, file, c, v)
  BY <1>1 DEF RecoveryInv, FilesInv, Finds
<1> QED BY <1>1, <1>2, <1>3, DeterminesOne

(* For every number of threads, codes, crashes and faults: what a restart  *)
(* finds for a code is a value it had at or after the last flush, if the   *)
(* process died, or the last fsync, if the machine did, but for the codes  *)
(* that two writers raced on or that an injected fault disturbed.          *)
THEOREM RecoveryIsSound == Spec => RecoverySound
<1>1. StoreInv /\ RecoveryInv
        => [Loaded => \A c \in Codes \ excused : Value(index[c]) \in owed[c]]_vars
  BY LoadedSound
<1> QED BY StoreInvHolds, <1>1, PTL DEF RecoverySound

-----------------------------------------------------------------------------
(* The refinement of DurableMap.                                           *)

LEMMA InitImplements == Init => Map!MapInit
<1> SUFFICES ASSUME Init PROVE Map!MapInit
  OBVIOUS
<1>1. [c \in Codes |-> Value(index[c])] = [c \in Codes |-> None]
  BY DEF Init, Nothing, Value
<1> QED BY <1>1 DEF Init, Map!MapInit, Map!Empty, Map!Levels

(* Steps that change no value, and leave the promise alone.                *)
LEMMA StutterImplements ==
    ASSUME \A c \in Codes : Value(index'[c]) = Value(index[c]),
           UNCHANGED <<mode, since, owed>>
    PROVE  UNCHANGED Map!mapVars
BY DEF Map!mapVars, Nothing

LEMMA WriteImplements ==
    ASSUME TypeInv, TypeInv', NEW t \in Threads, Mutates(t)
    PROVE  Map!MapNext
<1>1. PICK c \in Codes, x \in Entries \cup {None}, l \in RowLines \cup DelLines : Write(t, c, x, l)
  BY DEF Mutates
<1>2. /\ mode = "up" /\ mode' = "up" /\ owed' = owed
      /\ index' = [index EXCEPT ![c] = x]
      /\ since' = [k \in {"flush", "sync"} |-> [since[k] EXCEPT ![c] = @ \cup {Value(x)}]]
      /\ index \in [Codes -> Entries \cup {None}]
  BY <1>1 DEF Write, Mutates, TypeInv, TypeOK
<1> DEFINE m == [d \in Codes |-> Value(index[d])]
           n == [d \in Codes |-> Value(index'[d])]
<1>3. n \in [Codes -> Values] /\ n[c] = Value(x) /\ \A d \in Codes \ {c} : n[d] = m[d]
  <2>1. \A d \in Codes : index'[d] \in Entries \cup {None}
    BY DEF TypeInv, TypeOK
  <2> QED BY <1>2, <2>1, ValueType
<1> HIDE DEF m, n
<1>4. (IF mode = "up" THEN [d \in Codes |-> Value(index[d])] ELSE Nothing) = m
  BY <1>2 DEF m
<1>5. (IF mode' = "up" THEN [d \in Codes |-> Value(index'[d])] ELSE Nothing) = n
  BY <1>2 DEF n
<1>6. Map!Put(c)
  BY <1>2, <1>3, <1>4, <1>5 DEF Map!Put, Map!Levels
<1> QED BY <1>6 DEF Map!MapNext

(* A flush or an fsync secures the codes no thread is still to queue.      *)
LEMMA SettleImplements ==
    ASSUME mode = "up", UNCHANGED <<mode, index, owed>>, NEW p,
           NEW kinds \in SUBSET {"flush", "sync"}, Settle(kinds, p)
    PROVE  Map!MapNext
<1> DEFINE m == [d \in Codes |-> Value(index[d])]
           covered == {c \in Codes : ~InFlight(p, c)}
<1>1. \A c \in Codes : m[c] = Value(index[c])
  OBVIOUS
<1>2. since' = [k \in {"flush", "sync"} |->
                   [c \in Codes |-> IF k \in kinds /\ c \in covered THEN {m[c]} ELSE since[k][c]]]
  BY DEF Settle
<1>3. (IF mode = "up" THEN [d \in Codes |-> Value(index[d])] ELSE Nothing) = m
  OBVIOUS
<1>4. (IF mode' = "up" THEN [d \in Codes |-> Value(index'[d])] ELSE Nothing) = m
  OBVIOUS
<1>5. covered \in SUBSET Codes
  OBVIOUS
<1> HIDE DEF m, covered
<1>6. Map!Secure(kinds, covered)
  BY <1>2, <1>3, <1>4 DEF Map!Secure, Map!Levels
<1> QED BY <1>5, <1>6 DEF Map!MapNext, Map!Levels

LEMMA NextImplements ==
    ASSUME StoreInv, StoreInv', RecoveryInv, excused = {}, [Next]_vars
    PROVE  [Map!MapNext]_(Map!mapVars)
<1>i. TypeInv /\ TypeInv' /\ GateInv /\ DownInv
  BY DEF StoreInv
<1>t. /\ pc \in [Threads -> {"idle", "push", "append", "bulk", "bump"}]
      /\ fpc \in [Flushers -> {"idle", "write"}]
      /\ index \in [Codes -> Entries \cup {None}]
  BY <1>i DEF TypeInv, TypeOK
<1>1. ASSUME NEW t \in Threads, Shorten(t) \/ Bulk(t) \/ Update(t) \/ Remove(t)
      PROVE  Map!MapNext
  BY <1>1, <1>i, MutationWrites, WriteImplements
<1>2. ASSUME NEW t \in Threads, Push(t) PROVE [Map!MapNext]_(Map!mapVars)
  <2>1. mode = "up" /\ UNCHANGED <<mode, index, owed>>
    BY <1>2, <1>i, <1>t DEF Push, DownInv, memory
  <2>2. CASE Settle({"flush"}, pend')
    BY <2>1, <2>2, SettleImplements
  <2>3. CASE UNCHANGED since
    BY <2>1, <2>3, StutterImplements
  <2> QED BY <1>2, <2>2, <2>3 DEF Push, Flush
<1>3. ASSUME NEW f \in Flushers, FlushWrite(f) PROVE Map!MapNext
  <2>1. mode = "up" /\ UNCHANGED <<mode, index, owed>> /\ Settle({"flush"}, pend)
    BY <1>3, <1>i, <1>t DEF FlushWrite, DownInv, memory, Flush
  <2> QED BY <2>1, SettleImplements
<1>4. ASSUME Fsync \/ CloseSync PROVE Map!MapNext
  <2>1. mode = "up" /\ UNCHANGED <<mode, index, owed>> /\ Settle({"flush", "sync"}, pend)
    BY <1>4, <1>i DEF Fsync, CloseSync, DownInv, memory, Sync
  <2> QED BY <2>1, SettleImplements
<1>5. ASSUME CompactTrunc PROVE [Map!MapNext]_(Map!mapVars)
  <2>1. mode = "up" /\ UNCHANGED <<mode, index, owed>>
    BY <1>5, <1>i DEF CompactTrunc, DownInv, memory
  <2>2. CASE Settle({"flush"}, pend)
    BY <2>1, <2>2, SettleImplements
  <2>3. CASE UNCHANGED since
    BY <2>1, <2>3, StutterImplements
  <2> QED BY <1>5, <2>2, <2>3 DEF CompactTrunc, Flush
<1>6. ASSUME NEW t \in Threads, Resolve(t) PROVE UNCHANGED Map!mapVars
  <2>1. PICK c \in Codes :
          Live(index[c]) /\ index' = [index EXCEPT ![c].h = @ + 1, ![c].oh = @ + 1]
    BY <1>6 DEF Resolve
  <2> DEFINE y == [index[c] EXCEPT !.h = @ + 1, !.oh = @ + 1]
  <2>2. index[c] \in Entries /\ index'[c] = y /\ \A d \in Codes \ {c} : index'[d] = index[d]
    BY <1>t, <2>1 DEF Live
  <2>3. Value(y) = Value(index[c])
    <3> DEFINE x == index[c]
               a == x.h + 1
               b == x.oh + 1
    <3>1. x \in Entries /\ a \in Nat /\ b \in Nat
      BY <2>2 DEF Entries
    <3>2. y = [x EXCEPT !.h = a, !.oh = b]
      OBVIOUS
    <3> HIDE DEF x, y, a, b
    <3>3. y \in Entries /\ y.u = x.u /\ y.e = x.e /\ y.i = x.i
      BY <3>1, <3>2 DEF Entries
    <3>4. Value(y) = Value(x)
      BY <3>1, <3>3, SameLink
    <3> QED BY <3>3, <3>4 DEF x
  <2> HIDE DEF y
  <2>4. UNCHANGED <<mode, since, owed>>
    BY <1>6 DEF Resolve, history
  <2> QED BY <2>2, <2>3, <2>4, StutterImplements
<1>7. ASSUME UNCHANGED <<mode, index, since, owed>> PROVE UNCHANGED Map!mapVars
  BY <1>7, StutterImplements
<1>8. ASSUME NEW t \in Threads, Queue(t) \/ Bump(t) PROVE UNCHANGED Map!mapVars
  BY <1>7, <1>8 DEF Queue, Bump, memory, history
<1>9. ASSUME NEW f \in Flushers, Drain(f) PROVE UNCHANGED Map!mapVars
  BY <1>7, <1>9 DEF Drain, history
<1>10. ASSUME \/ Tick \/ CompactStart \/ CompactSnap \/ CompactSnapFail \/ CompactRename
              \/ Signal \/ DropHandle \/ UNCHANGED vars
       PROVE  UNCHANGED Map!mapVars
  BY <1>7, <1>10 DEF Tick, CompactStart, CompactSnap, CompactSnapFail, CompactRename, Signal,
                     DropHandle, vars, memory, history
<1>11. ASSUME NEW level \in {"flush", "sync"}, mode = "up" \/ level = "sync", Stopped,
              owed' = since[level]
       PROVE  Map!MapNext
  <2>1. Map!Halt(level)
    BY <1>11 DEF Stopped, Map!Halt, Map!Empty, Nothing
  <2> QED BY <2>1 DEF Map!MapNext, Map!Levels
<1>12. ASSUME Exit \/ (Kill /\ mode = "up") \/ PowerLoss PROVE Map!MapNext
  BY <1>11, <1>12 DEF Exit, Kill, PowerLoss
<1>13. ASSUME mode # "up", mode' # "up", UNCHANGED <<since, owed>> PROVE UNCHANGED Map!mapVars
  BY <1>13 DEF Map!mapVars, Nothing
<1>14. ASSUME (Kill /\ mode # "up") \/ Boot \/ LoadLine PROVE UNCHANGED Map!mapVars
  BY <1>13, <1>14 DEF Kill, Stopped, Boot, LoadLine, history
<1>15. ASSUME Loaded PROVE Map!MapNext
  <2>1. /\ mode = "load" /\ mode' = "up" /\ UNCHANGED <<index, owed>>
        /\ since' = [flush |-> [c \in Codes |-> {Value(index[c])}],
                     sync  |-> [c \in Codes |-> since["sync"][c] \cup {Value(index[c])}]]
    BY <1>15 DEF Loaded, memory
  <2> DEFINE m == [d \in Codes |-> Value(index[d])]
  <2>2. m \in [Codes -> Values] /\ \A c \in Codes : m[c] = Value(index[c])
    BY <1>t, ValueType
  <2>3. \A c \in Codes : m[c] \in owed[c]
    BY <1>15, <2>2, LoadedSound
  <2>4. since' = [k \in {"flush", "sync"} |->
                     [c \in Codes |-> IF k = "flush" THEN {m[c]} ELSE since[k][c] \cup {m[c]}]]
    <3> DEFINE f == [c \in Codes |-> {m[c]}]
               g == [c \in Codes |-> since["sync"][c] \cup {m[c]}]
               h == [k \in {"flush", "sync"} |->
                       [c \in Codes |-> IF k = "flush" THEN {m[c]} ELSE since[k][c] \cup {m[c]}]]
    <3>1. since' = [flush |-> f, sync |-> g]
      BY <2>1, <2>2
    <3>2. /\ h["flush"] = f /\ h["sync"] = g
          /\ DOMAIN h = {"flush", "sync"} /\ h = [k \in DOMAIN h |-> h[k]]
      OBVIOUS
    <3> HIDE DEF f, g, h
    <3>3. h = [flush |-> f, sync |-> g]
      BY <3>2
    <3> QED BY <3>1, <3>3 DEF h
  <2>5. (IF mode' = "up" THEN [d \in Codes |-> Value(index'[d])] ELSE Nothing) = m
    BY <2>1
  <2> HIDE DEF m
  <2>6. Map!Recover
    BY <2>1, <2>2, <2>3, <2>4, <2>5 DEF Map!Recover, Map!Levels
  <2> QED BY <2>6 DEF Map!MapNext
<1> QED
  BY <1>1, <1>2, <1>3, <1>4, <1>5, <1>6, <1>8, <1>9, <1>10, <1>12, <1>14, <1>15
  DEF Next, ThreadStep, CompactStep

(* As long as no race and no injected fault disturbs a code's log, the     *)
(* engine implements the durable map: with any number of threads, timers,  *)
(* compactions and crashes.                                                *)
THEOREM UndisturbedImplements == Spec /\ [](excused = {}) => ImplementsMap
<1>1. StoreInv /\ StoreInv' /\ RecoveryInv /\ excused = {} /\ [Next]_vars
        => [Map!MapNext]_(Map!mapVars)
  BY NextImplements
<1> QED BY StoreInvHolds, InitImplements, <1>1, PTL DEF Spec, ImplementsMap, Map!MapSpec

-----------------------------------------------------------------------------
(* When nothing is excused.                                                *)

(* No write is cut short and no snapshot fails, and two writers cannot     *)
(* meet on a code: there is one thread, or codes are only created.         *)
Calm ==
    /\ Faults \cap {"tear", "diskfull", "snapfail"} = {}
    /\ (\A s, t \in Threads : s = t) \/ Ops \cap {"update", "remove"} = {}

Mine(l)  == l \in RowLines => l.i = Me
MineAll(s) == \A k \in 1..Len(s) : Mine(s[k])

(* All rows anywhere are this instance's, and a code whose creation is not *)
(* yet logged is there.                                                    *)
CalmInv ==
    /\ excused = {} /\ torn = None
    /\ \A c \in Codes : Own(c) /\ Mine(snap[c]) /\ Mine(tmp[c])
    /\ MineAll(file) /\ MineAll(buf) /\ \A t \in Threads : MineAll(pend[t])
    /\ Ops \cap {"update", "remove"} = {} =>
          \A t \in Threads, c \in Codes : Touches(pend[t], c) => index[c] # None

LEMMA MineConcat ==
    ASSUME NEW s \in Seq(Lines), NEW t \in Seq(Lines), MineAll(s), MineAll(t)
    PROVE  MineAll(s \o t)
<1>1. ASSUME NEW k \in 1..Len(s \o t) PROVE Mine((s \o t)[k])
  <2>1. CASE k <= Len(s)
    <3>1. k \in 1..Len(s) /\ (s \o t)[k] = s[k]
      BY <2>1
    <3> QED BY <3>1 DEF MineAll
  <2>2. CASE k > Len(s)
    <3>1. k - Len(s) \in 1..Len(t) /\ (s \o t)[k] = t[k - Len(s)]
      BY <2>2
    <3> QED BY <3>1 DEF MineAll
  <2> QED BY <2>1, <2>2
<1> QED BY <1>1 DEF MineAll

(* A full disk aside, a queue behind a complete line is written as it is.  *)
LEMMA CalmFlush ==
    ASSUME Calm, CalmInv, file \in Seq(Lines), NEW q \in Seq(Lines), MineAll(q), FlushQueue(q)
    PROVE  /\ excused' = {} /\ torn' = None
           /\ MineAll(file') /\ MineAll(buf')
<1>1. PICK w \in Writes(q) : /\ file' = file \o w.add /\ torn' = w.torn
                             /\ excused' = excused \cup w.lost
  BY DEF FlushQueue
<1>2. Glued(q) = {q}
  BY DEF CalmInv, Glued
<1>3. w \in FullWrites(q)
  BY <1>1 DEF Writes, Calm
<1>4. w.add = q /\ w.torn = None /\ w.lost = {}
  BY <1>2, <1>3 DEF FullWrites, CalmInv
<1>5. MineAll(file')
  BY <1>1, <1>4, MineConcat DEF CalmInv
<1>6. buf' = <<>> /\ MineAll(<<>>)
  BY DEF FlushQueue, MineAll
<1> QED BY <1>1, <1>4, <1>5, <1>6 DEF CalmInv

(* Folding a line gives a code the owner it had, or the line's.            *)
LEMMA ApplyOwner ==
    ASSUME NEW ix \in [Codes -> Entries \cup {None}], NEW sy \in [Codes -> Strays],
           NEW l \in Lines, Mine(l), NEW x \in Apply([index |-> ix, stray |-> sy], l, Me),
           \A c \in Codes : ix[c] = None \/ ix[c].i = Me
    PROVE  \A c \in Codes : x.index[c] = None \/ x.index[c].i = Me
<1> DEFINE st == [index |-> ix, stray |-> sy]
<1>1. CASE l \in RowLines
  <2>1. x = ApplyRow(st, l)
    BY <1>1 DEF Apply, RowLines
  <2>2. x.index = [ix EXCEPT ![l.c] = RowEntry(l, sy[l.c])]
    BY <2>1 DEF ApplyRow
  <2>3. RowEntry(l, sy[l.c]).i = Me
    BY <1>1 DEF RowEntry, Mine
  <2> QED BY <2>2, <2>3
<1>2. CASE l \in DelLines
  <2>1. x = ApplyDel(st, l)
    BY <1>2 DEF Apply, DelLines
  <2>2. x.index = [ix EXCEPT ![l.c] = None]
    BY <2>1 DEF ApplyDel
  <2> QED BY <2>2
<1>3. CASE l \in HitLines
  <2>1. CASE ix[l.c] # None
    <3>1. x = ApplyHit(st, l, Me) /\ l.c \in Codes
      BY <1>3, <2>1 DEF Apply, HitLines
    <3>2. l.d \in Nat /\ OwnPart(l, Me) \in Nat /\ ix[l.c] \in Entries
      BY <1>3, <2>1, <3>1 DEF HitLines, OwnPart
    <3> DEFINE y == [ix[l.c] EXCEPT !.h = @ + l.d, !.oh = @ + OwnPart(l, Me)]
    <3>3. y.i = ix[l.c].i
      BY <3>2 DEF Entries
    <3>4. \A c \in Codes : x.index[c] = IF c = l.c THEN y ELSE ix[c]
      BY <3>1 DEF ApplyHit
    <3> HIDE DEF y
    <3> QED BY <2>1, <3>1, <3>3, <3>4
  <2>2. CASE ix[l.c] = None
    <3>1. PICK ev \in Evictions(sy) : x = ApplyStray(st, l, Me, ev)
      BY <1>3, <2>2 DEF Apply, HitLines
    <3> QED BY <3>1 DEF ApplyStray
  <2> QED BY <2>1, <2>2
<1>4. CASE l = JunkLine
  BY <1>4 DEF Apply, JunkLine
<1> QED BY <1>1, <1>2, <1>3, <1>4 DEF Lines

LEMMA NextCalm ==
    ASSUME Calm, TypeInv, GateInv, DownInv, CalmInv, [Next]_vars
    PROVE  CalmInv'
<1>t. /\ index \in [Codes -> Entries \cup {None}]
      /\ pend \in [Threads -> Seq(RowLines \cup DelLines)]
      /\ drained \in [Flushers -> Seq(HitLines)]
      /\ \A s \in Threads : pend[s] \in Seq(Lines)
      /\ file \in Seq(Lines) /\ buf \in Seq(Lines)
  <2>1. pend \in [Threads -> Seq(RowLines \cup DelLines)]
    BY DEF TypeInv, TypeOK
  <2> QED BY <2>1, SubLines DEF TypeInv, TypeOK
<1>e. MineAll(<<>>) /\ \A c : ~Touches(<<>>, c)
  BY DEF MineAll, Touches
<1>n. Mine(None)
  BY NoneAssumption DEF Mine, Lines
<1>1. ASSUME NEW t \in Threads, Shorten(t) \/ Bulk(t) \/ Update(t) \/ Remove(t)
      PROVE  CalmInv'
  <2>1. PICK c \in Codes, x \in Entries \cup {None}, l \in RowLines \cup DelLines :
          /\ Write(t, c, x, l) /\ l.c = c
          /\ x = None \/ x.i = Me
          /\ l \in RowLines => l.i = Me
          /\ Ops \cap {"update", "remove"} = {} => index[c] = None /\ x # None
    BY <1>1, MutationWrites DEF Mutates
  <2>2. ~ \E s \in Threads \ {t} : Touches(pend[s], c)
    BY <2>1 DEF Calm, CalmInv
  <2>3. /\ excused' = {} /\ UNCHANGED <<torn, snap, tmp, file, buf>>
        /\ index' = [index EXCEPT ![c] = x]
        /\ pend' = [pend EXCEPT ![t] = Append(@, l)]
    BY <2>1, <2>2 DEF Write, disk, CalmInv
  <2>4. \A d \in Codes : index'[d] = None \/ index'[d].i = Me
    BY <1>t, <2>1, <2>3 DEF CalmInv, Own
  <2>5. /\ pend'[t] = pend[t] \o <<l>> /\ <<l>> \in Seq(Lines) /\ l \in Lines
        /\ pend'[t] = Append(pend[t], l)
        /\ \A s \in Threads \ {t} : pend'[s] = pend[s]
    BY <1>t, <2>3, SubLines
  <2>6. \A s \in Threads : MineAll(pend'[s])
    <3>1. MineAll(<<l>>)
      BY <2>1 DEF MineAll, Mine
    <3>2. MineAll(pend'[t])
      BY <1>t, <2>5, <3>1, MineConcat DEF CalmInv
    <3> QED BY <2>5, <3>2 DEF CalmInv
  <2>7. ASSUME Ops \cap {"update", "remove"} = {}, NEW s \in Threads, NEW d \in Codes,
               Touches(pend'[s], d)
        PROVE  index'[d] # None
    <3>1. CASE d = c
      BY <1>t, <2>1, <2>3, <2>7, <3>1
    <3>2. CASE d # c
      <4>1. ~Sets(l, d)
        BY <2>1, <3>2 DEF Sets
      <4>2. Touches(pend[s], d)
        <5>1. Touches(Append(pend[t], l), d) <=> Touches(pend[t], d) \/ Sets(l, d)
          BY <1>t, <2>5, TouchesAppend
        <5> QED BY <2>5, <2>7, <4>1, <5>1
      <4> QED BY <1>t, <2>3, <2>7, <3>2, <4>2 DEF CalmInv
    <3> QED BY <3>1, <3>2
  <2> QED BY <2>3, <2>4, <2>6, <2>7 DEF CalmInv, Own
<1>2. ASSUME UNCHANGED <<index, snap, tmp>>, excused' = {}, torn' = None,
             MineAll(file'), MineAll(buf'), \A t \in Threads : pend'[t] \in {pend[t], <<>>}
      PROVE  CalmInv'
  BY <1>2, <1>e DEF CalmInv, Own
<1>3. ASSUME NEW t \in Threads, Push(t) \/ Queue(t) PROVE CalmInv'
  <2>1. MineAll(buf \o pend[t]) /\ buf \o pend[t] \in Seq(Lines)
    BY <1>t, MineConcat DEF CalmInv
  <2>2. UNCHANGED <<index, snap, tmp>> /\ \A s \in Threads : pend'[s] \in {pend[s], <<>>}
    BY <1>3, <1>t DEF Push, Queue, memory
  <2>3. CASE FlushQueue(buf \o pend[t])
    BY <1>2, <1>t, <2>1, <2>2, <2>3, CalmFlush
  <2>4. CASE buf' = buf \o pend[t] /\ UNCHANGED <<file, torn, excused>>
    BY <1>2, <2>1, <2>2, <2>4 DEF CalmInv
  <2> QED BY <1>3, <2>3, <2>4 DEF Push, Queue, Flush, disk, history
<1>4. ASSUME NEW f \in Flushers, FlushWrite(f) PROVE CalmInv'
  <2>1. drained[f] \in Seq(HitLines) /\ drained[f] \in Seq(Lines)
    BY <1>t, SubLines
  <2>2. MineAll(drained[f])
    <3>1. \A k \in 1..Len(drained[f]) : drained[f][k] \in HitLines
      BY <2>1
    <3> QED BY <3>1 DEF MineAll, Mine, RowLines, HitLines
  <2>3. MineAll(buf \o drained[f]) /\ buf \o drained[f] \in Seq(Lines)
    BY <1>t, <2>1, <2>2, MineConcat DEF CalmInv
  <2>4. UNCHANGED <<index, snap, tmp, pend>> /\ FlushQueue(buf \o drained[f])
    BY <1>4 DEF FlushWrite, Flush, memory
  <2> QED BY <1>2, <1>t, <2>3, <2>4, CalmFlush
<1>5. ASSUME FlushQueue(buf), UNCHANGED <<index, snap, pend>>,
             tmp' = tmp \/ tmp' = Nothing
      PROVE  CalmInv'
  <2>1. /\ excused' = {} /\ torn' = None /\ MineAll(file') /\ MineAll(buf')
    BY <1>5, <1>t, CalmFlush DEF CalmInv
  <2> QED BY <1>5, <1>n, <2>1 DEF CalmInv, Own, Nothing
<1>6. ASSUME Fsync \/ CloseSync PROVE CalmInv'
  BY <1>5, <1>6 DEF Fsync, CloseSync, Sync, memory, workers
<1>7. ASSUME CompactTrunc PROVE CalmInv'
  <2>1. UNCHANGED <<index, snap, pend>> /\ tmp' = Nothing
    BY <1>7 DEF CompactTrunc, memory
  <2>2. CASE Flush(buf, pend)
    BY <1>5, <2>1, <2>2 DEF Flush
  <2>3. CASE file' = <<>> /\ torn' = None /\ buf' = <<>> /\ UNCHANGED excused
    BY <1>e, <1>n, <2>1, <2>3 DEF CalmInv, Own, Nothing
  <2> QED BY <1>7, <2>2, <2>3 DEF CompactTrunc
<1>8. ASSUME NEW t \in Threads, Resolve(t) PROVE CalmInv'
  <2>1. PICK c \in Codes :
          Live(index[c]) /\ index' = [index EXCEPT ![c].h = @ + 1, ![c].oh = @ + 1]
    BY <1>8 DEF Resolve
  <2> DEFINE y == [index[c] EXCEPT !.h = @ + 1, !.oh = @ + 1]
  <2>2. index[c] \in Entries /\ index'[c] = y /\ \A d \in Codes \ {c} : index'[d] = index[d]
    BY <1>t, <2>1 DEF Live
  <2>3. y \in Entries /\ y.i = index[c].i
    <3> DEFINE x == index[c]
               a == x.h + 1
               b == x.oh + 1
    <3>1. x \in Entries /\ a \in Nat /\ b \in Nat
      BY <2>2 DEF Entries
    <3>2. y = [x EXCEPT !.h = a, !.oh = b]
      OBVIOUS
    <3> HIDE DEF x, y, a, b
    <3>3. y \in Entries /\ y.u = x.u /\ y.e = x.e /\ y.i = x.i
      BY <3>1, <3>2 DEF Entries
    <3>4. Value(y) = Value(x)
      BY <3>1, <3>3, SameLink
    <3> QED BY <3>3, <3>4 DEF x
  <2> HIDE DEF y
  <2>4. UNCHANGED <<excused, torn, snap, tmp, file, buf, pend>>
    BY <1>8 DEF Resolve, disk, history
  <2>5. \A d \in Codes : (Own(d) => Own(d)') /\ (index[d] # None => index'[d] # None)
    BY <2>2, <2>3, NoneAssumption DEF Own
  <2> QED BY <2>4, <2>5 DEF CalmInv
<1>9. ASSUME UNCHANGED <<index, snap, tmp, excused, torn, file, buf, pend>> PROVE CalmInv'
  BY <1>9 DEF CalmInv, Own
<1>10. ASSUME NEW t \in Threads, Bump(t) PROVE CalmInv'
  BY <1>9, <1>10 DEF Bump, disk, history
<1>11. ASSUME NEW f \in Flushers, Drain(f) PROVE CalmInv'
  BY <1>9, <1>11 DEF Drain, disk, history
<1>12. ASSUME Tick \/ CompactStart \/ Signal \/ DropHandle \/ UNCHANGED vars PROVE CalmInv'
  BY <1>9, <1>12 DEF Tick, CompactStart, Signal, DropHandle, vars, memory, workers, disk, history
<1>13. ASSUME CompactSnap PROVE CalmInv'
  <2>1. /\ tmp' = [c \in Codes |-> OwnRow(c)]
        /\ UNCHANGED <<index, snap, excused, torn, file, buf, pend>>
    BY <1>13 DEF CompactSnap, memory, disk, history
  <2>2. \A c \in Codes : Mine(tmp'[c])
    BY <1>n, <2>1 DEF OwnRow, Mine, RowLine
  <2> QED BY <2>1, <2>2 DEF CalmInv, Own
<1>14. ASSUME CompactSnapFail PROVE FALSE
  BY <1>14 DEF CompactSnapFail, Calm
<1>15. ASSUME CompactRename PROVE CalmInv'
  <2>1. snap' = tmp /\ UNCHANGED <<index, tmp, excused, torn, file, buf, pend>>
    BY <1>15 DEF CompactRename, memory, disk, Calm
  <2> QED BY <2>1 DEF CalmInv, Own
<1>16. ASSUME Exit \/ Kill \/ PowerLoss PROVE CalmInv'
  <2>1. Stopped /\ UNCHANGED <<snap, excused>>
    BY <1>16 DEF Exit, Kill, PowerLoss, Stopped
  <2>2. torn' = None /\ MineAll(file')
    <3>1. CASE UNCHANGED <<torn, file>>
      BY <3>1 DEF CalmInv
    <3>2. CASE PowerLoss
      <4>1. PICK n \in synced..Len(file) :
              file' = SubSeq(file, 1, n) /\ torn' = IF n < Len(file) THEN None ELSE torn
        BY <3>2 DEF PowerLoss, Calm
      <4>2. synced \in Nat /\ Len(file) \in Nat
        BY <1>t DEF TypeInv, TypeOK
      <4>3. Len(file') = n /\ \A k \in 1..n : file'[k] = file[k] /\ k \in 1..Len(file)
        BY <1>t, <4>1, <4>2
      <4> QED BY <4>1, <4>3 DEF CalmInv, MineAll
    <3> QED BY <1>16, <3>1, <3>2 DEF Exit, Kill, disk
  <2>3. /\ index' = Nothing /\ tmp' = Nothing /\ buf' = <<>>
        /\ \A t \in Threads : pend'[t] = <<>>
    BY <2>1 DEF Stopped
  <2> QED BY <1>e, <1>n, <2>1, <2>2, <2>3 DEF CalmInv, Own, Nothing
<1>17. ASSUME Boot PROVE CalmInv'
  <2>1. /\ index' = [c \in Codes |-> IF snap[c] = None THEN None ELSE RowEntry(snap[c], NoStray)]
        /\ UNCHANGED <<snap, tmp, excused, torn, file, buf, pend>> /\ mode = "down"
    BY <1>17 DEF Boot, workers, disk, history
  <2>2. \A c \in Codes : Own(c)'
    <3>1. ASSUME NEW c \in Codes, snap[c] # None PROVE RowEntry(snap[c], NoStray).i = Me
      <4>1. snap[c] \in RowLines /\ Mine(snap[c])
        BY <3>1 DEF TypeInv, TypeOK, CalmInv
      <4> QED BY <4>1 DEF RowEntry, Mine
    <3> QED BY <2>1, <3>1 DEF Own
  <2>3. \A t \in Threads : pend[t] = <<>>
    BY <2>1 DEF TypeInv, ThreadInv, DownInv
  <2> QED BY <1>e, <2>1, <2>2, <2>3 DEF CalmInv
<1>18. ASSUME LoadLine PROVE CalmInv'
  <2>1. /\ UNCHANGED <<snap, tmp, excused, torn, file, buf, pend>> /\ mode = "load"
        /\ replayed < Len(file) /\ replayed \in Nat /\ stray \in [Codes -> Strays]
    BY <1>18 DEF LoadLine, workers, disk, history, TypeInv, TypeOK
  <2> DEFINE l == file[replayed + 1]
  <2>2. l \in Lines /\ Mine(l)
    <3>1. replayed + 1 \in 1..Len(file)
      BY <1>t, <2>1
    <3> QED BY <1>t, <3>1 DEF CalmInv, MineAll
  <2>3. PICK st \in Apply([index |-> index, stray |-> stray], l, Me) : index' = st.index
    BY <1>18 DEF LoadLine
  <2> HIDE DEF l
  <2>4. \A c \in Codes : index'[c] = None \/ index'[c].i = Me
    BY <1>t, <2>1, <2>2, <2>3, ApplyOwner DEF CalmInv, Own
  <2>5. \A t \in Threads : pend[t] = <<>>
    BY <2>1 DEF TypeInv, ThreadInv, DownInv
  <2> QED BY <1>e, <2>1, <2>4, <2>5 DEF CalmInv, Own
<1>19. ASSUME Loaded PROVE CalmInv'
  <2>1. /\ UNCHANGED <<index, snap, tmp, torn, file, buf, pend>>
        /\ excused' = {}
    BY <1>19 DEF Loaded, memory, workers, disk, CalmInv
  <2> QED BY <2>1 DEF CalmInv, Own
<1> QED
  BY <1>1, <1>3, <1>4, <1>6, <1>7, <1>8, <1>10, <1>11, <1>12, <1>13, <1>14, <1>15, <1>16,
     <1>17, <1>18, <1>19
  DEF Next, ThreadStep, CompactStep

LEMMA InitCalm == Init => CalmInv
<1>1. MineAll(<<>>) /\ \A c : ~Touches(<<>>, c)
  BY DEF MineAll, Touches
<1>2. Mine(None)
  BY NoneAssumption DEF Mine, Lines
<1> QED BY <1>1, <1>2 DEF Init, CalmInv, Own, Nothing

(* The engine implements the durable map, whatever is killed or loses its  *)
(* power and whenever it compacts or closes, if no write is cut short, no  *)
(* snapshot fails and no two writers can meet on a code.                   *)
THEOREM CalmImplements == ASSUME Calm PROVE Spec => ImplementsMap
<1>1. Init => CalmInv
  BY InitCalm
<1>2. StoreInv /\ CalmInv /\ [Next]_vars => CalmInv'
  BY NextCalm DEF StoreInv
<1>3. CalmInv => excused = {}
  BY DEF CalmInv
<1>4. Spec => [](excused = {})
  BY StoreInvHolds, <1>1, <1>2, <1>3, PTL DEF Spec
<1> QED BY <1>4, UndisturbedImplements

-----------------------------------------------------------------------------
(* The hits.  They add up as long as nobody updates, removes or compacts,  *)
(* no write is cut short and the map of stray hits has room for every      *)
(* code.                                                                   *)
Additive ==
    /\ Faults \cap {"tear", "diskfull", "snapfail"} = {}
    /\ Ops \cap {"update", "remove"} = {}
    /\ Budget["compact"] = 0
    /\ Cardinality(Codes) < MaxStray

(* The log, with what is queued for it.                                    *)
Whole == file \o buf

(* A row without hits, or hits of this instance.                           *)
IsPlain(l) == (l.k = "row" /\ l.n = 0) \/ (l.k = "hit" /\ l.i = Me)
Plain(s) == \A k \in 1..Len(s) : IsPlain(s[k])

PlainInv ==
    /\ cpc = "idle" /\ \A c \in Codes : snap[c] = None
    /\ Plain(Whole)
    /\ \A t \in Threads : Plain(pend[t])
    /\ \A f \in Flushers : Plain(drained[f])

(* A thread counts a hit in dirty only after it counted it in the entry, a *)
(* flusher holds deltas only until it writes them, and a process that is   *)
(* down or loading has counted nothing.                                    *)
BusyInv ==
    /\ \A t \in Threads : pc[t] # "bump" <=> hot[t] = None
    /\ \A f \in Flushers : fpc[f] = "idle" => drained[f] = <<>>
    /\ mode # "up" => \A c \in Codes : dirty[c] = 0
    /\ mode = "down" => \A c \in Codes : index[c] = None /\ stray[c] = NoStray

(* A code has one row, wherever it is.                                     *)
Once(s, c) == \A j, k \in 1..Len(s) : Sets(s[j], c) /\ Sets(s[k], c) => j = k

OnceInv ==
    \A c \in Codes :
        /\ Once(Whole, c)
        /\ \A t \in Threads : Once(pend[t], c) /\ (Touches(pend[t], c) => ~Touches(Whole, c))

(* What the index shows is what the lines replayed so far record, and,     *)
(* once up, what is on its way there.                                      *)
SumInv ==
    \A c \in Codes :
        /\ mode = "up" => OwnTally(index, stray, c) = Logged(Whole, c) + HitsHeld(c)
        /\ mode = "load" => OwnTally(index, stray, c) = Logged(SubSeq(file, 1, replayed), c)

HitInv == PlainInv /\ BusyInv /\ OnceInv /\ SumInv

LEMMA LoggedType == ASSUME NEW s \in Seq(Lines), NEW c PROVE Logged(s, c) \in Nat
BY HitsFinite DEF Logged

LEMMA LoggedNothing == ASSUME NEW c PROVE Logged(<<>>, c) = 0
<1>1. HitsIn(<<>>, c) = {}
  BY HitsNone
<1> QED BY <1>1, FS_EmptySet DEF Logged

LEMMA LoggedConcat ==
    ASSUME NEW s \in Seq(Lines), NEW t \in Seq(Lines), NEW c
    PROVE  Logged(s \o t, c) = Logged(s, c) + Logged(t, c)
BY HitsConcat DEF Logged

LEMMA LoggedRows ==
    ASSUME NEW s \in Seq(RowLines \cup DelLines), NEW c
    PROVE  Logged(s, c) = 0
<1>1. \A k \in 1..Len(s) : s[k] \in RowLines \cup DelLines
  OBVIOUS
<1>2. HitsIn(s, c) = {}
  BY <1>1, HitsNone DEF Hits, RowLines, DelLines
<1> QED BY <1>2, FS_EmptySet DEF Logged

LEMMA PlainConcat ==
    ASSUME NEW s \in Seq(Lines), NEW t \in Seq(Lines), Plain(s), Plain(t)
    PROVE  Plain(s \o t)
<1>1. ASSUME NEW k \in 1..Len(s \o t) PROVE IsPlain((s \o t)[k])
  <2>1. CASE k <= Len(s)
    <3>1. k \in 1..Len(s) /\ (s \o t)[k] = s[k]
      BY <2>1
    <3> QED BY <3>1 DEF Plain
  <2>2. CASE k > Len(s)
    <3>1. k - Len(s) \in 1..Len(t) /\ (s \o t)[k] = t[k - Len(s)]
      BY <2>2
    <3> QED BY <3>1 DEF Plain
  <2> QED BY <2>1, <2>2
<1> QED BY <1>1 DEF Plain

LEMMA OnceConcat ==
    ASSUME NEW s \in Seq(Lines), NEW t \in Seq(Lines), NEW c, Once(s, c), Once(t, c),
           ~(Touches(s, c) /\ Touches(t, c))
    PROVE  Once(s \o t, c)
<1> DEFINE n == Len(s)
           u == s \o t
<1>1. /\ n \in Nat /\ Len(t) \in Nat /\ Len(u) = n + Len(t)
      /\ \A k \in 1..n : u[k] = s[k]
      /\ \A k \in 1..Len(t) : u[n + k] = t[k]
  OBVIOUS
<1> HIDE DEF n, u
<1>2. ASSUME NEW k \in 1..Len(u), Sets(u[k], c)
      PROVE  \/ k \in 1..Len(s) /\ Sets(s[k], c)
             \/ k - n \in 1..Len(t) /\ Sets(t[k - n], c) /\ k > n
  <2>1. CASE k <= n
    <3>1. k \in 1..n
      BY <1>1, <2>1
    <3> QED BY <1>1, <1>2, <3>1 DEF n
  <2>2. CASE k > n
    <3>1. k - n \in 1..Len(t) /\ n + (k - n) = k
      BY <1>1, <2>2
    <3> QED BY <1>1, <1>2, <2>2, <3>1
  <2> QED BY <1>1, <2>1, <2>2
<1>3. ASSUME NEW j \in 1..Len(u), NEW k \in 1..Len(u), Sets(u[j], c), Sets(u[k], c) PROVE j = k
  <2>1. CASE Touches(s, c)
    <3>1. j \in 1..Len(s) /\ Sets(s[j], c) /\ k \in 1..Len(s) /\ Sets(s[k], c)
      BY <1>2, <1>3, <2>1 DEF Touches
    <3> QED BY <3>1 DEF Once
  <2>2. CASE ~Touches(s, c)
    <3>1. /\ j - n \in 1..Len(t) /\ Sets(t[j - n], c)
          /\ k - n \in 1..Len(t) /\ Sets(t[k - n], c)
      BY <1>2, <1>3, <2>2 DEF Touches
    <3>2. j - n = k - n
      BY <3>1 DEF Once
    <3> QED BY <1>1, <3>2
  <2> QED BY <2>1, <2>2
<1> QED BY <1>3 DEF Once, u

LEMMA HitLinesSetNothing ==
    ASSUME NEW s \in Seq(HitLines), NEW c
    PROVE  ~Touches(s, c) /\ Once(s, c)
<1>1. \A k \in 1..Len(s) : s[k] \in HitLines
  OBVIOUS
<1> QED BY <1>1 DEF Touches, Once, Sets, HitLines

LEMMA NothingOnce == ASSUME NEW c PROVE ~Touches(<<>>, c) /\ Once(<<>>, c) /\ Plain(<<>>)
BY DEF Touches, Once, Plain

(* A queue is written as it is.                                            *)
LEMMA PlainFlush ==
    ASSUME Additive, CalmInv, NEW q \in Seq(Lines), FlushQueue(q)
    PROVE  file' = file \o q /\ buf' = <<>>
<1>1. PICK w \in Writes(q) : file' = file \o w.add
  BY DEF FlushQueue
<1>2. Glued(q) = {q}
  BY DEF CalmInv, Glued
<1>3. w \in FullWrites(q)
  BY <1>1 DEF Writes, Additive
<1>4. w.add = q
  BY <1>2, <1>3 DEF FullWrites
<1> QED BY <1>1, <1>4 DEF FlushQueue

LEMMA WholeType == ASSUME TypeInv PROVE Whole \in Seq(Lines) /\ file \in Seq(Lines) /\ buf \in Seq(Lines)
BY DEF TypeInv, TypeOK, Whole

LEMMA WholeFlush ==
    ASSUME Additive, CalmInv, TypeInv, NEW x \in Seq(Lines), FlushQueue(buf \o x)
    PROVE  Whole' = Whole \o x
<1>1. file \in Seq(Lines) /\ buf \in Seq(Lines) /\ buf \o x \in Seq(Lines)
  BY WholeType
<1>2. file' = file \o (buf \o x) /\ buf' = <<>>
  BY <1>1, PlainFlush
<1>3. file' \in Seq(Lines) /\ file' \o <<>> = file'
  BY <1>1, <1>2
<1>4. (file \o buf) \o x = file \o (buf \o x)
  BY <1>1, LogAssoc
<1> QED BY <1>2, <1>3, <1>4 DEF Whole

LEMMA AdditiveCalm == ASSUME Additive PROVE Calm
BY DEF Additive, Calm

(* What the flushers and the threads hold.                                 *)
Hands(c) ==
    Logged(drained["timer"], c) + Logged(drained["caller"], c)
    + Logged(drained["compact"], c) + Logged(drained["close"], c)
Hot(c) == Cardinality({t \in Threads : hot[t] = c})

LEMMA HitTypes ==
    ASSUME TypeInv
    PROVE  /\ index \in [Codes -> Entries \cup {None}] /\ stray \in [Codes -> Strays]
           /\ dirty \in [Codes -> Nat] /\ hot \in [Threads -> Codes \cup {None}]
           /\ pc \in [Threads -> {"idle", "push", "append", "bulk", "bump"}]
           /\ fpc \in [Flushers -> {"idle", "write"}]
           /\ pend \in [Threads -> Seq(RowLines \cup DelLines)]
           /\ \A t \in Threads : pend[t] \in Seq(Lines) /\ pend[t] \in Seq(RowLines \cup DelLines)
           /\ drained \in [Flushers -> Seq(HitLines)]
           /\ \A f \in Flushers : drained[f] \in Seq(Lines) /\ drained[f] \in Seq(HitLines)
           /\ Whole \in Seq(Lines) /\ file \in Seq(Lines) /\ buf \in Seq(Lines)
           /\ None \notin Codes
<1>1. /\ pend \in [Threads -> Seq(RowLines \cup DelLines)] /\ drained \in [Flushers -> Seq(HitLines)]
  BY DEF TypeInv, TypeOK
<1>2. \A t \in Threads : pend[t] \in Seq(RowLines \cup DelLines) /\ pend[t] \in Seq(Lines)
  BY <1>1, SubLines
<1>3. \A f \in Flushers : drained[f] \in Seq(HitLines) /\ drained[f] \in Seq(Lines)
  BY <1>1, SubLines
<1>4. Whole \in Seq(Lines) /\ file \in Seq(Lines) /\ buf \in Seq(Lines)
  BY WholeType
<1> QED BY <1>1, <1>2, <1>3, <1>4, NoneAssumption DEF TypeInv, TypeOK

LEMMA HeldParts ==
    ASSUME TypeInv, NEW c \in Codes
    PROVE  /\ HitsHeld(c) = Hands(c) + dirty[c] + Hot(c)
           /\ Hands(c) \in Nat /\ dirty[c] \in Nat /\ Hot(c) \in Nat
<1>1. \A f \in Flushers : Logged(drained[f], c) \in Nat
  BY HitTypes, LoggedType
<1>2. Hands(c) \in Nat
  BY <1>1 DEF Hands, Flushers
<1>3. dirty[c] \in Nat
  BY HitTypes
<1>4. {t \in Threads : hot[t] = c} \in SUBSET Threads
  OBVIOUS
<1>5. IsFiniteSet({t \in Threads : hot[t] = c})
  BY <1>4, StoreAssumption, FS_Subset
<1>6. Hot(c) \in Nat
  BY <1>5, FS_CardinalityType DEF Hot
<1> QED BY <1>2, <1>3, <1>6 DEF HitsHeld, Hands, Hot

LEMMA HandsChange ==
    ASSUME TypeInv, NEW f \in Flushers, NEW s \in Seq(HitLines), NEW c \in Codes,
           drained' = [drained EXCEPT ![f] = s]
    PROVE  /\ Hands(c)' + Logged(drained[f], c) = Hands(c) + Logged(s, c)
           /\ Hands(c)' \in Nat /\ Logged(s, c) \in Nat /\ Logged(drained[f], c) \in Nat
<1>0. \A g \in Flushers : Logged(drained[g], c) \in Nat
  BY HitTypes, LoggedType
<1>1. Logged(s, c) \in Nat
  <2>1. s \in Seq(Lines)
    BY SubLines
  <2> QED BY <2>1, LoggedType
<1>2. drained \in [Flushers -> Seq(HitLines)]
  BY HitTypes
<1>3. \A g \in Flushers : drained'[g] = IF g = f THEN s ELSE drained[g]
  BY <1>2
<1>4. Hands(c)' = Logged(drained'["timer"], c) + Logged(drained'["caller"], c)
                  + Logged(drained'["compact"], c) + Logged(drained'["close"], c)
  BY DEF Hands
<1>5. /\ "timer" \in Flushers /\ "caller" \in Flushers /\ "compact" \in Flushers /\ "close" \in Flushers
      /\ f \in {"timer", "caller", "compact", "close"}
  BY DEF Flushers
<1>6. CASE f = "timer"
  <2>1. /\ drained'["timer"] = s /\ drained'["caller"] = drained["caller"]
        /\ drained'["compact"] = drained["compact"] /\ drained'["close"] = drained["close"]
    BY <1>3, <1>5, <1>6
  <2> QED BY <1>0, <1>1, <1>4, <1>5, <1>6, <2>1 DEF Hands
<1>7. CASE f = "caller"
  <2>1. /\ drained'["timer"] = drained["timer"] /\ drained'["caller"] = s
        /\ drained'["compact"] = drained["compact"] /\ drained'["close"] = drained["close"]
    BY <1>3, <1>5, <1>7
  <2> QED BY <1>0, <1>1, <1>4, <1>5, <1>7, <2>1 DEF Hands
<1>8. CASE f = "compact"
  <2>1. /\ drained'["timer"] = drained["timer"] /\ drained'["caller"] = drained["caller"]
        /\ drained'["compact"] = s /\ drained'["close"] = drained["close"]
    BY <1>3, <1>5, <1>8
  <2> QED BY <1>0, <1>1, <1>4, <1>5, <1>8, <2>1 DEF Hands
<1>9. CASE f = "close"
  <2>1. /\ drained'["timer"] = drained["timer"] /\ drained'["caller"] = drained["caller"]
        /\ drained'["compact"] = drained["compact"] /\ drained'["close"] = s
    BY <1>3, <1>5, <1>9
  <2> QED BY <1>0, <1>1, <1>4, <1>5, <1>9, <2>1 DEF Hands
<1> QED BY <1>5, <1>6, <1>7, <1>8, <1>9

LEMMA HeldPrime == ASSUME NEW c PROVE HitsHeld(c)' = Hands(c)' + dirty'[c] + Hot(c)'
BY DEF HitsHeld, Hands, Hot

(* A code that is free is in no queue and in no file.                      *)
LEMMA FreeCode ==
    ASSUME Additive, StoreInv, CalmInv, HitInv, mode = "up", NEW c \in Codes, index[c] = None
    PROVE  ~Touches(Whole, c) /\ \A t \in Threads : ~Touches(pend[t], c)
<1>1. \A t \in Threads : ~Touches(pend[t], c)
  BY DEF CalmInv, Additive
<1>2. Determines(snap, Whole, c, None)
  <2>1. Matches(c) /\ ~InFlight(pend, c)
    BY <1>1 DEF StoreInv, LogMatchesIndex, CalmInv, InFlight, Own
  <2>2. Value(index[c]) = None
    BY DEF Value
  <2> QED BY <2>1, <2>2 DEF Matches, Whole
<1>3. SUFFICES ASSUME Touches(Whole, c) PROVE FALSE
  BY <1>1
<1>4. PICK k \in 1..Len(Whole) : Sets(Whole[k], c) /\ LineValue(Whole[k]) = None
  BY <1>2, <1>3 DEF Determines, EndsWith
<1>5. Whole \in Seq(Lines)
  BY HitTypes DEF StoreInv
<1>6. Whole[k] \in Lines /\ IsPlain(Whole[k])
  BY <1>5 DEF HitInv, PlainInv, Plain
<1>7. Whole[k].k = "row"
  BY <1>4, <1>6 DEF IsPlain, Sets
<1>8. Whole[k] \in RowLines
  BY <1>6, <1>7 DEF Lines, HitLines, DelLines, JunkLine
<1>9. LineValue(Whole[k]) \in AllUrls \X Nat
  BY <1>7, <1>8 DEF LineValue, RowLines
<1> QED BY <1>4, <1>9, NoneAssumption

LEMMA CreateStep ==
    ASSUME TypeInv, NEW t \in Threads, Shorten(t) \/ Bulk(t)
    PROVE  /\ mode = "up" /\ pc[t] # "bump"
           /\ \E p \in {"push", "bulk"} : pc' = [pc EXCEPT ![t] = p]
           /\ \E c \in Codes, x \in Entries, l \in RowLines :
                 /\ Write(t, c, x, l) /\ index[c] = None
                 /\ x.oh = 0 /\ l.k = "row" /\ l.n = 0 /\ l.c = c
<1>0. \A c, u, e : /\ RowLine(c, u, e, Me, 0).k = "row" /\ RowLine(c, u, e, Me, 0).n = 0
                   /\ RowLine(c, u, e, Me, 0).c = c /\ NewEntry(u, e).oh = 0
  BY DEF RowLine, NewEntry
<1>1. CASE Shorten(t)
  <2>1. PICK c \in Codes, u \in Urls, ttl \in TTLs :
          /\ index[c] = None
          /\ Write(t, c, NewEntry(u, Expiry(ttl)), RowLine(c, u, Expiry(ttl), Me, 0))
    BY <1>1 DEF Shorten
  <2>2. Expiry(ttl) \in Nat /\ u \in AllUrls /\ Me \in Nat
    BY ExpiryType, StoreAssumption DEF TypeInv, TypeOK, AllUrls
  <2>3. NewEntry(u, Expiry(ttl)) \in Entries /\ RowLine(c, u, Expiry(ttl), Me, 0) \in RowLines
    BY <2>2, LineTypes DEF NewEntry, Entries
  <2>4. mode = "up" /\ pc[t] = "idle" /\ pc' = [pc EXCEPT ![t] = "push"]
    BY <1>1 DEF Shorten
  <2> QED BY <1>0, <2>1, <2>3, <2>4
<1>2. CASE Bulk(t)
  <2>1. PICK c \in Codes, u \in Urls, ttl \in TTLs :
          LET e == IF pend[t] = <<>> THEN Expiry(ttl) ELSE pend[t][1].e
          IN  index[c] = None /\ Write(t, c, NewEntry(u, e), RowLine(c, u, e, Me, 0))
    BY <1>2 DEF Bulk
  <2> DEFINE e == IF pend[t] = <<>> THEN Expiry(ttl) ELSE pend[t][1].e
  <2>2. e \in Nat /\ u \in AllUrls /\ Me \in Nat
    <3>1. pend[t] # <<>> => pend[t] \in Seq(RowLines)
      BY <1>2 DEF Bulk, TypeInv, ThreadInv
    <3>2. pend[t] # <<>> => pend[t][1] \in RowLines
      BY <3>1
    <3> QED BY <3>2, ExpiryType, StoreAssumption DEF TypeInv, TypeOK, AllUrls, RowLines
  <2>3. NewEntry(u, e) \in Entries /\ RowLine(c, u, e, Me, 0) \in RowLines
    BY <2>2, LineTypes DEF NewEntry, Entries
  <2>4. mode = "up" /\ pc[t] # "bump" /\ pc' = [pc EXCEPT ![t] = "bulk"]
    BY <1>2 DEF Bulk
  <2> QED BY <1>0, <2>1, <2>3, <2>4
<1> QED BY <1>1, <1>2

(* A step that leaves lines, counts and programs alone.                    *)
LEMMA QuietHits ==
    ASSUME HitInv,
           UNCHANGED <<mode, index, stray, dirty, pc, pend, hot, fpc, drained, cpc, buf,
                       replayed, file, snap>>
    PROVE  HitInv'
<1>1. PlainInv'
  BY DEF HitInv, PlainInv, Whole
<1>2. BusyInv'
  BY DEF HitInv, BusyInv
<1>3. OnceInv'
  BY DEF HitInv, OnceInv, Whole
<1>4. SumInv'
  BY DEF HitInv, SumInv, Whole, HitsHeld
<1> QED BY <1>1, <1>2, <1>3, <1>4 DEF HitInv

LEMMA CreateHits ==
    ASSUME Additive, StoreInv, CalmInv, HitInv, NEW t \in Threads, Shorten(t) \/ Bulk(t)
    PROVE  HitInv'
<1>i. TypeInv /\ PlainInv /\ BusyInv /\ OnceInv /\ SumInv
  BY DEF StoreInv, HitInv
<1>s. /\ mode = "up" /\ pc[t] # "bump"
      /\ \E p \in {"push", "bulk"} : pc' = [pc EXCEPT ![t] = p]
      /\ \E c \in Codes, x \in Entries, l \in RowLines :
            /\ Write(t, c, x, l) /\ index[c] = None
            /\ x.oh = 0 /\ l.k = "row" /\ l.n = 0 /\ l.c = c
  BY <1>i, CreateStep
<1>1. PICK c \in Codes, x \in Entries, l \in RowLines :
            /\ Write(t, c, x, l) /\ index[c] = None
            /\ x.oh = 0 /\ l.k = "row" /\ l.n = 0 /\ l.c = c
  BY <1>s
<1>2. PICK p \in {"push", "bulk"} : pc' = [pc EXCEPT ![t] = p]
  BY <1>s
<1>t. /\ index \in [Codes -> Entries \cup {None}] /\ stray \in [Codes -> Strays]
      /\ pc \in [Threads -> {"idle", "push", "append", "bulk", "bump"}]
      /\ pend \in [Threads -> Seq(RowLines \cup DelLines)]
      /\ \A s \in Threads : pend[s] \in Seq(Lines) /\ pend[s] \in Seq(RowLines \cup DelLines)
      /\ Whole \in Seq(Lines)
  BY <1>i, HitTypes
<1>3. ~Touches(Whole, c) /\ \A s \in Threads : ~Touches(pend[s], c)
  BY <1>1, <1>s, FreeCode
<1>4. /\ UNCHANGED <<mode, stray, dirty, hot, fpc, drained, cpc, buf, replayed, file, snap>>
      /\ index' = [index EXCEPT ![c] = x] /\ pend' = [pend EXCEPT ![t] = Append(@, l)]
  BY <1>1 DEF Write, disk
<1>5. Whole' = Whole
  BY <1>4 DEF Whole
<1>6. /\ l \in Lines /\ <<l>> \in Seq(Lines) /\ pend'[t] = pend[t] \o <<l>>
      /\ pend'[t] = Append(pend[t], l) /\ \A s \in Threads \ {t} : pend'[s] = pend[s]
  BY <1>t, <1>4, SubLines
<1>7. /\ Plain(<<l>>) /\ \A d : Once(<<l>>, d) /\ (Touches(<<l>>, d) <=> d = c) /\ (Sets(l, d) <=> d = c)
  BY <1>1 DEF Plain, IsPlain, Once, Touches, Sets
<1>8. PlainInv'
  <2>1. Plain(pend'[t])
    BY <1>i, <1>t, <1>6, <1>7, PlainConcat DEF PlainInv
  <2> QED BY <1>i, <1>4, <1>5, <1>6, <2>1 DEF PlainInv
<1>9. BusyInv'
  <2>1. \A s \in Threads : pc'[s] = "bump" <=> pc[s] = "bump"
    BY <1>t, <1>s, <1>2
  <2> QED BY <1>i, <1>4, <1>s, <2>1 DEF BusyInv
<1>10. OnceInv'
  <2>1. SUFFICES ASSUME NEW d \in Codes, NEW s \in Threads
                 PROVE  Once(pend'[s], d) /\ (Touches(pend'[s], d) => ~Touches(Whole, d))
    BY <1>i, <1>5 DEF OnceInv
  <2>2. Once(pend[s], d) /\ (Touches(pend[s], d) => ~Touches(Whole, d))
    BY <1>i DEF OnceInv
  <2>3. CASE s = t
    <3>1. ~(Touches(pend[t], d) /\ Touches(<<l>>, d))
      BY <1>3, <1>7
    <3>2. Once(pend'[t], d)
      <4>1. pend[t] \in Seq(Lines) /\ <<l>> \in Seq(Lines) /\ Once(pend[t], d) /\ Once(<<l>>, d)
        BY <1>t, <1>6, <1>7, <2>2, <2>3
      <4>2. Once(pend[t] \o <<l>>, d)
        BY <3>1, <4>1, OnceConcat
      <4> QED BY <1>6, <4>2
    <3>3. Touches(pend'[t], d) <=> Touches(pend[t], d) \/ Sets(l, d)
      <4>1. pend[t] \in Seq(Lines) /\ l \in Lines /\ pend'[t] = Append(pend[t], l)
        BY <1>t, <1>6
      <4>2. Touches(Append(pend[t], l), d) <=> Touches(pend[t], d) \/ Sets(l, d)
        BY <4>1, TouchesAppend
      <4> QED BY <4>1, <4>2
    <3> QED BY <1>3, <1>7, <2>2, <2>3, <3>2, <3>3
  <2>4. CASE s # t
    BY <1>6, <2>2, <2>4
  <2> QED BY <2>3, <2>4
<1>11. SumInv'
  <2>1. SUFFICES ASSUME NEW d \in Codes
                 PROVE  OwnTally(index', stray, d) = Logged(Whole, d) + HitsHeld(d)
    BY <1>4, <1>5, <1>s DEF SumInv, HitsHeld
  <2>2. OwnTally(index, stray, d) = Logged(Whole, d) + HitsHeld(d)
    BY <1>i, <1>s DEF SumInv
  <2>3. OwnTally(index', stray, d) = OwnTally(index, stray, d)
    <3>1. CASE d = c
      <4>1. index'[d] = x /\ index[d] = None /\ x # None
        BY <1>t, <1>1, <1>4, <3>1, NoneAssumption
      <4>2. OwnTally(index', stray, d) = 0 + stray[d].o /\ OwnTally(index, stray, d) = 0 + stray[d].o
        BY <1>1, <4>1 DEF OwnTally
      <4> QED BY <4>2
    <3>2. CASE d # c
      <4>1. index'[d] = index[d]
        BY <1>t, <1>4, <3>2
      <4> QED BY <4>1 DEF OwnTally
    <3> QED BY <3>1, <3>2
  <2> QED BY <2>2, <2>3
<1> QED BY <1>8, <1>9, <1>10, <1>11 DEF HitInv

(* A thread hands its lines to the log.                                    *)
LEMMA PushHits ==
    ASSUME Additive, StoreInv, CalmInv, HitInv, NEW t \in Threads, Push(t) \/ Queue(t)
    PROVE  HitInv'
<1>i. TypeInv /\ DownInv /\ AloneInv /\ PlainInv /\ BusyInv /\ OnceInv /\ SumInv
  BY DEF StoreInv, HitInv
<1>t. /\ pc \in [Threads -> {"idle", "push", "append", "bulk", "bump"}]
      /\ pend \in [Threads -> Seq(RowLines \cup DelLines)]
      /\ \A s \in Threads : pend[s] \in Seq(Lines) /\ pend[s] \in Seq(RowLines \cup DelLines)
      /\ Whole \in Seq(Lines) /\ file \in Seq(Lines) /\ buf \in Seq(Lines)
  BY <1>i, HitTypes
<1>1. /\ UNCHANGED <<mode, index, stray, dirty, hot, fpc, drained, cpc, replayed, snap>>
      /\ pc[t] \in {"push", "append", "bulk"} /\ pc' = [pc EXCEPT ![t] = "idle"]
      /\ pend' = [pend EXCEPT ![t] = <<>>]
  BY DEF Push, Queue, memory
<1>2. mode = "up"
  BY <1>i, <1>1 DEF DownInv
<1>3. Whole' = Whole \o pend[t]
  <2>1. CASE FlushQueue(buf \o pend[t])
    BY <1>i, <1>t, <2>1, WholeFlush
  <2>2. CASE buf' = buf \o pend[t] /\ UNCHANGED file
    BY <1>t, <2>2, LogAssoc DEF Whole
  <2> QED BY <2>1, <2>2 DEF Push, Queue, Flush, disk
<1>4. \A s \in Threads : pend'[s] = IF s = t THEN <<>> ELSE pend[s]
  BY <1>t, <1>1
<1>5. PlainInv'
  <2>1. Plain(Whole')
    BY <1>i, <1>t, <1>3, PlainConcat DEF PlainInv
  <2>2. \A s \in Threads : Plain(pend'[s])
    BY <1>i, <1>4, NothingOnce DEF PlainInv
  <2> QED BY <1>i, <1>1, <2>1, <2>2 DEF PlainInv
<1>6. BusyInv'
  <2>1. \A s \in Threads : pc'[s] = "bump" <=> pc[s] = "bump"
    BY <1>t, <1>1
  <2> QED BY <1>i, <1>1, <1>2, <2>1 DEF BusyInv
<1>7. OnceInv'
  <2>1. SUFFICES ASSUME NEW c \in Codes
                 PROVE  /\ Once(Whole', c)
                        /\ \A s \in Threads : /\ Once(pend'[s], c)
                                              /\ Touches(pend'[s], c) => ~Touches(Whole', c)
    BY DEF OnceInv
  <2>2. /\ Once(Whole, c)
        /\ \A s \in Threads : Once(pend[s], c) /\ (Touches(pend[s], c) => ~Touches(Whole, c))
    BY <1>i DEF OnceInv
  <2>3. Once(Whole', c)
    BY <1>t, <1>3, <2>2, OnceConcat
  <2>4. Touches(Whole', c) <=> Touches(Whole, c) \/ Touches(pend[t], c)
    BY <1>t, <1>3, TouchesConcat
  <2>5. \A s \in Threads : Touches(pend[s], c) /\ Touches(pend[t], c) => s = t
    BY <1>i DEF AloneInv, CalmInv
  <2>6. ASSUME NEW s \in Threads
        PROVE  Once(pend'[s], c) /\ (Touches(pend'[s], c) => ~Touches(Whole', c))
    <3>1. CASE s = t
      BY <1>4, <3>1, NothingOnce
    <3>2. CASE s # t
      BY <1>4, <2>2, <2>4, <2>5, <3>2
    <3> QED BY <3>1, <3>2
  <2> QED BY <2>3, <2>6
<1>8. SumInv'
  <2>1. SUFFICES ASSUME NEW c \in Codes
                 PROVE  OwnTally(index, stray, c) = Logged(Whole', c) + HitsHeld(c)
    BY <1>1, <1>2 DEF SumInv, HitsHeld
  <2>2. Logged(Whole', c) = Logged(Whole, c) + Logged(pend[t], c)
    BY <1>t, <1>3, LoggedConcat
  <2>3. Logged(pend[t], c) = 0 /\ Logged(Whole, c) \in Nat
    BY <1>t, LoggedRows, LoggedType
  <2>4. OwnTally(index, stray, c) = Logged(Whole, c) + HitsHeld(c)
    BY <1>i, <1>2 DEF SumInv
  <2> QED BY <2>2, <2>3, <2>4
<1> QED BY <1>5, <1>6, <1>7, <1>8 DEF HitInv

(* Hit lines that go to the log set no code.                               *)
LEMMA HitsToLog ==
    ASSUME StoreInv, HitInv, NEW x \in Seq(HitLines), Plain(x), Whole' = Whole \o x,
           UNCHANGED <<cpc, pend, snap>>, \A f \in Flushers : Plain(drained'[f])
    PROVE  PlainInv' /\ OnceInv'
<1>i. TypeInv /\ PlainInv /\ OnceInv
  BY DEF StoreInv, HitInv
<1>t. Whole \in Seq(Lines) /\ x \in Seq(Lines)
  BY <1>i, HitTypes, SubLines
<1>1. PlainInv'
  <2>1. Plain(Whole')
    BY <1>i, <1>t, PlainConcat DEF PlainInv
  <2> QED BY <1>i, <2>1 DEF PlainInv
<1>2. OnceInv'
  <2>1. ASSUME NEW c \in Codes PROVE Once(Whole', c) /\ (Touches(Whole', c) <=> Touches(Whole, c))
    <3>1. ~Touches(x, c) /\ Once(x, c)
      BY HitLinesSetNothing
    <3>2. Touches(Whole', c) <=> Touches(Whole, c) \/ Touches(x, c)
      BY <1>t, TouchesConcat
    <3>3. Once(Whole, c)
      BY <1>i DEF OnceInv
    <3>4. Once(Whole', c)
      BY <1>t, <3>1, <3>3, OnceConcat
    <3> QED BY <3>1, <3>2, <3>4
  <2> QED BY <1>i, <2>1 DEF OnceInv
<1> QED BY <1>1, <1>2

LEMMA FlushHits ==
    ASSUME Additive, StoreInv, CalmInv, HitInv, NEW f \in Flushers, FlushWrite(f)
    PROVE  HitInv'
<1>i. TypeInv /\ GateInv /\ DownInv /\ PlainInv /\ BusyInv /\ OnceInv /\ SumInv
  BY DEF StoreInv, HitInv
<1>t. /\ fpc \in [Flushers -> {"idle", "write"}] /\ drained \in [Flushers -> Seq(HitLines)]
      /\ \A g \in Flushers : drained[g] \in Seq(Lines) /\ drained[g] \in Seq(HitLines)
      /\ Whole \in Seq(Lines) /\ <<>> \in Seq(HitLines)
  BY <1>i, HitTypes
<1>1. /\ UNCHANGED <<mode, index, stray, dirty, pc, pend, hot, replayed, snap>>
      /\ fpc[f] = "write" /\ fpc' = [fpc EXCEPT ![f] = "idle"]
      /\ drained' = [drained EXCEPT ![f] = <<>>] /\ FlushQueue(buf \o drained[f])
  BY DEF FlushWrite, Flush, memory
<1>2. mode = "up"
  BY <1>i, <1>1 DEF DownInv
<1>3. cpc' = cpc
  BY <1>i, <1>1 DEF FlushWrite, GateInv, PlainInv
<1>4. Whole' = Whole \o drained[f]
  BY <1>i, <1>t, <1>1, WholeFlush
<1>5. \A g \in Flushers : drained'[g] = IF g = f THEN <<>> ELSE drained[g]
  BY <1>t, <1>1
<1>6. PlainInv' /\ OnceInv'
  <2>1. \A g \in Flushers : Plain(drained'[g])
    BY <1>i, <1>5, NothingOnce DEF PlainInv
  <2>2. Plain(drained[f])
    BY <1>i DEF PlainInv
  <2> QED BY <1>t, <1>1, <1>3, <1>4, <2>1, <2>2, HitsToLog
<1>7. BusyInv'
  BY <1>i, <1>t, <1>1, <1>2, <1>5 DEF BusyInv
<1>8. SumInv'
  <2>1. SUFFICES ASSUME NEW c \in Codes
                 PROVE  OwnTally(index, stray, c) = Logged(Whole', c) + HitsHeld(c)'
    BY <1>1, <1>2 DEF SumInv
  <2>2. Logged(Whole', c) = Logged(Whole, c) + Logged(drained[f], c) /\ Logged(Whole, c) \in Nat
    BY <1>t, <1>4, LoggedConcat, LoggedType
  <2>3. /\ Hands(c)' + Logged(drained[f], c) = Hands(c) + Logged(<<>>, c)
        /\ Hands(c)' \in Nat /\ Logged(drained[f], c) \in Nat /\ Logged(<<>>, c) = 0
    BY <1>i, <1>t, <1>1, HandsChange, LoggedNothing
  <2>4. HitsHeld(c)' = Hands(c)' + dirty[c] + Hot(c)
    BY <1>1, HeldPrime DEF Hot
  <2>5. /\ HitsHeld(c) = Hands(c) + dirty[c] + Hot(c)
        /\ Hands(c) \in Nat /\ dirty[c] \in Nat /\ Hot(c) \in Nat
    BY <1>i, HeldParts
  <2>6. OwnTally(index, stray, c) = Logged(Whole, c) + HitsHeld(c)
    BY <1>i, <1>2 DEF SumInv
  <2> QED BY <2>2, <2>3, <2>4, <2>5, <2>6
<1> QED BY <1>6, <1>7, <1>8 DEF HitInv

LEMMA SyncHits ==
    ASSUME Additive, StoreInv, CalmInv, HitInv, Fsync \/ CloseSync
    PROVE  HitInv'
<1>i. TypeInv /\ DownInv /\ PlainInv /\ BusyInv /\ OnceInv /\ SumInv
  BY DEF StoreInv, HitInv
<1>t. Whole \in Seq(Lines) /\ <<>> \in Seq(HitLines) /\ <<>> \in Seq(Lines) /\ buf \in Seq(Lines)
  BY <1>i, HitTypes
<1>1. /\ UNCHANGED <<mode, index, stray, dirty, pc, pend, hot, fpc, drained, cpc, replayed, snap>>
      /\ FlushQueue(buf)
  BY DEF Fsync, CloseSync, Sync, memory, workers
<1>2. mode = "up"
  BY <1>i DEF DownInv, Fsync, CloseSync
<1>3. Whole' = Whole \o <<>> /\ Whole' = Whole
  <2>1. buf \o <<>> = buf /\ Whole \o <<>> = Whole
    BY <1>t
  <2>2. FlushQueue(buf \o <<>>)
    BY <1>1, <2>1
  <2> QED BY <1>i, <1>t, <2>1, <2>2, WholeFlush
<1>4. PlainInv' /\ OnceInv'
  BY <1>i, <1>t, <1>1, <1>3, HitsToLog, NothingOnce DEF PlainInv
<1>5. BusyInv'
  BY <1>i, <1>1 DEF BusyInv
<1>6. SumInv'
  BY <1>i, <1>1, <1>2, <1>3 DEF SumInv, HitsHeld
<1> QED BY <1>4, <1>5, <1>6 DEF HitInv

LEMMA HotAdd ==
    ASSUME TypeInv, NEW t \in Threads, hot[t] = None, NEW c \in Codes,
           hot' = [hot EXCEPT ![t] = c], NEW d \in Codes
    PROVE  Hot(d)' = Hot(d) + (IF d = c THEN 1 ELSE 0)
<1> DEFINE S == {s \in Threads : hot[s] = d}
           T == {s \in Threads : hot'[s] = d}
<1>t. hot \in [Threads -> Codes \cup {None}] /\ None \notin Codes
  BY HitTypes
<1>1. S \in SUBSET Threads /\ t \notin S
  BY <1>t
<1>2. IsFiniteSet(S)
  BY <1>1, StoreAssumption, FS_Subset
<1>3. Cardinality(S) \in Nat
  BY <1>2, FS_CardinalityType
<1>4. CASE d = c
  <2>1. T = S \cup {t}
    BY <1>t, <1>4
  <2>2. Cardinality(S \cup {t}) = Cardinality(S) + 1
    BY <1>1, <1>2, FS_AddElement
  <2> QED BY <1>4, <2>1, <2>2 DEF Hot
<1>5. CASE d # c
  <2>1. T = S
    BY <1>t, <1>5
  <2>2. Cardinality(T) = Cardinality(S) + 0
    BY <1>3, <2>1
  <2> QED BY <1>5, <2>2 DEF Hot
<1> QED BY <1>4, <1>5

LEMMA HotDrop ==
    ASSUME TypeInv, NEW t \in Threads, hot[t] \in Codes,
           hot' = [hot EXCEPT ![t] = None], NEW d \in Codes
    PROVE  Hot(d)' + (IF d = hot[t] THEN 1 ELSE 0) = Hot(d) /\ Hot(d)' \in Nat
<1> DEFINE S == {s \in Threads : hot[s] = d}
           T == {s \in Threads : hot'[s] = d}
<1>t. hot \in [Threads -> Codes \cup {None}] /\ None \notin Codes
  BY HitTypes
<1>1. T \in SUBSET Threads /\ t \notin T
  BY <1>t
<1>2. IsFiniteSet(T)
  BY <1>1, StoreAssumption, FS_Subset
<1>3. Cardinality(T) \in Nat
  BY <1>2, FS_CardinalityType
<1>4. CASE d = hot[t]
  <2>1. S = T \cup {t}
    BY <1>t, <1>4
  <2>2. Cardinality(T \cup {t}) = Cardinality(T) + 1
    BY <1>1, <1>2, FS_AddElement
  <2> QED BY <1>3, <1>4, <2>1, <2>2 DEF Hot
<1>5. CASE d # hot[t]
  <2>1. T = S
    BY <1>t, <1>5
  <2> HIDE DEF S, T
  <2>2. Cardinality(T) + 0 = Cardinality(S)
    BY <1>3, <2>1
  <2> USE DEF S, T
  <2> QED BY <1>3, <1>5, <2>2 DEF Hot
<1> QED BY <1>4, <1>5

LEMMA ResolveHits ==
    ASSUME Additive, StoreInv, HitInv, NEW t \in Threads, Resolve(t)
    PROVE  HitInv'
<1>i. TypeInv /\ PlainInv /\ BusyInv /\ OnceInv /\ SumInv
  BY DEF StoreInv, HitInv
<1>t. /\ index \in [Codes -> Entries \cup {None}] /\ stray \in [Codes -> Strays]
      /\ pc \in [Threads -> {"idle", "push", "append", "bulk", "bump"}]
      /\ hot \in [Threads -> Codes \cup {None}] /\ None \notin Codes /\ Whole \in Seq(Lines)
  BY <1>i, HitTypes
<1>1. PICK c \in Codes :
        /\ Live(index[c])
        /\ index' = [index EXCEPT ![c].h = @ + 1, ![c].oh = @ + 1]
        /\ hot' = [hot EXCEPT ![t] = c]
  BY DEF Resolve
<1>2. /\ mode = "up" /\ pc[t] = "idle" /\ pc' = [pc EXCEPT ![t] = "bump"]
      /\ UNCHANGED <<mode, stray, dirty, pend, fpc, drained, cpc, buf, replayed, file, snap>>
  BY DEF Resolve, disk
<1>3. PlainInv'
  BY <1>i, <1>2 DEF PlainInv, Whole
<1>4. OnceInv'
  BY <1>i, <1>2 DEF OnceInv, Whole
<1>5. BusyInv'
  <2>1. \A s \in Threads : pc'[s] # "bump" <=> hot'[s] = None
    <3>1. ASSUME NEW s \in Threads PROVE pc'[s] # "bump" <=> hot'[s] = None
      <4>1. CASE s = t
        <5>1. pc'[s] = "bump" /\ hot'[s] = c
          BY <1>t, <1>1, <1>2, <4>1
        <5> QED BY <1>t, <5>1
      <4>2. CASE s # t
        <5>1. pc'[s] = pc[s] /\ hot'[s] = hot[s]
          BY <1>t, <1>1, <1>2, <4>2
        <5> QED BY <1>i, <5>1 DEF BusyInv
      <4> QED BY <4>1, <4>2
    <3> QED BY <3>1
  <2> QED BY <1>i, <1>2, <2>1 DEF BusyInv
<1>6. SumInv'
  <2>1. SUFFICES ASSUME NEW d \in Codes
                 PROVE  OwnTally(index', stray, d) = Logged(Whole, d) + HitsHeld(d)'
    BY <1>2 DEF SumInv, Whole
  <2> DEFINE one == IF d = c THEN 1 ELSE 0
             y == [index[c] EXCEPT !.h = @ + 1, !.oh = @ + 1]
  <2>2. index[c] \in Entries /\ index'[c] = y /\ \A e \in Codes \ {c} : index'[e] = index[e]
    BY <1>t, <1>1 DEF Live
  <2>3. y \in Entries /\ y.oh = index[c].oh + 1 /\ index[c].oh \in Nat
    <3>1. 1 \in Nat
      OBVIOUS
    <3>2. y \in Entries
      BY <2>2, <3>1, CountHits, Zenon
    <3> QED BY <2>2, <3>2 DEF Entries
  <2> HIDE DEF y
  <2>4. OwnTally(index', stray, d) = OwnTally(index, stray, d) + one
    <3>0. OwnTally(index, stray, d) \in Nat /\ stray[d].o \in Nat
      BY <1>t, TallyType DEF Strays
    <3>1. CASE d = c
      <4>1. index'[d] # None /\ index[d] # None /\ index'[d].oh = index[d].oh + 1 /\ index[d].oh \in Nat
        BY <2>2, <2>3, <3>1, NoneAssumption
      <4>2. OwnTally(index', stray, d) = index'[d].oh + stray[d].o /\ OwnTally(index, stray, d) = index[d].oh + stray[d].o
        BY <4>1 DEF OwnTally
      <4> QED BY <3>0, <3>1, <4>1, <4>2
    <3>2. CASE d # c
      <4>1. index'[d] = index[d]
        BY <2>2, <3>2
      <4>2. OwnTally(index', stray, d) = OwnTally(index, stray, d)
        BY <4>1 DEF OwnTally
      <4> QED BY <3>0, <3>2, <4>2
    <3> QED BY <3>1, <3>2
  <2>5. Hot(d)' = Hot(d) + one
    <3>1. hot[t] = None
      BY <1>i, <1>2 DEF BusyInv
    <3> QED BY <1>i, <1>1, <3>1, HotAdd
  <2>6. HitsHeld(d)' = Hands(d) + dirty[d] + Hot(d)'
    BY <1>2, HeldPrime DEF Hands
  <2>7. /\ HitsHeld(d) = Hands(d) + dirty[d] + Hot(d)
        /\ Hands(d) \in Nat /\ dirty[d] \in Nat /\ Hot(d) \in Nat
    BY <1>i, HeldParts
  <2>8. OwnTally(index, stray, d) = Logged(Whole, d) + HitsHeld(d) /\ Logged(Whole, d) \in Nat
    BY <1>i, <1>t, <1>2, LoggedType DEF SumInv
  <2>9. one \in Nat
    OBVIOUS
  <2> HIDE DEF one
  <2> QED BY <2>4, <2>5, <2>6, <2>7, <2>8, <2>9
<1> QED BY <1>3, <1>4, <1>5, <1>6 DEF HitInv

LEMMA BumpHits ==
    ASSUME Additive, StoreInv, HitInv, NEW t \in Threads, Bump(t)
    PROVE  HitInv'
<1>i. TypeInv /\ DownInv /\ PlainInv /\ BusyInv /\ OnceInv /\ SumInv
  BY DEF StoreInv, HitInv
<1>t. /\ pc \in [Threads -> {"idle", "push", "append", "bulk", "bump"}]
      /\ dirty \in [Codes -> Nat]
      /\ hot \in [Threads -> Codes \cup {None}] /\ None \notin Codes /\ Whole \in Seq(Lines)
  BY <1>i, HitTypes
<1>1. /\ pc[t] = "bump" /\ pc' = [pc EXCEPT ![t] = "idle"]
      /\ dirty' = [dirty EXCEPT ![hot[t]] = @ + 1] /\ hot' = [hot EXCEPT ![t] = None]
      /\ UNCHANGED <<mode, index, stray, pend, fpc, drained, cpc, buf, replayed, file, snap>>
  BY DEF Bump, disk
<1>2. mode = "up" /\ hot[t] \in Codes
  BY <1>i, <1>t, <1>1 DEF DownInv, BusyInv
<1>3. PlainInv'
  BY <1>i, <1>1 DEF PlainInv, Whole
<1>4. OnceInv'
  BY <1>i, <1>1 DEF OnceInv, Whole
<1>5. BusyInv'
  <2>1. ASSUME NEW s \in Threads PROVE pc'[s] # "bump" <=> hot'[s] = None
    <3>1. CASE s = t
      BY <1>t, <1>1, <3>1
    <3>2. CASE s # t
      <4>1. pc'[s] = pc[s] /\ hot'[s] = hot[s]
        BY <1>t, <1>1, <3>2
      <4> QED BY <1>i, <4>1 DEF BusyInv
    <3> QED BY <3>1, <3>2
  <2> QED BY <1>i, <1>1, <1>2, <2>1 DEF BusyInv
<1>6. SumInv'
  <2>1. SUFFICES ASSUME NEW d \in Codes
                 PROVE  OwnTally(index, stray, d) = Logged(Whole, d) + HitsHeld(d)'
    BY <1>1, <1>2 DEF SumInv, Whole
  <2> DEFINE one == IF d = hot[t] THEN 1 ELSE 0
  <2>2. dirty'[d] = dirty[d] + one
    BY <1>t, <1>1, <1>2
  <2>3. Hot(d)' + one = Hot(d) /\ Hot(d)' \in Nat
    BY <1>i, <1>1, <1>2, HotDrop
  <2>4. HitsHeld(d)' = Hands(d) + dirty'[d] + Hot(d)'
    BY <1>1, HeldPrime DEF Hands
  <2>5. /\ HitsHeld(d) = Hands(d) + dirty[d] + Hot(d)
        /\ Hands(d) \in Nat /\ dirty[d] \in Nat /\ Hot(d) \in Nat
    BY <1>i, HeldParts
  <2>6. OwnTally(index, stray, d) = Logged(Whole, d) + HitsHeld(d) /\ Logged(Whole, d) \in Nat
    BY <1>i, <1>t, <1>2, LoggedType DEF SumInv
  <2>7. one \in Nat
    OBVIOUS
  <2> HIDE DEF one
  <2> QED BY <2>2, <2>3, <2>4, <2>5, <2>6, <2>7
<1> QED BY <1>3, <1>4, <1>5, <1>6 DEF HitInv

(* The lines a flusher takes record what was in dirty, and only that.      *)
LEMMA DeltasRecord ==
    ASSUME TypeInv, NEW s \in Orders(Deltas)
    PROVE  /\ s \in Seq(HitLines) /\ Plain(s)
           /\ \A c \in Codes : Logged(s, c) = dirty[c]
<1> DEFINE D == {c \in Codes : dirty[c] > 0}
           f == [c \in D |-> HitLine(c, dirty[c], Me)]
<1>t. dirty \in [Codes -> Nat]
  BY HitTypes
<1>1. IsFiniteSet(D)
  BY LogAssumption, FS_Subset
<1>2. f \in Surjection(D, Deltas)
  BY DEF Surjection, Deltas
<1>3. IsFiniteSet(Deltas)
  <2> HIDE DEF D, f
  <2> QED BY <1>1, <1>2, FS_Surjection
<1>4. s \in Seq(HitLines) /\ s \in Seq(Lines)
  BY <1>t, OrdersType, SubLines
<1>5. /\ Len(s) \in Nat /\ \A k \in 1..Len(s) : s[k] \in Deltas
      /\ \A x \in Deltas : \E k \in 1..Len(s) : s[k] = x /\ \A n \in 1..Len(s) : s[n] = x => n = k
  BY <1>3, OrdersAll
<1>6. \A x \in Deltas : /\ x.k = "hit" /\ x.i = Me /\ x.c \in Codes /\ dirty[x.c] > 0
                        /\ x = HitLine(x.c, dirty[x.c], Me)
  BY DEF Deltas, HitLine
<1>7. Plain(s)
  BY <1>5, <1>6 DEF Plain, IsPlain
<1>8. ASSUME NEW c \in Codes PROVE Logged(s, c) = dirty[c]
  <2>1. CASE dirty[c] > 0
    <3> DEFINE x == HitLine(c, dirty[c], Me)
    <3>1. x \in Deltas /\ x.c = c /\ x.k = "hit" /\ x.d = dirty[c]
      BY <2>1 DEF Deltas, HitLine
    <3> HIDE DEF x
    <3>2. PICK p \in 1..Len(s) : s[p] = x /\ \A n \in 1..Len(s) : s[n] = x => n = p
      BY <1>5, <3>1
    <3>3. ASSUME NEW k \in 1..Len(s), k # p PROVE Hits(s[k], c) = {}
      <4>1. s[k] \in Deltas /\ s[k] # x
        BY <1>5, <3>2, <3>3
      <4>2. s[k].c # c
        BY <1>6, <4>1 DEF x
      <4> QED BY <4>2 DEF Hits
    <3>4. Cardinality(HitsIn(s, c)) = Gain(s[p], c)
      BY <1>4, <3>3, HitsOnce
    <3>5. Gain(s[p], c) = dirty[c]
      BY <3>1, <3>2 DEF Gain
    <3> QED BY <3>4, <3>5 DEF Logged
  <2>2. CASE ~(dirty[c] > 0)
    <3>1. dirty[c] = 0
      BY <1>t, <2>2
    <3>2. ASSUME NEW k \in 1..Len(s) PROVE Hits(s[k], c) = {}
      <4>1. s[k].c # c
        BY <1>5, <1>6, <2>2
      <4> QED BY <4>1 DEF Hits
    <3>3. HitsIn(s, c) = {}
      BY <3>2, HitsNone
    <3> QED BY <3>1, <3>3, FS_EmptySet DEF Logged
  <2> QED BY <2>1, <2>2
<1> QED BY <1>4, <1>7, <1>8

LEMMA DrainHits ==
    ASSUME Additive, StoreInv, HitInv, NEW f \in Flushers, Drain(f)
    PROVE  HitInv'
<1>i. TypeInv /\ PlainInv /\ BusyInv /\ OnceInv /\ SumInv
  BY DEF StoreInv, HitInv
<1>t. /\ fpc \in [Flushers -> {"idle", "write"}] /\ drained \in [Flushers -> Seq(HitLines)]
      /\ Whole \in Seq(Lines)
  BY <1>i, HitTypes
<1>1. PICK s \in Orders(Deltas) : drained' = [drained EXCEPT ![f] = s]
  BY DEF Drain
<1>2. /\ mode = "up" /\ fpc[f] = "idle" /\ fpc' = [fpc EXCEPT ![f] = "write"]
      /\ dirty' = [c \in Codes |-> 0]
      /\ UNCHANGED <<mode, index, stray, pc, pend, hot, cpc, buf, replayed, file, snap>>
  BY DEF Drain, disk
<1>3. s \in Seq(HitLines) /\ Plain(s) /\ \A c \in Codes : Logged(s, c) = dirty[c]
  BY <1>i, DeltasRecord
<1>4. \A g \in Flushers : /\ drained'[g] = IF g = f THEN s ELSE drained[g]
                          /\ fpc'[g] = IF g = f THEN "write" ELSE fpc[g]
  BY <1>t, <1>1, <1>2
<1>5. PlainInv'
  <2>1. \A g \in Flushers : Plain(drained'[g])
    BY <1>i, <1>3, <1>4 DEF PlainInv
  <2> QED BY <1>i, <1>2, <2>1 DEF PlainInv, Whole
<1>6. OnceInv'
  BY <1>i, <1>2 DEF OnceInv, Whole
<1>7. BusyInv'
  BY <1>i, <1>2, <1>4 DEF BusyInv
<1>8. SumInv'
  <2>1. SUFFICES ASSUME NEW c \in Codes
                 PROVE  OwnTally(index, stray, c) = Logged(Whole, c) + HitsHeld(c)'
    BY <1>2 DEF SumInv, Whole
  <2>2. /\ Hands(c)' + Logged(drained[f], c) = Hands(c) + Logged(s, c)
        /\ Hands(c)' \in Nat /\ Logged(s, c) = dirty[c]
    BY <1>i, <1>1, <1>3, HandsChange
  <2>3. Logged(drained[f], c) = 0
    <3>1. drained[f] = <<>>
      BY <1>i, <1>2 DEF BusyInv
    <3> QED BY <3>1, LoggedNothing
  <2>4. HitsHeld(c)' = Hands(c)' + 0 + Hot(c)
    BY <1>2, HeldPrime DEF Hot
  <2>5. /\ HitsHeld(c) = Hands(c) + dirty[c] + Hot(c)
        /\ Hands(c) \in Nat /\ dirty[c] \in Nat /\ Hot(c) \in Nat
    BY <1>i, HeldParts
  <2>6. OwnTally(index, stray, c) = Logged(Whole, c) + HitsHeld(c)
    BY <1>i, <1>2 DEF SumInv
  <2> QED BY <2>2, <2>3, <2>4, <2>5, <2>6
<1> QED BY <1>5, <1>6, <1>7, <1>8 DEF HitInv

(* A part of a log, from its start, has no line the log does not have.     *)
LEMMA PrefixPlain ==
    ASSUME NEW s \in Seq(Lines), NEW t \in Seq(Lines), Plain(s \o t), NEW n \in 0..Len(s)
    PROVE  /\ Plain(SubSeq(s, 1, n))
           /\ \A c : Once(s \o t, c) => Once(SubSeq(s, 1, n), c)
<1> DEFINE u == s \o t
           p == SubSeq(s, 1, n)
<1>1. Len(p) = n /\ \A k \in 1..n : p[k] = u[k] /\ k \in 1..Len(u)
  OBVIOUS
<1> HIDE DEF u, p
<1>2. Plain(u)
  BY DEF u
<1>3. Plain(p)
  BY <1>1, <1>2 DEF Plain
<1>4. \A c : Once(u, c) => Once(p, c)
  BY <1>1 DEF Once
<1> QED BY <1>3, <1>4 DEF u, p

LEMMA StopHits ==
    ASSUME Additive, StoreInv, HitInv, Exit \/ Kill \/ PowerLoss
    PROVE  HitInv'
<1>i. TypeInv /\ PlainInv /\ BusyInv /\ OnceInv /\ SumInv
  BY DEF StoreInv, HitInv
<1>t. Whole \in Seq(Lines) /\ file \in Seq(Lines) /\ buf \in Seq(Lines) /\ <<>> \in Seq(Lines)
  BY <1>i, HitTypes
<1>1. Stopped
  BY DEF Exit, Kill, PowerLoss
<1>2. \E n \in 0..Len(file) : file' = SubSeq(file, 1, n)
  <2>1. CASE UNCHANGED file
    <3>1. Len(file) \in 0..Len(file) /\ SubSeq(file, 1, Len(file)) = file
      BY <1>t
    <3> QED BY <2>1, <3>1
  <2>2. CASE PowerLoss
    <3>1. synced \in 0..Len(file) /\ Len(file) \in Nat
      BY <1>i, <1>t DEF TypeInv, TypeOK
    <3>2. PICK n \in synced..Len(file) : file' = SubSeq(file, 1, n)
      BY <2>2 DEF PowerLoss
    <3>3. n \in 0..Len(file)
      BY <3>1, <3>2
    <3> QED BY <3>2, <3>3
  <2> QED BY <2>1, <2>2 DEF Exit, Kill, disk
<1>3. PICK n \in 0..Len(file) : file' = SubSeq(file, 1, n)
  BY <1>2
<1>4. /\ mode' = "down" /\ buf' = <<>> /\ cpc' = "idle" /\ snap' = snap
      /\ index' = Nothing /\ stray' = [c \in Codes |-> NoStray] /\ dirty' = [c \in Codes |-> 0]
      /\ \A t \in Threads : pc'[t] = "idle" /\ pend'[t] = <<>> /\ hot'[t] = None
      /\ \A f \in Flushers : fpc'[f] = "idle" /\ drained'[f] = <<>>
  BY <1>1 DEF Stopped
<1>5. Whole' = SubSeq(file, 1, n)
  <2>1. SubSeq(file, 1, n) \in Seq(Lines) /\ SubSeq(file, 1, n) \o <<>> = SubSeq(file, 1, n)
    <3>1. n \in Nat /\ n <= Len(file)
      BY <1>t
    <3>2. SubSeq(file, 1, n) \in Seq(Lines)
      BY <1>t, <3>1
    <3> QED BY <3>2
  <2> QED BY <1>3, <1>4, <2>1 DEF Whole
<1>6. Plain(Whole') /\ \A c \in Codes : Once(Whole', c)
  <2>1. Plain(file \o buf) /\ \A c \in Codes : Once(file \o buf, c)
    BY <1>i DEF PlainInv, OnceInv, Whole
  <2> QED BY <1>t, <1>5, <2>1, PrefixPlain
<1>7. PlainInv'
  BY <1>i, <1>4, <1>6, NothingOnce DEF PlainInv
<1>8. BusyInv'
  BY <1>4 DEF BusyInv, Nothing
<1>9. OnceInv'
  BY <1>4, <1>6, NothingOnce DEF OnceInv
<1>10. SumInv'
  BY <1>4 DEF SumInv
<1> QED BY <1>7, <1>8, <1>9, <1>10 DEF HitInv

LEMMA BootHits ==
    ASSUME StoreInv, HitInv, Boot
    PROVE  HitInv'
<1>i. TypeInv /\ DownInv /\ PlainInv /\ BusyInv /\ OnceInv
  BY DEF StoreInv, HitInv
<1>1. /\ mode = "down" /\ mode' = "load" /\ \A c \in Codes : index'[c] = None
      /\ UNCHANGED <<stray, dirty, pc, pend, hot, fpc, drained, cpc, buf, replayed, file, snap>>
  BY <1>i DEF Boot, workers, disk, PlainInv
<1>2. PlainInv'
  BY <1>i, <1>1 DEF PlainInv, Whole
<1>3. BusyInv'
  BY <1>i, <1>1 DEF BusyInv
<1>4. OnceInv'
  BY <1>i, <1>1 DEF OnceInv, Whole
<1>5. SumInv'
  <2>1. SUFFICES ASSUME NEW c \in Codes
                 PROVE  OwnTally(index', stray, c) = Logged(SubSeq(file, 1, replayed), c)
    BY <1>1 DEF SumInv
  <2>2. index'[c] = None /\ stray[c] = NoStray /\ replayed = 0
    BY <1>i, <1>1 DEF BusyInv, DownInv
  <2>3. OwnTally(index', stray, c) = 0
    BY <2>2 DEF OwnTally, NoStray
  <2>4. SubSeq(file, 1, 0) = <<>>
    <3>1. file \in Seq(Lines)
      BY <1>i, HitTypes
    <3> QED BY <3>1
  <2> QED BY <2>2, <2>3, <2>4, LoggedNothing
<1> QED BY <1>2, <1>3, <1>4, <1>5 DEF HitInv

LEMMA LoadHits ==
    ASSUME Additive, StoreInv, HitInv, LoadLine
    PROVE  HitInv'
<1>i. TypeInv /\ DownInv /\ LoadInv /\ PlainInv /\ BusyInv /\ OnceInv /\ SumInv
  BY DEF StoreInv, HitInv
<1>t. /\ index \in [Codes -> Entries \cup {None}] /\ stray \in [Codes -> Strays]
      /\ file \in Seq(Lines) /\ buf = <<>> /\ replayed \in Nat /\ mode = "load"
      /\ replayed < Len(file) /\ Len(file) \in Nat
  BY <1>i, HitTypes DEF DownInv, LoadLine, TypeInv, TypeOK
<1> DEFINE n == replayed
           l == file[n + 1]
           p == SubSeq(file, 1, n)
<1>1. PICK st \in Apply([index |-> index, stray |-> stray], l, Me) :
         index' = st.index /\ stray' = st.stray
  BY DEF LoadLine
<1>2. /\ replayed' = n + 1
      /\ UNCHANGED <<mode, dirty, pc, pend, hot, fpc, drained, cpc, buf, file, snap>>
  BY DEF LoadLine, workers, disk
<1>3. PlainInv'
  BY <1>i, <1>2 DEF PlainInv, Whole
<1>4. BusyInv'
  BY <1>i, <1>t, <1>2 DEF BusyInv
<1>5. OnceInv'
  BY <1>i, <1>2 DEF OnceInv, Whole
<1>6. /\ n + 1 \in 1..Len(file) /\ l \in Lines /\ p \in Seq(Lines) /\ Len(p) = n
      /\ \A k \in 1..n : p[k] = file[k] /\ k \in 1..Len(file)
  BY <1>t
<1>7. Whole = file
  BY <1>t DEF Whole
<1>8. IsPlain(l)
  BY <1>i, <1>6, <1>7 DEF PlainInv, Plain
<1>9. SubSeq(file, 1, n + 1) = p \o <<l>> /\ <<l>> \in Seq(Lines)
  <2>1. /\ SubSeq(file, 1, n + 1) \in Seq(Lines) /\ Len(SubSeq(file, 1, n + 1)) = n + 1
        /\ \A k \in 1..(n + 1) : SubSeq(file, 1, n + 1)[k] = file[k]
    BY <1>t
  <2>2. /\ <<l>> \in Seq(Lines) /\ p \o <<l>> \in Seq(Lines) /\ Len(p \o <<l>>) = n + 1
        /\ \A k \in 1..(n + 1) : (p \o <<l>>)[k] = file[k]
    BY <1>t, <1>6
  <2> HIDE DEF l, p, n
  <2>3. SubSeq(file, 1, n + 1) = p \o <<l>>
    BY <2>1, <2>2
  <2> QED BY <2>2, <2>3
<1>10. SumInv'
  <2>1. SUFFICES ASSUME NEW c \in Codes
                 PROVE  OwnTally(index', stray', c) = Logged(SubSeq(file, 1, n + 1), c)
    BY <1>t, <1>2 DEF SumInv
  <2>2. OwnTally(index, stray, c) = Logged(p, c)
    BY <1>i, <1>t DEF SumInv
  <2>3. Logged(SubSeq(file, 1, n + 1), c) = Logged(p, c) + Logged(<<l>>, c)
    <3>1. Logged(p \o <<l>>, c) = Logged(p, c) + Logged(<<l>>, c)
      <4> HIDE DEF p, l
      <4> QED BY <1>6, <1>9, LoggedConcat
    <3> QED BY <1>9, <3>1, Zenon
  <2>4. Logged(<<l>>, c) = Gain(l, c)
    <3>1. 1 \in 1..Len(<<l>>) /\ (\A k \in 1..Len(<<l>>) : k # 1 => Hits(<<l>>[k], c) = {}) /\ <<l>>[1] = l
      OBVIOUS
    <3> HIDE DEF l
    <3> QED BY <1>9, <3>1, HitsOnce DEF Logged
  <2>5. Gain(l, c) = OwnGain(l, c, Me)
    BY <1>8 DEF IsPlain, Gain, OwnGain, OwnPart
  <2>6. IsRow(l, c) => index[c] = None
    <3>1. SUFFICES ASSUME IsRow(l, c) PROVE index[c] = None
      OBVIOUS
    <3>2. Sets(file[n + 1], c)
      BY <3>1 DEF IsRow, Sets
    <3>3. ~Touches(p, c)
      <4>1. Once(file, c)
        BY <1>i, <1>7 DEF OnceInv
      <4>2. ASSUME NEW k \in 1..n, Sets(file[k], c) PROVE FALSE
        <5>1. k \in 1..Len(file) /\ k # n + 1
          BY <1>t, <1>6
        <5> QED BY <1>6, <3>2, <4>1, <4>2, <5>1 DEF Once
      <4> HIDE DEF p, n
      <4> QED BY <1>6, <4>2 DEF Touches
    <3>4. Determines(snap, p, c, Value(index[c]))
      BY <1>i, <1>t DEF LoadInv
    <3>5. Value(snap[c]) = None
      BY <1>i DEF PlainInv, Value
    <3>6. Value(index[c]) = None
      BY <3>3, <3>4, <3>5 DEF Determines
    <3>7. index[c] \in Entries \cup {None}
      BY <1>t
    <3>8. ASSUME index[c] # None PROVE FALSE
      <4>1. Value(index[c]) = <<index[c].u, index[c].e>> /\ index[c].u \in AllUrls /\ index[c].e \in Nat
        BY <3>7, <3>8 DEF Value, Entries
      <4>2. <<index[c].u, index[c].e>> \in AllUrls \X Nat
        BY <4>1
      <4> QED BY <3>6, <4>1, <4>2, NoneAssumption
    <3> QED BY <3>8
  <2>7. l.k \in {"row", "hit"} /\ (l.k = "row" => l.n = 0)
    BY <1>8 DEF IsPlain
  <2> HIDE DEF l, p, n
  <2>8. OwnTally(st.index, st.stray, c) = OwnTally(index, stray, c) + OwnGain(l, c, Me)
    <3>1. /\ Cardinality(Codes) < MaxStray /\ l \in Lines
          /\ index \in [Codes -> Entries \cup {None}] /\ stray \in [Codes -> Strays]
          /\ st \in Apply([index |-> index, stray |-> stray], l, Me)
      BY <1>t, <1>1, <1>6 DEF Additive
    <3> QED BY <2>6, <2>7, <3>1, ApplyTally
  <2> QED BY <1>1, <2>2, <2>3, <2>4, <2>5, <2>8
<1> QED BY <1>3, <1>4, <1>5, <1>10 DEF HitInv

LEMMA LoadedHits ==
    ASSUME StoreInv, HitInv, Loaded
    PROVE  HitInv'
<1>i. TypeInv /\ DownInv /\ PlainInv /\ BusyInv /\ OnceInv /\ SumInv
  BY DEF StoreInv, HitInv
<1>t. file \in Seq(Lines) /\ mode = "load" /\ replayed = Len(file) /\ buf = <<>> /\ None \notin Codes
  BY <1>i, HitTypes DEF Loaded, DownInv
<1>1. /\ mode' = "up"
      /\ UNCHANGED <<index, stray, dirty, pc, pend, hot, fpc, drained, cpc, buf, file, snap>>
  BY DEF Loaded, memory, workers, disk
<1>2. PlainInv'
  BY <1>i, <1>1 DEF PlainInv, Whole
<1>3. BusyInv'
  BY <1>i, <1>1 DEF BusyInv
<1>4. OnceInv'
  BY <1>i, <1>1 DEF OnceInv, Whole
<1>5. SumInv'
  <2>1. SUFFICES ASSUME NEW c \in Codes
                 PROVE  OwnTally(index, stray, c) = Logged(Whole, c) + HitsHeld(c)
    BY <1>1 DEF SumInv, Whole, HitsHeld
  <2>2. Whole = file /\ SubSeq(file, 1, Len(file)) = file
    BY <1>t DEF Whole
  <2>3. OwnTally(index, stray, c) = Logged(Whole, c) /\ Logged(Whole, c) \in Nat
    BY <1>i, <1>t, <2>2, LoggedType DEF SumInv
  <2>4. \A f \in Flushers : Logged(drained[f], c) = 0
    BY <1>i, <1>t, LoggedNothing DEF DownInv, BusyInv
  <2>5. Hands(c) = 0
    BY <2>4 DEF Hands, Flushers
  <2>6. {t \in Threads : hot[t] = c} = {}
    <3>1. \A t \in Threads : hot[t] = None
      BY <1>i, <1>t DEF DownInv, BusyInv
    <3> QED BY <1>t, <3>1
  <2>7. Hot(c) = 0
    BY <2>6, FS_EmptySet DEF Hot
  <2>8. dirty[c] = 0
    BY <1>i, <1>t DEF BusyInv
  <2>9. HitsHeld(c) = 0
    BY <1>i, <2>5, <2>7, <2>8, HeldParts
  <2> QED BY <2>3, <2>9
<1> QED BY <1>2, <1>3, <1>4, <1>5 DEF HitInv

LEMMA NextHits ==
    ASSUME Additive, StoreInv, CalmInv, HitInv, [Next]_vars
    PROVE  HitInv'
<1>1. ASSUME NEW t \in Threads, ThreadStep(t) PROVE HitInv'
  <2>1. ~Update(t) /\ ~Remove(t)
    BY DEF Additive, Update, Remove
  <2> QED BY <1>1, <2>1, CreateHits, PushHits, ResolveHits, BumpHits DEF ThreadStep
<1>2. ASSUME NEW f \in Flushers, Drain(f) \/ FlushWrite(f) PROVE HitInv'
  BY <1>2, DrainHits, FlushHits
<1>3. ASSUME CompactStep PROVE FALSE
  <2>1. cpc = "idle"
    BY DEF HitInv, PlainInv
  <2>2. spent["compact"] < Budget["compact"]
    BY <1>3, <2>1 DEF CompactStep, CompactStart, CompactSnap, CompactSnapFail, CompactRename,
                      CompactTrunc, Spend
  <2>3. spent["compact"] \in Nat
    BY DEF StoreInv, TypeInv, TypeOK, Kinds
  <2> QED BY <2>2, <2>3 DEF Additive
<1>4. ASSUME Tick \/ Signal \/ DropHandle \/ UNCHANGED vars PROVE HitInv'
  BY <1>4, QuietHits DEF Tick, Signal, DropHandle, vars, memory, workers, disk
<1> QED
  BY <1>1, <1>2, <1>3, <1>4, SyncHits, StopHits, BootHits, LoadHits, LoadedHits DEF Next

(* For every number of threads and codes, whatever is killed, loses its    *)
(* power or is closed: the hits this instance shows for a code are those   *)
(* the log records and those on their way to it, each of them once, if     *)
(* nobody updates, removes or compacts, no write is cut short and the map  *)
(* of stray hits has room for every code.                                  *)
THEOREM HitsAddUp == ASSUME Additive PROVE Spec => []HitsAccounted
<1>1. Init => CalmInv
  BY InitCalm
<1>2. StoreInv /\ CalmInv /\ [Next]_vars => CalmInv'
  BY AdditiveCalm, NextCalm DEF StoreInv
<1>3. Init => HitInv
  <2> SUFFICES ASSUME Init PROVE HitInv
    OBVIOUS
  <2>0. Whole = <<>> /\ None \notin Codes
    BY NoneAssumption DEF Init, Whole
  <2>1. PlainInv
    BY <2>0, NothingOnce DEF Init, PlainInv, Nothing
  <2>2. BusyInv
    BY DEF Init, BusyInv, Nothing
  <2>3. OnceInv
    BY <2>0, NothingOnce DEF Init, OnceInv
  <2>4. ASSUME NEW c \in Codes PROVE OwnTally(index, stray, c) = Logged(Whole, c) + HitsHeld(c)
    <3>1. OwnTally(index, stray, c) = 0
      BY DEF Init, OwnTally, Nothing, NoStray
    <3>2. Logged(Whole, c) = 0 /\ \A f \in Flushers : Logged(drained[f], c) = 0
      BY <2>0, LoggedNothing DEF Init
    <3>3. Hands(c) = 0
      BY <3>2 DEF Hands, Flushers
    <3>4. {t \in Threads : hot[t] = c} = {}
      BY <2>0 DEF Init
    <3>5. Hot(c) = 0 /\ dirty[c] = 0
      BY <3>4, FS_EmptySet DEF Hot, Init
    <3>6. HitsHeld(c) = 0
      BY <3>3, <3>5, HeldParts, InitType
    <3> QED BY <3>1, <3>2, <3>6
  <2>5. SumInv
    BY <2>4 DEF SumInv, Init
  <2> QED BY <2>1, <2>2, <2>3, <2>5 DEF HitInv
<1>4. StoreInv /\ CalmInv /\ HitInv /\ [Next]_vars => HitInv'
  BY NextHits
<1>5. HitInv => HitsAccounted
  BY DEF HitInv, SumInv, HitsAccounted, OwnTally, Whole
<1> QED BY StoreInvHolds, <1>1, <1>2, <1>3, <1>4, <1>5, PTL DEF Spec
=============================================================================
