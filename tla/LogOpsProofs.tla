---------------------------- MODULE LogOpsProofs ----------------------------
(***************************************************************************)
(* What it means for a log to determine a value, and how that carries over *)
(* when lines are appended, replayed, rewritten or cut off.  Determines    *)
(* speaks of the last line that sets a code; only that there is one needs  *)
(* induction (LastSetter).                                                 *)
(***************************************************************************)
EXTENDS LogOps, FiniteSetTheorems, WellFoundedInduction, TLAPS

(* A concatenation sets a code if one of its parts does.                   *)
LEMMA TouchesConcat ==
    ASSUME NEW s \in Seq(Lines), NEW t \in Seq(Lines), NEW c
    PROVE  Touches(s \o t, c) <=> Touches(s, c) \/ Touches(t, c)
<1>1. ASSUME Touches(s, c) PROVE Touches(s \o t, c)
  <2>1. PICK k \in 1..Len(s) : Sets(s[k], c)
    BY <1>1 DEF Touches
  <2>2. k \in 1..Len(s \o t) /\ (s \o t)[k] = s[k]
    OBVIOUS
  <2> QED BY <2>1, <2>2 DEF Touches
<1>2. ASSUME Touches(t, c) PROVE Touches(s \o t, c)
  <2>1. PICK k \in 1..Len(t) : Sets(t[k], c)
    BY <1>2 DEF Touches
  <2>2. Len(s) + k \in 1..Len(s \o t) /\ (s \o t)[Len(s) + k] = t[k]
    OBVIOUS
  <2> QED BY <2>1, <2>2 DEF Touches
<1>3. ASSUME Touches(s \o t, c) PROVE Touches(s, c) \/ Touches(t, c)
  <2>1. PICK k \in 1..Len(s \o t) : Sets((s \o t)[k], c)
    BY <1>3 DEF Touches
  <2>2. CASE k <= Len(s)
    <3>1. k \in 1..Len(s) /\ (s \o t)[k] = s[k]
      BY <2>2
    <3> QED BY <2>1, <3>1 DEF Touches
  <2>3. CASE k > Len(s)
    <3>1. k - Len(s) \in 1..Len(t) /\ (s \o t)[k] = t[k - Len(s)]
      BY <2>3
    <3> QED BY <2>1, <3>1 DEF Touches
  <2> QED BY <2>2, <2>3
<1> QED BY <1>1, <1>2, <1>3

(* The last part that sets the code decides.                               *)
LEMMA EndsRight ==
    ASSUME NEW s \in Seq(Lines), NEW t \in Seq(Lines), NEW c, NEW v, EndsWith(t, c, v)
    PROVE  EndsWith(s \o t, c, v)
<1>1. PICK k \in 1..Len(t) : /\ Sets(t[k], c) /\ LineValue(t[k]) = v
                             /\ \A j \in (k + 1)..Len(t) : ~Sets(t[j], c)
  BY DEF EndsWith
<1>2. Len(s) + k \in 1..Len(s \o t) /\ (s \o t)[Len(s) + k] = t[k]
  OBVIOUS
<1>3. ASSUME NEW j \in (Len(s) + k + 1)..Len(s \o t) PROVE ~Sets((s \o t)[j], c)
  <2>1. j - Len(s) \in (k + 1)..Len(t) /\ (s \o t)[j] = t[j - Len(s)]
    OBVIOUS
  <2> QED BY <1>1, <2>1
<1> QED BY <1>1, <1>2, <1>3 DEF EndsWith

LEMMA EndsLeft ==
    ASSUME NEW s \in Seq(Lines), NEW t \in Seq(Lines), NEW c, NEW v,
           EndsWith(s, c, v), ~Touches(t, c)
    PROVE  EndsWith(s \o t, c, v)
<1>1. PICK k \in 1..Len(s) : /\ Sets(s[k], c) /\ LineValue(s[k]) = v
                             /\ \A j \in (k + 1)..Len(s) : ~Sets(s[j], c)
  BY DEF EndsWith
<1>2. k \in 1..Len(s \o t) /\ (s \o t)[k] = s[k]
  OBVIOUS
<1>3. ASSUME NEW j \in (k + 1)..Len(s \o t) PROVE ~Sets((s \o t)[j], c)
  <2>1. CASE j <= Len(s)
    <3>1. j \in (k + 1)..Len(s) /\ (s \o t)[j] = s[j]
      BY <2>1
    <3> QED BY <1>1, <3>1
  <2>2. CASE j > Len(s)
    <3>1. j - Len(s) \in 1..Len(t) /\ (s \o t)[j] = t[j - Len(s)]
      BY <2>2
    <3> QED BY <3>1 DEF Touches
  <2> QED BY <2>1, <2>2
<1> QED BY <1>1, <1>2, <1>3 DEF EndsWith

(* A log whose end sets the code touches it.                               *)
LEMMA EndsTouches ==
    ASSUME NEW s, NEW c, NEW v, EndsWith(s, c, v)
    PROVE  Touches(s, c)
BY DEF EndsWith, Touches

LEMMA DeterminesRight ==
    ASSUME NEW base, NEW s \in Seq(Lines), NEW t \in Seq(Lines), NEW c, NEW v,
           EndsWith(t, c, v)
    PROVE  Determines(base, s \o t, c, v)
BY EndsRight, EndsTouches, TouchesConcat DEF Determines

LEMMA DeterminesLeft ==
    ASSUME NEW base, NEW s \in Seq(Lines), NEW t \in Seq(Lines), NEW c, NEW v,
           Determines(base, s, c, v), ~Touches(t, c)
    PROVE  Determines(base, s \o t, c, v)
BY EndsLeft, TouchesConcat DEF Determines

(* One more line.                                                          *)
LEMMA TouchesAppend ==
    ASSUME NEW s \in Seq(Lines), NEW l \in Lines, NEW c
    PROVE  Touches(Append(s, l), c) <=> Touches(s, c) \/ Sets(l, c)
<1>1. Append(s, l) = s \o <<l>> /\ <<l>> \in Seq(Lines)
  OBVIOUS
<1>2. Touches(<<l>>, c) <=> Sets(l, c)
  BY DEF Touches
<1>3. Touches(s \o <<l>>, c) <=> Touches(s, c) \/ Touches(<<l>>, c)
  BY <1>1, TouchesConcat
<1> QED BY <1>1, <1>2, <1>3

LEMMA EndsAppend ==
    ASSUME NEW s \in Seq(Lines), NEW l \in Lines, NEW c, NEW v
    PROVE  /\ Sets(l, c) => EndsWith(Append(s, l), c, LineValue(l))
           /\ ~Sets(l, c) /\ EndsWith(s, c, v) => EndsWith(Append(s, l), c, v)
<1>1. Append(s, l) = s \o <<l>> /\ <<l>> \in Seq(Lines)
  OBVIOUS
<1>2. Touches(<<l>>, c) <=> Sets(l, c)
  BY DEF Touches
<1>3. Sets(l, c) => EndsWith(<<l>>, c, LineValue(l))
  BY DEF EndsWith
<1> QED BY <1>1, <1>2, <1>3, EndsLeft, EndsRight

(* A written log p stands for a queued one q, as far as code c goes: the   *)
(* lines that set c are the same, at the same places.                      *)
Carries(p, q, c) ==
    /\ Len(p) <= Len(q)
    /\ \A k \in 1..Len(p) : p[k] = q[k] \/ (~Sets(p[k], c) /\ ~Sets(q[k], c))
    /\ \A k \in (Len(p) + 1)..Len(q) : ~Sets(q[k], c)

LEMMA CarriesTouches ==
    ASSUME NEW p \in Seq(Lines), NEW q \in Seq(Lines), NEW c, Carries(p, q, c)
    PROVE  Touches(p, c) <=> Touches(q, c)
BY DEF Carries, Touches

LEMMA CarriesEnds ==
    ASSUME NEW p \in Seq(Lines), NEW q \in Seq(Lines), NEW c, NEW v,
           Carries(p, q, c), EndsWith(q, c, v)
    PROVE  EndsWith(p, c, v)
<1>1. PICK k \in 1..Len(q) : /\ Sets(q[k], c) /\ LineValue(q[k]) = v
                             /\ \A j \in (k + 1)..Len(q) : ~Sets(q[j], c)
  BY DEF EndsWith
<1>2. k \in 1..Len(p) /\ p[k] = q[k]
  BY <1>1 DEF Carries
<1>3. ASSUME NEW j \in (k + 1)..Len(p) PROVE ~Sets(p[j], c)
  BY <1>1 DEF Carries
<1> QED BY <1>1, <1>2, <1>3 DEF EndsWith

(* Writing p instead of q after s determines the same value.               *)
LEMMA CarriesDetermines ==
    ASSUME NEW base, NEW s \in Seq(Lines), NEW p \in Seq(Lines), NEW q \in Seq(Lines),
           NEW c, NEW v, Carries(p, q, c), Determines(base, s \o q, c, v)
    PROVE  Determines(base, s \o p, c, v)
<1>1. Carries(s \o p, s \o q, c)
  <2>1. /\ Len(s \o p) = Len(s) + Len(p) /\ Len(s \o q) = Len(s) + Len(q)
        /\ Len(s) \in Nat /\ Len(p) \in Nat /\ Len(q) \in Nat /\ Len(p) <= Len(q)
    BY DEF Carries
  <2>2. ASSUME NEW k \in 1..(Len(s) + Len(p))
        PROVE  (s \o p)[k] = (s \o q)[k] \/ (~Sets((s \o p)[k], c) /\ ~Sets((s \o q)[k], c))
    <3>1. CASE k \in 1..Len(s)
      BY <2>1, <3>1
    <3>2. CASE k - Len(s) \in 1..Len(p)
      <4>1. (s \o p)[k] = p[k - Len(s)] /\ (s \o q)[k] = q[k - Len(s)]
        BY <2>1, <3>2
      <4> QED BY <3>2, <4>1 DEF Carries
    <3> QED BY <2>1, <3>1, <3>2
  <2>3. ASSUME NEW k \in (Len(s) + Len(p) + 1)..(Len(s) + Len(q)) PROVE ~Sets((s \o q)[k], c)
    <3>1. k - Len(s) \in (Len(p) + 1)..Len(q) /\ (s \o q)[k] = q[k - Len(s)]
      BY <2>1
    <3> QED BY <3>1 DEF Carries
  <2> QED BY <2>1, <2>2, <2>3 DEF Carries
<1>2. s \o p \in Seq(Lines) /\ s \o q \in Seq(Lines)
  OBVIOUS
<1> QED BY <1>1, <1>2, CarriesTouches, CarriesEnds DEF Determines

-----------------------------------------------------------------------------
(* A log that sets a code has a last line that does.                       *)
LEMMA LastSetter ==
    ASSUME NEW s \in Seq(Lines), NEW c, Touches(s, c)
    PROVE  \E k \in 1..Len(s) : Sets(s[k], c) /\ \A j \in (k + 1)..Len(s) : ~Sets(s[j], c)
<1> DEFINE R == OpToRel(<, Nat)
           m == Len(s)
           T == {n \in Nat : n < m /\ Sets(s[m - n], c)}
<1>1. IsWellFoundedOn(R, Nat)
  BY NatLessThanWellFounded
<1>2. \A x, y \in Nat : x < y => <<x, y>> \in R
  BY DEF OpToRel
<1>3. m \in Nat
  OBVIOUS
<1>4. T # {}
  <2>1. PICK k \in 1..m : Sets(s[k], c)
    BY DEF Touches
  <2> HIDE DEF m
  <2>2. m - k \in Nat /\ m - k < m /\ m - (m - k) = k
    BY <1>3
  <2> QED BY <2>1, <2>2
<1> HIDE DEF R, m
<1>5. PICK x \in T : \A y \in T : ~ (<<y, x>> \in R)
  <2>1. T \subseteq Nat
    OBVIOUS
  <2> HIDE DEF T
  <2> QED BY <1>1, <1>4, <2>1, WFMin
<1>6. m - x \in 1..m /\ Sets(s[m - x], c) /\ x \in Nat
  BY <1>3
<1>7. ASSUME NEW j \in (m - x + 1)..m, Sets(s[j], c) PROVE FALSE
  <2>1. m - j \in Nat /\ m - j < m /\ m - (m - j) = j /\ m - j < x
    BY <1>3, <1>6, <1>7
  <2>2. m - j \in T
    BY <1>7, <2>1
  <2> QED BY <1>2, <1>5, <1>6, <2>1, <2>2
<1> QED BY <1>6, <1>7 DEF m

(* A log determines one value.                                             *)
LEMMA DeterminesOne ==
    ASSUME NEW base, NEW s \in Seq(Lines), NEW c, NEW v, NEW w,
           Determines(base, s, c, v), Determines(base, s, c, w)
    PROVE  v = w
<1>1. CASE ~Touches(s, c)
  BY <1>1 DEF Determines
<1>2. CASE Touches(s, c)
  <2>1. PICK k \in 1..Len(s) : /\ Sets(s[k], c) /\ LineValue(s[k]) = v
                               /\ \A j \in (k + 1)..Len(s) : ~Sets(s[j], c)
    BY <1>2 DEF Determines, EndsWith
  <2>2. PICK i \in 1..Len(s) : /\ Sets(s[i], c) /\ LineValue(s[i]) = w
                               /\ \A j \in (i + 1)..Len(s) : ~Sets(s[j], c)
    BY <1>2 DEF Determines, EndsWith
  <2>3. k = i
    <3> DEFINE m == Len(s)
    <3>1. m \in Nat
      OBVIOUS
    <3> HIDE DEF m
    <3>2. ~ (k < i) /\ ~ (i < k)
      BY <2>1, <2>2, <3>1 DEF m
    <3> QED BY <3>1, <3>2 DEF m
  <2> QED BY <2>1, <2>2, <2>3
<1> QED BY <1>1, <1>2

(* The lines of s give code c values in V, and so do base and s together.  *)
Gives(s, c, V) == \A k \in 1..Len(s) : Sets(s[k], c) => LineValue(s[k]) \in V
Finds(base, s, c, V) == \E v \in V : Determines(base, s, c, v)

LEMMA GivesConcat ==
    ASSUME NEW s \in Seq(Lines), NEW t \in Seq(Lines), NEW c, NEW V,
           Gives(s, c, V), Gives(t, c, V)
    PROVE  Gives(s \o t, c, V)
<1>1. ASSUME NEW k \in 1..Len(s \o t), Sets((s \o t)[k], c) PROVE LineValue((s \o t)[k]) \in V
  <2>1. CASE k <= Len(s)
    <3>1. k \in 1..Len(s) /\ (s \o t)[k] = s[k]
      BY <2>1
    <3> QED BY <1>1, <3>1 DEF Gives
  <2>2. CASE k > Len(s)
    <3>1. k - Len(s) \in 1..Len(t) /\ (s \o t)[k] = t[k - Len(s)]
      BY <2>2
    <3> QED BY <1>1, <3>1 DEF Gives
  <2> QED BY <2>1, <2>2
<1> QED BY <1>1 DEF Gives

LEMMA CarriesGives ==
    ASSUME NEW p \in Seq(Lines), NEW q \in Seq(Lines), NEW c, NEW V,
           Carries(p, q, c), Gives(q, c, V)
    PROVE  Gives(p, c, V)
BY DEF Carries, Gives

(* However much of t is left after s, it gives nothing else.               *)
LEMMA FindsMore ==
    ASSUME NEW base, NEW s \in Seq(Lines), NEW t \in Seq(Lines), NEW c, NEW V,
           Finds(base, s, c, V), Gives(t, c, V)
    PROVE  Finds(base, s \o t, c, V)
<1>1. CASE Touches(t, c)
  <2>1. PICK k \in 1..Len(t) : Sets(t[k], c) /\ \A j \in (k + 1)..Len(t) : ~Sets(t[j], c)
    BY <1>1, LastSetter
  <2>2. EndsWith(t, c, LineValue(t[k])) /\ LineValue(t[k]) \in V
    BY <2>1 DEF EndsWith, Gives
  <2> QED BY <2>2, DeterminesRight DEF Finds
<1>2. CASE ~Touches(t, c)
  BY <1>2, DeterminesLeft DEF Finds
<1> QED BY <1>1, <1>2

LEMMA FindsPrefix ==
    ASSUME NEW base, NEW s \in Seq(Lines), NEW t \in Seq(Lines), NEW c, NEW V,
           Gives(t, c, V), NEW m \in 0..Len(s),
           \A n \in m..Len(s) : Finds(base, SubSeq(s, 1, n), c, V)
    PROVE  \A n \in m..Len(s \o t) : Finds(base, SubSeq(s \o t, 1, n), c, V)
<1> SUFFICES ASSUME NEW n \in m..Len(s \o t) PROVE Finds(base, SubSeq(s \o t, 1, n), c, V)
  OBVIOUS
<1>1. CASE n <= Len(s)
  <2>1. SubSeq(s \o t, 1, n) = SubSeq(s, 1, n) /\ n \in m..Len(s)
    BY <1>1
  <2> QED BY <2>1
<1>2. CASE n > Len(s)
  <2> DEFINE u == SubSeq(t, 1, n - Len(s))
  <2>1. n - Len(s) \in 1..Len(t)
    BY <1>2
  <2>2. /\ u \in Seq(Lines) /\ Len(u) = n - Len(s)
        /\ \A k \in 1..Len(u) : u[k] = t[k] /\ k \in 1..Len(t)
    BY <2>1
  <2>3. SubSeq(s \o t, 1, n) = s \o u
    BY <1>2, <2>1
  <2>4. Gives(u, c, V)
    BY <2>2 DEF Gives
  <2>5. Finds(base, s, c, V)
    <3>1. SubSeq(s, 1, Len(s)) = s /\ Len(s) \in m..Len(s)
      OBVIOUS
    <3> QED BY <3>1
  <2> HIDE DEF u
  <2> QED BY <2>2, <2>3, <2>4, <2>5, FindsMore
<1> QED BY <1>1, <1>2
-----------------------------------------------------------------------------
(* Lines and the fold of a line into the index.                            *)

(* The constructors build lines.                                           *)
LEMMA LineTypes ==
    /\ \A c \in Codes, u \in AllUrls, e \in Nat, i \in Nat, n \in Nat :
          RowLine(c, u, e, i, n) \in RowLines
    /\ \A c \in Codes : DelLine(c) \in DelLines
    /\ \A c \in Codes, d \in Nat, i \in Nat : HitLine(c, d, i) \in HitLines
BY DEF RowLine, RowLines, DelLine, DelLines, HitLine, HitLines

(* Folding a line into a well-formed index leaves it well-formed.          *)
LEMMA ApplyType ==
    ASSUME NEW ix \in [Codes -> Entries \cup {None}], NEW sy \in [Codes -> Strays],
           NEW l \in Lines, NEW me, NEW x \in Apply([index |-> ix, stray |-> sy], l, me)
    PROVE  x.index \in [Codes -> Entries \cup {None}] /\ x.stray \in [Codes -> Strays]
<1> DEFINE st == [index |-> ix, stray |-> sy]
<1>0. NoStray \in Strays
  BY DEF NoStray, Strays
<1>1. CASE l \in RowLines
  <2>1. x = ApplyRow(st, l)
    BY <1>1 DEF Apply, RowLines
  <2>2. l.c \in Codes /\ RowEntry(l, sy[l.c]) \in Entries
    BY <1>1 DEF RowLines, RowEntry, Entries, Strays
  <2> QED BY <1>0, <2>1, <2>2 DEF ApplyRow
<1>2. CASE l \in DelLines
  <2>1. x = ApplyDel(st, l)
    BY <1>2 DEF Apply, DelLines
  <2> QED BY <1>0, <2>1 DEF ApplyDel
<1>3. CASE l \in HitLines
  <2>0. l.c \in Codes /\ l.d \in Nat /\ OwnPart(l, me) \in Nat
    BY <1>3 DEF HitLines, OwnPart
  <2>1. CASE ix[l.c] # None
    <3>1. x = ApplyHit(st, l, me)
      BY <1>3, <2>1 DEF Apply, HitLines
    <3> QED BY <2>0, <2>1, <3>1 DEF ApplyHit, Entries
  <2>2. CASE ix[l.c] = None
    <3>1. PICK ev \in Evictions(sy) : x = ApplyStray(st, l, me, ev)
      BY <1>3, <2>2 DEF Apply, HitLines
    <3> DEFINE kept == [c \in Codes |-> IF c \in ev THEN NoStray ELSE sy[c]]
    <3>2. kept \in [Codes -> Strays]
      BY <1>0
    <3>3. [t |-> kept[l.c].t + l.d, o |-> kept[l.c].o + OwnPart(l, me)] \in Strays
      BY <2>0, <3>2 DEF Strays
    <3> QED BY <3>1, <3>2, <3>3 DEF ApplyStray
  <2> QED BY <2>1, <2>2
<1>4. CASE l = JunkLine
  BY <1>4 DEF Apply, JunkLine
<1> QED BY <1>1, <1>2, <1>3, <1>4 DEF Lines

(* What a client observes of an entry is its link.                         *)
LEMMA SameLink ==
    ASSUME NEW x \in Entries, NEW y \in Entries, x.u = y.u, x.e = y.e
    PROVE  Value(x) = Value(y)
BY NoneAssumption DEF Value

(* Counting hits changes nothing a client can observe otherwise.           *)
LEMMA CountHits ==
    ASSUME NEW x \in Entries, NEW d \in Nat, NEW o \in Nat
    PROVE  /\ [x EXCEPT !.h = @ + d, !.oh = @ + o] \in Entries
           /\ Value([x EXCEPT !.h = @ + d, !.oh = @ + o]) = Value(x)
           /\ [x EXCEPT !.h = @ + d, !.oh = @ + o].i = x.i
<1>1. ASSUME NEW a \in Nat, NEW b \in Nat
      PROVE  /\ [x EXCEPT !.h = a, !.oh = b] \in Entries
             /\ [x EXCEPT !.h = a, !.oh = b].u = x.u
             /\ [x EXCEPT !.h = a, !.oh = b].e = x.e
             /\ [x EXCEPT !.h = a, !.oh = b].i = x.i
  BY DEF Entries
<1>2. x.h + d \in Nat /\ x.oh + o \in Nat
  BY DEF Entries
<1> DEFINE y == [x EXCEPT !.h = x.h + d, !.oh = x.oh + o]
<1>3. y \in Entries /\ y.u = x.u /\ y.e = x.e /\ y.i = x.i
  BY <1>1, <1>2
<1>4. x # None /\ y # None
  BY <1>3, NoneAssumption
<1> QED BY <1>3, <1>4 DEF Value

(* Folding a line sets the value of the code the line sets, and no other.  *)
LEMMA ApplyValue ==
    ASSUME NEW ix \in [Codes -> Entries \cup {None}], NEW sy \in [Codes -> Strays],
           NEW l \in Lines, NEW me, NEW x \in Apply([index |-> ix, stray |-> sy], l, me),
           NEW c \in Codes
    PROVE  Value(x.index[c]) = IF Sets(l, c) THEN LineValue(l) ELSE Value(ix[c])
<1> DEFINE st == [index |-> ix, stray |-> sy]
<1>1. CASE l \in RowLines
  <2>1. x = ApplyRow(st, l) /\ l.c \in Codes
    BY <1>1 DEF Apply, RowLines
  <2>2. x.index = [ix EXCEPT ![l.c] = RowEntry(l, sy[l.c])]
    BY <2>1 DEF ApplyRow
  <2>3. RowEntry(l, sy[l.c]) \in Entries
    BY <1>1, <2>1 DEF RowEntry, RowLines, Entries, Strays
  <2>4. Value(RowEntry(l, sy[l.c])) = LineValue(l)
    BY <1>1, <2>3, NoneAssumption DEF Value, LineValue, RowEntry, RowLines
  <2>5. Sets(l, c) <=> l.c = c
    BY <1>1 DEF Sets, RowLines
  <2> QED BY <2>1, <2>2, <2>4, <2>5
<1>2. CASE l \in DelLines
  <2>1. x = ApplyDel(st, l) /\ l.c \in Codes
    BY <1>2 DEF Apply, DelLines
  <2>2. x.index = [ix EXCEPT ![l.c] = None]
    BY <2>1 DEF ApplyDel
  <2>3. Sets(l, c) <=> l.c = c
    BY <1>2 DEF Sets, DelLines
  <2>4. LineValue(l) = None /\ Value(None) = None
    BY <1>2 DEF LineValue, Value, DelLines
  <2> QED BY <2>1, <2>2, <2>3, <2>4
<1>3. CASE l \in HitLines
  <2>0. ~Sets(l, c) /\ l.c \in Codes
    BY <1>3 DEF Sets, HitLines
  <2>1. CASE ix[l.c] # None
    <3>1. x = ApplyHit(st, l, me)
      BY <1>3, <2>1 DEF Apply, HitLines
    <3>2. x.index[c] = IF c = l.c
                       THEN [ix[c] EXCEPT !.h = @ + l.d, !.oh = @ + OwnPart(l, me)]
                       ELSE ix[c]
      BY <2>0, <3>1 DEF ApplyHit
    <3>3. l.d \in Nat /\ OwnPart(l, me) \in Nat
      BY <1>3 DEF HitLines, OwnPart
    <3>4. ix[l.c] \in Entries
      BY <2>0, <2>1
    <3>5. Value([ix[l.c] EXCEPT !.h = @ + l.d, !.oh = @ + OwnPart(l, me)]) = Value(ix[l.c])
      BY <3>3, <3>4, CountHits
    <3> QED BY <2>0, <3>2, <3>5
  <2>2. CASE ix[l.c] = None
    <3>1. PICK ev \in Evictions(sy) : x = ApplyStray(st, l, me, ev)
      BY <1>3, <2>2 DEF Apply, HitLines
    <3>2. x.index = ix
      BY <3>1 DEF ApplyStray
    <3> QED BY <2>0, <3>2
  <2> QED BY <2>1, <2>2
<1>4. CASE l = JunkLine
  BY <1>4 DEF Apply, JunkLine, Sets
<1> QED BY <1>1, <1>2, <1>3, <1>4 DEF Lines
(* An entry is as it was, hits aside, or the row of the line.              *)
LEMMA ApplyEntry ==
    ASSUME NEW ix \in [Codes -> Entries \cup {None}], NEW sy \in [Codes -> Strays],
           NEW l \in Lines, NEW me, NEW x \in Apply([index |-> ix, stray |-> sy], l, me),
           NEW c \in Codes, x.index[c] # None
    PROVE  \/ /\ Sets(l, c) /\ l.k = "row"
              /\ x.index[c].u = l.u /\ x.index[c].e = l.e /\ x.index[c].i = l.i
           \/ /\ ix[c] # None
              /\ x.index[c].u = ix[c].u /\ x.index[c].e = ix[c].e /\ x.index[c].i = ix[c].i
<1> DEFINE st == [index |-> ix, stray |-> sy]
<1>1. CASE l \in RowLines
  <2>1. x = ApplyRow(st, l) /\ l.c \in Codes /\ l.k = "row"
    BY <1>1 DEF Apply, RowLines
  <2>2. x.index = [ix EXCEPT ![l.c] = RowEntry(l, sy[l.c])]
    BY <2>1 DEF ApplyRow
  <2> DEFINE y == RowEntry(l, sy[l.c])
  <2>3. y.u = l.u /\ y.e = l.e /\ y.i = l.i
    BY DEF RowEntry
  <2>4. x.index[c] = IF c = l.c THEN y ELSE ix[c]
    BY <2>1, <2>2
  <2> HIDE DEF y
  <2> QED BY <2>1, <2>3, <2>4 DEF Sets
<1>2. CASE l \in DelLines
  <2>1. x = ApplyDel(st, l)
    BY <1>2 DEF Apply, DelLines
  <2>2. x.index = [ix EXCEPT ![l.c] = None]
    BY <2>1 DEF ApplyDel
  <2> QED BY <2>2
<1>3. CASE l \in HitLines
  <2>1. CASE ix[l.c] # None
    <3>1. x = ApplyHit(st, l, me) /\ l.c \in Codes
      BY <1>3, <2>1 DEF Apply, HitLines
    <3>2. l.d \in Nat /\ OwnPart(l, me) \in Nat /\ ix[l.c] \in Entries
      BY <1>3, <2>1, <3>1 DEF HitLines, OwnPart
    <3> DEFINE y == [ix[l.c] EXCEPT !.h = @ + l.d, !.oh = @ + OwnPart(l, me)]
    <3>3. y.i = ix[l.c].i /\ y.u = ix[l.c].u /\ y.e = ix[l.c].e
      BY <3>2 DEF Entries
    <3>4. \A d \in Codes : x.index[d] = IF d = l.c THEN y ELSE ix[d]
      BY <3>1 DEF ApplyHit
    <3> HIDE DEF y
    <3> QED BY <2>1, <3>1, <3>3, <3>4
  <2>2. CASE ix[l.c] = None
    <3>1. PICK ev \in Evictions(sy) : x = ApplyStray(st, l, me, ev)
      BY <1>3, <2>2 DEF Apply, HitLines
    <3> QED BY <3>1 DEF ApplyStray
  <2> QED BY <2>1, <2>2
<1>4. CASE l = JunkLine
  BY <1>4 DEF Apply, JunkLine
<1> QED BY <1>1, <1>2, <1>3, <1>4 DEF Lines

(* A part of the log that does not set a code has no say in it, whatever   *)
(* the log is replayed over: only the value there counts.                  *)
LEMMA DeterminesBase ==
    ASSUME NEW base, NEW other, NEW s, NEW c, NEW v, Value(base[c]) = Value(other[c]),
           Determines(base, s, c, v)
    PROVE  Determines(other, s, c, v)
BY DEF Determines

LEMMA DeterminesEmpty ==
    ASSUME NEW base, NEW c, NEW v
    PROVE  Determines(base, <<>>, c, v) <=> Value(base[c]) = v
BY DEF Determines, Touches

(* There is a value that a log determines.                                 *)
LEMMA DeterminesSome ==
    ASSUME NEW base, NEW s \in Seq(Lines), NEW c
    PROVE  \E v : Determines(base, s, c, v)
<1>1. CASE Touches(s, c)
  <2>1. PICK k \in 1..Len(s) : Sets(s[k], c) /\ \A j \in (k + 1)..Len(s) : ~Sets(s[j], c)
    BY <1>1, LastSetter
  <2>2. EndsWith(s, c, LineValue(s[k]))
    BY <2>1 DEF EndsWith
  <2> QED BY <1>1, <2>2 DEF Determines
<1>2. CASE ~Touches(s, c)
  BY <1>2 DEF Determines
<1> QED BY <1>1, <1>2

(* Replaying t over what base and s determine is replaying both over base. *)
LEMMA DeterminesSplit ==
    ASSUME NEW base, NEW ix, NEW s \in Seq(Lines), NEW t \in Seq(Lines), NEW c, NEW v,
           Determines(base, s, c, Value(ix[c]))
    PROVE  Determines(ix, t, c, v) <=> Determines(base, s \o t, c, v)
<1>1. ASSUME NEW w, Determines(ix, t, c, w) PROVE Determines(base, s \o t, c, w)
  <2>1. CASE Touches(t, c)
    BY <1>1, <2>1, DeterminesRight DEF Determines
  <2>2. CASE ~Touches(t, c)
    BY <1>1, <2>2, DeterminesLeft DEF Determines
  <2> QED BY <2>1, <2>2
<1>2. PICK w : Determines(ix, t, c, w)
  BY DeterminesSome
<1>3. s \o t \in Seq(Lines)
  OBVIOUS
<1> QED BY <1>1, <1>2, <1>3, DeterminesOne

(* What a log in hand determines is not changed by applying its first line.*)
LEMMA DeterminesTail ==
    ASSUME NEW ix \in [Codes -> Entries \cup {None}], NEW sy \in [Codes -> Strays],
           NEW s \in Seq(Lines), s # <<>>, NEW me,
           NEW x \in Apply([index |-> ix, stray |-> sy], Head(s), me),
           NEW c \in Codes, NEW v, Determines(ix, s, c, v)
    PROVE  Determines(x.index, Tail(s), c, v)
<1> DEFINE l == Head(s)
           h == <<l>>
<1>1. l \in Lines /\ Tail(s) \in Seq(Lines) /\ h \in Seq(Lines) /\ s = h \o Tail(s)
  OBVIOUS
<1>2. Value(x.index[c]) = IF Sets(l, c) THEN LineValue(l) ELSE Value(ix[c])
  BY <1>1, ApplyValue
<1>3. Determines(ix, h, c, Value(x.index[c]))
  BY <1>2 DEF Determines, Touches, EndsWith
<1> HIDE DEF h, l
<1>4. Determines(x.index, Tail(s), c, v) <=> Determines(ix, h \o Tail(s), c, v)
  <2> DEFINE t == Tail(s)
             ax == x.index
  <2>1. t \in Seq(Lines) /\ Determines(ix, h, c, Value(ax[c]))
    BY <1>1, <1>3
  <2> HIDE DEF t, ax
  <2>2. Determines(ax, t, c, v) <=> Determines(ix, h \o t, c, v)
    BY <1>1, <2>1, DeterminesSplit
  <2> QED BY <2>2 DEF t, ax
<1> QED BY <1>1, <1>4

(* All orders of a finite set are sequences of its elements.               *)
LEMMA OrdersSeq ==
    ASSUME NEW S, Cardinality(S) \in Nat, NEW s \in Orders(S)
    PROVE  s \in Seq(S)
BY DEF Orders

-----------------------------------------------------------------------------
(* The hits that lines record.                                             *)

IsRow(l, c) == l.k = "row" /\ l.c = c

(* A line stands for as many hits of a code as it records.                 *)
Gain(l, c)    == IF l.k = "hit" /\ l.c = c THEN l.d ELSE 0
OwnGain(l, c, me) == IF l.k = "hit" /\ l.c = c THEN OwnPart(l, me) ELSE 0

(* What an index shows for a code: hits of everybody, hits of its own.     *)
Tally(ix, sy, c)    == (IF ix[c] = None THEN 0 ELSE ix[c].h) + sy[c].t
OwnTally(ix, sy, c) == (IF ix[c] = None THEN 0 ELSE ix[c].oh) + sy[c].o

LEMMA GainType ==
    ASSUME NEW l \in Lines, NEW c
    PROVE  Gain(l, c) \in Nat /\ Hits(l, c) = 1..Gain(l, c)
<1>1. CASE l.k = "hit" /\ l.c = c
  <2>1. l \in HitLines
    BY <1>1 DEF Lines, RowLines, DelLines, JunkLine
  <2> QED BY <1>1, <2>1 DEF Gain, Hits, HitLines
<1>2. CASE ~(l.k = "hit" /\ l.c = c)
  <2>1. Gain(l, c) = 0 /\ Hits(l, c) = {}
    BY <1>2 DEF Gain, Hits
  <2> QED BY <2>1
<1> QED BY <1>1, <1>2

Triples(j, k, n) == {<<j, k, m>> : m \in 1..n}

LEMMA HitsCount ==
    ASSUME NEW j, NEW k, NEW n \in Nat
    PROVE  IsFiniteSet(Triples(j, k, n)) /\ Cardinality(Triples(j, k, n)) = n
<1> DEFINE T == {<<j, k, m>> : m \in 1..n}
           f == [m \in 1..n |-> <<j, k, m>>]
<1>1. IsFiniteSet(1..n) /\ Cardinality(1..n) = n
  <2>1. IsFiniteSet(1..n) /\ Cardinality(1..n) = IF 1 > n THEN 0 ELSE n - 1 + 1
    BY FS_Interval
  <2> QED BY <2>1
<1>2. f \in Bijection(1..n, T)
  <2>1. f \in [1..n -> T]
    OBVIOUS
  <2>2. \A a, b \in 1..n : f[a] = f[b] => a = b
    OBVIOUS
  <2>3. \A t \in T : \E m \in 1..n : f[m] = t
    OBVIOUS
  <2> HIDE DEF f, T
  <2> QED BY <2>1, <2>2, <2>3 DEF Bijection, Injection, Surjection, IsInjective
<1>3. ExistsBijection(1..n, T)
  BY <1>2 DEF ExistsBijection
<1> QED BY <1>1, <1>3, FS_Bijection DEF Triples

(* Hits that are added to others are counted with them.                    *)
LEMMA HitsAdd ==
    ASSUME NEW S, IsFiniteSet(S), NEW T, IsFiniteSet(T), S \cap T = {}
    PROVE  /\ IsFiniteSet(S \cup T) /\ Cardinality(S \cup T) = Cardinality(S) + Cardinality(T)
           /\ Cardinality(S) \in Nat /\ Cardinality(T) \in Nat
<1>1. Cardinality(S \cap T) = 0
  BY FS_EmptySet
<1>2. Cardinality(S) \in Nat /\ Cardinality(T) \in Nat
  BY FS_CardinalityType
<1>3. IsFiniteSet(S \cup T) /\ Cardinality(S \cup T) = Cardinality(S) + Cardinality(T) - Cardinality(S \cap T)
  BY FS_Union
<1> QED BY <1>1, <1>2, <1>3

(* A sequence of all elements of a finite set has each of them once.       *)
LEMMA OrdersAll ==
    ASSUME NEW S, IsFiniteSet(S), NEW s \in Orders(S)
    PROVE  /\ Len(s) \in Nat /\ \A k \in 1..Len(s) : s[k] \in S
           /\ \A x \in S : \E k \in 1..Len(s) : s[k] = x /\ \A n \in 1..Len(s) : s[n] = x => n = k
<1> DEFINE n == Cardinality(S)
<1>1. n \in Nat
  BY FS_CardinalityType
<1>2. s \in [1..n -> S] /\ \A j, k \in 1..n : s[j] = s[k] => j = k
  BY DEF Orders
<1>3. Len(s) = n
  <2>1. s \in Seq(S)
    BY <1>1, OrdersSeq
  <2>2. DOMAIN s = 1..Len(s) /\ Len(s) \in Nat /\ DOMAIN s = 1..n
    BY <1>2, <2>1
  <2> QED BY <1>1, <2>2
<1> HIDE DEF n
<1>4. IsFiniteSet(1..n) /\ Cardinality(1..n) = n
  <2>1. IsFiniteSet(1..n) /\ Cardinality(1..n) = IF 1 > n THEN 0 ELSE n - 1 + 1
    BY <1>1, FS_Interval
  <2> QED BY <1>1, <2>1
<1>5. s \in Injection(1..n, S)
  BY <1>2 DEF Injection, IsInjective
<1>6. s \in Surjection(1..n, S)
  BY <1>4, <1>5, FS_Injection DEF n
<1>7. \A x \in S : \E k \in 1..n : s[k] = x
  BY <1>6 DEF Surjection
<1> QED BY <1>1, <1>2, <1>3, <1>7

LEMMA TallyType ==
    ASSUME NEW ix \in [Codes -> Entries \cup {None}], NEW sy \in [Codes -> Strays], NEW c \in Codes
    PROVE  Tally(ix, sy, c) \in Nat /\ OwnTally(ix, sy, c) \in Nat
<1>1. sy[c].t \in Nat /\ sy[c].o \in Nat /\ (ix[c] # None => ix[c].h \in Nat /\ ix[c].oh \in Nat)
  BY DEF Entries, Strays
<1> QED BY <1>1 DEF Tally, OwnTally

(* What a line adds to the hits an index shows, if the map of stray hits   *)
(* has room for every code.                                                *)
LEMMA ApplyTally ==
    ASSUME Cardinality(Codes) < MaxStray,
           NEW ix \in [Codes -> Entries \cup {None}], NEW sy \in [Codes -> Strays],
           NEW l \in Lines, l.k \in {"row", "hit"}, l.k = "row" => l.n = 0, NEW me,
           NEW x \in Apply([index |-> ix, stray |-> sy], l, me), NEW c \in Codes,
           IsRow(l, c) => ix[c] = None
    PROVE  /\ Tally(x.index, x.stray, c) = Tally(ix, sy, c) + Gain(l, c)
           /\ OwnTally(x.index, x.stray, c) = OwnTally(ix, sy, c) + OwnGain(l, c, me)
<1> DEFINE st == [index |-> ix, stray |-> sy]
           T == Tally(x.index, x.stray, c)
           O == OwnTally(x.index, x.stray, c)
<1>0. /\ Tally(ix, sy, c) \in Nat /\ OwnTally(ix, sy, c) \in Nat /\ sy[c].t \in Nat /\ sy[c].o \in Nat
  BY TallyType DEF Strays
<1>c. ASSUME Gain(l, c) = 0, OwnGain(l, c, me) = 0, x.index[c] = ix[c], x.stray[c] = sy[c]
      PROVE  T = Tally(ix, sy, c) + Gain(l, c) /\ O = OwnTally(ix, sy, c) + OwnGain(l, c, me)
  BY <1>0, <1>c DEF Tally, OwnTally
<1>1. CASE l.k = "row"
  <2>1. l \in RowLines
    BY <1>1 DEF Lines, HitLines, DelLines, JunkLine
  <2>2. x = ApplyRow(st, l) /\ l.c \in Codes /\ Gain(l, c) = 0 /\ OwnGain(l, c, me) = 0
    BY <1>1, <2>1 DEF Apply, RowLines, Gain, OwnGain
  <2>3. /\ x.index = [ix EXCEPT ![l.c] = RowEntry(l, sy[l.c])]
        /\ x.stray = [sy EXCEPT ![l.c] = NoStray]
    BY <2>2 DEF ApplyRow
  <2>4. CASE l.c = c
    <3> DEFINE y == RowEntry(l, sy[c])
    <3>1. y \in Entries /\ y.h = 0 + sy[c].t /\ y.oh = 0 + sy[c].o
      BY <1>1, <2>1, <2>4 DEF RowEntry, RowLines, Entries, Strays
    <3>2. y # None
      BY <3>1, NoneAssumption
    <3>3. x.index[c] = y /\ x.stray[c] = NoStray /\ ix[c] = None
      BY <1>1, <2>2, <2>3, <2>4 DEF IsRow
    <3> HIDE DEF y
    <3>4. T = 0 + sy[c].t + 0 /\ Tally(ix, sy, c) = 0 + sy[c].t
      BY <3>1, <3>2, <3>3 DEF Tally, NoStray
    <3>5. O = 0 + sy[c].o + 0 /\ OwnTally(ix, sy, c) = 0 + sy[c].o
      BY <3>1, <3>2, <3>3 DEF OwnTally, NoStray
    <3> HIDE DEF T, O
    <3> QED BY <1>0, <2>2, <3>4, <3>5 DEF T, O
  <2>5. CASE l.c # c
    <3>1. x.index[c] = ix[c] /\ x.stray[c] = sy[c]
      BY <2>3, <2>5
    <3> QED BY <1>c, <2>2, <3>1
  <2> QED BY <2>4, <2>5
<1>2. CASE l.k = "hit"
  <2>0. l \in HitLines
    BY <1>2 DEF Lines, RowLines, DelLines, JunkLine
  <2>1. l.c \in Codes /\ l.d \in Nat /\ OwnPart(l, me) \in Nat
    BY <2>0 DEF HitLines, OwnPart
  <2>g. IF l.c = c THEN Gain(l, c) = l.d /\ OwnGain(l, c, me) = OwnPart(l, me)
        ELSE Gain(l, c) = 0 /\ OwnGain(l, c, me) = 0
    BY <1>2 DEF Gain, OwnGain
  <2>2. CASE ix[l.c] # None
    <3> DEFINE y == [ix[l.c] EXCEPT !.h = @ + l.d, !.oh = @ + OwnPart(l, me)]
    <3>1. x = ApplyHit(st, l, me)
      BY <1>2, <2>2 DEF Apply
    <3>2. (\A d \in Codes : x.index[d] = IF d = l.c THEN y ELSE ix[d]) /\ x.stray = sy
      BY <3>1 DEF ApplyHit
    <3>3. ix[l.c] \in Entries /\ ix[l.c].h \in Nat /\ ix[l.c].oh \in Nat
      BY <2>1, <2>2 DEF Entries
    <3>4. y \in Entries
      BY <2>1, <3>3, CountHits
    <3>5. y.h = ix[l.c].h + l.d /\ y.oh = ix[l.c].oh + OwnPart(l, me)
      BY <3>3 DEF Entries
    <3>6. y # None
      BY <3>4, NoneAssumption
    <3> HIDE DEF y
    <3>7. CASE l.c = c
      <4>1. x.index[c] = y /\ x.stray[c] = sy[c]
        BY <3>2, <3>7
      <4>2. T = ix[c].h + l.d + sy[c].t /\ Tally(ix, sy, c) = ix[c].h + sy[c].t
        BY <2>2, <3>5, <3>6, <3>7, <4>1 DEF Tally
      <4>3. O = ix[c].oh + OwnPart(l, me) + sy[c].o /\ OwnTally(ix, sy, c) = ix[c].oh + sy[c].o
        BY <2>2, <3>5, <3>6, <3>7, <4>1 DEF OwnTally
      <4> HIDE DEF T, O
      <4> QED BY <1>0, <2>1, <2>g, <3>3, <3>7, <4>2, <4>3 DEF T, O
    <3>8. CASE l.c # c
      <4>1. x.index[c] = ix[c] /\ x.stray[c] = sy[c]
        BY <3>2, <3>8
      <4> QED BY <1>c, <2>g, <3>8, <4>1
    <3> QED BY <3>7, <3>8
  <2>3. CASE ix[l.c] = None
    <3>1. Evictions(sy) = {{}}
      <4>1. Stray(sy) \in SUBSET Codes
        BY DEF Stray
      <4>2. Cardinality(Stray(sy)) <= Cardinality(Codes) /\ IsFiniteSet(Stray(sy))
        BY <4>1, LogAssumption, FS_Subset
      <4>3. Cardinality(Stray(sy)) \in Nat /\ Cardinality(Codes) \in Nat /\ MaxStray \in Nat
        BY <4>2, LogAssumption, FS_CardinalityType
      <4>4. ~(Cardinality(Stray(sy)) >= MaxStray)
        BY <4>2, <4>3
      <4> QED BY <4>4 DEF Evictions
    <3>2. PICK ev \in Evictions(sy) : x = ApplyStray(st, l, me, ev)
      BY <1>2, <2>3 DEF Apply
    <3>3. ev = {}
      BY <3>1, <3>2
    <3> DEFINE kept == [d \in Codes |-> IF d \in ev THEN NoStray ELSE sy[d]]
    <3>4. kept = sy
      BY <3>3
    <3>5. /\ x.index = ix
          /\ x.stray = [kept EXCEPT ![l.c] = [t |-> @.t + l.d, o |-> @.o + OwnPart(l, me)]]
      BY <3>2 DEF ApplyStray
    <3> HIDE DEF kept
    <3>6. \A d \in Codes : x.stray[d] = IF d = l.c THEN [t |-> sy[d].t + l.d, o |-> sy[d].o + OwnPart(l, me)]
                                        ELSE sy[d]
      BY <2>1, <3>4, <3>5
    <3>7. CASE l.c = c
      <4>1. x.stray[c] = [t |-> sy[c].t + l.d, o |-> sy[c].o + OwnPart(l, me)]
        BY <3>6, <3>7
      <4>2. x.stray[c].t = sy[c].t + l.d /\ x.stray[c].o = sy[c].o + OwnPart(l, me)
        BY <4>1
      <4>3. T = 0 + (sy[c].t + l.d) /\ Tally(ix, sy, c) = 0 + sy[c].t
        BY <2>3, <3>5, <3>7, <4>2 DEF Tally
      <4>4. O = 0 + (sy[c].o + OwnPart(l, me)) /\ OwnTally(ix, sy, c) = 0 + sy[c].o
        BY <2>3, <3>5, <3>7, <4>2 DEF OwnTally
      <4> HIDE DEF T, O
      <4> QED BY <1>0, <2>1, <2>g, <3>7, <4>3, <4>4 DEF T, O
    <3>8. CASE l.c # c
      <4>1. x.index[c] = ix[c] /\ x.stray[c] = sy[c]
        BY <3>5, <3>6, <3>8
      <4> QED BY <1>c, <2>g, <3>8, <4>1
    <3> QED BY <3>7, <3>8
  <2> QED BY <2>2, <2>3
<1> QED BY <1>1, <1>2

LEMMA HitsFinite ==
    ASSUME NEW s \in Seq(Lines), NEW c
    PROVE  IsFiniteSet(HitsIn(s, c)) /\ Cardinality(HitsIn(s, c)) \in Nat
<1> DEFINE H(k) == {<<k, m>> : m \in Hits(s[k], c)}
           F == {H(k) : k \in 1..Len(s)}
           f == [k \in 1..Len(s) |-> H(k)]
<1>1. Len(s) \in Nat /\ IsFiniteSet(1..Len(s))
  BY FS_Interval
<1>2. f \in Surjection(1..Len(s), F)
  <2> HIDE DEF H
  <2> QED BY DEF Surjection
<1>3. IsFiniteSet(F)
  <2> HIDE DEF F, f
  <2> QED BY <1>1, <1>2, FS_Surjection
<1>4. ASSUME NEW k \in 1..Len(s) PROVE IsFiniteSet(H(k))
  <2> DEFINE n == Gain(s[k], c)
             g == [m \in 1..n |-> <<k, m>>]
  <2>1. n \in Nat /\ Hits(s[k], c) = 1..n
    BY GainType
  <2>2. IsFiniteSet(1..n)
    BY <2>1, FS_Interval
  <2> HIDE DEF n
  <2>3. g \in Surjection(1..n, H(k))
    BY <2>1 DEF Surjection
  <2> HIDE DEF g, H
  <2> QED BY <2>2, <2>3, FS_Surjection
<1>5. \A T \in F : IsFiniteSet(T)
  <2> HIDE DEF H
  <2> QED BY <1>4
<1>6. HitsIn(s, c) = UNION F
  BY DEF HitsIn
<1> HIDE DEF F
<1>7. IsFiniteSet(HitsIn(s, c))
  BY <1>3, <1>5, <1>6, FS_UNION
<1> QED BY <1>7, FS_CardinalityType

LEMMA HitsNone ==
    ASSUME NEW s, NEW c, \A k \in 1..Len(s) : Hits(s[k], c) = {}
    PROVE  HitsIn(s, c) = {}
BY DEF HitsIn

(* A log with one line of a code records what that line does.              *)
LEMMA HitsOnce ==
    ASSUME NEW s \in Seq(Lines), NEW c, NEW p \in 1..Len(s),
           \A k \in 1..Len(s) : k # p => Hits(s[k], c) = {}
    PROVE  Cardinality(HitsIn(s, c)) = Gain(s[p], c)
<1> DEFINE n == Gain(s[p], c)
           T == {<<p, m>> : m \in 1..n}
           g == [m \in 1..n |-> <<p, m>>]
<1>1. n \in Nat /\ Hits(s[p], c) = 1..n
  BY GainType
<1>2. HitsIn(s, c) = T
  BY <1>1 DEF HitsIn
<1> HIDE DEF n
<1>3. IsFiniteSet(1..n) /\ Cardinality(1..n) = n
  <2>1. IsFiniteSet(1..n) /\ Cardinality(1..n) = IF 1 > n THEN 0 ELSE n - 1 + 1
    BY <1>1, FS_Interval
  <2> QED BY <1>1, <2>1
<1>4. g \in Bijection(1..n, T)
  BY DEF Bijection, Injection, Surjection, IsInjective
<1>5. ExistsBijection(1..n, T)
  BY <1>4 DEF ExistsBijection
<1> HIDE DEF g, T
<1>6. Cardinality(T) = n
  BY <1>3, <1>5, FS_Bijection
<1> QED BY <1>2, <1>6 DEF n

(* Logs one after the other record what both do.                           *)
LEMMA HitsConcat ==
    ASSUME NEW s \in Seq(Lines), NEW t \in Seq(Lines), NEW c
    PROVE  Cardinality(HitsIn(s \o t, c)) = Cardinality(HitsIn(s, c)) + Cardinality(HitsIn(t, c))
<1> DEFINE n == Len(s)
           S == HitsIn(s, c)
           T == HitsIn(t, c)
           U == {<<n + x[1], x[2]>> : x \in T}
           f == [x \in T |-> <<n + x[1], x[2]>>]
<1>0. /\ n \in Nat /\ Len(t) \in Nat /\ Len(s \o t) = n + Len(t)
      /\ \A k \in 1..n : (s \o t)[k] = s[k]
      /\ \A k \in 1..Len(t) : (s \o t)[n + k] = t[k]
  OBVIOUS
<1> HIDE DEF n
<1>1. \A x : x \in T <=> \E k \in 1..Len(t) : \E m \in Hits(t[k], c) : x = <<k, m>>
  BY DEF HitsIn
<1>2. \A x : x \in S <=> \E k \in 1..Len(s) : \E m \in Hits(s[k], c) : x = <<k, m>>
  BY DEF HitsIn
<1>3. \A x : x \in HitsIn(s \o t, c)
               <=> \E k \in 1..Len(s \o t) : \E m \in Hits((s \o t)[k], c) : x = <<k, m>>
  BY DEF HitsIn
<1>4. \A x : x \in U <=> \E k \in 1..Len(t) : \E m \in Hits(t[k], c) : x = <<n + k, m>>
  <2>1. ASSUME NEW x, x \in U PROVE \E k \in 1..Len(t) : \E m \in Hits(t[k], c) : x = <<n + k, m>>
    <3>1. PICK y \in T : x = <<n + y[1], y[2]>>
      BY <2>1
    <3>2. PICK k \in 1..Len(t) : \E m \in Hits(t[k], c) : y = <<k, m>>
      BY <1>1
    <3> QED BY <3>1, <3>2
  <2>2. ASSUME NEW k \in 1..Len(t), NEW m \in Hits(t[k], c) PROVE <<n + k, m>> \in U
    <3>1. <<k, m>> \in T
      BY <1>1
    <3> HIDE DEF T
    <3> QED BY <3>1
  <2> HIDE DEF U
  <2> QED BY <2>1, <2>2
<1> HIDE DEF S, T, U
<1>5. HitsIn(s \o t, c) = S \cup U
  <2>1. ASSUME NEW x, x \in HitsIn(s \o t, c) PROVE x \in S \cup U
    <3>1. PICK k \in 1..Len(s \o t) : \E m \in Hits((s \o t)[k], c) : x = <<k, m>>
      BY <1>3, <2>1
    <3>2. CASE k <= n
      <4>1. k \in 1..Len(s) /\ (s \o t)[k] = s[k]
        BY <1>0, <3>2 DEF n
      <4> QED BY <1>2, <3>1, <4>1
    <3>3. CASE k > n
      <4>1. k - n \in 1..Len(t) /\ n + (k - n) = k
        BY <1>0, <3>3
      <4>2. (s \o t)[k] = t[k - n]
        BY <1>0, <4>1
      <4> QED BY <1>4, <3>1, <4>1, <4>2
    <3> QED BY <1>0, <3>2, <3>3
  <2>2. ASSUME NEW x, x \in S PROVE x \in HitsIn(s \o t, c)
    <3>1. PICK k \in 1..Len(s) : \E m \in Hits(s[k], c) : x = <<k, m>>
      BY <1>2, <2>2
    <3>2. k \in 1..Len(s \o t) /\ (s \o t)[k] = s[k]
      BY <1>0 DEF n
    <3> QED BY <1>3, <3>1, <3>2
  <2>3. ASSUME NEW x, x \in U PROVE x \in HitsIn(s \o t, c)
    <3>1. PICK k \in 1..Len(t) : \E m \in Hits(t[k], c) : x = <<n + k, m>>
      BY <1>4, <2>3
    <3>2. n + k \in 1..Len(s \o t) /\ (s \o t)[n + k] = t[k]
      BY <1>0
    <3> QED BY <1>3, <3>1, <3>2
  <2> QED BY <2>1, <2>2, <2>3
<1>6. S \cap U = {}
  <2>1. SUFFICES ASSUME NEW x, x \in S, x \in U PROVE FALSE
    OBVIOUS
  <2>2. PICK k \in 1..Len(s) : \E m \in Hits(s[k], c) : x = <<k, m>>
    BY <1>2, <2>1
  <2>3. PICK j \in 1..Len(t) : \E m \in Hits(t[j], c) : x = <<n + j, m>>
    BY <1>4, <2>1
  <2>4. k = n + j
    BY <2>2, <2>3
  <2> QED BY <1>0, <2>4 DEF n
<1>7. f \in Bijection(T, U)
  <2>1. f \in [T -> U] /\ \A u \in U : \E x \in T : f[x] = u
    BY DEF U
  <2>2. ASSUME NEW x \in T, NEW y \in T, f[x] = f[y] PROVE x = y
    <3>1. PICK k \in 1..Len(t) : \E m \in Hits(t[k], c) : x = <<k, m>>
      BY <1>1
    <3>2. PICK j \in 1..Len(t) : \E m \in Hits(t[j], c) : y = <<j, m>>
      BY <1>1
    <3>3. n + x[1] = n + y[1] /\ x[2] = y[2]
      BY <2>2
    <3>4. k = j
      BY <1>0, <3>1, <3>2, <3>3
    <3> QED BY <3>1, <3>2, <3>3, <3>4
  <2> HIDE DEF f
  <2> QED BY <2>1, <2>2 DEF Bijection, Injection, Surjection, IsInjective
<1>8. IsFiniteSet(S) /\ IsFiniteSet(T)
  BY HitsFinite DEF S, T
<1>9. IsFiniteSet(U) /\ Cardinality(U) = Cardinality(T)
  <2>1. ExistsBijection(T, U)
    BY <1>7 DEF ExistsBijection
  <2> QED BY <1>8, <2>1, FS_Bijection
<1> QED BY <1>5, <1>6, <1>8, <1>9, HitsAdd DEF S, T
=============================================================================
