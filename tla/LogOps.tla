------------------------------- MODULE LogOps -------------------------------
(***************************************************************************)
(* The vocabulary of the append-only log (codec.rs) and the fold that      *)
(* turns log lines back into an index (apply in store.rs).                 *)
(*                                                                         *)
(* A log line is a record.  Its text matters in one place only: when a     *)
(* write is cut short, the next write continues the same line and the      *)
(* parser sees one line made of two (GluedLines below).                    *)
(***************************************************************************)
EXTENDS Naturals, Sequences, FiniteSets

CONSTANTS
    Codes,    \* short codes, generated and aliases alike
    Urls,     \* target urls
    BadUrl,   \* the url of a line that two writes ran together in
    None,     \* "no entry", "no line"
    MaxStray  \* MAX_STRAY_HITS, the bound on the stray-hit map

ASSUME LogAssumption ==
    /\ MaxStray \in Nat \ {0}
    /\ BadUrl \notin Urls
    /\ IsFiniteSet(Codes)

AllUrls == Urls \cup {BadUrl}

-----------------------------------------------------------------------------
(* Lines. "e" is the expiry (0 = never, written as null), "i" the instance *)
(* that wrote the line, "n" the hits a row starts with, "d" a hit delta.   *)

RowLine(c, u, e, i, n) ==
    [k |-> "row", c |-> c, u |-> u, e |-> e, i |-> i, n |-> n]
HitLine(c, d, i) == [k |-> "hit", c |-> c, d |-> d, i |-> i]
DelLine(c)       == [k |-> "del", c |-> c]
JunkLine         == [k |-> "junk"]

RowLines == [k : {"row"}, c : Codes, u : AllUrls, e : Nat, i : Nat, n : Nat]
HitLines == [k : {"hit"}, c : Codes, d : Nat, i : Nat]
DelLines == [k : {"del"}, c : Codes]
Lines    == RowLines \cup HitLines \cup DelLines \cup {JunkLine}

(* The index maps a code to an entry: url, expiry, owning instance, hits   *)
(* seen from every instance (h) and hits of this instance alone (oh).      *)
Entries == [u : AllUrls, e : Nat, i : Nat, h : Nat, oh : Nat]

(* Hit deltas whose row has not been seen: all of them, and the own ones.  *)
Strays   == [t : Nat, o : Nat]
NoStray  == [t |-> 0, o |-> 0]
Stray(m) == {c \in Codes : m[c] # NoStray}

(* What a client can observe of a code, its hit count aside.               *)
Value(x) == IF x = None THEN None ELSE <<x.u, x.e>>
Values   == {None} \cup (AllUrls \X Nat)

ASSUME NoneAssumption ==
    None \notin Entries \cup Lines \cup Codes \cup (AllUrls \X Nat)

-----------------------------------------------------------------------------
(* apply: one line folded into the index and the stray-hit map.  The       *)
(* result is a set because the entry evicted from a full stray map is      *)
(* whichever the hash map yields first.                                    *)

(* Faulty variants, for mutation only: the stray hits of a row forgotten,  *)
(* the first row kept where the last one counts.                           *)
RowEntryForgetsStray(l, s) ==
    [u |-> l.u, e |-> l.e, i |-> l.i, h |-> l.n, oh |-> l.n]
ApplyRowKeepsFirst(st, l) ==
    IF st.index[l.c] # None THEN st
    ELSE [st EXCEPT !.index[l.c] = [u |-> l.u, e |-> l.e, i |-> l.i, h |-> l.n, oh |-> l.n]]

RowEntry(l, s) ==
    [u |-> l.u, e |-> l.e, i |-> l.i, h |-> l.n + s.t, oh |-> l.n + s.o]

ApplyRow(st, l) ==
    [index |-> [st.index EXCEPT ![l.c] = RowEntry(l, st.stray[l.c])],
     stray |-> [st.stray EXCEPT ![l.c] = NoStray]]

ApplyDel(st, l) ==
    [index |-> [st.index EXCEPT ![l.c] = None],
     stray |-> [st.stray EXCEPT ![l.c] = NoStray]]

OwnPart(l, me) == IF l.i = me THEN l.d ELSE 0

ApplyHit(st, l, me) ==
    [st EXCEPT !.index[l.c].h = @ + l.d, !.index[l.c].oh = @ + OwnPart(l, me)]

ApplyStray(st, l, me, evicted) ==
    LET kept == [c \in Codes |-> IF c \in evicted THEN NoStray ELSE st.stray[c]]
    IN  [st EXCEPT !.stray = [kept EXCEPT ![l.c] =
                                 [t |-> @.t + l.d, o |-> @.o + OwnPart(l, me)]]]

(* A full stray map gives up one entry before a hit is added to it.        *)
Evictions(m) ==
    IF Cardinality(Stray(m)) >= MaxStray THEN {{c} : c \in Stray(m)} ELSE {{}}

Apply(st, l, me) ==
    CASE l.k = "row"  -> {ApplyRow(st, l)}
      [] l.k = "del"  -> {ApplyDel(st, l)}
      [] l.k = "hit"  -> IF st.index[l.c] # None
                         THEN {ApplyHit(st, l, me)}
                         ELSE {ApplyStray(st, l, me, ev) : ev \in Evictions(st.stray)}
      [] l.k = "junk" -> {st}

(* The lines of a set in some order.                                       *)
Orders(S) ==
    {s \in [1..Cardinality(S) -> S] : \A j, k \in DOMAIN s : s[j] = s[k] => j = k}

-----------------------------------------------------------------------------
(* The value a snapshot and a log determine for a code, without replaying  *)
(* them: that of the last line that writes the code, if there is one, and  *)
(* otherwise the snapshot's.                                               *)

Sets(l, c)    == l.k \in {"row", "del"} /\ l.c = c
LineValue(l)  == IF l.k = "row" THEN <<l.u, l.e>> ELSE None
Touches(s, c) == \E k \in 1..Len(s) : Sets(s[k], c)

EndsWith(s, c, v) ==
    \E k \in 1..Len(s) :
        /\ Sets(s[k], c)
        /\ LineValue(s[k]) = v
        /\ \A j \in (k + 1)..Len(s) : ~Sets(s[j], c)

Determines(base, s, c, v) ==
    IF Touches(s, c) THEN EndsWith(s, c, v) ELSE Value(base[c]) = v

(* The hits of a code that a line records, and those that a log does:      *)
(* <<k, m>> is the m-th hit of its line k.                                 *)
Hits(l, c)   == IF l.k = "hit" /\ l.c = c THEN 1..l.d ELSE {}
HitsIn(s, c) == UNION {{<<k, m>> : m \in Hits(s[k], c)} : k \in 1..Len(s)}

-----------------------------------------------------------------------------
(* What parse_op makes of a line that was cut short ("torn", the file ends *)
(* without its newline) and the line "l" the next write appends to it:     *)
(*   - nothing, when the cut falls in a key or a code;                     *)
(*   - "l" alone, when only the opening brace or only the newline of the   *)
(*     torn line is at stake;                                              *)
(*   - the torn line with its remaining fields taken from "l", or missing. *)
(* A tombstone beats a hit and a hit beats a row when one line has several *)
(* (the order of the tests in apply).                                      *)

GluedRows(torn, l) ==
    {RowLine(c, u, e, i, 0) :
        c \in {torn.c} \cup (IF l.k = "row" THEN {l.c} ELSE {}),
        u \in {BadUrl, torn.u} \cup (IF l.k = "row" THEN {l.u} ELSE {}),
        e \in {0, torn.e} \cup (IF l.k = "row" THEN {l.e} ELSE {}),
        i \in {0, torn.i}}

GluedHits(torn, l) ==
    {HitLine(torn.c, d, i) :
        d \in {0, torn.d} \cup (IF l.k = "hit" THEN {l.d} ELSE {}),
        i \in {0, torn.i}}

GluedLines(torn, l) ==
    {JunkLine, l} \cup
    CASE torn.k = "row"  -> GluedRows(torn, l)
      [] torn.k = "hit"  -> GluedHits(torn, l)
      [] torn.k = "del"  -> {DelLine(torn.c)}
      [] torn.k = "junk" -> {}
=============================================================================
