----------------------------- MODULE DurableMap -----------------------------
(***************************************************************************)
(* What the engine promises its clients, with no log, buffer, snapshot or  *)
(* thread in sight: a map whose writes are visible at once, and which,     *)
(* after the process or the machine went down, comes back with a value     *)
(* each code had at or after the last flush (process) or fsync (machine).  *)
(***************************************************************************)
EXTENDS Naturals

CONSTANTS
    Codes,   \* the keys
    Values,  \* what a key may hold
    Missing  \* the value of a key that is not there

VARIABLES
    map,    \* the visible value of each code
    up,     \* whether the map is being served
    since,  \* values of a code since the last flush, the last fsync
    owed    \* values a restart may find

mapVars == <<map, up, since, owed>>

Levels == {"flush", "sync"}
Empty  == [c \in Codes |-> Missing]

MapInit ==
    /\ map = Empty
    /\ up = TRUE
    /\ since = [k \in Levels |-> [c \in Codes |-> {Missing}]]
    /\ owed = [c \in Codes |-> {Missing}]

(* A write is visible at once; a restart may find it or not.               *)
Put(c) ==
    /\ up
    /\ map' \in [Codes -> Values]
    /\ \A d \in Codes \ {c} : map'[d] = map[d]
    /\ since' = [k \in Levels |-> [since[k] EXCEPT ![c] = @ \cup {map'[c]}]]
    /\ UNCHANGED <<up, owed>>

(* A flush (or an fsync, which flushes too) makes the current value of the *)
(* codes it covers the only one a restart may find.                        *)
Secure(levels, covered) ==
    /\ up
    /\ since' = [k \in Levels |->
                    [c \in Codes |-> IF k \in levels /\ c \in covered
                                     THEN {map[c]} ELSE since[k][c]]]
    /\ UNCHANGED <<map, up, owed>>

(* The process stops, or the machine does, whether or not it was serving.  *)
Halt(level) ==
    /\ up \/ level = "sync"
    /\ up' = FALSE
    /\ map' = Empty
    /\ owed' = since[level]
    /\ UNCHANGED since

Recover ==
    /\ ~up
    /\ up' = TRUE
    /\ map' \in [Codes -> Values]
    /\ \A c \in Codes : map'[c] \in owed[c]
    /\ since' = [k \in Levels |->
                    [c \in Codes |-> IF k = "flush" THEN {map'[c]}
                                     ELSE since[k][c] \cup {map'[c]}]]
    /\ UNCHANGED owed

MapNext ==
    \/ \E c \in Codes : Put(c)
    \/ \E levels \in SUBSET Levels, covered \in SUBSET Codes : Secure(levels, covered)
    \/ \E level \in Levels : Halt(level)
    \/ Recover

MapSpec == MapInit /\ [][MapNext]_mapVars
=============================================================================
