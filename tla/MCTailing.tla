----------------------------- MODULE MCTailing ------------------------------
(* Instances of Tailing for TLC.                                           *)
EXTENDS Tailing, TLC

CONSTANTS g0, g1, a1, am, u1, u2

(* g0 and g1 are generated by instances 0 and 1; a1 is an alias that       *)
(* starts with the prefix of instance 7, which does not run, am one that   *)
(* starts with "-".                                                        *)
OwnerOf == (g0 :> 0) @@ (g1 :> 1) @@ (a1 :> 7) @@ (am :> -1)
Owners  == [c \in Codes |-> OwnerOf[c]]

Bound(ops, hits, crashes, compactions, ticks) ==
    [op |-> ops, hit |-> hits, crash |-> crashes, compact |-> compactions, tick |-> ticks]

BudgetView == Bound(2, 1, 1, 1, 0)
BudgetLive == Bound(2, 2, 1, 0, 1)
=============================================================================
