---------------------------- MODULE MCLocalStore ----------------------------
(* Instances of LocalStore for TLC.                                        *)
EXTENDS LocalStore, TLC

CONSTANTS c1, c2, u1, u2, t1, t2

OneCode  == {c1}
TwoCodes == {c1, c2}
OneUrl   == {u1}
TwoUrls  == {u1, u2}

(* At most so many mutations, resolves, crashes and compactions.           *)
Bound(ops, hits, crashes, compactions) ==
    [op |-> ops, hit |-> hits, crash |-> crashes, compact |-> compactions]

BudgetSafe == Bound(2, 0, 2, 1)
BudgetHits == Bound(2, 2, 1, 0)
BudgetLive == Bound(2, 1, 2, 1)
BudgetTear == Bound(2, 0, 2, 0)
BudgetDrop == Bound(1, 0, 0, 0)

Sym == Permutations(Urls) \cup Permutations(Threads)
=============================================================================
