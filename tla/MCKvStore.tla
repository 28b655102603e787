----------------------------- MODULE MCKvStore ------------------------------
(* Instances of KvStore for TLC.                                           *)
EXTENDS KvStore, TLC

CONSTANTS n1, n2, t1, t2

(* One thread on each node.                                                *)
Apart == (t1 :> n1) @@ (t2 :> n2)

Bound(ops, resolves, all) == [op |-> ops, hit |-> resolves, all |-> all]

BudgetKv == Bound(2, 2, 3)

(* Both nodes with their threads may change places.                        *)
Swap == (n1 :> n2) @@ (n2 :> n1) @@ (t1 :> t2) @@ (t2 :> t1)
Sym  == Permutations(Urls) \cup {Swap}
=============================================================================
