---------------------------- MODULE MCRocksStore ----------------------------
(* Instances of RocksStore for TLC.                                        *)
EXTENDS RocksStore, TLC

Bound(ops, resolves, faults, all) ==
    [op |-> ops, hit |-> resolves, fault |-> faults, all |-> all]

BudgetRows  == Bound(2, 2, 1, 3)
BudgetSweep == Bound(1, 0, 0, 1)

Sym == Permutations(Urls) \cup Permutations(Threads)
=============================================================================
