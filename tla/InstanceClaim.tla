--------------------------- MODULE InstanceClaim ----------------------------
(***************************************************************************)
(* How a process that was given no INSTANCE finds its instance id: the     *)
(* lock files of claim_instance (aof.rs), taken by LocalStore::new and     *)
(* removed by close (store.rs).  A step is one system call.                *)
(*                                                                         *)
(* A process claims once in its life, and process ids are not reused.      *)
(***************************************************************************)
EXTENDS Naturals, FiniteSets

CONSTANTS
    Procs,         \* processes, named by their process ids
    Slots,         \* how many lock names claim_instance tries (1024)
    MaxInstances,  \* MAX_INSTANCES: larger ids are given back
    None           \* no file, no text

Ids   == 0..(Slots - 1)
Files == [by : Procs, text : Procs \cup {None}]

ASSUME ClaimAssumption ==
    /\ Slots \in Nat \ {0}
    /\ MaxInstances \in Nat
    /\ None \notin Procs \cup Files

VARIABLES
    pc,     \* what each process is about to do
    slot,   \* the id it is trying, or has
    seen,   \* the process id it read from the lock file of its slot
    lock,   \* id -> its lock file: who created it, what it says; or None
    \* ----- history, read by no guard
    robbed  \* processes whose lock file was taken for another's and removed

vars == <<pc, slot, seen, lock, robbed>>

Steps == {"new", "try", "pid", "admit", "read", "check", "steal", "retry", "held",
          "failed", "closed", "dead"}

(* The process runs: pid_alive.                                            *)
Alive(p) == pc[p] \notin {"new", "dead"}

(* Who loses the lock file of id n to p, other than p itself and the       *)
(* process whose id p read there.                                          *)
Robs(p, n) ==
    IF lock[n] = None \/ (lock[n] # None /\ lock[n].by \in {p, seen[p]})
    THEN {} ELSE {lock[n].by}

Goto(p, step) == pc' = [pc EXCEPT ![p] = step]

Init ==
    /\ pc = [p \in Procs |-> "new"]
    /\ slot = [p \in Procs |-> 0]
    /\ seen = [p \in Procs |-> None]
    /\ lock = [n \in Ids |-> None]
    /\ robbed = {}

Start(p) ==
    /\ pc[p] = "new"
    /\ Goto(p, "try")
    /\ UNCHANGED <<slot, seen, lock, robbed>>

(* Faulty variants, for mutation only: the loop runs one slot too far, or  *)
(* starts over.                                                            *)
NextSlotPastEnd(p) ==
    /\ slot' = [slot EXCEPT ![p] = @ + 1]
    /\ IF slot[p] < Slots THEN Goto(p, "try") ELSE Goto(p, "failed")
    /\ seen' = [seen EXCEPT ![p] = None]
    /\ UNCHANGED <<lock, robbed>>
NextSlotAround(p) ==
    /\ slot' = [slot EXCEPT ![p] = (@ + 1) % Slots]
    /\ Goto(p, "try")
    /\ seen' = [seen EXCEPT ![p] = None]
    /\ UNCHANGED <<lock, robbed>>

(* "continue", or the end of the loop.                                     *)
NextSlot(p) ==
    /\ IF slot[p] + 1 < Slots
       THEN Goto(p, "try") /\ slot' = [slot EXCEPT ![p] = @ + 1]
       ELSE Goto(p, "failed") /\ UNCHANGED slot
    /\ seen' = [seen EXCEPT ![p] = None]
    /\ UNCHANGED <<lock, robbed>>

(* try_lock, first half: create_new succeeds on a free name only.          *)
CreateLock(p) ==
    /\ pc[p] \in {"try", "retry"} /\ lock[slot[p]] = None
    /\ lock' = [lock EXCEPT ![slot[p]] = [by |-> p, text |-> None]]
    /\ Goto(p, "pid")
    /\ UNCHANGED <<slot, seen, robbed>>

LockExists(p) ==
    /\ lock[slot[p]] # None
    /\ \/ pc[p] = "try" /\ Goto(p, "read") /\ UNCHANGED <<slot, seen, lock, robbed>>
       \/ pc[p] = "retry" /\ NextSlot(p)

(* try_lock, second half: the process id goes into the file it created,    *)
(* which may have lost its name by now.                                    *)
WritePid(p) ==
    /\ pc[p] = "pid"
    /\ lock' = IF lock[slot[p]] # None /\ lock[slot[p]].by = p
               THEN [lock EXCEPT ![slot[p]].text = p] ELSE lock
    /\ Goto(p, "admit")
    /\ UNCHANGED <<slot, seen, robbed>>

Unlink(p) ==
    /\ lock' = [lock EXCEPT ![slot[p]] = None]
    /\ robbed' = robbed \cup Robs(p, slot[p])

(* LocalStore::new gives an id back that has no prefix character.          *)
Admit(p) ==
    /\ pc[p] = "admit"
    /\ \/ slot[p] < MaxInstances /\ Goto(p, "held") /\ UNCHANGED <<lock, robbed>>
       \/ slot[p] >= MaxInstances /\ Goto(p, "failed") /\ Unlink(p)
    /\ UNCHANGED <<slot, seen>>

(* A file that is gone, or says nothing yet, is passed over.               *)
ReadLock(p) ==
    /\ pc[p] = "read"
    /\ IF lock[slot[p]] = None \/ (lock[slot[p]] # None /\ lock[slot[p]].text = None)
       THEN NextSlot(p)
       ELSE /\ seen' = [seen EXCEPT ![p] = lock[slot[p]].text]
            /\ Goto(p, "check")
            /\ UNCHANGED <<slot, lock, robbed>>

(* Faulty variant, for mutation only: the holder is not looked for.        *)
CheckNothing(p) ==
    /\ pc[p] = "check"
    /\ Goto(p, "steal")
    /\ UNCHANGED <<slot, seen, lock, robbed>>

CheckPid(p) ==
    /\ pc[p] = "check"
    /\ IF Alive(seen[p]) THEN NextSlot(p)
       ELSE Goto(p, "steal") /\ UNCHANGED <<slot, seen, lock, robbed>>

(* remove_file removes the file that has the name now.                     *)
Steal(p) ==
    /\ pc[p] = "steal"
    /\ Unlink(p)
    /\ Goto(p, "retry")
    /\ UNCHANGED <<slot, seen>>

(* The end of close.                                                       *)
Release(p) ==
    /\ pc[p] = "held"
    /\ Unlink(p)
    /\ Goto(p, "closed")
    /\ UNCHANGED <<slot, seen>>

(* The process exits, or is killed, at any time.                           *)
End(p) ==
    /\ Alive(p)
    /\ Goto(p, "dead")
    /\ UNCHANGED <<slot, seen, lock, robbed>>

Claim(p) ==
    \/ CreateLock(p) \/ LockExists(p) \/ WritePid(p) \/ Admit(p)
    \/ ReadLock(p) \/ CheckPid(p) \/ Steal(p)

Next == \E p \in Procs : Start(p) \/ Claim(p) \/ Release(p) \/ End(p)

Spec == Init /\ [][Next]_vars

(* A process that has begun to claim goes on.                              *)
FairSpec == Spec /\ \A p \in Procs : WF_vars(Claim(p))

-----------------------------------------------------------------------------
TypeOK ==
    /\ pc \in [Procs -> Steps]
    /\ slot \in [Procs -> Ids]
    /\ seen \in [Procs -> Procs \cup {None}]
    /\ lock \in [Ids -> Files \cup {None}]
    /\ robbed \subseteq Procs

(* Two processes have the same id, and thus append to the same log, only   *)
(* after one of them lost its lock file to a process that took it for the  *)
(* file of another: no interleaving of claims, exits and closings does it  *)
(* otherwise, and no lock is stolen from a holder that was looked at.      *)
SharedOnlyByTheft ==
    \A p, q \in Procs :
        pc[p] = "held" /\ pc[q] = "held" /\ slot[p] = slot[q] /\ p # q
            => p \in robbed \/ q \in robbed

(* What SharedOnlyByTheft needs to be inductive: who was not robbed still  *)
(* has the file it created, and a process about to remove a file has read  *)
(* the id of a dead one.                                                   *)
HasItsLock ==
    \A p \in Procs :
        pc[p] \in {"pid", "admit", "held"} /\ p \notin robbed
            => lock[slot[p]] # None /\ lock[slot[p]].by = p

TextIsOld ==
    \A n \in Ids :
        lock[n] # None => lock[n].text \in {None, lock[n].by} /\ pc[lock[n].by] # "new"

SeenIsDead ==
    \A p \in Procs :
        seen[p] # None =>
            /\ pc[seen[p]] # "new"
            /\ pc[p] \notin {"new", "try", "read"}
            /\ pc[p] \in {"steal", "retry", "pid", "admit", "held"} => pc[seen[p]] = "dead"

(* A claim ends: it cannot go round among slots that others keep taking    *)
(* and freeing.                                                            *)
ClaimEnds ==
    \A p \in Procs : pc[p] = "try" ~> pc[p] \in {"held", "failed", "closed", "dead"}
=============================================================================
