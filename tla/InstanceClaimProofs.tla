------------------------ MODULE InstanceClaimProofs -------------------------
(***************************************************************************)
(* Proofs about InstanceClaim, for any number of processes and ids.        *)
(***************************************************************************)
EXTENDS InstanceClaim, TLAPS

ClaimInv == TypeOK /\ HasItsLock /\ TextIsOld /\ SeenIsDead

LEMMA ClaimInit == Init => ClaimInv
<1> SUFFICES ASSUME Init PROVE ClaimInv
  OBVIOUS
<1>1. 0 \in Ids
  BY ClaimAssumption DEF Ids
<1>2. TypeOK
  BY <1>1 DEF Init, TypeOK, Steps, Ids
<1>3. HasItsLock /\ TextIsOld /\ SeenIsDead
  BY DEF Init, HasItsLock, TextIsOld, SeenIsDead
<1> QED
  BY <1>2, <1>3 DEF ClaimInv

(* Facts of the moves that several actions share.                          *)
LEMMA SlotStays ==
    ASSUME TypeOK, NEW p \in Procs, NextSlot(p)
    PROVE  /\ slot' \in [Procs -> Ids]
           /\ \A q \in Procs \ {p} : slot'[q] = slot[q] /\ pc'[q] = pc[q] /\ seen'[q] = seen[q]
           /\ pc'[p] \in {"try", "failed"} /\ seen'[p] = None
           /\ pc' \in [Procs -> Steps] /\ seen' \in [Procs -> Procs \cup {None}]
           /\ lock' = lock /\ robbed' = robbed
<1>1. slot[p] \in Nat /\ (slot[p] + 1 < Slots => slot[p] + 1 \in Ids)
  BY ClaimAssumption DEF TypeOK, Ids
<1> QED
  BY <1>1 DEF TypeOK, NextSlot, Goto, Steps

LEMMA ClaimType == TypeOK /\ [Next]_vars => TypeOK'
<1> SUFFICES ASSUME TypeOK, [Next]_vars PROVE TypeOK'
  OBVIOUS
<1>1. CASE UNCHANGED vars
  BY <1>1 DEF TypeOK, vars
<1>2. ASSUME NEW p \in Procs, Start(p) PROVE TypeOK'
  BY <1>2 DEF TypeOK, Start, Goto, Steps
<1>3. ASSUME NEW p \in Procs, CreateLock(p) PROVE TypeOK'
  BY <1>3 DEF TypeOK, CreateLock, Goto, Steps, Files
<1>4. ASSUME NEW p \in Procs, NextSlot(p) PROVE TypeOK'
  BY <1>4, SlotStays DEF TypeOK
<1>5. ASSUME NEW p \in Procs, LockExists(p) PROVE TypeOK'
  BY <1>5, <1>4 DEF TypeOK, LockExists, Goto, Steps
<1>6. ASSUME NEW p \in Procs, WritePid(p) PROVE TypeOK'
  BY <1>6 DEF TypeOK, WritePid, Goto, Steps, Files
<1>7. ASSUME NEW p \in Procs, Unlink(p)
      PROVE lock' \in [Ids -> Files \cup {None}] /\ robbed' \subseteq Procs
  BY <1>7 DEF TypeOK, Unlink, Robs, Files
<1>8. ASSUME NEW p \in Procs, Admit(p) PROVE TypeOK'
  BY <1>8, <1>7 DEF TypeOK, Admit, Goto, Steps
<1>9. ASSUME NEW p \in Procs, ReadLock(p) PROVE TypeOK'
  BY <1>9, <1>4 DEF TypeOK, ReadLock, Goto, Steps, Files
<1>10. ASSUME NEW p \in Procs, CheckPid(p) PROVE TypeOK'
  BY <1>10, <1>4 DEF TypeOK, CheckPid, Goto, Steps
<1>11. ASSUME NEW p \in Procs, Steal(p) PROVE TypeOK'
  BY <1>11, <1>7 DEF TypeOK, Steal, Goto, Steps
<1>12. ASSUME NEW p \in Procs, Release(p) PROVE TypeOK'
  BY <1>12, <1>7 DEF TypeOK, Release, Goto, Steps
<1>13. ASSUME NEW p \in Procs, End(p) PROVE TypeOK'
  BY <1>13 DEF TypeOK, End, Goto, Steps
<1> QED
  BY <1>1, <1>2, <1>3, <1>5, <1>6, <1>8, <1>9, <1>10, <1>11, <1>12, <1>13
  DEF Next, Claim

-----------------------------------------------------------------------------
(* A process that reaches for the next slot holds nothing.                 *)
LEMMA NextSlotKeeps ==
    ASSUME ClaimInv, NEW p \in Procs, NextSlot(p), pc[p] \in {"retry", "read", "check"}
    PROVE  HasItsLock' /\ TextIsOld' /\ SeenIsDead'
<1>1. HasItsLock'
  BY SlotStays DEF ClaimInv, TypeOK, HasItsLock
<1>2. TextIsOld'
  BY SlotStays DEF ClaimInv, TypeOK, TextIsOld, Files
<1>3. SeenIsDead'
  BY SlotStays DEF ClaimInv, TypeOK, SeenIsDead
<1> QED
  BY <1>1, <1>2, <1>3

(* Removing a lock file leaves the others their files, and robs its owner  *)
(* unless that is the remover or dead.                                     *)
LEMMA UnlinkKeeps ==
    ASSUME ClaimInv, NEW p \in Procs, pc[p] \in {"admit", "steal", "held"},
           NEW s \in {"failed", "retry", "closed"}, s = "retry" => pc[p] = "steal",
           Unlink(p), Goto(p, s), UNCHANGED <<slot, seen>>
    PROVE  HasItsLock' /\ TextIsOld' /\ SeenIsDead'
<1> USE DEF ClaimInv
<1>1. HasItsLock'
  <2> SUFFICES ASSUME NEW q \in Procs, pc'[q] \in {"pid", "admit", "held"}, q \notin robbed'
               PROVE  lock'[slot[q]] # None /\ lock'[slot[q]].by = q
    BY DEF HasItsLock
  <2>1. q # p /\ pc[q] = pc'[q] /\ q \notin robbed /\ q \notin Robs(p, slot[p])
    BY DEF TypeOK, Goto, Unlink
  <2>2. lock[slot[q]] # None /\ lock[slot[q]].by = q
    BY <2>1 DEF HasItsLock
  <2>3. CASE slot[q] = slot[p]
    <3>1. q = seen[p]
      BY <2>1, <2>2, <2>3 DEF Robs
    <3>2. pc[q] = "dead"
      BY <3>1, ClaimAssumption DEF SeenIsDead
    <3> QED
      BY <3>2, <2>1
  <2>4. CASE slot[q] # slot[p]
    BY <2>2, <2>4 DEF Unlink, TypeOK
  <2> QED
    BY <2>3, <2>4
<1>2. TextIsOld'
  BY DEF TextIsOld, TypeOK, Unlink, Goto, Files
<1>3. SeenIsDead'
  BY DEF SeenIsDead, TypeOK, Goto
<1> QED
  BY <1>1, <1>2, <1>3

LEMMA ClaimStep == ClaimInv /\ [Next]_vars => ClaimInv'
<1> SUFFICES ASSUME ClaimInv, [Next]_vars PROVE HasItsLock' /\ TextIsOld' /\ SeenIsDead'
  BY ClaimType DEF ClaimInv
<1> DEFINE Goal == HasItsLock' /\ TextIsOld' /\ SeenIsDead'
<1>1. CASE UNCHANGED vars
  BY <1>1 DEF ClaimInv, HasItsLock, TextIsOld, SeenIsDead, vars
<1>2. ASSUME NEW p \in Procs, Start(p) PROVE Goal
  BY <1>2 DEF ClaimInv, TypeOK, Start, Goto, HasItsLock, TextIsOld, SeenIsDead, Files
<1>3. ASSUME NEW p \in Procs, CreateLock(p) PROVE Goal
  <2>1. HasItsLock'
    <3> SUFFICES ASSUME NEW q \in Procs, pc'[q] \in {"pid", "admit", "held"}, q \notin robbed'
                 PROVE  lock'[slot'[q]] # None /\ lock'[slot'[q]].by = q
      BY DEF HasItsLock
    <3>1. CASE q = p
      BY <1>3, <3>1, ClaimAssumption DEF ClaimInv, TypeOK, CreateLock, Goto, Files
    <3>2. CASE q # p
      BY <1>3, <3>2 DEF ClaimInv, TypeOK, CreateLock, Goto, HasItsLock
    <3> QED
      BY <3>1, <3>2
  <2>2. TextIsOld'
    BY <1>3 DEF ClaimInv, TypeOK, CreateLock, Goto, TextIsOld, Files
  <2>3. SeenIsDead'
    BY <1>3 DEF ClaimInv, TypeOK, CreateLock, Goto, SeenIsDead
  <2> QED
    BY <2>1, <2>2, <2>3
<1>4. ASSUME NEW p \in Procs, LockExists(p) PROVE Goal
  <2>1. CASE pc[p] = "try" /\ Goto(p, "read") /\ UNCHANGED <<slot, seen, lock, robbed>>
    BY <2>1 DEF ClaimInv, TypeOK, Goto, HasItsLock, TextIsOld, SeenIsDead, Files
  <2>2. CASE pc[p] = "retry" /\ NextSlot(p)
    BY <2>2, NextSlotKeeps
  <2> QED
    BY <1>4, <2>1, <2>2 DEF LockExists
<1>5. ASSUME NEW p \in Procs, WritePid(p) PROVE Goal
  <2>1. HasItsLock'
    BY <1>5, ClaimAssumption DEF ClaimInv, TypeOK, WritePid, Goto, HasItsLock, Files
  <2>2. TextIsOld'
    BY <1>5 DEF ClaimInv, TypeOK, WritePid, Goto, TextIsOld, Files
  <2>3. SeenIsDead'
    BY <1>5 DEF ClaimInv, TypeOK, WritePid, Goto, SeenIsDead
  <2> QED
    BY <2>1, <2>2, <2>3
<1>6. ASSUME NEW p \in Procs, Admit(p) PROVE Goal
  <2>1. CASE slot[p] < MaxInstances /\ Goto(p, "held") /\ UNCHANGED <<lock, robbed>>
    BY <1>6, <2>1 DEF ClaimInv, TypeOK, Admit, Goto, HasItsLock, TextIsOld, SeenIsDead, Files
  <2>2. CASE Goto(p, "failed") /\ Unlink(p)
    BY <1>6, <2>2, UnlinkKeeps DEF Admit
  <2> QED
    BY <1>6, <2>1, <2>2 DEF Admit
<1>7. ASSUME NEW p \in Procs, ReadLock(p) PROVE Goal
  <2>1. CASE NextSlot(p)
    BY <1>7, <2>1, NextSlotKeeps DEF ReadLock
  <2>2. CASE /\ lock[slot[p]] # None /\ lock[slot[p]].text # None
             /\ seen' = [seen EXCEPT ![p] = lock[slot[p]].text]
             /\ Goto(p, "check")
             /\ UNCHANGED <<slot, lock, robbed>>
    <3>1. HasItsLock' /\ TextIsOld'
      BY <1>7, <2>2 DEF ClaimInv, TypeOK, ReadLock, Goto, HasItsLock, TextIsOld, Files
    <3>2. pc[lock[slot[p]].text] # "new"
      BY <2>2 DEF ClaimInv, TypeOK, TextIsOld, Files
    <3>3. SeenIsDead'
      BY <1>7, <2>2, <3>2 DEF ClaimInv, TypeOK, ReadLock, Goto, SeenIsDead, Files
    <3> QED
      BY <3>1, <3>3
  <2> QED
    BY <1>7, <2>1, <2>2 DEF ReadLock
<1>8. ASSUME NEW p \in Procs, CheckPid(p) PROVE Goal
  <2>1. CASE NextSlot(p)
    BY <1>8, <2>1, NextSlotKeeps DEF CheckPid
  <2>2. CASE ~Alive(seen[p]) /\ Goto(p, "steal") /\ UNCHANGED <<slot, seen, lock, robbed>>
    <3>1. HasItsLock' /\ TextIsOld'
      BY <1>8, <2>2 DEF ClaimInv, TypeOK, CheckPid, Goto, HasItsLock, TextIsOld, Files
    <3>2. SeenIsDead'
      BY <1>8, <2>2 DEF ClaimInv, TypeOK, CheckPid, Goto, SeenIsDead, Alive
    <3> QED
      BY <3>1, <3>2
  <2> QED
    BY <1>8, <2>1, <2>2 DEF CheckPid
<1>9. ASSUME NEW p \in Procs, Steal(p) PROVE Goal
  BY <1>9, UnlinkKeeps DEF Steal
<1>10. ASSUME NEW p \in Procs, Release(p) PROVE Goal
  BY <1>10, UnlinkKeeps DEF Release
<1>11. ASSUME NEW p \in Procs, End(p) PROVE Goal
  BY <1>11 DEF ClaimInv, TypeOK, End, Alive, Goto, HasItsLock, TextIsOld, SeenIsDead, Files
<1> QED
  BY <1>1, <1>2, <1>3, <1>4, <1>5, <1>6, <1>7, <1>8, <1>9, <1>10, <1>11 DEF Next, Claim

LEMMA LocksExclude == ClaimInv => SharedOnlyByTheft
BY DEF ClaimInv, HasItsLock, SharedOnlyByTheft

-----------------------------------------------------------------------------
(* However many processes claim, exit and close, in whatever order their   *)
(* system calls interleave: two of them have one id, and thus append to    *)
(* one log, only after a lock file was taken for a dead process's and      *)
(* removed (claim_instance in aof.rs).                                     *)
THEOREM IdsAreExclusive == Spec => []SharedOnlyByTheft
<1>1. Init => ClaimInv
  BY ClaimInit
<1>2. ClaimInv /\ [Next]_vars => ClaimInv'
  BY ClaimStep
<1>3. ClaimInv => SharedOnlyByTheft
  BY LocksExclude
<1> QED
  BY <1>1, <1>2, <1>3, PTL DEF Spec

(* Every variable of the claim keeps its type, in particular slot stays    *)
(* below Slots: a process never probes past the last id.                   *)
THEOREM ClaimTypes == Spec => []TypeOK
<1>1. ClaimInv => TypeOK
  BY DEF ClaimInv
<1> QED
  BY ClaimInit, ClaimStep, <1>1, PTL DEF Spec
=============================================================================
