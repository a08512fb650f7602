--------------------------- MODULE SpinLockProofs ---------------------------
(***************************************************************************)
(* Proofs about SpinLock, for every set of threads.  IInv is inductive:    *)
(* MutualExclusion alone is not, because whether the exchange succeeds     *)
(* depends on locked, and whether the two unlocked checks let a caller     *)
(* pass depends on tid; OwnerNamed ties both fields to the owner.          *)
(***************************************************************************)
EXTENDS SpinLock, TLAPS

(* The lock starts free, with no owner named and nobody inside.             *)
LEMMA InitIInv == Init => IInv
BY NoTidAssumption
   DEF Init, IInv, TypeOK, Labels, MutualExclusion, OwnerNamed, MisuseStopped, Owns

(* One step per action of the lock code and of its client. *)
LEMMA NextIInv == IInv /\ [Next]_vars => IInv'
<1> SUFFICES ASSUME IInv, [Next]_vars PROVE IInv'
  OBVIOUS
<1> USE NoTidAssumption
        DEF IInv, TypeOK, Labels, MutualExclusion, OwnerNamed, MisuseStopped, Owns, At, Exit
<1>1. ASSUME NEW t \in Threads, CallAcquire(t) PROVE IInv'
  BY <1>1 DEF CallAcquire
<1>2. ASSUME NEW t \in Threads, CallRelease(t) PROVE IInv'
  BY <1>2 DEF CallRelease
<1>3. ASSUME NEW t \in Threads, TestLocked(t) PROVE IInv'
  BY <1>3 DEF TestLocked
<1>4. ASSUME NEW t \in Threads, TestSelf(t) PROVE IInv'
  BY <1>4 DEF TestSelf
<1>5. ASSUME NEW t \in Threads, Xchg(t) PROVE IInv'
  BY <1>5 DEF Xchg
<1>6. ASSUME NEW t \in Threads, NameOwner(t) PROVE IInv'
  BY <1>6 DEF NameOwner
<1>7. ASSUME NEW t \in Threads, TestHeld(t) PROVE IInv'
  BY <1>7 DEF TestHeld
<1>8. ASSUME NEW t \in Threads, TestOwner(t) PROVE IInv'
  BY <1>8 DEF TestOwner
<1>9. ASSUME NEW t \in Threads, Unname(t) PROVE IInv'
  BY <1>9 DEF Unname
<1>10. ASSUME NEW t \in Threads, Unlock(t) PROVE IInv'
  BY <1>10 DEF Unlock
<1>11. CASE UNCHANGED vars
  BY <1>11 DEF vars
<1>12. QED
  BY <1>1, <1>2, <1>3, <1>4, <1>5, <1>6, <1>7, <1>8, <1>9, <1>10, <1>11
     DEF Next, acquire, release, Exited

(* IInv holds in every reachable state: the three steps of an invariance    *)
(* proof put together (acquire and release, lock.c lines 27-57).            *)
THEOREM Invariance == Spec => []IInv
<1>1. Init => IInv
  BY InitIInv
<1>2. IInv /\ [Next]_vars => IInv'
  BY NextIInv
<1>3. QED
  BY <1>1, <1>2, PTL DEF Spec

(* The fields, the program counters and the client's view keep their types  *)
(* through every interleaving of acquire and release.                       *)
THEOREM TypeCorrect == Spec => []TypeOK
<1>1. IInv => TypeOK
  BY DEF IInv
<1>2. QED
  BY <1>1, Invariance, PTL

(* Any number of threads: never two of them past the exchange of acquire    *)
(* and before the last store of release (lines 37-54).                      *)
THEOREM Exclusion == Spec => []MutualExclusion
<1>1. IInv => MutualExclusion
  BY DEF IInv
<1>2. QED
  BY <1>1, Invariance, PTL

(* Any number of threads: lk->locked and lk->tid agree about the holder,    *)
(* although acquire and release write them in separate steps.               *)
THEOREM FieldsAgree == Spec => []OwnerNamed
<1>1. IInv => OwnerNamed
  BY DEF IInv
<1>2. QED
  BY <1>1, Invariance, PTL

(* Any number of threads: the unlocked checks at lines 30 and 46 let no     *)
(* call through that breaks the protocol.                                   *)
THEOREM ChecksSuffice == Spec => []MisuseStopped
<1>1. IInv => MisuseStopped
  BY DEF IInv
<1>2. QED
  BY <1>1, Invariance, PTL

-----------------------------------------------------------------------------
(***************************************************************************)
(* The refinement.  The owner of the abstract lock is named by a CHOOSE:   *)
(* the next two lemmas replace it by the only thread it can be.            *)
(***************************************************************************)

(* Under mutual exclusion, the abstract owner is the thread that owns the   *)
(* lock word.                                                               *)
LEMMA OwnerIs ==
  ASSUME MutualExclusion, NEW t \in Threads, Owns(t)
  PROVE  lockOwner = t
BY DEF MutualExclusion, lockOwner

(* Nobody owns the lock word: the abstract lock is free.                    *)
LEMMA OwnerNone ==
  ASSUME \A t \in Threads : ~Owns(t)
  PROVE  lockOwner = NoTid
BY DEF lockOwner

(* A step that leaves everybody's ownership alone leaves the abstract owner *)
(* alone.                                                                   *)
LEMMA OwnerStays ==
  ASSUME \A t \in Threads : Owns(t)' <=> Owns(t)
  PROVE  lockOwner' = lockOwner
BY DEF lockOwner

(* The initial state of the lock code is one of the abstract lock.          *)
LEMMA InitRefines == Init => Lock!LockInit
<1> SUFFICES ASSUME Init PROVE Lock!LockInit
  OBVIOUS
<1>1. lockOwner = NoTid
  BY OwnerNone DEF Init, Owns
<1>2. lockCall = [t \in Threads |-> "none"]
  BY DEF Init, lockCall
<1>3. QED
  BY <1>1, <1>2 DEF Init, Lock!LockInit

(* The steps that only read the fields, or write the owner's name, change   *)
(* nothing the interface shows.                                             *)
LEMMA StutterRefines ==
  ASSUME IInv, NEW t \in Threads,
         TestLocked(t) \/ (tid # t /\ TestSelf(t)) \/ NameOwner(t)
           \/ (locked /\ TestHeld(t)) \/ (tid = t /\ TestOwner(t)) \/ Unname(t)
  PROVE  UNCHANGED Lock!lockVars
<1> USE DEF IInv, TypeOK
<1>1. \A s \in Threads : Owns(s)' <=> Owns(s)
  BY DEF Owns, TestLocked, TestSelf, NameOwner, TestHeld, TestOwner, Unname, At, Exit
<1>2. lockOwner' = lockOwner
  BY <1>1, OwnerStays
<1>3. lockCall' = lockCall
  BY DEF lockCall, TestLocked, TestSelf, NameOwner, TestHeld, TestOwner, Unname, At, Exit
<1>4. exiter' = exiter
  BY DEF TestLocked, TestSelf, NameOwner, TestHeld, TestOwner, Unname, At, Exit
<1>5. QED
  BY <1>2, <1>3, <1>4 DEF Lock!lockVars

(* The two steps of the client are the calls of the interface.              *)
LEMMA CallRefines ==
  ASSUME IInv, NEW t \in Threads, CallAcquire(t) \/ CallRelease(t)
  PROVE  \E op \in {"lock", "unlock"} : Lock!Call(t, op)
<1> USE DEF IInv, TypeOK
<1>1. \A s \in Threads : Owns(s)' <=> Owns(s)
  BY DEF Owns, CallAcquire, CallRelease, At
<1>2. lockOwner' = lockOwner
  BY <1>1, OwnerStays
<1>3. lockCall[t] = "none"
  BY DEF lockCall, CallAcquire, CallRelease, At
<1>4. exiter = NoTid /\ exiter' = NoTid
  BY DEF CallAcquire, CallRelease, At
<1>5. CASE CallAcquire(t)
  <2>1. lockCall' = [lockCall EXCEPT ![t] = "lock"]
    BY <1>5 DEF lockCall, CallAcquire, At
  <2>2. Lock!Call(t, "lock")
    BY <1>2, <1>3, <1>4, <2>1 DEF Lock!Call
  <2>3. QED
    BY <2>2
<1>6. CASE CallRelease(t)
  <2>1. lockCall' = [lockCall EXCEPT ![t] = "unlock"]
    BY <1>6 DEF lockCall, CallRelease, At
  <2>2. Lock!Call(t, "unlock")
    BY <1>2, <1>3, <1>4, <2>1 DEF Lock!Call
  <2>3. QED
    BY <2>2
<1>7. QED
  BY <1>5, <1>6

(* The successful exchange is the moment the lock is taken.                 *)
LEMMA XchgRefines ==
  ASSUME IInv, NEW t \in Threads, Xchg(t)
  PROVE  Lock!TakeLock(t)
<1> USE DEF IInv, TypeOK
<1>1. lockOwner = NoTid
  BY OwnerNone DEF OwnerNamed, Xchg
<1>2. Owns(t)'
  BY DEF Owns, Xchg, At
<1>3. \A s \in Threads : Owns(s)' => s = t
  BY DEF OwnerNamed, Owns, Xchg, At
<1>4. lockOwner' = t
  BY <1>2, <1>3 DEF lockOwner
<1>5. lockCall[t] = "lock" /\ lockCall' = [lockCall EXCEPT ![t] = "none"]
  BY DEF lockCall, Xchg, At
<1>6. QED
  BY <1>1, <1>4, <1>5 DEF Lock!TakeLock, Xchg, At

(* The store of 0 is the moment the lock is given up, by its owner.         *)
LEMMA UnlockRefines ==
  ASSUME IInv, NEW t \in Threads, Unlock(t)
  PROVE  Lock!GiveLock(t)
<1> USE DEF IInv, TypeOK
<1>1. Owns(t)
  BY DEF MisuseStopped, Owns, Unlock, At
<1>2. lockOwner = t
  BY <1>1, OwnerIs
<1>3. \A s \in Threads : ~Owns(s)'
  BY <1>1 DEF MutualExclusion, Owns, Unlock, At
<1>4. lockOwner' = NoTid
  BY <1>3 DEF lockOwner
<1>5. lockCall[t] = "unlock" /\ lockCall' = [lockCall EXCEPT ![t] = "none"]
  BY DEF lockCall, Unlock, At
<1>6. QED
  BY <1>2, <1>4, <1>5 DEF Lock!GiveLock, Unlock, At

(* Each of the three ways to exit(1) answers a call that breaks the         *)
(* protocol.                                                                *)
LEMMA ExitRefines ==
  ASSUME IInv, NEW t \in Threads,
         (tid = t /\ TestSelf(t)) \/ (~locked /\ TestHeld(t)) \/ (tid # t /\ TestOwner(t))
  PROVE  Lock!Fault(t)
<1> USE NoTidAssumption DEF IInv, TypeOK
<1>1. UNCHANGED <<locked, tid, pc, holds>> /\ exiter = NoTid /\ exiter' = t
  BY DEF TestSelf, TestHeld, TestOwner, Exit, At
<1>2. lockOwner' = lockOwner /\ lockCall' = lockCall
  BY <1>1 DEF lockOwner, lockCall, Owns
<1>3. CASE tid = t /\ TestSelf(t)
  <2>1. lockOwner = t
    BY <1>3, OwnerIs DEF OwnerNamed, Owns
  <2>2. lockCall[t] = "lock"
    BY <1>3 DEF lockCall, TestSelf, Exit
  <2>3. QED
    BY <1>1, <1>2, <2>1, <2>2 DEF Lock!Fault
<1>4. CASE ~locked /\ TestHeld(t)
  <2>1. lockOwner = NoTid
    BY <1>4, OwnerNone DEF OwnerNamed
  <2>2. lockCall[t] = "unlock"
    BY <1>4 DEF lockCall, TestHeld, Exit
  <2>3. QED
    BY <1>1, <1>2, <2>1, <2>2 DEF Lock!Fault
<1>5. CASE tid # t /\ TestOwner(t)
  <2>1. pc[t] = "rself"
    BY <1>5 DEF TestOwner, Exit
  <2>2. ~Owns(t)
    BY <1>5, <2>1 DEF OwnerNamed, Owns
  <2>3. lockOwner # t
    BY <2>2 DEF lockOwner
  <2>4. lockCall[t] = "unlock"
    BY <2>1 DEF lockCall
  <2>5. QED
    BY <1>1, <1>2, <2>3, <2>4 DEF Lock!Fault
<1>6. QED
  BY <1>3, <1>4, <1>5

(* Every step of the lock code is a step of the abstract lock or changes    *)
(* nothing it shows.                                                        *)
LEMMA NextRefines == IInv /\ [Next]_vars => [Lock!LockNext]_(Lock!lockVars)
<1> SUFFICES ASSUME IInv, [Next]_vars PROVE [Lock!LockNext]_(Lock!lockVars)
  OBVIOUS
<1>1. ASSUME NEW t \in Threads, CallAcquire(t) \/ CallRelease(t)
      PROVE  Lock!LockNext
  BY <1>1, CallRefines DEF Lock!LockNext
<1>2. ASSUME NEW t \in Threads, acquire(t)
      PROVE  [Lock!LockNext]_(Lock!lockVars)
  BY <1>2, StutterRefines, XchgRefines, ExitRefines DEF acquire, Lock!LockNext
<1>3. ASSUME NEW t \in Threads, release(t)
      PROVE  [Lock!LockNext]_(Lock!lockVars)
  BY <1>3, StutterRefines, UnlockRefines, ExitRefines DEF release, Lock!LockNext
<1>4. CASE UNCHANGED vars
  BY <1>4 DEF vars, Lock!lockVars, lockOwner, lockCall, Owns
<1>5. QED
  BY <1>1, <1>2, <1>3, <1>4 DEF Next, Exited

(* acquire and release implement the abstract lock, for any number of       *)
(* threads: they take effect at the exchange and at the last store, and     *)
(* their unlocked checks never end the process for a legal call.            *)
THEOREM Refinement == Spec => ImplementsLock
<1>1. Init => Lock!LockInit
  BY InitRefines
<1>2. IInv /\ [Next]_vars => [Lock!LockNext]_(Lock!lockVars)
  BY NextRefines
<1>3. QED
  BY <1>1, <1>2, Invariance, PTL DEF Spec, ImplementsLock, Lock!Spec
=============================================================================
