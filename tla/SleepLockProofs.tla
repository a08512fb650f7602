-------------------------- MODULE SleepLockProofs --------------------------
(***************************************************************************)
(* Proofs about SleepLock, for every set of threads: the inner lock is     *)
(* balanced, the sleeplock implements the abstract lock, and it is a legal *)
(* client of the abstract lock it is built on.                             *)
(***************************************************************************)
EXTENDS SleepLock, TLAPS

(* The inner lock starts free and nobody is inside.                         *)
LEMMA InitIInv == Init => IInv
BY NoTidAssumption
   DEF Init, IInv, TypeOK, Labels, AcquireLabels, ReleaseLabels, SpinBalanced, InSpin, TwiceOwns

(* The futex calls get no address: the kernel never puts a thread to sleep. *)
LEMMA NobodySleeps ==
  ASSUME NEW t \in Threads, FutexWait(t) \/ FutexWake(t)
  PROVE  asleep' = asleep
BY DEF FutexWait, FutexWake, waitArgument, wakeArgument

(* One step per action of the lock code and of its client. *)
LEMMA NextIInv == IInv /\ [Next]_vars => IInv'
<1> SUFFICES ASSUME IInv, [Next]_vars PROVE IInv'
  OBVIOUS
<1> USE NoTidAssumption
        DEF IInv, TypeOK, Labels, AcquireLabels, ReleaseLabels, SpinBalanced, InSpin, TwiceOwns, At
<1>1. ASSUME NEW t \in Threads, CallAcquiresleep(t) \/ CallReleasesleep(t) PROVE IInv'
  BY <1>1 DEF CallAcquiresleep, CallReleasesleep
<1>2. ASSUME NEW t \in Threads, Enter(t) \/ Reenter(t) \/ REnter(t) PROVE IInv'
  BY <1>2 DEF Enter, Reenter, REnter, TakeSpin
<1>3. ASSUME NEW t \in Threads, LeaveTwice(t) \/ Yield(t) \/ Leave(t) \/ RLeave(t) PROVE IInv'
  BY <1>3 DEF LeaveTwice, Yield, Leave, RLeave, GiveSpin
<1>4. ASSUME NEW t \in Threads, CheckTwice(t) PROVE IInv'
  BY <1>4 DEF CheckTwice
<1>5. ASSUME NEW t \in Threads, ExitTwice(t) PROVE IInv'
  BY <1>5 DEF ExitTwice
<1>6. ASSUME NEW t \in Threads, Take(t) PROVE IInv'
  <2>1. CASE locked
    BY <1>6, <2>1 DEF Take
  <2>2. CASE ~locked
    BY <1>6, <2>2 DEF Take
  <2>3. QED
    BY <2>1, <2>2
<1>7. ASSUME NEW t \in Threads, FutexWait(t) \/ FutexWake(t) PROVE IInv'
  <2>1. asleep' = asleep
    BY <1>7, NobodySleeps
  <2>2. QED
    BY <1>7, <2>1 DEF FutexWait, FutexWake
<1>8. ASSUME NEW t \in Threads, Clear(t) PROVE IInv'
  BY <1>8 DEF Clear
<1>9. CASE UNCHANGED vars
  BY <1>9 DEF vars
<1>10. QED
  BY <1>1, <1>2, <1>3, <1>4, <1>5, <1>6, <1>7, <1>8, <1>9
     DEF Next, acquiresleep, releasesleep, Exited

(* IInv holds in every reachable state of the sleeplock.                    *)
THEOREM Invariance == Spec => []IInv
<1>1. Init => IInv
  BY InitIInv
<1>2. IInv /\ [Next]_vars => IInv'
  BY NextIInv
<1>3. QED
  BY <1>1, <1>2, PTL DEF Spec

(* The fields of the sleeplock, its inner owner and the program counters    *)
(* keep their types through every interleaving.                             *)
THEOREM TypeCorrect == Spec => []TypeOK
<1>1. IInv => TypeOK
  BY DEF IInv
<1>2. QED
  BY <1>1, Invariance, PTL

(* Any number of threads: the inner lock is held exactly by the thread that *)
(* is between its inner acquire and its inner release, on every path of     *)
(* acquiresleep and releasesleep (lines 66-100).                            *)
THEOREM InnerLockBalanced == Spec => []SpinBalanced
<1>1. IInv => SpinBalanced
  BY DEF IInv
<1>2. QED
  BY <1>1, Invariance, PTL

-----------------------------------------------------------------------------
(***************************************************************************)
(* The sleeplock implements the abstract lock.                             *)
(***************************************************************************)

(* The initialised sleeplock is a free abstract lock.                       *)
LEMMA InitRefines == Init => Lock!LockInit
BY DEF Init, lockOwner, lockCall, Lock!LockInit, AcquireLabels

(* The calls of the client are the calls of the interface.                  *)
LEMMA CallRefines ==
  ASSUME IInv, NEW t \in Threads, CallAcquiresleep(t) \/ CallReleasesleep(t)
  PROVE  Lock!LockNext
<1> USE DEF IInv, TypeOK, AcquireLabels
<1>1. lockOwner' = lockOwner /\ exiter = NoTid /\ exiter' = NoTid /\ lockCall[t] = "none"
  BY DEF CallAcquiresleep, CallReleasesleep, At, lockOwner, lockCall
<1>2. CASE CallAcquiresleep(t)
  <2>1. lockCall' = [lockCall EXCEPT ![t] = "lock"]
    BY <1>2 DEF CallAcquiresleep, At, lockCall
  <2>2. QED
    BY <1>1, <2>1 DEF Lock!Call, Lock!LockNext
<1>3. CASE CallReleasesleep(t)
  <2>1. lockCall' = [lockCall EXCEPT ![t] = "unlock"]
    BY <1>3 DEF CallReleasesleep, At, lockCall
  <2>2. QED
    BY <1>1, <2>1 DEF Lock!Call, Lock!LockNext
<1>4. QED
  BY <1>2, <1>3

(* What happens on the inner lock and in the system calls is hidden.        *)
LEMMA HiddenSteps ==
  ASSUME IInv, NEW t \in Threads,
         Enter(t) \/ CheckTwice(t) \/ LeaveTwice(t) \/ Yield(t) \/ FutexWait(t)
           \/ Reenter(t) \/ Leave(t) \/ REnter(t) \/ FutexWake(t) \/ RLeave(t)
           \/ (locked /\ Take(t))
  PROVE  UNCHANGED Lock!lockVars
<1> USE DEF IInv, TypeOK, Enter, CheckTwice, LeaveTwice, Yield, FutexWait, Reenter,
            Leave, REnter, FutexWake, RLeave, Take, TakeSpin, GiveSpin, At
<1>1. UNCHANGED <<locked, tid, exiter>>
  OBVIOUS
<1>2. lockCall' = lockCall
  BY DEF lockCall, AcquireLabels
<1>3. QED
  BY <1>1, <1>2 DEF Lock!lockVars, lockOwner

(* The two stores under the inner lock take the lock and give it up.        *)
LEMMA StoreRefines ==
  ASSUME IInv, NEW t \in Threads,
         (~locked /\ Take(t)) \/ (locked /\ tid = t /\ Clear(t))
  PROVE  Lock!LockNext
<1> USE DEF IInv, TypeOK, Take, Clear, At
<1>1. exiter = NoTid /\ exiter' = exiter
  OBVIOUS
<1>2. CASE ~locked /\ Take(t)
  <2>1. lockOwner = NoTid /\ lockOwner' = t
    BY <1>2 DEF lockOwner
  <2>2. lockCall[t] = "lock" /\ lockCall' = [lockCall EXCEPT ![t] = "none"]
    BY <1>2 DEF lockCall, AcquireLabels
  <2>3. QED
    BY <1>1, <2>1, <2>2 DEF Lock!TakeLock, Lock!LockNext
<1>3. CASE locked /\ tid = t /\ Clear(t)
  <2>1. lockOwner = t /\ lockOwner' = NoTid
    BY <1>3 DEF lockOwner
  <2>2. lockCall[t] = "unlock" /\ lockCall' = [lockCall EXCEPT ![t] = "none"]
    BY <1>3 DEF lockCall, AcquireLabels
  <2>3. QED
    BY <1>1, <2>1, <2>2 DEF Lock!GiveLock, Lock!LockNext
<1>4. QED
  BY <1>2, <1>3

(* The two ways to exit(1) answer a call that breaks the protocol.          *)
LEMMA ExitRefines ==
  ASSUME IInv, NEW t \in Threads, ExitTwice(t) \/ (~(locked /\ tid = t) /\ Clear(t))
  PROVE  Lock!LockNext
<1> USE NoTidAssumption DEF IInv, TypeOK
<1>1. UNCHANGED <<locked, tid, pc>> /\ exiter = NoTid /\ exiter' = t
  BY DEF ExitTwice, Clear
<1>2. lockOwner' = lockOwner /\ lockCall' = lockCall
  BY <1>1 DEF lockOwner, lockCall
<1>3. CASE ExitTwice(t)
  <2>1. lockOwner = t /\ lockCall[t] = "lock"
    BY <1>3 DEF ExitTwice, TwiceOwns, lockOwner, lockCall, AcquireLabels
  <2>2. QED
    BY <1>1, <1>2, <2>1 DEF Lock!Fault, Lock!LockNext
<1>4. CASE ~(locked /\ tid = t) /\ Clear(t)
  <2>1. lockOwner # t /\ lockCall[t] = "unlock"
    BY <1>4 DEF Clear, lockOwner, lockCall, AcquireLabels
  <2>2. QED
    BY <1>1, <1>2, <2>1 DEF Lock!Fault, Lock!LockNext
<1>5. QED
  BY <1>3, <1>4

(* Every step is one of the abstract lock or changes nothing it shows.      *)
LEMMA NextRefines == IInv /\ [Next]_vars => [Lock!LockNext]_(Lock!lockVars)
<1> SUFFICES ASSUME IInv, [Next]_vars PROVE [Lock!LockNext]_(Lock!lockVars)
  OBVIOUS
<1>1. ASSUME NEW t \in Threads, CallAcquiresleep(t) \/ CallReleasesleep(t)
      PROVE  Lock!LockNext
  BY <1>1, CallRefines
<1>2. ASSUME NEW t \in Threads, acquiresleep(t)
      PROVE  [Lock!LockNext]_(Lock!lockVars)
  BY <1>2, HiddenSteps, StoreRefines, ExitRefines DEF acquiresleep
<1>3. ASSUME NEW t \in Threads, releasesleep(t)
      PROVE  [Lock!LockNext]_(Lock!lockVars)
  BY <1>3, HiddenSteps, StoreRefines, ExitRefines DEF releasesleep
<1>4. CASE UNCHANGED vars
  BY <1>4 DEF vars, Lock!lockVars, lockOwner, lockCall
<1>5. QED
  BY <1>1, <1>2, <1>3, <1>4 DEF Next, Exited

(* acquiresleep and releasesleep implement the abstract lock for any number *)
(* of threads: the poll loop never lets two threads in, and exit(1) is only *)
(* reached by a call that breaks the protocol.                              *)
THEOREM Refinement == Spec => ImplementsLock
<1>1. Init => Lock!LockInit
  BY InitRefines
<1>2. IInv /\ [Next]_vars => [Lock!LockNext]_(Lock!lockVars)
  BY NextRefines
<1>3. QED
  BY <1>1, <1>2, Invariance, PTL DEF Spec, ImplementsLock, Lock!Spec

-----------------------------------------------------------------------------
(***************************************************************************)
(* The sleeplock is a legal client of the lock it is built on.             *)
(***************************************************************************)

(* The inner lock starts as a free abstract lock.                           *)
LEMMA InnerInit == Init => Inner!LockInit
BY DEF Init, spinCall, Inner!LockInit

(* A step into a call of the inner acquire or release.                      *)
LEMMA InnerCalls ==
  ASSUME IInv, NEW t \in Threads,
         \/ CallAcquiresleep(t)
         \/ CallReleasesleep(t)
         \/ (locked /\ tid = t /\ CheckTwice(t))
         \/ Take(t)
         \/ FutexWait(t)
         \/ FutexWake(t)
  PROVE  Inner!LockNext
<1> USE DEF IInv, TypeOK, CallAcquiresleep, CallReleasesleep, CheckTwice, Take, FutexWait,
            FutexWake, At
<1>1. spin' = spin /\ spinCall[t] = "none"
  BY DEF spinCall
<1>2. CASE pc[t] \in {"idle", "futex"}
  <2>1. spinCall' = [spinCall EXCEPT ![t] = "lock"]
    BY <1>2 DEF spinCall
  <2>2. QED
    BY <1>1, <2>1 DEF Inner!Call, Inner!LockNext
<1>3. CASE pc[t] \in {"check", "loop", "wake"}
  <2>1. spinCall' = [spinCall EXCEPT ![t] = "unlock"]
    BY <1>3 DEF spinCall
  <2>2. QED
    BY <1>1, <2>1 DEF Inner!Call, Inner!LockNext
<1>4. QED
  BY <1>2, <1>3

(* A step that returns from one: the inner lock is taken free, and given up *)
(* only by the thread that has it.                                          *)
LEMMA InnerReturns ==
  ASSUME IInv, NEW t \in Threads,
         Enter(t) \/ Reenter(t) \/ REnter(t)
           \/ LeaveTwice(t) \/ Yield(t) \/ Leave(t) \/ RLeave(t)
  PROVE  Inner!LockNext
<1> USE DEF IInv, TypeOK
<1>1. CASE Enter(t) \/ Reenter(t) \/ REnter(t)
  <2>1. spin = NoTid /\ spin' = t
    BY <1>1 DEF Enter, Reenter, REnter, TakeSpin
  <2>2. spinCall[t] = "lock" /\ spinCall' = [spinCall EXCEPT ![t] = "none"]
    BY <1>1 DEF Enter, Reenter, REnter, TakeSpin, At, spinCall
  <2>3. QED
    BY <2>1, <2>2 DEF Inner!TakeLock, Inner!LockNext
<1>2. CASE LeaveTwice(t) \/ Yield(t) \/ Leave(t) \/ RLeave(t)
  <2>1. spin = t /\ spin' = NoTid
    BY <1>2 DEF LeaveTwice, Yield, Leave, RLeave, GiveSpin, At, SpinBalanced, InSpin
  <2>2. spinCall[t] = "unlock" /\ spinCall' = [spinCall EXCEPT ![t] = "none"]
    BY <1>2 DEF LeaveTwice, Yield, Leave, RLeave, GiveSpin, At, spinCall
  <2>3. QED
    BY <2>1, <2>2 DEF Inner!GiveLock, Inner!LockNext
<1>3. QED
  BY <1>1, <1>2

(* The steps between an inner call and the next.                            *)
LEMMA InnerHidden ==
  ASSUME IInv, NEW t \in Threads,
         (~(locked /\ tid = t) /\ CheckTwice(t)) \/ ExitTwice(t) \/ Clear(t)
  PROVE  UNCHANGED Inner!lockVars
<1>1. spin' = spin
  BY DEF CheckTwice, ExitTwice, Clear
<1>2. spinCall' = spinCall
  BY DEF IInv, TypeOK, spinCall, CheckTwice, ExitTwice, Clear, At
<1>3. QED
  BY <1>1, <1>2 DEF Inner!lockVars

(* Every step is a legal step of the inner lock, or hidden from it.         *)
LEMMA InnerNext == IInv /\ [Next]_vars => [Inner!LockNext]_(Inner!lockVars)
<1> SUFFICES ASSUME IInv, [Next]_vars PROVE [Inner!LockNext]_(Inner!lockVars)
  OBVIOUS
<1>1. ASSUME NEW t \in Threads, CallAcquiresleep(t) \/ CallReleasesleep(t)
      PROVE  Inner!LockNext
  BY <1>1, InnerCalls
<1>2. ASSUME NEW t \in Threads, acquiresleep(t)
      PROVE  [Inner!LockNext]_(Inner!lockVars)
  BY <1>2, InnerCalls, InnerReturns, InnerHidden DEF acquiresleep
<1>3. ASSUME NEW t \in Threads, releasesleep(t)
      PROVE  [Inner!LockNext]_(Inner!lockVars)
  BY <1>3, InnerCalls, InnerReturns, InnerHidden DEF releasesleep
<1>4. CASE UNCHANGED vars
  BY <1>4 DEF vars, Inner!lockVars, spinCall
<1>5. QED
  BY <1>1, <1>2, <1>3, <1>4 DEF Next, Exited

(* Any number of threads: the sleeplock never locks its inner spinlock      *)
(* twice and never releases it for somebody else.  With SpinLock's          *)
(* Refinement this composes the two locks.                                  *)
THEOREM LegalClient == Spec => UsesSpinLegally
<1>1. Init => Inner!LockInit
  BY InnerInit
<1>2. IInv /\ [Next]_vars => [Inner!LockNext]_(Inner!lockVars)
  BY InnerNext
<1>3. QED
  BY <1>1, <1>2, Invariance, PTL DEF Spec, UsesSpinLegally, Inner!Spec
=============================================================================
