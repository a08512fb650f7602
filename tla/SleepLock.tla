----------------------------- MODULE SleepLock -----------------------------
(***************************************************************************)
(* The sleeplock of the one-one library (src/src/one_one/lock.c):          *)
(* acquiresleep, releasesleep and initsleeplock.  Its fields are guarded   *)
(* by an inner spinlock, lk->lk, of which this module uses what SpinLock   *)
(* is shown to implement: the abstract lock LockSpec.  A call of the inner *)
(* acquire or release is two steps, the call and its effect; the fields    *)
(* are only touched between them, so the statements there are one step.    *)
(*                                                                         *)
(*    acquiresleep  "acq"     inside acquire(&lk->lk)          (67)        *)
(*                  "check"   lk->locked && lk->tid == gettid  (68)        *)
(*                  "exiting" inside release(&lk->lk)          (72)        *)
(*                  "exit"    exit(1)                          (73)        *)
(*                  "loop"    lk->locked == 1                  (76)        *)
(*                  "yield"   inside release(&lk->lk)          (77)        *)
(*                  "futex"   the system call                  (78)        *)
(*                  "reacq"   inside acquire(&lk->lk)          (79)        *)
(*                  "done"    inside release(&lk->lk)          (85)        *)
(*    releasesleep  "racq"    inside acquire(&lk->lk)          (89)        *)
(*                  "rcheck"  the check and the two stores     (90-96)     *)
(*                  "wake"    the system call                  (97)        *)
(*                  "rdone"   inside release(&lk->lk)          (98)        *)
(*                                                                         *)
(* Both system calls pass the VALUE of lk->locked, 0 or 1, where futex     *)
(* wants an address.  The kernel answers EFAULT or EINVAL at once: the     *)
(* wait does not wait and the wake wakes nobody, and what makes a waiter   *)
(* see a free lock is that it polls.                                       *)
(***************************************************************************)

CONSTANTS
  Threads,  (* the kernel threads that use the lock                        *)
  NoTid     (* -1: no thread                                               *)

ASSUME NoTidAssumption == NoTid \notin Threads

VARIABLES
  locked,   (* lk->locked                                                  *)
  tid,      (* lk->tid                                                     *)
  spin,     (* the owner of the inner spinlock lk->lk, or NoTid            *)
  pc,       (* per thread, where it is in the lock code                    *)
  asleep,   (* the threads the kernel has put to sleep in FUTEX_WAIT       *)
  exiter    (* the thread that called exit(1), or NoTid                    *)

vars == <<locked, tid, spin, pc, asleep, exiter>>

AcquireLabels ==
  {"acq", "check", "exiting", "exit", "loop", "yield", "futex", "reacq", "done"}

ReleaseLabels == {"racq", "rcheck", "wake", "rdone"}

Labels == {"idle"} \cup AcquireLabels \cup ReleaseLabels

TypeOK ==
  /\ locked \in BOOLEAN
  /\ tid \in Threads \cup {NoTid}
  /\ spin \in Threads \cup {NoTid}
  /\ pc \in [Threads -> Labels]
  /\ asleep \subseteq Threads
  /\ exiter \in Threads \cup {NoTid}

Init ==
  /\ locked = FALSE
  /\ tid = NoTid
  /\ spin = NoTid
  /\ pc = [t \in Threads |-> "idle"]
  /\ asleep = {}
  /\ exiter = NoTid

-----------------------------------------------------------------------------
(* A step of t to one of its next labels, in a process that still runs.    *)
At(t, from, to) ==
  /\ exiter = NoTid
  /\ pc[t] = from
  /\ t \notin asleep
  /\ pc' = [pc EXCEPT ![t] = to]

(* The effect of the inner acquire and release.                            *)
TakeSpin(t, from, to) ==
  /\ At(t, from, to)
  /\ spin = NoTid
  /\ spin' = t
  /\ UNCHANGED <<locked, tid, asleep, exiter>>

GiveSpin(t, from, to) ==
  /\ At(t, from, to)
  /\ spin' = NoTid
  /\ UNCHANGED <<locked, tid, asleep, exiter>>

CallAcquiresleep(t) ==
  /\ At(t, "idle", "acq")
  /\ UNCHANGED <<locked, tid, spin, asleep, exiter>>

CallReleasesleep(t) ==
  /\ At(t, "idle", "racq")
  /\ UNCHANGED <<locked, tid, spin, asleep, exiter>>

Enter(t) == TakeSpin(t, "acq", "check")

(* lk->locked && lk->tid == gettid()                                       *)
CheckTwice(t) ==
  /\ At(t, "check", IF locked /\ tid = t THEN "exiting" ELSE "loop")
  /\ UNCHANGED <<locked, tid, spin, asleep, exiter>>

LeaveTwice(t) == GiveSpin(t, "exiting", "exit")

ExitTwice(t) ==
  /\ exiter = NoTid
  /\ pc[t] = "exit"
  /\ exiter' = t
  /\ UNCHANGED <<locked, tid, spin, pc, asleep>>

(* Mutant: an if where the loop is, so that a waiter that comes back takes *)
(* the lock without looking at it again.                                   *)
TakeUnchecked(t) ==
  \/ /\ At(t, "loop", "yield")
     /\ locked
     /\ UNCHANGED <<locked, tid, spin, asleep, exiter>>
  \/ /\ At(t, "loop", "done")
     /\ locked' = TRUE
     /\ tid' = t
     /\ UNCHANGED <<spin, asleep, exiter>>

(* while (lk->locked == 1) or the two stores behind it                     *)
Take(t) ==
  \/ /\ At(t, "loop", "yield")
     /\ locked
     /\ UNCHANGED <<locked, tid, spin, asleep, exiter>>
  \/ /\ At(t, "loop", "done")
     /\ ~locked
     /\ locked' = TRUE
     /\ tid' = t
     /\ UNCHANGED <<spin, asleep, exiter>>

(* Mutant: the wait is entered with the inner lock held.                   *)
YieldKeeps(t) ==
  /\ At(t, "yield", "futex")
  /\ UNCHANGED <<locked, tid, spin, asleep, exiter>>

Yield(t) == GiveSpin(t, "yield", "futex")

(* Mutant: the wait is given &lk->locked, the wake still the value.        *)
waitArgumentWord == "word"

(* What the two system calls pass where futex wants the address of a word: *)
(* the value of lk->locked, which is no address the kernel can read.       *)
waitArgument == "value"
wakeArgument == "value"

(* FUTEX_WAIT with the expected value 1: EFAULT or EINVAL for an argument  *)
(* that is no word's address, else the thread sleeps if the word holds 1.  *)
FutexWait(t) ==
  /\ At(t, "futex", "reacq")
  /\ asleep' = IF waitArgument = "word" /\ locked THEN asleep \cup {t} ELSE asleep
  /\ UNCHANGED <<locked, tid, spin, exiter>>

Reenter(t) == TakeSpin(t, "reacq", "loop")

Leave(t) == GiveSpin(t, "done", "idle")

acquiresleep(t) ==
  \/ Enter(t) \/ CheckTwice(t) \/ LeaveTwice(t) \/ ExitTwice(t) \/ Take(t) \/ Yield(t)
  \/ FutexWait(t) \/ Reenter(t) \/ Leave(t)

REnter(t) == TakeSpin(t, "racq", "rcheck")

(* Mutant: the owner is cleared with the lock word's 0 of type int.        *)
ClearWrong(t) ==
  \/ /\ locked /\ tid = t
     /\ At(t, "rcheck", "wake")
     /\ locked' = FALSE
     /\ tid' = FALSE
     /\ UNCHANGED <<spin, asleep, exiter>>
  \/ /\ ~(locked /\ tid = t)
     /\ exiter = NoTid
     /\ pc[t] = "rcheck"
     /\ exiter' = t
     /\ UNCHANGED <<locked, tid, spin, pc, asleep>>

(* if (!(lk->locked && lk->tid == gettid())) exit(1), else the two stores. *)
(* The exit leaves the inner lock held, in a process that is gone.         *)
Clear(t) ==
  \/ /\ locked /\ tid = t
     /\ At(t, "rcheck", "wake")
     /\ locked' = FALSE
     /\ tid' = NoTid
     /\ UNCHANGED <<spin, asleep, exiter>>
  \/ /\ ~(locked /\ tid = t)
     /\ exiter = NoTid
     /\ pc[t] = "rcheck"
     /\ exiter' = t
     /\ UNCHANGED <<locked, tid, spin, pc, asleep>>

(* FUTEX_WAKE of one thread, likewise.                                     *)
FutexWake(t) ==
  /\ At(t, "wake", "rdone")
  /\ asleep' = IF wakeArgument = "word" /\ asleep # {} 
             THEN asleep \ {CHOOSE s \in asleep : TRUE} ELSE asleep
  /\ UNCHANGED <<locked, tid, spin, exiter>>

RLeave(t) == GiveSpin(t, "rdone", "idle")

releasesleep(t) == REnter(t) \/ Clear(t) \/ FutexWake(t) \/ RLeave(t)

(* The process is gone.                                                    *)
Exited ==
  /\ exiter # NoTid
  /\ UNCHANGED vars

Next ==
  \/ \E t \in Threads :
       CallAcquiresleep(t) \/ CallReleasesleep(t) \/ acquiresleep(t) \/ releasesleep(t)
  \/ Exited

Spec == Init /\ [][Next]_vars

(* The operating system runs every thread that has a step to do.  Nothing  *)
(* is assumed of who gets the inner lock, or of what the client calls.     *)
Fairness ==
  \A t \in Threads : WF_vars(acquiresleep(t)) /\ WF_vars(releasesleep(t))

FairSpec == Spec /\ Fairness

-----------------------------------------------------------------------------
(***************************************************************************)
(* Properties.                                                             *)
(***************************************************************************)

(* The thread has returned from the inner acquire and not from the inner   *)
(* release.                                                                *)
InSpin(t) ==
  pc[t] \in {"check", "exiting", "loop", "yield", "done", "rcheck", "wake", "rdone"}

(* At most one thread is between the inner acquire and the end of the      *)
(* inner release, it is the one the inner lock names, and whoever is       *)
(* outside has left it: no path through acquiresleep and releasesleep      *)
(* keeps the inner lock or touches the fields without it.                  *)
SpinBalanced ==
  \A t \in Threads : InSpin(t) <=> spin = t

(* A thread on its way to exit(1) for locking twice does own the lock: it  *)
(* leaves the inner lock first, and nobody else can free the outer one.    *)
TwiceOwns ==
  \A t \in Threads : pc[t] \in {"exiting", "exit"} => locked /\ tid = t

IInv == TypeOK /\ SpinBalanced /\ TwiceOwns

lockOwner == IF locked THEN tid ELSE NoTid

lockCall ==
  [t \in Threads |->
     CASE pc[t] \in AcquireLabels \ {"done"} -> "lock"
       [] pc[t] \in {"racq", "rcheck"} -> "unlock"
       [] OTHER -> "none"]

(* The end of a call that has taken effect, the inner release, is not a    *)
(* step of the interface: a thread there may not call again, which is      *)
(* one of the things the interface allows it to do.                        *)
Lock == INSTANCE LockSpec
          WITH owner <- lockOwner, call <- lockCall, faulted <- (exiter # NoTid)

(* acquiresleep and releasesleep implement the same lock as the spinlock:  *)
(* the lock is taken and given up at the stores under the inner lock, and  *)
(* the process ends only for a call that breaks the protocol.              *)
ImplementsLock == Lock!Spec

spinCall ==
  [t \in Threads |->
     CASE pc[t] \in {"acq", "reacq", "racq"} -> "lock"
       [] pc[t] \in {"exiting", "yield", "done", "rdone"} -> "unlock"
       [] OTHER -> "none"]

Inner == INSTANCE LockSpec
           WITH owner <- spin, call <- spinCall, faulted <- FALSE

(* The sleeplock is a legal client of the spinlock: it never locks the     *)
(* inner lock twice and never releases one it does not hold, so none of    *)
(* the inner checks can end the process.                                   *)
UsesSpinLegally == Inner!Spec

(* Whoever waits in acquiresleep is not left with a lock nobody takes: a   *)
(* free lock with a waiter is taken by somebody, or the process ends,      *)
(* although the futex calls never wake anybody.                            *)
FreeLockTaken ==
  (~locked /\ \E t \in Threads : pc[t] \in AcquireLabels)
    ~> (locked \/ exiter # NoTid)
=============================================================================
