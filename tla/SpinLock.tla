------------------------------ MODULE SpinLock ------------------------------
(***************************************************************************)
(* The spinlock of the one-one library (src/src/one_one/lock.c): acquire,  *)
(* release and initlock, executed by kernel threads that interleave        *)
(* between any two memory accesses.  A program counter names, per thread,  *)
(* the next access to the lock's two fields:                               *)
(*                                                                         *)
(*    acquire   "test"   read lk->locked         (line 30)                 *)
(*              "self"   read lk->tid            (line 30)                 *)
(*              "xchg"   xchg(&lk->locked, 1)    (line 37)                 *)
(*              "name"   lk->tid = gettid()      (line 40)                 *)
(*    release   "rtest"  read lk->locked         (line 46)                 *)
(*              "rself"  read lk->tid            (line 46)                 *)
(*              "unname" lk->tid = -1            (line 52)                 *)
(*              "unlock" lk->locked = 0          (line 54)                 *)
(*                                                                         *)
(* The client is any program: a thread outside the lock code may call      *)
(* acquire or release at any time, also when that breaks the protocol.     *)
(* exit(1) ends the process at once: the remaining steps of the other      *)
(* threads while it is being torn down are left out.                       *)
(***************************************************************************)

CONSTANTS
  Threads,  (* the kernel threads that use the lock                        *)
  NoTid     (* -1, and the 0 of a lock in zeroed static storage: no thread *)

ASSUME NoTidAssumption == NoTid \notin Threads

VARIABLES
  locked,   (* lk->locked                                                  *)
  tid,      (* lk->tid                                                     *)
  pc,       (* per thread, the access it executes next                     *)
  holds,    (* the threads whose last acquire returned and whose release   *)
            (* has not: the client's own view of who is inside             *)
  exiter    (* the thread that called exit(1), or NoTid                    *)

vars == <<locked, tid, pc, holds, exiter>>

Labels ==
  {"idle", "test", "self", "xchg", "name", "rtest", "rself", "unname", "unlock"}

TypeOK ==
  /\ locked \in BOOLEAN
  /\ tid \in Threads \cup {NoTid}
  /\ pc \in [Threads -> Labels]
  /\ holds \subseteq Threads
  /\ exiter \in Threads \cup {NoTid}

(* initlock clears locked and leaves tid alone. *)
Init ==
  /\ locked = FALSE
  /\ tid = NoTid
  /\ pc = [t \in Threads |-> "idle"]
  /\ holds = {}
  /\ exiter = NoTid

-----------------------------------------------------------------------------
(* One step of t from one label to the next, in a process that still runs. *)
At(t, from, to) ==
  /\ exiter = NoTid
  /\ pc[t] = from
  /\ pc' = [pc EXCEPT ![t] = to]

(* perror(...); exit(1): the thread stays where it found the violation. *)
Exit(t, from) ==
  /\ exiter = NoTid
  /\ pc[t] = from
  /\ exiter' = t
  /\ UNCHANGED <<locked, tid, pc, holds>>

CallAcquire(t) ==
  /\ At(t, "idle", "test")
  /\ UNCHANGED <<locked, tid, holds, exiter>>

CallRelease(t) ==
  /\ At(t, "idle", "rtest")
  /\ UNCHANGED <<locked, tid, holds, exiter>>

(* if (lk->locked && ...) *)
TestLocked(t) ==
  /\ At(t, "test", IF locked THEN "self" ELSE "xchg")
  /\ UNCHANGED <<locked, tid, holds, exiter>>

(* ... && lk->tid == gettid()) exit(1) *)
TestSelf(t) ==
  \/ /\ tid # t
     /\ At(t, "self", "xchg")
     /\ UNCHANGED <<locked, tid, holds, exiter>>
  \/ /\ tid = t
     /\ Exit(t, "self")

(* The exchange that stores 1 where 1 was changes nothing: the loop is the *)
(* disabled action.                                                        *)
Xchg(t) ==
  /\ ~locked
  /\ At(t, "xchg", "name")
  /\ locked' = TRUE
  /\ UNCHANGED <<tid, holds, exiter>>

(* Mutant: acquire returns without recording its thread. *)
NameOwnerNot(t) ==
  /\ At(t, "name", "idle")
  /\ holds' = holds \cup {t}
  /\ UNCHANGED <<locked, tid, exiter>>

NameOwner(t) ==
  /\ At(t, "name", "idle")
  /\ tid' = t
  /\ holds' = holds \cup {t}
  /\ UNCHANGED <<locked, exiter>>

(* if (!(lk->locked && ...)) exit(1) *)
TestHeld(t) ==
  \/ /\ locked
     /\ At(t, "rtest", "rself")
     /\ UNCHANGED <<locked, tid, holds, exiter>>
  \/ /\ ~locked
     /\ Exit(t, "rtest")

TestOwner(t) ==
  \/ /\ tid = t
     /\ At(t, "rself", "unname")
     /\ UNCHANGED <<locked, tid, holds, exiter>>
  \/ /\ tid # t
     /\ Exit(t, "rself")

(* Mutant: the owner field is given the lock word's value. *)
UnnameZero(t) ==
  /\ At(t, "unname", "unlock")
  /\ tid' = FALSE
  /\ UNCHANGED <<locked, holds, exiter>>

Unname(t) ==
  /\ At(t, "unname", "unlock")
  /\ tid' = NoTid
  /\ UNCHANGED <<locked, holds, exiter>>

(* Mutant: release returns without storing 0. *)
UnlockForgets(t) ==
  /\ At(t, "unlock", "idle")
  /\ holds' = holds \ {t}
  /\ UNCHANGED <<locked, tid, exiter>>

Unlock(t) ==
  /\ At(t, "unlock", "idle")
  /\ locked' = FALSE
  /\ holds' = holds \ {t}
  /\ UNCHANGED <<tid, exiter>>

(* The process is gone. *)
Exited ==
  /\ exiter # NoTid
  /\ UNCHANGED vars

acquire(t) == TestLocked(t) \/ TestSelf(t) \/ Xchg(t) \/ NameOwner(t)

(* Mutant: the lock word is cleared before the owner is. *)
releaseSwapped(t) ==
  \/ TestHeld(t)
  \/ TestOwner(t)
  \/ /\ At(t, "unname", "unlock")
     /\ locked' = FALSE
     /\ holds' = holds \ {t}
     /\ UNCHANGED <<tid, exiter>>
  \/ /\ At(t, "unlock", "idle")
     /\ tid' = NoTid
     /\ UNCHANGED <<locked, holds, exiter>>

release(t) == TestHeld(t) \/ TestOwner(t) \/ Unname(t) \/ Unlock(t)

Next ==
  \/ \E t \in Threads : CallAcquire(t) \/ CallRelease(t) \/ acquire(t) \/ release(t)
  \/ Exited

Spec == Init /\ [][Next]_vars

(***************************************************************************)
(* The operating system runs every thread that has a step to do, and the   *)
(* client keeps its side: a thread inside the lock calls release some day. *)
(***************************************************************************)
Fairness ==
  \A t \in Threads :
    /\ WF_vars(acquire(t))
    /\ WF_vars(release(t))
    /\ WF_vars(t \in holds /\ CallRelease(t))

FairSpec == Spec /\ Fairness

-----------------------------------------------------------------------------
(***************************************************************************)
(* Properties.                                                             *)
(***************************************************************************)

(* The thread owns the lock word: it has exchanged 0 for 1 and has not     *)
(* stored 0 again.                                                         *)
Owns(t) == t \in holds \/ pc[t] = "name"

(* Two threads are never both past acquire and not yet past the store that *)
(* frees the lock, whatever calls the program makes (acquire, release).    *)
MutualExclusion == \A s, t \in Threads : Owns(s) /\ Owns(t) => s = t

(* The unlocked two-field checks at lines 30 and 46 stop every call that   *)
(* breaks the protocol: a thread that holds the lock never reaches the     *)
(* exchange it would spin on for ever, and a thread that does not hold it  *)
(* never clears the owner or the lock word of the thread that does.        *)
MisuseStopped ==
  \A t \in Threads :
    /\ pc[t] \in {"xchg", "name"} => t \notin holds
    /\ pc[t] \in {"unname", "unlock"} => t \in holds

(* The two fields agree: locked is set exactly while somebody owns the     *)
(* lock, and tid names the thread inside from before its acquire returns   *)
(* until its release clears it; a tid never outlives its holder.           *)
OwnerNamed ==
  /\ locked <=> \E t \in Threads : Owns(t)
  /\ tid # NoTid => tid \in holds
  /\ \A t \in holds : tid = IF pc[t] = "unlock" THEN NoTid ELSE t

IInv == TypeOK /\ MutualExclusion /\ OwnerNamed /\ MisuseStopped

lockOwner ==
  IF \E t \in Threads : Owns(t) THEN CHOOSE t \in Threads : Owns(t) ELSE NoTid

lockCall ==
  [t \in Threads |->
     CASE pc[t] \in {"test", "self", "xchg"} -> "lock"
       [] pc[t] \in {"rtest", "rself", "unname", "unlock"} -> "unlock"
       [] OTHER -> "none"]

Lock == INSTANCE LockSpec
          WITH owner <- lockOwner, call <- lockCall, faulted <- (exiter # NoTid)

(* acquire and release implement the lock of the interface: they take      *)
(* effect at the exchange and at the store of 0, and the checks at lines   *)
(* 30 and 46, which read locked and tid without the lock, end the process  *)
(* only for a call that really breaks the protocol, never because of a tid *)
(* an earlier holder left behind.                                          *)
ImplementsLock == Lock!Spec

(* A thread spinning in acquire is not left with a lock nobody ever gets:  *)
(* some thread gets through the exchange again, as long as the process     *)
(* lives and holders release.                                              *)
LockHandedOn ==
  (\E t \in Threads : pc[t] = "xchg")
    ~> ((\E t \in Threads : pc[t] = "name") \/ exiter # NoTid)
=============================================================================
