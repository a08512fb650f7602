------------------------------ MODULE LockSpec ------------------------------
(***************************************************************************)
(* What the library promises of a lock, whatever its implementation: the   *)
(* interface of mthread.h (thread_lock / thread_unlock and                 *)
(* thread_mutex_lock / thread_mutex_unlock).  A thread calls lock or       *)
(* unlock; a lock call takes effect, at some moment before it returns, at  *)
(* a moment when nobody owns the lock; an unlock call of the owner gives   *)
(* the lock up.  The two calls the library answers by ending the process,  *)
(* locking twice and unlocking a lock of somebody else, are the only ones  *)
(* it may answer that way.                                                 *)
(***************************************************************************)

CONSTANTS
  Threads,  (* the kernel threads that share the lock           *)
  NoTid     (* not a thread: the owner of a free lock           *)

VARIABLES
  owner,    (* the owner, or NoTid                              *)
  call,     (* per thread: "none", or the call it is inside     *)
  faulted   (* TRUE when the library has ended the process      *)

lockVars == <<owner, call, faulted>>

LockTypeOK ==
  /\ owner \in Threads \cup {NoTid}
  /\ call \in [Threads -> {"none", "lock", "unlock"}]
  /\ faulted \in BOOLEAN

LockInit ==
  /\ owner = NoTid
  /\ call = [t \in Threads |-> "none"]
  /\ faulted = FALSE

(* A program may make either call at any time, the illegal ones included. *)
Call(t, op) ==
  /\ ~faulted
  /\ call[t] = "none"
  /\ call' = [call EXCEPT ![t] = op]
  /\ UNCHANGED <<owner, faulted>>

TakeLock(t) ==
  /\ ~faulted
  /\ call[t] = "lock"
  /\ owner = NoTid
  /\ owner' = t
  /\ call' = [call EXCEPT ![t] = "none"]
  /\ UNCHANGED faulted

GiveLock(t) ==
  /\ ~faulted
  /\ call[t] = "unlock"
  /\ owner = t
  /\ owner' = NoTid
  /\ call' = [call EXCEPT ![t] = "none"]
  /\ UNCHANGED faulted

(* The process ends, and only for a call that breaks the protocol. *)
Fault(t) ==
  /\ ~faulted
  /\ \/ call[t] = "lock" /\ owner = t
     \/ call[t] = "unlock" /\ owner # t
  /\ faulted' = TRUE
  /\ UNCHANGED <<owner, call>>

LockNext ==
  \E t \in Threads :
    \/ \E op \in {"lock", "unlock"} : Call(t, op)
    \/ TakeLock(t)
    \/ GiveLock(t)
    \/ Fault(t)

Spec == LockInit /\ [][LockNext]_lockVars
=============================================================================
