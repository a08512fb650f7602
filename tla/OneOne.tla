------------------------------- MODULE OneOne -------------------------------
(***************************************************************************)
(* The threads of the one-one library (src/src/one_one/one-one.c):         *)
(* thread_create, thread_join, thread_exit, thread_kill, the cleanup after *)
(* a join and the one at process exit, run by kernel threads that          *)
(* interleave freely, and by the SIGUSR1 handler on top of any of them.    *)
(*                                                                         *)
(* The table of threads is tid_table: a list and a spinlock.  The lock is  *)
(* the abstract lock SpinLock implements, plus the one thing a signal      *)
(* handler can still see of its inside: whether lk->tid names the owner,   *)
(* which it does not right after the exchange and right before the last    *)
(* store.  All four list operations share the steps around their critical  *)
(* section: "acq", "name", the section itself "crit", "unname", "unlock".  *)
(*                                                                         *)
(* A frame is one activation of library code: the operation op, the step   *)
(* at it executes next, the thread k and the value v it is about, and what *)
(* its list walk found.  A thread has one, and a saved one while the       *)
(* handler runs on top of it.                                              *)
(***************************************************************************)
EXTENDS Naturals, FiniteSets, SequencesExt

CONSTANTS
  Main,       (* the thread that runs main; it is not in the table         *)
  Kids,       (* the threads thread_create may make, each at most once     *)
  NoTid,      (* not a thread                                              *)
  Null,       (* the NULL a return value may be                            *)
  Values,     (* the other values a routine may pass to thread_exit        *)
  Garbage,    (* what malloc left in a field nobody has written            *)
  HeapStates, (* what malloc may have left in node->state                  *)
  Joiners,    (* the threads whose program calls thread_join               *)
  MaxJoins,   (* bound: calls of thread_join in all                        *)
  MaxKills,   (* bound: calls of thread_kill(_, SIGTERM) in all            *)
  MainExits   (* main returns: exit runs cleanupAll                        *)

Threads == Kids \cup {Main}

ASSUME OneOneAssumption ==
  /\ Main \notin Kids /\ NoTid \notin Threads
  /\ Null \notin Values /\ Garbage \notin Values \cup {Null}
  /\ Joiners \subseteq Threads
  /\ MaxJoins \in Nat /\ MaxKills \in Nat
  /\ MainExits \in BOOLEAN

VARIABLES
  list,      (* tid_table.list, a sequence of threads, the head first      *)
  lock,      (* tid_table.lock: its owner, and whether lk->tid names it    *)
  node,      (* per thread: state, ret_val, stack and wrapper_fun          *)
  frame,     (* per thread, the library code it is in                      *)
  saved,     (* per thread, the frame the SIGUSR1 handler interrupted      *)
  pending,   (* the threads with a pending SIGUSR1 (it is not queued)      *)
  initDone,  (* is_init_done                                               *)
  fate,      (* how the process has ended, or "running"                    *)
  calls,     (* bounded calls so far                                       *)
  passed,    (* per thread, what thread_exit was called with (history)     *)
  got        (* the pairs thread, value that joins returned (history)      *)

vars == <<list, lock, node, frame, saved, pending, initDone, fate, calls, passed, got>>

States == {"RUNNING", "TERMINATED"}

Frames ==
  [op : {"none", "create", "init", "insert", "body", "join", "exit", "return",
         "clean", "cleanall", "all"},
   at : {"unborn", "idle", "clone", "start", "acq", "name", "crit", "unname", "unlock", "found",
         "wait", "read", "store1", "store2", "sysexit", "dead", "munmap", "free", "test", "head"},
   k : Threads \cup {NoTid}, v : Values \cup {Null}, where : {"absent", "head", "inner"}]

NoFrame == [op |-> "none", at |-> "unborn", k |-> NoTid, v |-> Null, where |-> "absent"]
Idle == [NoFrame EXCEPT !.at = "idle"]

(* A frame at the start of an operation that takes the table's lock.       *)
Locking(op, k, v) == [op |-> op, at |-> "acq", k |-> k, v |-> v, where |-> "absent"]

TypeOK ==
  /\ list \in Seq(Kids)
  /\ lock \in [owner : Threads \cup {NoTid}, named : BOOLEAN]
  /\ node \in [Kids -> [state : States \cup HeapStates,
                        ret : Values \cup {Null, Garbage},
                        stack : {"none", "mapped", "unmapped"},
                        frees : Nat]]
  /\ frame \in [Threads -> Frames] /\ saved \in [Threads -> Frames]
  /\ pending \subseteq Kids
  /\ initDone \in BOOLEAN
  /\ fate \in {"running", "exit0", "exit1", "segv"}
  /\ calls \in [joins : 0 .. MaxJoins, kills : 0 .. MaxKills]
  /\ passed \in [Kids -> SUBSET (Values \cup {Null})]
  /\ got \subseteq (Kids \X (Values \cup {Null, Garbage}))

Init ==
  /\ list = <<>>
  /\ lock = [owner |-> NoTid, named |-> FALSE]
  /\ \E heap \in [Kids -> HeapStates] :
       node = [k \in Kids |-> [state |-> heap[k], ret |-> Garbage, stack |-> "none", frees |-> 0]]
  /\ frame = [t \in Threads |-> IF t = Main THEN Idle ELSE NoFrame]
  /\ saved = [t \in Threads |-> NoFrame]
  /\ pending = {}
  /\ initDone = FALSE
  /\ fate = "running"
  /\ calls = [joins |-> 0, kills |-> 0]
  /\ passed = [k \in Kids |-> {}]
  /\ got = {}

-----------------------------------------------------------------------------
(* The thread's stack is gone under it.                                    *)
Unstacked(t) == t \in Kids /\ node[t].stack = "unmapped"

Alive(t) == frame[t].at \notin {"unborn", "dead"}

(* t can execute its next step.                                            *)
Runs(t) == fate = "running" /\ Alive(t) /\ ~Unstacked(t)

(* t is at a step of an operation, and leaves it for the frame f.          *)
At(t, at) == Runs(t) /\ frame[t].at = at
OpAt(t, op, at) == At(t, at) /\ frame[t].op = op
Goto(t, f) == frame' = [frame EXCEPT ![t] = f]
GoAt(t, at) == frame' = [frame EXCEPT ![t].at = at]

(* The frame a call returns to: the library keeps none, except for         *)
(* cleanupAll's loop and for the frame under the handler.                  *)
Returns(t) ==
  /\ Goto(t, IF saved[t] = NoFrame THEN Idle ELSE saved[t])
  /\ saved' = [saved EXCEPT ![t] = NoFrame]

history == <<passed, got>>

(***************************************************************************)
(* The spinlock of the table, and the sections it protects.                *)
(***************************************************************************)

(* Mutant: a recursive lock, whose inner release frees it.                 *)
AvailableAgain(t) == lock.owner \in {NoTid, t}

Available(t) == lock.owner = NoTid

Released(t) == [owner |-> NoTid, named |-> FALSE]

(* A free lock is taken and then named; one this thread has and is named   *)
(* in ends the process; any other is spun on.                              *)
acquire(t) ==
  /\ \/ /\ At(t, "acq") /\ Available(t)
        /\ lock' = [owner |-> t, named |-> FALSE]
        /\ GoAt(t, "name")
        /\ UNCHANGED fate
     \/ /\ At(t, "acq") /\ lock.owner = t /\ lock.named
        /\ fate' = "exit1"
        /\ UNCHANGED <<lock, frame>>
     \/ /\ At(t, "name")
        /\ lock' = [lock EXCEPT !.named = TRUE]
        /\ GoAt(t, "crit")
        /\ UNCHANGED fate
  /\ UNCHANGED <<list, node, saved, pending, initDone, calls, history>>

release(t) ==
  /\ \/ /\ At(t, "unname")
        /\ lock' = [lock EXCEPT !.named = FALSE]
        /\ GoAt(t, "unlock")
     \/ /\ At(t, "unlock")
        /\ lock' = Released(t)
        /\ GoAt(t, "found")
  /\ UNCHANGED <<list, node, saved, pending, initDone, fate, calls, history>>

(* Where the walk from the head stops: at the head, further down, or at    *)
(* the end of the list.                                                    *)
Where(k) ==
  IF ~Contains(list, k) THEN "absent" ELSE IF Head(list) = k THEN "head" ELSE "inner"

(* Mutant: the node is cleaned up and stays in the list.                   *)
ListAfterKeeps(f) == IF f.op = "insert" THEN <<f.k>> \o list ELSE list

(* tid_insert; init_threading's tid_table.list = NULL; cleanup, the node   *)
(* taken out; the walks of thread_join and thread_exit.                    *)
ListAfter(f) ==
  CASE f.op = "insert" -> <<f.k>> \o list
    [] f.op = "init" -> <<>>
    [] f.op \in {"clean", "cleanall"} -> RemoveFirst(list, f.k)
    [] OTHER -> list

section(t) ==
  /\ At(t, "crit")
  /\ list' = ListAfter(frame[t])
  /\ frame' = [frame EXCEPT ![t].at = "unname", ![t].where = Where(frame[t].k)]
  /\ UNCHANGED <<lock, node, saved, pending, initDone, fate, calls, history>>

(***************************************************************************)
(* thread_create, and the start of a thread.                               *)
(***************************************************************************)

CallCreate(t, k) ==
  /\ OpAt(t, "none", "idle") /\ frame[k] = NoFrame /\ node[k].stack = "none"
  /\ node' = [node EXCEPT ![k].stack = "mapped"]
  /\ Goto(t, IF initDone THEN [Idle EXCEPT !.op = "create", !.at = "clone", !.k = k]
                         ELSE Locking("init", k, Null))
  /\ UNCHANGED <<list, lock, saved, pending, initDone, fate, calls, history>>

(* is_init_done; clone, from which on the new thread runs while its node   *)
(* is inserted only later, or which fails and leaves the stack; the return *)
(* after tid_insert; and the new thread's state = RUNNING.                 *)
thread_create(t) ==
  LET k == frame[t].k IN
  /\ \/ /\ OpAt(t, "init", "found")
        /\ initDone' = TRUE
        /\ Goto(t, [Idle EXCEPT !.op = "create", !.at = "clone", !.k = k])
        /\ UNCHANGED <<node, saved>>
     \/ /\ OpAt(t, "create", "clone")
        /\ frame' = [frame EXCEPT ![t] = Locking("insert", k, Null),
                                  ![k] = [Idle EXCEPT !.op = "body", !.at = "start"]]
        /\ UNCHANGED <<node, saved, initDone>>
     \/ /\ OpAt(t, "create", "clone") \/ OpAt(t, "insert", "found")
        /\ Returns(t)
        /\ UNCHANGED <<node, initDone>>
     \/ /\ OpAt(t, "body", "start")
        /\ node' = [node EXCEPT ![t].state = "RUNNING"]
        /\ Goto(t, Idle)
        /\ UNCHANGED <<saved, initDone>>
  /\ UNCHANGED <<list, lock, pending, fate, calls, history>>

(***************************************************************************)
(* The end of a routine, by thread_exit(v) or by returning.                *)
(***************************************************************************)

Passes(t, v) == passed' = [passed EXCEPT ![t] = @ \cup {v}]

(* execute_me calls thread_exit(NULL) for a routine that returns.          *)
CallExit(t) ==
  /\ t \in Kids /\ OpAt(t, "none", "idle")
  /\ \/ \E v \in Values : Goto(t, Locking("exit", t, v)) /\ Passes(t, v)
     \/ Goto(t, Locking("return", t, Null)) /\ Passes(t, Null)
  /\ UNCHANGED <<list, lock, node, saved, pending, initDone, fate, calls, got>>

(* Mutant: the address of the value in place of the value.                 *)
RetAddress(t) == t

RetVal(t) == frame[t].v

(* Mutant: the state is stored before the value.                           *)
StoresSwapped(t, i) ==
  IF i = 2 THEN [node EXCEPT ![t].ret = RetVal(t)] ELSE [node EXCEPT ![t].state = "TERMINATED"]

(* ret_val, then state                                                     *)
Stores(t, i) ==
  IF i = 1 THEN [node EXCEPT ![t].ret = RetVal(t)] ELSE [node EXCEPT ![t].state = "TERMINATED"]

(* if(!n) return: out of the handler, to the end of the routine, or to the *)
(* end of execute_me and of the kernel thread.                             *)
thread_exit(t) ==
  LET f == frame[t]  ends == f.op \in {"exit", "return"} IN
  /\ \/ /\ At(t, "found") /\ ends /\ f.where = "absent"
        /\ \/ saved[t] # NoFrame /\ Returns(t) /\ UNCHANGED passed
           \/ /\ saved[t] = NoFrame /\ f.op = "exit"
              /\ Goto(t, Locking("return", t, Null)) /\ Passes(t, Null)
              /\ UNCHANGED saved
           \/ /\ saved[t] = NoFrame /\ f.op = "return"
              /\ Goto(t, [f EXCEPT !.at = "dead"])
              /\ UNCHANGED <<saved, passed>>
        /\ UNCHANGED node
     \/ /\ At(t, "found") /\ ends /\ f.where # "absent"
        /\ GoAt(t, "store1")
        /\ UNCHANGED <<node, saved, passed>>
     \/ /\ At(t, "store1")
        /\ node' = Stores(t, 1)
        /\ GoAt(t, "store2")
        /\ UNCHANGED <<saved, passed>>
     \/ /\ At(t, "store2")
        /\ node' = Stores(t, 2)
        /\ GoAt(t, "sysexit")
        /\ UNCHANGED <<saved, passed>>
     \/ /\ At(t, "sysexit")
        /\ GoAt(t, "dead")
        /\ saved' = [saved EXCEPT ![t] = NoFrame]
        /\ UNCHANGED <<node, passed>>
  /\ pending' = IF frame'[t].at = "dead" THEN pending \ {t} ELSE pending
  /\ UNCHANGED <<list, lock, initDone, fate, calls, got>>

(* A thread whose stack has been unmapped faults at its next step.         *)
Segv(t) ==
  /\ fate = "running" /\ Alive(t) /\ Unstacked(t)
  /\ fate' = "segv"
  /\ UNCHANGED <<list, lock, node, frame, saved, pending, initDone, calls, history>>

(***************************************************************************)
(* thread_join and the cleanup.                                            *)
(***************************************************************************)

(* *thread is known from the clone on.  A thread does not join itself.     *)
CallJoin(t, k) ==
  /\ t \in Joiners /\ t # k /\ OpAt(t, "none", "idle") /\ frame[k].at # "unborn"
  /\ calls.joins < MaxJoins
  /\ calls' = [calls EXCEPT !.joins = @ + 1]
  /\ Goto(t, Locking("join", k, Null))
  /\ UNCHANGED <<list, lock, node, saved, pending, initDone, fate, history>>

(* Mutant: the wait is only for the thread to have started.                *)
EndedOrRunning(k) == node[k].state \in States

Ended(k) == node[k].state = "TERMINATED"

(* NO_THREAD_FOUND; while(n->state != THREAD_TERMINATED); *retval.         *)
thread_join(t) ==
  LET k == frame[t].k IN
  /\ \/ /\ OpAt(t, "join", "found") /\ frame[t].where = "absent"
        /\ Returns(t)
        /\ UNCHANGED got
     \/ /\ OpAt(t, "join", "found") /\ frame[t].where # "absent"
        /\ GoAt(t, "wait")
        /\ UNCHANGED <<saved, got>>
     \/ /\ OpAt(t, "join", "wait") /\ Ended(k)
        /\ GoAt(t, "read")
        /\ UNCHANGED <<saved, got>>
     \/ /\ OpAt(t, "join", "read")
        /\ got' = got \cup {<<k, node[k].ret>>}
        /\ Goto(t, Locking("clean", k, Null))
        /\ UNCHANGED saved
  /\ UNCHANGED <<list, lock, node, pending, initDone, fate, calls, passed>>

(* cleanup goes back to thread_join, which returns, or to cleanupAll.      *)
CleanReturns(t) ==
  IF frame[t].op = "clean"
  THEN Returns(t)
  ELSE Goto(t, [Idle EXCEPT !.op = "all", !.at = "test"]) /\ UNCHANGED saved

(* Mutant: the node that is not found is freed all the same.               *)
FoundAnyway(t) == TRUE

Found(t) == frame[t].where # "absent"

(* stack_size is never 0: thread_create stores stackSize + guardSize, also *)
(* for a stack of the user's, which is taken to be page aligned.  For the  *)
(* head node the address given is that of the node, which munmap refuses;  *)
(* for another it is the stack's.  Then free(wrapper_fun).                 *)
cleanup(t) ==
  LET f == frame[t] IN
  /\ \/ /\ At(t, "found") /\ f.op \in {"clean", "cleanall"} /\ ~Found(t)
        /\ CleanReturns(t)
        /\ UNCHANGED node
     \/ /\ At(t, "found") /\ f.op \in {"clean", "cleanall"} /\ Found(t)
        /\ GoAt(t, "munmap")
        /\ UNCHANGED <<node, saved>>
     \/ /\ At(t, "munmap")
        /\ node' = IF f.where = "inner" THEN [node EXCEPT ![f.k].stack = "unmapped"] ELSE node
        /\ GoAt(t, "free")
        /\ UNCHANGED saved
     \/ /\ At(t, "free")
        /\ node' = [node EXCEPT ![f.k].frees = @ + 1]
        /\ CleanReturns(t)
  /\ UNCHANGED <<list, lock, pending, initDone, fate, calls, history>>

(***************************************************************************)
(* thread_kill(k, SIGTERM), and the SIGUSR1 it sends.                      *)
(***************************************************************************)

(* tgkill of a thread that is gone fails and changes nothing.              *)
CallKill(t, k) ==
  /\ OpAt(t, "none", "idle") /\ Alive(k)
  /\ calls.kills < MaxKills
  /\ calls' = [calls EXCEPT !.kills = @ + 1]
  /\ pending' = pending \cup {k}
  /\ UNCHANGED <<list, lock, node, frame, saved, initDone, fate, history>>

(* The handler calls thread_exit(NULL) on top of whatever the thread is    *)
(* doing.  SIGUSR1 is blocked until it returns.                            *)
sigusr_signal_handler(t) ==
  /\ Runs(t) /\ t \in pending /\ saved[t] = NoFrame
  /\ pending' = pending \ {t}
  /\ saved' = [saved EXCEPT ![t] = frame[t]]
  /\ Goto(t, Locking("exit", t, Null)) /\ Passes(t, Null)
  /\ UNCHANGED <<list, lock, node, initDone, fate, calls, got>>

(***************************************************************************)
(* The end of main: exit(3) runs cleanupAll, the other threads still run.  *)
(***************************************************************************)

CallMainExit ==
  /\ MainExits /\ initDone /\ OpAt(Main, "none", "idle")
  /\ Goto(Main, [Idle EXCEPT !.op = "all", !.at = "test"])
  /\ UNCHANGED <<list, lock, node, saved, pending, initDone, fate, calls, history>>

(* while(tid_table.list) cleanup(tid_table.list->tid), without the lock:   *)
(* at the second read the list may be empty                                *)
cleanupAll ==
  /\ \/ /\ OpAt(Main, "all", "test")
        /\ IF list = <<>>
           THEN fate' = "exit0" /\ UNCHANGED frame
           ELSE GoAt(Main, "head") /\ UNCHANGED fate
     \/ /\ OpAt(Main, "all", "head")
        /\ IF list = <<>>
           THEN fate' = "segv" /\ UNCHANGED frame
           ELSE Goto(Main, Locking("cleanall", Head(list), Null)) /\ UNCHANGED fate
  /\ UNCHANGED <<list, lock, node, saved, pending, initDone, calls, history>>

-----------------------------------------------------------------------------
(* What the processor does with t once its program is inside the library.  *)
Library(t) ==
  \/ acquire(t) \/ section(t) \/ release(t) \/ thread_create(t) \/ thread_exit(t)
  \/ thread_join(t) \/ cleanup(t) \/ Segv(t) \/ (t = Main /\ cleanupAll)

Next ==
  \E t \in Threads :
    \/ \E k \in Kids : CallCreate(t, k) \/ CallJoin(t, k) \/ CallKill(t, k)
    \/ CallExit(t)
    \/ sigusr_signal_handler(t)
    \/ Library(t)
    \/ t = Main /\ CallMainExit

Spec == Init /\ [][Next]_vars

(* Every thread runs, signals are delivered, and a routine ends one day.   *)
(* Calls are bounded, so nobody can keep the table's lock from a thread    *)
(* that spins on it for ever.                                              *)
Fairness ==
  \A t \in Threads :
    /\ WF_vars(Library(t))
    /\ WF_vars(sigusr_signal_handler(t))
    /\ WF_vars(CallExit(t))

FairSpec == Spec /\ Fairness

-----------------------------------------------------------------------------
(***************************************************************************)
(* Properties.                                                             *)
(***************************************************************************)

(* The activations of library code of t: the handler's, and the one below. *)
Activations(t) == {frame[t], saved[t]}

(* The table's lock is held by the thread whose code is between its        *)
(* exchange and its last store, also when a handler runs on top of it, so  *)
(* the list is only walked and changed by its owner.                       *)
SectionOwned ==
  \A t \in Threads : \A f \in Activations(t) :
    f.at \in {"name", "crit", "unname", "unlock"} => lock.owner = t

(* k has set its state to THREAD_TERMINATED and does nothing more than     *)
(* leave the kernel, a last signal handler included.                       *)
Finished(k) == \E f \in Activations(k) : f.at \in {"sysexit", "dead"}

(* thread_join goes past its wait loop only when the thread it waits for   *)
(* is past its last store to the node: the value it returns and the stack  *)
(* and the wrapper it frees are no longer the thread's to use.             *)
JoinMeansDone ==
  \A t \in Threads : \A f \in Activations(t) :
    f.op = "clean" \/ (f.op = "join" /\ f.at = "read") => Finished(f.k)

(* Once a node says THREAD_TERMINATED its state and its return value stay, *)
(* for a join that reads them late and for a second join.                  *)
TerminatedIsFinal ==
  [][\A k \in Kids : node[k].state = "TERMINATED"
       => node'[k].state = "TERMINATED" /\ node'[k].ret = node[k].ret]_vars

(* A join returns what its thread has called thread_exit with: the value   *)
(* of the routine, or NULL for one that returned.  Only a thread_exit that *)
(* came before its node was inserted is overruled by the NULL of the end   *)
(* of execute_me, and one the SIGUSR1 handler interrupts by the handler's. *)
ValueDelivered == \A p \in got : p[2] \in passed[p[1]]

(* The threads that have taken the node of k out of the list and have not  *)
(* freed what hangs on it.                                                 *)
Cleaners(k) ==
  {t \in Threads : \E f \in Activations(t) :
     /\ f.op \in {"clean", "cleanall"} /\ f.k = k /\ f.where # "absent"
     /\ f.at \in {"unname", "unlock", "found", "munmap", "free"}}

Places(k) ==
  Cardinality({i \in DOMAIN list : list[i] = k}) + Cardinality(Cleaners(k)) + node[k].frees

Inserted(k) ==
  /\ frame[k].at # "unborn"
  /\ \A t \in Threads : \A f \in Activations(t) :
       f.op = "insert" /\ f.k = k => f.at \in {"unname", "unlock", "found"}

(* A node is in one place: in the list, with the one thread that cleans it *)
(* up, or cleaned.  Neither two joins of one thread, nor a join and        *)
(* cleanupAll, free it twice, and the list reset of the first              *)
(* thread_create loses nobody's node.                                      *)
NodeConserved ==
  \A k \in Kids : Places(k) = IF Inserted(k) THEN 1 ELSE 0

(* The same when threads may be killed: one that dies in cleanup leaves    *)
(* the node in no place, but still no node is ever in two.                 *)
NodeInOnePlace == \A k \in Kids : Places(k) <= IF Inserted(k) THEN 1 ELSE 0

(* The comment of thread_join: if that thread has already terminated, it   *)
(* returns immediately.  Here no more than that it returns.                *)
JoinOfDeadReturns ==
  \A t \in Threads, k \in Kids :
    (frame[t].op = "join" /\ frame[t].k = k /\ frame[k].at = "dead")
      ~> (frame[t].op # "join" \/ frame[t].k # k \/ fate # "running")
=============================================================================
