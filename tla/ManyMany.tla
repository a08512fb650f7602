------------------------------ MODULE ManyMany ------------------------------
(***************************************************************************)
(* The many-many library (src/src/many_many): K kernel threads, besides    *)
(* the one of main, share one list of threads.  The first K threads are    *)
(* each cloned onto a kernel thread of their own, the later ones wait in   *)
(* the list.  Every kernel thread has a scheduler stack.  The SIGALRM of   *)
(* one timer is passed on as a SIGVTALRM to the kernel threads in turn,    *)
(* whose handler leaves the running thread for the scheduler.              *)
(*                                                                         *)
(* Main creates all threads, so thread t is the t-th and the list is       *)
(* n-1, ..., 1, 0.  A section of thread_list.lock is one step: its holder  *)
(* has the signals blocked and takes no other lock.  The spinlock inside   *)
(* the sleeplock is visible where releasesleep holds it unblocked.         *)
(*                                                                         *)
(* A context is where a jump to it leads: "new" into execute_me_mo,        *)
(* "handler" back into the SIGVTALRM handler, "asleep" into sleep_lock.    *)
(* A jump spends it ("stale"); "none" is what malloc left; "sched" leads   *)
(* into a scheduler stack used since.  What a kernel thread does after a   *)
(* jump to one of these three, or to a stack another kernel thread         *)
(* executes on, is undefined: fate "lost".                                 *)
(***************************************************************************)
EXTENDS Naturals

CONSTANTS
  K,           (* no_of_kthreads                                           *)
  N,           (* bound: calls of thread_create                            *)
  Main, Sched, (* main, and the owner of every scheduler stack             *)
  None,        (* no thread, no kernel thread                              *)
  Enders,      (* the threads whose routine ends                           *)
  MutexUsers,  (* the threads that use the mutex                           *)
  Careless,    (* those of them that do not follow its protocol            *)
  Killers,     (* the threads that call thread_kill(_, SIGTERM)            *)
  Targets,     (* the threads that thread_kill and thread_join are about   *)
  MaxCalls,    (* bound: calls of thread_kill, and of thread_join by main  *)
  MaxAlarms    (* bound: times the timer expires                           *)

KT == 0 .. K - 1
Tids == 0 .. N - 1
Users == Tids \cup {Main}
Carriers == KT \cup {Main}     (* the kernel threads                     *)

ASSUME ManyManyAssumption ==
  /\ K \in Nat \ {0} /\ N \in Nat
  /\ Main \notin Tids /\ Sched \notin Users /\ None \notin Users \cup KT \cup {Sched}
  /\ Enders \subseteq Tids /\ Targets \subseteq Tids
  /\ MutexUsers \subseteq Users /\ Careless \subseteq MutexUsers /\ Killers \subseteq Users
  /\ MaxCalls \in Nat /\ MaxAlarms \in Nat

VARIABLES
  n,       (* threads inserted so far                                      *)
  node,    (* per thread: state, chan (sleeps on the mutex), t_context,    *)
           (* kernel_tid; the SIGALRM handler its stack was left in        *)
  act,     (* per thread: the library step its stack is at, the thread it  *)
           (* is about, the kernel thread index it has looked up           *)
  kt,      (* per kernel thread: whose stack it executes (on), its entry   *)
           (* of curr_running_proc_array (curr), the signals it blocks,    *)
           (* SIGVTALRM pending (vt), kthread_index assigned (pub),        *)
           (* scheduler context saved over (spent); of the scheduler on    *)
           (* it: the next step, its node pointer, the stack it uses       *)
  hand,    (* per kernel thread: the next step of the SIGALRM handler on   *)
           (* it, and the alarm_index it is about to store                 *)
  timer,   (* armed; SIGALRM pending; alarm_index                          *)
  mutex,   (* the owner of the sleeplock, and of its spinlock lk           *)
  fate,    (* "running", "exit" and "stray" for exit(1), the latter from   *)
           (* the owner check of release, "fault" for a wild access        *)
  calls    (* bounded calls so far                                         *)

vars == <<n, node, act, kt, hand, timer, mutex, fate, calls>>

State == {"EMBRYO", "RUNNABLE", "RUNNING", "SLEEPING", "TERMINATED"}
Context == {"none", "new", "handler", "asleep", "sched", "stale"}
Handler == [at : {"none", "off", "load", "send"}, i : {None}] \cup [at : {"store"}, i : KT]
Node == [state : State, chan : BOOLEAN, ktid : KT \cup {None}, ctx : Context, frame : Handler]
Label == {"unborn", "idle", "clone", "publish", "start", "running", "setup", "first", "gettid",
          "ktid", "kill", "exit", "gone", "join", "locking", "setjmp", "leave", "relock",
          "relocking", "unlocking", "unlocked", "releasing"}
Act == [at : Label, k : Tids \cup {None}, idx : KT \cup {None}]
KThread == [on : Tids \cup {Sched, None}, curr : Tids \cup {Sched, None},
            mask : {"none", "vt", "both"}, vt : BOOLEAN, pub : BOOLEAN, spent : BOOLEAN,
            at : {"enter", "requeue", "first", "walk", "curr", "go"},
            pos : Tids \cup {None}, stk : KT]

TypeOK ==
  /\ n \in 0 .. N
  /\ node \in [Tids -> Node] /\ act \in [Users -> Act] /\ kt \in [KT -> KThread]
  /\ hand \in [Carriers -> Handler]
  /\ timer \in [armed : BOOLEAN, pend : BOOLEAN, index : KT]
  /\ mutex \in [tid : Users \cup {None}, lk : Users \cup {None}]
  /\ fate \in {"running", "exit", "stray", "fault", "lost"}
  /\ calls \in [made : 0 .. MaxCalls, alarms : 0 .. MaxAlarms]

(* Mutant: alarm_index starts one too far.                                 *)
StartIndexOff == K

(* -1, one before the first kernel thread                                  *)
StartIndex == K - 1

NoHandler == [at |-> "none", i |-> None]

(* The state init_many_many leaves, in the first thread_create.            *)
Init ==
  /\ n = 0
  /\ node = [t \in Tids |-> [state |-> "EMBRYO", chan |-> FALSE, ctx |-> "none", ktid |-> None,
                             frame |-> NoHandler]]
  /\ act = [t \in Users |-> [at |-> IF t = Main THEN "idle" ELSE "unborn", k |-> None, idx |-> None]]
  /\ kt = [i \in KT |-> [on |-> None, curr |-> None, mask |-> "none", vt |-> FALSE,
                         pub |-> FALSE, spent |-> FALSE, at |-> "enter", pos |-> None, stk |-> i]]
  /\ hand = [c \in Carriers |-> NoHandler]
  /\ timer = [armed |-> FALSE, pend |-> FALSE, index |-> StartIndex]
  /\ mutex = [tid |-> None, lk |-> None]
  /\ fate = "running"
  /\ calls = [made |-> 0, alarms |-> 0]

-----------------------------------------------------------------------------
Free(c) == hand[c].at = "none"

(* A stack does nothing of its own while a handler is on top of it.        *)
Runs(t) ==
  /\ fate = "running"
  /\ \/ t = Main /\ Free(Main)
     \/ \E i \in KT : kt[i].on = t /\ Free(i)

At(t, at) == Runs(t) /\ act[t].at = at
Goto(t, at) == act' = [act EXCEPT ![t].at = at]
Return(t) == act' = [act EXCEPT ![t] = [at |-> "idle", k |-> None, idx |-> None]]

(* get_curr_kthread_index(), for main -1.                                  *)
Index(t) == IF t = Main THEN None ELSE CHOOSE i \in KT : kt[i].on = t

(* get_calling_ktid() finds the caller.                                    *)
Known(t) == t # Main => kt[Index(t)].pub

(* disable_alarm_signal() and enable_alarm_signal(); main blocks the       *)
(* signals where it holds the spinlock.                                    *)
Mask(t, m) == kt' = IF t = Main THEN kt ELSE [kt EXCEPT ![Index(t)].mask = m]

(* ualarm(ALARM_TIME, 0), ualarm(0, 0)                                     *)
Armed == [timer EXCEPT !.armed = TRUE]
Disarmed == [timer EXCEPT !.armed = FALSE]

(* siglongjmp of kernel thread j to the context of scheduler i, which is   *)
(* the start of scheduler() until a signal has saved over it.  The signals *)
(* stay blocked as they are at the jump.                                   *)
ToScheduler(j, i, m) ==
  /\ kt' = [kt EXCEPT ![j].on = Sched, ![j].at = "enter", ![j].stk = i, ![j].mask = m,
                      ![j].vt = @ /\ m = "none"]
  /\ fate' = IF kt[i].spent \/ \E h \in KT \ {j} : kt[h].on = Sched /\ kt[h].stk = i
             THEN "lost" ELSE fate

(***************************************************************************)
(* thread_create, by main, and the start of a thread.                      *)
(***************************************************************************)

(* curr_running_proc_array and the list know the thread before it is       *)
(* cloned; a thread after the first K is ready to enter execute_me_mo.     *)
Create ==
  /\ At(Main, "idle") /\ n < N
  /\ n' = n + 1
  /\ \/ /\ n < K
        /\ kt' = [kt EXCEPT ![n].curr = n]
        /\ act' = [act EXCEPT ![Main].at = "clone", ![Main].k = n]
        /\ UNCHANGED node
     \/ /\ n >= K
        /\ node' = [node EXCEPT ![n].state = "RUNNABLE", ![n].ctx = "new"]
        /\ act' = [act EXCEPT ![n].at = "first"]
        /\ UNCHANGED kt
  /\ UNCHANGED <<hand, timer, mutex, fate, calls>>

Clone ==
  LET t == act[Main].k IN
  /\ At(Main, "clone")
  /\ kt' = [kt EXCEPT ![t].on = t]
  /\ act' = [act EXCEPT ![Main].at = "publish", ![t] = [@ EXCEPT !.at = "start", !.k = t]]
  /\ UNCHANGED <<n, node, hand, timer, mutex, fate, calls>>

(* kthread_index[tid] = the result of clone                                *)
Publish ==
  /\ At(Main, "publish")
  /\ kt' = [kt EXCEPT ![act[Main].k].pub = TRUE]
  /\ Return(Main)
  /\ UNCHANGED <<n, node, hand, timer, mutex, fate, calls>>

(* execute_me_oo: if(state == EMBRYO)                                      *)
Start(t) ==
  /\ At(t, "start")
  /\ Goto(t, IF node[t].state = "EMBRYO" THEN "running" ELSE "setup")
  /\ UNCHANGED <<n, node, kt, hand, timer, mutex, fate, calls>>

(* state = RUNNING, ualarm(K_ALARM_TIME, 0)                                *)
Setup(t) ==
  /\ At(t, "running") \/ At(t, "setup")
  /\ node' = [node EXCEPT ![t].state = IF act[t].at = "running" THEN "RUNNING" ELSE @]
  /\ timer' = Armed
  /\ Mask(t, "none")
  /\ Goto(t, "gettid")
  /\ UNCHANGED <<n, hand, mutex, fate, calls>>

(* execute_me_mo takes its node from curr_running_proc_array, under        *)
(* thread_list.lock.                                                       *)
First(t) ==
  /\ At(t, "first")
  /\ act' = [act EXCEPT ![t].at = "gettid", ![t].k = kt[Index(t)].curr]
  /\ Mask(t, "none")
  /\ UNCHANGED <<n, node, hand, timer, mutex, fate, calls>>

(* kernel_tid = gettid(), and the routine is entered.                      *)
Gettid(t) ==
  /\ At(t, "gettid")
  /\ act' = [act EXCEPT ![t].at = "ktid", ![t].idx = Index(t)]
  /\ UNCHANGED <<n, node, kt, hand, timer, mutex, fate, calls>>

SetKtid(t) ==
  /\ At(t, "ktid")
  /\ node' = [node EXCEPT ![act[t].k].ktid = act[t].idx]
  /\ Return(t)
  /\ UNCHANGED <<n, kt, hand, timer, mutex, fate, calls>>

(* A call made before kthread_index is assigned indexes the arrays by -1.  *)
CallUnknown(t) ==
  /\ At(t, "idle") /\ ~Known(t)
  /\ fate' = "fault"
  /\ UNCHANGED <<n, node, act, kt, hand, timer, mutex, calls>>

(***************************************************************************)
(* thread_exit, thread_kill(k, SIGTERM), thread_join.                      *)
(***************************************************************************)

CallExit(t) ==
  /\ t \in Enders /\ At(t, "idle") /\ Known(t)
  /\ t \notin Careless => mutex.tid # t
  /\ act' = [act EXCEPT ![t].at = "exit", ![t].idx = Index(t)]
  /\ UNCHANGED <<n, node, kt, hand, timer, mutex, fate, calls>>

(* The walk of thread_exit ends at the first of these, or past the list.   *)
ExitStops(i) == {q \in 0 .. n - 1 : node[q].state = "RUNNING" \/ node[q].ktid # i}

ExitMark(t) ==
  LET stops == ExitStops(Index(t)) IN
  /\ At(t, "exit")
  /\ IF stops = {}
     THEN fate' = "fault" /\ UNCHANGED <<node, act, kt>>
     ELSE /\ \E q \in stops :
               /\ \A r \in stops : r <= q
               /\ node' = [node EXCEPT ![q].state = "TERMINATED"]
          /\ Mask(t, "none")
          /\ Goto(t, "gone")
          /\ UNCHANGED fate
  /\ UNCHANGED <<n, hand, timer, mutex, calls>>

(* The siglongjmp at the end of thread_exit and in sleep_lock, to the      *)
(* scheduler of the index looked up before.                                *)
Leave(t) ==
  /\ At(t, "gone") \/ At(t, "leave")
  /\ ToScheduler(Index(t), act[t].idx, "none")
  /\ act' = [act EXCEPT ![t].idx = None]
  /\ UNCHANGED <<n, node, hand, timer, mutex, calls>>

(* ualarm(0,0); nothing on the SIGTERM paths starts the timer again.       *)
CallKill(t, k) ==
  /\ t \in Killers /\ At(t, "idle") /\ Known(t) /\ k < n
  /\ calls.made < MaxCalls
  /\ calls' = [calls EXCEPT !.made = @ + 1]
  /\ timer' = Disarmed
  /\ act' = [act EXCEPT ![t] = [at |-> "kill", k |-> k, idx |-> Index(t)]]
  /\ UNCHANGED <<n, node, kt, hand, mutex, fate>>

(* The caller ends itself when the kernel thread it was on runs k.         *)
Kill(t) ==
  LET k == act[t].k
      self == act[t].idx # None /\ kt[act[t].idx].curr = k
  IN
  /\ At(t, "kill")
  /\ \/ /\ self
        /\ act' = [act EXCEPT ![t].at = "exit", ![t].idx = Index(t)]
        /\ UNCHANGED <<node, kt>>
     \/ /\ ~self
        /\ node' = [node EXCEPT ![k].state = "TERMINATED"]
        /\ Mask(t, "none")
        /\ Return(t)
  /\ UNCHANGED <<n, hand, timer, mutex, fate, calls>>

CallJoin(k) ==
  /\ At(Main, "idle") /\ k < n
  /\ calls.made < MaxCalls
  /\ calls' = [calls EXCEPT !.made = @ + 1]
  /\ act' = [act EXCEPT ![Main].at = "join", ![Main].k = k]
  /\ UNCHANGED <<n, node, kt, hand, timer, mutex, fate>>

(* while(n->state != THREAD_TERMINATED); nothing is cleaned up.            *)
JoinWait ==
  /\ At(Main, "join")
  /\ node[act[Main].k].state = "TERMINATED"
  /\ Return(Main)
  /\ UNCHANGED <<n, node, kt, hand, timer, mutex, fate, calls>>

(***************************************************************************)
(* acquiresleep and sleep_lock.                                            *)
(***************************************************************************)

CallLock(t) ==
  /\ t \in MutexUsers /\ At(t, "idle") /\ Known(t)
  /\ t \notin Careless => mutex.tid # t
  /\ Mask(t, "both")
  /\ Goto(t, "locking")
  /\ UNCHANGED <<n, node, hand, timer, mutex, fate, calls>>

(* The acquire at the end of sleep_lock.                                   *)
Relock(t) ==
  /\ At(t, "relock")
  /\ Mask(t, "both")
  /\ Goto(t, "relocking")
  /\ UNCHANGED <<n, node, hand, timer, mutex, fate, calls>>

(* The thread has its signals blocked and takes the spinlock.              *)
Locks(t) == (At(t, "locking") \/ At(t, "relocking")) /\ mutex.lk = None

(* Mutant: acquiresleep tests locked in an if, not in a while.             *)
TakenOnce(t) == mutex.tid # None /\ act[t].at = "locking"

Taken(t) == mutex.tid # None

LockTwice(t) ==
  /\ Locks(t) /\ At(t, "locking") /\ mutex.tid = t
  /\ fate' = "exit"
  /\ UNCHANGED <<n, node, act, kt, hand, timer, mutex, calls>>

LockTake(t) ==
  /\ Locks(t) /\ ~Taken(t)
  /\ mutex' = [mutex EXCEPT !.tid = t]
  /\ node' = IF t = Main THEN node ELSE [node EXCEPT ![t].chan = FALSE]
  /\ Mask(t, "none")
  /\ Return(t)
  /\ UNCHANGED <<n, hand, timer, fate, calls>>

(* chan and state are set before the spinlock is released; main has no     *)
(* entry in curr_running_proc_array, and the code reads the one at -1.     *)
LockSleep(t) ==
  /\ Locks(t) /\ Taken(t)
  /\ At(t, "locking") => mutex.tid # t
  /\ \/ /\ t = Main
        /\ fate' = "fault"
        /\ UNCHANGED <<node, act, kt>>
     \/ /\ t # Main
        /\ node' = [node EXCEPT ![t].chan = TRUE, ![t].state = "SLEEPING"]
        /\ act' = [act EXCEPT ![t].at = "setjmp", ![t].idx = Index(t)]
        /\ Mask(t, "none")
        /\ UNCHANGED fate
  /\ UNCHANGED <<n, hand, timer, mutex, calls>>

SetJmp(t) ==
  /\ At(t, "setjmp")
  /\ node' = [node EXCEPT ![t].ctx = "asleep"]
  /\ Goto(t, "leave")
  /\ UNCHANGED <<n, kt, hand, timer, mutex, fate, calls>>

(***************************************************************************)
(* releasesleep and wakeup_lock.                                           *)
(***************************************************************************)

CallUnlock(t) ==
  /\ t \in MutexUsers /\ At(t, "idle") /\ Known(t)
  /\ t \notin Careless => mutex.tid = t
  /\ Mask(t, "both")
  /\ Goto(t, "unlocking")
  /\ UNCHANGED <<n, node, hand, timer, mutex, fate, calls>>

UnlockOther(t) ==
  /\ At(t, "unlocking") /\ mutex.lk = None /\ mutex.tid # t
  /\ fate' = "exit"
  /\ UNCHANGED <<n, node, act, kt, hand, timer, mutex, calls>>

(* Mutant: wakeup_lock looks at the head of the list only.                 *)
SleepersAtHead == {q \in Tids : node[q].state = "SLEEPING" /\ node[q].chan /\ q = n - 1}

Sleepers == {q \in Tids : node[q].state = "SLEEPING" /\ node[q].chan}

(* wakeup_lock wakes the sleeper nearest to the head of the list, and its  *)
(* release of thread_list.lock unblocks the signals, lk still held.        *)
UnlockWake(t) ==
  /\ At(t, "unlocking") /\ mutex.lk = None /\ mutex.tid = t
  /\ mutex' = [tid |-> None, lk |-> t]
  /\ \/ Sleepers = {} /\ UNCHANGED node
     \/ \E w \in Sleepers :
          /\ \A q \in Sleepers : q <= w
          /\ node' = [node EXCEPT ![w].state = "RUNNABLE"]
  /\ Mask(t, "none")
  /\ Goto(t, "unlocked")
  /\ UNCHANGED <<n, hand, timer, fate, calls>>

(* release(&lk->lk): get_calling_ktid() looks up its kernel thread ...     *)
Unlocked(t) ==
  /\ At(t, "unlocked")
  /\ act' = [act EXCEPT ![t].at = "releasing", ![t].idx = Index(t)]
  /\ UNCHANGED <<n, node, kt, hand, timer, mutex, fate, calls>>

(* ... and takes the thread in its entry of curr_running_proc_array, which *)
(* is not the caller when that was moved to another kernel thread since.   *)
Releasing(t) ==
  LET caller == IF t = Main THEN Main ELSE kt[act[t].idx].curr IN
  /\ At(t, "releasing")
  /\ \/ /\ caller = t
        /\ mutex' = [mutex EXCEPT !.lk = None]
        /\ Mask(t, "none")
        /\ Return(t)
        /\ UNCHANGED fate
     \/ /\ caller # t
        /\ fate' = "stray"
        /\ UNCHANGED <<act, kt, mutex>>
  /\ UNCHANGED <<n, node, hand, timer, calls>>

(***************************************************************************)
(* The timer and the signals.                                              *)
(***************************************************************************)

Expire ==
  /\ fate = "running" /\ timer.armed
  /\ calls.alarms < MaxAlarms
  /\ calls' = [calls EXCEPT !.alarms = @ + 1]
  /\ timer' = [timer EXCEPT !.armed = FALSE, !.pend = TRUE]
  /\ UNCHANGED <<n, node, act, kt, hand, mutex, fate>>

(* SIGALRM goes to any kernel thread that does not block it.               *)
Receives(c) ==
  /\ Free(c)
  /\ \/ c = Main /\ act[Main].at \notin {"locking", "unlocking"}
     \/ c # Main /\ kt[c].on # None /\ kt[c].mask # "both"

Deliver(c) ==
  /\ fate = "running" /\ timer.pend /\ Receives(c)
  /\ timer' = [timer EXCEPT !.pend = FALSE]
  /\ hand' = [hand EXCEPT ![c].at = "off"]
  /\ UNCHANGED <<n, node, act, kt, mutex, fate, calls>>

(* signal_handler_alarm, on whatever stack c executes: ualarm(0,0);        *)
(* alarm_index is loaded, and stored; SIGVTALRM is sent.  A kernel thread  *)
(* whose entry of kthread_index is not assigned is not found by tgkill.    *)
HandlerOff(c) ==
  /\ fate = "running" /\ hand[c].at = "off"
  /\ timer' = Disarmed
  /\ hand' = [hand EXCEPT ![c].at = "load"]
  /\ UNCHANGED <<n, node, act, kt, mutex, fate, calls>>

HandlerLoad(c) ==
  /\ fate = "running" /\ hand[c].at = "load"
  /\ hand' = [hand EXCEPT ![c] = [at |-> "store", i |-> (timer.index + 1) % K]]
  /\ UNCHANGED <<n, node, act, kt, timer, mutex, fate, calls>>

HandlerStore(c) ==
  /\ fate = "running" /\ hand[c].at = "store"
  /\ timer' = [timer EXCEPT !.index = hand[c].i]
  /\ hand' = [hand EXCEPT ![c] = [at |-> "send", i |-> None]]
  /\ UNCHANGED <<n, node, act, kt, mutex, fate, calls>>

HandlerSend(c) ==
  /\ fate = "running" /\ hand[c].at = "send"
  /\ kt' = [kt EXCEPT ![timer.index].vt = @ \/ kt[timer.index].pub]
  /\ hand' = [hand EXCEPT ![c] = NoHandler]
  /\ UNCHANGED <<n, node, act, timer, mutex, fate, calls>>

(* signal_handler_vtalarm, on top of a stack or of the SIGALRM handler on  *)
(* it, which stays on the stack that is left.  In the scheduler, once it   *)
(* has put its own node into curr_running_proc_array, the handler saves    *)
(* the scheduler context and jumps to what it has just saved; before and   *)
(* after, it abandons what the scheduler stack was doing.                  *)
Preempt(i) ==
  LET t == kt[i].curr  own == kt[i].on # Sched IN
  /\ fate = "running" /\ kt[i].vt /\ kt[i].mask = "none"
  /\ timer' = Disarmed
  /\ \/ /\ t = Sched
        /\ kt' = [kt EXCEPT ![i].vt = FALSE, ![i].spent = TRUE]
        /\ UNCHANGED <<node, hand, fate>>
     \/ /\ t # Sched
        /\ node' = [node EXCEPT ![t].ctx = IF own THEN "handler" ELSE "sched",
                                ![t].frame = IF own THEN hand[i] ELSE NoHandler]
        /\ hand' = [hand EXCEPT ![i] = NoHandler]
        /\ ToScheduler(i, i, IF Free(i) THEN "vt" ELSE "both")
  /\ UNCHANGED <<n, act, mutex, calls>>

(***************************************************************************)
(* The scheduler of a kernel thread.                                       *)
(***************************************************************************)

SchedAt(i, at) == fate = "running" /\ kt[i].on = Sched /\ Free(i) /\ kt[i].at = at

Requeues(t) == node[t].state = "RUNNING"

Enter(i) ==
  /\ SchedAt(i, "enter")
  /\ kt' = [kt EXCEPT ![i].pos = kt[i].curr, ![i].curr = Sched,
              ![i].at = IF Requeues(kt[i].curr) THEN "requeue" ELSE "first"]
  /\ UNCHANGED <<n, node, act, hand, timer, mutex, fate, calls>>

Requeue(i) ==
  /\ SchedAt(i, "requeue")
  /\ node' = [node EXCEPT ![kt[i].pos].state = "RUNNABLE"]
  /\ kt' = [kt EXCEPT ![i].at = "first"]
  /\ UNCHANGED <<n, act, hand, timer, mutex, fate, calls>>

(* The next in the list, after its end the head.                           *)
Succ(q) == IF q = 0 THEN n - 1 ELSE q - 1

Chooses(q) == node[q].state = "RUNNABLE"

(* One node looked at, under thread_list.lock.                             *)
Walk(i) ==
  LET q == IF kt[i].at = "first" THEN Succ(kt[i].pos) ELSE kt[i].pos IN
  /\ SchedAt(i, "first") \/ SchedAt(i, "walk")
  /\ \/ /\ Chooses(q)
        /\ node' = [node EXCEPT ![q].state = "RUNNING", ![q].ktid = i]
        /\ kt' = [kt EXCEPT ![i].pos = q, ![i].at = "curr", ![i].mask = "none"]
     \/ /\ ~Chooses(q)
        /\ kt' = [kt EXCEPT ![i].pos = Succ(q), ![i].at = "walk", ![i].mask = "none"]
        /\ UNCHANGED node
  /\ UNCHANGED <<n, act, hand, timer, mutex, fate, calls>>

(* Mutant: the scheduler leaves its own node in curr_running_proc_array.   *)
CurrentNot(i) == kt[i].curr

Current(i) == kt[i].pos

SetCurr(i) ==
  /\ SchedAt(i, "curr")
  /\ kt' = [kt EXCEPT ![i].curr = Current(i), ![i].at = "go", ![i].mask = "none"]
  /\ UNCHANGED <<n, node, act, hand, timer, mutex, fate, calls>>

(* ualarm(ALARM_TIME, 0) and siglongjmp                                    *)
Go(i) ==
  LET t == kt[i].pos  lands == node[t].ctx \in {"new", "handler", "asleep"} IN
  /\ SchedAt(i, "go")
  /\ timer' = Armed
  /\ fate' = IF lands /\ \A j \in KT : kt[j].on # t THEN fate ELSE "lost"
  /\ \/ /\ lands
        /\ kt' = [kt EXCEPT ![i].on = t, ![i].at = "enter", ![i].pos = None, ![i].stk = i]
        /\ node' = [node EXCEPT ![t].ctx = "stale", ![t].frame = NoHandler]
        /\ hand' = [hand EXCEPT ![i] = node[t].frame]
        /\ IF node[t].ctx = "asleep" THEN Goto(t, "relock") ELSE UNCHANGED act
     \/ /\ ~lands
        /\ UNCHANGED <<node, act, kt, hand>>
  /\ UNCHANGED <<n, mutex, calls>>

-----------------------------------------------------------------------------
scheduler(i) == Enter(i) \/ Requeue(i) \/ Walk(i) \/ SetCurr(i) \/ Go(i)
execute_me_oo(t) == Start(t) \/ Setup(t) \/ Gettid(t) \/ SetKtid(t)
execute_me_mo(t) == First(t) \/ Gettid(t) \/ SetKtid(t)
thread_exit(t) == ExitMark(t) \/ Leave(t)
acquiresleep(t) == Relock(t) \/ LockTwice(t) \/ LockTake(t) \/ LockSleep(t) \/ SetJmp(t)
releasesleep(t) == UnlockOther(t) \/ UnlockWake(t) \/ Unlocked(t) \/ Releasing(t)
signal_handler_alarm(c) == HandlerOff(c) \/ HandlerLoad(c) \/ HandlerStore(c) \/ HandlerSend(c)

Next ==
  \/ Create \/ Clone \/ Publish \/ JoinWait
  \/ \E k \in Targets : CallJoin(k)
  \/ \E t \in Tids :
       execute_me_oo(t) \/ execute_me_mo(t) \/ CallUnknown(t) \/ CallExit(t) \/ thread_exit(t)
  \/ \E t \in Users :
       \/ \E k \in Targets : CallKill(t, k)
       \/ Kill(t) \/ CallLock(t) \/ acquiresleep(t) \/ CallUnlock(t) \/ releasesleep(t)
  \/ Expire
  \/ \E c \in Carriers : Deliver(c) \/ signal_handler_alarm(c)
  \/ \E i \in KT : Preempt(i) \/ scheduler(i)

Spec == Init /\ [][Next]_vars

-----------------------------------------------------------------------------
(***************************************************************************)
(* Properties.                                                             *)
(***************************************************************************)

(* A thread that executes is the entry of curr_running_proc_array of its   *)
(* kernel thread, which acquire takes for the caller, execute_me_mo for    *)
(* its own node, and which the handler saves into.                         *)
CurrRuns == \A i \in KT : kt[i].on \in Tids => kt[i].curr = kt[i].on

(* On its way to the mutex, called or woken.                               *)
OnWay(t) == act[t].at \in {"locking", "setjmp", "leave", "relock", "relocking"}

(* No wakeup is lost: while threads sleep on the mutex it is held, or a    *)
(* thread that was woken or never slept is on its way to it, unless it was *)
(* killed there, or ended by the thread_exit of another.                   *)
NoLostWakeup ==
  /\ fate = "running"
  /\ \E s \in Tids : node[s].state = "SLEEPING" /\ node[s].chan
  /\ \A t \in Tids : OnWay(t) => node[t].state # "TERMINATED"
  =>
  \/ mutex.tid # None
  \/ \E t \in Users :
       OnWay(t) /\ (t # Main => node[t].state \in {"RUNNABLE", "RUNNING"})

lockCall ==
  [t \in Users |->
     CASE OnWay(t) -> "lock"
       [] act[t].at = "unlocking" -> "unlock"
       [] OTHER -> "none"]

Lock == INSTANCE LockSpec
          WITH Threads <- Users, NoTid <- None,
               owner <- mutex.tid, call <- lockCall, faulted <- (fate = "exit")

(* acquiresleep and releasesleep implement the lock of the interface with  *)
(* several kernel threads under them, whatever the alarms do to it, up to  *)
(* the exit of StrictLock.                                                 *)
ImplementsLock == Lock!Spec

Strict == INSTANCE LockSpec
            WITH Threads <- Users, NoTid <- None,
                 owner <- mutex.tid, call <- lockCall, faulted <- (fate \in {"exit", "stray"})

(* The library ends the process only for a call that breaks the protocol:  *)
(* not for the unlock of the owner, in the release of the inner spinlock.  *)
StrictLock == Strict!Spec

(* thread_exit ends its caller.                                            *)
ExitEndsCaller ==
  [][\A t \in Tids :
       act[t].at = "exit" /\ act'[t].at = "gone" => node'[t].state = "TERMINATED"]_vars
=============================================================================
