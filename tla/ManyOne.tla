------------------------------ MODULE ManyOne ------------------------------
(***************************************************************************)
(* The many-one library (src/src/many_one): all threads of the program on  *)
(* one kernel thread, switched by the SIGALRM of a 100 microsecond timer   *)
(* and by siglongjmp.  One stack executes at a time, a thread's or the     *)
(* scheduler's; what makes the code concurrent is that the alarm may       *)
(* arrive between any two steps of a stack that has it unblocked, and that *)
(* the handler then abandons that stack for the scheduler.                 *)
(*                                                                         *)
(* The two spinlocks are thread_list.lock ("tl") and the one inside the    *)
(* sleeplock ("lk").  acquire blocks SIGALRM and release unblocks it and   *)
(* starts the timer, whatever else the thread still holds.                 *)
(*                                                                         *)
(* A context (jmp_buf) is modelled by where a jump to it leads: "new" into *)
(* execute_me, "handler" back into the alarm handler on the thread's own   *)
(* stack, "asleep" back into sleep_lock.  A jump consumes it: the function *)
(* that saved it returns, and until the next save it is "stale".  "sched"  *)
(* leads into the scheduler's stack, reused since.  A jump to one of these *)
(* two is undefined; the model stops there, with fate "lost".              *)
(*                                                                         *)
(* A node is a thread here, whatever its tid: two threads that read the    *)
(* static id before either stores it are given one tid, and the model      *)
(* stops there, with fate "clash".                                         *)
(***************************************************************************)
EXTENDS Integers, FiniteSets, SequencesExt

CONSTANTS
  Main,        (* the thread of main, in the list since init_many_one      *)
  Kids,        (* the threads thread_create may make, each at most once    *)
  NoTid,       (* -1: no thread                                            *)
  Sched,       (* the scheduler, as the owner of the executing stack       *)
  Lockers,     (* the threads whose program calls thread_mutex_lock        *)
  Joiners,     (* the threads whose program calls thread_join              *)
  Senders,     (* the threads whose program calls thread_kill              *)
  MaxJoins,    (* bound: calls of thread_join in all                       *)
  MaxKills,    (* bound: calls of thread_kill(_, SIGTERM) in all           *)
  MaxSigs,     (* bound: calls of thread_kill with a user signal in all    *)
  Slots,       (* DEFAULT_SIGNAL_ARRAY_LENGTH                              *)
  Disciplined  (* programs use the mutex as its interface asks             *)

Threads == Kids \cup {Main}

ASSUME ManyOneAssumption ==
  /\ Main \notin Kids /\ {NoTid, Sched} \cap Threads = {}
  /\ Lockers \subseteq Threads /\ Joiners \subseteq Threads /\ Senders \subseteq Threads
  /\ {MaxJoins, MaxKills, MaxSigs, Slots} \subseteq Nat
  /\ Disciplined \in BOOLEAN

VARIABLES
  list,    (* thread_list.list, the head first                             *)
  node,    (* per thread: state, chan (sleeps on the mutex), t_context,    *)
           (* and whether the node has been freed                          *)
  frame,   (* per thread, the library code its stack is in                 *)
  own,     (* the owners of the two spinlocks                              *)
  mutex,   (* the owner of the sleeplock, or NoTid                         *)
  run,     (* cpu: whose stack executes; curr: curr_running_proc; at: the  *)
           (* step of the scheduler, or of the alarm handler that a thread *)
           (* is back in, or "own" code                                    *)
  sig,     (* SIGALRM: blocked, armed (the timer runs), pending            *)
  post,    (* the user signals: per thread rem_sig_cnt, and what the       *)
           (* handle_pending_signals on its stack have left to do          *)
  fate,    (* "running", "exit" for exit(1), "lost" for a jump to nowhere, *)
           (* "fault" for a wild store, "clash" for a tid given twice      *)
  calls    (* the static id of thread_create, counted from START_TID, and  *)
           (* the bounded calls so far                                     *)

vars == <<list, node, frame, own, mutex, run, sig, post, fate, calls>>

(* "clean" is cleanup after a join, "sleep" the release in sleep_lock,     *)
(* "relock" the acquire at its end, "wake" wakeup_lock, "unlocked" the     *)
(* last release of releasesleep, "post" thread_kill with a user signal.    *)
Frames == [op : {"none", "create", "join", "clean", "kill", "post", "lock", "sleep", "relock",
                 "unlock", "wake", "unlocked", "exit"},
           at : {"idle", "id", "block", "xchg", "sect", "rel", "done", "wait", "tidy", "state",
                 "jump", "load", "count", "store"},
           k : Threads \cup {NoTid}, found : BOOLEAN, i : Int]

Idle == [op |-> "none", at |-> "idle", k |-> NoTid, found |-> FALSE, i |-> 0]

(* A frame at the start of an acquire.                                     *)
Locking(op, k) == [Idle EXCEPT !.op = op, !.at = "block", !.k = k]

TypeOK ==
  /\ list \in Seq(Threads)
  /\ node \in [Threads -> [state : {"UNBORN", "RUNNABLE", "RUNNING", "SLEEPING", "TERMINATED"},
                           chan : BOOLEAN, freed : BOOLEAN,
                           ctx : {"new", "handler", "asleep", "sched", "stale"}]]
  /\ frame \in [Threads -> Frames]
  /\ own \in [{"tl", "lk"} -> Threads \cup {NoTid}]
  /\ mutex \in Threads \cup {NoTid}
  /\ run \in [cpu : Threads \cup {Sched}, curr : Threads, next : Threads,
              at : {"disable", "pick", "curr", "go", "own", "resumed", "raising"}]
  /\ sig \in [blocked : BOOLEAN, armed : BOOLEAN, pending : BOOLEAN]
  /\ post \in [cnt : [Threads -> Int], loops : [Threads -> Seq(Int)]]
  /\ fate \in {"running", "exit", "lost", "fault", "clash"}
  /\ calls \in [id : Int, joins : 0 .. MaxJoins, kills : 0 .. MaxKills, sigs : 0 .. MaxSigs]

(* The state init_many_one leaves, in the first thread_create.             *)
Init ==
  /\ list = <<Main>>
  /\ node = [t \in Threads |-> [state |-> IF t = Main THEN "RUNNING" ELSE "UNBORN",
                                chan |-> FALSE, freed |-> FALSE, ctx |-> "stale"]]
  /\ frame = [t \in Threads |-> Idle]
  /\ own = [l \in {"tl", "lk"} |-> NoTid]
  /\ mutex = NoTid
  /\ run = [cpu |-> Main, curr |-> Main, next |-> Main, at |-> "own"]
  /\ sig = [blocked |-> FALSE, armed |-> TRUE, pending |-> FALSE]
  /\ post = [cnt |-> [t \in Threads |-> 0], loops |-> [t \in Threads |-> <<>>]]
  /\ fate = "running"
  /\ calls = [id |-> 0, joins |-> 0, kills |-> 0, sigs |-> 0]

-----------------------------------------------------------------------------
(* A pending alarm that is not blocked is delivered before anything else.  *)
Executes(s) == fate = "running" /\ run.cpu = s /\ ~(sig.pending /\ ~sig.blocked)

Step(t, at) == Executes(t) /\ run.at = "own" /\ frame[t].at = at
At(t, op, at) == Step(t, at) /\ frame[t].op = op
Goto(t, f) == frame' = [frame EXCEPT ![t] = f]
GoAt(t, at) == frame' = [frame EXCEPT ![t].at = at]

LockOf(op) == IF op \in {"lock", "sleep", "relock", "unlock", "unlocked"} THEN "lk" ELSE "tl"

(* Mutant: acquire forgets to block the alarm.                             *)
MaskedNot == sig

(* disable_alarm_signal()                                                  *)
Masked == [sig EXCEPT !.blocked = TRUE]

(* Mutant: release starts the timer and leaves the alarm blocked.          *)
UnmaskedNot == [sig EXCEPT !.armed = TRUE]

(* enable_alarm_signal() and ualarm(ALARM_TIME, 0)                         *)
Unmasked == [sig EXCEPT !.blocked = FALSE, !.armed = TRUE]

(* ualarm(0, 0)                                                            *)
Disarmed == [sig EXCEPT !.armed = FALSE]

(***************************************************************************)
(* The spinlocks.                                                          *)
(***************************************************************************)

(* The lock is taken free; held by somebody else it is spun on, with the   *)
(* alarm blocked and nobody to release it.                                 *)
acquire(t) ==
  LET l == LockOf(frame[t].op) IN
  /\ \/ /\ Step(t, "block")
        /\ sig' = Masked
        /\ GoAt(t, "xchg")
        /\ UNCHANGED own
     \/ /\ Step(t, "xchg") /\ own[l] = NoTid
        /\ own' = [own EXCEPT ![l] = t]
        /\ GoAt(t, "sect")
        /\ UNCHANGED sig
  /\ UNCHANGED <<list, node, mutex, run, post, fate, calls>>

(* Mutant: releasesleep returns with lk held.                              *)
AfterReleaseKeeps(f) ==
  CASE f.op \in {"create", "lock", "relock", "unlocked", "wake"} -> Idle
    [] f.op = "join" -> IF f.found THEN [f EXCEPT !.at = "wait"] ELSE Idle
    [] f.op = "post" /\ f.found -> [f EXCEPT !.at = "load"]
    [] OTHER -> [f EXCEPT !.at = "done"]

(* What follows the release: the end of the call, or, when the search has  *)
(* found its node, the wait of thread_join or the store of thread_kill, or, *)
(* after wakeup_lock, the end of releasesleep, with lk still held.         *)
AfterRelease(f) ==
  CASE f.op \in {"create", "lock", "relock", "unlocked"} -> Idle
    [] f.op = "join" -> IF f.found THEN [f EXCEPT !.at = "wait"] ELSE Idle
    [] f.op = "post" /\ f.found -> [f EXCEPT !.at = "load"]
    [] f.op = "wake" -> [Idle EXCEPT !.op = "unlocked", !.at = "rel"]
    [] OTHER -> [f EXCEPT !.at = "done"]

release(t) ==
  /\ Step(t, "rel")
  /\ own' = [own EXCEPT ![LockOf(frame[t].op)] = NoTid]
  /\ sig' = Unmasked
  /\ Goto(t, AfterRelease(frame[t]))
  /\ UNCHANGED <<list, node, mutex, run, post, fate, calls>>

(***************************************************************************)
(* thread_create, thread_exit, execute_me.                                 *)
(***************************************************************************)

(* The threads that thread_create may still make.                          *)
Unborn == {k \in Kids : node[k].state = "UNBORN"}

(* The load of id in id++.                                                 *)
CallCreate(t) ==
  /\ At(t, "none", "idle")
  /\ Cardinality({u \in Threads : frame[u].at = "id"}) < Cardinality(Unborn)
  /\ Goto(t, [Idle EXCEPT !.op = "create", !.at = "id", !.i = calls.id])
  /\ UNCHANGED <<list, node, own, mutex, run, sig, post, fate, calls>>

(* The store of id, and the rest of the node, which nobody else knows yet. *)
thread_create(t, k) ==
  /\ At(t, "create", "id") /\ k \in Unborn
  /\ calls' = [calls EXCEPT !.id = frame[t].i + 1]
  /\ fate' = IF frame[t].i = calls.id THEN fate ELSE "clash"
  /\ node' = [node EXCEPT ![k].state = "RUNNABLE", ![k].ctx = "new"]
  /\ Goto(t, Locking("create", k))
  /\ UNCHANGED <<list, own, mutex, run, sig, post>>

thread_insert(t) ==
  /\ At(t, "create", "sect")
  /\ list' = <<frame[t].k>> \o list
  /\ GoAt(t, "rel")
  /\ UNCHANGED <<node, own, mutex, run, sig, post, fate, calls>>

(* The end of a routine, by thread_exit or by returning to execute_me.     *)
CallExit(t) ==
  /\ t \in Kids /\ At(t, "none", "idle")
  /\ Disciplined => mutex # t
  /\ Goto(t, [Idle EXCEPT !.op = "exit", !.at = "state"])
  /\ UNCHANGED <<list, node, own, mutex, run, sig, post, fate, calls>>

(* Mutant: thread_exit leaves a state the interface does not have.         *)
ExitStateOdd == "EXITED"

ExitState == "TERMINATED"

(* siglongjmp to the scheduler's context, which is always its start and    *)
(* has no signal mask to restore.                                          *)
ToScheduler == run' = [run EXCEPT !.cpu = Sched, !.at = "disable"]

thread_exit(t) ==
  /\ \/ /\ At(t, "exit", "state")
        /\ node' = [node EXCEPT ![t].state = ExitState]
        /\ GoAt(t, "jump")
        /\ UNCHANGED run
     \/ /\ At(t, "exit", "jump")
        /\ ToScheduler
        /\ UNCHANGED <<node, frame>>
  /\ UNCHANGED <<list, own, mutex, sig, post, fate, calls>>

(***************************************************************************)
(* thread_join and cleanup.                                                *)
(***************************************************************************)

CallJoin(t, k) ==
  /\ t \in Joiners /\ t # k /\ At(t, "none", "idle") /\ node[k].state # "UNBORN"
  /\ calls.joins < MaxJoins
  /\ calls' = [calls EXCEPT !.joins = @ + 1]
  /\ Goto(t, Locking("join", k))
  /\ UNCHANGED <<list, node, own, mutex, run, sig, post, fate>>

(* while(n->state != THREAD_TERMINATED);                                   *)
thread_join(t) ==
  /\ \/ /\ At(t, "join", "sect")
        /\ frame' = [frame EXCEPT ![t].at = "rel", ![t].found = Contains(list, frame[t].k)]
     \/ /\ At(t, "join", "wait") /\ node[frame[t].k].state = "TERMINATED"
        /\ Goto(t, Locking("clean", frame[t].k))
  /\ UNCHANGED <<list, node, own, mutex, run, sig, post, fate, calls>>

(* Mutant: cleanup unlinks its caller.                                     *)
UnlinkedCaller(t) == RemoveFirst(list, t)

Unlinked(t) == RemoveFirst(list, frame[t].k)

(* After the section, munmap of the stack, free of everything that hangs   *)
(* on the node and of the node.                                            *)
cleanup(t) ==
  /\ \/ /\ At(t, "clean", "sect")
        /\ list' = Unlinked(t)
        /\ frame' = [frame EXCEPT ![t].at = "rel", ![t].found = Contains(list, frame[t].k)]
        /\ UNCHANGED node
     \/ /\ At(t, "clean", "done")
        /\ node' = [node EXCEPT ![frame[t].k].freed = @ \/ frame[t].found]
        /\ Goto(t, Idle)
        /\ UNCHANGED list
  /\ UNCHANGED <<own, mutex, run, sig, post, fate, calls>>

(***************************************************************************)
(* thread_kill.                                                            *)
(***************************************************************************)

(* SIGTERM; a thread that kills itself exits.                              *)
CallKill(t, k) ==
  /\ t \in Senders /\ At(t, "none", "idle") /\ node[k].state # "UNBORN"
  /\ calls.kills < MaxKills
  /\ calls' = [calls EXCEPT !.kills = @ + 1]
  /\ sig' = Disarmed
  /\ Goto(t, IF k = t THEN [Idle EXCEPT !.op = "exit", !.at = "state"] ELSE Locking("kill", k))
  /\ UNCHANGED <<list, node, own, mutex, run, post, fate>>

(* Another signal; one for the caller is raised at once.                   *)
CallPost(t, k) ==
  /\ t \in Senders /\ At(t, "none", "idle") /\ node[k].state # "UNBORN"
  /\ calls.sigs < MaxSigs
  /\ calls' = [calls EXCEPT !.sigs = @ + 1]
  /\ sig' = Disarmed
  /\ Goto(t, IF k = t THEN [Idle EXCEPT !.op = "kill", !.at = "done"] ELSE Locking("post", k))
  /\ UNCHANGED <<list, node, own, mutex, run, post, fate>>

(* The search, and the ualarm(ALARM_TIME, 0) before every return.          *)
thread_kill(t) ==
  LET f == frame[t]  found == Contains(list, f.k) IN
  /\ \/ /\ At(t, "kill", "sect") \/ At(t, "post", "sect")
        /\ node' = IF found /\ f.op = "kill" THEN [node EXCEPT ![f.k].state = "TERMINATED"] ELSE node
        /\ frame' = [frame EXCEPT ![t].at = "rel", ![t].found = found]
        /\ UNCHANGED sig
     \/ /\ At(t, "kill", "done") \/ At(t, "post", "done")
        /\ sig' = [sig EXCEPT !.armed = TRUE]
        /\ Goto(t, Idle)
        /\ UNCHANGED node
  /\ UNCHANGED <<list, own, mutex, run, post, fate, calls>>

(* arr[rem_sig_cnt++] = signal, with no lock and no limit: the count is    *)
(* read and stored, then the slot, in a node that cleanup may have freed.  *)
Post(t) ==
  LET f == frame[t] IN
  /\ \/ /\ At(t, "post", "load")
        /\ frame' = [frame EXCEPT ![t].i = post.cnt[f.k], ![t].at = "count"]
        /\ UNCHANGED <<post, fate>>
     \/ /\ At(t, "post", "count")
        /\ post' = [post EXCEPT !.cnt[f.k] = f.i + 1]
        /\ GoAt(t, "store")
        /\ UNCHANGED fate
     \/ /\ At(t, "post", "store")
        /\ fate' = IF f.i \in 0 .. Slots - 1 /\ ~node[f.k].freed THEN fate ELSE "fault"
        /\ GoAt(t, "done")
        /\ UNCHANGED post
  /\ UNCHANGED <<list, node, own, mutex, run, sig, calls>>

(***************************************************************************)
(* acquiresleep, sleep_lock.                                               *)
(***************************************************************************)

CallLock(t) ==
  /\ t \in Lockers /\ At(t, "none", "idle")
  /\ Disciplined => mutex # t
  /\ Goto(t, Locking("lock", NoTid))
  /\ UNCHANGED <<list, node, own, mutex, run, sig, post, fate, calls>>

(* Mutant: acquiresleep tests locked in an if, not in a while.             *)
TakenOnce(t) == mutex # NoTid /\ frame[t].op = "lock"

Taken(t) == mutex # NoTid

(* With lk held: a second lock of the owner exits; a free mutex is taken;  *)
(* sleep_lock sets chan and state before it releases lk.                   *)
acquiresleep(t) ==
  /\ At(t, "lock", "sect") \/ At(t, "relock", "sect")
  /\ \/ /\ mutex = t /\ frame[t].op = "lock"
        /\ own' = [own EXCEPT !["lk"] = NoTid]
        /\ fate' = "exit"
        /\ UNCHANGED <<node, frame, mutex>>
     \/ /\ ~Taken(t)
        /\ mutex' = t
        /\ GoAt(t, "rel")
        /\ UNCHANGED <<node, own, fate>>
     \/ /\ Taken(t) /\ ~(mutex = t /\ frame[t].op = "lock")
        /\ node' = [node EXCEPT ![t].chan = TRUE, ![t].state = "SLEEPING"]
        /\ Goto(t, [Idle EXCEPT !.op = "sleep", !.at = "rel"])
        /\ UNCHANGED <<own, mutex, fate>>
  /\ UNCHANGED <<list, run, sig, post, calls>>

(* The rest of sleep_lock: sigsetjmp, siglongjmp, and, resumed, chan = 0   *)
(* and acquire(lk).                                                        *)
sleep_lock(t) ==
  /\ \/ /\ At(t, "sleep", "done")
        /\ node' = [node EXCEPT ![t].ctx = "asleep"]
        /\ GoAt(t, "jump")
        /\ UNCHANGED run
     \/ /\ At(t, "sleep", "jump")
        /\ ToScheduler
        /\ UNCHANGED <<node, frame>>
     \/ /\ At(t, "sleep", "tidy")
        /\ node' = [node EXCEPT ![t].chan = FALSE]
        /\ Goto(t, Locking("relock", NoTid))
        /\ UNCHANGED run
  /\ UNCHANGED <<list, own, mutex, sig, post, fate, calls>>

(***************************************************************************)
(* releasesleep, wakeup_lock.                                              *)
(***************************************************************************)

CallUnlock(t) ==
  /\ t \in Lockers /\ At(t, "none", "idle")
  /\ Disciplined => mutex = t
  /\ Goto(t, Locking("unlock", NoTid))
  /\ UNCHANGED <<list, node, own, mutex, run, sig, post, fate, calls>>

(* The exit leaves lk held.                                                *)
releasesleep(t) ==
  /\ At(t, "unlock", "sect")
  /\ \/ /\ mutex # t
        /\ fate' = "exit"
        /\ UNCHANGED <<frame, mutex>>
     \/ /\ mutex = t
        /\ mutex' = NoTid
        /\ Goto(t, Locking("wake", NoTid))
        /\ UNCHANGED fate
  /\ UNCHANGED <<list, node, own, run, sig, post, calls>>

(* Mutant: wakeup_lock looks at chan only.                                 *)
SleepersByChan == {i \in DOMAIN list : node[list[i]].chan}

(* Mutant: wakeup_lock looks at the head of the list only.                 *)
SleepersAtHead ==
  {i \in DOMAIN list : i = 1 /\ node[list[i]].state = "SLEEPING" /\ node[list[i]].chan}

(* The first thread of the list that sleeps on the mutex.                  *)
Sleepers == {i \in DOMAIN list : node[list[i]].state = "SLEEPING" /\ node[list[i]].chan}

wakeup_lock(t) ==
  /\ At(t, "wake", "sect")
  /\ node' = IF Sleepers = {}
             THEN node
             ELSE [node EXCEPT ![list[Min(Sleepers)]].state = "RUNNABLE"]
  /\ GoAt(t, "rel")
  /\ UNCHANGED <<list, own, mutex, run, sig, post, fate, calls>>

(***************************************************************************)
(* The alarm and its handler.                                              *)
(***************************************************************************)

(* The timer expires.                                                      *)
Alarm ==
  /\ fate = "running" /\ sig.armed
  /\ sig' = [sig EXCEPT !.armed = FALSE, !.pending = TRUE]
  /\ UNCHANGED <<list, node, frame, own, mutex, run, post, fate, calls>>

(* ualarm(0,0), sigsetjmp into the context of curr_running_proc, with the  *)
(* executing stack, whoever's it is, and siglongjmp to the scheduler.      *)
signal_handler_alarm ==
  /\ fate = "running" /\ sig.pending /\ ~sig.blocked
  /\ node' = [node EXCEPT ![run.curr].ctx = IF run.cpu = Sched THEN "sched" ELSE "handler"]
  /\ sig' = [blocked |-> TRUE, armed |-> FALSE, pending |-> FALSE]
  /\ ToScheduler
  /\ UNCHANGED <<list, frame, own, mutex, post, fate, calls>>

(* handle_pending_signals, where the resumed handler continues, the alarm  *)
(* blocked: ualarm(0,0) and k; k times the last signal; ualarm(ALARM_TIME, *)
(* 0) and the alarm unblocked.  Each round unblocks what the uninitialised *)
(* set holds, the alarm perhaps, and then another handler runs on top.     *)
handle_pending_signals(t) ==
  LET left == Last(post.loops[t]) IN
  /\ Executes(t)
  /\ \/ /\ run.at = "resumed"
        /\ sig' = Disarmed
        /\ post' = [post EXCEPT !.loops[t] = Append(@, post.cnt[t])]
        /\ run' = [run EXCEPT !.at = "raising"]
     \/ /\ run.at = "raising" /\ left > 0
        /\ sig' \in {sig, [sig EXCEPT !.blocked = FALSE]}
        /\ post' = [post EXCEPT !.cnt[t] = @ - 1, !.loops[t] = Front(@) \o <<left - 1>>]
        /\ UNCHANGED run
     \/ /\ run.at = "raising" /\ left <= 0
        /\ sig' = Unmasked
        /\ post' = [post EXCEPT !.loops[t] = Front(@)]
        /\ run' = [run EXCEPT !.at = IF Len(post.loops[t]) > 1 THEN "raising" ELSE "own"]
  /\ UNCHANGED <<list, node, frame, own, mutex, fate, calls>>

(***************************************************************************)
(* The scheduler.                                                          *)
(***************************************************************************)

(* A running thread becomes runnable.                                      *)
Requeued ==
  IF node[run.curr].state = "RUNNING"
  THEN [node EXCEPT ![run.curr].state = "RUNNABLE"]
  ELSE node

(* The walk from p on, round the list; a thread that is no longer in the   *)
(* list has been freed and its next is not read.                           *)
Position(p) == IF Contains(list, p) THEN CHOOSE i \in DOMAIN list : list[i] = p ELSE 0

(* Mutant: the walk always starts at the head.                             *)
DistanceFromHead(p, q) == Position(q)

Distance(p, q) == (Position(q) - Position(p) - 1 + 2 * Len(list)) % Len(list)

Runnable == {q \in Threads : Contains(list, q) /\ Requeued[q].state = "RUNNABLE"}

(* disable_alarm_signal; the walk, between acquire and release of          *)
(* thread_list.lock, which never ends with nobody runnable; the assignment *)
(* of curr_running_proc; the jump, with the mask the context was saved     *)
(* with: a thread back in its handler has the alarm blocked.               *)
scheduler ==
  LET t == run.curr  ctx == node[t].ctx IN
  /\ Executes(Sched)
  /\ \/ /\ run.at = "disable"
        /\ sig' = Masked
        /\ run' = [run EXCEPT !.at = "pick"]
        /\ UNCHANGED <<node, frame, fate>>
     \/ /\ run.at = "pick" /\ own["tl"] = NoTid
        /\ \E q \in Runnable :
             /\ \A r \in Runnable : Distance(t, q) <= Distance(t, r)
             /\ run' = [run EXCEPT !.next = q, !.at = "curr"]
        /\ node' = Requeued
        /\ sig' = Unmasked
        /\ UNCHANGED <<frame, fate>>
     \/ /\ run.at = "curr"
        /\ run' = [run EXCEPT !.curr = run.next, !.at = "go"]
        /\ UNCHANGED <<node, frame, sig, fate>>
     \/ /\ run.at = "go"
        /\ node' = [node EXCEPT ![t].state = "RUNNING", ![t].ctx = "stale"]
        /\ sig' = [blocked |-> ctx = "handler", armed |-> TRUE, pending |-> FALSE]
        /\ IF ctx = "asleep" THEN GoAt(t, "tidy") ELSE UNCHANGED frame
        /\ IF ctx \in {"sched", "stale"}
           THEN fate' = "lost" /\ UNCHANGED run
           ELSE /\ run' = [run EXCEPT !.cpu = t, !.at = IF ctx = "handler" THEN "resumed" ELSE "own"]
                /\ UNCHANGED fate
  /\ UNCHANGED <<list, own, mutex, post, calls>>

-----------------------------------------------------------------------------
Library(t) ==
  \/ acquire(t) \/ release(t) \/ thread_insert(t) \/ thread_exit(t) \/ thread_join(t)
  \/ cleanup(t) \/ thread_kill(t) \/ Post(t) \/ acquiresleep(t) \/ sleep_lock(t)
  \/ releasesleep(t) \/ wakeup_lock(t)

Next ==
  \/ \E t \in Threads :
       \/ \E k \in Threads :
            thread_create(t, k) \/ CallJoin(t, k) \/ CallKill(t, k) \/ CallPost(t, k)
       \/ CallCreate(t) \/ CallExit(t) \/ CallLock(t) \/ CallUnlock(t)
       \/ Library(t) \/ handle_pending_signals(t)
  \/ Alarm \/ signal_handler_alarm
  \/ scheduler

Spec == Init /\ [][Next]_vars

(* ualarm(ALARM_TIME, 0), which sets a timer that runs back.               *)
Restarts ==
  \/ run.cpu = Sched /\ scheduler
  \/ \E t \in Threads : release(t) \/ thread_kill(t) \/ handle_pending_signals(t)

(* The processor executes, and a quantum is longer than a step: neither a  *)
(* thread, nor the scheduler on its way to one, nor a handler on its way   *)
(* to ualarm(0, 0), given the processor again and again, always meets the  *)
(* end of its quantum before its next step.  The timer expires unless it   *)
(* is stopped or set back again and again.  Programs release the mutex.    *)
Fairness ==
  /\ WF_vars(scheduler \/ signal_handler_alarm \/ \E t \in Threads : handle_pending_signals(t))
  /\ []<>(~sig.armed) \/ []<><<Alarm \/ Restarts>>_vars
  /\ \A t \in Threads :
       /\ \A at \in {"curr", "go"} : SF_vars(run.at = at /\ run.next = t /\ scheduler)
       /\ SF_vars(run.at = "resumed" /\ ~sig.pending /\ handle_pending_signals(t))
       /\ SF_vars(Library(t) \/ (mutex = t /\ CallUnlock(t)))

FairSpec == Spec /\ Fairness

-----------------------------------------------------------------------------
(***************************************************************************)
(* Properties.                                                             *)
(***************************************************************************)

(* Whenever anybody, the scheduler included, is about to take              *)
(* thread_list.lock, it is free: the alarm never takes the processor from  *)
(* a thread that has it, and a signal never meets its own stack's lock.    *)
ListLockFree ==
  /\ run.cpu = Sched => own["tl"] = NoTid
  /\ \A t \in Threads :
       frame[t].at = "xchg" /\ LockOf(frame[t].op) = "tl" /\ run.cpu = t => own["tl"] = NoTid

(* The thread on the processor is curr_running_proc, which acquire and     *)
(* releasesleep take for gettid, and its node is in the list and not freed *)
(* when the scheduler reads its next.                                      *)
CurrRuns ==
  /\ run.cpu # Sched => run.cpu = run.curr
  /\ Contains(list, run.curr) /\ ~node[run.curr].freed

(* A thread that has terminated, or was killed, is never scheduled again   *)
(* and never woken, by whatever stale pointer to its node.                 *)
TerminatedStays ==
  [][\A t \in Threads : node[t].state = "TERMINATED" => node'[t].state = "TERMINATED"]_vars

(* While a thread computes or spins on a join the timer runs or its alarm  *)
(* is about to be delivered: no path through the library leaves the        *)
(* processor with a thread that nothing takes it from.                     *)
AlarmComes ==
  \A t \in Threads :
    fate = "running" /\ run.cpu = t /\ run.at = "own" /\ frame[t].at \in {"idle", "wait"}
      => ~sig.blocked /\ (sig.armed \/ sig.pending)

(* No wakeup is lost: while threads sleep on the mutex, it is held, or its *)
(* release has still to look for sleepers, or a thread that was woken or   *)
(* never slept is on its way to it.                                        *)
NoLostWakeup ==
  (\E s \in Threads : node[s].state = "SLEEPING") =>
    \/ mutex # NoTid
    \/ \E t \in Threads :
         /\ node[t].state \in {"RUNNABLE", "RUNNING"}
         /\ \/ frame[t].op = "wake" /\ frame[t].at \in {"block", "xchg", "sect"}
            \/ frame[t].op \in {"lock", "sleep", "relock"}

(* A thread finds lk taken for one reason only: releasesleep releases      *)
(* thread_list.lock, and with it the alarm, before it releases lk.  With   *)
(* one kernel thread and the alarm blocked, it then spins for ever.        *)
SpinsForUnlock ==
  \A t \in Threads :
    run.cpu = t /\ frame[t].at = "xchg" /\ LockOf(frame[t].op) = "lk" /\ own["lk"] # NoTid
      => frame[own["lk"]].op = "unlocked"

lockCall ==
  [t \in Threads |->
     CASE frame[t].op \in {"lock", "relock"} /\ frame[t].at # "rel" -> "lock"
       [] frame[t].op = "sleep" -> "lock"
       [] frame[t].op = "unlock" -> "unlock"
       [] OTHER -> "none"]

Lock == INSTANCE LockSpec
          WITH owner <- mutex, call <- lockCall, faulted <- (fate = "exit")

(* acquiresleep and releasesleep implement the lock of the interface, with *)
(* threads that sleep instead of spinning and a processor that is taken    *)
(* from them at any unblocked point.                                       *)
ImplementsLock == Lock!Spec

(* A thread spins on a lock whose holder lost the processor.               *)
Stuck ==
  \E t \in Threads :
    run.cpu = t /\ frame[t].at = "xchg" /\ own[LockOf(frame[t].op)] # NoTid

(* Every release sets the timer back, so a program that calls the mutex    *)
(* without end need never be interrupted.                                  *)
CallsEnd == <>[][~\E t \in Threads : CallLock(t) \/ CallUnlock(t)]_vars

(* A thread that can run does run, whatever the others compute or wait     *)
(* for, if they do not call the mutex without end.                         *)
RunnableRuns ==
  CallsEnd =>
    \A t \in Threads : node[t].state = "RUNNABLE" ~> (run.cpu = t \/ Stuck \/ fate # "running")

(* A free mutex somebody waits for is taken, under the same condition.     *)
FreeMutexTaken ==
  CallsEnd =>
    ((mutex = NoTid /\ \E t \in Threads : frame[t].op \in {"lock", "sleep", "relock"})
       ~> (mutex # NoTid \/ Stuck \/ fate # "running"))
=============================================================================
