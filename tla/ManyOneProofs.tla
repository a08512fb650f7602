---------------------------- MODULE ManyOneProofs ----------------------------
(***************************************************************************)
(* Proofs about ManyOne, for any set of threads, any calls, kills and user *)
(* signals, and the alarm at every step.                                   *)
(***************************************************************************)
EXTENDS ManyOne, ListProofs, FiniteSetTheorems

(* The places each operation has.                                          *)
Locked == {"block", "xchg", "sect", "rel"}

Places(f) ==
  \/ f.op = "none" /\ f.at = "idle"
  \/ f.op = "create" /\ f.at \in Locked \cup {"id"}
  \/ f.op \in {"lock", "relock", "wake"} /\ f.at \in Locked
  \/ f.op = "join" /\ f.at \in Locked \cup {"wait"}
  \/ f.op \in {"clean", "kill"} /\ f.at \in Locked \cup {"done"}
  \/ f.op = "post" /\ f.at \in Locked \cup {"load", "count", "store", "done"}
  \/ f.op = "sleep" /\ f.at \in {"rel", "done", "jump", "tidy"}
  \/ f.op = "unlock" /\ f.at \in {"block", "xchg", "sect"}
  \/ f.op = "unlocked" /\ f.at = "rel"
  \/ f.op = "exit" /\ f.at \in {"state", "jump"}

(* The alarm can be delivered here: between acquire and release it is      *)
(* blocked, and from the acquire of releasesleep to the release that ends  *)
(* wakeup_lock.                                                            *)
Open(f) ==
  f.op # "wake" /\ f.at \notin {"xchg", "sect"} /\ (f.at = "rel" => f.op = "unlocked")

(* The timer runs here.                                                    *)
Timed(f) == f.at \in {"idle", "wait"} \/ (f.op = "clean" /\ f.at = "done")

(* What a frame of t is about.                                             *)
Args(t) ==
  LET f == frame[t] IN
  /\ Places(f)
  /\ f.op = "create" /\ f.at # "id" => f.k \in Threads
  /\ f.op \in {"join", "clean"} \/ (f.op \in {"kill", "post"} /\ f.at # "done")
       => f.k \in Threads \ {t}
  /\ f.op = "clean" => node[f.k].state = "TERMINATED"
  /\ node[t].ctx = "asleep" => f.op = "sleep" /\ f.at = "jump"
  /\ node[t].freed => node[t].state = "TERMINATED"

(* A thread executes with the state RUNNING, or has just given it up.      *)
Executing(t) ==
  run.cpu = t =>
    \/ node[t].state = "RUNNING"
    \/ /\ run.at = "own" /\ frame[t].at = "jump"
       /\ node[t].state = "TERMINATED" /\ frame[t].op = "exit"
    \/ /\ run.at = "own" /\ frame[t].at \in {"rel", "done", "jump"}
       /\ node[t].state = "SLEEPING" /\ frame[t].op = "sleep"

(* Only the thread that executes its own code has the alarm blocked or a   *)
(* lock of the library it must not be interrupted in.                      *)
Masks(t) ==
  /\ ~Open(frame[t]) => run.cpu = t /\ run.at = "own" /\ sig.blocked
  /\ run.cpu = t /\ run.at = "own" /\ Open(frame[t]) => ~sig.blocked
  /\ run.cpu = t /\ run.at = "own" /\ Timed(frame[t]) => sig.armed \/ sig.pending

Locks(t) ==
  /\ own["tl"] = t <=> LockOf(frame[t].op) = "tl" /\ frame[t].at \in {"sect", "rel"}
  /\ fate = "running" =>
       (own["lk"] = t <=> frame[t].op = "wake" \/
                          (LockOf(frame[t].op) = "lk" /\ frame[t].at \in {"sect", "rel"}))

Processor ==
  /\ run.cpu = Sched <=> run.at \in {"disable", "pick", "curr", "go"}
  /\ CurrRuns
  /\ run.at = "curr" => Contains(list, run.next) /\ node[run.next].state = "RUNNABLE"
  /\ run.at = "go" /\ fate = "running" => node[run.curr].state = "RUNNABLE"
  /\ run.at = "raising" => post.loops[run.cpu] # <<>>

Local(t) == Args(t) /\ Executing(t) /\ Masks(t) /\ Locks(t)

IInv == TypeOK /\ Processor /\ \A t \in Threads : Local(t)


-----------------------------------------------------------------------------
(* The threads, and who is none of them.                                   *)
LEMMA Constants ==
  /\ Threads = Kids \cup {Main} /\ Main \in Threads /\ Main \notin Kids
  /\ NoTid \notin Threads /\ Sched \notin Threads
  /\ MaxSigs \in Nat /\ MaxJoins \in Nat /\ MaxKills \in Nat /\ Slots \in Nat
BY ManyOneAssumption DEF Threads

(* The operations and the places of frames.                                *)
Ops == {"none", "create", "join", "clean", "kill", "post", "lock", "sleep", "relock",
        "unlock", "wake", "unlocked", "exit"}
Ats == {"idle", "id", "block", "xchg", "sect", "rel", "done", "wait", "tidy", "state", "jump",
        "load", "count", "store"}
Nodes == [state : {"UNBORN", "RUNNABLE", "RUNNING", "SLEEPING", "TERMINATED"},
          chan : BOOLEAN, freed : BOOLEAN,
          ctx : {"new", "handler", "asleep", "sched", "stale"}]

(* The frame of a thread in the program.                                   *)
LEMMA IdleFrame ==
  Idle \in Frames /\ Idle.op = "none" /\ Idle.at = "idle" /\ Idle.found = FALSE
BY Constants DEF Idle, Frames

(* A frame at the start of an acquire.                                     *)
LEMMA LockingFrame ==
  ASSUME NEW op \in Ops, NEW k \in Threads \cup {NoTid}
  PROVE  /\ Locking(op, k) \in Frames
         /\ Locking(op, k).op = op /\ Locking(op, k).at = "block" /\ Locking(op, k).k = k
BY IdleFrame DEF Locking, Frames, Ops

(* A frame of another operation and place, about no thread.                *)
LEMMA OtherFrame ==
  ASSUME NEW op \in Ops, NEW at \in Ats
  PROVE  /\ [Idle EXCEPT !.op = op, !.at = at] \in Frames
         /\ [Idle EXCEPT !.op = op, !.at = at].op = op
         /\ [Idle EXCEPT !.op = op, !.at = at].at = at
<1>1. PICK f : f = Idle
  OBVIOUS
<1>2. f \in Frames
  BY <1>1, IdleFrame
<1>3. [f EXCEPT !.op = op, !.at = at] \in Frames
  BY <1>2 DEF Frames, Ops, Ats
<1>4. [f EXCEPT !.op = op, !.at = at].op = op /\ [f EXCEPT !.op = op, !.at = at].at = at
  BY <1>2 DEF Frames
<1>5. QED
  BY <1>1, <1>3, <1>4

(* What GoAt changes.                                                      *)
LEMMA GoAtKeeps ==
  ASSUME frame \in [Threads -> Frames], NEW t \in Threads, NEW at \in Ats, GoAt(t, at)
  PROVE  /\ frame' \in [Threads -> Frames] /\ \A u \in Threads \ {t} : frame'[u] = frame[u]
         /\ frame'[t].at = at /\ frame'[t].op = frame[t].op /\ frame'[t].k = frame[t].k
         /\ frame'[t].found = frame[t].found /\ frame'[t].i = frame[t].i
BY DEF GoAt, Frames, Ats

(* Goto changes one frame.                                                 *)
LEMMA GotoKeeps ==
  ASSUME frame \in [Threads -> Frames], NEW t \in Threads, NEW f \in Frames, Goto(t, f)
  PROVE  /\ frame' \in [Threads -> Frames] /\ \A u \in Threads \ {t} : frame'[u] = frame[u]
         /\ frame'[t] = f
BY DEF Goto

(* The search that ends a section records its result.                      *)
LEMMA FoundKeeps ==
  ASSUME frame \in [Threads -> Frames], NEW t \in Threads, NEW b \in BOOLEAN,
         frame' = [frame EXCEPT ![t].at = "rel", ![t].found = b]
  PROVE  /\ frame' \in [Threads -> Frames] /\ \A u \in Threads \ {t} : frame'[u] = frame[u]
         /\ frame'[t].at = "rel" /\ frame'[t].op = frame[t].op /\ frame'[t].k = frame[t].k
         /\ frame'[t].found = b
<1> DEFINE f == [frame[t] EXCEPT !.at = "rel", !.found = b]
<1>1. /\ f \in Frames /\ f.at = "rel" /\ f.op = frame[t].op /\ f.k = frame[t].k /\ f.found = b
  BY DEF Frames
<1>2. Goto(t, f)
  BY DEF Goto
<1> HIDE DEF f
<1>3. QED
  BY <1>1, <1>2, GotoKeeps

(* Contains answers yes or no.                                             *)
LEMMA ContainsBoolean == \A s, e : Contains(s, e) \in BOOLEAN
BY DEF Contains

(* The state init_many_one leaves satisfies the invariant.                 *)
LEMMA InitIInv == Init => IInv
<1> SUFFICES ASSUME Init PROVE IInv
  OBVIOUS
<1>1. TypeOK
  <2>1. frame \in [Threads -> Frames]
    BY IdleFrame DEF Init
  <2>2. list \in Seq(Threads) /\ node \in [Threads -> Nodes]
    BY Constants DEF Init, Nodes
  <2>3. own \in [{"tl", "lk"} -> Threads \cup {NoTid}] /\ mutex \in Threads \cup {NoTid}
    BY DEF Init
  <2>4. /\ run \in [cpu : Threads \cup {Sched}, curr : Threads, next : Threads,
              at : {"disable", "pick", "curr", "go", "own", "resumed", "raising"}]
        /\ sig \in [blocked : BOOLEAN, armed : BOOLEAN, pending : BOOLEAN]
    BY Constants DEF Init
  <2>5. post \in [cnt : [Threads -> Int], loops : [Threads -> Seq(Int)]]
    BY Constants DEF Init
  <2>6. /\ fate \in {"running", "exit", "lost", "fault", "clash"}
        /\ calls \in [id : Int, joins : 0 .. MaxJoins, kills : 0 .. MaxKills, sigs : 0 .. MaxSigs]
    BY Constants DEF Init
  <2>7. QED
    BY <2>1, <2>2, <2>3, <2>4, <2>5, <2>6 DEF TypeOK, Nodes
<1>2. Processor
  <2>1. Contains(list, Main)
    BY DEF Init, Contains
  <2>2. QED
    BY <2>1, Constants DEF Init, Processor, CurrRuns
<1>3. ASSUME NEW t \in Threads PROVE Local(t)
  BY IdleFrame, Constants
  DEF Init, Local, Args, Places, Executing, Masks, Open, Timed, Locked, Locks, LockOf
<1>4. QED
  BY <1>1, <1>2, <1>3 DEF IInv

-----------------------------------------------------------------------------
(* What the step of a thread does to the node of another: thread_create    *)
(* makes it, thread_kill ends it, wakeup_lock wakes it, cleanup frees it.   *)
Touched(m, n) ==
  /\ n.chan = m.chan
  /\ \/ n.state = m.state /\ n.ctx = m.ctx
     \/ n.state = "TERMINATED" /\ n.ctx = m.ctx
     \/ m.state = "UNBORN" /\ n.state = "RUNNABLE" /\ n.ctx = "new"
     \/ m.state = "SLEEPING" /\ n.state = "RUNNABLE" /\ n.ctx = m.ctx

(* What it does to its own: thread_exit, and the three of sleep_lock.      *)
Moved(m, n, f) ==
  \/ n = m
  \/ n.state = "TERMINATED" /\ n.ctx = m.ctx /\ n.chan = m.chan
  \/ n.state = "SLEEPING" /\ n.ctx = m.ctx /\ n.chan /\ m.state = "RUNNING"
  \/ n.state = m.state /\ n.ctx = "asleep" /\ n.chan = m.chan /\ f.op = "sleep" /\ f.at = "jump"
  \/ n.state = m.state /\ n.ctx = m.ctx /\ f.op = "relock"

(* What a step of a thread in its own code may do.                         *)
Moves(t) ==
  /\ \E at \in Ats : Step(t, at)
  /\ \A u \in Threads \ {t} : frame'[u] = frame[u] /\ Touched(node[u], node'[u])
  /\ \A u \in Threads \ {t} : node'[u].state = "TERMINATED" /\ node[u].state # "TERMINATED" =>
       frame[t].op = "kill" /\ frame[t].at = "sect"
  /\ Moved(node[t], node'[t], frame'[t])
  /\ run' = run \/ (frame[t].at = "jump" /\ ToScheduler /\ node' = node /\ frame' = frame)
  /\ frame'[t].at = "jump" /\ frame' # frame =>
       /\ sig' = sig
       /\ frame'[t].op = "sleep" => node'[t].ctx = "asleep"
       /\ frame'[t].op = "exit" => node'[t].state = "TERMINATED"
  /\ sig'.pending = sig.pending
  /\ fate' # "running" => frame'[t].at # "xchg"
  /\ \A u \in Threads :
       Contains(list, u) /\ node[u].state # "TERMINATED" => Contains(list', u)

(* Nobody comes back from TERMINATED.                                      *)
Stays == \A u \in Threads : node[u].state = "TERMINATED" => node'[u].state = "TERMINATED"

(* A step of the thread that executes its own code keeps the invariant if  *)
(* it keeps what is said of that thread.                                   *)
LEMMA OwnStep ==
  ASSUME IInv, TypeOK', NEW t \in Threads, fate = "running", run.cpu = t, run.at = "own", run' = run,
         \A u \in Threads \ {t} : frame'[u] = frame[u],
         \A u \in Threads \ {t}, l \in {"tl", "lk"} : own'[l] = u <=> own[l] = u,
         \A u \in Threads : node[u].state = "TERMINATED" => node'[u].state = "TERMINATED",
         \A u \in Threads \ {t} : node'[u].ctx = "asleep" => node[u].ctx = "asleep",
         \A u \in Threads : node'[u].freed =>
           node[u].freed \/ (u # t /\ node[u].state = "TERMINATED"),
         Contains(list', t), Local(t)'
  PROVE  IInv'
<1>1. TypeOK /\ Processor /\ run.curr = t /\ t # Sched
  BY Constants DEF IInv, Processor, CurrRuns
<1>2. ~ node[t].freed
  BY <1>1 DEF Processor, CurrRuns
<1>3. Processor'
  BY <1>1, <1>2 DEF Processor, CurrRuns
<1>4. ASSUME NEW u \in Threads, u # t PROVE Local(u)'
  <2>1. Local(u) /\ frame'[u] = frame[u]
    BY <1>4 DEF IInv
  <2>2. Args(u)'
    <3>1. frame[u] \in Frames
      BY <1>1 DEF TypeOK
    <3>2. Args(u) /\ (frame[u].op = "clean" => frame[u].k \in Threads)
      BY <2>1 DEF Local, Args
    <3>3. QED
      BY <1>4, <2>1, <3>2 DEF Args, Places
  <2>3. Executing(u)'
    BY <1>4 DEF Executing
  <2>4. Open(frame[u])
    BY <1>4, <2>1 DEF Local, Masks
  <2>5. Masks(u)'
    BY <1>4, <2>1, <2>4 DEF Masks, Open
  <2>6. Locks(u)'
    BY <1>4, <2>1 DEF Local, Locks
  <2>7. QED
    BY <2>2, <2>3, <2>5, <2>6 DEF Local
<1>5. QED
  BY <1>3, <1>4 DEF IInv

(* A step of the scheduler or of the alarm handler, or one to or from a    *)
(* thread.                                                                 *)
LEMMA Switch ==
  ASSUME IInv, TypeOK', Processor', fate = "running", own' = own,
         \A u \in Threads :
           /\ Args(u)' /\ Executing(u)' /\ Masks(u)'
           /\ frame'[u].op = frame[u].op
           /\ frame'[u].at # frame[u].at =>
                {frame[u].at, frame'[u].at} \cap {"sect", "rel"} = {}
  PROVE  IInv'
<1>1. ASSUME NEW u \in Threads PROVE Locks(u)'
  <2>1. Locks(u) /\ frame'[u].op = frame[u].op
    BY DEF IInv, Local
  <2>2. frame'[u].at \in {"sect", "rel"} <=> frame[u].at \in {"sect", "rel"}
    OBVIOUS
  <2>3. own' = own /\ fate = "running"
    OBVIOUS
  <2>4. QED
    BY <2>1, <2>2, <2>3 DEF Locks, LockOf
<1>2. QED
  BY <1>1 DEF IInv, Local

(* An alarm is noted.                                                      *)
LEMMA AlarmStep == ASSUME IInv, Alarm PROVE IInv'
<1>1. /\ TypeOK /\ Processor /\ fate = "running"
      /\ UNCHANGED <<list, node, frame, own, mutex, run, post, fate, calls>>
      /\ sig' = [sig EXCEPT !.armed = FALSE, !.pending = TRUE]
  BY DEF IInv, Alarm
<1>2. /\ sig' \in [blocked : BOOLEAN, armed : BOOLEAN, pending : BOOLEAN]
      /\ sig'.blocked = sig.blocked /\ sig'.pending
  BY <1>1 DEF TypeOK
<1>3. TypeOK'
  BY <1>1, <1>2 DEF TypeOK
<1>4. Processor'
  BY <1>1 DEF Processor, CurrRuns
<1>5. ASSUME NEW u \in Threads
      PROVE  Args(u)' /\ Executing(u)' /\ Masks(u)'
  <2>1. Args(u) /\ Executing(u) /\ Masks(u)
    BY DEF IInv, Local
  <2>2. Args(u)' /\ Executing(u)'
    BY <1>1, <2>1 DEF Args, Executing, Places
  <2>3. Masks(u)'
    BY <1>1, <1>2, <2>1 DEF Masks, Open, Timed
  <2>4. QED
    BY <2>2, <2>3
<1>6. QED
  BY <1>1, <1>3, <1>4, <1>5, Switch

(* Whoever is interrupted has nothing blocked, and a thread is RUNNING.    *)
LEMMA InterruptStep == ASSUME IInv, signal_handler_alarm PROVE IInv'
<1>1. /\ TypeOK /\ Processor /\ fate = "running" /\ ~ sig.blocked
      /\ UNCHANGED <<list, frame, own, mutex, post, fate, calls>>
      /\ sig' = [blocked |-> TRUE, armed |-> FALSE, pending |-> FALSE]
      /\ run' = [run EXCEPT !.cpu = Sched, !.at = "disable"]
  BY DEF IInv, signal_handler_alarm, ToScheduler
<1>2. PICK c \in {"sched", "handler"} : node' = [node EXCEPT ![run.curr].ctx = c]
  BY DEF signal_handler_alarm
<1>3. /\ run' \in [cpu : Threads \cup {Sched}, curr : Threads, next : Threads,
              at : {"disable", "pick", "curr", "go", "own", "resumed", "raising"}]
      /\ run'.cpu = Sched /\ run'.at = "disable" /\ run'.curr = run.curr
  BY <1>1 DEF TypeOK
<1>4. /\ node' \in [Threads -> Nodes]
      /\ \A u \in Threads : /\ node'[u].state = node[u].state /\ node'[u].freed = node[u].freed
                            /\ node'[u].ctx \in {node[u].ctx, c}
  <2>1. node \in [Threads -> Nodes] /\ run.curr \in Threads
    BY <1>1 DEF TypeOK, Nodes
  <2>2. \A u \in Threads : node'[u] = IF u = run.curr THEN [node[u] EXCEPT !.ctx = c] ELSE node[u]
    BY <1>2, <2>1
  <2>3. ASSUME NEW x \in Nodes
        PROVE  /\ [x EXCEPT !.ctx = c] \in Nodes /\ [x EXCEPT !.ctx = c].state = x.state
               /\ [x EXCEPT !.ctx = c].freed = x.freed /\ [x EXCEPT !.ctx = c].ctx = c
    BY DEF Nodes
  <2>4. node' = [u \in Threads |-> node'[u]]
    BY <1>2, <2>1
  <2>5. ASSUME NEW u \in Threads
        PROVE  /\ node'[u] \in Nodes
               /\ node'[u].state = node[u].state /\ node'[u].freed = node[u].freed
               /\ node'[u].ctx \in {node[u].ctx, c}
    <3>1. node[u] \in Nodes
      BY <2>1
    <3>2. CASE u = run.curr
      BY <2>2, <2>3, <3>1, <3>2
    <3>3. CASE u # run.curr
      BY <2>2, <3>1, <3>3
    <3>4. QED
      BY <3>2, <3>3
  <2>6. node' \in [Threads -> Nodes]
    BY <2>4, <2>5
  <2>7. QED
    BY <2>5, <2>6
<1>5. TypeOK'
  BY <1>1, <1>3, <1>4 DEF TypeOK, Nodes
<1>6. Processor'
  BY <1>1, <1>3, <1>4 DEF Processor, CurrRuns, TypeOK
<1>7. ASSUME NEW u \in Threads
      PROVE  Args(u)' /\ Executing(u)' /\ Masks(u)'
  <2>1. Args(u) /\ Masks(u) /\ Sched # u /\ frame[u] \in Frames
    BY <1>1, Constants DEF IInv, Local, TypeOK
  <2>2. Args(u)'
    <3>1. frame[u].op = "clean" => frame[u].k \in Threads
      BY <2>1 DEF Args
    <3>2. QED
      BY <1>1, <1>4, <2>1, <3>1 DEF Args, Places
  <2>3. Executing(u)'
    BY <1>3, <2>1 DEF Executing
  <2>4. Masks(u)'
    BY <1>1, <1>3, <2>1 DEF Masks, Open
  <2>5. QED
    BY <2>2, <2>3, <2>4
<1>8. QED
  BY <1>1, <1>5, <1>6, <1>7, Switch

(* A thread back in its handler is RUNNING, and the alarm is open at the   *)
(* place it was interrupted at.                                            *)
LEMMA HandlerStep == ASSUME IInv, NEW t \in Threads, handle_pending_signals(t) PROVE IInv'
<1>1. /\ TypeOK /\ Processor /\ fate = "running" /\ run.cpu = t
      /\ run.at \in {"resumed", "raising"}
      /\ UNCHANGED <<list, node, frame, own, mutex, fate, calls>>
  BY DEF IInv, handle_pending_signals, Executes
<1>2. /\ sig' \in [blocked : BOOLEAN, armed : BOOLEAN, pending : BOOLEAN]
      /\ run' \in [cpu : Threads \cup {Sched}, curr : Threads, next : Threads,
              at : {"disable", "pick", "curr", "go", "own", "resumed", "raising"}]
      /\ run'.cpu = t /\ run'.curr = run.curr /\ run'.at \in {"raising", "own"}
      /\ run'.at = "own" => ~ sig'.blocked /\ sig'.armed
  BY <1>1, ZenonT(40) DEF TypeOK, handle_pending_signals, Disarmed, Unmasked
<1>3. /\ post' \in [cnt : [Threads -> Int], loops : [Threads -> Seq(Int)]]
      /\ run'.at = "raising" => post'.loops[t] # <<>>
  <2> DEFINE q == post.loops[t]
  <2>1. post \in [cnt : [Threads -> Int], loops : [Threads -> Seq(Int)]]
    BY <1>1 DEF TypeOK
  <2>2. q \in Seq(Int) /\ post.cnt[t] \in Int
    BY <2>1
  <2>3. CASE /\ run.at = "resumed"
             /\ post' = [post EXCEPT !.loops[t] = Append(@, post.cnt[t])]
    <3>1. Append(q, post.cnt[t]) \in Seq(Int) /\ Append(q, post.cnt[t]) # <<>>
      BY <2>2
    <3>2. QED
      BY <2>1, <2>3, <3>1
  <2>4. ASSUME run.at = "raising"
        PROVE  Front(q) \in Seq(Int) /\ Last(q) \in Int /\ Len(q) \in Nat
               /\ (Len(q) > 1 => Front(q) # <<>>)
    <3>1. q # <<>>
      BY <1>1, <2>4 DEF Processor
    <3>2. Len(q) \in Nat /\ Len(q) > 0 /\ q[Len(q)] \in Int
      BY <2>2, <3>1
    <3>3. Front(q) \in Seq(Int) /\ Len(Front(q)) = Len(q) - 1
      BY <2>2, <3>2 DEF Front
    <3>4. QED
      BY <3>2, <3>3 DEF Last
  <2>5. CASE /\ run.at = "raising" /\ run'.at = "raising"
             /\ post' = [post EXCEPT !.cnt[t] = @ - 1, !.loops[t] = Front(@) \o <<Last(q) - 1>>]
    <3>1. PICK l \in Seq(Int) : l = Front(q) \o <<Last(q) - 1>> /\ l # <<>>
      <4>1. PICK f \in Seq(Int), x \in Int : f = Front(q) /\ x = Last(q) - 1
        BY <2>4, <2>5
      <4>2. <<x>> \in Seq(Int) /\ Len(<<x>>) = 1 /\ Len(f) \in Nat
        OBVIOUS
      <4>3. f \o <<x>> \in Seq(Int) /\ Len(f \o <<x>>) = Len(f) + 1
        BY <4>2, ConcatProperties
      <4>4. f \o <<x>> # <<>>
        BY <4>2, <4>3
      <4>5. QED
        BY <4>1, <4>3, <4>4
    <3>2. PICK i \in Int : i = post.cnt[t] - 1
      BY <2>2
    <3>3. post' = [post EXCEPT !.cnt[t] = i, !.loops[t] = l]
      BY <2>5, <3>1, <3>2
    <3>4. /\ [post.cnt EXCEPT ![t] = i] \in [Threads -> Int]
          /\ [post.loops EXCEPT ![t] = l] \in [Threads -> Seq(Int)]
      BY <2>1
    <3>5. /\ post'.cnt = [post.cnt EXCEPT ![t] = i] /\ post'.loops = [post.loops EXCEPT ![t] = l]
          /\ post' \in [cnt : {post'.cnt}, loops : {post'.loops}]
      BY <2>1, <3>3
    <3>6. post'.loops[t] # <<>>
      BY <2>1, <3>1, <3>5
    <3>7. QED
      BY <3>4, <3>5, <3>6
  <2>6. CASE /\ run.at = "raising"
             /\ post' = [post EXCEPT !.loops[t] = Front(@)]
             /\ run' = [run EXCEPT !.at = IF Len(q) > 1 THEN "raising" ELSE "own"]
    <3>1. PICK l \in Seq(Int) : l = Front(q) /\ (Len(q) > 1 => l # <<>>)
      BY <2>4, <2>6
    <3>2. post' = [post EXCEPT !.loops[t] = l]
      BY <2>6, <3>1
    <3>3. run'.at = "raising" => l # <<>>
      BY <1>1, <2>6, <3>1 DEF TypeOK
    <3>4. QED
      BY <2>1, <3>1, <3>2, <3>3
  <2> HIDE DEF q
  <2>7. QED
    BY <2>3, <2>5, <2>6 DEF handle_pending_signals, q
<1>4. TypeOK'
  BY <1>1, <1>2, <1>3 DEF TypeOK
<1>5. Processor'
  BY <1>1, <1>2, <1>3, Constants DEF Processor, CurrRuns
<1>6. ASSUME NEW u \in Threads
      PROVE  Args(u)' /\ Executing(u)' /\ Masks(u)'
  <2>1. Args(u) /\ Executing(u) /\ Masks(u)
    BY DEF IInv, Local
  <2>2. Args(u)' /\ Executing(u)'
    BY <1>1, <1>2, <2>1 DEF Args, Executing, Places
  <2>3. Masks(u)'
    BY <1>1, <1>2, <2>1 DEF Masks, Open
  <2>4. QED
    BY <2>2, <2>3
<1>7. QED
  BY <1>1, <1>4, <1>5, <1>6, Switch

-----------------------------------------------------------------------------
(* The scheduler.  What a step that changes no frame keeps of the frames.  *)
LEMMA SchedulerRuns ==
  ASSUME IInv, run.cpu = Sched, NEW u \in Threads
  PROVE  /\ Args(u) /\ Open(frame[u]) /\ run.cpu # u /\ frame[u] \in Frames
         /\ frame[u].op = "clean" => frame[u].k \in Threads
<1>1. Args(u) /\ Masks(u) /\ run.cpu # u /\ frame[u] \in Frames
  BY Constants DEF IInv, Local, TypeOK
<1>2. QED
  BY <1>1 DEF Masks, Args

(* The types of a run and of a signal.                                     *)
Runs == [cpu : Threads \cup {Sched}, curr : Threads, next : Threads,
         at : {"disable", "pick", "curr", "go", "own", "resumed", "raising"}]
Sigs == [blocked : BOOLEAN, armed : BOOLEAN, pending : BOOLEAN]

(* The alarm is blocked, and the walk begins.                              *)
LEMMA DisableStep ==
  ASSUME IInv, run.cpu = Sched, run.at = "disable", fate = "running",
         sig' = Masked, run' = [run EXCEPT !.at = "pick"],
         UNCHANGED <<node, frame, fate, list, own, mutex, post, calls>>
  PROVE  IInv'
<1>1. TypeOK /\ Processor
  BY DEF IInv
<1>2. /\ run' \in Runs /\ sig' \in Sigs
      /\ run'.cpu = Sched /\ run'.at = "pick" /\ run'.curr = run.curr
  BY <1>1 DEF TypeOK, Runs, Sigs, Masked
<1>3. TypeOK'
  BY <1>1, <1>2 DEF TypeOK, Runs, Sigs
<1>4. Processor'
  BY <1>1, <1>2 DEF Processor, CurrRuns
<1>5. ASSUME NEW u \in Threads
      PROVE  Args(u)' /\ Executing(u)' /\ Masks(u)'
  <2>1. Args(u) /\ Open(frame[u]) /\ run.cpu # u
    BY SchedulerRuns
  <2>2. Args(u)'
    BY <2>1 DEF Args, Places
  <2>3. Executing(u)' /\ Masks(u)'
    BY <1>2, <2>1 DEF Executing, Masks, Open
  <2>4. QED
    BY <2>2, <2>3
<1>6. QED
  BY <1>3, <1>4, <1>5, Switch

(* A running thread becomes runnable, and nothing else changes.            *)
LEMMA RequeuedKeeps ==
  ASSUME node \in [Threads -> Nodes], run.curr \in Threads
  PROVE  /\ Requeued \in [Threads -> Nodes]
         /\ \A u \in Threads :
              /\ Requeued[u].freed = node[u].freed /\ Requeued[u].ctx = node[u].ctx
              /\ Requeued[u].chan = node[u].chan
              /\ \/ Requeued[u].state = node[u].state
                 \/ /\ u = run.curr /\ node[u].state = "RUNNING"
                    /\ Requeued[u].state = "RUNNABLE"
<1>1. CASE node[run.curr].state # "RUNNING"
  BY <1>1 DEF Requeued
<1>2. CASE node[run.curr].state = "RUNNING"
  <2>1. Requeued = [node EXCEPT ![run.curr].state = "RUNNABLE"]
    BY <1>2 DEF Requeued
  <2>2. ASSUME NEW x \in Nodes
        PROVE  /\ [x EXCEPT !.state = "RUNNABLE"] \in Nodes
               /\ [x EXCEPT !.state = "RUNNABLE"].freed = x.freed
               /\ [x EXCEPT !.state = "RUNNABLE"].ctx = x.ctx
               /\ [x EXCEPT !.state = "RUNNABLE"].chan = x.chan
               /\ [x EXCEPT !.state = "RUNNABLE"].state = "RUNNABLE"
    BY DEF Nodes
  <2>3. \A u \in Threads :
          Requeued[u] = IF u = run.curr THEN [node[u] EXCEPT !.state = "RUNNABLE"] ELSE node[u]
    BY <2>1
  <2>4. Requeued = [u \in Threads |-> Requeued[u]]
    BY <2>1
  <2>5. ASSUME NEW u \in Threads
        PROVE  /\ Requeued[u] \in Nodes
               /\ Requeued[u].freed = node[u].freed /\ Requeued[u].ctx = node[u].ctx
               /\ Requeued[u].chan = node[u].chan
               /\ \/ Requeued[u].state = node[u].state
                  \/ /\ u = run.curr /\ node[u].state = "RUNNING"
                     /\ Requeued[u].state = "RUNNABLE"
    <3>1. node[u] \in Nodes
      OBVIOUS
    <3>2. CASE u = run.curr
      BY <1>2, <2>2, <2>3, <3>1, <3>2
    <3>3. CASE u # run.curr
      BY <2>3, <3>1, <3>3
    <3>4. QED
      BY <3>2, <3>3
  <2>6. Requeued \in [Threads -> Nodes]
    BY <2>4, <2>5
  <2>7. QED
    BY <2>5, <2>6
<1>3. QED
  BY <1>1, <1>2

(* A runnable thread of the list is chosen.                                *)
LEMMA PickStep ==
  ASSUME IInv, run.cpu = Sched, run.at = "pick", fate = "running",
         NEW q \in Runnable, run' = [run EXCEPT !.next = q, !.at = "curr"],
         node' = Requeued, sig' = Unmasked,
         UNCHANGED <<frame, fate, list, own, mutex, post, calls>>
  PROVE  IInv'
<1>1. TypeOK /\ Processor
  BY DEF IInv
<1>2. q \in Threads /\ Contains(list, q) /\ Requeued[q].state = "RUNNABLE"
  BY DEF Runnable
<1>3. /\ run' \in Runs /\ sig' \in Sigs
      /\ run'.cpu = Sched /\ run'.at = "curr" /\ run'.curr = run.curr /\ run'.next = q
  BY <1>1, <1>2 DEF TypeOK, Runs, Sigs, Unmasked
<1>4. /\ node' \in [Threads -> Nodes]
      /\ \A u \in Threads :
           /\ node'[u].freed = node[u].freed /\ node'[u].ctx = node[u].ctx
           /\ \/ node'[u].state = node[u].state
              \/ node[u].state = "RUNNING"
  BY <1>1, RequeuedKeeps DEF TypeOK, Nodes
<1>5. TypeOK'
  BY <1>1, <1>3, <1>4 DEF TypeOK, Runs, Sigs, Nodes
<1>6. Processor'
  <2>1. run.curr \in Threads
    BY <1>1 DEF TypeOK
  <2>2. CurrRuns'
    BY <1>1, <1>3, <1>4, <2>1 DEF Processor, CurrRuns
  <2>3. QED
    BY <1>2, <1>3, <2>2 DEF Processor
<1>7. ASSUME NEW u \in Threads
      PROVE  Args(u)' /\ Executing(u)' /\ Masks(u)'
  <2>1. /\ Args(u) /\ Open(frame[u]) /\ run.cpu # u
        /\ frame[u].op = "clean" => frame[u].k \in Threads
    BY SchedulerRuns
  <2>2. Args(u)'
    BY <1>4, <2>1 DEF Args, Places
  <2>3. Executing(u)' /\ Masks(u)'
    BY <1>3, <2>1 DEF Executing, Masks, Open
  <2>4. QED
    BY <2>2, <2>3
<1>8. QED
  BY <1>5, <1>6, <1>7, Switch

(* curr_running_proc is the chosen thread.                                 *)
LEMMA CurrStep ==
  ASSUME IInv, run.cpu = Sched, run.at = "curr", fate = "running",
         run' = [run EXCEPT !.curr = run.next, !.at = "go"],
         UNCHANGED <<node, frame, sig, fate, list, own, mutex, post, calls>>
  PROVE  IInv'
<1>1. TypeOK /\ Processor
  BY DEF IInv
<1>2. /\ run' \in Runs /\ run.next \in Threads
      /\ run'.cpu = Sched /\ run'.at = "go" /\ run'.curr = run.next
  BY <1>1 DEF TypeOK, Runs
<1>3. TypeOK'
  BY <1>1, <1>2 DEF TypeOK, Runs
<1>4. Processor'
  <2>1. Contains(list, run.next) /\ node[run.next].state = "RUNNABLE"
    BY <1>1 DEF Processor
  <2>2. ~ node[run.next].freed
    BY <1>2, <2>1, SchedulerRuns DEF Args
  <2>3. QED
    BY <1>2, <2>1, <2>2 DEF Processor, CurrRuns
<1>5. ASSUME NEW u \in Threads
      PROVE  Args(u)' /\ Executing(u)' /\ Masks(u)'
  <2>1. Args(u) /\ Open(frame[u]) /\ run.cpu # u
    BY SchedulerRuns
  <2>2. Args(u)'
    BY <2>1 DEF Args, Places
  <2>3. Executing(u)' /\ Masks(u)'
    BY <1>2, <2>1 DEF Executing, Masks, Open
  <2>4. QED
    BY <2>2, <2>3
<1>6. QED
  BY <1>3, <1>4, <1>5, Switch

(* What becomes of the node the scheduler jumps to.                        *)
LEMMA GoNode ==
  ASSUME node \in [Threads -> Nodes], NEW t \in Threads,
         node' = [node EXCEPT ![t].state = "RUNNING", ![t].ctx = "stale"]
  PROVE  /\ node' \in [Threads -> Nodes]
         /\ \A u \in Threads \ {t} : node'[u] = node[u]
         /\ node'[t].state = "RUNNING" /\ node'[t].ctx = "stale"
         /\ node'[t].freed = node[t].freed /\ node'[t].chan = node[t].chan
<1> DEFINE x == [node[t] EXCEPT !.state = "RUNNING", !.ctx = "stale"]
<1>1. /\ x \in Nodes /\ x.state = "RUNNING" /\ x.ctx = "stale"
      /\ x.freed = node[t].freed /\ x.chan = node[t].chan
  BY DEF Nodes
<1>2. node' = [node EXCEPT ![t] = x]
  OBVIOUS
<1> HIDE DEF x
<1>3. QED
  BY <1>1, <1>2

(* The jump.                                                               *)
LEMMA GoStep ==
  ASSUME IInv, run.cpu = Sched, run.at = "go", fate = "running",
         NEW t, t = run.curr, NEW ctx, ctx = node[t].ctx,
         node' = [node EXCEPT ![t].state = "RUNNING", ![t].ctx = "stale"],
         sig' = [blocked |-> ctx = "handler", armed |-> TRUE, pending |-> FALSE],
         IF ctx = "asleep" THEN GoAt(t, "tidy") ELSE UNCHANGED frame,
         IF ctx \in {"sched", "stale"}
           THEN fate' = "lost" /\ UNCHANGED run
           ELSE /\ run' = [run EXCEPT !.cpu = t, !.at = IF ctx = "handler" THEN "resumed" ELSE "own"]
                /\ UNCHANGED fate,
         UNCHANGED <<list, own, mutex, post, calls>>
  PROVE  IInv'
<1>1. TypeOK /\ Processor /\ t \in Threads /\ node[t].state = "RUNNABLE"
  BY DEF IInv, TypeOK, Processor
<1>2. /\ node' \in [Threads -> Nodes]
      /\ \A u \in Threads \ {t} : node'[u] = node[u]
      /\ node'[t].state = "RUNNING" /\ node'[t].ctx = "stale"
      /\ node'[t].freed = node[t].freed
  BY <1>1, GoNode DEF TypeOK, Nodes
<1>3. /\ frame' \in [Threads -> Frames] /\ \A u \in Threads \ {t} : frame'[u] = frame[u]
      /\ frame'[t].op = frame[t].op /\ frame'[t].k = frame[t].k
      /\ frame'[t].at = IF ctx = "asleep" THEN "tidy" ELSE frame[t].at
  BY <1>1, GoAtKeeps DEF TypeOK, Ats
<1>4. /\ Args(t) /\ Open(frame[t]) /\ t # Sched
      /\ frame[t].op = "clean" => frame[t].k \in Threads
      /\ ~ node[t].freed
  BY <1>1, SchedulerRuns, Constants DEF Args
<1>5. /\ run' \in Runs /\ run'.curr = t
      /\ \/ run'.cpu = Sched /\ run'.at = "go" /\ fate' = "lost"
         \/ /\ run'.cpu = t /\ run'.at \in {"resumed", "own"} /\ fate' = "running"
            /\ run'.at = "own" => ctx # "handler"
  <2>1. run \in Runs
    BY <1>1 DEF TypeOK, Runs
  <2>2. CASE ctx \in {"sched", "stale"}
    <3>1. run' = run /\ fate' = "lost"
      BY <2>2
    <3>2. QED
      BY <2>1, <3>1
  <2>3. CASE ctx \notin {"sched", "stale"}
    <3>1. PICK a \in {"resumed", "own"} : /\ a = (IF ctx = "handler" THEN "resumed" ELSE "own")
                                         /\ (a = "own" => ctx # "handler")
      OBVIOUS
    <3>2. run' = [run EXCEPT !.cpu = t, !.at = a] /\ fate' = "running"
      BY <2>3, <3>1
    <3>3. QED
      BY <1>1, <2>1, <3>1, <3>2 DEF Runs
  <2>4. QED
    BY <2>2, <2>3
<1>6. sig' \in Sigs /\ sig'.armed /\ (ctx # "handler" => ~ sig'.blocked)
  BY DEF Sigs
<1>7. TypeOK'
  BY <1>1, <1>2, <1>3, <1>5, <1>6 DEF TypeOK, Runs, Sigs, Nodes
<1>8. Processor'
  BY <1>1, <1>2, <1>4, <1>5 DEF Processor, CurrRuns
<1>9. ctx = "asleep" => frame[t].op = "sleep" /\ frame[t].at = "jump"
  BY <1>4 DEF Args
<1>10. ASSUME NEW u \in Threads
       PROVE  Args(u)' /\ Executing(u)' /\ Masks(u)'
  <2>1. CASE u # t
    <3>1. /\ Args(u) /\ Open(frame[u]) /\ run.cpu # u
          /\ frame[u].op = "clean" => frame[u].k \in Threads
      BY SchedulerRuns
    <3>2. frame'[u] = frame[u] /\ node'[u] = node[u]
      BY <1>2, <1>3, <2>1
    <3>3. frame[u].op = "clean" => node'[frame[u].k].state = "TERMINATED"
      BY <1>1, <1>2, <3>1 DEF Args
    <3>4. Args(u)'
      BY <3>1, <3>2, <3>3 DEF Args, Places
    <3>5. Executing(u)' /\ Masks(u)'
      BY <1>5, <2>1, <3>1, <3>2, Constants DEF Executing, Masks, Open
    <3>6. QED
      BY <3>4, <3>5
  <2>2. Args(t)'
    <3>1. frame[t].op = "clean" => node'[frame[t].k].state = "TERMINATED"
      BY <1>1, <1>2, <1>4 DEF Args
    <3>2. Places(frame'[t])
      BY <1>3, <1>4, <1>9 DEF Args, Places
    <3>3. QED
      BY <1>2, <1>3, <1>4, <1>9, <3>1, <3>2 DEF Args
  <2>3. Executing(t)'
    BY <1>2 DEF Executing
  <2>4. Masks(t)'
    <3>1. Open(frame'[t])
      BY <1>3, <1>4 DEF Open
    <3>2. QED
      BY <1>5, <1>6, <3>1 DEF Masks
  <2>5. QED
    BY <2>1, <2>2, <2>3, <2>4
<1>11. ASSUME NEW u \in Threads
       PROVE  /\ frame'[u].op = frame[u].op
              /\ frame'[u].at # frame[u].at => {frame[u].at, frame'[u].at} \cap {"sect", "rel"} = {}
  BY <1>3, <1>9
<1>12. QED
  BY <1>7, <1>8, <1>10, <1>11, Switch

(* The scheduler.                                                          *)
LEMMA SchedulerStep == ASSUME IInv, scheduler PROVE IInv'
<1>1. run.cpu = Sched /\ fate = "running" /\ UNCHANGED <<list, own, mutex, post, calls>>
  BY DEF scheduler, Executes
<1>2. CASE run.at = "disable"
  BY <1>1, <1>2, DisableStep DEF scheduler
<1>3. CASE run.at = "pick"
  BY <1>1, <1>3, PickStep DEF scheduler
<1>4. CASE run.at = "curr"
  BY <1>1, <1>4, CurrStep DEF scheduler
<1>5. CASE run.at = "go"
  BY <1>1, <1>5, GoStep DEF scheduler
<1>6. QED
  BY <1>2, <1>3, <1>4, <1>5 DEF scheduler

-----------------------------------------------------------------------------
(* The bounded calls, and the user signals.                                *)
Calls == [id : Int, joins : 0 .. MaxJoins, kills : 0 .. MaxKills, sigs : 0 .. MaxSigs]
Posts == [cnt : [Threads -> Int], loops : [Threads -> Seq(Int)]]

(* One more call stays in the bounds.                                      *)
LEMMA OneMoreCall ==
  ASSUME calls \in Calls
  PROVE  /\ calls.joins < MaxJoins => [calls EXCEPT !.joins = @ + 1] \in Calls
         /\ calls.kills < MaxKills => [calls EXCEPT !.kills = @ + 1] \in Calls
         /\ calls.sigs < MaxSigs => [calls EXCEPT !.sigs = @ + 1] \in Calls
         /\ \A i \in Int : [calls EXCEPT !.id = i] \in Calls
<1>1. calls.joins \in 0 .. MaxJoins /\ calls.kills \in 0 .. MaxKills /\ calls.sigs \in 0 .. MaxSigs
  BY DEF Calls
<1>2. calls.joins < MaxJoins => calls.joins + 1 \in 0 .. MaxJoins
  BY <1>1, Constants
<1>3. calls.kills < MaxKills => calls.kills + 1 \in 0 .. MaxKills
  BY <1>1, Constants
<1>4. calls.sigs < MaxSigs => calls.sigs + 1 \in 0 .. MaxSigs
  BY <1>1, Constants
<1>5. QED
  BY <1>1, <1>2, <1>3, <1>4 DEF Calls

(* A thread at a step of its own code.                                     *)
LEMMA OwnCode ==
  ASSUME IInv, NEW t \in Threads, NEW at, Step(t, at)
  PROVE  /\ TypeOK /\ fate = "running" /\ run.cpu = t /\ run.at = "own" /\ run.curr = t
         /\ frame[t].at = at /\ frame \in [Threads -> Frames] /\ frame[t] \in Frames
         /\ node \in [Threads -> Nodes] /\ sig \in Sigs
         /\ Contains(list, t) /\ Args(t) /\ Executing(t) /\ Masks(t) /\ Locks(t)
         /\ at \notin {"rel", "done", "jump"} => node[t].state = "RUNNING"
         /\ at # "jump" => node[t].ctx # "asleep"
<1>1. /\ TypeOK /\ fate = "running" /\ run.cpu = t /\ run.at = "own" /\ frame[t].at = at
      /\ Local(t) /\ Processor /\ t # Sched
  BY Constants DEF IInv, Step, Executes
<1>2. run.curr = t /\ Contains(list, t)
  BY <1>1 DEF Processor, CurrRuns
<1>3. /\ frame \in [Threads -> Frames] /\ frame[t] \in Frames
      /\ node \in [Threads -> Nodes] /\ sig \in Sigs
  BY <1>1 DEF TypeOK, Nodes, Sigs
<1>4. Args(t) /\ Executing(t) /\ Masks(t) /\ Locks(t)
  BY <1>1 DEF Local
<1>5. QED
  BY <1>1, <1>2, <1>3, <1>4 DEF Args, Executing

(* A step of t that changes no node and not the list.                      *)
LEMMA FrameStep ==
  ASSUME IInv, TypeOK', NEW t \in Threads, NEW at, Step(t, at), run' = run, node' = node, list' = list,
         \A u \in Threads \ {t} : frame'[u] = frame[u],
         \A u \in Threads \ {t}, l \in {"tl", "lk"} : own'[l] = u <=> own[l] = u,
         Args(t)', Executing(t)', Masks(t)', Locks(t)',
         at \in Ats, sig'.pending = sig.pending, frame'[t].at # "jump",
         fate' # "running" => frame'[t].at # "xchg"
  PROVE  IInv' /\ Moves(t)
<1>1. fate = "running" /\ run.cpu = t /\ run.at = "own" /\ Contains(list, t)
  BY OwnCode
<1>2. Local(t)'
  BY DEF Local
<1>3. IInv'
  BY <1>1, <1>2, OwnStep
<1>4. Moves(t)
  BY DEF Moves, Touched, Moved
<1>5. QED
  BY <1>3, <1>4

(* A call from the program, into a frame outside the locks.                *)
LEMMA CallStep ==
  ASSUME IInv, TypeOK', NEW t \in Threads, Step(t, "idle"), NEW f \in Frames, Goto(t, f),
         run' = run, node' = node, list' = list, own' = own, sig'.blocked = sig.blocked,
         sig'.pending = sig.pending, fate' = fate,
         Places(f), f.at \in {"block", "state", "done", "id"},
         f.op \notin {"none", "clean", "wake"}, f.op = "create" => f.at = "id",
         f.op = "join" \/ (f.op \in {"kill", "post"} /\ f.at # "done") => f.k \in Threads \ {t}
  PROVE  IInv' /\ Moves(t)
<1>1. /\ frame \in [Threads -> Frames] /\ frame[t].at = "idle" /\ frame[t].op = "none"
      /\ fate = "running" /\ run.cpu = t /\ run.at = "own"
      /\ Args(t) /\ Masks(t) /\ Locks(t) /\ node[t].state = "RUNNING" /\ node[t].ctx # "asleep"
  BY OwnCode DEF Args, Places, Locked
<1>2. frame'[t] = f /\ \A u \in Threads \ {t} : frame'[u] = frame[u]
  BY <1>1, GotoKeeps
<1>3. Args(t)'
  BY <1>1, <1>2 DEF Args
<1>4. Executing(t)'
  BY <1>1 DEF Executing
<1>5. Masks(t)'
  BY <1>1, <1>2 DEF Masks, Open, Timed
<1>6. Locks(t)'
  BY <1>1, <1>2 DEF Locks
<1>7. f.at # "jump" /\ "idle" \in Ats
  BY DEF Ats
<1>8. QED
  BY <1>1, <1>2, <1>3, <1>4, <1>5, <1>6, <1>7, FrameStep

(* The calls that only start.                                              *)
LEMMA CallJoinStep == ASSUME IInv, NEW t \in Threads, NEW k \in Threads, CallJoin(t, k) PROVE IInv' /\ Moves(t)
<1>1. /\ TypeOK /\ frame \in [Threads -> Frames] /\ Step(t, "idle") /\ t # k
      /\ Goto(t, Locking("join", k)) /\ calls.joins < MaxJoins
      /\ calls' = [calls EXCEPT !.joins = @ + 1]
      /\ UNCHANGED <<list, node, own, mutex, run, sig, post, fate>>
  BY DEF IInv, TypeOK, CallJoin, At
<1>2. /\ Locking("join", k) \in Frames /\ Locking("join", k).op = "join"
      /\ Locking("join", k).at = "block" /\ Locking("join", k).k = k
  BY LockingFrame DEF Ops
<1>3. calls' \in Calls
  <2>1. calls \in Calls
    BY <1>1 DEF TypeOK, Calls
  <2>2. QED
    BY <1>1, <2>1, OneMoreCall
<1>4. TypeOK'
  BY <1>1, <1>2, <1>3, GotoKeeps DEF TypeOK, Calls
<1>5. QED
  BY <1>1, <1>2, <1>4, CallStep DEF Places, Locked

(* The end of a thread.                                                    *)
LEMMA ExitFrame ==
  ASSUME NEW f, f = [Idle EXCEPT !.op = "exit", !.at = "state"]
  PROVE  f \in Frames /\ f.op = "exit" /\ f.at = "state" /\ Places(f)
BY OtherFrame DEF Ops, Ats, Places

(* thread_exit, or the return to execute_me, starts.                       *)
LEMMA CallExitStep == ASSUME IInv, NEW t \in Threads, CallExit(t) PROVE IInv' /\ Moves(t)
<1>1. PICK f : f = [Idle EXCEPT !.op = "exit", !.at = "state"]
  OBVIOUS
<1>2. /\ TypeOK /\ frame \in [Threads -> Frames] /\ Step(t, "idle") /\ Goto(t, f)
      /\ UNCHANGED <<list, node, own, mutex, run, sig, post, fate, calls>>
  BY <1>1 DEF IInv, TypeOK, CallExit, At
<1>3. f \in Frames /\ f.op = "exit" /\ f.at = "state" /\ Places(f)
  BY <1>1, ExitFrame
<1>4. TypeOK'
  BY <1>2, <1>3, GotoKeeps DEF TypeOK
<1>5. QED
  BY <1>2, <1>3, <1>4, CallStep

(* The start of acquiresleep, or of releasesleep.                          *)
LEMMA CallMutexStep ==
  ASSUME IInv, NEW t \in Threads, NEW op \in {"lock", "unlock"}, At(t, "none", "idle"),
         Goto(t, Locking(op, NoTid)),
         UNCHANGED <<list, node, own, mutex, run, sig, post, fate, calls>>
  PROVE  IInv' /\ Moves(t)
<1>1. TypeOK /\ frame \in [Threads -> Frames] /\ Step(t, "idle")
  BY DEF IInv, TypeOK, At
<1>2. /\ Locking(op, NoTid) \in Frames /\ Locking(op, NoTid).op = op
      /\ Locking(op, NoTid).at = "block"
  BY LockingFrame DEF Ops
<1>3. TypeOK'
  BY <1>1, <1>2, GotoKeeps DEF TypeOK
<1>4. QED
  BY <1>1, <1>2, <1>3, CallStep DEF Places, Locked

(* thread_kill with SIGTERM.                                               *)
LEMMA CallKillStep == ASSUME IInv, NEW t \in Threads, NEW k \in Threads, CallKill(t, k) PROVE IInv' /\ Moves(t)
<1>1. PICK f : f = IF k = t THEN [Idle EXCEPT !.op = "exit", !.at = "state"] ELSE Locking("kill", k)
  OBVIOUS
<1>2. /\ TypeOK /\ frame \in [Threads -> Frames] /\ Step(t, "idle")
      /\ Goto(t, f) /\ calls.kills < MaxKills /\ sig' = Disarmed
      /\ calls' = [calls EXCEPT !.kills = @ + 1]
      /\ UNCHANGED <<list, node, own, mutex, run, post, fate>>
  BY <1>1 DEF IInv, TypeOK, CallKill, At
<1>3. CASE k = t
  <2>1. f \in Frames /\ f.op = "exit" /\ f.at = "state" /\ Places(f)
    BY <1>1, <1>3, ExitFrame
  <2>2. sig' \in Sigs /\ sig'.blocked = sig.blocked /\ sig'.pending = sig.pending
    BY <1>2 DEF TypeOK, Sigs, Disarmed
  <2>3. calls' \in Calls
    <3>1. calls \in Calls
      BY <1>2 DEF TypeOK, Calls
    <3>2. QED
      BY <1>2, <3>1, OneMoreCall
  <2>4. TypeOK'
    BY <1>2, <2>1, <2>2, <2>3, GotoKeeps DEF TypeOK, Sigs, Calls, Posts
  <2>5. QED
    BY <1>2, <2>1, <2>2, <2>4, CallStep
<1>4. CASE k # t
  <2>1. f \in Frames /\ f.op = "kill" /\ f.at = "block" /\ f.k = k
    BY <1>1, <1>4, LockingFrame DEF Ops
  <2>2. sig' \in Sigs /\ sig'.blocked = sig.blocked /\ sig'.pending = sig.pending
    BY <1>2 DEF TypeOK, Sigs, Disarmed
  <2>3. calls' \in Calls
    <3>1. calls \in Calls
      BY <1>2 DEF TypeOK, Calls
    <3>2. QED
      BY <1>2, <3>1, OneMoreCall
  <2>4. TypeOK'
    BY <1>2, <2>1, <2>2, <2>3, GotoKeeps DEF TypeOK, Sigs, Calls, Posts
  <2>5. QED
    BY <1>2, <1>4, <2>1, <2>2, <2>4, CallStep DEF Places, Locked
<1>5. QED
  BY <1>3, <1>4

(* thread_kill with another signal.                                        *)
LEMMA CallPostStep == ASSUME IInv, NEW t \in Threads, NEW k \in Threads, CallPost(t, k) PROVE IInv' /\ Moves(t)
<1>1. PICK f : f = IF k = t THEN [Idle EXCEPT !.op = "kill", !.at = "done"] ELSE Locking("post", k)
  OBVIOUS
<1>2. /\ TypeOK /\ frame \in [Threads -> Frames] /\ Step(t, "idle")
      /\ Goto(t, f) /\ calls.sigs < MaxSigs /\ sig' = Disarmed
      /\ calls' = [calls EXCEPT !.sigs = @ + 1]
      /\ UNCHANGED <<list, node, own, mutex, run, post, fate>>
  BY <1>1 DEF IInv, TypeOK, CallPost, At
<1>3. calls' \in Calls
  <2>1. calls \in Calls
    BY <1>2 DEF TypeOK, Calls
  <2>2. QED
    BY <1>2, <2>1, OneMoreCall
<1>4. sig' \in Sigs /\ sig'.blocked = sig.blocked /\ sig'.pending = sig.pending
  BY <1>2 DEF TypeOK, Sigs, Disarmed
<1>5. /\ f \in Frames
      /\ \/ f.op = "kill" /\ f.at = "done"
         \/ f.op = "post" /\ f.at = "block" /\ f.k = k /\ k # t
  BY <1>1, OtherFrame, LockingFrame DEF Ops, Ats
<1>6. TypeOK'
  BY <1>2, <1>3, <1>4, <1>5, GotoKeeps DEF TypeOK, Sigs, Calls, Posts
<1>7. QED
  BY <1>2, <1>4, <1>5, <1>6, CallStep DEF Places, Locked

-----------------------------------------------------------------------------
(* The spinlocks.                                                          *)
LEMMA AcquireStep == ASSUME IInv, NEW t \in Threads, acquire(t) PROVE IInv' /\ Moves(t)
<1>1. PICK at \in {"block", "xchg"} : Step(t, at)
  BY DEF acquire
<1>2. /\ TypeOK /\ run.cpu = t /\ run.at = "own" /\ frame[t].at = at
      /\ frame \in [Threads -> Frames] /\ frame[t] \in Frames /\ sig \in Sigs
      /\ Args(t) /\ Masks(t) /\ Locks(t) /\ node[t].state = "RUNNING" /\ node[t].ctx # "asleep"
      /\ fate = "running"
      /\ own \in [{"tl", "lk"} -> Threads \cup {NoTid}] /\ LockOf(frame[t].op) \in {"tl", "lk"}
  BY <1>1, OwnCode DEF TypeOK, LockOf
<1>3. UNCHANGED <<list, node, mutex, run, post, fate, calls>>
  BY DEF acquire
<1>4. CASE at = "block" /\ sig' = Masked /\ GoAt(t, "xchg") /\ own' = own
  <2>1. /\ frame' \in [Threads -> Frames] /\ \A u \in Threads \ {t} : frame'[u] = frame[u]
        /\ frame'[t].at = "xchg" /\ frame'[t].op = frame[t].op /\ frame'[t].k = frame[t].k
    BY <1>2, <1>4, GoAtKeeps DEF Ats
  <2>2. sig' \in Sigs /\ sig'.blocked /\ sig'.pending = sig.pending
    BY <1>2, <1>4 DEF Sigs, Masked
  <2>3. TypeOK'
    BY <1>2, <1>3, <1>4, <2>1, <2>2 DEF TypeOK, Sigs
  <2>4. Args(t)'
    BY <1>2, <1>3, <1>4, <2>1 DEF Args, Places, Locked
  <2>5. Executing(t)' /\ Masks(t)'
    BY <1>2, <1>3, <2>1, <2>2 DEF Executing, Masks, Open, Timed
  <2>6. Locks(t)'
    BY <1>2, <1>3, <1>4, <2>1 DEF Locks
  <2>7. QED
    BY <1>1, <1>2, <1>3, <1>4, <2>1, <2>2, <2>3, <2>4, <2>5, <2>6, FrameStep DEF Ats
<1>5. CASE /\ at = "xchg" /\ own[LockOf(frame[t].op)] = NoTid
           /\ own' = [own EXCEPT ![LockOf(frame[t].op)] = t]
           /\ GoAt(t, "sect") /\ sig' = sig
  <2>1. /\ frame' \in [Threads -> Frames] /\ \A u \in Threads \ {t} : frame'[u] = frame[u]
        /\ frame'[t].at = "sect" /\ frame'[t].op = frame[t].op /\ frame'[t].k = frame[t].k
    BY <1>2, <1>5, GoAtKeeps DEF Ats
  <2>2. own' \in [{"tl", "lk"} -> Threads \cup {NoTid}]
    BY <1>2, <1>5
  <2>3. \A u \in Threads \ {t}, l \in {"tl", "lk"} : own'[l] = u <=> own[l] = u
    BY <1>2, <1>5, Constants
  <2>4. TypeOK'
    BY <1>2, <1>3, <1>5, <2>1, <2>2 DEF TypeOK
  <2>5. Args(t)'
    BY <1>2, <1>3, <1>5, <2>1 DEF Args, Places, Locked
  <2>6. Executing(t)' /\ Masks(t)'
    BY <1>2, <1>3, <1>5, <2>1 DEF Executing, Masks, Open, Timed
  <2>7. Locks(t)'
    BY <1>2, <1>3, <1>5, <2>1 DEF Locks, LockOf
  <2>8. QED
    BY <1>1, <1>2, <1>3, <1>5, <2>1, <2>3, <2>4, <2>5, <2>6, <2>7, FrameStep DEF Ats
<1>6. QED
  BY <1>1, <1>2, <1>3, <1>4, <1>5 DEF acquire, Step

(* A frame moved to another place.                                         *)
LEMMA MovedFrame ==
  ASSUME NEW f \in Frames, NEW at \in Ats, NEW g, g = [f EXCEPT !.at = at]
  PROVE  g \in Frames /\ g.at = at /\ g.op = f.op /\ g.k = f.k
BY DEF Frames, Ats

(* What follows a release, by operation.                                   *)
LEMMA AfterReleaseFrame ==
  ASSUME NEW f \in Frames, Places(f), f.at = "rel"
  PROVE  /\ AfterRelease(f) \in Frames /\ Places(AfterRelease(f))
         /\ AfterRelease(f).at \in {"idle", "wait", "load", "done", "rel"}
         /\ AfterRelease(f).op \in {"none", "join", "post", "unlocked", "clean", "kill", "sleep"}
         /\ AfterRelease(f).at # "idle" =>
              \/ AfterRelease(f).op = f.op /\ AfterRelease(f).k = f.k /\ AfterRelease(f).at # "rel"
              \/ f.op = "wake" /\ AfterRelease(f).op = "unlocked" /\ AfterRelease(f).at = "rel"
         /\ f.op = "wake" <=> AfterRelease(f).at = "rel"
         /\ f.op = "sleep" => AfterRelease(f).op = "sleep"
         /\ AfterRelease(f).op = "join" => AfterRelease(f).at = "wait"
         /\ AfterRelease(f).op \in {"clean", "kill", "sleep"} => AfterRelease(f).at = "done"
         /\ AfterRelease(f).op = "post" => AfterRelease(f).at \in {"load", "done"}
<1>1. CASE f.op \in {"create", "lock", "relock", "unlocked"}
  BY <1>1, IdleFrame DEF AfterRelease, Places
<1>2. CASE f.op = "join"
  <2>1. AfterRelease(f) = IF f.found THEN [f EXCEPT !.at = "wait"] ELSE Idle
    BY <1>2 DEF AfterRelease
  <2>2. PICK g : g = [f EXCEPT !.at = "wait"]
    OBVIOUS
  <2>3. g \in Frames /\ g.at = "wait" /\ g.op = f.op /\ g.k = f.k
    BY <2>2, MovedFrame DEF Ats
  <2>4. AfterRelease(f) = g \/ AfterRelease(f) = Idle
    BY <2>1, <2>2
  <2>5. QED
    BY <1>2, <2>3, <2>4, IdleFrame DEF Places
<1>3. CASE f.op = "wake"
  <2>1. AfterRelease(f) = [Idle EXCEPT !.op = "unlocked", !.at = "rel"]
    BY <1>3 DEF AfterRelease
  <2>2. AfterRelease(f) \in Frames /\ AfterRelease(f).op = "unlocked" /\ AfterRelease(f).at = "rel"
    BY <2>1, OtherFrame DEF Ops, Ats
  <2>3. QED
    BY <1>3, <2>2 DEF Places
<1>4. CASE f.op = "post" /\ f.found
  <2>1. AfterRelease(f) = [f EXCEPT !.at = "load"]
    BY <1>4 DEF AfterRelease
  <2>2. AfterRelease(f) \in Frames /\ AfterRelease(f).at = "load"
        /\ AfterRelease(f).op = f.op /\ AfterRelease(f).k = f.k
    BY <2>1, MovedFrame DEF Ats
  <2>3. QED
    BY <1>4, <2>2 DEF Places
<1>5. CASE f.op \in {"clean", "kill", "sleep"} \/ (f.op = "post" /\ ~ f.found)
  <2>1. AfterRelease(f) = [f EXCEPT !.at = "done"]
    BY <1>5 DEF AfterRelease
  <2>2. AfterRelease(f) \in Frames /\ AfterRelease(f).at = "done"
        /\ AfterRelease(f).op = f.op /\ AfterRelease(f).k = f.k
    BY <2>1, MovedFrame DEF Ats
  <2>3. QED
    BY <1>5, <2>2 DEF Places
<1>6. f.op \in {"create", "lock", "relock", "unlocked", "join", "wake", "clean", "kill", "sleep", "post"}
  BY DEF Places, Locked
<1>7. QED
  BY <1>1, <1>2, <1>3, <1>4, <1>5, <1>6

(* release leaves the alarm unblocked, and the place it leads to open.     *)
LEMMA ReleaseStep == ASSUME IInv, NEW t \in Threads, release(t) PROVE IInv' /\ Moves(t)
<1>1. /\ Step(t, "rel") /\ UNCHANGED <<list, node, mutex, run, post, fate, calls>>
      /\ sig' = Unmasked /\ Goto(t, AfterRelease(frame[t]))
      /\ own' = [own EXCEPT ![LockOf(frame[t].op)] = NoTid]
  BY DEF release
<1>2. /\ TypeOK /\ run.cpu = t /\ run.at = "own" /\ frame[t].at = "rel"
      /\ frame \in [Threads -> Frames] /\ frame[t] \in Frames /\ sig \in Sigs
      /\ Args(t) /\ Executing(t) /\ Masks(t) /\ Locks(t) /\ node[t].ctx # "asleep"
      /\ fate = "running"
      /\ own \in [{"tl", "lk"} -> Threads \cup {NoTid}] /\ LockOf(frame[t].op) \in {"tl", "lk"}
  BY <1>1, OwnCode DEF TypeOK, LockOf
<1>3. PICK f : f = AfterRelease(frame[t])
  OBVIOUS
<1>4. /\ f \in Frames /\ Places(f)
      /\ f.at \in {"idle", "wait", "load", "done", "rel"}
      /\ f.op \in {"none", "join", "post", "unlocked", "clean", "kill", "sleep"}
      /\ f.at # "idle" => \/ f.op = frame[t].op /\ f.k = frame[t].k /\ f.at # "rel"
                          \/ frame[t].op = "wake" /\ f.op = "unlocked" /\ f.at = "rel"
      /\ frame[t].op = "wake" <=> f.at = "rel"
      /\ frame[t].op = "sleep" => f.op = "sleep"
      /\ f.op = "join" => f.at = "wait"
      /\ f.op \in {"clean", "kill", "sleep"} => f.at = "done"
      /\ f.op = "post" => f.at \in {"load", "done"}
  BY <1>2, <1>3, AfterReleaseFrame DEF Args
<1>5. frame' \in [Threads -> Frames] /\ frame'[t] = f /\ \A u \in Threads \ {t} : frame'[u] = frame[u]
  BY <1>1, <1>2, <1>3, <1>4, GotoKeeps
<1>6. own' \in [{"tl", "lk"} -> Threads \cup {NoTid}]
  BY <1>1, <1>2
<1>7. own[LockOf(frame[t].op)] = t
  BY <1>2 DEF Locks, LockOf, Args, Places, Locked
<1>8. \A u \in Threads \ {t}, l \in {"tl", "lk"} : own'[l] = u <=> own[l] = u
  BY <1>1, <1>2, <1>7, Constants
<1>9. sig' \in Sigs /\ ~ sig'.blocked /\ sig'.armed /\ sig'.pending = sig.pending
  BY <1>1, <1>2 DEF Sigs, Unmasked
<1>10. TypeOK'
  BY <1>1, <1>2, <1>5, <1>6, <1>9 DEF TypeOK, Sigs
<1>11. Args(t)'
  <2>1. f.op = "clean" => frame[t].op = "clean" /\ f.k = frame[t].k
    BY <1>4 DEF Places
  <2>2. f.op \in {"join", "clean"} \/ (f.op \in {"kill", "post"} /\ f.at # "done") =>
          f.op = frame[t].op /\ f.k = frame[t].k
    BY <1>4 DEF Places
  <2>3. QED
    BY <1>1, <1>2, <1>4, <1>5, <2>1, <2>2 DEF Args
<1>12. Executing(t)'
  <2>1. node[t].state = "RUNNING" \/ (node[t].state = "SLEEPING" /\ frame[t].op = "sleep")
    BY <1>2 DEF Executing
  <2>2. QED
    BY <1>1, <1>2, <1>4, <1>5, <2>1 DEF Executing
<1>13. Masks(t)'
  <2>1. Open(f)
    BY <1>4 DEF Open
  <2>2. QED
    BY <1>1, <1>2, <1>5, <1>9, <2>1 DEF Masks
<1>14. Locks(t)'
  <2>1. CASE frame[t].op = "wake"
    <3>1. own'["tl"] # t /\ own'["lk"] = t /\ f.op = "unlocked" /\ f.at = "rel"
      BY <1>1, <1>2, <1>4, <2>1, Constants DEF Locks, LockOf, Places
    <3>2. QED
      BY <1>1, <1>5, <3>1 DEF Locks, LockOf
  <2>2. CASE frame[t].op # "wake"
    <3>1. own'["tl"] # t /\ own'["lk"] # t
      BY <1>1, <1>2, <2>2, Constants DEF Locks, LockOf
    <3>2. QED
      BY <1>1, <1>4, <1>5, <2>2, <3>1 DEF Locks
  <2>3. QED
    BY <2>1, <2>2
<1>15. frame'[t].at # "jump" /\ "rel" \in Ats /\ fate' = "running"
  BY <1>1, <1>2, <1>4, <1>5 DEF Ats
<1>16. QED
  BY <1>1, <1>5, <1>8, <1>9, <1>10, <1>11, <1>12, <1>13, <1>14, <1>15, FrameStep

-----------------------------------------------------------------------------
(* The state of one thread changes.                                        *)
LEMMA StateKeeps ==
  ASSUME node \in [Threads -> Nodes], NEW k \in Threads,
         NEW s \in {"UNBORN", "RUNNABLE", "RUNNING", "SLEEPING", "TERMINATED"},
         node' = [node EXCEPT ![k].state = s]
  PROVE  /\ node' \in [Threads -> Nodes]
         /\ \A u \in Threads \ {k} : node'[u] = node[u]
         /\ node'[k].state = s /\ node'[k].ctx = node[k].ctx
         /\ node'[k].freed = node[k].freed /\ node'[k].chan = node[k].chan
<1> DEFINE x == [node[k] EXCEPT !.state = s]
<1>1. /\ x \in Nodes /\ x.state = s /\ x.ctx = node[k].ctx
      /\ x.freed = node[k].freed /\ x.chan = node[k].chan
  BY DEF Nodes
<1>2. node' = [node EXCEPT ![k] = x]
  OBVIOUS
<1> HIDE DEF x
<1>3. QED
  BY <1>1, <1>2

(* thread_create starts: the load of id.                                   *)
LEMMA CallCreateStep == ASSUME IInv, NEW t \in Threads, CallCreate(t) PROVE IInv' /\ Moves(t)
<1>1. PICK f : f = [Idle EXCEPT !.op = "create", !.at = "id", !.i = calls.id]
  OBVIOUS
<1>2. /\ TypeOK /\ frame \in [Threads -> Frames] /\ Step(t, "idle") /\ Goto(t, f)
      /\ UNCHANGED <<list, node, own, mutex, run, sig, post, fate, calls>>
  BY <1>1 DEF IInv, TypeOK, CallCreate, At
<1>3. f \in Frames /\ f.op = "create" /\ f.at = "id"
  <2>1. PICK i \in Int : i = calls.id
    BY <1>2 DEF TypeOK
  <2>2. f = [Idle EXCEPT !.op = "create", !.at = "id", !.i = i]
    BY <1>1, <2>1
  <2>3. QED
    BY <2>2, IdleFrame DEF Frames
<1>4. TypeOK'
  BY <1>2, <1>3, GotoKeeps DEF TypeOK
<1>5. QED
  BY <1>2, <1>3, <1>4, CallStep DEF Places

(* The new node, with its tid.                                             *)
LEMMA ThreadCreateStep ==
  ASSUME IInv, NEW t \in Threads, NEW k \in Threads, thread_create(t, k) PROVE IInv' /\ Moves(t)
<1>1. /\ Step(t, "id") /\ frame[t].op = "create" /\ node[k].state = "UNBORN"
      /\ node' = [node EXCEPT ![k].state = "RUNNABLE", ![k].ctx = "new"]
      /\ Goto(t, Locking("create", k))
      /\ calls' = [calls EXCEPT !.id = frame[t].i + 1] /\ fate' \in {fate, "clash"}
      /\ UNCHANGED <<list, own, mutex, run, sig, post>>
  BY DEF thread_create, At, Unborn
<1>2. /\ TypeOK /\ fate = "running" /\ run.cpu = t /\ run.at = "own" /\ frame[t].at = "id"
      /\ frame \in [Threads -> Frames] /\ node \in [Threads -> Nodes] /\ frame[t] \in Frames
      /\ Contains(list, t) /\ Args(t) /\ Masks(t) /\ Locks(t)
      /\ node[t].state = "RUNNING" /\ node[t].ctx # "asleep"
  BY <1>1, OwnCode
<1>3. /\ node' \in [Threads -> Nodes] /\ \A u \in Threads \ {k} : node'[u] = node[u]
      /\ node'[k].state = "RUNNABLE" /\ node'[k].ctx = "new" /\ node'[k].freed = node[k].freed
      /\ node'[k].chan = node[k].chan
  <2> DEFINE x == [node[k] EXCEPT !.state = "RUNNABLE", !.ctx = "new"]
  <2>1. x \in Nodes /\ x.state = "RUNNABLE" /\ x.ctx = "new" /\ x.freed = node[k].freed
        /\ x.chan = node[k].chan
    BY <1>2 DEF Nodes
  <2>2. node' = [node EXCEPT ![k] = x]
    BY <1>1, <1>2
  <2> HIDE DEF x
  <2>3. QED
    BY <1>2, <2>1, <2>2
<1>4. PICK f \in Frames : f = Locking("create", k) /\ f.op = "create" /\ f.at = "block" /\ f.k = k
  BY LockingFrame DEF Ops
<1>5. /\ frame' \in [Threads -> Frames] /\ frame'[t] = f
      /\ \A u \in Threads \ {t} : frame'[u] = frame[u]
  BY <1>1, <1>2, <1>4, GotoKeeps
<1>6. TypeOK'
  <2>1. calls \in Calls /\ frame[t].i + 1 \in Int
    BY <1>2 DEF TypeOK, Calls, Frames
  <2>2. calls' \in Calls
    BY <1>1, <2>1, OneMoreCall
  <2>3. QED
    BY <1>1, <1>2, <1>3, <1>5, <2>2 DEF TypeOK, Nodes, Calls
<1>7. t # k /\ node'[t] = node[t]
  BY <1>1, <1>2, <1>3
<1>8. Local(t)'
  <2>1. Args(t)'
    BY <1>2, <1>4, <1>5, <1>7 DEF Args, Places, Locked
  <2>2. Executing(t)' /\ Masks(t)'
    BY <1>1, <1>2, <1>4, <1>5, <1>7 DEF Executing, Masks, Open, Timed
  <2>3. Locks(t)'
    BY <1>1, <1>2, <1>4, <1>5 DEF Locks
  <2>4. QED
    BY <2>1, <2>2, <2>3 DEF Local
<1>9. ASSUME NEW u \in Threads
      PROVE  /\ node[u].state = "TERMINATED" => node'[u].state = "TERMINATED"
             /\ node'[u].ctx = "asleep" => node[u].ctx = "asleep"
             /\ node'[u].freed => node[u].freed
  BY <1>1, <1>3
<1>10. IInv'
  BY <1>1, <1>2, <1>5, <1>6, <1>8, <1>9, OwnStep
<1>11. \A u \in Threads \ {t} : Touched(node[u], node'[u])
  BY <1>1, <1>3 DEF Touched
<1>12. \A u \in Threads : node'[u].state = "TERMINATED" => node[u].state = "TERMINATED"
  BY <1>3
<1>13. Moves(t)
  BY <1>1, <1>2, <1>4, <1>5, <1>7, <1>11, <1>12 DEF Moves, Moved, Ats
<1>14. QED
  BY <1>10, <1>13

(* The insertion.                                                          *)
LEMMA InsertStep == ASSUME IInv, NEW t \in Threads, thread_insert(t) PROVE IInv' /\ Moves(t)
<1>1. /\ Step(t, "sect") /\ frame[t].op = "create" /\ list' = <<frame[t].k>> \o list
      /\ GoAt(t, "rel") /\ UNCHANGED <<node, own, mutex, run, sig, post, fate, calls>>
  BY DEF thread_insert, At
<1>2. /\ TypeOK /\ fate = "running" /\ run.cpu = t /\ run.at = "own" /\ frame[t].at = "sect"
      /\ frame \in [Threads -> Frames] /\ Contains(list, t) /\ list \in Seq(Threads)
      /\ Args(t) /\ Masks(t) /\ Locks(t) /\ node[t].state = "RUNNING" /\ node[t].ctx # "asleep"
      /\ frame[t].k \in Threads
  <2>1. /\ TypeOK /\ fate = "running" /\ run.cpu = t /\ run.at = "own" /\ frame[t].at = "sect"
        /\ frame \in [Threads -> Frames] /\ Contains(list, t)
        /\ Args(t) /\ Masks(t) /\ Locks(t) /\ node[t].state = "RUNNING" /\ node[t].ctx # "asleep"
    BY <1>1, OwnCode
  <2>2. list \in Seq(Threads)
    BY <2>1 DEF TypeOK
  <2>3. frame[t].k \in Threads
    BY <1>1, <2>1 DEF Args
  <2>4. QED
    BY <2>1, <2>2, <2>3
<1>3. /\ frame' \in [Threads -> Frames] /\ \A u \in Threads \ {t} : frame'[u] = frame[u]
      /\ frame'[t].at = "rel" /\ frame'[t].op = "create" /\ frame'[t].k = frame[t].k
  BY <1>1, <1>2, GoAtKeeps DEF Ats
<1>4. list' \in Seq(Threads) /\ \A u \in Threads : Contains(list, u) => Contains(list', u)
  <2>1. <<frame[t].k>> \in Seq(Threads)
    BY <1>2
  <2>2. QED
    BY <1>1, <1>2, <2>1, ConcatProperties, ConsKeeps
<1>5. TypeOK'
  BY <1>1, <1>2, <1>3, <1>4 DEF TypeOK
<1>6. Local(t)'
  <2>1. Args(t)'
    BY <1>1, <1>2, <1>3 DEF Args, Places, Locked
  <2>2. Executing(t)' /\ Masks(t)'
    BY <1>1, <1>2, <1>3 DEF Executing, Masks, Open, Timed
  <2>3. Locks(t)'
    BY <1>1, <1>2, <1>3 DEF Locks, LockOf
  <2>4. QED
    BY <2>1, <2>2, <2>3 DEF Local
<1>7. IInv'
  BY <1>1, <1>2, <1>3, <1>4, <1>5, <1>6, OwnStep
<1>8. Moves(t)
  BY <1>1, <1>2, <1>3, <1>4 DEF Moves, Touched, Moved, Ats
<1>9. QED
  BY <1>7, <1>8

(* A thread leaves its stack for the scheduler's.                          *)
LEMMA LeaveStep ==
  ASSUME IInv, NEW t \in Threads, Step(t, "jump"), ToScheduler,
         UNCHANGED <<list, node, frame, own, mutex, sig, post, fate, calls>>
  PROVE  IInv' /\ Moves(t)
<1>1. /\ TypeOK /\ fate = "running" /\ run.cpu = t /\ frame[t].at = "jump" /\ Processor
      /\ run' = [run EXCEPT !.cpu = Sched, !.at = "disable"]
  BY OwnCode DEF IInv, ToScheduler
<1>2. run' \in Runs /\ run'.cpu = Sched /\ run'.at = "disable" /\ run'.curr = run.curr
  BY <1>1 DEF TypeOK, Runs
<1>3. TypeOK'
  BY <1>1, <1>2 DEF TypeOK, Runs
<1>4. Processor'
  BY <1>1, <1>2 DEF Processor, CurrRuns
<1>5. ASSUME NEW u \in Threads
      PROVE  Args(u)' /\ Executing(u)' /\ Masks(u)'
  <2>1. Args(u) /\ Masks(u) /\ Sched # u
    BY Constants DEF IInv, Local
  <2>2. Open(frame[u])
    <3>1. CASE u # t
      BY <1>1, <2>1, <3>1 DEF Masks
    <3>2. CASE u = t
      BY <1>1, <2>1, <3>2 DEF Args, Places, Locked, Open
    <3>3. QED
      BY <3>1, <3>2
  <2>3. Args(u)'
    BY <2>1 DEF Args, Places
  <2>4. Executing(u)' /\ Masks(u)'
    BY <1>2, <2>1, <2>2 DEF Executing, Masks, Open
  <2>5. QED
    BY <2>3, <2>4
<1>6. IInv'
  BY <1>1, <1>3, <1>4, <1>5, Switch
<1>7. Moves(t)
  BY <1>1 DEF Moves, Touched, Moved, Ats
<1>8. QED
  BY <1>6, <1>7

(* The state of a thread that ends says TERMINATED before it leaves.       *)
LEMMA ExitStep == ASSUME IInv, NEW t \in Threads, thread_exit(t) PROVE IInv' /\ Moves(t)
<1>1. UNCHANGED <<list, own, mutex, sig, post, fate, calls>>
  BY DEF thread_exit
<1>2. CASE At(t, "exit", "jump") /\ ToScheduler /\ UNCHANGED <<node, frame>>
  BY <1>1, <1>2, LeaveStep DEF At
<1>3. CASE /\ At(t, "exit", "state") /\ node' = [node EXCEPT ![t].state = ExitState]
           /\ GoAt(t, "jump") /\ run' = run
  <2>1. /\ TypeOK /\ fate = "running" /\ run.cpu = t /\ run.at = "own" /\ frame[t].at = "state"
        /\ frame \in [Threads -> Frames] /\ node \in [Threads -> Nodes] /\ frame[t].op = "exit"
        /\ Contains(list, t) /\ Args(t) /\ Masks(t) /\ Locks(t)
        /\ node[t].state = "RUNNING" /\ node[t].ctx # "asleep" /\ Step(t, "state")
    BY <1>3, OwnCode DEF At
  <2>2. /\ frame' \in [Threads -> Frames] /\ \A u \in Threads \ {t} : frame'[u] = frame[u]
        /\ frame'[t].at = "jump" /\ frame'[t].op = "exit"
    BY <1>3, <2>1, GoAtKeeps DEF Ats
  <2>3. /\ node' \in [Threads -> Nodes] /\ \A u \in Threads \ {t} : node'[u] = node[u]
        /\ node'[t].state = "TERMINATED" /\ node'[t].ctx = node[t].ctx
        /\ node'[t].freed = node[t].freed /\ node'[t].chan = node[t].chan
    BY <1>3, <2>1, StateKeeps DEF ExitState
  <2>4. TypeOK'
    BY <1>1, <1>3, <2>1, <2>2, <2>3 DEF TypeOK, Nodes
  <2>5. Local(t)'
    <3>1. Args(t)'
      BY <2>1, <2>2, <2>3 DEF Args, Places
    <3>2. Executing(t)' /\ Masks(t)'
      BY <1>1, <1>3, <2>1, <2>2, <2>3 DEF Executing, Masks, Open, Timed
    <3>3. Locks(t)'
      BY <1>1, <2>1, <2>2 DEF Locks
    <3>4. QED
      BY <3>1, <3>2, <3>3 DEF Local
  <2>6. ASSUME NEW u \in Threads
        PROVE  /\ node[u].state = "TERMINATED" => node'[u].state = "TERMINATED"
               /\ node'[u].ctx = "asleep" => node[u].ctx = "asleep"
               /\ node'[u].freed => node[u].freed
    BY <2>3
  <2>7. IInv'
    BY <1>1, <1>3, <2>1, <2>2, <2>4, <2>5, <2>6, OwnStep
  <2>8. Moves(t)
    BY <1>1, <1>3, <2>1, <2>2, <2>3 DEF Moves, Touched, Moved, Ats
  <2>9. QED
    BY <2>7, <2>8
<1>4. QED
  BY <1>2, <1>3 DEF thread_exit

(* thread_join goes on to cleanup when the state says TERMINATED.          *)
LEMMA JoinStep == ASSUME IInv, NEW t \in Threads, thread_join(t) PROVE IInv' /\ Moves(t)
<1>1. UNCHANGED <<list, node, own, mutex, run, sig, post, fate, calls>>
  BY DEF thread_join
<1>2. CASE /\ At(t, "join", "sect")
           /\ frame' = [frame EXCEPT ![t].at = "rel", ![t].found = Contains(list, frame[t].k)]
  <2>1. /\ TypeOK /\ run.cpu = t /\ run.at = "own" /\ frame[t].at = "sect" /\ frame[t].op = "join"
        /\ fate = "running"
        /\ frame \in [Threads -> Frames] /\ Step(t, "sect")
        /\ Args(t) /\ Masks(t) /\ Locks(t) /\ node[t].state = "RUNNING" /\ node[t].ctx # "asleep"
    BY <1>2, OwnCode DEF At
  <2>2. PICK b \in BOOLEAN : b = Contains(list, frame[t].k)
    BY ContainsBoolean
  <2>3. /\ frame' \in [Threads -> Frames] /\ \A u \in Threads \ {t} : frame'[u] = frame[u]
        /\ frame'[t].at = "rel" /\ frame'[t].op = "join" /\ frame'[t].k = frame[t].k
    BY <1>2, <2>1, <2>2, FoundKeeps
  <2>4. TypeOK'
    BY <1>1, <2>1, <2>3 DEF TypeOK
  <2>5. Args(t)'
    BY <1>1, <2>1, <2>3 DEF Args, Places, Locked
  <2>6. Executing(t)' /\ Masks(t)'
    BY <1>1, <2>1, <2>3 DEF Executing, Masks, Open, Timed
  <2>7. Locks(t)'
    BY <1>1, <2>1, <2>3 DEF Locks, LockOf
  <2>8. frame'[t].at # "jump" /\ frame[t].at \in Ats
    BY <2>1, <2>2, <2>3 DEF Ats
  <2>9. QED
    BY <1>1, <2>1, <2>3, <2>4, <2>5, <2>6, <2>7, <2>8, FrameStep
<1>3. CASE /\ At(t, "join", "wait") /\ node[frame[t].k].state = "TERMINATED"
           /\ Goto(t, Locking("clean", frame[t].k))
  <2>1. /\ TypeOK /\ run.cpu = t /\ run.at = "own" /\ frame[t].at = "wait" /\ frame[t].op = "join"
        /\ fate = "running"
        /\ frame \in [Threads -> Frames] /\ Step(t, "wait")
        /\ Args(t) /\ Masks(t) /\ Locks(t) /\ node[t].state = "RUNNING" /\ node[t].ctx # "asleep"
        /\ frame[t].k \in Threads \ {t}
    BY <1>3, OwnCode DEF At, Args
  <2>2. PICK f \in Frames : /\ f = Locking("clean", frame[t].k)
                            /\ f.op = "clean" /\ f.at = "block" /\ f.k = frame[t].k
    BY <2>1, LockingFrame DEF Ops
  <2>3. /\ frame' \in [Threads -> Frames] /\ frame'[t] = f
        /\ \A u \in Threads \ {t} : frame'[u] = frame[u]
    BY <1>3, <2>1, <2>2, GotoKeeps
  <2>4. TypeOK'
    BY <1>1, <2>1, <2>3 DEF TypeOK
  <2>5. Args(t)'
    BY <1>1, <1>3, <2>1, <2>2, <2>3 DEF Args, Places, Locked
  <2>6. Executing(t)' /\ Masks(t)'
    BY <1>1, <2>1, <2>2, <2>3 DEF Executing, Masks, Open, Timed
  <2>7. Locks(t)'
    BY <1>1, <2>1, <2>2, <2>3 DEF Locks
  <2>8. frame'[t].at # "jump" /\ frame[t].at \in Ats
    BY <2>1, <2>2, <2>3 DEF Ats
  <2>9. QED
    BY <1>1, <2>1, <2>3, <2>4, <2>5, <2>6, <2>7, <2>8, FrameStep
<1>4. QED
  BY <1>2, <1>3 DEF thread_join

-----------------------------------------------------------------------------
(* cleanup unlinks and frees a node that says TERMINATED, never its own.   *)
LEMMA UnlinkStep ==
  ASSUME IInv, NEW t \in Threads, At(t, "clean", "sect"), list' = Unlinked(t),
         frame' = [frame EXCEPT ![t].at = "rel", ![t].found = Contains(list, frame[t].k)],
         UNCHANGED <<node, own, mutex, run, sig, post, fate, calls>>
  PROVE  IInv' /\ Moves(t)
<1>1. /\ TypeOK /\ fate = "running" /\ run.cpu = t /\ run.at = "own"
      /\ frame[t].at = "sect" /\ frame[t].op = "clean"
      /\ frame \in [Threads -> Frames] /\ Contains(list, t)
      /\ Args(t) /\ Masks(t) /\ Locks(t) /\ node[t].state = "RUNNING" /\ node[t].ctx # "asleep"
  BY OwnCode DEF At
<1>2. frame[t].k \in Threads \ {t} /\ list \in Seq(Threads)
  BY <1>1 DEF Args, TypeOK
<1>3. PICK b \in BOOLEAN : b = Contains(list, frame[t].k)
  BY ContainsBoolean
<1>4. /\ frame' \in [Threads -> Frames] /\ \A u \in Threads \ {t} : frame'[u] = frame[u]
      /\ frame'[t].at = "rel" /\ frame'[t].op = "clean" /\ frame'[t].k = frame[t].k
  BY <1>1, <1>3, FoundKeeps
<1>5. list' \in Seq(Threads) /\ \A u \in Threads \ {frame[t].k} : Contains(list, u) => Contains(list', u)
  <2>1. list' = RemoveFirst(list, frame[t].k)
    BY DEF Unlinked
  <2>2. QED
    BY <1>1, <1>2, <2>1, RemoveFirstType, RemoveFirstKeeps
<1>6. TypeOK'
  BY <1>1, <1>4, <1>5 DEF TypeOK
<1>7. Local(t)'
  <2>1. Args(t)'
    BY <1>1, <1>4 DEF Args, Places, Locked
  <2>2. Executing(t)' /\ Masks(t)'
    BY <1>1, <1>4 DEF Executing, Masks, Open, Timed
  <2>3. Locks(t)'
    BY <1>1, <1>4 DEF Locks, LockOf
  <2>4. QED
    BY <2>1, <2>2, <2>3 DEF Local
<1>8. IInv'
  BY <1>1, <1>2, <1>4, <1>5, <1>6, <1>7, OwnStep
<1>9. node[frame[t].k].state = "TERMINATED"
  BY <1>1 DEF Args
<1>10. Moves(t)
  BY <1>1, <1>4, <1>5, <1>9 DEF Moves, Touched, Moved, At, Ats
<1>11. QED
  BY <1>8, <1>10

(* cleanup frees the node of a thread that has terminated.                 *)
LEMMA FreeStep ==
  ASSUME IInv, NEW t \in Threads, At(t, "clean", "done"),
         node' = [node EXCEPT ![frame[t].k].freed = @ \/ frame[t].found],
         Goto(t, Idle), UNCHANGED <<list, own, mutex, run, sig, post, fate, calls>>
  PROVE  IInv' /\ Moves(t)
<1>1. /\ TypeOK /\ fate = "running" /\ run.cpu = t /\ run.at = "own"
      /\ frame[t].at = "done" /\ frame[t].op = "clean" /\ frame[t] \in Frames
      /\ frame \in [Threads -> Frames] /\ node \in [Threads -> Nodes] /\ Contains(list, t)
      /\ Args(t) /\ Executing(t) /\ Masks(t) /\ Locks(t) /\ node[t].ctx # "asleep"
  BY OwnCode DEF At
<1>2. /\ frame[t].k \in Threads \ {t} /\ node[frame[t].k].state = "TERMINATED"
      /\ node[t].state = "RUNNING" /\ Timed(frame[t]) /\ Open(frame[t])
  BY <1>1 DEF Args, Executing, Timed, Open
<1>3. PICK k \in Threads \ {t} : k = frame[t].k
  BY <1>2
<1>4. /\ node' \in [Threads -> Nodes] /\ \A u \in Threads \ {k} : node'[u] = node[u]
      /\ node'[k].state = node[k].state /\ node'[k].ctx = node[k].ctx
      /\ node'[k].chan = node[k].chan
  <2> DEFINE x == [node[k] EXCEPT !.freed = @ \/ frame[t].found]
  <2>1. frame[t].found \in BOOLEAN /\ node[k] \in Nodes
    BY <1>1 DEF Frames
  <2>2. x \in Nodes /\ x.state = node[k].state /\ x.ctx = node[k].ctx /\ x.chan = node[k].chan
    <3>1. PICK b \in BOOLEAN : b = (node[k].freed \/ frame[t].found)
      OBVIOUS
    <3>2. x = [node[k] EXCEPT !.freed = b]
      BY <2>1, <3>1 DEF Nodes
    <3> HIDE DEF x
    <3>3. QED
      BY <2>1, <3>2 DEF Nodes
  <2>3. node' = [node EXCEPT ![k] = x]
    BY <1>1, <1>3
  <2>4. k \in Threads /\ node \in [Threads -> Nodes]
    BY <1>1
  <2> HIDE DEF x
  <2>5. QED
    BY <2>2, <2>3, <2>4
<1>5. /\ frame' \in [Threads -> Frames] /\ frame'[t] = Idle
      /\ \A u \in Threads \ {t} : frame'[u] = frame[u]
  BY <1>1, IdleFrame, GotoKeeps
<1>6. TypeOK'
  BY <1>1, <1>4, <1>5 DEF TypeOK, Nodes
<1>7. node'[t] = node[t]
  BY <1>3, <1>4
<1>8. Local(t)'
  <2>1. Args(t)'
    BY <1>1, <1>2, <1>5, <1>7, IdleFrame DEF Args, Places
  <2>2. Executing(t)'
    BY <1>2, <1>7 DEF Executing
  <2>3. Masks(t)'
    BY <1>1, <1>2, <1>5, IdleFrame DEF Masks, Open
  <2>4. Locks(t)'
    BY <1>1, <1>5, IdleFrame DEF Locks
  <2>5. QED
    BY <2>1, <2>2, <2>3, <2>4 DEF Local
<1>9. ASSUME NEW u \in Threads
      PROVE  /\ node[u].state = "TERMINATED" => node'[u].state = "TERMINATED"
             /\ node'[u].ctx = "asleep" => node[u].ctx = "asleep"
             /\ node'[u].freed => node[u].freed \/ (u # t /\ node[u].state = "TERMINATED")
  <2>1. CASE u = k
    BY <1>2, <1>3, <1>4, <2>1
  <2>2. CASE u # k
    BY <1>4, <2>2
  <2>3. QED
    BY <2>1, <2>2
<1>10. IInv'
  BY <1>1, <1>5, <1>6, <1>8, <1>9, OwnStep
<1>11. \A u \in Threads : Touched(node[u], node'[u])
  BY <1>4 DEF Touched
<1>12. Moves(t)
  BY <1>1, <1>5, <1>7, <1>11, IdleFrame DEF Moves, Moved, At, Ats
<1>13. QED
  BY <1>10, <1>12

(* cleanup unlinks and frees a node that is not the caller's.              *)
LEMMA CleanupStep == ASSUME IInv, NEW t \in Threads, cleanup(t) PROVE IInv' /\ Moves(t)
BY UnlinkStep, FreeStep DEF cleanup

(* thread_kill: the section, and the end.                                  *)
LEMMA KillSectionStep ==
  ASSUME IInv, NEW t \in Threads, Step(t, "sect"), frame[t].op \in {"kill", "post"},
         NEW found, found = Contains(list, frame[t].k),
         node' = IF found /\ frame[t].op = "kill"
                 THEN [node EXCEPT ![frame[t].k].state = "TERMINATED"] ELSE node,
         frame' = [frame EXCEPT ![t].at = "rel", ![t].found = found],
         UNCHANGED <<list, own, mutex, run, sig, post, fate, calls>>
  PROVE  IInv' /\ Moves(t)
<1>1. /\ TypeOK /\ fate = "running" /\ run.cpu = t /\ run.at = "own" /\ frame[t].at = "sect"
      /\ frame \in [Threads -> Frames] /\ node \in [Threads -> Nodes] /\ Contains(list, t)
      /\ Args(t) /\ Masks(t) /\ Locks(t) /\ node[t].state = "RUNNING" /\ node[t].ctx # "asleep"
  BY OwnCode
<1>2. frame[t].k \in Threads \ {t} /\ found \in BOOLEAN
  BY <1>1, ContainsBoolean DEF Args
<1>3. /\ frame' \in [Threads -> Frames] /\ \A u \in Threads \ {t} : frame'[u] = frame[u]
      /\ frame'[t].at = "rel" /\ frame'[t].op = frame[t].op /\ frame'[t].k = frame[t].k
  BY <1>1, <1>2, FoundKeeps
<1>4. /\ node' \in [Threads -> Nodes] /\ \A u \in Threads \ {frame[t].k} : node'[u] = node[u]
      /\ node'[frame[t].k].state \in {node[frame[t].k].state, "TERMINATED"}
      /\ node'[frame[t].k].ctx = node[frame[t].k].ctx
      /\ node'[frame[t].k].freed = node[frame[t].k].freed
      /\ node'[frame[t].k].chan = node[frame[t].k].chan
  <2>1. CASE node' = node
    BY <1>1, <2>1
  <2>2. CASE node' = [node EXCEPT ![frame[t].k].state = "TERMINATED"]
    BY <1>1, <1>2, <2>2, StateKeeps
  <2>3. QED
    BY <2>1, <2>2
<1>5. node'[t] = node[t]
  BY <1>2, <1>4
<1>6. TypeOK'
  BY <1>1, <1>3, <1>4 DEF TypeOK, Nodes
<1>7. Local(t)'
  <2>1. Args(t)'
    BY <1>1, <1>2, <1>3, <1>5 DEF Args, Places, Locked
  <2>2. Executing(t)' /\ Masks(t)'
    BY <1>1, <1>3, <1>5 DEF Executing, Masks, Open, Timed
  <2>3. Locks(t)'
    BY <1>1, <1>3 DEF Locks, LockOf
  <2>4. QED
    BY <2>1, <2>2, <2>3 DEF Local
<1>8. ASSUME NEW u \in Threads
      PROVE  /\ node[u].state = "TERMINATED" => node'[u].state = "TERMINATED"
             /\ node'[u].ctx = "asleep" => node[u].ctx = "asleep"
             /\ node'[u].freed => node[u].freed
  <2>1. CASE u = frame[t].k
    BY <1>4, <2>1
  <2>2. CASE u # frame[t].k
    BY <1>4, <2>2
  <2>3. QED
    BY <2>1, <2>2
<1>9. IInv'
  BY <1>1, <1>3, <1>6, <1>7, <1>8, OwnStep
<1>10. \A u \in Threads : Touched(node[u], node'[u])
  BY <1>4 DEF Touched
<1>11. Moves(t)
  BY <1>1, <1>3, <1>5, <1>10 DEF Moves, Moved, Ats
<1>12. QED
  BY <1>9, <1>11

(* thread_kill returns.                                                    *)
LEMMA KillEndStep ==
  ASSUME IInv, NEW t \in Threads, Step(t, "done"), frame[t].op \in {"kill", "post"},
         sig' = [sig EXCEPT !.armed = TRUE], Goto(t, Idle),
         UNCHANGED <<node, list, own, mutex, run, post, fate, calls>>
  PROVE  IInv' /\ Moves(t)
<1>1. /\ TypeOK /\ run.cpu = t /\ run.at = "own" /\ frame[t].at = "done" /\ sig \in Sigs
      /\ frame \in [Threads -> Frames] /\ fate = "running"
      /\ Args(t) /\ Executing(t) /\ Masks(t) /\ Locks(t) /\ node[t].ctx # "asleep"
  BY OwnCode
<1>2. node[t].state = "RUNNING" /\ ~ sig.blocked
  BY <1>1 DEF Executing, Masks, Open
<1>3. /\ frame' \in [Threads -> Frames] /\ frame'[t] = Idle
      /\ \A u \in Threads \ {t} : frame'[u] = frame[u]
  BY <1>1, IdleFrame, GotoKeeps
<1>4. /\ sig' \in Sigs /\ sig'.armed
      /\ sig'.blocked = sig.blocked /\ sig'.pending = sig.pending
  BY <1>1 DEF Sigs
<1>5. TypeOK'
  BY <1>1, <1>3, <1>4 DEF TypeOK, Sigs
<1>6. Args(t)' /\ Executing(t)'
  BY <1>1, <1>2, <1>3, IdleFrame DEF Args, Places, Executing
<1>7. Masks(t)'
  BY <1>1, <1>2, <1>3, <1>4, IdleFrame DEF Masks, Open
<1>8. Locks(t)'
  BY <1>1, <1>3, IdleFrame DEF Locks
<1>9. frame'[t].at # "jump" /\ "done" \in Ats
  BY <1>3, IdleFrame DEF Ats
<1>10. QED
  BY <1>1, <1>3, <1>4, <1>5, <1>6, <1>7, <1>8, <1>9, FrameStep

(* thread_kill terminates a thread that is not the caller.                 *)
LEMMA KillStep == ASSUME IInv, NEW t \in Threads, thread_kill(t) PROVE IInv' /\ Moves(t)
<1>1. CASE At(t, "kill", "sect") \/ At(t, "post", "sect")
  BY <1>1, KillSectionStep DEF thread_kill, At, Step
<1>2. CASE At(t, "kill", "done") \/ At(t, "post", "done")
  BY <1>2, KillEndStep DEF thread_kill, At, Step
<1>3. QED
  BY <1>1, <1>2 DEF thread_kill

(* The store of a signal: the slot is one of the array, or the process has *)
(* faulted.                                                                *)
LEMMA PostStep == ASSUME IInv, NEW t \in Threads, Post(t) PROVE IInv' /\ Moves(t)
<1>1. PICK at \in {"load", "count", "store"} : At(t, "post", at)
  BY DEF Post
<1>2. /\ TypeOK /\ run.cpu = t /\ run.at = "own" /\ frame[t].at = at /\ frame[t].op = "post"
      /\ frame \in [Threads -> Frames] /\ frame[t] \in Frames /\ fate = "running" /\ Step(t, at)
      /\ Args(t) /\ Masks(t) /\ Locks(t) /\ node[t].state = "RUNNING" /\ node[t].ctx # "asleep"
      /\ frame[t].k \in Threads \ {t}
  BY <1>1, OwnCode DEF At, Args
<1>3. UNCHANGED <<list, node, own, mutex, run, sig, calls>>
  BY DEF Post
<1>4. post \in Posts /\ frame[t].i \in Int
  BY <1>2 DEF TypeOK, Posts, Frames
<1>5. /\ frame' \in [Threads -> Frames] /\ \A u \in Threads \ {t} : frame'[u] = frame[u]
      /\ frame'[t].at \in {"count", "store", "done"}
      /\ frame'[t].op = "post" /\ frame'[t].k = frame[t].k
  <2>1. CASE at \in {"count", "store"} /\ \E a \in {"store", "done"} : GoAt(t, a)
    BY <1>2, <2>1, GoAtKeeps DEF Ats
  <2>2. CASE frame' = [frame EXCEPT ![t].i = post.cnt[frame[t].k], ![t].at = "count"]
    <3>1. PICK i \in Int : i = post.cnt[frame[t].k]
      BY <1>2, <1>4 DEF Posts
    <3> DEFINE f == [frame[t] EXCEPT !.i = i, !.at = "count"]
    <3>2. f \in Frames /\ f.at = "count" /\ f.op = "post" /\ f.k = frame[t].k
      BY <1>2 DEF Frames
    <3>3. Goto(t, f)
      BY <1>2, <2>2, <3>1 DEF Goto
    <3> HIDE DEF f
    <3>4. QED
      BY <1>2, <3>2, <3>3, GotoKeeps
  <2>3. QED
    BY <1>1, <1>2, <2>1, <2>2 DEF Post, At, Step
<1>6. post' \in Posts
  <2>1. PICK k \in Threads, i \in Int : k = frame[t].k /\ i = frame[t].i
    BY <1>2, <1>4
  <2>2. CASE post' = [post EXCEPT !.cnt[k] = i + 1]
    <3>1. [post.cnt EXCEPT ![k] = i + 1] \in [Threads -> Int]
      BY <1>4 DEF Posts
    <3>2. post' = [post EXCEPT !.cnt = [post.cnt EXCEPT ![k] = i + 1]]
      BY <2>2
    <3>3. QED
      BY <1>4, <3>1, <3>2 DEF Posts
  <2>3. post' = post \/ post' = [post EXCEPT !.cnt[k] = i + 1]
    BY <2>1 DEF Post
  <2>4. QED
    BY <1>4, <2>2, <2>3
<1>7. fate' \in {"running", "fault"}
  BY <1>2 DEF Post
<1>8. TypeOK'
  BY <1>2, <1>3, <1>5, <1>6, <1>7 DEF TypeOK, Posts
<1>9. Args(t)'
  BY <1>2, <1>3, <1>5 DEF Args, Places
<1>10. Executing(t)' /\ Masks(t)'
  BY <1>2, <1>3, <1>5 DEF Executing, Masks, Open, Timed
<1>11. Locks(t)'
  BY <1>2, <1>3, <1>5 DEF Locks
<1>12. fate' # "running" => frame'[t].at = "done"
  <2>1. CASE at = "store" /\ GoAt(t, "done")
    BY <1>2, <2>1, GoAtKeeps DEF Ats
  <2>2. CASE fate' = fate
    BY <1>2, <2>2
  <2>3. QED
    BY <1>1, <1>2, <2>1, <2>2 DEF Post, At, Step
<1>13. frame'[t].at # "jump" /\ at \in Ats
  BY <1>5 DEF Ats
<1>14. QED
  BY <1>2, <1>3, <1>5, <1>8, <1>9, <1>10, <1>11, <1>12, <1>13, FrameStep

-----------------------------------------------------------------------------
(* The sleeplock.                                                          *)
LEMMA AcquireSleepStep == ASSUME IInv, NEW t \in Threads, acquiresleep(t) PROVE IInv' /\ Moves(t)
<1>1. /\ Step(t, "sect") /\ frame[t].op \in {"lock", "relock"}
      /\ UNCHANGED <<list, run, sig, post, calls>>
  BY DEF acquiresleep, At
<1>2. /\ TypeOK /\ run.cpu = t /\ run.at = "own" /\ frame[t].at = "sect"
      /\ frame \in [Threads -> Frames] /\ fate = "running" /\ node \in [Threads -> Nodes]
      /\ Contains(list, t)
      /\ Args(t) /\ Masks(t) /\ Locks(t) /\ node[t].state = "RUNNING" /\ node[t].ctx # "asleep"
  BY <1>1, OwnCode
<1>3. own["lk"] = t /\ own["tl"] # t /\ own \in [{"tl", "lk"} -> Threads \cup {NoTid}]
  BY <1>1, <1>2 DEF Locks, LockOf, TypeOK
<1>4. CASE /\ own' = [own EXCEPT !["lk"] = NoTid] /\ fate' = "exit"
           /\ UNCHANGED <<node, frame, mutex>>
  <2>1. /\ own' \in [{"tl", "lk"} -> Threads \cup {NoTid}]
        /\ \A u \in Threads \ {t}, l \in {"tl", "lk"} : own'[l] = u <=> own[l] = u
        /\ own'["tl"] = own["tl"]
    BY <1>3, <1>4, Constants
  <2>2. TypeOK'
    BY <1>1, <1>2, <1>4, <2>1 DEF TypeOK
  <2>3. Args(t)' /\ Executing(t)'
    BY <1>1, <1>2, <1>4 DEF Args, Places, Executing
  <2>4. Masks(t)' /\ Locks(t)'
    BY <1>1, <1>2, <1>4, <2>1 DEF Masks, Open, Timed, Locks
  <2>5. QED
    BY <1>1, <1>2, <1>4, <2>1, <2>2, <2>3, <2>4, FrameStep DEF Ats
<1>5. CASE mutex' = t /\ GoAt(t, "rel") /\ UNCHANGED <<node, own, fate>>
  <2>1. /\ frame' \in [Threads -> Frames] /\ \A u \in Threads \ {t} : frame'[u] = frame[u]
        /\ frame'[t].at = "rel" /\ frame'[t].op = frame[t].op /\ frame'[t].k = frame[t].k
    BY <1>2, <1>5, GoAtKeeps DEF Ats
  <2>2. TypeOK'
    BY <1>1, <1>2, <1>5, <2>1 DEF TypeOK
  <2>3. Args(t)' /\ Executing(t)'
    BY <1>1, <1>2, <1>5, <2>1 DEF Args, Places, Locked, Executing
  <2>4. Masks(t)' /\ Locks(t)'
    BY <1>1, <1>2, <1>5, <2>1 DEF Masks, Open, Timed, Locks, LockOf
  <2>5. QED
    BY <1>1, <1>2, <1>5, <2>1, <2>2, <2>3, <2>4, FrameStep DEF Ats
<1>6. CASE /\ node' = [node EXCEPT ![t].chan = TRUE, ![t].state = "SLEEPING"]
           /\ Goto(t, [Idle EXCEPT !.op = "sleep", !.at = "rel"])
           /\ UNCHANGED <<own, mutex, fate>>
  <2>1. PICK f : f = [Idle EXCEPT !.op = "sleep", !.at = "rel"]
    OBVIOUS
  <2>2. f \in Frames /\ f.op = "sleep" /\ f.at = "rel"
    BY <2>1, OtherFrame DEF Ops, Ats
  <2>3. /\ frame' \in [Threads -> Frames] /\ frame'[t] = f
        /\ \A u \in Threads \ {t} : frame'[u] = frame[u]
    BY <1>2, <1>6, <2>1, <2>2, GotoKeeps
  <2>4. /\ node' \in [Threads -> Nodes] /\ \A u \in Threads \ {t} : node'[u] = node[u]
        /\ node'[t].state = "SLEEPING" /\ node'[t].ctx = node[t].ctx
        /\ node'[t].freed = node[t].freed /\ node'[t].chan
    <3> DEFINE x == [node[t] EXCEPT !.chan = TRUE, !.state = "SLEEPING"]
    <3>1. /\ x \in Nodes /\ x.state = "SLEEPING" /\ x.ctx = node[t].ctx
          /\ x.freed = node[t].freed /\ x.chan
      BY <1>2 DEF Nodes
    <3>2. node' = [node EXCEPT ![t] = x] /\ node \in [Threads -> Nodes]
      BY <1>2, <1>6
    <3> HIDE DEF x
    <3>3. QED
      BY <3>1, <3>2
  <2>5. ~ node[t].freed
    BY <1>2 DEF Args
  <2>6. TypeOK'
    BY <1>1, <1>2, <1>6, <2>3, <2>4 DEF TypeOK, Nodes
  <2>7. Local(t)'
    <3>1. Args(t)'
      BY <1>2, <2>2, <2>3, <2>4, <2>5 DEF Args, Places
    <3>2. Executing(t)' /\ Masks(t)'
      BY <1>1, <1>2, <2>2, <2>3, <2>4 DEF Executing, Masks, Open, Timed
    <3>3. Locks(t)'
      BY <1>3, <1>6, <2>2, <2>3 DEF Locks, LockOf
    <3>4. QED
      BY <3>1, <3>2, <3>3 DEF Local
  <2>8. ASSUME NEW u \in Threads
        PROVE  /\ node[u].state = "TERMINATED" => node'[u].state = "TERMINATED"
               /\ node'[u].ctx = "asleep" => node[u].ctx = "asleep"
               /\ node'[u].freed => node[u].freed
    BY <1>2, <2>4
  <2>9. IInv'
    BY <1>1, <1>2, <1>6, <2>3, <2>6, <2>7, <2>8, OwnStep
  <2>10. Moves(t)
    BY <1>1, <1>2, <1>6, <2>2, <2>3, <2>4 DEF Moves, Touched, Moved, Ats
  <2>11. QED
    BY <2>9, <2>10
<1>7. QED
  BY <1>4, <1>5, <1>6 DEF acquiresleep

(* sleep_lock: the sigsetjmp, the jump, and, resumed, the end.             *)
LEMMA SleepLockStep == ASSUME IInv, NEW t \in Threads, sleep_lock(t) PROVE IInv' /\ Moves(t)
<1>1. UNCHANGED <<list, own, mutex, sig, post, fate, calls>>
  BY DEF sleep_lock
<1>2. CASE At(t, "sleep", "jump") /\ ToScheduler /\ UNCHANGED <<node, frame>>
  BY <1>1, <1>2, LeaveStep DEF At
<1>3. CASE /\ At(t, "sleep", "done") /\ node' = [node EXCEPT ![t].ctx = "asleep"]
           /\ GoAt(t, "jump") /\ run' = run
  <2>1. /\ TypeOK /\ fate = "running" /\ run.cpu = t /\ run.at = "own" /\ frame[t].at = "done"
        /\ frame \in [Threads -> Frames] /\ node \in [Threads -> Nodes] /\ frame[t].op = "sleep"
        /\ Contains(list, t) /\ Args(t) /\ Executing(t) /\ Masks(t) /\ Locks(t)
        /\ Step(t, "done")
    BY <1>3, OwnCode DEF At
  <2>2. /\ frame' \in [Threads -> Frames] /\ \A u \in Threads \ {t} : frame'[u] = frame[u]
        /\ frame'[t].at = "jump" /\ frame'[t].op = "sleep"
    BY <1>3, <2>1, GoAtKeeps DEF Ats
  <2>3. /\ node' \in [Threads -> Nodes] /\ \A u \in Threads \ {t} : node'[u] = node[u]
        /\ node'[t].state = node[t].state /\ node'[t].freed = node[t].freed
        /\ node'[t].ctx = "asleep" /\ node'[t].chan = node[t].chan
    <3> DEFINE x == [node[t] EXCEPT !.ctx = "asleep"]
    <3>1. /\ x \in Nodes /\ x.state = node[t].state /\ x.freed = node[t].freed
          /\ x.ctx = "asleep" /\ x.chan = node[t].chan
      BY <2>1 DEF Nodes
    <3>2. node' = [node EXCEPT ![t] = x] /\ node \in [Threads -> Nodes]
      BY <1>3, <2>1
    <3> HIDE DEF x
    <3>3. QED
      BY <3>1, <3>2
  <2>4. TypeOK'
    BY <1>1, <1>3, <2>1, <2>2, <2>3 DEF TypeOK, Nodes
  <2>5. Local(t)'
    <3>1. Args(t)'
      BY <2>1, <2>2, <2>3 DEF Args, Places
    <3>2. Executing(t)' /\ Masks(t)'
      BY <1>1, <1>3, <2>1, <2>2, <2>3 DEF Executing, Masks, Open, Timed
    <3>3. Locks(t)'
      BY <1>1, <2>1, <2>2 DEF Locks
    <3>4. QED
      BY <3>1, <3>2, <3>3 DEF Local
  <2>6. ASSUME NEW u \in Threads
        PROVE  /\ node[u].state = "TERMINATED" => node'[u].state = "TERMINATED"
               /\ u # t /\ node'[u].ctx = "asleep" => node[u].ctx = "asleep"
               /\ node'[u].freed => node[u].freed
    BY <2>3
  <2>7. IInv'
    BY <1>1, <1>3, <2>1, <2>2, <2>4, <2>5, <2>6, OwnStep
  <2>8. Moves(t)
    BY <1>1, <1>3, <2>1, <2>2, <2>3 DEF Moves, Touched, Moved, Ats
  <2>9. QED
    BY <2>7, <2>8
<1>4. CASE /\ At(t, "sleep", "tidy") /\ node' = [node EXCEPT ![t].chan = FALSE]
           /\ Goto(t, Locking("relock", NoTid)) /\ run' = run
  <2>1. /\ TypeOK /\ fate = "running" /\ run.cpu = t /\ run.at = "own" /\ frame[t].at = "tidy"
        /\ frame \in [Threads -> Frames] /\ node \in [Threads -> Nodes]
        /\ Contains(list, t) /\ Args(t) /\ Masks(t) /\ Locks(t) /\ frame[t].op = "sleep"
        /\ node[t].state = "RUNNING" /\ node[t].ctx # "asleep"
    BY <1>4, OwnCode DEF At
  <2>2. PICK f \in Frames : f = Locking("relock", NoTid) /\ f.op = "relock" /\ f.at = "block"
    BY LockingFrame DEF Ops
  <2>3. /\ frame' \in [Threads -> Frames] /\ frame'[t] = f
        /\ \A u \in Threads \ {t} : frame'[u] = frame[u]
    BY <1>4, <2>1, <2>2, GotoKeeps
  <2>4. /\ node' \in [Threads -> Nodes] /\ \A u \in Threads \ {t} : node'[u] = node[u]
        /\ node'[t].state = node[t].state /\ node'[t].freed = node[t].freed
        /\ node'[t].ctx = node[t].ctx
    <3> DEFINE x == [node[t] EXCEPT !.chan = FALSE]
    <3>1. x \in Nodes /\ x.state = node[t].state /\ x.freed = node[t].freed /\ x.ctx = node[t].ctx
      BY <2>1 DEF Nodes
    <3>2. node' = [node EXCEPT ![t] = x] /\ node \in [Threads -> Nodes]
      BY <1>4, <2>1
    <3> HIDE DEF x
    <3>3. QED
      BY <3>1, <3>2
  <2>5. TypeOK'
    BY <1>1, <1>4, <2>1, <2>3, <2>4 DEF TypeOK, Nodes
  <2>6. Local(t)'
    <3>1. Args(t)'
      BY <2>1, <2>2, <2>3, <2>4 DEF Args, Places, Locked
    <3>2. Executing(t)' /\ Masks(t)'
      BY <1>1, <1>4, <2>1, <2>2, <2>3, <2>4 DEF Executing, Masks, Open, Timed
    <3>3. Locks(t)'
      BY <1>1, <2>1, <2>2, <2>3 DEF Locks
    <3>4. QED
      BY <3>1, <3>2, <3>3 DEF Local
  <2>7. ASSUME NEW u \in Threads
        PROVE  /\ node[u].state = "TERMINATED" => node'[u].state = "TERMINATED"
               /\ node'[u].ctx = "asleep" => node[u].ctx = "asleep"
               /\ node'[u].freed => node[u].freed
    BY <2>4
  <2>8. IInv'
    BY <1>1, <1>4, <2>1, <2>3, <2>5, <2>6, <2>7, OwnStep
  <2>9. Moves(t)
    BY <1>1, <1>4, <2>1, <2>2, <2>3, <2>4 DEF Moves, Touched, Moved, At, Ats
  <2>10. QED
    BY <2>8, <2>9
<1>5. QED
  BY <1>2, <1>3, <1>4 DEF sleep_lock

(* releasesleep goes on to wakeup_lock with lk held, or exits.             *)
LEMMA ReleaseSleepStep == ASSUME IInv, NEW t \in Threads, releasesleep(t) PROVE IInv' /\ Moves(t)
<1>1. /\ Step(t, "sect") /\ frame[t].op = "unlock"
      /\ UNCHANGED <<list, node, own, run, sig, post, calls>>
  BY DEF releasesleep, At
<1>2. /\ TypeOK /\ run.cpu = t /\ run.at = "own" /\ frame[t].at = "sect"
      /\ frame \in [Threads -> Frames] /\ fate = "running"
      /\ Args(t) /\ Masks(t) /\ Locks(t) /\ node[t].state = "RUNNING" /\ node[t].ctx # "asleep"
  BY <1>1, OwnCode
<1>3. CASE fate' = "exit" /\ UNCHANGED <<frame, mutex>>
  <2>1. TypeOK'
    BY <1>1, <1>2, <1>3 DEF TypeOK
  <2>2. Args(t)' /\ Executing(t)'
    BY <1>1, <1>2, <1>3 DEF Args, Places, Executing
  <2>3. Masks(t)' /\ Locks(t)'
    BY <1>1, <1>2, <1>3 DEF Masks, Open, Timed, Locks
  <2>4. QED
    BY <1>1, <1>2, <1>3, <2>1, <2>2, <2>3, FrameStep DEF Ats
<1>4. CASE mutex' = NoTid /\ Goto(t, Locking("wake", NoTid)) /\ fate' = fate
  <2>1. PICK f \in Frames : f = Locking("wake", NoTid) /\ f.op = "wake" /\ f.at = "block"
    BY LockingFrame DEF Ops
  <2>2. /\ frame' \in [Threads -> Frames] /\ frame'[t] = f
        /\ \A u \in Threads \ {t} : frame'[u] = frame[u]
    BY <1>2, <1>4, <2>1, GotoKeeps
  <2>3. TypeOK'
    BY <1>1, <1>2, <1>4, <2>2 DEF TypeOK
  <2>4. Args(t)' /\ Executing(t)'
    BY <1>1, <1>2, <2>1, <2>2 DEF Args, Places, Locked, Executing
  <2>5. Masks(t)'
    BY <1>1, <1>2, <2>1, <2>2 DEF Masks, Open, Timed
  <2>6. Locks(t)'
    BY <1>1, <1>2, <2>1, <2>2 DEF Locks, LockOf
  <2>7. QED
    BY <1>1, <1>2, <1>4, <2>1, <2>2, <2>3, <2>4, <2>5, <2>6, FrameStep DEF Ats
<1>5. QED
  BY <1>3, <1>4 DEF releasesleep

(* The first of the list that sleeps on the mutex is one of its threads.   *)
LEMMA FirstSleeper ==
  ASSUME list \in Seq(Threads), Sleepers # {}
  PROVE  /\ list[Min(Sleepers)] \in Threads
         /\ node[list[Min(Sleepers)]].state = "SLEEPING" /\ node[list[Min(Sleepers)]].chan
<1>1. DOMAIN list = 1 .. Len(list) /\ Len(list) \in Nat
  OBVIOUS
<1>2. Sleepers \in SUBSET Nat /\ Sleepers \subseteq 1 .. Len(list)
  BY <1>1 DEF Sleepers
<1>3. Min(Sleepers) \in Sleepers
  BY <1>2, LeastIndex
<1>4. PICK i \in 1 .. Len(list) : i = Min(Sleepers) /\ i \in Sleepers
  BY <1>2, <1>3
<1>5. list[i] \in Threads
  OBVIOUS
<1>6. node[list[i]].state = "SLEEPING" /\ node[list[i]].chan
  BY <1>4 DEF Sleepers
<1>7. QED
  BY <1>4, <1>5, <1>6

(* wakeup_lock wakes one thread of the list that sleeps.                   *)
LEMMA WakeupStep == ASSUME IInv, NEW t \in Threads, wakeup_lock(t) PROVE IInv' /\ Moves(t)
<1>1. /\ Step(t, "sect") /\ frame[t].op = "wake" /\ GoAt(t, "rel")
      /\ node' = IF Sleepers = {} THEN node
                 ELSE [node EXCEPT ![list[Min(Sleepers)]].state = "RUNNABLE"]
      /\ UNCHANGED <<list, own, mutex, run, sig, post, fate, calls>>
  BY DEF wakeup_lock, At
<1>2. /\ TypeOK /\ run.cpu = t /\ run.at = "own" /\ frame[t].at = "sect"
      /\ frame \in [Threads -> Frames] /\ fate = "running" /\ node \in [Threads -> Nodes]
      /\ Contains(list, t)
      /\ Args(t) /\ Masks(t) /\ Locks(t) /\ node[t].state = "RUNNING" /\ node[t].ctx # "asleep"
  BY <1>1, OwnCode
<1>3. /\ frame' \in [Threads -> Frames] /\ \A u \in Threads \ {t} : frame'[u] = frame[u]
      /\ frame'[t].at = "rel" /\ frame'[t].op = "wake"
  BY <1>1, <1>2, GoAtKeeps DEF Ats
<1>4. /\ node' \in [Threads -> Nodes] /\ node'[t] = node[t]
      /\ \A u \in Threads : /\ node'[u].ctx = node[u].ctx /\ node'[u].freed = node[u].freed
                            /\ node'[u].chan = node[u].chan
                            /\ \/ node'[u].state = node[u].state
                               \/ node[u].state = "SLEEPING" /\ node'[u].state = "RUNNABLE"
  <2>1. CASE Sleepers = {}
    BY <1>1, <1>2, <2>1
  <2>2. CASE Sleepers # {}
    <3>1. list \in Seq(Threads)
      BY <1>2 DEF TypeOK
    <3>2. PICK q \in Threads : q = list[Min(Sleepers)] /\ node[q].state = "SLEEPING"
      BY <2>2, <3>1, FirstSleeper
    <3>3. node' = [node EXCEPT ![q].state = "RUNNABLE"]
      BY <1>1, <2>2, <3>2
    <3>4. /\ node' \in [Threads -> Nodes] /\ \A u \in Threads \ {q} : node'[u] = node[u]
          /\ node'[q].ctx = node[q].ctx /\ node'[q].freed = node[q].freed
          /\ node'[q].chan = node[q].chan /\ node'[q].state = "RUNNABLE"
      BY <1>2, <3>3, StateKeeps
    <3>5. QED
      BY <1>2, <3>2, <3>4
  <2>3. QED
    BY <2>1, <2>2
<1>5. TypeOK'
  BY <1>1, <1>2, <1>3, <1>4 DEF TypeOK, Nodes
<1>6. Local(t)'
  <2>1. Args(t)'
    BY <1>2, <1>3, <1>4 DEF Args, Places, Locked
  <2>2. Executing(t)' /\ Masks(t)'
    BY <1>1, <1>2, <1>3, <1>4 DEF Executing, Masks, Open, Timed
  <2>3. Locks(t)'
    BY <1>1, <1>2, <1>3 DEF Locks, LockOf
  <2>4. QED
    BY <2>1, <2>2, <2>3 DEF Local
<1>7. \A u \in Threads : node[u].state = "TERMINATED" => node'[u].state = "TERMINATED"
  BY <1>4
<1>8. IInv'
  BY <1>1, <1>2, <1>3, <1>4, <1>5, <1>6, <1>7, OwnStep
<1>9. \A u \in Threads : Touched(node[u], node'[u])
  BY <1>4 DEF Touched
<1>10. Moves(t)
  BY <1>1, <1>2, <1>3, <1>4, <1>9 DEF Moves, Moved, Ats
<1>11. QED
  BY <1>8, <1>10

-----------------------------------------------------------------------------

-----------------------------------------------------------------------------
(* Nor does a step of the scheduler or of the handler bring one back.      *)
LEMMA SchedulerStays == ASSUME IInv, scheduler PROVE Stays
<1>1. TypeOK /\ Processor /\ node \in [Threads -> Nodes] /\ run.curr \in Threads
  BY DEF IInv, TypeOK, Nodes
<1>2. CASE node' = node
  BY <1>2 DEF Stays
<1>3. CASE node' = Requeued
  <2>1. \A u \in Threads : Requeued[u].state = node[u].state \/ node[u].state = "RUNNING"
    BY <1>1, RequeuedKeeps
  <2>2. QED
    BY <1>3, <2>1 DEF Stays
<1>4. CASE /\ run.at = "go" /\ fate = "running"
           /\ node' = [node EXCEPT ![run.curr].state = "RUNNING", ![run.curr].ctx = "stale"]
  <2>1. PICK t \in Threads : t = run.curr /\ node[t].state = "RUNNABLE"
    BY <1>1, <1>4 DEF Processor
  <2>2. \A u \in Threads \ {t} : node'[u] = node[u]
    BY <1>1, <1>4, <2>1, GoNode
  <2>3. QED
    BY <2>1, <2>2 DEF Stays
<1>5. QED
  BY <1>2, <1>3, <1>4 DEF scheduler, Executes

(* Nor does a delivered alarm.                                             *)
LEMMA InterruptStays == ASSUME IInv, signal_handler_alarm PROVE Stays
<1>1. node \in [Threads -> Nodes] /\ run.curr \in Threads
  BY DEF IInv, TypeOK, Nodes
<1>2. PICK c \in {"sched", "handler"} : node' = [node EXCEPT ![run.curr].ctx = c]
  BY DEF signal_handler_alarm
<1>3. \A u \in Threads : node'[u].state = node[u].state
  BY <1>1, <1>2 DEF Nodes
<1>4. QED
  BY <1>3 DEF Stays

(* Nor one of a thread.                                                    *)
LEMMA MovesStay == ASSUME NEW t \in Threads, Moves(t) PROVE Stays
<1>1. ASSUME NEW u \in Threads, node[u].state = "TERMINATED" PROVE node'[u].state = "TERMINATED"
  <2>1. CASE u = t
    BY <1>1, <2>1 DEF Moves, Moved
  <2>2. CASE u # t
    BY <1>1, <2>2 DEF Moves, Touched
  <2>3. QED
    BY <2>1, <2>2
<1>2. QED
  BY <1>1 DEF Stays

(* A step of the code of a thread keeps the invariant and is one of those  *)
(* that Moves allows.                                                      *)
LEMMA ThreadStep ==
  ASSUME IInv, NEW t \in Threads,
         \/ \E k \in Threads :
              thread_create(t, k) \/ CallJoin(t, k) \/ CallKill(t, k) \/ CallPost(t, k)
         \/ CallCreate(t) \/ CallExit(t) \/ CallLock(t) \/ CallUnlock(t)
         \/ Library(t)
  PROVE  IInv' /\ Moves(t)
<1>1. CASE \E k \in Threads :
             thread_create(t, k) \/ CallJoin(t, k) \/ CallKill(t, k) \/ CallPost(t, k)
  BY <1>1, ThreadCreateStep, CallJoinStep, CallKillStep, CallPostStep
<1>2. CASE CallCreate(t) \/ CallExit(t) \/ CallLock(t) \/ CallUnlock(t)
  BY <1>2, CallCreateStep, CallExitStep, CallMutexStep DEF CallLock, CallUnlock
<1>3. CASE Library(t)
  <2>1. CASE acquire(t) \/ release(t) \/ thread_insert(t) \/ thread_exit(t)
    BY <2>1, AcquireStep, ReleaseStep, InsertStep, ExitStep
  <2>2. CASE thread_join(t) \/ cleanup(t) \/ thread_kill(t) \/ Post(t)
    BY <2>2, JoinStep, CleanupStep, KillStep, PostStep
  <2>3. CASE acquiresleep(t) \/ sleep_lock(t) \/ releasesleep(t) \/ wakeup_lock(t)
    BY <2>3, AcquireSleepStep, SleepLockStep, ReleaseSleepStep, WakeupStep
  <2>4. QED
    BY <1>3, <2>1, <2>2, <2>3 DEF Library
<1>4. QED
  BY <1>1, <1>2, <1>3

(* A step of the code of any thread.                                       *)
ThreadMoves ==
  \E t \in Threads :
    \/ \E k \in Threads :
         thread_create(t, k) \/ CallJoin(t, k) \/ CallKill(t, k) \/ CallPost(t, k)
    \/ CallCreate(t) \/ CallExit(t) \/ CallLock(t) \/ CallUnlock(t)
    \/ Library(t)

(* The steps there are.                                                    *)
LEMMA Steps ==
  Next <=> \/ ThreadMoves
           \/ \E t \in Threads : handle_pending_signals(t)
           \/ Alarm \/ signal_handler_alarm \/ scheduler
BY DEF Next, ThreadMoves

(* Every step keeps the invariant, and brings nobody back.                 *)
LEMMA NextIInv == IInv /\ [Next]_vars => IInv' /\ Stays
<1> SUFFICES ASSUME IInv, [Next]_vars PROVE IInv' /\ Stays
  OBVIOUS
<1>1. CASE UNCHANGED vars
  <2>1. TypeOK'
    BY <1>1 DEF IInv, TypeOK, vars
  <2>2. Processor'
    BY <1>1 DEF IInv, Processor, CurrRuns, vars
  <2>3. \A t \in Threads : Local(t)'
    BY <1>1 DEF IInv, Local, Args, Places, Executing, Masks, Open, Timed, Locks, vars
  <2>4. QED
    BY <1>1, <2>1, <2>2, <2>3 DEF IInv, Stays, vars
<1>2. CASE ThreadMoves
  <2>1. PICK t \in Threads : IInv' /\ Moves(t)
    BY <1>2, ThreadStep DEF ThreadMoves
  <2>2. QED
    BY <2>1, MovesStay
<1>3. CASE \E t \in Threads : handle_pending_signals(t)
  <2>1. node' = node
    BY <1>3 DEF handle_pending_signals
  <2>2. QED
    BY <1>3, <2>1, HandlerStep DEF Stays
<1>4. CASE Alarm
  BY <1>4, AlarmStep DEF Alarm, Stays
<1>5. CASE signal_handler_alarm
  BY <1>5, InterruptStep, InterruptStays
<1>6. CASE scheduler
  BY <1>6, SchedulerStep, SchedulerStays
<1>7. QED
  BY <1>1, <1>2, <1>3, <1>4, <1>5, <1>6, Steps

(* The invariant holds of every reachable state.                           *)
THEOREM Invariance == Spec => []IInv
<1>1. IInv /\ [Next]_vars => IInv'
  BY NextIInv
<1>2. QED
  BY InitIInv, <1>1, PTL DEF Spec

(* Every variable has its type, with the alarm at every step of every      *)
(* stack: the jumps of the handler leave no frame and no lock half way in  *)
(* a state the library does not have.                                      *)
THEOREM TypeCorrect == Spec => []TypeOK
<1>1. IInv => TypeOK
  BY DEF IInv
<1>2. QED
  BY Invariance, <1>1, PTL

(* The executing thread is curr_running_proc, and its node is in the list  *)
(* and not freed when the scheduler reads it.                              *)
THEOREM Caller == Spec => []CurrRuns
<1>1. IInv => CurrRuns
  BY DEF IInv, Processor
<1>2. QED
  BY Invariance, <1>1, PTL

(* The lock of the thread list is free whenever it is about to be taken:   *)
(* its owner is a thread that executes with the alarm blocked.             *)
THEOREM ListLock == Spec => []ListLockFree
<1>1. ASSUME IInv PROVE ListLockFree
  <2>1. own["tl"] \in Threads \cup {NoTid} /\ Sched \notin Threads
    BY <1>1, Constants DEF IInv, TypeOK
  <2>2. ASSUME NEW u \in Threads, own["tl"] = u
        PROVE  run.cpu = u /\ frame[u].at \in {"sect", "rel"}
    <3>1. Locks(u) /\ Masks(u) /\ Args(u)
      BY <1>1 DEF IInv, Local
    <3>2. /\ LockOf(frame[u].op) = "tl" /\ frame[u].at \in {"sect", "rel"}
      BY <2>2, <3>1 DEF Locks
    <3>3. ~ Open(frame[u])
      BY <3>2 DEF Open, LockOf
    <3>4. QED
      BY <3>1, <3>2, <3>3 DEF Masks
  <2>3. QED
    BY <2>1, <2>2 DEF ListLockFree
<1>2. QED
  BY Invariance, <1>1, PTL

(* While a thread computes or waits in thread_join, the timer runs or its  *)
(* alarm is pending, and not blocked.                                      *)
THEOREM Alarmed == Spec => []AlarmComes
<1>1. ASSUME IInv PROVE AlarmComes
  <2>1. ASSUME NEW t \in Threads, run.cpu = t, run.at = "own", frame[t].at \in {"idle", "wait"}
        PROVE  ~ sig.blocked /\ (sig.armed \/ sig.pending)
    <3>1. Masks(t) /\ Places(frame[t])
      BY <1>1 DEF IInv, Local, Args
    <3>2. Open(frame[t]) /\ Timed(frame[t])
      BY <2>1, <3>1 DEF Open, Timed, Places, Locked
    <3>3. QED
      BY <2>1, <3>1, <3>2 DEF Masks
  <2>2. QED
    BY <2>1 DEF AlarmComes
<1>2. QED
  BY Invariance, <1>1, PTL

(* A thread that has terminated, or was killed, is never scheduled or      *)
(* woken again, by whatever pointer to its node is still used.             *)
THEOREM Terminated == Spec => TerminatedStays
<1>1. IInv /\ [Next]_vars =>
        [\A t \in Threads : node[t].state = "TERMINATED" => node'[t].state = "TERMINATED"]_vars
  BY NextIInv DEF Stays
<1>2. QED
  BY Invariance, <1>1, PTL DEF Spec, TerminatedStays

-----------------------------------------------------------------------------
(* A system that has stopped did not stop at an exchange.                  *)
Stopped == \A t \in Threads : fate # "running" /\ run.cpu = t => frame[t].at # "xchg"

(* A step of a thread.                                                     *)
LEMMA MovesStopped == ASSUME IInv, NEW t \in Threads, Moves(t) PROVE Stopped'
<1>1. PICK at \in Ats : Step(t, at)
  BY DEF Moves
<1>2. run.cpu = t /\ TypeOK
  BY <1>1, OwnCode
<1>3. run' = run \/ run'.cpu = Sched
  BY <1>2 DEF Moves, TypeOK, ToScheduler
<1>4. ASSUME NEW u \in Threads, fate' # "running", run'.cpu = u PROVE frame'[u].at # "xchg"
  <2>1. u = t
    BY <1>2, <1>3, <1>4, Constants
  <2>2. QED
    BY <1>4, <2>1 DEF Moves
<1>5. QED
  BY <1>4 DEF Stopped

(* Every step.                                                             *)
LEMMA NextStopped == ASSUME IInv, Stopped, [Next]_vars PROVE Stopped'
<1>1. CASE UNCHANGED vars
  BY <1>1 DEF Stopped, vars
<1>2. CASE ThreadMoves
  <2>1. PICK t \in Threads : Moves(t)
    BY <1>2, ThreadStep DEF ThreadMoves
  <2>2. QED
    BY <2>1, MovesStopped
<1>3. CASE \/ \E t \in Threads : handle_pending_signals(t)
           \/ Alarm \/ signal_handler_alarm
  <2>1. fate' = "running"
    BY <1>3 DEF handle_pending_signals, Alarm, signal_handler_alarm, Executes
  <2>2. QED
    BY <2>1 DEF Stopped
<1>4. CASE scheduler
  <2>1. run.cpu = Sched /\ (fate' # "running" => run' = run)
    BY <1>4 DEF scheduler, Executes
  <2>2. QED
    BY <2>1, Constants DEF Stopped
<1>5. QED
  BY <1>1, <1>2, <1>3, <1>4, Steps

(* A thread that finds lk taken has met the window of releasesleep between *)
(* the release of the list and the release of lk: everywhere else the      *)
(* owner of a spinlock has the alarm blocked, and so the processor.        *)
THEOREM SpinsOnlyForUnlock == Spec => []SpinsForUnlock
<1>1. Init => Stopped
  BY IdleFrame DEF Init, Stopped
<1>2. IInv /\ Stopped /\ [Next]_vars => Stopped'
  BY NextStopped
<1>3. ASSUME IInv, Stopped PROVE SpinsForUnlock
  <2>1. SUFFICES ASSUME NEW t \in Threads, run.cpu = t, frame[t].at = "xchg",
                        LockOf(frame[t].op) = "lk", own["lk"] # NoTid
                 PROVE  frame[own["lk"]].op = "unlocked"
    BY DEF SpinsForUnlock
  <2>2. fate = "running"
    BY <1>3, <2>1 DEF Stopped
  <2>3. PICK u \in Threads : own["lk"] = u
    BY <1>3, <2>1 DEF IInv, TypeOK
  <2>4. Locks(u) /\ Masks(u) /\ Args(t) /\ Locks(t)
    BY <1>3 DEF IInv, Local
  <2>5. \/ frame[u].op = "wake"
        \/ LockOf(frame[u].op) = "lk" /\ frame[u].at \in {"sect", "rel"}
    BY <2>2, <2>3, <2>4 DEF Locks
  <2>6. u # t
    BY <2>1, <2>5 DEF LockOf
  <2>7. Open(frame[u])
    BY <2>1, <2>4, <2>6 DEF Masks
  <2>8. QED
    BY <2>3, <2>5, <2>7 DEF Open
<1>4. QED
  BY InitIInv, NextIInv, <1>1, <1>2, <1>3, PTL DEF Spec

-----------------------------------------------------------------------------
(***************************************************************************)
(* The list and the nodes, with the alarm at every step.                   *)
(***************************************************************************)

(* thread_create before its insertion, and cleanup after it has unlinked   *)
(* the node it will free.                                                  *)
Creating(f) == f.op = "create" /\ f.at \in {"block", "xchg", "sect"}
Unlinking(f) == f.op = "clean" /\ f.at \in {"rel", "done"} /\ f.found

(* A node in the list has been made, and is not freed.                     *)
Linked == \A u \in Threads : Contains(list, u) => ~ node[u].freed /\ node[u].state # "UNBORN"

(* A node outside the list that a thread still has a pointer to: one that  *)
(* nobody else inserts and that is alive, or one that nobody else frees    *)
(* and that is not freed yet.                                              *)
Pointers(t) ==
  LET f == frame[t] IN
  /\ Unlinking(f) =>
       /\ ~ Contains(list, f.k) /\ ~ node[f.k].freed
       /\ \A u \in Threads \ {t} : Unlinking(frame[u]) => frame[u].k # f.k
  /\ Creating(f) =>
       /\ ~ Contains(list, f.k) /\ node[f.k].state \notin {"UNBORN", "TERMINATED"}
       /\ \A u \in Threads \ {t} : Creating(frame[u]) => frame[u].k # f.k

ListInv == Once(list) /\ Linked /\ \A t \in Threads : Pointers(t)

(* A step that inserts nobody and unlinks and frees nobody.                *)
Settled ==
  /\ list' = list
  /\ \A u \in Threads :
       /\ node'[u].freed => node[u].freed
       /\ node'[u].state = "UNBORN" => node[u].state = "UNBORN"
       /\ node'[u].state = "TERMINATED" => node[u].state = "TERMINATED" \/ Contains(list, u)
       /\ Creating(frame'[u]) => Creating(frame[u]) /\ frame'[u].k = frame[u].k
       /\ Unlinking(frame'[u]) => Unlinking(frame[u]) /\ frame'[u].k = frame[u].k

(* The first state.                                                        *)
LEMMA InitList == Init => ListInv
<1> SUFFICES ASSUME Init PROVE ListInv
  OBVIOUS
<1>1. list = <<Main>> /\ \A u \in Threads : Contains(list, u) => u = Main
  BY DEF Init, Contains
<1>2. Once(list)
  BY <1>1 DEF Once
<1>3. Linked
  BY <1>1, Constants DEF Init, Linked
<1>4. \A t \in Threads : Pointers(t)
  BY IdleFrame DEF Init, Pointers, Creating, Unlinking
<1>5. QED
  BY <1>2, <1>3, <1>4 DEF ListInv

(* Such a step keeps what is said of the list.                             *)
LEMMA SettledStep == ASSUME IInv, ListInv, Settled PROVE ListInv'
<1>1. list' = list /\ Once(list) /\ Linked
  BY DEF ListInv, Settled
<1>2. Linked'
  BY <1>1 DEF Linked, Settled
<1>3. ASSUME NEW t \in Threads PROVE Pointers(t)'
  <2>1. Pointers(t) /\ Args(t)
    BY DEF ListInv, IInv, Local
  <2>2. ASSUME Unlinking(frame'[t])
        PROVE  /\ ~ Contains(list', frame'[t].k) /\ ~ node'[frame'[t].k].freed
               /\ \A u \in Threads \ {t} : Unlinking(frame'[u]) => frame'[u].k # frame'[t].k
    <3>1. Unlinking(frame[t]) /\ frame'[t].k = frame[t].k
      BY <2>2 DEF Settled
    <3>2. PICK k \in Threads : k = frame[t].k
      BY <2>1, <3>1 DEF Args, Unlinking
    <3>3. /\ ~ Contains(list, k) /\ ~ node[k].freed
          /\ \A u \in Threads \ {t} : Unlinking(frame[u]) => frame[u].k # k
      BY <2>1, <3>1, <3>2 DEF Pointers
    <3>4. ~ node'[k].freed
      BY <3>3 DEF Settled
    <3>5. \A u \in Threads \ {t} : Unlinking(frame'[u]) => frame'[u].k # k
      BY <3>3 DEF Settled
    <3>6. QED
      BY <1>1, <3>1, <3>2, <3>3, <3>4, <3>5
  <2>3. ASSUME Creating(frame'[t])
        PROVE  /\ ~ Contains(list', frame'[t].k)
               /\ node'[frame'[t].k].state \notin {"UNBORN", "TERMINATED"}
               /\ \A u \in Threads \ {t} : Creating(frame'[u]) => frame'[u].k # frame'[t].k
    <3>1. Creating(frame[t]) /\ frame'[t].k = frame[t].k
      BY <2>3 DEF Settled
    <3>2. PICK k \in Threads : k = frame[t].k
      BY <2>1, <3>1 DEF Args, Creating
    <3>3. /\ ~ Contains(list, k) /\ node[k].state \notin {"UNBORN", "TERMINATED"}
          /\ \A u \in Threads \ {t} : Creating(frame[u]) => frame[u].k # k
      BY <2>1, <3>1, <3>2 DEF Pointers
    <3>4. node'[k].state \notin {"UNBORN", "TERMINATED"}
      BY <3>3 DEF Settled
    <3>5. \A u \in Threads \ {t} : Creating(frame'[u]) => frame'[u].k # k
      BY <3>3 DEF Settled
    <3>6. QED
      BY <1>1, <3>1, <3>2, <3>3, <3>4, <3>5
  <2>4. QED
    BY <2>2, <2>3 DEF Pointers
<1>4. QED
  BY <1>1, <1>2, <1>3 DEF ListInv

(* A step of a thread that is no creation, insertion or cleanup.           *)
LEMMA MovesSettled ==
  ASSUME IInv, NEW t \in Threads, Moves(t), list' = list,
         \A u \in Threads : node'[u].freed => node[u].freed,
         frame[t].op = "kill" /\ frame[t].at = "sect" =>
           \A u \in Threads :
             node'[u].state = "TERMINATED" => node[u].state = "TERMINATED" \/ Contains(list, u),
         Creating(frame'[t]) => Creating(frame[t]) /\ frame'[t].k = frame[t].k,
         Unlinking(frame'[t]) => Unlinking(frame[t]) /\ frame'[t].k = frame[t].k
  PROVE  Settled
<1>1. \A u \in Threads \ {t} : frame'[u] = frame[u] /\ Touched(node[u], node'[u])
  BY DEF Moves
<1>2. Moved(node[t], node'[t], frame'[t])
  BY DEF Moves
<1>3. Contains(list, t)
  BY OwnCode DEF Moves
<1>4. ASSUME NEW u \in Threads, node'[u].state = "UNBORN" PROVE node[u].state = "UNBORN"
  <2>1. CASE u # t
    BY <1>1, <1>4, <2>1 DEF Touched
  <2>2. CASE u = t
    BY <1>2, <1>4, <2>2 DEF Moved
  <2>3. QED
    BY <2>1, <2>2
<1>5. ASSUME NEW u \in Threads, node'[u].state = "TERMINATED"
      PROVE  node[u].state = "TERMINATED" \/ Contains(list, u)
  <2>1. CASE u # t
    BY <1>5, <2>1 DEF Moves
  <2>2. CASE u = t
    BY <1>3, <2>2
  <2>3. QED
    BY <2>1, <2>2
<1>6. \A u \in Threads :
        /\ Creating(frame'[u]) => Creating(frame[u]) /\ frame'[u].k = frame[u].k
        /\ Unlinking(frame'[u]) => Unlinking(frame[u]) /\ frame'[u].k = frame[u].k
  BY <1>1
<1>7. QED
  BY <1>4, <1>5, <1>6 DEF Settled

(* Whoever unlinks a node after a step unlinked it before.                 *)
LEMMA UnlinkingKept ==
  ASSUME IInv, NEW u \in Threads, Pointers(u), Unlinking(frame[u]), frame'[u] = frame[u],
         ~ Contains(list', frame[u].k), node'[frame[u].k].freed => node[frame[u].k].freed,
         \A v \in Threads \ {u} : Unlinking(frame'[v]) =>
           (Unlinking(frame[v]) /\ frame'[v].k = frame[v].k) \/ frame'[v].k # frame[u].k
  PROVE  /\ ~ Contains(list', frame'[u].k) /\ ~ node'[frame'[u].k].freed
         /\ \A v \in Threads \ {u} : Unlinking(frame'[v]) => frame'[v].k # frame'[u].k
BY DEF Pointers

(* A frame of another operation creates and unlinks nothing.               *)
LEMMA OtherOp ==
  ASSUME NEW g, g.op \notin {"create", "clean"} \/ (g.op = "clean" /\ g.at = "block")
  PROVE  ~ Creating(g) /\ ~ Unlinking(g)
BY DEF Creating, Unlinking

-----------------------------------------------------------------------------
(* A step that has nothing to do with creation, cleanup and the search of  *)
(* thread_kill.                                                            *)
LEMMA OffStep ==
  ASSUME IInv, IInv', NEW t \in Threads, Moves(t), list' = list,
         \A u \in Threads : node'[u].freed => node[u].freed,
         frame[t].op # "kill" \/ frame[t].at # "sect",
         NEW g, g = frame'[t],
         g.op \notin {"create", "clean"} \/ (g.op = "clean" /\ g.at = "block")
  PROVE  Settled
BY OtherOp, MovesSettled

(* The calls of the program.                                               *)
LEMMA CallSettled ==
  ASSUME IInv, IInv', NEW t \in Threads, Moves(t),
         \/ \E k \in Threads : CallJoin(t, k) \/ CallKill(t, k)
         \/ CallCreate(t) \/ CallExit(t) \/ CallLock(t) \/ CallUnlock(t)
  PROVE  Settled
<1>1. /\ At(t, "none", "idle") /\ UNCHANGED <<list, node>>
  BY DEF CallJoin, CallKill, CallCreate, CallExit, CallLock, CallUnlock
<1>2. frame \in [Threads -> Frames] /\ frame[t].op = "none" /\ TypeOK
  BY <1>1, OwnCode DEF At
<1>3. ASSUME NEW f \in Frames, Goto(t, f),
             f.op \notin {"create", "clean"} \/ (f.op = "create" /\ f.at = "id")
      PROVE  Settled
  <2>1. frame'[t] = f
    BY <1>2, <1>3, GotoKeeps
  <2>2. ~ Creating(f) /\ ~ Unlinking(f)
    BY <1>3 DEF Creating, Unlinking
  <2>3. QED
    BY <1>1, <1>2, <2>1, <2>2, MovesSettled
<1>4. ASSUME NEW op \in {"join", "kill", "lock", "unlock"}, NEW k \in Threads \cup {NoTid},
             Goto(t, Locking(op, k))
      PROVE  Settled
  <2>1. Locking(op, k) \in Frames /\ Locking(op, k).op = op
    BY LockingFrame DEF Ops
  <2>2. QED
    BY <1>3, <1>4, <2>1
<1>5. ASSUME NEW f, f = [Idle EXCEPT !.op = "exit", !.at = "state"], Goto(t, f)
      PROVE  Settled
  <2>1. f \in Frames /\ f.op = "exit"
    BY <1>5, ExitFrame
  <2>2. QED
    BY <1>3, <1>5, <2>1
<1>6. ASSUME CallCreate(t) PROVE Settled
  <2>1. PICK i \in Int : i = calls.id
    BY <1>2 DEF TypeOK
  <2>2. PICK f : f = [Idle EXCEPT !.op = "create", !.at = "id", !.i = i]
    OBVIOUS
  <2>3. f \in Frames /\ f.op = "create" /\ f.at = "id"
    BY <2>2, IdleFrame DEF Frames
  <2>4. Goto(t, f)
    BY <1>6, <2>1, <2>2 DEF CallCreate
  <2>5. QED
    BY <1>3, <2>3, <2>4
<1>7. QED
  BY <1>4, <1>5, <1>6 DEF CallJoin, CallKill, CallExit, CallLock, CallUnlock

(* acquire.                                                                *)
LEMMA AcquireSettled ==
  ASSUME IInv, IInv', NEW t \in Threads, Moves(t), acquire(t)
  PROVE  Settled
<1>1. PICK a \in {"block", "xchg"}, b \in {"xchg", "sect"} : Step(t, a) /\ GoAt(t, b)
  BY DEF acquire
<1>2. frame \in [Threads -> Frames] /\ frame[t].at = a
  BY <1>1, OwnCode
<1>3. UNCHANGED <<list, node>>
  BY DEF acquire
<1>4. /\ frame'[t].at = b /\ frame'[t].op = frame[t].op /\ frame'[t].k = frame[t].k
      /\ frame'[t].found = frame[t].found
  BY <1>1, <1>2, GoAtKeeps DEF Ats
<1>5. /\ Creating(frame'[t]) => Creating(frame[t])
      /\ ~ Unlinking(frame'[t])
  BY <1>2, <1>4 DEF Creating, Unlinking
<1>6. QED
  BY <1>2, <1>3, <1>4, <1>5, MovesSettled

(* release.                                                                *)
LEMMA ReleaseSettled ==
  ASSUME IInv, IInv', NEW t \in Threads, Moves(t), release(t)
  PROVE  Settled
<1>1. /\ Step(t, "rel") /\ Goto(t, AfterRelease(frame[t])) /\ UNCHANGED <<list, node>>
  BY DEF release
<1>2. /\ frame \in [Threads -> Frames] /\ frame[t] \in Frames /\ frame[t].at = "rel"
      /\ Places(frame[t])
  BY <1>1, OwnCode DEF Args
<1>3. PICK f, g : f = frame[t] /\ g = AfterRelease(f)
  OBVIOUS
<1>4. /\ g \in Frames /\ g.op \in {"none", "join", "post", "unlocked", "clean", "kill", "sleep"}
      /\ g.op \in {"clean", "kill", "sleep"} => g.at = "done"
      /\ g.at # "idle" => (g.op = f.op /\ g.k = f.k) \/ g.op = "unlocked"
  BY <1>2, <1>3, AfterReleaseFrame
<1>5. frame'[t] = g
  BY <1>1, <1>2, <1>3, <1>4, GotoKeeps
<1>6. ASSUME g.op = "clean" PROVE f.op = "clean" /\ g.k = f.k /\ g.found = f.found
  <2>1. f.op = "clean" /\ g.k = f.k
    BY <1>4, <1>6
  <2>2. g = [f EXCEPT !.at = "done"]
    BY <1>3, <2>1 DEF AfterRelease
  <2>3. g.found = f.found
    BY <1>2, <1>3, <2>2 DEF Frames
  <2>4. QED
    BY <2>1, <2>3
<1>7. ~ Creating(g) /\ (Unlinking(g) => Unlinking(f) /\ g.k = f.k)
  BY <1>2, <1>3, <1>4, <1>6 DEF Creating, Unlinking
<1>8. QED
  BY <1>1, <1>2, <1>3, <1>5, <1>7, MovesSettled

(* What the steps of a thread write into nodes, other than cleanup's: the  *)
(* node is freed as before.                                                *)
LEMMA FreedKept ==
  ASSUME node \in [Threads -> Nodes], NEW k \in Threads,
         \/ node' = node
         \/ \E s : node' = [node EXCEPT ![k].state = s]
         \/ \E c : node' = [node EXCEPT ![k].ctx = c]
         \/ \E c : node' = [node EXCEPT ![k].chan = c]
         \/ \E c, s : node' = [node EXCEPT ![k].chan = c, ![k].state = s]
         \/ \E c, s : node' = [node EXCEPT ![k].state = s, ![k].ctx = c]
  PROVE  \A u \in Threads : node'[u].freed = node[u].freed
<1>1. PICK n : n = node[k]
  OBVIOUS
<1>2. n \in Nodes
  BY <1>1
<1>3. PICK m : node' = [node EXCEPT ![k] = m] /\ m.freed = n.freed
  <2>1. CASE node' = node
    BY <1>1, <2>1
  <2>2. ASSUME NEW s, node' = [node EXCEPT ![k].state = s]
        PROVE  \E m : node' = [node EXCEPT ![k] = m] /\ m.freed = n.freed
    <3>1. PICK m : m = [n EXCEPT !.state = s]
      OBVIOUS
    <3>2. m.freed = n.freed
      BY <1>2, <3>1 DEF Nodes
    <3>3. QED
      BY <1>1, <2>2, <3>1, <3>2
  <2>3. ASSUME NEW c, node' = [node EXCEPT ![k].ctx = c]
        PROVE  \E m : node' = [node EXCEPT ![k] = m] /\ m.freed = n.freed
    <3>1. PICK m : m = [n EXCEPT !.ctx = c]
      OBVIOUS
    <3>2. m.freed = n.freed
      BY <1>2, <3>1 DEF Nodes
    <3>3. QED
      BY <1>1, <2>3, <3>1, <3>2
  <2>4. ASSUME NEW c, node' = [node EXCEPT ![k].chan = c]
        PROVE  \E m : node' = [node EXCEPT ![k] = m] /\ m.freed = n.freed
    <3>1. PICK m : m = [n EXCEPT !.chan = c]
      OBVIOUS
    <3>2. m.freed = n.freed
      BY <1>2, <3>1 DEF Nodes
    <3>3. QED
      BY <1>1, <2>4, <3>1, <3>2
  <2>5. ASSUME NEW c, NEW s, node' = [node EXCEPT ![k].chan = c, ![k].state = s]
        PROVE  \E m : node' = [node EXCEPT ![k] = m] /\ m.freed = n.freed
    <3>1. PICK m : m = [n EXCEPT !.chan = c, !.state = s]
      OBVIOUS
    <3>2. m.freed = n.freed
      BY <1>2, <3>1 DEF Nodes
    <3>3. QED
      BY <1>1, <2>5, <3>1, <3>2
  <2>6. ASSUME NEW c, NEW s, node' = [node EXCEPT ![k].state = s, ![k].ctx = c]
        PROVE  \E m : node' = [node EXCEPT ![k] = m] /\ m.freed = n.freed
    <3>1. PICK m : m = [n EXCEPT !.state = s, !.ctx = c]
      OBVIOUS
    <3>2. m.freed = n.freed
      BY <1>2, <3>1 DEF Nodes
    <3>3. QED
      BY <1>1, <2>6, <3>1, <3>2
  <2>7. QED
    BY <2>1, <2>2, <2>3, <2>4, <2>5, <2>6
<1>4. QED
  BY <1>1, <1>3

(* The end of a thread, and the wait of thread_join.                       *)
LEMMA ExitSettled ==
  ASSUME IInv, IInv', NEW t \in Threads, Moves(t), thread_exit(t) \/ thread_join(t)
  PROVE  Settled
<1>1. PICK op \in {"exit", "join"}, at \in {"state", "jump", "sect", "wait"} : At(t, op, at)
  BY DEF thread_exit, thread_join
<1>2. /\ frame \in [Threads -> Frames] /\ frame[t] \in Frames /\ frame[t].op = op
      /\ node \in [Threads -> Nodes]
  BY <1>1, OwnCode DEF At
<1>3. list' = list
  BY DEF thread_exit, thread_join
<1>4. \A u \in Threads : node'[u].freed => node[u].freed
  <2>1. node' = node \/ node' = [node EXCEPT ![t].state = ExitState]
    BY DEF thread_exit, thread_join
  <2>2. QED
    BY <1>2, <2>1, FreedKept
<1>5. frame'[t].op \in {"exit", "join"} \/ (frame'[t].op = "clean" /\ frame'[t].at = "block")
  <2>1. CASE thread_exit(t)
    <3>1. GoAt(t, "jump") \/ frame' = frame
      BY <2>1 DEF thread_exit
    <3>2. QED
      BY <1>1, <1>2, <3>1, GoAtKeeps DEF Ats
  <2>2. CASE frame' = [frame EXCEPT ![t].at = "rel", ![t].found = Contains(list, frame[t].k)]
    <3>1. Contains(list, frame[t].k) \in BOOLEAN
      BY ContainsBoolean
    <3>2. QED
      BY <1>1, <1>2, <2>2, <3>1, FoundKeeps
  <2>3. CASE Goto(t, Locking("clean", frame[t].k))
    <3>1. PICK k \in Threads \cup {NoTid} : k = frame[t].k
      BY <1>2 DEF Frames
    <3>2. /\ Locking("clean", k) \in Frames /\ Locking("clean", k).op = "clean"
          /\ Locking("clean", k).at = "block"
      BY LockingFrame DEF Ops
    <3>3. QED
      BY <1>2, <2>3, <3>1, <3>2, GotoKeeps
  <2>4. QED
    BY <2>1, <2>2, <2>3 DEF thread_join
<1>6. QED
  BY <1>1, <1>2, <1>3, <1>4, <1>5, OffStep

(* The search of thread_kill, and its end.                                 *)
LEMMA KillSettled ==
  ASSUME IInv, IInv', NEW t \in Threads, Moves(t), thread_kill(t)
  PROVE  Settled
<1>1. PICK op \in {"kill", "post"}, at \in {"sect", "done"} : At(t, op, at)
  BY DEF thread_kill
<1>2. /\ frame \in [Threads -> Frames] /\ frame[t] \in Frames /\ frame[t].op = op
      /\ frame[t].at = at /\ node \in [Threads -> Nodes] /\ Args(t)
  BY <1>1, OwnCode DEF At
<1>3. list' = list
  BY DEF thread_kill
<1>4. CASE at = "done"
  <2>1. Goto(t, Idle) /\ node' = node
    BY <1>2, <1>4 DEF thread_kill, At, Step
  <2>2. frame'[t].op = "none" /\ frame'[t].at = "idle"
    BY <1>2, <2>1, GotoKeeps, IdleFrame
  <2>3. QED
    BY <1>2, <1>3, <1>4, <2>1, <2>2, OtherOp, MovesSettled
<1>5. CASE at = "sect"
  <2>1. PICK k \in Threads, b \in BOOLEAN : k = frame[t].k /\ b = Contains(list, k)
    BY <1>2, <1>5, ContainsBoolean DEF Args
  <2>2. /\ frame' = [frame EXCEPT ![t].at = "rel", ![t].found = b]
        /\ node' = IF b /\ op = "kill" THEN [node EXCEPT ![k].state = "TERMINATED"] ELSE node
    BY <1>2, <1>5, <2>1 DEF thread_kill, At, Step
  <2>3. /\ frame'[t].at = "rel" /\ frame'[t].op = op /\ frame'[t].k = k /\ frame'[t].found = b
    BY <1>2, <2>1, <2>2, FoundKeeps
  <2>4. \A u \in Threads : node'[u].freed => node[u].freed
    BY <1>2, <2>2, FreedKept
  <2>5. ASSUME NEW u \in Threads, node'[u].state = "TERMINATED"
        PROVE  node[u].state = "TERMINATED" \/ Contains(list, u)
    <3>1. CASE node' = node
      BY <2>5, <3>1
    <3>2. CASE b /\ node' = [node EXCEPT ![k].state = "TERMINATED"]
      <4>1. \A v \in Threads \ {k} : node'[v] = node[v]
        BY <1>2, <3>2, StateKeeps
      <4>2. QED
        BY <2>1, <2>5, <3>2, <4>1
    <3>3. QED
      BY <2>2, <3>1, <3>2
  <2>6. QED
    BY <1>2, <1>3, <2>3, <2>4, <2>5, OtherOp, MovesSettled
<1>6. QED
  BY <1>4, <1>5

(* The mutex.                                                              *)
LEMMA MutexSettled ==
  ASSUME IInv, IInv', NEW t \in Threads, Moves(t),
         acquiresleep(t) \/ sleep_lock(t) \/ releasesleep(t) \/ wakeup_lock(t)
  PROVE  Settled
<1>1. PICK op \in {"lock", "relock", "sleep", "unlock", "wake"}, at \in Ats : At(t, op, at)
  BY DEF acquiresleep, sleep_lock, releasesleep, wakeup_lock, Ats
<1>2. /\ frame \in [Threads -> Frames] /\ frame[t] \in Frames /\ frame[t].op = op
      /\ node \in [Threads -> Nodes] /\ list \in Seq(Threads)
  BY <1>1, OwnCode DEF At, TypeOK
<1>3. list' = list
  BY DEF acquiresleep, sleep_lock, releasesleep, wakeup_lock
<1>4. \A u \in Threads : node'[u].freed => node[u].freed
  <2>1. CASE acquiresleep(t)
    <3>1. node' = node \/ node' = [node EXCEPT ![t].chan = TRUE, ![t].state = "SLEEPING"]
      BY <2>1 DEF acquiresleep
    <3>2. QED
      BY <1>2, <3>1, FreedKept
  <2>2. CASE sleep_lock(t)
    <3>1. \/ node' = node
          \/ node' = [node EXCEPT ![t].ctx = "asleep"]
          \/ node' = [node EXCEPT ![t].chan = FALSE]
      BY <2>2 DEF sleep_lock
    <3>2. QED
      BY <1>2, <3>1, FreedKept
  <2>3. CASE releasesleep(t)
    BY <2>3 DEF releasesleep
  <2>4. CASE wakeup_lock(t)
    <3>1. CASE Sleepers = {}
      BY <2>4, <3>1 DEF wakeup_lock
    <3>2. CASE Sleepers # {}
      <4>1. node' = [node EXCEPT ![list[Min(Sleepers)]].state = "RUNNABLE"]
        BY <2>4, <3>2 DEF wakeup_lock
      <4>2. list[Min(Sleepers)] \in Threads
        BY <1>2, <3>2, FirstSleeper
      <4>3. QED
        BY <1>2, <4>1, <4>2, FreedKept
    <3>3. QED
      BY <3>1, <3>2
  <2>5. QED
    BY <2>1, <2>2, <2>3, <2>4
<1>5. frame'[t].op \in {"lock", "relock", "sleep", "unlock", "wake"}
  <2>1. ASSUME NEW a \in Ats, GoAt(t, a) PROVE frame'[t].op = op
    BY <1>2, <2>1, GoAtKeeps
  <2>2. ASSUME NEW o \in {"relock", "wake"}, Goto(t, Locking(o, NoTid)) PROVE frame'[t].op = o
    <3>1. Locking(o, NoTid) \in Frames /\ Locking(o, NoTid).op = o
      BY LockingFrame DEF Ops
    <3>2. QED
      BY <1>2, <2>2, <3>1, GotoKeeps
  <2>3. ASSUME NEW f, f = [Idle EXCEPT !.op = "sleep", !.at = "rel"], Goto(t, f) PROVE frame'[t].op = "sleep"
    <3>1. f \in Frames /\ f.op = "sleep"
      BY <2>3, OtherFrame DEF Ops, Ats
    <3>2. QED
      BY <1>2, <2>3, <3>1, GotoKeeps
  <2>4. \/ frame' = frame
        \/ \E a \in Ats : GoAt(t, a)
        \/ \E o \in {"relock", "wake"} : Goto(t, Locking(o, NoTid))
        \/ Goto(t, [Idle EXCEPT !.op = "sleep", !.at = "rel"])
    BY DEF acquiresleep, sleep_lock, releasesleep, wakeup_lock, Ats
  <2>5. QED
    BY <1>2, <2>1, <2>2, <2>3, <2>4
<1>6. QED
  BY <1>2, <1>3, <1>4, <1>5, OffStep

(* thread_create makes a node that nobody else is creating and that is not *)
(* in the list.                                                            *)
LEMMA CreateList ==
  ASSUME IInv, IInv', ListInv, NEW t \in Threads, NEW k \in Threads, thread_create(t, k)
  PROVE  ListInv'
<1>1. /\ At(t, "create", "id") /\ node[k].state = "UNBORN" /\ Goto(t, Locking("create", k))
      /\ node' = [node EXCEPT ![k].state = "RUNNABLE", ![k].ctx = "new"]
      /\ list' = list
  BY DEF thread_create, Unborn
<1>2. /\ frame \in [Threads -> Frames] /\ node \in [Threads -> Nodes]
  BY <1>1, OwnCode DEF At
<1>3. PICK f \in Frames : f = Locking("create", k) /\ f.op = "create" /\ f.at = "block" /\ f.k = k
  BY LockingFrame DEF Ops
<1>4. frame'[t] = f /\ \A u \in Threads \ {t} : frame'[u] = frame[u]
  BY <1>1, <1>2, <1>3, GotoKeeps
<1>5. /\ \A u \in Threads : node'[u].freed = node[u].freed
      /\ \A u \in Threads \ {k} : node'[u] = node[u]
      /\ node'[k].state = "RUNNABLE"
  <2>1. \A u \in Threads : node'[u].freed = node[u].freed
    BY <1>1, <1>2, FreedKept
  <2>2. PICK n \in Nodes : n = node[k]
    BY <1>2
  <2>3. PICK m : m = [n EXCEPT !.state = "RUNNABLE", !.ctx = "new"]
    OBVIOUS
  <2>4. m.state = "RUNNABLE"
    BY <2>3 DEF Nodes
  <2>5. node' = [node EXCEPT ![k] = m]
    BY <1>1, <2>2, <2>3
  <2>6. QED
    BY <1>2, <2>1, <2>4, <2>5
<1>6. ~ Contains(list, k)
  BY <1>1 DEF ListInv, Linked
<1>7. Once(list') /\ Linked'
  BY <1>1, <1>5, <1>6 DEF ListInv, Linked
<1>8. ASSUME NEW u \in Threads \ {t}, Creating(frame[u])
      PROVE  frame[u].k \in Threads \ {k} /\ node'[frame[u].k] = node[frame[u].k]
  <2>1. Pointers(u) /\ Args(u)
    BY DEF ListInv, IInv, Local
  <2>2. frame[u].k \in Threads /\ node[frame[u].k].state # "UNBORN"
    BY <1>8, <2>1 DEF Pointers, Args, Creating
  <2>3. QED
    BY <1>1, <1>5, <2>2
<1>9. ASSUME NEW u \in Threads PROVE Pointers(u)'
  <2>1. CASE u = t
    <3>1. ~ Unlinking(f) /\ frame'[u] = f /\ f.k = k
      BY <1>3, <1>4, <2>1 DEF Unlinking
    <3>2. \A v \in Threads \ {t} : Creating(frame'[v]) => frame'[v].k # k
      BY <1>4, <1>8
    <3>3. QED
      BY <1>1, <1>5, <1>6, <2>1, <3>1, <3>2 DEF Pointers
  <2>2. CASE u # t
    <3>1. Pointers(u) /\ frame'[u] = frame[u] /\ list' = list
      BY <1>1, <1>4, <2>2 DEF ListInv
    <3>2. ASSUME Creating(frame[u])
          PROVE  /\ node'[frame[u].k].state \notin {"UNBORN", "TERMINATED"}
                 /\ \A v \in Threads \ {u} : Creating(frame'[v]) => frame'[v].k # frame[u].k
      <4>1. frame[u].k # k /\ node'[frame[u].k] = node[frame[u].k]
        BY <1>8, <2>2, <3>2
      <4>2. ASSUME NEW v \in Threads \ {u}, Creating(frame'[v]) PROVE frame'[v].k # frame[u].k
        <5>1. CASE v = t
          BY <1>3, <1>4, <4>1, <5>1
        <5>2. CASE v # t
          BY <1>4, <3>1, <3>2, <4>2, <5>2 DEF Pointers
        <5>3. QED
          BY <5>1, <5>2
      <4>3. QED
        BY <3>1, <3>2, <4>1, <4>2 DEF Pointers
    <3>3. ASSUME Unlinking(frame[u])
          PROVE  /\ ~ Contains(list', frame'[u].k) /\ ~ node'[frame'[u].k].freed
                 /\ \A v \in Threads \ {u} : Unlinking(frame'[v]) => frame'[v].k # frame'[u].k
      <4>1. frame[u].k \in Threads
        BY <3>3 DEF IInv, Local, Args, Unlinking
      <4>2. \A v \in Threads \ {u} : Unlinking(frame'[v]) => Unlinking(frame[v]) /\ frame'[v] = frame[v]
        BY <1>3, <1>4 DEF Unlinking
      <4>3. ~ Contains(list', frame[u].k) /\ node'[frame[u].k].freed = node[frame[u].k].freed
        BY <1>5, <3>1, <3>3, <4>1 DEF Pointers
      <4>4. QED
        BY <3>1, <3>3, <4>2, <4>3, UnlinkingKept
    <3>4. QED
      BY <3>1, <3>2, <3>3 DEF Pointers
  <2>3. QED
    BY <2>1, <2>2
<1>10. QED
  BY <1>7, <1>9 DEF ListInv

(* thread_insert links a node that is not in the list.                     *)
LEMMA InsertList ==
  ASSUME IInv, IInv', ListInv, NEW t \in Threads, thread_insert(t)
  PROVE  ListInv'
<1>1. /\ At(t, "create", "sect") /\ list' = <<frame[t].k>> \o list /\ GoAt(t, "rel")
      /\ node' = node
  BY DEF thread_insert
<1>2. /\ frame \in [Threads -> Frames] /\ frame[t].op = "create" /\ frame[t].at = "sect"
      /\ list \in Seq(Threads) /\ Args(t)
  BY <1>1, OwnCode DEF At, TypeOK
<1>3. /\ frame'[t].op = "create" /\ frame'[t].at = "rel"
      /\ \A u \in Threads \ {t} : frame'[u] = frame[u]
  BY <1>1, <1>2, GoAtKeeps DEF Ats
<1>4. PICK k \in Threads : k = frame[t].k
  BY <1>2 DEF Args
<1>5. /\ ~ Contains(list, k) /\ node[k].state \notin {"UNBORN", "TERMINATED"}
      /\ \A u \in Threads \ {t} : Creating(frame[u]) => frame[u].k # k
  BY <1>2, <1>4 DEF ListInv, Pointers, Creating
<1>6. Once(list') /\ \A u : Contains(list', u) => u = k \/ Contains(list, u)
  BY <1>1, <1>2, <1>4, <1>5, ConsOnly DEF ListInv
<1>7. Linked'
  <2>1. ~ node[k].freed
    BY <1>5 DEF IInv, Local, Args
  <2>2. QED
    BY <1>1, <1>5, <1>6, <2>1 DEF ListInv, Linked
<1>8. ASSUME NEW u \in Threads PROVE Pointers(u)'
  <2>1. CASE u = t
    BY <1>3, <2>1 DEF Pointers, Creating, Unlinking
  <2>2. CASE u # t
    <3>1. Pointers(u) /\ Args(u) /\ frame'[u] = frame[u] /\ node' = node
      BY <1>1, <1>3, <2>2 DEF ListInv, IInv, Local
    <3>2. Unlinking(frame[u]) => frame[u].k # k
      BY <1>5, <3>1 DEF Args, Unlinking
    <3>3. Creating(frame[u]) => frame[u].k # k
      BY <1>5, <2>2
    <3>4. \A v \in Threads : Creating(frame'[v]) => Creating(frame[v]) /\ frame'[v] = frame[v]
      BY <1>3 DEF Creating
    <3>5. \A v \in Threads : Unlinking(frame'[v]) => Unlinking(frame[v]) /\ frame'[v] = frame[v]
      BY <1>3 DEF Unlinking
    <3>6. QED
      BY <1>6, <3>1, <3>2, <3>3, <3>4, <3>5 DEF Pointers
  <2>3. QED
    BY <2>1, <2>2
<1>9. QED
  BY <1>6, <1>7, <1>8 DEF ListInv

(* cleanup unlinks its node once, and frees a node it has unlinked.        *)
LEMMA CleanupList ==
  ASSUME IInv, IInv', ListInv, NEW t \in Threads, cleanup(t)
  PROVE  ListInv'
<1>1. PICK at \in {"sect", "done"} : At(t, "clean", at)
  BY DEF cleanup
<1>2. /\ frame \in [Threads -> Frames] /\ frame[t].op = "clean" /\ frame[t].at = at
      /\ list \in Seq(Threads) /\ node \in [Threads -> Nodes] /\ Args(t) /\ Once(list)
  BY <1>1, OwnCode DEF At, TypeOK, ListInv
<1>3. PICK k \in Threads : k = frame[t].k
  BY <1>2 DEF Args
<1>4. PICK b \in BOOLEAN : b = Contains(list, k)
  BY ContainsBoolean
<1>5. CASE at = "sect"
  <2>1. /\ list' = RemoveFirst(list, k) /\ node' = node
        /\ frame' = [frame EXCEPT ![t].at = "rel", ![t].found = b]
    BY <1>2, <1>3, <1>4, <1>5 DEF cleanup, At, Step, Unlinked
  <2>2. /\ frame'[t].op = "clean" /\ frame'[t].at = "rel" /\ frame'[t].k = k
        /\ frame'[t].found = b /\ \A u \in Threads \ {t} : frame'[u] = frame[u]
    BY <1>2, <1>3, <2>1, FoundKeeps
  <2>3. /\ Once(list') /\ ~ Contains(list', k)
        /\ \A u : Contains(list', u) => Contains(list, u)
    BY <1>2, <2>1, RemoveFirstOnce, RemoveFirstOnly
  <2>4. Linked'
    BY <2>1, <2>3 DEF ListInv, Linked
  <2>5. ASSUME NEW u \in Threads PROVE Pointers(u)'
    <3>1. \A v \in Threads : Creating(frame'[v]) => Creating(frame[v]) /\ frame'[v] = frame[v]
      BY <2>2 DEF Creating
    <3>2. CASE u = t
      <4>1. ASSUME Unlinking(frame'[t])
            PROVE  /\ ~ node[k].freed
                   /\ \A v \in Threads \ {t} : Unlinking(frame'[v]) => frame'[v].k # k
        <5>1. Contains(list, k)
          BY <1>4, <2>2, <4>1 DEF Unlinking
        <5>2. QED
          BY <2>2, <5>1 DEF ListInv, Linked, Pointers
      <4>2. QED
        BY <2>1, <2>2, <2>3, <3>2, <4>1 DEF Pointers, Creating
    <3>3. CASE u # t
      <4>1. Pointers(u) /\ frame'[u] = frame[u] /\ node' = node
        BY <2>1, <2>2, <3>3 DEF ListInv
      <4>2. Contains(list', frame[u].k) => Contains(list, frame[u].k)
        BY <2>3
      <4>3. ASSUME Unlinking(frame[u])
            PROVE  /\ ~ Contains(list', frame'[u].k) /\ ~ node'[frame'[u].k].freed
                   /\ \A v \in Threads \ {u} : Unlinking(frame'[v]) => frame'[v].k # frame'[u].k
        <5>1. ~ Contains(list, frame[u].k)
          BY <4>1, <4>3 DEF Pointers
        <5>2. Unlinking(frame'[t]) => frame'[t].k # frame[u].k
          BY <1>4, <2>2, <5>1 DEF Unlinking
        <5>3. QED
          BY <2>2, <4>1, <4>2, <4>3, <5>1, <5>2, UnlinkingKept
      <4>4. QED
        BY <3>1, <4>1, <4>2, <4>3 DEF Pointers
    <3>4. QED
      BY <3>2, <3>3
  <2>6. QED
    BY <2>3, <2>4, <2>5 DEF ListInv
<1>6. CASE at = "done"
  <2>1. /\ node' = [node EXCEPT ![k].freed = @ \/ frame[t].found] /\ Goto(t, Idle) /\ list' = list
    BY <1>2, <1>3, <1>6 DEF cleanup, At, Step
  <2>2. /\ frame'[t].op = "none" /\ \A u \in Threads \ {t} : frame'[u] = frame[u]
    BY <1>2, <2>1, GotoKeeps, IdleFrame
  <2>3. /\ \A u \in Threads \ {k} : node'[u] = node[u]
        /\ \A u \in Threads : node'[u].state = node[u].state
        /\ ~ frame[t].found => node'[k].freed = node[k].freed
    <3>1. PICK n \in Nodes, c \in BOOLEAN : n = node[k] /\ c = (n.freed \/ frame[t].found)
      BY <1>2
    <3>2. PICK m : m = [n EXCEPT !.freed = c]
      OBVIOUS
    <3>3. node' = [node EXCEPT ![k] = m]
      BY <1>2, <2>1, <3>1, <3>2
    <3>4. m.state = n.state /\ m.freed = c
      BY <3>2 DEF Nodes
    <3>5. ~ frame[t].found => c = n.freed
      BY <3>1 DEF Nodes
    <3>6. QED
      BY <1>2, <3>1, <3>3, <3>4, <3>5
  <2>4. frame[t].found => ~ Contains(list, k)
    BY <1>2, <1>3, <1>6 DEF ListInv, Pointers, Unlinking
  <2>5. Linked'
    BY <2>1, <2>3, <2>4 DEF ListInv, Linked
  <2>6. ASSUME NEW u \in Threads PROVE Pointers(u)'
    <3>1. \A v \in Threads : Creating(frame'[v]) => Creating(frame[v]) /\ frame'[v] = frame[v]
      BY <2>2 DEF Creating
    <3>2. CASE u = t
      BY <2>2, <3>2 DEF Pointers, Creating, Unlinking
    <3>3. CASE u # t
      <4>1. Pointers(u) /\ frame'[u] = frame[u] /\ list' = list
        BY <2>1, <2>2, <3>3 DEF ListInv
      <4>2. Creating(frame[u]) => node'[frame[u].k].state = node[frame[u].k].state
        <5>1. Creating(frame[u]) => frame[u].k \in Threads
          BY DEF IInv, Local, Args, Creating
        <5>2. QED
          BY <2>3, <5>1
      <4>3. ASSUME Unlinking(frame[u])
            PROVE  /\ ~ Contains(list', frame'[u].k) /\ ~ node'[frame'[u].k].freed
                   /\ \A v \in Threads \ {u} : Unlinking(frame'[v]) => frame'[v].k # frame'[u].k
        <5>1. frame[u].k \in Threads
          BY <4>3 DEF IInv, Local, Args, Unlinking
        <5>2. frame[t].found => frame[u].k # k
          BY <1>2, <1>3, <1>6, <3>3, <4>1, <4>3 DEF Pointers, Unlinking
        <5>3. node'[frame[u].k].freed => node[frame[u].k].freed
          BY <2>3, <5>1, <5>2
        <5>4. ~ Contains(list, frame[u].k)
          BY <4>1, <4>3 DEF Pointers
        <5>5. \A v \in Threads : Unlinking(frame'[v]) => Unlinking(frame[v]) /\ frame'[v] = frame[v]
          BY <2>2 DEF Unlinking
        <5>6. QED
          BY <4>1, <4>3, <5>3, <5>4, <5>5, UnlinkingKept
      <4>4. QED
        BY <3>1, <4>1, <4>2, <4>3 DEF Pointers
    <3>4. QED
      BY <3>2, <3>3
  <2>7. QED
    BY <1>2, <2>1, <2>5, <2>6 DEF ListInv
<1>7. QED
  BY <1>5, <1>6

(* The call and the store of a user signal.                                *)
LEMMA SignalSettled ==
  ASSUME IInv, IInv', NEW t \in Threads, Moves(t), Post(t) \/ \E k \in Threads : CallPost(t, k)
  PROVE  Settled
<1>1. PICK op \in {"none", "post"}, at \in {"idle", "load", "count", "store"} : At(t, op, at)
  BY DEF Post, CallPost
<1>2. /\ frame \in [Threads -> Frames] /\ frame[t] \in Frames /\ frame[t].op = op
      /\ frame[t].at = at
  BY <1>1, OwnCode DEF At
<1>3. UNCHANGED <<list, node>>
  BY DEF Post, CallPost
<1>4. ~ Creating(frame'[t]) /\ ~ Unlinking(frame'[t])
  <2>1. CASE Post(t)
    <3>1. op = "post" /\ frame'[t].op = "post"
      <4>1. op = "post"
        BY <1>2, <2>1 DEF Post, At
      <4>2. CASE frame' = [frame EXCEPT ![t].i = post.cnt[frame[t].k], ![t].at = "count"]
        BY <1>2, <4>1, <4>2 DEF Frames
      <4>3. CASE GoAt(t, "store") \/ GoAt(t, "done")
        BY <1>2, <4>1, <4>3, GoAtKeeps DEF Ats
      <4>4. QED
        BY <2>1, <4>1, <4>2, <4>3 DEF Post
    <3>2. QED
      BY <3>1 DEF Creating, Unlinking
  <2>2. ASSUME NEW k \in Threads, CallPost(t, k) PROVE ~ Creating(frame'[t]) /\ ~ Unlinking(frame'[t])
    <3>1. PICK f : /\ f = IF k = t
                          THEN [Idle EXCEPT !.op = "kill", !.at = "done"]
                          ELSE Locking("post", k)
                   /\ Goto(t, f)
      BY <2>2 DEF CallPost
    <3>2. frame'[t] = f
      BY <1>2, <3>1 DEF Goto
    <3>3. f.op \in {"kill", "post"}
      <4>1. [Idle EXCEPT !.op = "kill", !.at = "done"].op = "kill"
        BY OtherFrame DEF Ops, Ats
      <4>2. PICK g \in Frames : g = Locking("post", k) /\ g.op = "post"
        BY LockingFrame DEF Ops
      <4>3. QED
        BY <3>1, <4>1, <4>2
    <3>4. QED
      BY <3>2, <3>3 DEF Creating, Unlinking
  <2>3. QED
    BY <2>1, <2>2
<1>5. QED
  BY <1>1, <1>2, <1>3, <1>4, MovesSettled

(* Every step of a thread.                                                 *)
LEMMA ThreadList == ASSUME IInv, ListInv, ThreadMoves PROVE ListInv'
<1>1. PICK t \in Threads :
        \/ \E k \in Threads :
             thread_create(t, k) \/ CallJoin(t, k) \/ CallKill(t, k) \/ CallPost(t, k)
        \/ CallCreate(t) \/ CallExit(t) \/ CallLock(t) \/ CallUnlock(t)
        \/ Library(t)
  BY DEF ThreadMoves
<1>2. IInv' /\ Moves(t)
  BY <1>1, ThreadStep
<1>3. CASE \/ \E k \in Threads : CallJoin(t, k) \/ CallKill(t, k)
           \/ CallCreate(t) \/ CallExit(t) \/ CallLock(t) \/ CallUnlock(t)
  BY <1>2, <1>3, CallSettled, SettledStep
<1>4. CASE \E k \in Threads : thread_create(t, k)
  BY <1>2, <1>4, CreateList
<1>5. CASE acquire(t) \/ release(t) \/ thread_exit(t) \/ thread_join(t) \/ thread_kill(t)
  BY <1>2, <1>5, AcquireSettled, ReleaseSettled, ExitSettled, KillSettled, SettledStep
<1>6. CASE thread_insert(t) \/ cleanup(t)
  BY <1>2, <1>6, InsertList, CleanupList
<1>7. CASE acquiresleep(t) \/ sleep_lock(t) \/ releasesleep(t) \/ wakeup_lock(t)
  BY <1>2, <1>7, MutexSettled, SettledStep
<1>8. CASE Post(t) \/ \E k \in Threads : CallPost(t, k)
  BY <1>2, <1>8, SignalSettled, SettledStep
<1>9. QED
  BY <1>1, <1>3, <1>4, <1>5, <1>6, <1>7, <1>8 DEF Library

(* The alarm and the scheduler neither insert nor free.                    *)
LEMMA OtherList ==
  ASSUME IInv, ListInv,
         Alarm \/ signal_handler_alarm \/ scheduler \/ \E t \in Threads : handle_pending_signals(t)
  PROVE  ListInv'
<1>1. /\ frame \in [Threads -> Frames] /\ node \in [Threads -> Nodes] /\ run.curr \in Threads
      /\ list' = list
  BY DEF IInv, TypeOK, Nodes, Alarm, signal_handler_alarm, scheduler, handle_pending_signals
<1>2. \A u \in Threads : node'[u].freed = node[u].freed
  <2>1. CASE scheduler
    <3>1. \/ node' = node
          \/ node' = [node EXCEPT ![run.curr].state = "RUNNABLE"]
          \/ node' = [node EXCEPT ![run.curr].state = "RUNNING", ![run.curr].ctx = "stale"]
      BY <2>1 DEF scheduler, Requeued
    <3>2. QED
      BY <1>1, <3>1, FreedKept
  <2>2. CASE signal_handler_alarm
    <3>1. PICK c : node' = [node EXCEPT ![run.curr].ctx = c]
      BY <2>2 DEF signal_handler_alarm
    <3>2. QED
      BY <1>1, <3>1, FreedKept
  <2>3. CASE node' = node
    BY <2>3
  <2>4. QED
    BY <2>1, <2>2, <2>3 DEF Alarm, handle_pending_signals
<1>3. ASSUME NEW u \in Threads
      PROVE  /\ node'[u].state = "UNBORN" => node[u].state = "UNBORN"
             /\ node'[u].state = "TERMINATED" => node[u].state = "TERMINATED"
  <2>1. CASE scheduler
    <3>1. \/ node' = node
          \/ node' = [node EXCEPT ![run.curr].state = "RUNNABLE"]
          \/ node' = [node EXCEPT ![run.curr].state = "RUNNING", ![run.curr].ctx = "stale"]
      BY <2>1 DEF scheduler, Requeued
    <3>2. CASE node' = [node EXCEPT ![run.curr].state = "RUNNABLE"]
      <4>1. /\ \A v \in Threads \ {run.curr} : node'[v] = node[v]
            /\ node'[run.curr].state = "RUNNABLE"
        BY <1>1, <3>2, StateKeeps
      <4>2. QED
        BY <4>1
    <3>3. CASE node' = [node EXCEPT ![run.curr].state = "RUNNING", ![run.curr].ctx = "stale"]
      <4>1. PICK n \in Nodes : n = node[run.curr]
        BY <1>1
      <4>2. PICK m : m = [n EXCEPT !.state = "RUNNING", !.ctx = "stale"]
        OBVIOUS
      <4>3. m.state = "RUNNING"
        BY <4>2 DEF Nodes
      <4>4. node' = [node EXCEPT ![run.curr] = m]
        BY <3>3, <4>1, <4>2
      <4>5. QED
        BY <1>1, <4>3, <4>4
    <3>4. QED
      BY <3>1, <3>2, <3>3
  <2>2. CASE signal_handler_alarm
    <3>1. PICK c : node' = [node EXCEPT ![run.curr].ctx = c]
      BY <2>2 DEF signal_handler_alarm
    <3>2. PICK n \in Nodes : n = node[run.curr]
      BY <1>1
    <3>3. PICK m : m = [n EXCEPT !.ctx = c]
      OBVIOUS
    <3>4. m.state = n.state
      BY <3>3 DEF Nodes
    <3>5. node' = [node EXCEPT ![run.curr] = m]
      BY <3>1, <3>2, <3>3
    <3>6. QED
      BY <1>1, <3>2, <3>4, <3>5
  <2>3. CASE node' = node
    BY <2>3
  <2>4. QED
    BY <2>1, <2>2, <2>3 DEF Alarm, handle_pending_signals
<1>4. ASSUME NEW u \in Threads
      PROVE  /\ Creating(frame'[u]) => Creating(frame[u]) /\ frame'[u].k = frame[u].k
             /\ Unlinking(frame'[u]) => Unlinking(frame[u]) /\ frame'[u].k = frame[u].k
  <2>1. frame' = frame \/ GoAt(run.curr, "tidy")
    BY DEF Alarm, signal_handler_alarm, scheduler, handle_pending_signals
  <2>2. CASE GoAt(run.curr, "tidy")
    <3>1. /\ \A v \in Threads \ {run.curr} : frame'[v] = frame[v]
          /\ frame'[run.curr].at = "tidy"
      BY <1>1, <2>2, GoAtKeeps DEF Ats
    <3>2. CASE u = run.curr
      BY <3>1, <3>2 DEF Creating, Unlinking
    <3>3. CASE u # run.curr
      BY <3>1, <3>3
    <3>4. QED
      BY <3>2, <3>3
  <2>3. QED
    BY <2>1, <2>2
<1>5. Settled
  BY <1>1, <1>2, <1>3, <1>4 DEF Settled
<1>6. QED
  BY <1>5, SettledStep

(* Every step keeps what is said of the list.                              *)
LEMMA NextList == IInv /\ ListInv /\ [Next]_vars => ListInv'
<1>1. ASSUME ListInv, UNCHANGED vars PROVE ListInv'
  BY <1>1 DEF ListInv, Linked, Pointers, vars
<1>2. QED
  BY <1>1, ThreadList, OtherList, Steps

(* However many threads join a thread, its node is in the list once and    *)
(* neither freed nor uninitialised there; the one thread whose cleanup has *)
(* unlinked it has not freed it yet, and nobody else has unlinked it too.  *)
FreedOnce ==
  /\ IsInjective(list)
  /\ \A t \in Threads : Contains(list, t) => node[t].state # "UNBORN" /\ ~ node[t].freed
  /\ \A t \in Threads : Unlinking(frame[t]) =>
       /\ ~ Contains(list, frame[t].k) /\ ~ node[frame[t].k].freed
       /\ \A u \in Threads \ {t} : Unlinking(frame[u]) => frame[u].k # frame[t].k

(* The list holds no thread twice, nobody who was never created and no     *)
(* node that is freed, whoever joins and kills whom, with the alarm at     *)
(* every step: the search of thread_join, cleanup and thread_kill and the  *)
(* walk of the scheduler read no freed node, and two threads that clean up *)
(* after the same thread free its node once.                               *)
THEOREM NodesFreedOnce == Spec => []FreedOnce
<1>1. IInv /\ [Next]_vars => IInv'
  BY NextIInv
<1>2. IInv /\ ListInv => FreedOnce
  <2>1. ASSUME IInv, ListInv PROVE IsInjective(list)
    <3>1. list \in Seq(Threads) /\ Once(list)
      BY <2>1 DEF IInv, TypeOK, ListInv
    <3>2. QED
      BY <3>1 DEF Once, IsInjective
  <2>2. QED
    BY <2>1 DEF ListInv, Linked, Pointers, FreedOnce
<1>3. QED
  BY InitIInv, InitList, <1>1, <1>2, NextList, PTL DEF Spec

=============================================================================
