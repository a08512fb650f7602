--------------------------- MODULE ManyManyProofs ---------------------------
(***************************************************************************)
(* Proofs about ManyMany, for any number of kernel threads, of threads, of *)
(* calls and of alarms, with the signals between any two steps: a thread   *)
(* that executes is the entry of curr_running_proc_array of its kernel     *)
(* thread; the sleeplock implements the abstract lock, up to the exit of   *)
(* release; no wakeup of the mutex is lost.                                *)
(***************************************************************************)
EXTENDS ManyMany, TLAPS

(* Threads come to the list in the order of their numbers, and a call is   *)
(* about a thread that is there.                                           *)
Inserted ==
  /\ \A t \in Tids : t >= n => act[t].at = "unborn" /\ node[t].state = "EMBRYO"
  /\ \A t \in Users : act[t].at \in {"kill", "clone", "publish"} => act[t].k \in 0 .. n - 1

(* Kernel threads are started in the order of their numbers, and a signal   *)
(* goes to a started one.                                                   *)
Cloned ==
  /\ \A i \in KT : i >= n => kt[i].on = None
  /\ \A i \in KT : kt[i].vt \/ kt[i].pub => kt[i].on # None
  /\ \A t \in Tids : act[Main].at = "publish" /\ act[Main].k = t =>
       t \in KT /\ kt[t].on # None
  /\ \A t \in Tids : act[Main].at = "clone" /\ act[Main].k = t =>
       t \in KT /\ act[t].at = "unborn" /\ kt[t].on = None /\ kt[t].curr = t

(* While no jump is undefined, no two kernel threads are on one stack.      *)
OneStack ==
  \A i, j \in KT : kt[i].on \in Tids /\ kt[j].on = kt[i].on => i = j

(* Nobody has to do with a thread that has not been started.               *)
Unborn ==
  \A t \in Tids : act[t].at = "unborn" =>
    /\ node[t].ctx = "none" /\ node[t].state \in {"EMBRYO", "TERMINATED"}
    /\ \A i \in KT :
         /\ kt[i].on # t
         /\ kt[i].on # None => kt[i].curr # t
         /\ kt[i].on = Sched /\ kt[i].at \in {"requeue", "curr", "go"} => kt[i].pos # t

(* What a scheduler knows at each of its steps.                            *)
Scheduling ==
  \A i \in KT : kt[i].on = Sched =>
    /\ kt[i].curr # None
    /\ kt[i].at = "enter" => kt[i].curr \in Tids
    /\ kt[i].at # "enter" => kt[i].pos \in 0 .. n - 1
    /\ kt[i].at = "go" => kt[i].curr = kt[i].pos

(* The context of a thread that executes is spent, or is the one sleep_lock *)
(* has just saved; a thread that has jumped away for good has no other.    *)
Contexts ==
  \A t \in Tids :
    /\ node[t].ctx = "asleep" => act[t].at = "leave"
    /\ act[t].at \in {"exit", "setjmp"} => act[t].idx \in KT
    /\ act[t].at \in {"gone", "leave"} /\ act[t].idx = None => node[t].ctx \notin {"new", "handler"}
    /\ \A i \in KT : kt[i].on = t =>
         /\ node[t].ctx \notin {"new", "handler"}
         /\ act[t].at \in {"gone", "leave"} => act[t].idx \in KT

Alive == Inserted /\ OneStack /\ Cloned /\ Unborn /\ Scheduling /\ Contexts

IInv == TypeOK /\ CurrRuns /\ (fate = "running" => Alive)

-----------------------------------------------------------------------------
(* main, the schedulers and None are not threads of the list.               *)
LEMMA Constants ==
  /\ K \in Nat \ {0} /\ N \in Nat /\ Main \notin Tids /\ Sched \notin Tids /\ None \notin Tids
  /\ Sched # None /\ Main # None /\ Sched # Main /\ None \notin KT
  /\ Users = Tids \cup {Main} /\ Tids = 0 .. N - 1 /\ KT = 0 .. K - 1
BY ManyManyAssumption DEF Users, Tids, KT

(* A thread that executes has a kernel thread.                              *)
LEMMA IndexRuns ==
  ASSUME NEW t \in Tids, Runs(t)
  PROVE  Index(t) \in KT /\ kt[Index(t)].on = t
BY Constants DEF Runs, Index

(* The node a scheduler has is in the list, and is the one it enters.       *)
LEMMA PosInList ==
  ASSUME IInv, fate = "running", NEW i \in KT, kt[i].on = Sched, kt[i].at # "enter"
  PROVE  kt[i].pos \in Tids /\ (kt[i].at = "go" => kt[i].curr = kt[i].pos)
<1>1. kt[i].pos \in 0 .. n - 1 /\ (kt[i].at = "go" => kt[i].curr = kt[i].pos)
  BY DEF IInv, Alive, Scheduling
<1>2. n \in Nat /\ n <= N
  BY Constants DEF IInv, TypeOK
<1>3. QED
  BY <1>1, <1>2, Constants

(* The state init_many_many leaves satisfies the invariant.                 *)
LEMMA InitIInv == Init => IInv
<1> SUFFICES ASSUME Init PROVE IInv
  OBVIOUS
<1> USE Constants DEF Init
<1>1. TypeOK
  BY ManyManyAssumption DEF TypeOK, StartIndex, Node, State, Context, Act, Label, KThread,
     Carriers, Handler, NoHandler
<1>2. CurrRuns
  BY DEF CurrRuns
<1>3. Alive
  BY DEF Alive, Inserted, OneStack, Cloned, Unborn, Scheduling, Contexts
<1>4. QED
  BY <1>1, <1>2, <1>3 DEF IInv

-----------------------------------------------------------------------------
(* Masking the signals changes nothing the invariant looks at.              *)
LEMMA MaskKeeps ==
  ASSUME TypeOK, NEW t \in Users, Runs(t), NEW m \in {"none", "vt", "both"}, Mask(t, m)
  PROVE  /\ kt' \in [KT -> KThread]
         /\ \A i \in KT : /\ kt'[i].on = kt[i].on /\ kt'[i].curr = kt[i].curr
                          /\ kt'[i].vt = kt[i].vt /\ kt'[i].pub = kt[i].pub
                          /\ kt'[i].at = kt[i].at /\ kt'[i].pos = kt[i].pos
<1>1. CASE t = Main
  BY <1>1 DEF TypeOK, Mask
<1>2. CASE t # Main
  <2>1. t \in Tids
    BY <1>2 DEF Users
  <2>2. Index(t) \in KT
    BY <2>1, IndexRuns
  <2>3. QED
    BY <1>2, <2>2 DEF TypeOK, Mask, KThread
<1>3. QED
  BY <1>1, <1>2

(* After a step that ends the process, or jumps to nowhere, nothing happens. *)
LEMMA StopStep ==
  ASSUME IInv, TypeOK', fate' # "running", UNCHANGED kt
  PROVE  IInv'
BY DEF IInv, CurrRuns

(* A step that leaves the threads as they are, and may send a SIGVTALRM to a *)
(* kernel thread that is known.                                             *)
LEMMA QuietStep ==
  ASSUME IInv, TypeOK', UNCHANGED <<n, node, act, fate>>, fate = "running",
         \A i \in KT : /\ kt'[i].on = kt[i].on /\ kt'[i].curr = kt[i].curr
                       /\ kt'[i].pub = kt[i].pub
                       /\ kt'[i].at = kt[i].at /\ kt'[i].pos = kt[i].pos
                       /\ (kt'[i].vt => kt[i].vt \/ kt[i].pub)
  PROVE  IInv'
<1>1. CurrRuns /\ Alive
  BY DEF IInv
<1>2. CurrRuns'
  BY <1>1 DEF CurrRuns
<1>3. Inserted' /\ OneStack' /\ Cloned'
  BY <1>1 DEF Alive, Inserted, OneStack, Cloned
<1>4. Unborn' /\ Scheduling' /\ Contexts'
  BY <1>1 DEF Alive, Unborn, Scheduling, Contexts
<1>5. QED
  BY <1>2, <1>3, <1>4 DEF Alive, IInv

(* A step of thread t inside the library, which leaves the kernel threads   *)
(* as they are and does not make a stored context of another thread.        *)
LEMMA ThreadStep ==
  ASSUME IInv, TypeOK', NEW t \in Users, Runs(t), n' = n, fate' = fate,
         \A i \in KT : /\ kt'[i].on = kt[i].on /\ kt'[i].curr = kt[i].curr
                       /\ kt'[i].vt = kt[i].vt /\ kt'[i].pub = kt[i].pub
                       /\ kt'[i].at = kt[i].at /\ kt'[i].pos = kt[i].pos,
         \A u \in Users \ {t} : act'[u] = act[u],
         act[t].at \notin {"unborn", "leave", "gone"},
         act'[t].at \notin {"unborn", "clone", "publish"},
         act'[t].at = "kill" => act'[t].k \in 0 .. n - 1,
         act'[t].at \in {"exit", "setjmp", "gone", "leave"} /\ t # Main => act'[t].idx \in KT,
         \A q \in Tids : \/ node'[q].ctx = node[q].ctx
                         \/ q = t /\ act'[q].at = "leave" /\ node'[q].ctx = "asleep",
         \A q \in Tids : \/ node'[q].state = node[q].state
                         \/ act[q].at # "unborn"
                         \/ q < n /\ node'[q].state = "TERMINATED"
  PROVE  IInv'
<1> USE Constants
<1>1. TypeOK /\ CurrRuns /\ Alive /\ fate = "running"
  BY DEF IInv, Runs
<1>2. n \in Nat /\ \A u \in Users : act'[u].at = "unborn" <=> act[u].at = "unborn"
  BY <1>1 DEF TypeOK
<1>3. CurrRuns'
  BY <1>1 DEF CurrRuns
<1>4. Inserted' /\ OneStack'
  BY <1>1, <1>2 DEF Alive, Inserted, OneStack
<1>5. Cloned'
  <2>1. act'[Main].at \in {"clone", "publish"} => act'[Main] = act[Main]
    OBVIOUS
  <2>2. QED
    BY <1>1, <1>2, <2>1 DEF Alive, Cloned
<1>6. Unborn'
  BY <1>1, <1>2 DEF Alive, Unborn
<1>7. Scheduling'
  BY <1>1 DEF Alive, Scheduling
<1>8. Contexts'
  BY <1>1 DEF Alive, Contexts
<1>9. QED
  BY <1>3, <1>4, <1>5, <1>6, <1>7, <1>8 DEF Alive, IInv

-----------------------------------------------------------------------------
(* What the operators that update a thread or its node change.              *)
LEMMA GotoKeeps ==
  ASSUME TypeOK, NEW t \in Users, NEW at \in Label, Goto(t, at)
  PROVE  /\ act' \in [Users -> Act] /\ \A u \in Users \ {t} : act'[u] = act[u]
         /\ act'[t].at = at /\ act'[t].k = act[t].k /\ act'[t].idx = act[t].idx
<1>1. act \in [Users -> Act] /\ act' = [act EXCEPT ![t].at = at]
  BY DEF TypeOK, Goto
<1>2. QED
  BY <1>1 DEF Act

LEMMA ReturnKeeps ==
  ASSUME TypeOK, NEW t \in Users, Return(t)
  PROVE  /\ act' \in [Users -> Act] /\ \A u \in Users \ {t} : act'[u] = act[u]
         /\ act'[t].at = "idle"
<1>1. /\ act \in [Users -> Act]
      /\ act' = [act EXCEPT ![t] = [at |-> "idle", k |-> None, idx |-> None]]
  BY DEF TypeOK, Return
<1>2. QED
  BY <1>1 DEF Act, Label

(* The step that looks up the kernel thread of t.                           *)
LookUp(t, at) == act' = [act EXCEPT ![t].at = at, ![t].idx = Index(t)]

LEMMA LookUpKeeps ==
  ASSUME TypeOK, NEW t \in Tids, Runs(t), NEW at \in Label, LookUp(t, at)
  PROVE  /\ act' \in [Users -> Act] /\ \A u \in Users \ {t} : act'[u] = act[u]
         /\ act'[t].at = at /\ act'[t].idx \in KT /\ act'[t].k = act[t].k
<1>1. /\ act \in [Users -> Act] /\ t \in Users
      /\ act' = [act EXCEPT ![t].at = at, ![t].idx = Index(t)]
  BY Constants DEF TypeOK, LookUp
<1>2. Index(t) \in KT
  BY IndexRuns
<1>3. QED
  BY <1>1, <1>2 DEF Act

LEMMA StateKeeps ==
  ASSUME TypeOK, NEW q \in Tids, NEW s \in State, node' = [node EXCEPT ![q].state = s]
  PROVE  /\ node' \in [Tids -> Node] /\ \A r \in Tids \ {q} : node'[r] = node[r]
         /\ node'[q].state = s /\ node'[q].ctx = node[q].ctx
<1>1. node \in [Tids -> Node]
  BY DEF TypeOK
<1>2. QED
  BY <1>1 DEF Node

LEMMA ContextKeeps ==
  ASSUME TypeOK, NEW q \in Tids, NEW c \in Context, node' = [node EXCEPT ![q].ctx = c]
  PROVE  /\ node' \in [Tids -> Node] /\ \A r \in Tids \ {q} : node'[r] = node[r]
         /\ node'[q].ctx = c /\ node'[q].state = node[q].state
<1>1. node \in [Tids -> Node]
  BY DEF TypeOK
<1>2. QED
  BY <1>1 DEF Node

(* An entry of curr_running_proc_array, the stack executed on, an entry of  *)
(* kthread_index.                                                           *)
LEMMA CurrKeeps ==
  ASSUME TypeOK, NEW i \in KT, NEW c \in Tids,
         kt' = [kt EXCEPT ![i].curr = c]
  PROVE  /\ kt' \in [KT -> KThread] /\ \A j \in KT \ {i} : kt'[j] = kt[j]
         /\ kt'[i].curr = c /\ kt'[i].on = kt[i].on
         /\ kt'[i].vt = kt[i].vt /\ kt'[i].pub = kt[i].pub
<1>1. kt \in [KT -> KThread]
  BY DEF TypeOK
<1>2. kt' \in [KT -> KThread]
  BY <1>1 DEF KThread
<1>3. \A j \in KT \ {i} : kt'[j] = kt[j]
  BY <1>1
<1>4. kt'[i].curr = c
  BY <1>1 DEF KThread
<1>5. kt'[i].on = kt[i].on /\ kt'[i].vt = kt[i].vt /\ kt'[i].pub = kt[i].pub
  BY <1>1 DEF KThread
<1>6. QED
  BY <1>2, <1>3, <1>4, <1>5

LEMMA OnKeeps ==
  ASSUME TypeOK, NEW i \in KT, NEW t \in Tids, kt' = [kt EXCEPT ![i].on = t]
  PROVE  /\ kt' \in [KT -> KThread] /\ \A j \in KT \ {i} : kt'[j] = kt[j]
         /\ kt'[i].on = t /\ kt'[i].curr = kt[i].curr
<1>1. kt \in [KT -> KThread]
  BY DEF TypeOK
<1>2. kt' \in [KT -> KThread]
  BY <1>1 DEF KThread
<1>3. \A j \in KT \ {i} : kt'[j] = kt[j]
  BY <1>1
<1>4. kt'[i].on = t /\ kt'[i].curr = kt[i].curr
  BY <1>1 DEF KThread
<1>5. QED
  BY <1>2, <1>3, <1>4

LEMMA PubKeeps ==
  ASSUME TypeOK, NEW i \in KT, kt' = [kt EXCEPT ![i].pub = TRUE]
  PROVE  /\ kt' \in [KT -> KThread] /\ \A j \in KT \ {i} : kt'[j] = kt[j]
         /\ kt'[i].on = kt[i].on /\ kt'[i].curr = kt[i].curr
         /\ kt'[i].at = kt[i].at /\ kt'[i].pos = kt[i].pos
<1>1. kt \in [KT -> KThread]
  BY DEF TypeOK
<1>2. kt' \in [KT -> KThread]
  BY <1>1, ZenonT(40) DEF KThread
<1>3. \A j \in KT \ {i} : kt'[j] = kt[j]
  BY <1>1
<1>4. /\ kt'[i].on = kt[i].on /\ kt'[i].curr = kt[i].curr
      /\ kt'[i].at = kt[i].at /\ kt'[i].pos = kt[i].pos
  BY <1>1 DEF KThread
<1>5. QED
  BY <1>2, <1>3, <1>4

-----------------------------------------------------------------------------
(* One lemma per step of a thread.                                          *)
LEMMA StartStep == ASSUME IInv, NEW t \in Tids, Start(t) PROVE IInv'
<1> USE Constants
<1> DEFINE at == IF node[t].state = "EMBRYO" THEN "running" ELSE "setup"
<1>1. /\ TypeOK /\ t \in Users /\ Runs(t) /\ act[t].at = "start" /\ Goto(t, at)
      /\ UNCHANGED <<n, node, kt, hand, timer, mutex, fate, calls>>
  BY DEF IInv, Start, At
<1>2. at \in Label /\ at \in {"running", "setup"}
  BY DEF Label
<1> HIDE DEF at
<1>3. TypeOK'
  BY <1>1, <1>2, GotoKeeps DEF TypeOK
<1>4. QED
  BY <1>1, <1>2, <1>3, GotoKeeps, ThreadStep

LEMMA SetupStep == ASSUME IInv, NEW t \in Tids, Setup(t) PROVE IInv'
<1> USE Constants
<1>1. /\ TypeOK /\ t \in Users /\ Runs(t) /\ Mask(t, "none") /\ Goto(t, "gettid")
      /\ act[t].at \in {"running", "setup"} /\ "gettid" \in Label
      /\ timer' = Armed /\ UNCHANGED <<n, hand, mutex, fate, calls>>
  BY DEF IInv, Setup, At, Label
<1>2. node \in [Tids -> Node]
  BY <1>1 DEF TypeOK
<1>3. node' \in [Tids -> Node] /\ \A q \in Tids : node'[q].ctx = node[q].ctx
                               /\ (node'[q].state = node[q].state \/ q = t)
  <2>1. PICK s \in State : node' = [node EXCEPT ![t].state = s]
    BY <1>2 DEF Setup, Node, State
  <2>2. QED
    BY <1>1, <2>1, StateKeeps
<1>4. /\ act' \in [Users -> Act] /\ \A u \in Users \ {t} : act'[u] = act[u]
      /\ act'[t].at = "gettid"
  BY <1>1, GotoKeeps
<1>5. TypeOK'
  BY <1>1, <1>3, <1>4, MaskKeeps DEF TypeOK, Armed
<1>6. QED
  BY <1>1, <1>3, <1>4, <1>5, MaskKeeps, ThreadStep

(* The node execute_me_mo takes from curr_running_proc_array is its own.    *)
LEMMA FirstStep == ASSUME IInv, NEW t \in Tids, First(t) PROVE IInv'
<1> USE Constants
<1>1. /\ TypeOK /\ CurrRuns /\ t \in Users /\ Runs(t) /\ Mask(t, "none") /\ act[t].at = "first"
      /\ act' = [act EXCEPT ![t].at = "gettid", ![t].k = kt[Index(t)].curr]
      /\ UNCHANGED <<n, node, hand, timer, mutex, fate, calls>>
  BY DEF IInv, First, At
<1>2. kt[Index(t)].curr = t
  BY <1>1, IndexRuns DEF CurrRuns
<1>3. /\ act' \in [Users -> Act] /\ \A u \in Users \ {t} : act'[u] = act[u]
      /\ act'[t].at = "gettid"
  <2>1. act \in [Users -> Act] /\ "gettid" \in Label
    BY <1>1 DEF TypeOK, Label
  <2>2. act' = [act EXCEPT ![t].at = "gettid", ![t].k = t]
    BY <1>1, <1>2
  <2>3. QED
    BY <1>1, <2>1, <2>2 DEF Act
<1>4. TypeOK'
  BY <1>1, <1>3, MaskKeeps DEF TypeOK
<1>5. QED
  BY <1>1, <1>3, <1>4, MaskKeeps, ThreadStep

LEMMA GettidStep == ASSUME IInv, NEW t \in Tids, Gettid(t) PROVE IInv'
<1> USE Constants
<1>1. /\ TypeOK /\ t \in Users /\ Runs(t) /\ act[t].at = "gettid" /\ "ktid" \in Label
      /\ LookUp(t, "ktid") /\ UNCHANGED <<n, node, kt, hand, timer, mutex, fate, calls>>
  BY DEF IInv, Gettid, At, LookUp, Label
<1>2. /\ act' \in [Users -> Act] /\ \A u \in Users \ {t} : act'[u] = act[u]
      /\ act'[t].at = "ktid"
  BY <1>1, LookUpKeeps
<1>3. TypeOK'
  BY <1>1, <1>2 DEF TypeOK
<1>4. QED
  BY <1>1, <1>2, <1>3, ThreadStep

LEMMA SetKtidStep == ASSUME IInv, NEW t \in Tids, SetKtid(t) PROVE IInv'
<1> USE Constants
<1>1. /\ TypeOK /\ t \in Users /\ Runs(t) /\ act[t].at = "ktid" /\ Return(t)
      /\ node' = [node EXCEPT ![act[t].k].ktid = act[t].idx]
      /\ UNCHANGED <<n, kt, hand, timer, mutex, fate, calls>>
  BY DEF IInv, SetKtid, At
<1>2. node \in [Tids -> Node] /\ act[t] \in Act
  BY <1>1 DEF TypeOK
<1>3. PICK k \in Tids \cup {None}, i \in KT \cup {None} : node' = [node EXCEPT ![k].ktid = i]
  BY <1>1, <1>2 DEF Act
<1>4. /\ node' \in [Tids -> Node]
      /\ \A q \in Tids : node'[q].ctx = node[q].ctx /\ node'[q].state = node[q].state
  <2>1. CASE k \in Tids
    BY <1>2, <1>3, <2>1 DEF Node
  <2>2. CASE k \notin Tids
    BY <1>2, <1>3, <2>2
  <2>3. QED
    BY <2>1, <2>2
<1>5. /\ act' \in [Users -> Act] /\ \A u \in Users \ {t} : act'[u] = act[u]
      /\ act'[t].at = "idle"
  BY <1>1, ReturnKeeps
<1>6. TypeOK'
  BY <1>1, <1>4, <1>5 DEF TypeOK
<1>7. QED
  BY <1>1, <1>4, <1>5, <1>6, ThreadStep

LEMMA CallExitStep == ASSUME IInv, NEW t \in Tids, CallExit(t) PROVE IInv'
<1> USE Constants
<1>1. /\ TypeOK /\ t \in Users /\ Runs(t) /\ act[t].at = "idle"
      /\ LookUp(t, "exit") /\ UNCHANGED <<n, node, kt, hand, timer, mutex, fate, calls>>
  BY DEF IInv, CallExit, At, LookUp
<1>2. "exit" \in Label
  BY DEF Label
<1>3. /\ act' \in [Users -> Act] /\ \A u \in Users \ {t} : act'[u] = act[u]
      /\ act'[t].at = "exit" /\ act'[t].idx \in KT
  BY <1>1, <1>2, LookUpKeeps
<1>4. TypeOK'
  BY <1>1, <1>3 DEF TypeOK
<1>5. QED
  BY <1>1, <1>3, <1>4, ThreadStep

LEMMA ExitMarkStep == ASSUME IInv, NEW t \in Tids, ExitMark(t) PROVE IInv'
<1> USE Constants
<1> DEFINE stops == ExitStops(Index(t))
<1>1. /\ TypeOK /\ Alive /\ t \in Users /\ Runs(t) /\ act[t].at = "exit"
      /\ UNCHANGED <<n, hand, timer, mutex, calls>>
  BY DEF IInv, Runs, ExitMark, At
<1>2. CASE stops = {}
  <2>1. fate' = "fault" /\ UNCHANGED <<node, act, kt>>
    BY <1>2 DEF ExitMark
  <2>2. TypeOK'
    BY <1>1, <2>1 DEF TypeOK
  <2>3. QED
    BY <2>1, <2>2, StopStep
<1>3. CASE stops # {}
  <2>1. PICK q \in stops : node' = [node EXCEPT ![q].state = "TERMINATED"]
    BY <1>3 DEF ExitMark
  <2>2. Mask(t, "none") /\ Goto(t, "gone") /\ fate' = fate
    BY <1>3 DEF ExitMark
  <2>3. q \in Tids /\ q < n
    BY <1>1 DEF ExitStops, TypeOK
  <2>4. act[t].idx \in KT /\ "gone" \in Label /\ "TERMINATED" \in State
    BY <1>1 DEF Alive, Contexts, Label, State
  <2> HIDE DEF stops
  <2>5. /\ node' \in [Tids -> Node] /\ \A r \in Tids \ {q} : node'[r] = node[r]
        /\ node'[q].state = "TERMINATED" /\ node'[q].ctx = node[q].ctx
    BY <1>1, <2>1, <2>3, <2>4, StateKeeps
  <2>6. /\ act' \in [Users -> Act] /\ \A u \in Users \ {t} : act'[u] = act[u]
        /\ act'[t].at = "gone" /\ act'[t].idx = act[t].idx
    BY <1>1, <2>2, <2>4, GotoKeeps
  <2>7. TypeOK'
    BY <1>1, <2>2, <2>5, <2>6, MaskKeeps DEF TypeOK
  <2>8. QED
    BY <1>1, <2>2, <2>3, <2>4, <2>5, <2>6, <2>7, MaskKeeps, ThreadStep
<1>4. QED
  BY <1>2, <1>3

(* The count of calls stays within its bound.                               *)
LEMMA CallsKeep ==
  ASSUME calls \in [made : 0 .. MaxCalls, alarms : 0 .. MaxAlarms], calls.made < MaxCalls,
         calls' = [calls EXCEPT !.made = @ + 1]
  PROVE  calls' \in [made : 0 .. MaxCalls, alarms : 0 .. MaxAlarms]
<1>1. calls.made + 1 \in 0 .. MaxCalls
  BY ManyManyAssumption
<1>2. calls' = [calls EXCEPT !.made = calls.made + 1]
  OBVIOUS
<1>3. QED
  BY <1>1, <1>2

LEMMA CallKillStep ==
  ASSUME IInv, NEW t \in Users, NEW k \in Tids, CallKill(t, k) PROVE IInv'
<1> USE Constants
<1>1. /\ TypeOK /\ Runs(t) /\ act[t].at = "idle" /\ k < n /\ calls.made < MaxCalls
      /\ calls' = [calls EXCEPT !.made = @ + 1] /\ timer' = Disarmed
      /\ act' = [act EXCEPT ![t] = [at |-> "kill", k |-> k, idx |-> Index(t)]]
      /\ UNCHANGED <<n, node, kt, hand, mutex, fate>>
  BY DEF IInv, CallKill, At
<1>2. n \in Nat /\ act \in [Users -> Act]
  BY <1>1 DEF TypeOK
<1>3. Index(t) \in KT \cup {None}
  BY <1>1, IndexRuns DEF Index
<1>4. /\ act' \in [Users -> Act] /\ \A u \in Users \ {t} : act'[u] = act[u]
      /\ act'[t].at = "kill" /\ act'[t].k = k
  BY <1>1, <1>2, <1>3 DEF Act, Label
<1>5. calls' \in [made : 0 .. MaxCalls, alarms : 0 .. MaxAlarms]
  BY <1>1, CallsKeep DEF TypeOK
<1>6. TypeOK'
  BY <1>1, <1>4, <1>5 DEF TypeOK, Disarmed
<1>7. QED
  BY <1>1, <1>2, <1>4, <1>6, ThreadStep

LEMMA KillStep == ASSUME IInv, NEW t \in Users, Kill(t) PROVE IInv'
<1> USE Constants
<1> DEFINE k == act[t].k
           self == act[t].idx # None /\ kt[act[t].idx].curr = k
<1>1. /\ TypeOK /\ Alive /\ Runs(t) /\ act[t].at = "kill"
      /\ UNCHANGED <<n, hand, timer, mutex, fate, calls>>
  BY DEF IInv, Runs, Kill, At
<1>2. k \in Tids /\ k < n /\ n \in Nat
  BY <1>1 DEF Alive, Inserted, TypeOK
<1>3. "exit" \in Label /\ "TERMINATED" \in State
  BY DEF Label, State
<1>4. CASE self
  <2>1. UNCHANGED <<node, kt>>
    BY <1>4 DEF Kill
  <2>2. /\ act' \in [Users -> Act] /\ \A u \in Users \ {t} : act'[u] = act[u]
        /\ act'[t].at = "exit" /\ (t # Main => act'[t].idx \in KT)
    <3>1. /\ act \in [Users -> Act]
          /\ act' = [act EXCEPT ![t].at = "exit", ![t].idx = Index(t)]
      BY <1>1, <1>4 DEF Kill, TypeOK
    <3>2. Index(t) \in KT \cup {None} /\ (t # Main => Index(t) \in KT)
      BY <1>1, IndexRuns DEF Index
    <3>3. QED
      BY <3>1, <3>2, <1>3 DEF Act
  <2>3. TypeOK'
    BY <1>1, <2>1, <2>2 DEF TypeOK
  <2>4. QED
    BY <1>1, <2>1, <2>2, <2>3, ThreadStep
<1>5. CASE ~self
  <2>1. /\ node' = [node EXCEPT ![k].state = "TERMINATED"]
        /\ Mask(t, "none") /\ Return(t)
    BY <1>5 DEF Kill
  <2> HIDE DEF k, self
  <2>2. /\ node' \in [Tids -> Node] /\ \A r \in Tids \ {k} : node'[r] = node[r]
        /\ node'[k].state = "TERMINATED" /\ node'[k].ctx = node[k].ctx
    BY <1>1, <1>2, <1>3, <2>1, StateKeeps
  <2>3. TypeOK'
    BY <1>1, <2>1, <2>2, MaskKeeps, ReturnKeeps DEF TypeOK
  <2>4. QED
    BY <1>1, <1>2, <2>1, <2>2, <2>3, MaskKeeps, ReturnKeeps, ThreadStep, ZenonT(40)
<1>6. QED
  BY <1>4, <1>5

LEMMA CallJoinStep == ASSUME IInv, NEW k \in Tids, CallJoin(k) PROVE IInv'
<1> USE Constants
<1>1. /\ TypeOK /\ Main \in Users /\ Runs(Main) /\ act[Main].at = "idle" /\ calls.made < MaxCalls
      /\ calls' = [calls EXCEPT !.made = @ + 1]
      /\ act' = [act EXCEPT ![Main].at = "join", ![Main].k = k]
      /\ UNCHANGED <<n, node, kt, hand, timer, mutex, fate>>
  BY DEF IInv, CallJoin, At
<1>2. act \in [Users -> Act] /\ act' = [act EXCEPT ![Main].at = "join", ![Main].k = k]
  BY <1>1 DEF TypeOK
<1>3. /\ act' \in [Users -> Act] /\ \A u \in Users \ {Main} : act'[u] = act[u]
      /\ act'[Main].at = "join"
  <2>1. Main \in Users /\ "join" \in Label
    BY <1>1 DEF Label
  <2>2. QED
    BY <1>2, <2>1, ZenonT(40) DEF Act
<1>4. calls' \in [made : 0 .. MaxCalls, alarms : 0 .. MaxAlarms]
  BY <1>1, CallsKeep DEF TypeOK
<1>5. TypeOK'
  BY <1>1, <1>3, <1>4 DEF TypeOK
<1>6. QED
  BY <1>1, <1>3, <1>5, ThreadStep

LEMMA JoinWaitStep == ASSUME IInv, JoinWait PROVE IInv'
<1> USE Constants
<1>1. /\ TypeOK /\ Main \in Users /\ Runs(Main) /\ act[Main].at = "join" /\ Return(Main)
      /\ UNCHANGED <<n, node, kt, hand, timer, mutex, fate, calls>>
  BY DEF IInv, JoinWait, At
<1>2. TypeOK'
  BY <1>1, ReturnKeeps DEF TypeOK
<1>3. QED
  BY <1>1, <1>2, ReturnKeeps, ThreadStep

(* The three acquires, each with the signals blocked first.                 *)
LEMMA MaskedStep ==
  ASSUME IInv, NEW t \in Users, CallLock(t) \/ Relock(t) \/ CallUnlock(t) PROVE IInv'
<1> USE Constants
<1>1. PICK at \in {"locking", "relocking", "unlocking"} : Goto(t, at)
  BY DEF CallLock, Relock, CallUnlock
<1>2. /\ TypeOK /\ Runs(t) /\ act[t].at \in {"idle", "relock"} /\ Mask(t, "both")
      /\ UNCHANGED <<n, node, hand, timer, mutex, fate, calls>>
  BY DEF IInv, CallLock, Relock, CallUnlock, At
<1>3. at \in Label
  BY DEF Label
<1>4. TypeOK'
  BY <1>1, <1>2, <1>3, GotoKeeps, MaskKeeps DEF TypeOK
<1>5. QED
  BY <1>1, <1>2, <1>3, <1>4, GotoKeeps, MaskKeeps, ThreadStep, ZenonT(40)

(* exit(1) and the call made before kthread_index is assigned.              *)
LEMMA FaultStep ==
  ASSUME IInv, NEW t \in Users, LockTwice(t) \/ UnlockOther(t) \/ CallUnknown(t) PROVE IInv'
<1>1. /\ TypeOK /\ fate' \in {"exit", "fault"}
      /\ UNCHANGED <<n, node, act, kt, hand, timer, mutex, calls>>
  BY DEF LockTwice, UnlockOther, CallUnknown, IInv
<1>2. TypeOK'
  BY <1>1 DEF TypeOK
<1>3. QED
  BY <1>1, <1>2, StopStep

LEMMA LockTakeStep == ASSUME IInv, NEW t \in Users, LockTake(t) PROVE IInv'
<1> USE Constants
<1>1. /\ TypeOK /\ Runs(t) /\ act[t].at \in {"locking", "relocking"}
      /\ mutex' = [mutex EXCEPT !.tid = t] /\ Mask(t, "none") /\ Return(t)
      /\ UNCHANGED <<n, hand, timer, fate, calls>>
  BY DEF IInv, LockTake, Locks, At
<1>2. node' \in [Tids -> Node] /\ \A q \in Tids : node'[q].ctx = node[q].ctx
                                                  /\ node'[q].state = node[q].state
  <2>1. node \in [Tids -> Node]
    BY <1>1 DEF TypeOK
  <2>2. CASE t = Main
    BY <2>1, <2>2 DEF LockTake
  <2>3. CASE t # Main
    <3>1. t \in Tids /\ node' = [node EXCEPT ![t].chan = FALSE]
      BY <2>3 DEF LockTake
    <3>2. QED
      BY <2>1, <3>1 DEF Node
  <2>4. QED
    BY <2>2, <2>3
<1>3. mutex' \in [tid : Users \cup {None}, lk : Users \cup {None}]
  BY <1>1 DEF TypeOK
<1>4. TypeOK'
  BY <1>1, <1>2, <1>3, ReturnKeeps, MaskKeeps DEF TypeOK
<1>5. QED
  BY <1>1, <1>2, <1>4, ReturnKeeps, MaskKeeps, ThreadStep, ZenonT(40)

LEMMA LockSleepStep == ASSUME IInv, NEW t \in Users, LockSleep(t) PROVE IInv'
<1> USE Constants
<1>1. /\ TypeOK /\ Runs(t) /\ act[t].at \in {"locking", "relocking"}
      /\ UNCHANGED <<n, hand, timer, mutex, calls>>
  BY DEF IInv, LockSleep, Locks, At
<1>2. CASE t = Main
  <2>1. fate' = "fault" /\ UNCHANGED <<node, act, kt>>
    BY <1>2 DEF LockSleep
  <2>2. TypeOK'
    BY <1>1, <2>1 DEF TypeOK
  <2>3. QED
    BY <2>1, <2>2, StopStep
<1>3. CASE t # Main
  <2>1. /\ node' = [node EXCEPT ![t].chan = TRUE, ![t].state = "SLEEPING"]
        /\ LookUp(t, "setjmp") /\ Mask(t, "none") /\ UNCHANGED fate
    BY <1>3 DEF LockSleep, LookUp
  <2>2. t \in Tids /\ "setjmp" \in Label /\ "SLEEPING" \in State
    BY <1>3 DEF Label, State
  <2>3. node' \in [Tids -> Node] /\ \A q \in Tids : node'[q].ctx = node[q].ctx
                               /\ (node'[q].state = node[q].state \/ q = t)
    <3>1. node \in [Tids -> Node]
      BY <1>1 DEF TypeOK
    <3>2. node' = [node EXCEPT ![t].chan = TRUE, ![t].state = "SLEEPING"]
      BY <2>1
    <3>3. QED
      BY <2>2, <3>1, <3>2, ZenonT(40) DEF Node
  <2>4. /\ act' \in [Users -> Act] /\ \A u \in Users \ {t} : act'[u] = act[u]
        /\ act'[t].at = "setjmp" /\ act'[t].idx \in KT
    BY <1>1, <2>1, <2>2, LookUpKeeps
  <2>5. TypeOK'
    BY <1>1, <2>1, <2>3, <2>4, MaskKeeps DEF TypeOK
  <2>6. QED
    BY <1>1, <2>1, <2>3, <2>4, <2>5, MaskKeeps, ThreadStep
<1>4. QED
  BY <1>2, <1>3

LEMMA SetJmpStep == ASSUME IInv, NEW t \in Users, SetJmp(t) PROVE IInv'
<1> USE Constants
<1>1. /\ TypeOK /\ Alive /\ Runs(t) /\ act[t].at = "setjmp" /\ Goto(t, "leave")
      /\ node' = [node EXCEPT ![t].ctx = "asleep"]
      /\ UNCHANGED <<n, kt, hand, timer, mutex, fate, calls>>
  BY DEF IInv, SetJmp, At, Runs
<1>2. (t # Main => act[t].idx \in KT) /\ "leave" \in Label /\ "asleep" \in Context
  BY <1>1 DEF Alive, Contexts, Label, Context
<1>3. /\ node' \in [Tids -> Node] /\ \A r \in Tids \ {t} : node'[r] = node[r]
      /\ t \in Tids => node'[t].ctx = "asleep" /\ node'[t].state = node[t].state
  <2>1. CASE t \in Tids
    BY <1>1, <1>2, <2>1, ContextKeeps
  <2>2. CASE t \notin Tids
    <3>1. node \in [Tids -> Node]
      BY <1>1 DEF TypeOK
    <3>2. node' = node
      BY <1>1, <2>2, <3>1
    <3>3. QED
      BY <2>2, <3>1, <3>2
  <2>3. QED
    BY <2>1, <2>2
<1>4. /\ act' \in [Users -> Act] /\ \A u \in Users \ {t} : act'[u] = act[u]
      /\ act'[t].at = "leave" /\ (t # Main => act'[t].idx \in KT)
  BY <1>1, <1>2, GotoKeeps
<1>5. TypeOK'
  BY <1>1, <1>3, <1>4 DEF TypeOK
<1>6. QED
  BY <1>1, <1>3, <1>4, <1>5, ThreadStep

LEMMA UnlockWakeStep == ASSUME IInv, NEW t \in Users, UnlockWake(t) PROVE IInv'
<1> USE Constants
<1>1. /\ TypeOK /\ Alive /\ Runs(t) /\ act[t].at = "unlocking"
      /\ mutex' = [tid |-> None, lk |-> t] /\ Mask(t, "none") /\ Goto(t, "unlocked")
      /\ UNCHANGED <<n, hand, timer, fate, calls>>
  BY DEF IInv, Runs, UnlockWake, At
<1>2. node' \in [Tids -> Node] /\ \A q \in Tids : node'[q].ctx = node[q].ctx
                               /\ (node'[q].state = node[q].state \/ act[q].at # "unborn")
  <2>1. CASE node' = node
    BY <1>1, <2>1 DEF TypeOK
  <2>2. ASSUME NEW w \in Sleepers, node' = [node EXCEPT ![w].state = "RUNNABLE"]
        PROVE  <1>2!1 /\ <1>2!2
    <3>1. w \in Tids /\ "RUNNABLE" \in State /\ act[w].at # "unborn"
      BY <1>1 DEF Sleepers, State, Alive, Unborn
    <3>2. /\ node' \in [Tids -> Node] /\ \A r \in Tids \ {w} : node'[r] = node[r]
          /\ node'[w].ctx = node[w].ctx
      BY <1>1, <2>2, <3>1, StateKeeps
    <3>3. QED
      BY <3>1, <3>2
  <2>3. QED
    BY <2>1, <2>2 DEF UnlockWake
<1>3. /\ act' \in [Users -> Act] /\ \A u \in Users \ {t} : act'[u] = act[u]
      /\ act'[t].at = "unlocked"
  <2>1. "unlocked" \in Label
    BY DEF Label
  <2>2. QED
    BY <1>1, <2>1, GotoKeeps
<1>4. TypeOK'
  BY <1>1, <1>2, <1>3, MaskKeeps DEF TypeOK
<1>5. \A i \in KT : /\ kt'[i].on = kt[i].on /\ kt'[i].curr = kt[i].curr
                    /\ kt'[i].vt = kt[i].vt /\ kt'[i].pub = kt[i].pub
                    /\ kt'[i].at = kt[i].at /\ kt'[i].pos = kt[i].pos
  BY <1>1, MaskKeeps
<1>6. QED
  BY <1>1, <1>2, <1>3, <1>4, <1>5, ThreadStep

LEMMA UnlockedStep == ASSUME IInv, NEW t \in Users, Unlocked(t) PROVE IInv'
<1> USE Constants
<1>1. /\ TypeOK /\ Runs(t) /\ act[t].at = "unlocked"
      /\ act' = [act EXCEPT ![t].at = "releasing", ![t].idx = Index(t)]
      /\ UNCHANGED <<n, node, kt, hand, timer, mutex, fate, calls>>
  BY DEF IInv, Unlocked, At
<1>2. act \in [Users -> Act] /\ "releasing" \in Label /\ Index(t) \in KT \cup {None}
  BY <1>1, IndexRuns DEF TypeOK, Label, Index
<1>3. /\ act' \in [Users -> Act] /\ \A u \in Users \ {t} : act'[u] = act[u]
      /\ act'[t].at = "releasing"
  BY <1>1, <1>2 DEF Act
<1>4. TypeOK'
  BY <1>1, <1>3 DEF TypeOK
<1>5. QED
  BY <1>1, <1>3, <1>4, ThreadStep

(* release goes on for the caller, and exits for a thread it takes for      *)
(* another.                                                                 *)
LEMMA ReleasingStep == ASSUME IInv, NEW t \in Users, Releasing(t) PROVE IInv'
<1> USE Constants
<1>1. /\ TypeOK /\ Runs(t) /\ act[t].at = "releasing" /\ UNCHANGED <<n, node, hand, timer, calls>>
  BY DEF IInv, Releasing, At
<1>2. CASE fate' = "stray" /\ UNCHANGED <<act, kt, mutex>>
  <2>1. TypeOK'
    BY <1>1, <1>2 DEF TypeOK
  <2>2. QED
    BY <1>2, <2>1, StopStep
<1>3. CASE mutex' = [mutex EXCEPT !.lk = None] /\ Mask(t, "none") /\ Return(t) /\ UNCHANGED fate
  <2>1. mutex' \in [tid : Users \cup {None}, lk : Users \cup {None}]
    BY <1>1, <1>3 DEF TypeOK
  <2>2. /\ act' \in [Users -> Act] /\ \A u \in Users \ {t} : act'[u] = act[u]
        /\ act'[t].at = "idle"
    BY <1>1, <1>3, ReturnKeeps
  <2>3. TypeOK'
    BY <1>1, <1>3, <2>1, <2>2, MaskKeeps DEF TypeOK
  <2>4. QED
    BY <1>1, <1>3, <2>2, <2>3, MaskKeeps, ThreadStep
<1>4. QED
  BY <1>2, <1>3 DEF Releasing

LEMMA CreateStep == ASSUME IInv, Create PROVE IInv'
<1> USE Constants
<1>1. /\ TypeOK /\ CurrRuns /\ Alive /\ fate = "running" /\ fate' = fate
      /\ Main \in Users /\ act[Main].at = "idle"
      /\ n \in Tids /\ n' = n + 1 /\ UNCHANGED <<hand, timer, mutex, calls>>
  BY DEF IInv, TypeOK, Create, At, Runs
<1>2. n \in Nat /\ act[n].at = "unborn" /\ n \in Users /\ n # Main /\ n' \in 0 .. N
  BY <1>1 DEF Alive, Inserted
<1>3. CASE n < K
  <2>1. /\ kt' = [kt EXCEPT ![n].curr = n] /\ node' = node
        /\ act' = [act EXCEPT ![Main].at = "clone", ![Main].k = n]
    <3>1. ~(n >= K)
      BY <1>2, <1>3
    <3>2. QED
      BY <3>1 DEF Create
  <2>0. n \in KT
    BY <1>2, <1>3
  <2>2. /\ kt' \in [KT -> KThread] /\ \A i \in KT \ {n} : kt'[i] = kt[i]
        /\ kt'[n].on = kt[n].on /\ kt'[n].curr = n
        /\ kt'[n].vt = kt[n].vt /\ kt'[n].pub = kt[n].pub
    BY <1>1, <2>0, <2>1, CurrKeeps
  <2>3. /\ act' \in [Users -> Act] /\ \A u \in Users \ {Main} : act'[u] = act[u]
        /\ act'[Main].at = "clone" /\ act'[Main].k = n
    <3>1. "clone" \in Label
      BY DEF Label
    <3>2. act \in [Users -> Act]
      BY <1>1 DEF TypeOK
    <3>3. QED
      BY <1>1, <2>1, <3>1, <3>2, ZenonT(40) DEF Act
  <2>4. kt[n].on = None
    BY <1>1, <1>2, <2>0, <2>1 DEF Alive, Cloned
  <2>5. TypeOK'
    BY <1>1, <1>2, <2>1, <2>2, <2>3 DEF TypeOK
  <2>6. CurrRuns'
    BY <1>1, <2>0, <2>2, <2>4 DEF CurrRuns
  <2>7. Inserted' /\ OneStack'
    <3>1. Inserted'
      BY <1>1, <1>2, <2>1, <2>3 DEF Alive, Inserted
    <3>2. OneStack'
      BY <1>1, <2>2, <2>4 DEF Alive, OneStack
    <3>3. QED
      BY <3>1, <3>2
  <2>8. Cloned'
    BY <1>1, <1>2, <2>1, <2>2, <2>3, <2>4 DEF Alive, Cloned
  <2>9. Unborn' /\ Scheduling'
    <3>1. Unborn'
      BY <1>1, <2>1, <2>2, <2>3, <2>4 DEF Alive, Unborn
    <3>2. Scheduling'
      BY <1>1, <1>2, <2>0, <2>2, <2>4 DEF Alive, Scheduling
    <3>3. QED
      BY <3>1, <3>2
  <2>10. Contexts'
    BY <1>1, <1>2, <2>1, <2>2, <2>3, <2>4 DEF Alive, Contexts
  <2>11. QED
    BY <2>5, <2>6, <2>7, <2>8, <2>9, <2>10 DEF Alive, IInv
<1>4. CASE ~(n < K)
  <2>1. /\ node \in [Tids -> Node]
        /\ node' = [node EXCEPT ![n].state = "RUNNABLE", ![n].ctx = "new"]
        /\ Goto(n, "first") /\ kt' = kt
    BY <1>1, <1>4 DEF Create, TypeOK, Goto
  <2>2. /\ node' \in [Tids -> Node] /\ \A t \in Tids \ {n} : node'[t] = node[t]
    <3>1. "RUNNABLE" \in State /\ "new" \in Context
      BY DEF State, Context
    <3>2. QED
      BY <1>1, <2>1, <3>1, ZenonT(40) DEF Node
  <2>3. /\ act' \in [Users -> Act] /\ \A u \in Users \ {n} : act'[u] = act[u]
        /\ act'[n].at = "first"
    <3>1. "first" \in Label
      BY DEF Label
    <3>2. QED
      BY <1>1, <1>2, <2>1, <3>1, GotoKeeps
  <2>4. TypeOK'
    BY <1>1, <1>2, <2>1, <2>2, <2>3 DEF TypeOK
  <2>5. CurrRuns'
    BY <1>1, <2>1 DEF CurrRuns
  <2>6. Inserted' /\ OneStack' /\ Cloned'
    <3>1. Inserted' /\ Cloned'
      BY <1>1, <1>2, <2>1, <2>2, <2>3, SMTT(30) DEF Alive, Inserted, Cloned
    <3>2. OneStack'
      BY <1>1, <2>1 DEF Alive, OneStack
    <3>3. QED
      BY <3>1, <3>2
  <2>7. Unborn' /\ Scheduling'
    BY <1>1, <1>2, <2>1, <2>2, <2>3, SMTT(30) DEF Alive, Unborn, Scheduling
  <2>8. node'[n].ctx = "new"
    BY <1>1, <2>1
  <2>9. Contexts'
    BY <1>1, <1>2, <2>1, <2>2, <2>3, <2>8 DEF Alive, Unborn, Contexts
  <2>10. QED
    BY <2>4, <2>5, <2>6, <2>7, <2>9 DEF Alive, IInv
<1>5. QED
  BY <1>3, <1>4

LEMMA CloneStep == ASSUME IInv, Clone PROVE IInv'
<1> USE Constants
<1>1. PICK t \in Tids : t = act[Main].k
  BY DEF IInv, Clone, At, Runs, Alive, Inserted, TypeOK
<1>2. /\ TypeOK /\ CurrRuns /\ Alive /\ fate = "running" /\ fate' = fate
      /\ Main \in Users /\ act[Main].at = "clone" /\ t < n /\ n' = n /\ n \in Nat
      /\ UNCHANGED <<node, hand, timer, mutex, calls>>
  BY <1>1 DEF IInv, TypeOK, Clone, At, Runs, Alive, Inserted
<1>3. /\ t \in KT /\ act[t].at = "unborn" /\ kt[t].on = None /\ kt[t].curr = t
      /\ t \in Users /\ t # Main
  BY <1>1, <1>2 DEF Alive, Cloned
<1>4. /\ kt' \in [KT -> KThread] /\ \A i \in KT \ {t} : kt'[i] = kt[i]
      /\ kt'[t].on = t /\ kt'[t].curr = t
  <2>1. kt' = [kt EXCEPT ![t].on = t]
    BY <1>1 DEF Clone
  <2>2. QED
    BY <1>2, <1>3, <2>1, OnKeeps
<1>5. /\ act' \in [Users -> Act] /\ \A u \in Users \ {Main, t} : act'[u] = act[u]
      /\ act'[Main].at = "publish" /\ act'[Main].k = t /\ act'[t].at = "start"
  <2>1. /\ act \in [Users -> Act]
        /\ act' = [act EXCEPT ![Main].at = "publish", ![t] = [@ EXCEPT !.at = "start", !.k = t]]
    BY <1>1, <1>2 DEF Clone, TypeOK
  <2>2. "publish" \in Label /\ "start" \in Label
    BY DEF Label
  <2> DEFINE a == [act[t] EXCEPT !.at = "start", !.k = t]
  <2>3. a \in Act /\ a.at = "start"
    <3>1. act[t] \in Act
      BY <1>3, <2>1
    <3>2. QED
      BY <2>2, <3>1 DEF Act
  <2>4. act' = [act EXCEPT ![Main].at = "publish", ![t] = a]
    BY <1>3, <2>1
  <2> HIDE DEF a
  <2>5. act' \in [Users -> Act] /\ \A u \in Users \ {Main, t} : act'[u] = act[u]
    <3> DEFINE b == [act[Main] EXCEPT !.at = "publish"]
    <3>1. act[Main] \in Act
      BY <1>2, <2>1
    <3>2. b \in Act
      BY <2>2, <3>1 DEF Act
    <3>3. act' = [act EXCEPT ![Main] = b, ![t] = a]
      BY <1>3, <2>1, <2>4
    <3> HIDE DEF b
    <3>4. QED
      BY <1>2, <1>3, <2>1, <2>3, <3>2, <3>3
  <2>6. act'[Main].at = "publish" /\ act'[Main].k = t
    BY <1>1, <1>2, <1>3, <2>1, <2>4 DEF Act
  <2>7. act'[t].at = "start"
    BY <1>3, <2>1, <2>3, <2>4
  <2>8. QED
    BY <2>5, <2>6, <2>7
<1>6. TypeOK'
  BY <1>2, <1>4, <1>5 DEF TypeOK
<1>7. CurrRuns'
  BY <1>2, <1>3, <1>4 DEF CurrRuns, Alive, Unborn
<1>8. Inserted' /\ OneStack' /\ Cloned'
  <2>1. Inserted' /\ Cloned'
    BY <1>2, <1>3, <1>4, <1>5, SMTT(30) DEF Alive, Inserted, Cloned
  <2>2. OneStack'
    BY <1>2, <1>3, <1>4 DEF Alive, OneStack, Unborn
  <2>3. QED
    BY <2>1, <2>2
<1>9. Unborn' /\ Scheduling'
  BY <1>2, <1>3, <1>4, <1>5 DEF Alive, Unborn, Scheduling
<1>10. Contexts'
  BY <1>2, <1>3, <1>4, <1>5 DEF Alive, Unborn, Contexts
<1>11. QED
  BY <1>6, <1>7, <1>8, <1>9, <1>10 DEF Alive, IInv

LEMMA PublishStep == ASSUME IInv, Publish PROVE IInv'
<1> USE Constants
<1>1. PICK t \in Tids : t = act[Main].k
  BY DEF IInv, Publish, At, Runs, Alive, Inserted, TypeOK
<1>2. /\ TypeOK /\ CurrRuns /\ Alive /\ fate = "running" /\ fate' = fate
      /\ Main \in Users /\ act[Main].at = "publish" /\ n' = n
      /\ Return(Main) /\ UNCHANGED <<node, hand, timer, mutex, calls>>
  BY DEF IInv, Publish, At, Runs
<1>3. t \in KT /\ kt[t].on # None
  BY <1>1, <1>2 DEF Alive, Cloned
<1>4. /\ kt' \in [KT -> KThread] /\ \A i \in KT \ {t} : kt'[i] = kt[i]
      /\ kt'[t].on = kt[t].on /\ kt'[t].curr = kt[t].curr
      /\ kt'[t].at = kt[t].at /\ kt'[t].pos = kt[t].pos
  <2>1. kt' = [kt EXCEPT ![t].pub = TRUE]
    BY <1>1 DEF Publish
  <2>2. QED
    BY <1>2, <1>3, <2>1, PubKeeps
<1>5. /\ act' \in [Users -> Act] /\ \A u \in Users \ {Main} : act'[u] = act[u]
      /\ act'[Main].at = "idle"
  BY <1>2, ReturnKeeps
<1>6. TypeOK'
  BY <1>2, <1>4, <1>5 DEF TypeOK
<1>7. CurrRuns'
  BY <1>2, <1>3, <1>4 DEF CurrRuns
<1>8. Inserted' /\ OneStack' /\ Cloned'
  <2>1. Inserted' /\ Cloned'
    BY <1>2, <1>3, <1>4, <1>5, SMTT(30) DEF Alive, Inserted, Cloned
  <2>2. OneStack'
    BY <1>2, <1>3, <1>4 DEF Alive, OneStack
  <2>3. QED
    BY <2>1, <2>2
<1>9. Unborn' /\ Scheduling'
  BY <1>2, <1>3, <1>4, <1>5, SMTT(30) DEF Alive, Unborn, Scheduling
<1>10. Contexts'
  BY <1>2, <1>3, <1>4, <1>5 DEF Alive, Contexts
<1>11. QED
  BY <1>6, <1>7, <1>8, <1>9, <1>10 DEF Alive, IInv

(* A step of kernel thread i that ends in its scheduler.                    *)
LEMMA SchedulerStep ==
  ASSUME IInv, TypeOK', NEW i \in KT, fate = "running", n' = n,
         kt[i].on # None, kt'[i].on = Sched, kt'[i].pub = kt[i].pub, kt'[i].curr # None,
         \A j \in KT \ {i} : kt'[j] = kt[j],
         kt'[i].at = "enter" => kt'[i].curr \in Tids,
         kt'[i].at # "enter" => kt'[i].pos \in 0 .. n - 1,
         kt'[i].at = "go" => kt'[i].curr = kt'[i].pos,
         \A q \in Tids :
            kt'[i].curr = q \/ (kt'[i].at \in {"requeue", "curr", "go"} /\ kt'[i].pos = q)
              => act[q].at # "unborn",
         \A u \in Users : act'[u].at = act[u].at /\ act'[u].k = act[u].k,
         \A u \in Tids : \/ act'[u].idx = act[u].idx
                         \/ act[u].at \in {"gone", "leave"} /\ kt[i].on = u /\ node'[u] = node[u],
         \A q \in Tids : \/ node'[q].ctx = node[q].ctx
                         \/ act[q].at # "unborn" /\ node'[q].ctx = "sched"
                         \/ kt[i].on = q /\ act'[q] = act[q] /\ node'[q].ctx = "handler",
         \A q \in Tids : node'[q].state = node[q].state \/ act[q].at # "unborn"
  PROVE  IInv'
<1> USE Constants
<1>1. TypeOK /\ CurrRuns /\ Alive /\ n \in Nat
  BY DEF IInv, TypeOK
<1>2. CurrRuns'
  BY <1>1 DEF CurrRuns
<1>3. Inserted' /\ OneStack'
  BY <1>1 DEF Alive, Inserted, OneStack
<1>4. Cloned'
  <2>1. \A t \in Tids : act[Main].at = "clone" /\ act[Main].k = t => t # i
    BY <1>1 DEF Alive, Cloned
  <2>2. \A j \in KT : kt[j].on # None => kt'[j].on # None
    OBVIOUS
  <2>3. \A j \in KT : j >= n => kt'[j].on = None
    BY <1>1 DEF Alive, Cloned
  <2>4. \A j \in KT : kt'[j].vt \/ kt'[j].pub => kt'[j].on # None
    BY <1>1 DEF Alive, Cloned
  <2>5. act'[Main].at = act[Main].at /\ act'[Main].k = act[Main].k
    OBVIOUS
  <2>6. QED
    BY <1>1, <2>1, <2>2, <2>3, <2>4, <2>5 DEF Alive, Cloned
<1>5. Unborn'
  <2>1. \A q \in Tids : act[q].at = "unborn" => kt[i].on # q
    BY <1>1 DEF Alive, Unborn
  <2>2. QED
    BY <1>1, <2>1 DEF Alive, Unborn
<1>6. Scheduling'
  BY <1>1 DEF Alive, Scheduling
<1>7. Contexts'
  <2>1. \A q \in Tids, j \in KT : kt'[j].on = q => j # i /\ kt[j].on = q /\ kt[i].on # q
    BY <1>1 DEF Alive, OneStack
  <2>2. ASSUME NEW q \in Tids, node'[q].ctx = node[q].ctx
        PROVE  /\ node'[q].ctx = "asleep" => act'[q].at = "leave"
               /\ act'[q].at \in {"exit", "setjmp"} => act'[q].idx \in KT
               /\ act'[q].at \in {"gone", "leave"} /\ act'[q].idx = None
                    => node'[q].ctx \notin {"new", "handler"}
               /\ \A j \in KT : kt'[j].on = q =>
                    /\ node'[q].ctx \notin {"new", "handler"}
                    /\ act'[q].at \in {"gone", "leave"} => act'[q].idx \in KT
    BY <1>1, <2>1, <2>2 DEF Alive, Contexts
  <2>3. ASSUME NEW q \in Tids, node'[q].ctx # node[q].ctx
        PROVE  /\ node'[q].ctx = "asleep" => act'[q].at = "leave"
               /\ act'[q].at \in {"exit", "setjmp"} => act'[q].idx \in KT
               /\ act'[q].at \in {"gone", "leave"} /\ act'[q].idx = None
                    => node'[q].ctx \notin {"new", "handler"}
               /\ \A j \in KT : kt'[j].on = q =>
                    /\ node'[q].ctx \notin {"new", "handler"}
                    /\ act'[q].at \in {"gone", "leave"} => act'[q].idx \in KT
    BY <1>1, <2>1, <2>3 DEF Alive, Contexts
  <2>4. QED
    BY <2>2, <2>3 DEF Contexts
<1>8. QED
  BY <1>1, <1>2, <1>3, <1>4, <1>5, <1>6, <1>7 DEF Alive, IInv

(* The jump of a kernel thread to the start of a scheduler.                 *)
LEMMA JumpKeeps ==
  ASSUME TypeOK, NEW j \in KT, NEW i \in KT, NEW m \in {"none", "vt", "both"},
         ToScheduler(j, i, m)
  PROVE  /\ fate' \in {fate, "lost"} /\ kt' \in [KT -> KThread]
         /\ \A l \in KT \ {j} : kt'[l] = kt[l]
         /\ kt'[j].on = Sched /\ kt'[j].at = "enter" /\ kt'[j].curr = kt[j].curr
         /\ kt'[j].pub = kt[j].pub
<1>1. kt \in [KT -> KThread]
  BY DEF TypeOK
<1>2. PICK b \in BOOLEAN :
        kt' = [kt EXCEPT ![j].on = Sched, ![j].at = "enter", ![j].stk = i,
                         ![j].mask = m, ![j].vt = b]
  BY DEF ToScheduler
<1>3. kt' \in [KT -> KThread]
  <2> DEFINE x == [kt[j] EXCEPT !.on = Sched, !.at = "enter", !.stk = i, !.mask = m, !.vt = b]
  <2>1. kt[j] \in KThread
    BY <1>1
  <2>2. x \in KThread
    BY <2>1 DEF KThread
  <2>3. kt' = [kt EXCEPT ![j] = x]
    BY <1>1, <1>2
  <2> HIDE DEF x
  <2>4. QED
    BY <1>1, <2>2, <2>3
<1>4. \A l \in KT \ {j} : kt'[l] = kt[l]
  BY <1>1, <1>2
<1>5. /\ kt'[j].on = Sched /\ kt'[j].at = "enter" /\ kt'[j].curr = kt[j].curr
      /\ kt'[j].pub = kt[j].pub
  BY <1>1, <1>2 DEF KThread
<1>6. fate' \in {fate, "lost"}
  BY DEF ToScheduler
<1>7. QED
  BY <1>3, <1>4, <1>5, <1>6

LEMMA LeaveStep == ASSUME IInv, NEW t \in Tids, Leave(t) PROVE IInv'
<1> USE Constants
<1> DEFINE j == Index(t)  i == act[t].idx
<1>1. /\ TypeOK /\ CurrRuns /\ Alive /\ fate = "running" /\ t \in Users /\ Runs(t)
      /\ act[t].at \in {"gone", "leave"} /\ ToScheduler(j, i, "none")
      /\ act' = [act EXCEPT ![t].idx = None] /\ UNCHANGED <<n, node, hand, timer, mutex, calls>>
  BY DEF IInv, Leave, At, Runs
<1>2. j \in KT /\ kt[j].on = t
  BY <1>1, IndexRuns
<1> HIDE DEF j
<1>3. i \in KT /\ kt[j].curr = t /\ act[t].at # "unborn"
  BY <1>1, <1>2 DEF Alive, Contexts, CurrRuns
<1>4. act' \in [Users -> Act] /\ \A u \in Users : act'[u].at = act[u].at /\ act'[u].k = act[u].k
                           /\ (u # t => act'[u] = act[u])
  <2>1. act \in [Users -> Act]
    BY <1>1 DEF TypeOK
  <2>2. QED
    BY <1>1, <2>1 DEF Act
<1> HIDE DEF i
<1>5. /\ fate' \in {fate, "lost"} /\ kt' \in [KT -> KThread]
      /\ \A l \in KT \ {j} : kt'[l] = kt[l]
      /\ kt'[j].on = Sched /\ kt'[j].at = "enter" /\ kt'[j].curr = kt[j].curr
      /\ kt'[j].pub = kt[j].pub
  BY <1>1, <1>2, <1>3, JumpKeeps
<1>6. TypeOK'
  BY <1>1, <1>4, <1>5 DEF TypeOK
<1>7. QED
  BY <1>1, <1>2, <1>3, <1>4, <1>5, <1>6, SchedulerStep

(* The timer, and the steps of the SIGALRM handler.                         *)
LEMMA ExpireStep == ASSUME IInv, Expire PROVE IInv'
<1> USE Constants
<1>1. /\ TypeOK /\ fate = "running" /\ calls.alarms < MaxAlarms
      /\ calls' = [calls EXCEPT !.alarms = @ + 1]
      /\ timer' = [timer EXCEPT !.armed = FALSE, !.pend = TRUE]
      /\ UNCHANGED <<n, node, act, kt, hand, mutex, fate>>
  BY DEF IInv, Expire
<1>2. calls' \in [made : 0 .. MaxCalls, alarms : 0 .. MaxAlarms]
  <2>1. calls \in [made : 0 .. MaxCalls, alarms : 0 .. MaxAlarms]
    BY <1>1 DEF TypeOK
  <2>2. calls.alarms + 1 \in 0 .. MaxAlarms
    BY <1>1, <2>1, ManyManyAssumption
  <2>3. calls' = [calls EXCEPT !.alarms = calls.alarms + 1]
    BY <1>1
  <2>4. QED
    BY <2>1, <2>2, <2>3
<1>3. TypeOK'
  BY <1>1, <1>2 DEF TypeOK
<1>4. QED
  BY <1>1, <1>3, QuietStep DEF IInv, Alive, Cloned

LEMMA HandlerStep ==
  ASSUME IInv, NEW c \in Carriers,
         Deliver(c) \/ HandlerOff(c) \/ HandlerLoad(c) \/ HandlerStore(c)
  PROVE  IInv'
<1> USE Constants
<1>1. TypeOK /\ fate = "running" /\ UNCHANGED <<n, node, act, kt, mutex, fate, calls>>
  BY DEF IInv, Deliver, HandlerOff, HandlerLoad, HandlerStore
<1>2. /\ hand \in [Carriers -> Handler] /\ hand[c] \in Handler
      /\ timer \in [armed : BOOLEAN, pend : BOOLEAN, index : KT]
  BY <1>1 DEF TypeOK
<1>3. (timer.index + 1) % K \in KT
  BY <1>2
<1>4. /\ hand' \in [Carriers -> Handler]
      /\ timer' \in [armed : BOOLEAN, pend : BOOLEAN, index : KT]
  <2>1. CASE Deliver(c)
    <3>1. [hand[c] EXCEPT !.at = "off"] \in Handler
      BY <1>2, <2>1 DEF Deliver, Receives, Free, Handler
    <3>2. hand' = [hand EXCEPT ![c] = [hand[c] EXCEPT !.at = "off"]]
      BY <1>2, <2>1 DEF Deliver
    <3>3. timer' \in [armed : BOOLEAN, pend : BOOLEAN, index : KT]
      BY <1>2, <2>1 DEF Deliver
    <3>4. QED
      BY <1>2, <3>1, <3>2, <3>3
  <2>2. CASE HandlerOff(c)
    <3>1. [hand[c] EXCEPT !.at = "load"] \in Handler
      BY <1>2, <2>2 DEF HandlerOff, Handler
    <3>2. hand' = [hand EXCEPT ![c] = [hand[c] EXCEPT !.at = "load"]]
      BY <1>2, <2>2 DEF HandlerOff
    <3>3. timer' \in [armed : BOOLEAN, pend : BOOLEAN, index : KT]
      BY <1>2, <2>2 DEF HandlerOff, Disarmed
    <3>4. QED
      BY <1>2, <3>1, <3>2, <3>3
  <2>3. CASE HandlerLoad(c)
    <3>1. [at |-> "store", i |-> (timer.index + 1) % K] \in Handler
      BY <1>3 DEF Handler
    <3>2. QED
      BY <1>2, <2>3, <3>1 DEF HandlerLoad
  <2>4. CASE HandlerStore(c)
    <3>1. hand[c].i \in KT
      BY <1>2, <2>4 DEF HandlerStore, Handler
    <3>2. [at |-> "send", i |-> None] \in Handler
      BY DEF Handler
    <3>3. QED
      BY <1>2, <2>4, <3>1, <3>2 DEF HandlerStore
  <2>5. QED
    BY <2>1, <2>2, <2>3, <2>4
<1>5. TypeOK'
  BY <1>1, <1>4 DEF TypeOK
<1>6. QED
  BY <1>1, <1>5, QuietStep DEF IInv, Alive, Cloned

LEMMA HandlerSendStep == ASSUME IInv, NEW c \in Carriers, HandlerSend(c) PROVE IInv'
<1> USE Constants
<1> DEFINE i == timer.index
<1>1. /\ TypeOK /\ fate = "running"
      /\ kt' = [kt EXCEPT ![i].vt = @ \/ kt[i].pub]
      /\ hand' = [hand EXCEPT ![c] = NoHandler]
      /\ UNCHANGED <<n, node, act, timer, mutex, fate, calls>>
  BY DEF IInv, HandlerSend
<1>2. i \in KT /\ kt \in [KT -> KThread]
  BY <1>1 DEF TypeOK
<1> HIDE DEF i
<1>3. PICK b \in BOOLEAN : kt' = [kt EXCEPT ![i].vt = b] /\ (b => kt[i].vt \/ kt[i].pub)
  BY <1>1, <1>2 DEF KThread
<1>4. kt' \in [KT -> KThread]
  BY <1>2, <1>3, SMTT(30) DEF KThread
<1>5. \A j \in KT : /\ kt'[j].on = kt[j].on /\ kt'[j].curr = kt[j].curr /\ kt'[j].pub = kt[j].pub
                    /\ kt'[j].at = kt[j].at /\ kt'[j].pos = kt[j].pos
                    /\ (kt'[j].vt => kt[j].vt \/ kt[j].pub)
  BY <1>2, <1>3 DEF KThread
<1>6. hand' \in [Carriers -> Handler]
  BY <1>1 DEF TypeOK, Handler, NoHandler
<1>7. TypeOK'
  BY <1>1, <1>4, <1>6 DEF TypeOK
<1>8. QED
  BY <1>1, <1>5, <1>7, QuietStep

(* The context and the frame a handler leaves, or a jump takes.             *)
LEMMA FrameKeeps ==
  ASSUME TypeOK, NEW q \in Tids, NEW c \in Context, NEW f \in Handler,
         node' = [node EXCEPT ![q].ctx = c, ![q].frame = f]
  PROVE  /\ node' \in [Tids -> Node] /\ \A r \in Tids \ {q} : node'[r] = node[r]
         /\ node'[q].ctx = c /\ node'[q].state = node[q].state
         /\ node'[q].chan = node[q].chan
<1>1. node \in [Tids -> Node]
  BY DEF TypeOK
<1>2. QED
  BY <1>1 DEF Node

LEMMA PreemptStep == ASSUME IInv, NEW i \in KT, Preempt(i) PROVE IInv'
<1> USE Constants
<1> DEFINE on == kt[i].on  t == kt[i].curr
<1>1. /\ TypeOK /\ CurrRuns /\ Alive /\ fate = "running" /\ kt[i].vt
      /\ timer' = Disarmed /\ UNCHANGED <<n, act, mutex, calls>>
      /\ kt \in [KT -> KThread] /\ hand \in [Carriers -> Handler] /\ i \in Carriers
  BY DEF IInv, Preempt, TypeOK, Carriers
<1>2. on # None /\ t \in Tids \cup {Sched} /\ (on # Sched => t = on)
  <2>1. on # None /\ kt[i] \in KThread
    BY <1>1 DEF Alive, Cloned
  <2>2. on \in Tids \cup {Sched} /\ t \in Tids \cup {Sched, None}
    BY <2>1 DEF KThread
  <2>3. on = Sched => t # None
    BY <1>1 DEF Alive, Scheduling
  <2>4. on # Sched => t = on
    BY <1>1, <2>2 DEF CurrRuns
  <2>5. QED
    BY <2>1, <2>2, <2>3, <2>4
<1>3. CASE t = Sched
  <2>1. kt' = [kt EXCEPT ![i].vt = FALSE, ![i].spent = TRUE] /\ UNCHANGED <<node, hand, fate>>
    BY <1>3 DEF Preempt
  <2>2. kt' \in [KT -> KThread]
    <3> DEFINE x == [kt[i] EXCEPT !.vt = FALSE, !.spent = TRUE]
    <3>1. kt[i] \in KThread
      BY <1>1
    <3>2. x \in KThread
      BY <3>1 DEF KThread
    <3>3. kt' = [kt EXCEPT ![i] = x]
      BY <1>1, <2>1
    <3> HIDE DEF x
    <3>4. QED
      BY <1>1, <3>2, <3>3
  <2>3. TypeOK'
    BY <1>1, <2>1, <2>2 DEF TypeOK, Disarmed
  <2>4. \A j \in KT : /\ kt'[j].on = kt[j].on /\ kt'[j].curr = kt[j].curr /\ kt'[j].pub = kt[j].pub
                      /\ kt'[j].at = kt[j].at /\ kt'[j].pos = kt[j].pos
                      /\ (kt'[j].vt => kt[j].vt)
    BY <1>1, <2>1 DEF KThread
  <2>5. n' = n /\ node' = node /\ act' = act /\ fate' = fate
    BY <1>1, <2>1
  <2> HIDE DEF on, t
  <2>6. QED
    BY <1>1, <2>3, <2>4, <2>5, QuietStep
<1>4. CASE t # Sched
  <2>1. PICK c \in {"handler", "sched"}, f \in Handler, m \in {"vt", "both"} :
          /\ node' = [node EXCEPT ![t].ctx = c, ![t].frame = f]
          /\ c = "handler" => on # Sched
          /\ ToScheduler(i, i, m)
    <3>1. hand[i] \in Handler /\ NoHandler \in Handler
      BY <1>1 DEF Handler, NoHandler
    <3>2. QED
      BY <1>4, <3>1 DEF Preempt
  <2>2. hand' \in [Carriers -> Handler]
    BY <1>1, <1>4 DEF Preempt, Handler, NoHandler
  <2>3. t \in Tids /\ act[t].at # "unborn"
    BY <1>1, <1>2, <1>4 DEF Alive, Unborn
  <2>4. /\ node' \in [Tids -> Node] /\ \A r \in Tids \ {t} : node'[r] = node[r]
        /\ node'[t].ctx = c /\ node'[t].state = node[t].state
    <3>1. c \in Context
      BY DEF Context
    <3>2. QED
      BY <1>1, <2>1, <2>3, <3>1, FrameKeeps
  <2>5. /\ fate' \in {fate, "lost"} /\ kt' \in [KT -> KThread]
        /\ \A l \in KT \ {i} : kt'[l] = kt[l]
        /\ kt'[i].on = Sched /\ kt'[i].at = "enter" /\ kt'[i].curr = kt[i].curr
        /\ kt'[i].pub = kt[i].pub
    BY <1>1, <2>1, JumpKeeps
  <2>6. TypeOK'
    BY <1>1, <2>2, <2>4, <2>5 DEF TypeOK, Disarmed
  <2>7. QED
    BY <1>1, <1>2, <2>1, <2>3, <2>4, <2>5, <2>6, SchedulerStep
<1>5. QED
  BY <1>3, <1>4

(* What a scheduler step stores in its own entry.                           *)
LEMMA EnterStep == ASSUME IInv, NEW i \in KT, Enter(i) PROVE IInv'
<1> USE Constants
<1>1. /\ TypeOK /\ CurrRuns /\ Alive /\ fate = "running" /\ kt[i].on = Sched /\ kt[i].at = "enter"
      /\ UNCHANGED <<n, node, act, hand, timer, mutex, fate, calls>>
  BY DEF IInv, Enter, SchedAt
<1>2. PICK t \in Tids, at \in {"requeue", "first"} :
        t = kt[i].curr
        /\ kt' = [kt EXCEPT ![i].pos = t, ![i].curr = Sched, ![i].at = at]
  BY <1>1 DEF Enter, Alive, Scheduling
<1>3. act[t].at # "unborn" /\ t \in 0 .. n - 1
  <2>1. act[t].at # "unborn"
    BY <1>1, <1>2 DEF Alive, Unborn
  <2>2. ~(t >= n) /\ n \in Nat
    BY <1>1, <2>1 DEF Alive, Inserted, TypeOK
  <2>3. QED
    BY <2>1, <2>2
<1>4. kt \in [KT -> KThread]
  BY <1>1 DEF TypeOK
<1>5. kt' \in [KT -> KThread]
  <2> DEFINE x == [kt[i] EXCEPT !.pos = t, !.curr = Sched, !.at = at]
  <2>1. kt[i] \in KThread
    BY <1>4
  <2>2. x \in KThread
    BY <2>1 DEF KThread
  <2>3. kt' = [kt EXCEPT ![i] = x]
    BY <1>2, <1>4
  <2> HIDE DEF x
  <2>4. QED
    BY <1>4, <2>2, <2>3
<1>6. \A l \in KT \ {i} : kt'[l] = kt[l]
  BY <1>2, <1>4
<1>7. /\ kt'[i].on = Sched /\ kt'[i].at = at /\ kt'[i].curr = Sched
      /\ kt'[i].pub = kt[i].pub /\ kt'[i].pos = t
  BY <1>1, <1>2, <1>4 DEF KThread
<1>8. TypeOK'
  BY <1>1, <1>5 DEF TypeOK
<1>9. QED
  BY <1>1, <1>3, <1>6, <1>7, <1>8, SchedulerStep

LEMMA RequeueStep == ASSUME IInv, NEW i \in KT, Requeue(i) PROVE IInv'
<1> USE Constants
<1>1. /\ TypeOK /\ CurrRuns /\ Alive /\ fate = "running" /\ kt[i].on = Sched /\ kt[i].at = "requeue"
      /\ kt' = [kt EXCEPT ![i].at = "first"]
      /\ node' = [node EXCEPT ![kt[i].pos].state = "RUNNABLE"]
      /\ UNCHANGED <<n, act, hand, timer, mutex, fate, calls>>
  BY DEF IInv, Requeue, SchedAt
<1>2. PICK t \in Tids : t = kt[i].pos
  BY <1>1, PosInList
<1>3. /\ act[t].at # "unborn" /\ t \in 0 .. n - 1 /\ kt[i].curr # None
  BY <1>1, <1>2 DEF Alive, Unborn, Scheduling
<1>4. /\ node' \in [Tids -> Node] /\ \A r \in Tids \ {t} : node'[r] = node[r]
      /\ node'[t].ctx = node[t].ctx
  <2>1. "RUNNABLE" \in State /\ node' = [node EXCEPT ![t].state = "RUNNABLE"]
    BY <1>1, <1>2 DEF State
  <2>2. QED
    BY <1>1, <2>1, StateKeeps
<1>5. kt \in [KT -> KThread]
  BY <1>1 DEF TypeOK
<1>6. kt' \in [KT -> KThread]
  <2> DEFINE x == [kt[i] EXCEPT !.at = "first"]
  <2>1. kt[i] \in KThread
    BY <1>5
  <2>2. x \in KThread
    BY <2>1 DEF KThread
  <2>3. kt' = [kt EXCEPT ![i] = x]
    BY <1>1, <1>5
  <2> HIDE DEF x
  <2>4. QED
    BY <1>5, <2>2, <2>3
<1>7. \A l \in KT \ {i} : kt'[l] = kt[l]
  BY <1>1, <1>5
<1>8. /\ kt'[i].on = Sched /\ kt'[i].at = "first" /\ kt'[i].curr = kt[i].curr
      /\ kt'[i].pub = kt[i].pub /\ kt'[i].pos = t
  BY <1>1, <1>2, <1>5 DEF KThread
<1>9. TypeOK'
  BY <1>1, <1>4, <1>6 DEF TypeOK
<1>10. \A q \in Tids : kt'[i].curr = q => act[q].at # "unborn"
  BY <1>1, <1>8 DEF Alive, Unborn
<1>11. n' = n /\ act' = act /\ fate' = fate /\ kt[i].on # None
  BY <1>1
<1>12. \A q \in Tids : node'[q].ctx = node[q].ctx
                       /\ (node'[q].state = node[q].state \/ act[q].at # "unborn")
  BY <1>3, <1>4
<1>13. fate = "running" /\ kt'[i].on = Sched /\ kt'[i].curr # None /\ kt'[i].pos \in 0 .. n - 1
  BY <1>1, <1>3, <1>8
<1>14. QED
  BY <1>7, <1>8, <1>9, <1>10, <1>11, <1>12, <1>13, SchedulerStep

LEMMA SetCurrStep == ASSUME IInv, NEW i \in KT, SetCurr(i) PROVE IInv'
<1> USE Constants
<1>1. /\ TypeOK /\ CurrRuns /\ Alive /\ fate = "running" /\ kt[i].on = Sched /\ kt[i].at = "curr"
      /\ kt' = [kt EXCEPT ![i].curr = kt[i].pos, ![i].at = "go", ![i].mask = "none"]
      /\ UNCHANGED <<n, node, act, hand, timer, mutex, fate, calls>>
  BY DEF IInv, SetCurr, SchedAt, Current
<1>2. PICK t \in Tids : t = kt[i].pos
  BY <1>1, PosInList
<1>3. /\ act[t].at # "unborn" /\ t \in 0 .. n - 1
  BY <1>1, <1>2 DEF Alive, Unborn, Scheduling
<1>4. kt \in [KT -> KThread]
  BY <1>1 DEF TypeOK
<1>5. kt' \in [KT -> KThread]
  <2> DEFINE x == [kt[i] EXCEPT !.curr = t, !.at = "go", !.mask = "none"]
  <2>1. kt[i] \in KThread
    BY <1>4
  <2>2. x \in KThread
    BY <2>1 DEF KThread
  <2>3. kt' = [kt EXCEPT ![i] = x]
    BY <1>1, <1>2, <1>4
  <2> HIDE DEF x
  <2>4. QED
    BY <1>4, <2>2, <2>3
<1>6. \A l \in KT \ {i} : kt'[l] = kt[l]
  BY <1>1, <1>4
<1>7. /\ kt'[i].on = Sched /\ kt'[i].at = "go" /\ kt'[i].curr = t
      /\ kt'[i].pub = kt[i].pub /\ kt'[i].pos = t
  BY <1>1, <1>2, <1>4 DEF KThread
<1>8. TypeOK'
  BY <1>1, <1>5 DEF TypeOK
<1>9. /\ fate = "running" /\ n' = n /\ act' = act /\ node' = node /\ fate' = fate
      /\ kt[i].on # None /\ kt'[i].curr # None /\ kt'[i].pos \in 0 .. n - 1
  BY <1>1, <1>3, <1>7
<1>10. QED
  BY <1>3, <1>6, <1>7, <1>8, <1>9, SchedulerStep

(* The node a scheduler goes on to is in the list.                          *)
LEMMA SuccInList ==
  ASSUME n \in Nat, NEW q \in 0 .. n - 1
  PROVE  Succ(q) \in 0 .. n - 1
BY DEF Succ

LEMMA WalkStep == ASSUME IInv, NEW i \in KT, Walk(i) PROVE IInv'
<1> USE Constants
<1> DEFINE q == IF kt[i].at = "first" THEN Succ(kt[i].pos) ELSE kt[i].pos
<1>1. /\ TypeOK /\ CurrRuns /\ Alive /\ fate = "running" /\ kt[i].on = Sched
      /\ kt[i].at \in {"first", "walk"} /\ n \in Nat /\ n <= N
      /\ UNCHANGED <<n, act, hand, timer, mutex, fate, calls>>
  BY DEF IInv, Walk, SchedAt, TypeOK
<1>2. q \in 0 .. n - 1 /\ q \in Tids /\ Succ(q) \in 0 .. n - 1 /\ Succ(q) \in Tids
  <2>1. kt[i].pos \in 0 .. n - 1
    BY <1>1 DEF Alive, Scheduling
  <2>2. q \in 0 .. n - 1
    BY <1>1, <2>1, SuccInList
  <2> HIDE DEF q
  <2>3. Succ(q) \in 0 .. n - 1
    BY <1>1, <2>2, SuccInList
  <2>4. QED
    BY <1>1, <2>2, <2>3
<1>3. PICK p \in Tids, at \in {"curr", "walk"} :
        /\ kt' = [kt EXCEPT ![i].pos = p, ![i].at = at, ![i].mask = "none"]
        /\ p \in 0 .. n - 1
        /\ \/ node' = node /\ at = "walk"
           \/ p = q /\ Chooses(q)
              /\ node' = [node EXCEPT ![q].state = "RUNNING", ![q].ktid = i]
  BY <1>2 DEF Walk
<1> HIDE DEF q
<1>4. /\ node' \in [Tids -> Node] /\ (at = "curr" => act[p].at # "unborn")
      /\ \A r \in Tids : node'[r].ctx = node[r].ctx
                         /\ (node'[r].state = node[r].state \/ act[r].at # "unborn")
  <2>1. node \in [Tids -> Node]
    BY <1>1 DEF TypeOK
  <2>2. CASE node' = node /\ at = "walk"
    BY <2>1, <2>2
  <2>3. CASE /\ p = q /\ Chooses(q)
             /\ node' = [node EXCEPT ![q].state = "RUNNING", ![q].ktid = i]
    <3>1. act[q].at # "unborn"
      BY <1>1, <1>2, <2>3 DEF Chooses, Alive, Unborn
    <3>2. "RUNNING" \in State
      BY DEF State
    <3>3. node' \in [Tids -> Node]
      BY <1>2, <2>1, <2>3, <3>2, ZenonT(40) DEF Node
    <3>4. \A r \in Tids : node'[r].ctx = node[r].ctx /\ (node'[r].state = node[r].state \/ r = q)
      BY <1>2, <2>1, <2>3 DEF Node
    <3>5. QED
      BY <2>3, <3>1, <3>3, <3>4
  <2>4. QED
    BY <1>3, <2>2, <2>3
<1>5. kt \in [KT -> KThread]
  BY <1>1 DEF TypeOK
<1>6. kt' \in [KT -> KThread]
  <2> DEFINE x == [kt[i] EXCEPT !.pos = p, !.at = at, !.mask = "none"]
  <2>1. kt[i] \in KThread
    BY <1>5
  <2>2. x \in KThread
    BY <2>1 DEF KThread
  <2>3. kt' = [kt EXCEPT ![i] = x]
    BY <1>3, <1>5
  <2> HIDE DEF x
  <2>4. QED
    BY <1>5, <2>2, <2>3
<1>7. \A l \in KT \ {i} : kt'[l] = kt[l]
  BY <1>3, <1>5
<1>8. /\ kt'[i].on = kt[i].on /\ kt'[i].at = at /\ kt'[i].curr = kt[i].curr
      /\ kt'[i].pub = kt[i].pub /\ kt'[i].pos = p
  BY <1>3, <1>5 DEF KThread
<1>9. TypeOK'
  BY <1>1, <1>4, <1>6 DEF TypeOK
<1>10. \A r \in Tids : kt[i].curr = r => act[r].at # "unborn"
  BY <1>1 DEF Alive, Unborn
<1>11. kt[i].curr # None
  BY <1>1 DEF Alive, Scheduling
<1>12. /\ fate = "running" /\ n' = n /\ act' = act /\ fate' = fate /\ kt[i].on # None
       /\ kt'[i].on = Sched /\ kt'[i].curr # None /\ kt'[i].pos \in 0 .. n - 1
  BY <1>1, <1>3, <1>8, <1>11
<1>13. \A r \in Tids :
         kt'[i].curr = r \/ (kt'[i].at \in {"requeue", "curr", "go"} /\ kt'[i].pos = r)
           => act[r].at # "unborn"
  BY <1>3, <1>4, <1>8, <1>10
<1>14. kt'[i].at \notin {"enter", "go"} /\ kt'[i].pub = kt[i].pub
  BY <1>3, <1>8
<1>15. QED
  BY <1>4, <1>7, <1>9, <1>12, <1>13, <1>14, SchedulerStep

LEMMA GoStep == ASSUME IInv, NEW i \in KT, Go(i) PROVE IInv'
<1> USE Constants
<1>1. /\ TypeOK /\ CurrRuns /\ Alive /\ fate = "running" /\ kt[i].on = Sched /\ kt[i].at = "go"
      /\ timer' = Armed /\ UNCHANGED <<n, mutex, calls>>
  BY DEF IInv, Go, SchedAt
<1>0. kt \in [KT -> KThread] /\ node \in [Tids -> Node] /\ hand \in [Carriers -> Handler]
  BY <1>1 DEF TypeOK
<1>2. PICK t \in Tids : t = kt[i].pos
  BY <1>1, PosInList
<1>3. kt[i].curr = t /\ act[t].at # "unborn" /\ t \in Users /\ t # Main
  BY <1>1, <1>2 DEF Alive, Scheduling, Unborn
<1> DEFINE lands == node[t].ctx \in {"new", "handler", "asleep"}
           unused == \A j \in KT : kt[j].on # t
<1>4. fate' = IF lands /\ unused THEN fate ELSE "lost"
  BY <1>2 DEF Go
<1>5. CASE ~lands
  <2>1. UNCHANGED <<node, act, kt, hand>> /\ fate' = "lost"
    BY <1>2, <1>4, <1>5 DEF Go
  <2>2. TypeOK'
    BY <1>1, <2>1 DEF TypeOK, Armed
  <2>3. QED
    BY <2>1, <2>2, StopStep
<1>6. CASE lands
  <2>1. /\ kt' = [kt EXCEPT ![i].on = t, ![i].at = "enter", ![i].pos = None, ![i].stk = i]
        /\ node' = [node EXCEPT ![t].ctx = "stale", ![t].frame = NoHandler]
        /\ hand' = [hand EXCEPT ![i] = node[t].frame]
        /\ node[t].ctx = "asleep" => Goto(t, "relock")
        /\ node[t].ctx # "asleep" => act' = act
    BY <1>2, <1>6 DEF Go
  <2>2. /\ node' \in [Tids -> Node] /\ \A r \in Tids \ {t} : node'[r] = node[r]
        /\ node'[t].ctx = "stale" /\ node'[t].state = node[t].state
    <3>1. "stale" \in Context /\ NoHandler \in Handler
      BY DEF Context, Handler, NoHandler
    <3>2. QED
      BY <1>1, <2>1, <3>1, FrameKeeps
  <2>3. hand' \in [Carriers -> Handler]
    BY <1>0, <2>1 DEF Node
  <2>4. /\ act' \in [Users -> Act] /\ \A u \in Users \ {t} : act'[u] = act[u]
        /\ act'[t].at # "unborn" /\ (act'[t] = act[t] \/ act'[t].at = "relock")
        /\ act'[t].at \in {"gone", "leave"} => act'[t].idx \in KT
    <3>1. CASE node[t].ctx = "asleep"
      <4>1. "relock" \in Label
        BY DEF Label
      <4>2. TypeOK /\ t \in Users /\ Goto(t, "relock")
        BY <1>1, <1>3, <2>1, <3>1
      <4>3. QED
        BY <4>1, <4>2, GotoKeeps
    <3>2. CASE node[t].ctx # "asleep"
      <4>1. act' = act /\ act[t] \in Act /\ act \in [Users -> Act]
        BY <1>1, <1>3, <2>1, <3>2 DEF TypeOK
      <4>2. act[t].at \in {"gone", "leave"} => act[t].idx \in KT
        <5>1. node[t].ctx \in {"new", "handler"}
          BY <1>6, <3>2
        <5>2. act[t].at \in {"gone", "leave"} => act[t].idx # None
          BY <1>1, <1>3, <5>1 DEF Alive, Contexts
        <5>3. QED
          BY <4>1, <5>2 DEF Act
      <4>3. QED
        BY <1>3, <4>1, <4>2
    <3>3. QED
      BY <3>1, <3>2
  <2>5. kt' \in [KT -> KThread]
    <3> DEFINE x == [kt[i] EXCEPT !.on = t, !.at = "enter", !.pos = None, !.stk = i]
    <3>1. kt[i] \in KThread
      BY <1>0
    <3>2. x \in KThread
      BY <3>1 DEF KThread
    <3>3. kt' = [kt EXCEPT ![i] = x]
      BY <1>0, <2>1
    <3> HIDE DEF x
    <3>4. QED
      BY <1>0, <3>2, <3>3
  <2>6. \A l \in KT \ {i} : kt'[l] = kt[l]
    BY <1>0, <2>1
  <2>7. /\ kt'[i].on = t /\ kt'[i].curr = t /\ kt'[i].vt = kt[i].vt /\ kt'[i].pub = kt[i].pub
    BY <1>0, <1>3, <2>1 DEF KThread
  <2>8. fate' \in {"running", "lost"}
    BY <1>1, <1>4
  <2>9. TypeOK'
    BY <1>1, <2>2, <2>3, <2>4, <2>5, <2>8 DEF TypeOK, Armed
  <2>10. CurrRuns'
    BY <1>1, <2>6, <2>7, SMTT(30) DEF CurrRuns
  <2>11. ASSUME fate' = "running" PROVE Alive'
    <3>1. unused
      BY <1>4, <2>11
    <3>2. Inserted' /\ OneStack'
      <4>1. Inserted'
        BY <1>1, <1>3, <2>2, <2>4 DEF Alive, Inserted
      <4>2. OneStack'
        BY <1>1, <2>6, <2>7, <3>1 DEF Alive, OneStack
      <4>3. QED
        BY <4>1, <4>2
    <3>3. Cloned'
      <4>1. \A q \in Tids : act[Main].at = "clone" /\ act[Main].k = q => q # i /\ q # t
        BY <1>1, <1>3 DEF Alive, Cloned
      <4>2. \A j \in KT : j >= n => kt'[j].on = None
        BY <1>1, <2>6, <2>7 DEF Alive, Cloned
      <4>3. act'[Main] = act[Main]
        BY <1>3, <2>4
      <4>4. QED
        BY <1>1, <1>3, <2>4, <2>6, <2>7, <4>1, <4>2, <4>3 DEF Alive, Cloned
    <3>4. Unborn'
      BY <1>1, <1>3, <2>2, <2>4, <2>6, <2>7 DEF Alive, Unborn
    <3>5. Scheduling'
      BY <1>1, <1>3, <2>6, <2>7 DEF Alive, Scheduling
    <3>6. Contexts'
      BY <1>1, <1>3, <1>6, <2>2, <2>4, <2>6, <2>7, <3>1 DEF Alive, Contexts
    <3>7. QED
      BY <3>2, <3>3, <3>4, <3>5, <3>6 DEF Alive
  <2>12. QED
    BY <2>9, <2>10, <2>11 DEF IInv
<1>7. QED
  BY <1>5, <1>6

(* One step per action.                                                     *)
LEMMA NextIInv == IInv /\ [Next]_vars => IInv'
<1> SUFFICES ASSUME IInv, [Next]_vars PROVE IInv'
  OBVIOUS
<1>1. ASSUME Create \/ Clone \/ Publish \/ JoinWait \/ \E k \in Targets : CallJoin(k) PROVE IInv'
  BY <1>1, ManyManyAssumption, CreateStep, CloneStep, PublishStep, JoinWaitStep, CallJoinStep
<1>2. ASSUME NEW t \in Tids,
             execute_me_oo(t) \/ execute_me_mo(t) \/ CallUnknown(t) \/ CallExit(t)
               \/ thread_exit(t)
      PROVE  IInv'
  <2>1. t \in Users
    BY Constants
  <2>2. QED
    BY <1>2, <2>1, StartStep, SetupStep, FirstStep, GettidStep, SetKtidStep, FaultStep,
       CallExitStep, ExitMarkStep, LeaveStep DEF execute_me_oo, execute_me_mo, thread_exit
<1>3. ASSUME NEW t \in Users,
             (\E k \in Targets : CallKill(t, k)) \/ Kill(t) \/ CallLock(t) \/ CallUnlock(t)
      PROVE  IInv'
  BY <1>3, ManyManyAssumption, CallKillStep, KillStep, MaskedStep
<1>4. ASSUME NEW t \in Users, acquiresleep(t) PROVE IInv'
  BY <1>4, MaskedStep, FaultStep, LockTakeStep, LockSleepStep, SetJmpStep DEF acquiresleep
<1>5. ASSUME NEW t \in Users, releasesleep(t) PROVE IInv'
  BY <1>5, FaultStep, UnlockWakeStep, UnlockedStep, ReleasingStep DEF releasesleep
<1>6. ASSUME Expire \/ \E c \in Carriers : Deliver(c) \/ signal_handler_alarm(c) PROVE IInv'
  BY <1>6, ExpireStep, HandlerStep, HandlerSendStep DEF signal_handler_alarm
<1>7. ASSUME NEW i \in KT, Preempt(i) \/ scheduler(i) PROVE IInv'
  BY <1>7, PreemptStep, EnterStep, RequeueStep, WalkStep, SetCurrStep, GoStep DEF scheduler
<1>8. CASE UNCHANGED vars
  BY <1>8 DEF vars, IInv, TypeOK, CurrRuns, Alive, Inserted, OneStack, Cloned, Unborn, Scheduling,
             Contexts, Node, Act, KThread
<1>9. QED
  BY <1>1, <1>2, <1>3, <1>4, <1>5, <1>6, <1>7, <1>8 DEF Next

(* The inductive invariant holds in every reachable state.                  *)
THEOREM Invariance == Spec => []IInv
<1>1. Init => IInv
  BY InitIInv
<1>2. IInv /\ [Next]_vars => IInv'
  BY NextIInv
<1>3. QED
  BY <1>1, <1>2, PTL DEF Spec

(* The types of all variables hold in every reachable state.                *)
THEOREM TypeCorrect == Spec => []TypeOK
<1>1. IInv => TypeOK
  BY DEF IInv
<1>2. QED
  BY <1>1, Invariance, PTL

(* A thread that executes is the entry of curr_running_proc_array of its    *)
(* kernel thread: what acquire, execute_me_mo and the SIGVTALRM handler     *)
(* take for the caller is the caller, also after an undefined jump.         *)
THEOREM Caller == Spec => []CurrRuns
<1>1. IInv => CurrRuns
  BY DEF IInv
<1>2. QED
  BY <1>1, Invariance, PTL

-----------------------------------------------------------------------------
(***************************************************************************)
(* The sleeplock implements the abstract lock.                             *)
(***************************************************************************)
InLock == {"locking", "setjmp", "leave", "relock", "relocking"}

(* Nobody owns the mutex or waits for it at first.                          *)
LEMMA InitRefines == Init => Lock!LockInit
<1> SUFFICES ASSUME Init PROVE Lock!LockInit
  OBVIOUS
<1>1. \A t \in Users : act[t].at \notin InLock \cup {"unlocking"}
  BY DEF Init, InLock
<1>2. lockCall = [t \in Users |-> "none"]
  BY <1>1 DEF lockCall, OnWay, InLock
<1>3. QED
  BY <1>2 DEF Init, Lock!LockInit

(* What does not bring a thread into or out of a call, nor give the mutex   *)
(* to another, is hidden.                                                   *)
LEMMA HiddenStep ==
  ASSUME mutex'.tid = mutex.tid, fate' = "exit" <=> fate = "exit",
         \A u \in Users : /\ act'[u].at \in InLock <=> act[u].at \in InLock
                          /\ act'[u].at = "unlocking" <=> act[u].at = "unlocking"
  PROVE  UNCHANGED Lock!lockVars
<1>1. lockCall' = lockCall
  BY DEF lockCall, OnWay, InLock
<1>2. QED
  BY <1>1 DEF Lock!lockVars

(* What changes the call of one thread changes one entry.                   *)
LEMMA CallOf ==
  ASSUME NEW t \in Users, \A u \in Users \ {t} : act'[u] = act[u]
  PROVE  lockCall' = [lockCall EXCEPT ![t] = CASE act'[t].at \in InLock -> "lock"
                                               [] act'[t].at = "unlocking" -> "unlock"
                                               [] OTHER -> "none"]
BY DEF lockCall, OnWay, InLock

(* The calls of the program.                                                *)
LEMMA CallRefines ==
  ASSUME IInv, NEW t \in Users, CallLock(t) \/ CallUnlock(t)
  PROVE  Lock!LockNext
<1>1. /\ TypeOK /\ fate = "running" /\ act[t].at = "idle"
      /\ UNCHANGED <<mutex, fate>>
  BY DEF IInv, CallLock, CallUnlock, At, Runs
<1>2. lockCall[t] = "none"
  BY <1>1 DEF lockCall, OnWay
<1>3. CASE CallLock(t)
  <2>1. Goto(t, "locking") /\ "locking" \in Label
    BY <1>3 DEF CallLock, Label
  <2>2. act'[t].at = "locking" /\ \A u \in Users \ {t} : act'[u] = act[u]
    BY <1>1, <2>1, GotoKeeps
  <2>3. lockCall' = [lockCall EXCEPT ![t] = "lock"]
    BY <2>2, CallOf DEF InLock
  <2>4. QED
    BY <1>1, <1>2, <2>3 DEF Lock!Call, Lock!LockNext
<1>4. CASE CallUnlock(t)
  <2>1. Goto(t, "unlocking") /\ "unlocking" \in Label
    BY <1>4 DEF CallUnlock, Label
  <2>2. act'[t].at = "unlocking" /\ \A u \in Users \ {t} : act'[u] = act[u]
    BY <1>1, <2>1, GotoKeeps
  <2>3. lockCall' = [lockCall EXCEPT ![t] = "unlock"]
    BY <2>2, CallOf DEF InLock
  <2>4. QED
    BY <1>1, <1>2, <2>3 DEF Lock!Call, Lock!LockNext
<1>5. QED
  BY <1>3, <1>4

(* The store of the tid takes the lock, and the store of 0 gives it up.     *)
LEMMA TakeRefines ==
  ASSUME IInv, NEW t \in Users, LockTake(t)
  PROVE  Lock!LockNext
<1>1. /\ TypeOK /\ fate = "running" /\ act[t].at \in InLock /\ Return(t)
      /\ mutex.tid = None /\ mutex' = [mutex EXCEPT !.tid = t] /\ UNCHANGED fate
  BY DEF IInv, LockTake, Locks, Taken, At, Runs, InLock
<1>2. lockCall[t] = "lock"
  BY <1>1 DEF lockCall, OnWay, InLock
<1>3. lockCall' = [lockCall EXCEPT ![t] = "none"]
  <2>1. act'[t].at = "idle" /\ \A u \in Users \ {t} : act'[u] = act[u]
    BY <1>1, ReturnKeeps
  <2>2. QED
    BY <2>1, CallOf DEF InLock
<1>4. mutex'.tid = t
  BY <1>1 DEF TypeOK
<1>5. QED
  BY <1>1, <1>2, <1>3, <1>4 DEF Lock!TakeLock, Lock!LockNext

(* The release of the mutex is the release of the abstract lock.            *)
LEMMA GiveRefines ==
  ASSUME IInv, NEW t \in Users, UnlockWake(t)
  PROVE  Lock!LockNext
<1>1. /\ TypeOK /\ fate = "running" /\ act[t].at = "unlocking" /\ Goto(t, "unlocked")
      /\ mutex.tid = t /\ mutex' = [tid |-> None, lk |-> t] /\ UNCHANGED fate
  BY DEF IInv, UnlockWake, At, Runs
<1>2. lockCall[t] = "unlock"
  BY <1>1 DEF lockCall, OnWay
<1>3. lockCall' = [lockCall EXCEPT ![t] = "none"]
  <2>1. "unlocked" \in Label
    BY DEF Label
  <2>2. act'[t].at = "unlocked" /\ \A u \in Users \ {t} : act'[u] = act[u]
    BY <1>1, <2>1, GotoKeeps
  <2>3. QED
    BY <2>2, CallOf DEF InLock
<1>4. mutex'.tid = None
  BY <1>1
<1>5. QED
  BY <1>1, <1>2, <1>3, <1>4 DEF Lock!GiveLock, Lock!LockNext

(* exit(1) answers a call that breaks the protocol.                         *)
LEMMA ExitRefines ==
  ASSUME IInv, NEW t \in Users, LockTwice(t) \/ UnlockOther(t)
  PROVE  Lock!LockNext
<1>1. fate = "running" /\ fate' = "exit" /\ UNCHANGED <<act, mutex>>
  BY DEF LockTwice, UnlockOther, Locks, At, Runs
<1>2. lockCall' = lockCall /\ mutex'.tid = mutex.tid
  BY <1>1 DEF lockCall, OnWay
<1>3. \/ lockCall[t] = "lock" /\ mutex.tid = t
      \/ lockCall[t] = "unlock" /\ mutex.tid # t
  BY DEF LockTwice, UnlockOther, At, lockCall, OnWay
<1>4. QED
  BY <1>1, <1>2, <1>3 DEF Lock!Fault, Lock!LockNext

(* Everything else.                                                         *)
LEMMA MainHidden ==
  ASSUME IInv, Create \/ Clone \/ Publish \/ JoinWait \/ \E k \in Targets : CallJoin(k)
  PROVE  UNCHANGED Lock!lockVars
<1> USE Constants
<1>1. TypeOK /\ Alive /\ fate = "running" /\ UNCHANGED <<mutex, fate>>
  BY DEF IInv, Create, Clone, Publish, JoinWait, CallJoin, At, Runs
<1>2. act \in [Users -> Act] /\ Main \in Users
  BY <1>1 DEF TypeOK
<1>3. ASSUME Publish \/ JoinWait PROVE UNCHANGED Lock!lockVars
  <2>1. Return(Main) /\ act[Main].at \in {"publish", "join"}
    BY <1>3 DEF Publish, JoinWait, At
  <2>2. act'[Main].at = "idle" /\ \A u \in Users \ {Main} : act'[u] = act[u]
    BY <1>1, <1>2, <2>1, ReturnKeeps
  <2>3. QED
    BY <1>1, <2>1, <2>2, HiddenStep DEF InLock
<1>4. ASSUME NEW k \in Targets, CallJoin(k) PROVE UNCHANGED Lock!lockVars
  <2>1. act[Main].at = "idle" /\ act' = [act EXCEPT ![Main].at = "join", ![Main].k = k]
    BY <1>4 DEF CallJoin, At
  <2>2. act'[Main].at = "join" /\ \A u \in Users \ {Main} : act'[u] = act[u]
    BY <1>2, <2>1 DEF Act
  <2>3. QED
    BY <1>1, <2>1, <2>2, HiddenStep DEF InLock
<1>5. ASSUME Create PROVE UNCHANGED Lock!lockVars
  <2>1. act[Main].at = "idle" /\ n \in Tids /\ act[n].at = "unborn"
    BY <1>1, <1>5 DEF Create, At, TypeOK, Alive, Inserted
  <2>2. CASE act' = [act EXCEPT ![Main].at = "clone", ![Main].k = n]
    <3>1. act'[Main].at = "clone" /\ \A u \in Users \ {Main} : act'[u] = act[u]
      BY <1>2, <2>2 DEF Act
    <3>2. QED
      BY <1>1, <2>1, <3>1, HiddenStep DEF InLock
  <2>3. CASE act' = [act EXCEPT ![n].at = "first"]
    <3>1. act'[n].at = "first" /\ \A u \in Users \ {n} : act'[u] = act[u]
      BY <1>2, <2>1, <2>3 DEF Act
    <3>2. QED
      BY <1>1, <2>1, <3>1, HiddenStep DEF InLock
  <2>4. QED
    BY <1>5, <2>2, <2>3 DEF Create
<1>6. ASSUME Clone PROVE UNCHANGED Lock!lockVars
  <2>1. PICK t \in Tids : t = act[Main].k
    BY <1>1, <1>6 DEF Clone, At, Alive, Inserted, TypeOK
  <2>2. act[Main].at = "clone" /\ act[t].at = "unborn"
    BY <1>1, <1>6, <2>1 DEF Clone, At, Alive, Cloned
  <2>3. act' = [act EXCEPT ![Main].at = "publish", ![t] = [@ EXCEPT !.at = "start", !.k = t]]
    BY <1>6, <2>1 DEF Clone
  <2>4. /\ act'[Main].at = "publish" /\ act'[t].at = "start"
        /\ \A u \in Users \ {Main, t} : act'[u] = act[u]
    BY <1>2, <2>1, <2>2, <2>3 DEF Act
  <2>5. QED
    BY <1>1, <2>2, <2>4, HiddenStep DEF InLock
<1>7. QED
  BY <1>3, <1>4, <1>5, <1>6

(* Steps outside the mutex are no steps of the abstract lock.               *)
LEMMA ThreadHidden ==
  ASSUME IInv, NEW t \in Tids,
         execute_me_oo(t) \/ execute_me_mo(t) \/ CallUnknown(t) \/ CallExit(t) \/ thread_exit(t)
  PROVE  UNCHANGED Lock!lockVars
<1> USE Constants
<1>1. TypeOK /\ mutex' = mutex /\ t \in Users
  BY DEF IInv, execute_me_oo, execute_me_mo, Start, Setup, First, Gettid, SetKtid, CallUnknown,
             CallExit, thread_exit, ExitMark, Leave
<1>2. act \in [Users -> Act]
  BY <1>1 DEF TypeOK
<1>3. ASSUME Start(t) PROVE UNCHANGED Lock!lockVars
  <2>1. PICK at \in {"running", "setup"} : Goto(t, at)
    BY <1>3 DEF Start
  <2>2. at \in Label /\ act[t].at = "start" /\ fate' = fate
    BY <1>3 DEF Label, Start, At
  <2>3. act'[t].at = at /\ \A u \in Users \ {t} : act'[u] = act[u]
    BY <1>1, <2>1, <2>2, GotoKeeps
  <2>4. QED
    BY <1>1, <2>1, <2>2, <2>3, HiddenStep DEF InLock
<1>4. ASSUME Setup(t) PROVE UNCHANGED Lock!lockVars
  <2>1. /\ act[t].at \in {"running", "setup"} /\ fate' = fate
        /\ Goto(t, "gettid") /\ "gettid" \in Label
    BY <1>4 DEF Setup, At, Label
  <2>2. act'[t].at = "gettid" /\ \A u \in Users \ {t} : act'[u] = act[u]
    BY <1>1, <2>1, GotoKeeps
  <2>3. QED
    BY <1>1, <2>1, <2>2, HiddenStep DEF InLock
<1>5. ASSUME CallUnknown(t) PROVE UNCHANGED Lock!lockVars
  BY <1>1, <1>5, HiddenStep DEF CallUnknown, At, Runs
<1>6. ASSUME CallExit(t) PROVE UNCHANGED Lock!lockVars
  <2>1. act[t].at = "idle" /\ fate' = fate /\ LookUp(t, "exit") /\ "exit" \in Label /\ Runs(t)
    BY <1>6 DEF CallExit, At, LookUp, Label
  <2>2. act'[t].at = "exit" /\ \A u \in Users \ {t} : act'[u] = act[u]
    BY <1>1, <2>1, LookUpKeeps
  <2>3. QED
    BY <1>1, <2>1, <2>2, HiddenStep DEF InLock
<1>7. ASSUME ExitMark(t) PROVE UNCHANGED Lock!lockVars
  <2>1. act[t].at = "exit" /\ fate = "running" /\ fate' \in {"fault", "running"}
    BY <1>7 DEF ExitMark, At, Runs
  <2>2. act' = act \/ Goto(t, "gone")
    BY <1>7 DEF ExitMark
  <2>3. CASE act' = act
    BY <1>1, <2>1, <2>3, HiddenStep
  <2>4. CASE Goto(t, "gone")
    <3>1. "gone" \in Label
      BY DEF Label
    <3>2. act'[t].at = "gone" /\ \A u \in Users \ {t} : act'[u] = act[u]
      BY <1>1, <2>4, <3>1, GotoKeeps
    <3>3. QED
      BY <1>1, <2>1, <3>2, HiddenStep DEF InLock
  <2>5. QED
    BY <2>2, <2>3, <2>4
<1>8. ASSUME Leave(t) PROVE UNCHANGED Lock!lockVars
  <2>1. fate = "running" /\ fate' \in {"running", "lost"}
    BY <1>8 DEF Leave, At, Runs, ToScheduler
  <2>2. act' = [act EXCEPT ![t].idx = None]
    BY <1>8 DEF Leave
  <2>3. \A u \in Users : act'[u].at = act[u].at
    BY <1>2, <2>2 DEF Act
  <2>4. QED
    BY <1>1, <2>1, <2>3, HiddenStep
<1>9. ASSUME First(t) PROVE UNCHANGED Lock!lockVars
  <2>1. /\ act[t].at = "first" /\ fate' = fate
        /\ act' = [act EXCEPT ![t].at = "gettid", ![t].k = kt[Index(t)].curr]
    BY <1>9 DEF First, At
  <2>2. act'[t].at = "gettid" /\ \A u \in Users \ {t} : act'[u] = act[u]
    BY <1>1, <1>2, <2>1 DEF Act
  <2>3. QED
    BY <1>1, <2>1, <2>2, HiddenStep DEF InLock
<1>10. ASSUME Gettid(t) PROVE UNCHANGED Lock!lockVars
  <2>1. act[t].at = "gettid" /\ fate' = fate /\ LookUp(t, "ktid") /\ "ktid" \in Label /\ Runs(t)
    BY <1>10 DEF Gettid, At, LookUp, Label
  <2>2. act'[t].at = "ktid" /\ \A u \in Users \ {t} : act'[u] = act[u]
    BY <1>1, <2>1, LookUpKeeps
  <2>3. QED
    BY <1>1, <2>1, <2>2, HiddenStep DEF InLock
<1>11. ASSUME SetKtid(t) PROVE UNCHANGED Lock!lockVars
  <2>1. act[t].at = "ktid" /\ fate' = fate /\ Return(t)
    BY <1>11 DEF SetKtid, At
  <2>2. act'[t].at = "idle" /\ \A u \in Users \ {t} : act'[u] = act[u]
    BY <1>1, <2>1, ReturnKeeps
  <2>3. QED
    BY <1>1, <2>1, <2>2, HiddenStep DEF InLock
<1>12. QED
  BY <1>3, <1>4, <1>5, <1>6, <1>7, <1>8, <1>9, <1>10, <1>11
     DEF execute_me_oo, execute_me_mo, thread_exit

LEMMA UserHidden ==
  ASSUME IInv, NEW t \in Users,
         (\E k \in Targets : CallKill(t, k)) \/ Kill(t) \/ Relock(t) \/ LockSleep(t) \/ SetJmp(t)
           \/ Unlocked(t) \/ Releasing(t)
  PROVE  UNCHANGED Lock!lockVars
<1> USE Constants
<1>1. TypeOK /\ fate = "running" /\ mutex'.tid = mutex.tid
  BY DEF IInv, TypeOK, CallKill, Kill, Relock, LockSleep, Locks, SetJmp, Unlocked, Releasing,
            At, Runs
<1>2. act \in [Users -> Act]
  BY <1>1 DEF TypeOK
<1>3. ASSUME NEW k \in Targets, CallKill(t, k) PROVE UNCHANGED Lock!lockVars
  <2>1. /\ act[t].at = "idle" /\ fate' = fate
        /\ act' = [act EXCEPT ![t] = [at |-> "kill", k |-> k, idx |-> Index(t)]]
    BY <1>3 DEF CallKill, At
  <2>2. act'[t].at = "kill" /\ \A u \in Users \ {t} : act'[u] = act[u]
    BY <1>2, <2>1
  <2>3. QED
    BY <1>1, <2>1, <2>2, HiddenStep DEF InLock
<1>4. ASSUME Kill(t) PROVE UNCHANGED Lock!lockVars
  <2>1. act[t].at = "kill" /\ fate' = fate
    BY <1>4 DEF Kill, At
  <2>2. act' = [act EXCEPT ![t].at = "exit", ![t].idx = Index(t)] \/ Return(t)
    BY <1>4 DEF Kill
  <2>3. CASE Return(t)
    <3>1. act'[t].at = "idle" /\ \A u \in Users \ {t} : act'[u] = act[u]
      BY <1>1, <2>3, ReturnKeeps
    <3>2. QED
      BY <1>1, <2>1, <3>1, HiddenStep DEF InLock
  <2>4. CASE act' = [act EXCEPT ![t].at = "exit", ![t].idx = Index(t)]
    <3>1. act'[t].at = "exit" /\ \A u \in Users \ {t} : act'[u] = act[u]
      BY <1>2, <2>4 DEF Act
    <3>2. QED
      BY <1>1, <2>1, <3>1, HiddenStep DEF InLock
  <2>5. QED
    BY <2>2, <2>3, <2>4
<1>5. ASSUME NEW at \in {"relocking", "leave"}, Goto(t, at), act[t].at \in {"relock", "setjmp"},
             fate' = fate
      PROVE  UNCHANGED Lock!lockVars
  <2>1. at \in Label
    BY DEF Label
  <2>2. act'[t].at = at /\ \A u \in Users \ {t} : act'[u] = act[u]
    BY <1>1, <1>5, <2>1, GotoKeeps
  <2>3. QED
    BY <1>1, <1>5, <2>2, HiddenStep DEF InLock
<1>6. ASSUME LockSleep(t) PROVE UNCHANGED Lock!lockVars
  <2>1. act[t].at \in {"locking", "relocking"} /\ Runs(t)
    BY <1>6 DEF LockSleep, Locks, At
  <2>2. CASE t = Main
    <3>1. fate' = "fault" /\ act' = act
      BY <1>6, <2>2 DEF LockSleep
    <3>2. QED
      BY <1>1, <3>1, HiddenStep
  <2>3. CASE t # Main
    <3>1. t \in Tids /\ LookUp(t, "setjmp") /\ "setjmp" \in Label /\ fate' = fate
      BY <1>6, <2>3 DEF LockSleep, LookUp, Label
    <3>2. act'[t].at = "setjmp" /\ \A u \in Users \ {t} : act'[u] = act[u]
      BY <1>1, <2>1, <3>1, LookUpKeeps
    <3>3. QED
      BY <1>1, <2>1, <3>1, <3>2, HiddenStep DEF InLock
  <2>4. QED
    BY <2>2, <2>3
<1>7. ASSUME Unlocked(t) PROVE UNCHANGED Lock!lockVars
  <2>1. /\ act[t].at = "unlocked" /\ fate' = fate
        /\ act' = [act EXCEPT ![t].at = "releasing", ![t].idx = Index(t)]
    BY <1>7 DEF Unlocked, At
  <2>2. act'[t].at = "releasing" /\ \A u \in Users \ {t} : act'[u] = act[u]
    BY <1>2, <2>1 DEF Act
  <2>3. QED
    BY <1>1, <2>1, <2>2, HiddenStep DEF InLock
<1>8. ASSUME Releasing(t) PROVE UNCHANGED Lock!lockVars
  <2>1. act[t].at = "releasing" /\ fate' \in {"running", "stray"}
    BY <1>1, <1>8 DEF Releasing, At
  <2>2. act' = act \/ Return(t)
    BY <1>8 DEF Releasing
  <2>3. CASE act' = act
    BY <1>1, <2>1, <2>3, HiddenStep
  <2>4. CASE Return(t)
    <3>1. act'[t].at = "idle" /\ \A u \in Users \ {t} : act'[u] = act[u]
      BY <1>1, <2>4, ReturnKeeps
    <3>2. QED
      BY <1>1, <2>1, <3>1, HiddenStep DEF InLock
  <2>5. QED
    BY <2>2, <2>3, <2>4
<1>9. QED
  BY <1>3, <1>4, <1>5, <1>6, <1>7, <1>8 DEF Relock, SetJmp, At

(* A scheduler resumes a thread with the context of sleep_lock inside it.   *)
LEMMA SchedulerHidden ==
  ASSUME IInv,
         \/ Expire
         \/ \E c \in Carriers : Deliver(c) \/ signal_handler_alarm(c)
         \/ \E i \in KT : Preempt(i) \/ scheduler(i)
  PROVE  UNCHANGED Lock!lockVars
<1> USE Constants
<1>1. TypeOK /\ Alive /\ fate = "running" /\ mutex' = mutex
  BY DEF IInv, Expire, Deliver, signal_handler_alarm, HandlerOff, HandlerLoad, HandlerStore,
            HandlerSend, Preempt, scheduler, Enter, Requeue, Walk, SetCurr, Go, SchedAt
<1>2. ASSUME NEW i \in KT, Preempt(i) PROVE UNCHANGED Lock!lockVars
  <2>1. act' = act /\ fate' \in {"running", "lost"}
    BY <1>1, <1>2 DEF Preempt, ToScheduler
  <2>2. QED
    BY <1>1, <2>1, HiddenStep
<1>3. ASSUME NEW i \in KT, Go(i) PROVE UNCHANGED Lock!lockVars
  <2>1. PICK t \in Tids : t = kt[i].pos
    BY <1>1, <1>3, PosInList DEF Go, SchedAt
  <2>2. fate' \in {"running", "lost"}
    BY <1>1, <1>3 DEF Go
  <2>3. CASE act' = act
    BY <1>1, <2>2, <2>3, HiddenStep
  <2>4. CASE act' # act
    <3>1. node[t].ctx = "asleep" /\ Goto(t, "relock")
      BY <1>3, <2>1, <2>4 DEF Go
    <3>2. act[t].at = "leave" /\ "relock" \in Label /\ t \in Users
      BY <1>1, <3>1 DEF Alive, Contexts, Label
    <3>3. act'[t].at = "relock" /\ \A u \in Users \ {t} : act'[u] = act[u]
      BY <1>1, <3>1, <3>2, GotoKeeps
    <3>4. QED
      BY <1>1, <2>2, <3>2, <3>3, HiddenStep DEF InLock
  <2>5. QED
    BY <2>3, <2>4
<1>4. ASSUME \/ Expire
             \/ \E c \in Carriers : Deliver(c) \/ signal_handler_alarm(c)
             \/ \E i \in KT : Enter(i) \/ Requeue(i) \/ Walk(i) \/ SetCurr(i)
      PROVE  UNCHANGED Lock!lockVars
  <2>1. act' = act /\ fate' = fate
    BY <1>4 DEF Expire, Deliver, signal_handler_alarm, HandlerOff, HandlerLoad, HandlerStore,
                HandlerSend, Enter, Requeue, Walk, SetCurr
  <2>2. QED
    BY <1>1, <2>1, HiddenStep
<1>5. QED
  BY <1>2, <1>3, <1>4 DEF scheduler

(* Every step is a step of the abstract lock or none.                       *)
LEMMA NextRefines == IInv /\ [Next]_vars => [Lock!LockNext]_(Lock!lockVars)
<1> SUFFICES ASSUME IInv, [Next]_vars PROVE [Lock!LockNext]_(Lock!lockVars)
  OBVIOUS
<1>1. ASSUME NEW t \in Users, acquiresleep(t) PROVE [Lock!LockNext]_(Lock!lockVars)
  BY <1>1, UserHidden, TakeRefines, ExitRefines DEF acquiresleep
<1>2. ASSUME NEW t \in Users, releasesleep(t) PROVE [Lock!LockNext]_(Lock!lockVars)
  BY <1>2, UserHidden, GiveRefines, ExitRefines DEF releasesleep
<1>3. CASE UNCHANGED vars
  BY <1>3 DEF vars, Lock!lockVars, lockCall, OnWay
<1>4. QED
  BY <1>1, <1>2, <1>3, MainHidden, ThreadHidden, UserHidden, CallRefines, SchedulerHidden DEF Next

(* acquiresleep and releasesleep implement the abstract lock for any number *)
(* of kernel threads and threads, whatever the alarms do to them: the mutex *)
(* is taken only when it is free, is given up only by its owner, and their  *)
(* own exit(1) answers only a call that breaks the protocol.  The exit of   *)
(* the release inside releasesleep does not: it is excepted here.           *)
THEOREM Refinement == Spec => ImplementsLock
<1>1. Init => Lock!LockInit
  BY InitRefines
<1>2. IInv /\ [Next]_vars => [Lock!LockNext]_(Lock!lockVars)
  BY NextRefines
<1>3. QED
  BY <1>1, <1>2, Invariance, PTL DEF Spec, ImplementsLock, Lock!Spec

-----------------------------------------------------------------------------
(***************************************************************************)
(* No wakeup is lost.                                                      *)
(***************************************************************************)
Awake == {"RUNNABLE", "RUNNING", "TERMINATED"}

(* Who has set chan has not taken the mutex since; and while the mutex is   *)
(* free, the one that was woken last is on its way to it.                   *)
Way == \A t \in Tids : node[t].chan => act[t].at \in InLock

Woken ==
  (\E s \in Tids : node[s].state = "SLEEPING" /\ node[s].chan) /\ mutex.tid = None =>
    \E t \in Tids : act[t].at \in InLock /\ node[t].state \in Awake

WInv == fate = "running" => Way /\ Woken

(* What a step outside sleep_lock and wakeup_lock does to the nodes.        *)
Calm ==
  \A q \in Tids : /\ node'[q].chan = node[q].chan
                  /\ node'[q].state = node[q].state \/ node'[q].state \in Awake

(* Nobody sleeps at first.                                                  *)
LEMMA InitWoken == Init => WInv
BY DEF Init, WInv, Way, Woken

(* A step that takes nobody off the way to the mutex, puts nobody to sleep  *)
(* and leaves the mutex to its owner.                                       *)
LEMMA CalmStep ==
  ASSUME WInv, fate = "running", Calm, mutex'.tid = mutex.tid,
         \A q \in Tids : act[q].at \in InLock => act'[q].at \in InLock
  PROVE  WInv'
<1>1. Way /\ Woken
  BY DEF WInv
<1>2. Way'
  BY <1>1 DEF Way, Calm
<1>3. Woken'
  <2> SUFFICES ASSUME NEW s \in Tids, node'[s].state = "SLEEPING", node'[s].chan, mutex'.tid = None
               PROVE  \E t \in Tids : act'[t].at \in InLock /\ node'[t].state \in Awake
    BY DEF Woken
  <2>1. node[s].state = "SLEEPING" /\ node[s].chan
    BY DEF Calm, Awake
  <2>2. PICK t \in Tids : act[t].at \in InLock /\ node[t].state \in Awake
    BY <1>1, <2>1 DEF Woken
  <2>3. QED
    BY <2>2 DEF Calm
<1>4. QED
  BY <1>2, <1>3 DEF WInv

(* A hidden step of the refinement takes nobody off the way to the mutex.   *)
LEMMA HiddenKeeps ==
  ASSUME UNCHANGED Lock!lockVars
  PROVE  /\ mutex'.tid = mutex.tid
         /\ \A u \in Users : act[u].at \in InLock => act'[u].at \in InLock
<1>1. mutex'.tid = mutex.tid /\ lockCall' = lockCall
  BY DEF Lock!lockVars
<1>2. ASSUME NEW u \in Users, act[u].at \in InLock PROVE act'[u].at \in InLock
  <2>1. lockCall[u] = "lock"
    BY <1>2 DEF lockCall, OnWay, InLock
  <2>2. lockCall'[u] = "lock"
    BY <1>1, <2>1
  <2>3. QED
    BY <2>2 DEF lockCall, OnWay, InLock
<1>3. QED
  BY <1>1, <1>2

LEMMA HiddenCalm ==
  ASSUME IInv, WInv, fate = "running", Calm, UNCHANGED Lock!lockVars
  PROVE  WInv'
<1>1. \A q \in Tids : q \in Users
  BY Constants
<1>2. QED
  BY <1>1, HiddenKeeps, CalmStep

(* The stores of a state, but for those of sleep_lock and wakeup_lock.      *)
LEMMA StateCalm ==
  ASSUME TypeOK, NEW q \in Tids, NEW s \in Awake, node' = [node EXCEPT ![q].state = s]
  PROVE  Calm
<1>1. s \in State
  BY DEF Awake, State
<1>2. QED
  BY <1>1, StateKeeps DEF Calm

LEMMA MainCalm ==
  ASSUME IInv, Create \/ Clone \/ Publish \/ JoinWait \/ \E k \in Targets : CallJoin(k)
  PROVE  Calm
<1>1. CASE node' = node
  BY <1>1 DEF Calm
<1>2. CASE node' # node
  <2>0. Create
    BY <1>2 DEF Clone, Publish, JoinWait, CallJoin
  <2>1. node' = [node EXCEPT ![n].state = "RUNNABLE", ![n].ctx = "new"]
    BY <1>2, <2>0 DEF Create
  <2>2. node \in [Tids -> Node]
    BY DEF IInv, TypeOK
  <2>3. QED
    BY <2>1, <2>2 DEF Calm, Awake, Node
<1>3. QED
  BY <1>1, <1>2

LEMMA ThreadCalm ==
  ASSUME IInv, NEW t \in Tids,
         execute_me_oo(t) \/ execute_me_mo(t) \/ CallUnknown(t) \/ CallExit(t) \/ thread_exit(t)
  PROVE  Calm
<1> USE Constants
<1>1. TypeOK /\ node \in [Tids -> Node] /\ act \in [Users -> Act] /\ n \in Nat /\ n <= N
  BY DEF IInv, TypeOK
<1>2. CASE node' = node
  BY <1>2 DEF Calm
<1>3. CASE Setup(t)
  <2>1. CASE act[t].at = "running"
    <3>1. "RUNNING" \in Awake /\ node' = [node EXCEPT ![t].state = "RUNNING"]
      BY <1>3, <2>1 DEF Awake, Setup
    <3>2. QED
      BY <1>1, <3>1, StateCalm
  <2>2. CASE act[t].at # "running"
    <3>1. node' = [node EXCEPT ![t].state = @]
      BY <1>3, <2>2 DEF Setup
    <3>2. QED
      BY <1>1, <3>1 DEF Calm, Node
  <2>3. QED
    BY <2>1, <2>2
<1>4. CASE SetKtid(t)
  <2>1. PICK k, i : node' = [node EXCEPT ![k].ktid = i]
    BY <1>4 DEF SetKtid
  <2>2. QED
    BY <1>1, <2>1 DEF Calm, Node
<1>5. CASE ExitMark(t) /\ node' # node
  <2>1. PICK q \in ExitStops(Index(t)) : node' = [node EXCEPT ![q].state = "TERMINATED"]
    BY <1>5 DEF ExitMark
  <2>2. q \in Tids /\ "TERMINATED" \in Awake
    BY <1>1, <2>1 DEF ExitStops, Awake
  <2>3. QED
    BY <1>1, <2>1, <2>2, StateCalm
<1>6. QED
  BY <1>2, <1>3, <1>4, <1>5
     DEF execute_me_oo, execute_me_mo, Start, First, Gettid, CallUnknown, CallExit, thread_exit,
         Leave, ExitMark

LEMMA UserCalm ==
  ASSUME IInv, NEW t \in Users,
         (\E k \in Targets : CallKill(t, k)) \/ Kill(t) \/ Relock(t) \/ SetJmp(t)
           \/ Unlocked(t) \/ Releasing(t)
  PROVE  Calm
<1> USE Constants
<1>1. TypeOK /\ node \in [Tids -> Node]
  BY DEF IInv, TypeOK
<1>2. CASE node' = node
  BY <1>2 DEF Calm
<1>3. CASE Kill(t) /\ node' # node
  <2>1. PICK k : k = act[t].k /\ node' = [node EXCEPT ![k].state = "TERMINATED"]
    BY <1>3 DEF Kill
  <2>2. k \in Tids
    BY <1>1, <1>3, <2>1
  <2>3. "TERMINATED" \in Awake
    BY DEF Awake
  <2>4. QED
    BY <1>1, <2>1, <2>2, <2>3, StateCalm
<1>4. CASE SetJmp(t)
  <2>1. node' = [node EXCEPT ![t].ctx = "asleep"]
    BY <1>4 DEF SetJmp
  <2>2. QED
    BY <1>1, <2>1 DEF Calm, Node
<1>5. QED
  BY <1>2, <1>3, <1>4 DEF CallKill, Relock, Unlocked, Releasing

LEMMA SchedulerCalm ==
  ASSUME IInv, fate = "running",
         \/ Expire
         \/ \E c \in Carriers : Deliver(c) \/ signal_handler_alarm(c)
         \/ \E i \in KT : Preempt(i) \/ scheduler(i)
  PROVE  Calm
<1> USE Constants
<1>1. TypeOK /\ node \in [Tids -> Node]
  BY DEF IInv, TypeOK
<1>2. CASE node' = node
  BY <1>2 DEF Calm
<1>3. ASSUME NEW i \in KT, Preempt(i) \/ Go(i), node' # node PROVE Calm
  <2>1. CASE Preempt(i)
    <3>1. PICK q, c, f : node' = [node EXCEPT ![q].ctx = c, ![q].frame = f]
      <4>1. node' = [node EXCEPT
                       ![kt[i].curr].ctx = IF kt[i].on # Sched THEN "handler" ELSE "sched",
                       ![kt[i].curr].frame = IF kt[i].on # Sched THEN hand[i] ELSE NoHandler]
        BY <1>3, <2>1 DEF Preempt
      <4>2. QED
        BY <4>1
    <3>2. QED
      BY <1>1, <3>1 DEF Calm, Node
  <2>2. CASE Go(i)
    <3>1. node' = [node EXCEPT ![kt[i].pos].ctx = "stale", ![kt[i].pos].frame = NoHandler]
      BY <1>3, <2>2 DEF Go
    <3>2. QED
      BY <1>1, <3>1 DEF Calm, Node
  <2>3. QED
    BY <1>3, <2>1, <2>2
<1>4. ASSUME NEW i \in KT, Requeue(i) PROVE Calm
  <2>1. PICK q \in Tids : q = kt[i].pos
    BY <1>4, PosInList DEF Requeue, SchedAt
  <2>2. "RUNNABLE" \in Awake /\ node' = [node EXCEPT ![q].state = "RUNNABLE"]
    BY <1>4, <2>1 DEF Awake, Requeue
  <2>3. QED
    BY <1>1, <2>2, StateCalm
<1>5. ASSUME NEW i \in KT, Walk(i), node' # node PROVE Calm
  <2>1. PICK q : node' = [node EXCEPT ![q].state = "RUNNING", ![q].ktid = i]
    BY <1>5 DEF Walk
  <2>2. QED
    BY <1>1, <2>1 DEF Calm, Node, Awake
<1>6. QED
  BY <1>2, <1>3, <1>4, <1>5
     DEF Expire, Deliver, signal_handler_alarm, HandlerOff, HandlerLoad, HandlerStore, HandlerSend,
         scheduler, Enter, SetCurr

(* The calls.                                                               *)
LEMMA CallWoken ==
  ASSUME IInv, WInv, NEW t \in Users, CallLock(t) \/ CallUnlock(t)
  PROVE  WInv'
<1> USE Constants
<1>1. TypeOK /\ fate = "running" /\ act[t].at = "idle" /\ UNCHANGED <<node, mutex>>
  BY DEF IInv, CallLock, CallUnlock, At, Runs
<1>2. PICK at \in {"locking", "unlocking"} : Goto(t, at)
  BY DEF CallLock, CallUnlock
<1>3. at \in Label
  BY DEF Label
<1>4. \A u \in Users \ {t} : act'[u] = act[u]
  BY <1>1, <1>2, <1>3, GotoKeeps
<1>5. \A q \in Tids : act[q].at \in InLock => act'[q].at \in InLock
  BY <1>1, <1>4 DEF InLock
<1>6. Calm
  BY <1>1 DEF Calm
<1>7. QED
  BY <1>1, <1>5, <1>6, CalmStep

(* Who takes the mutex leaves it taken, and has chan cleared.               *)
LEMMA TakeWoken ==
  ASSUME IInv, WInv, NEW t \in Users, LockTake(t)
  PROVE  WInv'
<1> USE Constants
<1>1. /\ TypeOK /\ Way /\ fate = "running" /\ Return(t) /\ t # None
      /\ mutex' = [mutex EXCEPT !.tid = t] /\ node \in [Tids -> Node]
  BY DEF IInv, WInv, LockTake, Locks, At, Runs, TypeOK
<1>2. mutex'.tid # None
  BY <1>1 DEF TypeOK
<1>3. \A u \in Users \ {t} : act'[u] = act[u]
  BY <1>1, ReturnKeeps
<1>4. \A q \in Tids : node'[q].chan => node[q].chan /\ q # t
  <2>1. CASE t = Main
    BY <2>1 DEF LockTake
  <2>2. CASE t # Main
    BY <1>1, <2>2 DEF LockTake, Node
  <2>3. QED
    BY <2>1, <2>2
<1>5. Way'
  BY <1>1, <1>3, <1>4 DEF Way
<1>6. Woken'
  BY <1>2 DEF Woken
<1>7. QED
  BY <1>5, <1>6 DEF WInv

(* A thread goes to sleep only while another has the mutex.                 *)
LEMMA SleepWoken ==
  ASSUME IInv, WInv, NEW t \in Users, LockSleep(t)
  PROVE  WInv'
<1> USE Constants
<1>1. /\ TypeOK /\ Way /\ Runs(t) /\ mutex.tid # None /\ mutex' = mutex
      /\ node \in [Tids -> Node]
  BY DEF IInv, WInv, LockSleep, Locks, Taken, At, Runs, TypeOK
<1>2. CASE t = Main
  BY <1>2 DEF LockSleep, WInv
<1>3. CASE t # Main
  <2>1. /\ t \in Tids /\ node' = [node EXCEPT ![t].chan = TRUE, ![t].state = "SLEEPING"]
        /\ LookUp(t, "setjmp") /\ "setjmp" \in Label
    BY <1>3 DEF LockSleep, LookUp, Label
  <2>2. act'[t].at = "setjmp" /\ \A u \in Users \ {t} : act'[u] = act[u]
    BY <1>1, <2>1, LookUpKeeps
  <2>3. \A q \in Tids : node'[q].chan => q = t \/ node[q].chan
    BY <1>1, <2>1 DEF Node
  <2>4. Way'
    BY <1>1, <2>2, <2>3 DEF Way, InLock
  <2>5. Woken'
    BY <1>1 DEF Woken
  <2>6. QED
    BY <2>4, <2>5 DEF WInv
<1>4. QED
  BY <1>2, <1>3

(* The release of the mutex wakes one of the sleepers, if there are any.    *)
LEMMA WakeWoken ==
  ASSUME IInv, WInv, NEW t \in Users, UnlockWake(t)
  PROVE  WInv'
<1> USE Constants
<1>1. /\ TypeOK /\ Way /\ act[t].at = "unlocking" /\ Goto(t, "unlocked") /\ "unlocked" \in Label
      /\ node \in [Tids -> Node]
  BY DEF IInv, WInv, UnlockWake, At, Runs, TypeOK, Label
<1>2. \A u \in Users \ {t} : act'[u] = act[u]
  BY <1>1, GotoKeeps
<1>3. \A q \in Tids : act[q].at \in InLock => act'[q].at \in InLock
  BY <1>1, <1>2 DEF InLock
<1>4. CASE Sleepers = {} /\ node' = node
  <2>1. Way'
    BY <1>1, <1>3, <1>4 DEF Way
  <2>2. Woken'
    BY <1>4 DEF Sleepers, Woken
  <2>3. QED
    BY <2>1, <2>2 DEF WInv
<1>5. ASSUME NEW w \in Sleepers, node' = [node EXCEPT ![w].state = "RUNNABLE"] PROVE WInv'
  <2>1. w \in Tids /\ node[w].chan
    BY DEF Sleepers
  <2>2. \A q \in Tids : node'[q].chan = node[q].chan
    BY <1>1, <1>5, <2>1 DEF Node
  <2>3. node'[w].state = "RUNNABLE"
    BY <1>1, <1>5, <2>1 DEF Node
  <2>4. Way'
    BY <1>1, <1>3, <2>2 DEF Way
  <2>5. act'[w].at \in InLock /\ node'[w].state \in Awake
    BY <1>1, <1>3, <2>1, <2>3 DEF Way, Awake
  <2>6. Woken'
    BY <2>1, <2>5 DEF Woken
  <2>7. QED
    BY <2>4, <2>6 DEF WInv
<1>6. QED
  BY <1>4, <1>5 DEF UnlockWake

(* One step per action.                                                     *)
LEMMA NextWoken == IInv /\ WInv /\ [Next]_vars => WInv'
<1> SUFFICES ASSUME IInv, WInv, [Next]_vars PROVE WInv'
  OBVIOUS
<1>1. CASE fate # "running"
  <2>1. CASE UNCHANGED vars
    BY <2>1 DEF vars, WInv, Way, Woken
  <2>2. CASE Next
    BY <1>1, <2>2 DEF Next, Create, Clone, Publish, JoinWait, CallJoin, execute_me_oo,
       execute_me_mo, Start, Setup, First, Gettid, SetKtid, CallUnknown, CallExit, thread_exit,
       ExitMark, Leave, CallKill, Kill, CallLock, acquiresleep, Relock, LockTwice, LockTake,
       LockSleep, SetJmp, Locks, CallUnlock, releasesleep, UnlockOther, UnlockWake, Unlocked,
       Releasing, Expire, Deliver, signal_handler_alarm, HandlerOff, HandlerLoad, HandlerStore,
       HandlerSend, Preempt, scheduler, Enter, Requeue, Walk, SetCurr, Go, SchedAt, At, Runs
  <2>3. QED
    BY <2>1, <2>2
<1>2. CASE fate = "running" /\ UNCHANGED vars
  BY <1>2 DEF vars, WInv, Way, Woken
<1>3. CASE fate = "running" /\ Next
  <2>1. ASSUME Create \/ Clone \/ Publish \/ JoinWait \/ \E k \in Targets : CallJoin(k) PROVE WInv'
    BY <1>3, <2>1, MainHidden, MainCalm, HiddenCalm
  <2>2. ASSUME NEW t \in Tids,
               execute_me_oo(t) \/ execute_me_mo(t) \/ CallUnknown(t) \/ CallExit(t)
                 \/ thread_exit(t)
        PROVE  WInv'
    BY <1>3, <2>2, ThreadHidden, ThreadCalm, HiddenCalm
  <2>3. ASSUME NEW t \in Users,
               (\E k \in Targets : CallKill(t, k)) \/ Kill(t) \/ Relock(t) \/ SetJmp(t)
                 \/ Unlocked(t) \/ Releasing(t)
        PROVE  WInv'
    BY <1>3, <2>3, UserHidden, UserCalm, HiddenCalm
  <2>4. ASSUME NEW t \in Users, LockTwice(t) \/ UnlockOther(t) PROVE WInv'
    BY <2>4 DEF LockTwice, UnlockOther, WInv
  <2>5. ASSUME NEW t \in Users, CallLock(t) \/ acquiresleep(t) \/ CallUnlock(t) \/ releasesleep(t)
        PROVE  WInv'
    BY <2>3, <2>4, <2>5, CallWoken, TakeWoken, SleepWoken, WakeWoken DEF acquiresleep, releasesleep
  <2>6. ASSUME \/ Expire
               \/ \E c \in Carriers : Deliver(c) \/ signal_handler_alarm(c)
               \/ \E i \in KT : Preempt(i) \/ scheduler(i)
        PROVE  WInv'
    BY <1>3, <2>6, SchedulerHidden, SchedulerCalm, HiddenCalm
  <2>7. QED
    BY <1>3, <2>1, <2>2, <2>3, <2>5, <2>6 DEF Next
<1>4. QED
  BY <1>1, <1>2, <1>3

(* No wakeup of the mutex is lost, with any number of kernel threads and    *)
(* signals between any two steps: while threads sleep on it, it is held, or *)
(* the thread woken for it is on its way, unless that has been killed.      *)
THEOREM NobodyLeftAsleep == Spec => []NoLostWakeup
<1>1. Init => WInv
  BY InitWoken
<1>2. IInv /\ WInv /\ [Next]_vars => WInv'
  BY NextWoken
<1>3. IInv /\ WInv => NoLostWakeup
  <2> SUFFICES ASSUME IInv, WInv, fate = "running", mutex.tid = None,
                      \E s \in Tids : node[s].state = "SLEEPING" /\ node[s].chan,
                      \A t \in Tids : OnWay(t) => node[t].state # "TERMINATED"
               PROVE  \E t \in Users :
                        OnWay(t) /\ (t # Main => node[t].state \in {"RUNNABLE", "RUNNING"})
    BY DEF NoLostWakeup
  <2>1. PICK t \in Tids : act[t].at \in InLock /\ node[t].state \in Awake
    BY DEF WInv, Woken
  <2>2. OnWay(t) /\ node[t].state \in {"RUNNABLE", "RUNNING"} /\ t \in Users
    BY <2>1, Constants DEF OnWay, InLock, Awake
  <2>3. QED
    BY <2>2
<1>4. QED
  BY <1>1, <1>2, <1>3, Invariance, PTL DEF Spec
=============================================================================
