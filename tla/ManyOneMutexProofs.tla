------------------------- MODULE ManyOneMutexProofs -------------------------
(***************************************************************************)
(* Proofs about the mutex of ManyOne: acquiresleep and releasesleep        *)
(* implement the lock of LockSpec, and lose no wakeup as long as no thread *)
(* is killed, with the alarm at every step.                                *)
(***************************************************************************)
EXTENDS ManyOneProofs

(* The call of the interface a frame is inside, as lockCall has it.        *)
CallOf(f) ==
  CASE f.op \in {"lock", "relock"} /\ f.at # "rel" -> "lock"
    [] f.op = "sleep" -> "lock"
    [] f.op = "unlock" -> "unlock"
    [] OTHER -> "none"

(* On the way to the mutex, or about to look for somebody who is not.      *)
Awake(f) ==
  \/ f.op = "wake" /\ f.at \in {"block", "xchg", "sect"}
  \/ f.op \in {"lock", "sleep", "relock"}

(* The caller has the mutex and returns from acquiresleep.                 *)
Taking(f) == f.op \in {"lock", "relock"} /\ f.at = "rel"

(* thread_kill with SIGTERM, before its end.                               *)
Killing(f) == f.op = "kill" /\ f.at # "done"

(* What the steps of the library that are not about the mutex do to a      *)
(* frame.                                                                  *)
Aside(f, g) ==
  /\ CallOf(g) = CallOf(f)
  /\ Awake(f) => Awake(g) \/ Taking(f)
  /\ ~ Taking(g)
  /\ Killing(g) /\ MaxKills = 0 => Killing(f)

(* An operation that goes on, but not through the end of a section.        *)
LEMMA GoesOn ==
  ASSUME NEW f, NEW g, g.op = f.op, f.at # "rel", g.at # "rel", g.at = "done" \/ f.at # "done",
         f.op = "wake" => g.at \in {"block", "xchg", "sect"}
  PROVE  Aside(f, g)
BY DEF Aside, CallOf, Awake, Taking, Killing

(* An operation that has nothing to do with the mutex.                     *)
Foreign == {"none", "create", "join", "clean", "kill", "post", "exit"}

(* An operation that has nothing to do with the mutex, and its end.        *)
LEMMA GoesAnywhere ==
  ASSUME NEW f, NEW g, f.op \in Foreign, g.op \in Foreign, Killing(g) /\ MaxKills = 0 => Killing(f)
  PROVE  Aside(f, g)
BY DEF Aside, CallOf, Awake, Taking, Foreign

(* The steps of a thread that are about the mutex, and the others.         *)
OnMutex(t) ==
  \/ CallLock(t) \/ CallUnlock(t) \/ acquiresleep(t) \/ releasesleep(t) \/ sleep_lock(t)
  \/ wakeup_lock(t)

OffMutex(t) ==
  /\ mutex' = mutex /\ fate' # "exit" /\ Aside(frame[t], frame'[t])
  /\ node' = node \/ frame[t].op \in Foreign

(* acquire and release.                                                    *)
LEMMA SpinlockOff ==
  ASSUME IInv, NEW t \in Threads, acquire(t) \/ release(t)
  PROVE  OffMutex(t)
<1>1. CASE acquire(t)
  <2>1. PICK a \in {"block", "xchg"}, b \in {"xchg", "sect"} : Step(t, a) /\ GoAt(t, b)
    BY <1>1 DEF acquire
  <2>2. frame \in [Threads -> Frames] /\ frame[t].at = a /\ fate = "running"
    BY <2>1, OwnCode
  <2>3. frame'[t].at = b /\ frame'[t].op = frame[t].op
    BY <2>1, <2>2, GoAtKeeps DEF Ats
  <2>4. Aside(frame[t], frame'[t])
    BY <2>2, <2>3, GoesOn
  <2>5. UNCHANGED <<node, mutex, fate>>
    BY <1>1 DEF acquire
  <2>6. QED
    BY <2>2, <2>4, <2>5 DEF OffMutex
<1>2. CASE release(t)
  <2>1. /\ Step(t, "rel") /\ Goto(t, AfterRelease(frame[t])) /\ UNCHANGED <<node, mutex, fate>>
    BY <1>2 DEF release
  <2>2. /\ frame \in [Threads -> Frames] /\ frame[t] \in Frames /\ frame[t].at = "rel"
        /\ fate = "running" /\ Places(frame[t])
    BY <2>1, OwnCode DEF Args
  <2>3. PICK f, g : f = frame[t] /\ g = AfterRelease(f)
    OBVIOUS
  <2>4. /\ g \in Frames
        /\ g.at # "idle" => \/ g.op = f.op /\ g.at # "rel"
                            \/ f.op = "wake" /\ g.op = "unlocked" /\ g.at = "rel"
        /\ f.op = "sleep" => g.op = "sleep"
        /\ g.op \in {"none", "join", "post", "unlocked", "clean", "kill", "sleep"}
        /\ g.op \in {"clean", "kill", "sleep"} => g.at = "done"
        /\ Places(g)
    BY <2>2, <2>3, AfterReleaseFrame
  <2>5. frame'[t] = g
    BY <2>1, <2>2, <2>3, <2>4, GotoKeeps
  <2>6. f.op # "unlock" /\ f.op # "exit"
    BY <2>2, <2>3 DEF Places
  <2>7. g.at = "idle" => g.op = "none"
    BY <2>4 DEF Places, Locked
  <2>8. g.op = "sleep" => f.op = "sleep"
    BY <2>4, <2>7
  <2>9. Aside(f, g)
    <3>1. CallOf(g) = CallOf(f)
      BY <2>2, <2>3, <2>4, <2>6, <2>8 DEF CallOf
    <3>2. Awake(f) => Awake(g) \/ Taking(f)
      BY <2>2, <2>3, <2>4 DEF Awake, Taking
    <3>3. ~ Taking(g) /\ ~ Killing(g)
      BY <2>4 DEF Taking, Killing
    <3>4. QED
      BY <3>1, <3>2, <3>3 DEF Aside
  <2>10. QED
    BY <2>1, <2>2, <2>3, <2>5, <2>9 DEF OffMutex
<1>3. QED
  BY <1>1, <1>2

(* A step with a frame that has nothing to do with the mutex.              *)
LEMMA ForeignStep ==
  ASSUME NEW t \in Threads, NEW f, frame'[t] = f, frame[t].op \in Foreign, f.op \in Foreign,
         Killing(f) /\ MaxKills = 0 => Killing(frame[t]), mutex' = mutex, fate' # "exit"
  PROVE  OffMutex(t)
BY GoesAnywhere DEF OffMutex

(* The calls of the program that are not about the mutex.                  *)
LEMMA CallOff ==
  ASSUME IInv, NEW t \in Threads, NEW k \in Threads,
         CallCreate(t) \/ CallJoin(t, k) \/ CallKill(t, k) \/ CallPost(t, k) \/ CallExit(t)
  PROVE  OffMutex(t)
<1>1. /\ At(t, "none", "idle") /\ mutex' = mutex /\ fate' = fate
  BY DEF CallCreate, CallJoin, CallKill, CallPost, CallExit
<1>2. frame \in [Threads -> Frames] /\ fate = "running" /\ frame[t].op = "none"
  BY <1>1, OwnCode DEF At
<1>3. ASSUME NEW f \in Frames, Goto(t, f), f.op \in Foreign, Killing(f) => MaxKills # 0
      PROVE  OffMutex(t)
  <2>1. frame'[t] = f
    BY <1>2, <1>3, GotoKeeps
  <2>2. QED
    BY <1>1, <1>2, <1>3, <2>1, ForeignStep DEF Foreign
<1>4. \A op \in {"join", "kill", "post"} :
        Locking(op, k) \in Frames /\ Locking(op, k).op = op
  BY LockingFrame DEF Ops
<1>5. ASSUME NEW op \in {"join", "post"}, Goto(t, Locking(op, k)) PROVE OffMutex(t)
  BY <1>3, <1>4, <1>5 DEF Foreign, Killing
<1>6. ASSUME NEW f, f = [Idle EXCEPT !.op = "exit", !.at = "state"], Goto(t, f) PROVE OffMutex(t)
  <2>1. f \in Frames /\ f.op = "exit"
    BY <1>6, ExitFrame
  <2>2. QED
    BY <1>3, <1>6, <2>1 DEF Foreign, Killing
<1>7. ASSUME CallKill(t, k) PROVE OffMutex(t)
  <2>1. /\ calls.kills < MaxKills
        /\ Goto(t, IF k = t THEN [Idle EXCEPT !.op = "exit", !.at = "state"] ELSE Locking("kill", k))
    BY <1>7 DEF CallKill
  <2>2. CASE k = t
    BY <1>6, <2>1, <2>2
  <2>3. CASE k # t
    <3>1. MaxKills # 0
      <4>1. calls.kills \in 0 .. MaxKills
        BY DEF IInv, TypeOK
      <4>2. QED
        BY <2>1, <4>1
    <3>2. Goto(t, Locking("kill", k))
      BY <2>1, <2>3
    <3>3. QED
      BY <1>3, <1>4, <3>1, <3>2 DEF Foreign
  <2>4. QED
    BY <2>2, <2>3
<1>8. ASSUME CallPost(t, k) PROVE OffMutex(t)
  <2>1. IF k = t THEN Goto(t, [Idle EXCEPT !.op = "kill", !.at = "done"]) ELSE Goto(t, Locking("post", k))
    BY <1>8 DEF CallPost
  <2>2. CASE k = t
    <3>1. PICK f : f = [Idle EXCEPT !.op = "kill", !.at = "done"]
      OBVIOUS
    <3>2. f \in Frames /\ f.op = "kill" /\ f.at = "done" /\ Goto(t, f)
      BY <2>1, <2>2, <3>1, OtherFrame DEF Ops, Ats
    <3>3. QED
      BY <1>3, <3>2 DEF Foreign, Killing
  <2>3. QED
    BY <1>5, <2>1, <2>2
<1>9. ASSUME CallCreate(t) PROVE OffMutex(t)
  <2>1. PICK i \in Int : i = calls.id
    BY DEF IInv, TypeOK
  <2>2. PICK f : f = [Idle EXCEPT !.op = "create", !.at = "id", !.i = i]
    OBVIOUS
  <2>3. f \in Frames /\ f.op = "create"
    BY <2>2, IdleFrame DEF Frames
  <2>4. Goto(t, f)
    BY <1>9, <2>1, <2>2 DEF CallCreate
  <2>5. QED
    BY <1>3, <2>3, <2>4 DEF Foreign, Killing
<1>10. QED
  BY <1>5, <1>6, <1>7, <1>8, <1>9 DEF CallJoin, CallExit

(* The new node of thread_create.                                          *)
LEMMA CreateOff ==
  ASSUME IInv, NEW t \in Threads, NEW k \in Threads, thread_create(t, k)
  PROVE  OffMutex(t)
<1>1. /\ At(t, "create", "id") /\ Goto(t, Locking("create", k)) /\ mutex' = mutex
      /\ fate' \in {fate, "clash"}
  BY DEF thread_create
<1>2. frame \in [Threads -> Frames] /\ fate = "running" /\ frame[t].op = "create"
  BY <1>1, OwnCode DEF At
<1>3. Locking("create", k) \in Frames /\ Locking("create", k).op = "create"
  BY LockingFrame DEF Ops
<1>4. frame'[t] = Locking("create", k)
  BY <1>1, <1>2, <1>3, GotoKeeps
<1>5. QED
  BY <1>1, <1>2, <1>3, <1>4, ForeignStep DEF Foreign, Killing

(* The rest of the library.                                                *)
LEMMA RestOff ==
  ASSUME IInv, NEW t \in Threads,
         \/ thread_insert(t) \/ thread_exit(t) \/ thread_join(t) \/ cleanup(t)
         \/ thread_kill(t) \/ Post(t)
  PROVE  OffMutex(t)
<1>1. PICK at : Step(t, at)
  BY DEF thread_insert, thread_exit, thread_join, cleanup, thread_kill, Post, At
<1>2. /\ frame \in [Threads -> Frames] /\ frame[t] \in Frames /\ fate = "running"
      /\ frame[t].op \in Foreign
  <2>1. frame \in [Threads -> Frames] /\ frame[t] \in Frames /\ fate = "running"
    BY <1>1, OwnCode
  <2>2. frame[t].op \in Foreign
    BY DEF thread_insert, thread_exit, thread_join, cleanup, thread_kill, Post, At, Foreign
  <2>3. QED
    BY <2>1, <2>2
<1>3. mutex' = mutex /\ fate' # "exit"
  BY <1>2 DEF thread_insert, thread_exit, thread_join, cleanup, thread_kill, Post
<1>4. ASSUME NEW a \in Ats, GoAt(t, a), frame[t].op = "kill" => Killing(frame[t]) PROVE OffMutex(t)
  <2>1. frame'[t].op = frame[t].op
    BY <1>2, <1>4, GoAtKeeps
  <2>2. QED
    BY <1>2, <1>3, <1>4, <2>1, ForeignStep DEF Killing
<1>5. ASSUME NEW b \in BOOLEAN, frame[t].op = "kill" => Killing(frame[t]),
             frame' = [frame EXCEPT ![t].at = "rel", ![t].found = b]
      PROVE  OffMutex(t)
  <2>1. frame'[t].op = frame[t].op
    BY <1>2, <1>5, FoundKeeps
  <2>2. QED
    BY <1>2, <1>3, <1>5, <2>1, ForeignStep DEF Killing
<1>6. ASSUME NEW f \in Frames, Goto(t, f), f.op \in {"none", "clean"} PROVE OffMutex(t)
  <2>1. frame'[t] = f
    BY <1>2, <1>6, GotoKeeps
  <2>2. QED
    BY <1>2, <1>3, <1>6, <2>1, ForeignStep DEF Foreign, Killing
<1>7. ASSUME frame' = frame PROVE OffMutex(t)
  BY <1>2, <1>3, <1>7, ForeignStep
<1>8. CASE thread_insert(t)
  BY <1>4, <1>8 DEF thread_insert, At, Ats
<1>9. CASE thread_exit(t)
  BY <1>4, <1>7, <1>9 DEF thread_exit, At, Ats
<1>10. CASE thread_join(t)
  <2>1. Contains(list, frame[t].k) \in BOOLEAN
    BY ContainsBoolean
  <2>2. CASE frame' = [frame EXCEPT ![t].at = "rel", ![t].found = Contains(list, frame[t].k)]
             /\ At(t, "join", "sect")
    BY <1>5, <2>1, <2>2 DEF At
  <2>3. CASE At(t, "join", "wait") /\ Goto(t, Locking("clean", frame[t].k))
    <3>1. frame[t].k \in Threads \cup {NoTid}
      BY <1>2 DEF Frames
    <3>2. Locking("clean", frame[t].k) \in Frames /\ Locking("clean", frame[t].k).op = "clean"
      BY <3>1, LockingFrame DEF Ops
    <3>3. QED
      BY <1>6, <2>3, <3>2
  <2>4. QED
    BY <1>10, <2>2, <2>3 DEF thread_join
<1>11. CASE cleanup(t)
  <2>1. Contains(list, frame[t].k) \in BOOLEAN
    BY ContainsBoolean
  <2>2. frame[t].op = "clean"
    BY <1>11 DEF cleanup, At
  <2>3. \/ frame' = [frame EXCEPT ![t].at = "rel", ![t].found = Contains(list, frame[t].k)]
        \/ Goto(t, Idle)
    BY <1>11 DEF cleanup
  <2>4. QED
    BY <1>5, <1>6, <2>1, <2>2, <2>3, IdleFrame
<1>12. CASE thread_kill(t)
  <2>1. Contains(list, frame[t].k) \in BOOLEAN
    BY ContainsBoolean
  <2>2. \/ /\ frame' = [frame EXCEPT ![t].at = "rel", ![t].found = Contains(list, frame[t].k)]
           /\ frame[t].at = "sect"
        \/ Goto(t, Idle)
    BY <1>12 DEF thread_kill, At, Step
  <2>3. QED
    BY <1>5, <1>6, <2>1, <2>2, IdleFrame DEF Killing
<1>13. CASE Post(t)
  <2>1. frame[t].op = "post"
    BY <1>13 DEF Post, At
  <2>2. CASE frame' = [frame EXCEPT ![t].i = post.cnt[frame[t].k], ![t].at = "count"]
    <3>1. frame'[t].op = frame[t].op
      BY <1>2, <2>2 DEF Frames
    <3>2. QED
      BY <1>2, <1>3, <2>1, <3>1, ForeignStep DEF Killing
  <2>3. QED
    BY <1>4, <1>13, <2>1, <2>2 DEF Post, Ats
<1>14. QED
  BY <1>8, <1>9, <1>10, <1>11, <1>12, <1>13

(* Every step of a thread.                                                 *)
LEMMA OnOrOff ==
  ASSUME IInv, ThreadMoves
  PROVE  \E t \in Threads : Moves(t) /\ IInv' /\ (OnMutex(t) \/ OffMutex(t))
<1>1. PICK t \in Threads :
        \/ \E k \in Threads :
             thread_create(t, k) \/ CallJoin(t, k) \/ CallKill(t, k) \/ CallPost(t, k)
        \/ CallCreate(t) \/ CallExit(t) \/ CallLock(t) \/ CallUnlock(t)
        \/ Library(t)
  BY DEF ThreadMoves
<1>2. IInv' /\ Moves(t)
  BY <1>1, ThreadStep
<1>3. OnMutex(t) \/ OffMutex(t)
  BY <1>1, CallOff, CreateOff, RestOff, SpinlockOff DEF Library, OnMutex
<1>4. QED
  BY <1>2, <1>3

-----------------------------------------------------------------------------
(***************************************************************************)
(* The sleeplock implements the abstract lock.                             *)
(***************************************************************************)

(* lockCall is CallOf of every frame.                                      *)
LEMMA LockCall ==
  /\ lockCall = [t \in Threads |-> CallOf(frame[t])]
  /\ lockCall' = [t \in Threads |-> CallOf(frame'[t])]
BY DEF lockCall, CallOf

(* Nobody owns the mutex or waits for it at first.                         *)
LEMMA InitRefines == Init => Lock!LockInit
<1> SUFFICES ASSUME Init PROVE Lock!LockInit
  OBVIOUS
<1>1. \A t \in Threads : CallOf(frame[t]) = "none"
  BY IdleFrame DEF Init, CallOf
<1>2. lockCall = [t \in Threads |-> "none"]
  BY <1>1, LockCall
<1>3. QED
  BY <1>2 DEF Init, Lock!LockInit

(* What changes the call of nobody, nor gives the mutex to another, is     *)
(* hidden.                                                                 *)
LEMMA HiddenStep ==
  ASSUME mutex' = mutex, fate' = "exit" <=> fate = "exit",
         \A u \in Threads : CallOf(frame'[u]) = CallOf(frame[u])
  PROVE  UNCHANGED Lock!lockVars
<1>1. lockCall' = lockCall
  BY LockCall
<1>2. QED
  BY <1>1 DEF Lock!lockVars

(* The step of one thread changes one entry.                               *)
LEMMA OneCall ==
  ASSUME NEW t \in Threads, \A u \in Threads \ {t} : frame'[u] = frame[u]
  PROVE  /\ lockCall' = [lockCall EXCEPT ![t] = CallOf(frame'[t])]
         /\ lockCall[t] = CallOf(frame[t])
BY LockCall

(* The calls of the program.                                               *)
LEMMA CallRefines ==
  ASSUME IInv, NEW t \in Threads, CallLock(t) \/ CallUnlock(t)
  PROVE  Lock!LockNext
<1>1. PICK op \in {"lock", "unlock"} :
        /\ At(t, "none", "idle") /\ Goto(t, Locking(op, NoTid)) /\ UNCHANGED <<mutex, fate>>
  BY DEF CallLock, CallUnlock
<1>2. frame \in [Threads -> Frames] /\ fate = "running" /\ frame[t].op = "none"
  BY <1>1, OwnCode DEF At
<1>3. /\ Locking(op, NoTid) \in Frames
      /\ Locking(op, NoTid).op = op /\ Locking(op, NoTid).at = "block"
  BY LockingFrame DEF Ops
<1>4. CallOf(frame[t]) = "none" /\ CallOf(Locking(op, NoTid)) = op
  BY <1>2, <1>3 DEF CallOf
<1>5. lockCall' = [lockCall EXCEPT ![t] = op] /\ lockCall[t] = "none"
  BY <1>1, <1>2, <1>3, <1>4, GotoKeeps, OneCall
<1>6. QED
  BY <1>1, <1>2, <1>5 DEF Lock!Call, Lock!LockNext

(* acquiresleep exits, takes the mutex, or goes to sleep inside the call.  *)
LEMMA TakeRefines ==
  ASSUME IInv, NEW t \in Threads, acquiresleep(t)
  PROVE  [Lock!LockNext]_(Lock!lockVars)
<1>1. /\ Step(t, "sect") /\ frame[t].op \in {"lock", "relock"}
  BY DEF acquiresleep, At
<1>2. frame \in [Threads -> Frames] /\ fate = "running" /\ frame[t].at = "sect"
  BY <1>1, OwnCode
<1>3. CallOf(frame[t]) = "lock"
  BY <1>1, <1>2 DEF CallOf
<1>4. CASE mutex = t /\ fate' = "exit" /\ UNCHANGED <<frame, mutex>>
  <2>1. lockCall[t] = "lock" /\ lockCall' = lockCall
    BY <1>3, <1>4, LockCall
  <2>2. QED
    BY <1>2, <1>4, <2>1 DEF Lock!Fault, Lock!LockNext
<1>5. CASE ~ Taken(t) /\ mutex' = t /\ GoAt(t, "rel") /\ fate' = fate
  <2>1. /\ frame'[t].at = "rel" /\ frame'[t].op = frame[t].op
        /\ \A u \in Threads \ {t} : frame'[u] = frame[u]
    BY <1>2, <1>5, GoAtKeeps DEF Ats
  <2>2. CallOf(frame'[t]) = "none"
    BY <1>1, <2>1 DEF CallOf
  <2>3. lockCall[t] = "lock" /\ lockCall' = [lockCall EXCEPT ![t] = "none"]
    BY <1>3, <2>1, <2>2, OneCall
  <2>4. mutex = NoTid
    BY <1>5 DEF Taken
  <2>5. QED
    BY <1>2, <1>5, <2>3, <2>4 DEF Lock!TakeLock, Lock!LockNext
<1>6. CASE Goto(t, [Idle EXCEPT !.op = "sleep", !.at = "rel"]) /\ UNCHANGED <<mutex, fate>>
  <2>1. PICK f : f = [Idle EXCEPT !.op = "sleep", !.at = "rel"]
    OBVIOUS
  <2>2. f \in Frames /\ f.op = "sleep" /\ Goto(t, f)
    BY <1>6, <2>1, OtherFrame DEF Ops, Ats
  <2>3. frame'[t] = f /\ \A u \in Threads \ {t} : frame'[u] = frame[u]
    BY <1>2, <2>2, GotoKeeps
  <2>4. CallOf(frame'[t]) = "lock"
    BY <2>2, <2>3 DEF CallOf
  <2>5. QED
    BY <1>3, <1>6, <2>3, <2>4, HiddenStep
<1>7. QED
  BY <1>4, <1>5, <1>6 DEF acquiresleep

(* releasesleep exits, or gives the mutex up.                              *)
LEMMA GiveRefines ==
  ASSUME IInv, NEW t \in Threads, releasesleep(t)
  PROVE  Lock!LockNext
<1>1. /\ Step(t, "sect") /\ frame[t].op = "unlock"
  BY DEF releasesleep, At
<1>2. frame \in [Threads -> Frames] /\ fate = "running"
  BY <1>1, OwnCode
<1>3. CallOf(frame[t]) = "unlock"
  BY <1>1 DEF CallOf
<1>4. CASE mutex # t /\ fate' = "exit" /\ UNCHANGED <<frame, mutex>>
  <2>1. lockCall[t] = "unlock" /\ lockCall' = lockCall
    BY <1>3, <1>4, LockCall
  <2>2. QED
    BY <1>2, <1>4, <2>1 DEF Lock!Fault, Lock!LockNext
<1>5. CASE mutex = t /\ mutex' = NoTid /\ Goto(t, Locking("wake", NoTid)) /\ fate' = fate
  <2>1. Locking("wake", NoTid) \in Frames /\ Locking("wake", NoTid).op = "wake"
    BY LockingFrame DEF Ops
  <2>2. frame'[t] = Locking("wake", NoTid) /\ \A u \in Threads \ {t} : frame'[u] = frame[u]
    BY <1>2, <1>5, <2>1, GotoKeeps
  <2>3. CallOf(frame'[t]) = "none"
    BY <2>1, <2>2 DEF CallOf
  <2>4. lockCall[t] = "unlock" /\ lockCall' = [lockCall EXCEPT ![t] = "none"]
    BY <1>3, <2>2, <2>3, OneCall
  <2>5. QED
    BY <1>2, <1>5, <2>4 DEF Lock!GiveLock, Lock!LockNext
<1>6. QED
  BY <1>4, <1>5 DEF releasesleep

(* sleep_lock stays inside the call, and wakeup_lock outside any.          *)
LEMMA WaitHidden ==
  ASSUME IInv, NEW t \in Threads, sleep_lock(t) \/ wakeup_lock(t)
  PROVE  UNCHANGED Lock!lockVars
<1>1. PICK at : Step(t, at) /\ UNCHANGED <<mutex, fate>>
  BY DEF sleep_lock, wakeup_lock, At
<1>2. frame \in [Threads -> Frames]
  BY <1>1, OwnCode
<1>3. CASE sleep_lock(t) /\ frame' = frame
  BY <1>1, <1>3, HiddenStep
<1>4. CASE sleep_lock(t) /\ frame[t].op = "sleep" /\ GoAt(t, "jump")
  <2>1. frame'[t].op = "sleep" /\ \A u \in Threads \ {t} : frame'[u] = frame[u]
    BY <1>2, <1>4, GoAtKeeps DEF Ats
  <2>2. CallOf(frame'[t]) = CallOf(frame[t])
    BY <1>4, <2>1 DEF CallOf
  <2>3. QED
    BY <1>1, <2>1, <2>2, HiddenStep
<1>5. CASE sleep_lock(t) /\ frame[t].op = "sleep" /\ Goto(t, Locking("relock", NoTid))
  <2>1. /\ Locking("relock", NoTid) \in Frames
        /\ Locking("relock", NoTid).op = "relock" /\ Locking("relock", NoTid).at = "block"
    BY LockingFrame DEF Ops
  <2>2. frame'[t] = Locking("relock", NoTid) /\ \A u \in Threads \ {t} : frame'[u] = frame[u]
    BY <1>2, <1>5, <2>1, GotoKeeps
  <2>3. CallOf(frame'[t]) = CallOf(frame[t])
    BY <1>5, <2>1, <2>2 DEF CallOf
  <2>4. QED
    BY <1>1, <2>2, <2>3, HiddenStep
<1>6. CASE wakeup_lock(t)
  <2>1. frame[t].op = "wake" /\ GoAt(t, "rel")
    BY <1>6 DEF wakeup_lock, At
  <2>2. frame'[t].op = "wake" /\ \A u \in Threads \ {t} : frame'[u] = frame[u]
    BY <1>2, <2>1, GoAtKeeps DEF Ats
  <2>3. CallOf(frame'[t]) = CallOf(frame[t])
    BY <2>1, <2>2 DEF CallOf
  <2>4. QED
    BY <1>1, <2>2, <2>3, HiddenStep
<1>7. QED
  BY <1>3, <1>4, <1>5, <1>6 DEF sleep_lock, At

(* What the scheduler, the alarm and the handler do to the frames: they    *)
(* resume a thread that sleeps inside its call.                            *)
LEMMA SwitchFrames ==
  ASSUME IInv,
         (\E t \in Threads : handle_pending_signals(t)) \/ Alarm \/ signal_handler_alarm \/ scheduler
  PROVE  /\ mutex' = mutex /\ list' = list /\ fate' # "exit" /\ fate # "exit"
         /\ \A u \in Threads :
              frame'[u] = frame[u] \/ (frame'[u].op = "sleep" /\ frame[u].op = "sleep")
<1>1. /\ mutex' = mutex /\ list' = list /\ fate' # "exit" /\ fate # "exit"
  BY DEF handle_pending_signals, Alarm, signal_handler_alarm, scheduler, Executes
<1>2. ASSUME NEW u \in Threads
      PROVE  frame'[u] = frame[u] \/ (frame'[u].op = "sleep" /\ frame[u].op = "sleep")
  <2>1. CASE frame' = frame
    BY <2>1
  <2>2. CASE scheduler /\ GoAt(run.curr, "tidy") /\ node[run.curr].ctx = "asleep"
    <3>1. run.curr \in Threads /\ frame \in [Threads -> Frames]
      BY DEF IInv, TypeOK
    <3>2. frame[run.curr].op = "sleep"
      BY <2>2, <3>1 DEF IInv, Local, Args
    <3>3. /\ frame'[run.curr].op = frame[run.curr].op
          /\ \A v \in Threads \ {run.curr} : frame'[v] = frame[v]
      BY <2>2, <3>1, GoAtKeeps DEF Ats
    <3>4. QED
      BY <3>2, <3>3
  <2>3. QED
    BY <2>1, <2>2 DEF handle_pending_signals, Alarm, signal_handler_alarm, scheduler
<1>3. QED
  BY <1>1, <1>2

(* So nobody comes into or out of a call by them.                          *)
LEMMA SwitchHidden ==
  ASSUME IInv,
         (\E t \in Threads : handle_pending_signals(t)) \/ Alarm \/ signal_handler_alarm \/ scheduler
  PROVE  UNCHANGED Lock!lockVars
<1>1. \A u \in Threads : CallOf(frame'[u]) = CallOf(frame[u])
  BY SwitchFrames DEF CallOf
<1>2. QED
  BY <1>1, SwitchFrames, HiddenStep

(* Every step is a step of the abstract lock or none.                      *)
LEMMA NextRefines == IInv /\ [Next]_vars => [Lock!LockNext]_(Lock!lockVars)
<1> SUFFICES ASSUME IInv, [Next]_vars PROVE [Lock!LockNext]_(Lock!lockVars)
  OBVIOUS
<1>1. CASE UNCHANGED vars
  BY <1>1 DEF vars, Lock!lockVars, lockCall
<1>2. CASE ThreadMoves
  <2>1. PICK t \in Threads : Moves(t) /\ (OnMutex(t) \/ OffMutex(t))
    BY <1>2, OnOrOff
  <2>2. CASE OnMutex(t)
    BY <2>2, CallRefines, TakeRefines, GiveRefines, WaitHidden DEF OnMutex
  <2>3. CASE OffMutex(t)
    <3>1. \A u \in Threads : CallOf(frame'[u]) = CallOf(frame[u])
      BY <2>1, <2>3 DEF Moves, OffMutex, Aside
    <3>2. mutex' = mutex /\ fate' # "exit" /\ fate # "exit"
      BY <2>1, <2>3 DEF OffMutex, Moves, Step, Executes
    <3>3. QED
      BY <3>1, <3>2, HiddenStep
  <2>4. QED
    BY <2>1, <2>2, <2>3
<1>3. QED
  BY <1>1, <1>2, SwitchHidden, Steps

(* acquiresleep and releasesleep implement the abstract lock for any       *)
(* number of threads, whatever the alarm and the kills do to them: no two  *)
(* threads own the mutex, it changes hands inside a call, and exit(1)      *)
(* answers only a call that breaks the protocol.                           *)
THEOREM Refinement == Spec => ImplementsLock
<1>1. Spec => []IInv
  BY Invariance
<1>2. QED
  BY <1>1, InitRefines, NextRefines, PTL DEF Spec, ImplementsLock, Lock!Spec

-----------------------------------------------------------------------------
(***************************************************************************)
(* No wakeup is lost while no thread is killed.                            *)
(***************************************************************************)

(* A thread that sleeps is where wakeup_lock looks for it and is inside    *)
(* sleep_lock; none is killed, so that only thread_exit terminates one;    *)
(* and one that returns from acquiresleep has the mutex.                   *)
Asleep ==
  /\ \A t \in Threads : node[t].state = "SLEEPING" =>
       node[t].chan /\ Contains(list, t) /\ frame[t].op = "sleep"
  /\ \A t \in Threads : ~ Killing(frame[t])
  /\ \A t \in Threads : node[t].state = "TERMINATED" => frame[t].op = "exit"
  /\ \A t \in Threads : Taking(frame[t]) => mutex = t

(* A thread that is awake and on its way.                                  *)
Coming(t) == node[t].state \in {"RUNNABLE", "RUNNING"} /\ Awake(frame[t])

(* Where the steps about the mutex lead.                                   *)
LEMMA OnMutexFrame ==
  ASSUME IInv, NEW t \in Threads, OnMutex(t)
  PROVE  /\ CallLock(t) \/ CallUnlock(t) =>
              frame'[t].op \in {"lock", "unlock"} /\ frame'[t].at = "block"
         /\ acquiresleep(t) =>
              \/ frame'[t].op \in {"lock", "relock"} /\ frame'[t].at = "rel" /\ mutex' = t
              \/ frame'[t].op = "sleep" /\ frame'[t].at = "rel" /\ mutex' = mutex /\ mutex # NoTid
              \/ frame' = frame /\ mutex' = mutex /\ mutex = t
         /\ releasesleep(t) =>
              \/ frame'[t].op = "wake" /\ frame'[t].at = "block" /\ mutex = t
              \/ frame' = frame /\ mutex' = mutex
         /\ sleep_lock(t) =>
              \/ frame'[t].op = "sleep"
              \/ frame'[t].op = "relock" /\ frame'[t].at = "block"
         /\ wakeup_lock(t) => frame'[t].op = "wake" /\ frame'[t].at = "rel"
<1>1. PICK at : Step(t, at)
  BY DEF OnMutex, CallLock, CallUnlock, acquiresleep, releasesleep, sleep_lock, wakeup_lock, At
<1>2. frame \in [Threads -> Frames]
  BY <1>1, OwnCode
<1>3. ASSUME NEW op \in Ops, Goto(t, Locking(op, NoTid))
      PROVE  frame'[t].op = op /\ frame'[t].at = "block"
  BY <1>2, <1>3, LockingFrame, GotoKeeps
<1>4. ASSUME NEW a \in Ats, GoAt(t, a)
      PROVE  frame'[t].op = frame[t].op /\ frame'[t].at = a
  BY <1>2, <1>4, GoAtKeeps
<1>5. ASSUME Goto(t, [Idle EXCEPT !.op = "sleep", !.at = "rel"])
      PROVE  frame'[t].op = "sleep" /\ frame'[t].at = "rel"
  <2>1. PICK f : f = [Idle EXCEPT !.op = "sleep", !.at = "rel"]
    OBVIOUS
  <2>2. f \in Frames /\ f.op = "sleep" /\ f.at = "rel" /\ Goto(t, f)
    BY <1>5, <2>1, OtherFrame DEF Ops, Ats
  <2>3. QED
    BY <1>2, <2>2, GotoKeeps
<1>6. CallLock(t) \/ CallUnlock(t) => frame'[t].op \in {"lock", "unlock"} /\ frame'[t].at = "block"
  BY <1>3 DEF CallLock, CallUnlock, Ops
<1>7. acquiresleep(t) =>
        \/ frame'[t].op \in {"lock", "relock"} /\ frame'[t].at = "rel" /\ mutex' = t
        \/ frame'[t].op = "sleep" /\ frame'[t].at = "rel" /\ mutex' = mutex /\ mutex # NoTid
        \/ frame' = frame /\ mutex' = mutex /\ mutex = t
  BY <1>4, <1>5 DEF acquiresleep, Taken, At, Ats
<1>8. releasesleep(t) =>
        \/ frame'[t].op = "wake" /\ frame'[t].at = "block" /\ mutex = t
        \/ frame' = frame /\ mutex' = mutex
  BY <1>3 DEF releasesleep, Ops
<1>9. sleep_lock(t) =>
        \/ frame'[t].op = "sleep"
        \/ frame'[t].op = "relock" /\ frame'[t].at = "block"
  <2>1. GoAt(t, "jump") /\ frame[t].op = "sleep" => frame'[t].op = "sleep"
    BY <1>4 DEF Ats
  <2>2. Goto(t, Locking("relock", NoTid)) => frame'[t].op = "relock" /\ frame'[t].at = "block"
    BY <1>3 DEF Ops
  <2>3. QED
    BY <2>1, <2>2 DEF sleep_lock, At
<1>10. wakeup_lock(t) => frame'[t].op = "wake" /\ frame'[t].at = "rel"
  BY <1>4 DEF wakeup_lock, At, Ats
<1>11. QED
  BY <1>6, <1>7, <1>8, <1>9, <1>10

(* They kill nobody, and give the mutex to the caller only.                *)
LEMMA OnMutexTakes ==
  ASSUME IInv, NEW t \in Threads, OnMutex(t)
  PROVE  /\ ~ Killing(frame'[t]) /\ (Taking(frame'[t]) => mutex' = t)
         /\ \A u \in Threads \ {t} : mutex = u => mutex' = u
<1>1. CASE CallLock(t) \/ CallUnlock(t)
  <2>1. frame'[t].op \in {"lock", "unlock"} /\ frame'[t].at = "block" /\ mutex' = mutex
    BY <1>1, OnMutexFrame DEF CallLock, CallUnlock, At
  <2>2. QED
    BY <2>1 DEF Killing, Taking
<1>2. CASE acquiresleep(t)
  <2>1. frame[t].op \in {"lock", "relock"} /\ frame[t].at = "sect"
    BY <1>2 DEF acquiresleep, At, Step
  <2>2. mutex' = mutex \/ mutex = NoTid
    BY <1>2 DEF acquiresleep, Taken
  <2>3. ~ Killing(frame'[t]) /\ (Taking(frame'[t]) => mutex' = t)
    BY <1>2, <2>1, OnMutexFrame DEF Killing, Taking
  <2>4. QED
    BY <2>2, <2>3, Constants
<1>3. CASE releasesleep(t)
  <2>1. frame[t].op = "unlock"
    BY <1>3 DEF releasesleep, At
  <2>2. QED
    BY <1>3, <2>1, OnMutexFrame DEF Killing, Taking
<1>4. CASE sleep_lock(t) \/ wakeup_lock(t)
  <2>1. mutex' = mutex
    BY <1>4 DEF sleep_lock, wakeup_lock
  <2>2. QED
    BY <1>4, <2>1, OnMutexFrame DEF Killing, Taking
<1>5. QED
  BY <1>1, <1>2, <1>3, <1>4 DEF OnMutex

(* A step of a thread leaves the sleepers where they can be found.         *)
LEMMA MovesAsleep ==
  ASSUME IInv, IInv', MaxKills = 0, Asleep, NEW t \in Threads, Moves(t), OnMutex(t) \/ OffMutex(t)
  PROVE  Asleep'
<1>1. PICK at : Step(t, at)
  BY DEF Moves
<1>2. /\ run.cpu = t /\ Contains(list, t) /\ Executing(t) /\ run.at = "own" /\ frame[t].at = at
      /\ frame[t] \in Frames
  BY <1>1, OwnCode
<1>3. Executing(t)'
  BY DEF IInv, Local
<1>4. /\ ~ Killing(frame'[t]) /\ (Taking(frame'[t]) => mutex' = t)
      /\ \A u \in Threads \ {t} : mutex = u => mutex' = u
  BY OnMutexTakes DEF OffMutex, Aside, Asleep
<1>5. ~ Killing(frame[t])
  BY DEF Asleep
<1>6. ASSUME NEW u \in Threads \ {t}
      PROVE  /\ node'[u].state = "SLEEPING" =>
                  node'[u].chan /\ Contains(list', u) /\ frame'[u].op = "sleep"
             /\ ~ Killing(frame'[u]) /\ (Taking(frame'[u]) => mutex' = u)
             /\ node'[u].state = "TERMINATED" => frame'[u].op = "exit"
  <2>1. frame'[u] = frame[u] /\ Touched(node[u], node'[u])
    BY DEF Moves
  <2>2. node'[u].state = "TERMINATED" => node[u].state = "TERMINATED"
    BY <1>5 DEF Moves, Killing
  <2>3. node'[u].state = "SLEEPING" =>
          node'[u].chan /\ Contains(list', u) /\ frame'[u].op = "sleep"
    <3>1. node'[u].state = "SLEEPING" => node[u].state = "SLEEPING" /\ node'[u].chan = node[u].chan
      BY <2>1 DEF Touched
    <3>2. QED
      BY <2>1, <3>1 DEF Asleep, Moves
  <2>4. QED
    BY <1>4, <2>1, <2>2, <2>3 DEF Asleep
<1>7. /\ node'[t].state = "SLEEPING" =>
           node'[t].chan /\ Contains(list', t) /\ frame'[t].op = "sleep"
      /\ node'[t].state = "TERMINATED" => frame'[t].op = "exit"
  <2>1. CASE run' = run
    <3>1. node'[t].state = "TERMINATED" => frame'[t].op = "exit"
      BY <1>2, <1>3, <2>1 DEF Executing
    <3>2. node'[t].state = "SLEEPING" => frame'[t].op = "sleep"
      BY <1>2, <1>3, <2>1 DEF Executing
    <3>3. node'[t].state = "SLEEPING" => node'[t].chan /\ Contains(list', t)
      <4>1. CASE node[t].state = "SLEEPING"
        <5>1. node[t].chan
          BY <4>1 DEF Asleep
        <5>2. node'[t].state = "SLEEPING" => node'[t].chan
          BY <3>2, <4>1, <5>1 DEF Moves, Moved
        <5>3. QED
          BY <1>2, <4>1, <5>2 DEF Moves
      <4>2. CASE node[t].state # "SLEEPING" /\ node'[t].state = "SLEEPING"
        <5>1. node'[t].chan /\ node[t].state = "RUNNING"
          BY <4>2 DEF Moves, Moved
        <5>2. QED
          BY <1>2, <5>1 DEF Moves
      <4>3. QED
        BY <4>1, <4>2
    <3>4. QED
      BY <3>1, <3>2, <3>3
  <2>2. CASE node' = node /\ frame' = frame
    BY <1>2, <2>2 DEF Asleep, Moves
  <2>3. QED
    BY <2>1, <2>2 DEF Moves
<1>8. QED
  BY <1>4, <1>6, <1>7 DEF Asleep

(* Who is coming, and is not the thread that steps, still is.              *)
LEMMA KeepsComing ==
  ASSUME Asleep', NEW t \in Threads, Moves(t), NEW w \in Threads, w # t, Coming(w)
  PROVE  Coming(w)'
<1>1. frame'[w] = frame[w] /\ Touched(node[w], node'[w]) /\ Awake(frame[w])
  BY DEF Moves, Coming
<1>2. node'[w].state # "TERMINATED"
  BY <1>1 DEF Asleep, Awake
<1>3. QED
  BY <1>1, <1>2 DEF Touched, Coming

(* wakeup_lock finds a sleeper, if there is one.                           *)
LEMMA WakesOne ==
  ASSUME IInv, Asleep, NEW t \in Threads, wakeup_lock(t), NEW s \in Threads, node[s].state = "SLEEPING"
  PROVE  \E w \in Threads : Coming(w)'
<1>1. /\ Step(t, "sect") /\ GoAt(t, "rel")
      /\ node' = IF Sleepers = {} THEN node
                 ELSE [node EXCEPT ![list[Min(Sleepers)]].state = "RUNNABLE"]
  BY DEF wakeup_lock, At
<1>2. /\ frame \in [Threads -> Frames] /\ node \in [Threads -> Nodes] /\ list \in Seq(Threads)
      /\ node[t].state = "RUNNING"
  BY <1>1, OwnCode, ZenonT(40) DEF TypeOK
<1>3. Sleepers # {}
  <2>1. node[s].chan /\ Contains(list, s)
    BY DEF Asleep
  <2>2. PICK i \in DOMAIN list : list[i] = s
    BY <1>2, <2>1 DEF Contains
  <2>3. i \in Sleepers
    BY <2>1, <2>2 DEF Sleepers
  <2>4. QED
    BY <2>3
<1>4. PICK q \in Threads : q = list[Min(Sleepers)] /\ node[q].state = "SLEEPING"
  BY <1>2, <1>3, FirstSleeper
<1>5. node'[q].state = "RUNNABLE"
  <2>1. node' = [node EXCEPT ![q].state = "RUNNABLE"]
    BY <1>1, <1>3, <1>4
  <2>2. QED
    BY <1>2, <2>1, StateKeeps
<1>6. frame'[q] = frame[q] /\ frame[q].op = "sleep"
  BY <1>1, <1>2, <1>4, GoAtKeeps DEF Asleep, Ats
<1>7. QED
  BY <1>5, <1>6 DEF Coming, Awake

(* A step of a thread.                                                     *)
LEMMA MovesWakeup ==
  ASSUME IInv, IInv', Asleep, Asleep', NoLostWakeup,
         NEW t \in Threads, Moves(t), OnMutex(t) \/ OffMutex(t)
  PROVE  NoLostWakeup'
<1>1. SUFFICES ASSUME NEW s \in Threads, node'[s].state = "SLEEPING", mutex' = NoTid
               PROVE  \E w \in Threads : Coming(w)'
  BY DEF NoLostWakeup, Coming, Awake
<1>2. PICK at : Step(t, at)
  BY DEF Moves
<1>3. /\ run.cpu = t /\ Executing(t) /\ run.at = "own" /\ frame[t].at = at
      /\ node \in [Threads -> Nodes] /\ t # NoTid
  BY <1>2, OwnCode, Constants
<1>4. ASSUME mutex = NoTid, NEW r \in Threads, node[r].state = "SLEEPING",
             Coming(t) => \E w \in Threads : Coming(w)'
      PROVE  \E w \in Threads : Coming(w)'
  <2>1. PICK w \in Threads : Coming(w)
    BY <1>4 DEF NoLostWakeup, Coming, Awake
  <2>2. QED
    BY <1>4, <2>1, KeepsComing
<1>5. node[s].state = "SLEEPING" \/ (s = t /\ node[t].state = "RUNNING")
  BY <1>1 DEF Moves, Touched, Moved
<1>6. CASE OffMutex(t)
  <2>1. mutex = NoTid /\ Aside(frame[t], frame'[t])
    BY <1>1, <1>6 DEF OffMutex
  <2>2. node[s].state = "SLEEPING"
    <3>1. CASE s = t /\ node[t].state = "RUNNING"
      <4>1. frame[t].op \in Foreign /\ frame'[t].op = "sleep"
        BY <1>1, <1>6, <3>1 DEF OffMutex, Asleep
      <4>2. QED
        BY <2>1, <4>1 DEF Aside, CallOf, Foreign
    <3>2. QED
      BY <1>5, <3>1
  <2>3. ASSUME Coming(t) PROVE Coming(t)'
    <3>1. frame[t].op \notin Foreign
      BY <2>3 DEF Coming, Awake, Foreign
    <3>2. ~ Taking(frame[t])
      BY <1>3, <2>1 DEF Asleep
    <3>3. QED
      BY <1>6, <2>1, <2>3, <3>1, <3>2 DEF OffMutex, Aside, Coming
  <2>4. QED
    BY <1>4, <2>1, <2>2, <2>3
<1>7. CASE CallLock(t) \/ CallUnlock(t)
  <2>1. UNCHANGED <<node, mutex>> /\ frame[t].op = "none"
    BY <1>7 DEF CallLock, CallUnlock, At
  <2>2. ~ Coming(t)
    BY <2>1 DEF Coming, Awake
  <2>3. QED
    BY <1>1, <1>4, <2>1, <2>2
<1>8. CASE acquiresleep(t)
  BY <1>1, <1>3, <1>8, OnMutexFrame DEF OnMutex
<1>9. CASE releasesleep(t)
  <2>1. node' = node /\ frame[t].op = "unlock" /\ Step(t, "sect")
    BY <1>9 DEF releasesleep, At
  <2>2. CASE frame' = frame /\ mutex' = mutex
    <3>1. ~ Coming(t)
      BY <2>1 DEF Coming, Awake
    <3>2. QED
      BY <1>1, <1>4, <2>1, <2>2, <3>1
  <2>3. CASE frame'[t].op = "wake" /\ frame'[t].at = "block"
    <3>1. node[t].state = "RUNNING"
      BY <2>1, OwnCode
    <3>2. QED
      BY <2>1, <2>3, <3>1 DEF Coming, Awake
  <2>4. QED
    BY <1>9, <2>2, <2>3, OnMutexFrame DEF OnMutex
<1>10. CASE sleep_lock(t)
  <2>1. frame[t].op = "sleep" /\ mutex' = mutex
    BY <1>10 DEF sleep_lock, At
  <2>2. frame'[t].op \in {"sleep", "relock"}
    BY <1>10, OnMutexFrame DEF OnMutex
  <2>3. node'[t].state = node[t].state
    BY <1>3, <1>10 DEF sleep_lock, Nodes
  <2>4. node[s].state = "SLEEPING"
    BY <1>1, <1>5, <2>3
  <2>5. Coming(t) => Coming(t)'
    BY <2>2, <2>3 DEF Coming, Awake
  <2>6. QED
    BY <1>1, <1>4, <2>1, <2>4, <2>5
<1>11. CASE wakeup_lock(t)
  <2>1. node[t].state = "RUNNING"
    <3>1. Step(t, "sect")
      BY <1>11 DEF wakeup_lock, At
    <3>2. QED
      BY <3>1, OwnCode
  <2>2. node'[t].state # "SLEEPING"
    <3>1. frame'[t].op = "wake"
      BY <1>11, OnMutexFrame DEF OnMutex
    <3>2. QED
      BY <3>1 DEF Asleep
  <2>3. QED
    BY <1>1, <1>5, <1>11, <2>1, <2>2, WakesOne
<1>12. QED
  BY <1>6, <1>7, <1>8, <1>9, <1>10, <1>11 DEF OnMutex

(* The scheduler, the alarm and the handler let no thread fall asleep or   *)
(* end, and wake none.                                                     *)
LEMMA SwitchStates ==
  ASSUME IInv,
         (\E t \in Threads : handle_pending_signals(t)) \/ Alarm \/ signal_handler_alarm \/ scheduler,
         NEW u \in Threads
  PROVE  /\ node'[u].chan = node[u].chan
         /\ \/ node'[u].state = node[u].state
            \/ /\ node[u].state \in {"RUNNABLE", "RUNNING"}
               /\ node'[u].state \in {"RUNNABLE", "RUNNING"}
<1>1. node \in [Threads -> Nodes] /\ run.curr \in Threads /\ Processor
  BY DEF IInv, TypeOK, Nodes
<1>2. CASE node' = node
  BY <1>2
<1>3. CASE node' = Requeued
  BY <1>1, <1>3, RequeuedKeeps
<1>4. CASE /\ run.at = "go" /\ fate = "running"
           /\ node' = [node EXCEPT ![run.curr].state = "RUNNING", ![run.curr].ctx = "stale"]
  <2>1. PICK t \in Threads : t = run.curr /\ node[t].state = "RUNNABLE"
    BY <1>1, <1>4 DEF Processor
  <2>2. /\ \A v \in Threads \ {t} : node'[v] = node[v]
        /\ node'[t].state = "RUNNING" /\ node'[t].chan = node[t].chan
    BY <1>1, <1>4, <2>1, GoNode
  <2>3. QED
    BY <2>1, <2>2
<1>5. CASE \E c \in {"sched", "handler"} : node' = [node EXCEPT ![run.curr].ctx = c]
  BY <1>1, <1>5 DEF Nodes
<1>6. QED
  BY <1>2, <1>3, <1>4, <1>5
  DEF handle_pending_signals, Alarm, signal_handler_alarm, scheduler, Executes

(* So they keep what is said of the sleepers.                              *)
LEMMA SwitchWakeup ==
  ASSUME IInv, Asleep, NoLostWakeup,
         (\E t \in Threads : handle_pending_signals(t)) \/ Alarm \/ signal_handler_alarm \/ scheduler
  PROVE  Asleep' /\ NoLostWakeup'
<1>1. /\ mutex' = mutex /\ list' = list
      /\ \A u \in Threads : frame'[u] = frame[u] \/ (frame'[u].op = "sleep" /\ frame[u].op = "sleep")
  BY SwitchFrames
<1>2. ASSUME NEW u \in Threads
      PROVE  /\ node'[u].chan = node[u].chan
             /\ node'[u].state = "SLEEPING" <=> node[u].state = "SLEEPING"
             /\ node'[u].state = "TERMINATED" => node[u].state = "TERMINATED"
             /\ node[u].state \in {"RUNNABLE", "RUNNING"} =>
                  node'[u].state \in {"RUNNABLE", "RUNNING"}
  BY SwitchStates
<1>3. Asleep'
  BY <1>1, <1>2 DEF Asleep, Killing, Taking
<1>4. \A u \in Threads : Coming(u) => Coming(u)'
  BY <1>1, <1>2 DEF Coming, Awake
<1>5. NoLostWakeup <=> ((\E s \in Threads : node[s].state = "SLEEPING") =>
                          mutex # NoTid \/ \E t \in Threads : Coming(t))
  BY DEF NoLostWakeup, Coming, Awake
<1>6. NoLostWakeup' <=> ((\E s \in Threads : node'[s].state = "SLEEPING") =>
                           mutex' # NoTid \/ \E t \in Threads : Coming(t)')
  BY DEF NoLostWakeup, Coming, Awake
<1>7. QED
  BY <1>1, <1>2, <1>3, <1>4, <1>5, <1>6

(* Every step.                                                             *)
LEMMA NextWakeup ==
  ASSUME MaxKills = 0, IInv, Asleep, NoLostWakeup, [Next]_vars
  PROVE  Asleep' /\ NoLostWakeup'
<1>1. CASE UNCHANGED vars
  BY <1>1 DEF Asleep, NoLostWakeup, Killing, Taking, vars
<1>2. CASE ThreadMoves
  <2>1. PICK t \in Threads : Moves(t) /\ IInv' /\ (OnMutex(t) \/ OffMutex(t))
    BY <1>2, OnOrOff
  <2>2. Asleep'
    BY <2>1, MovesAsleep
  <2>3. QED
    BY <2>1, <2>2, MovesWakeup
<1>3. QED
  BY <1>1, <1>2, SwitchWakeup, Steps

(* While threads sleep on the mutex it is held, or its release has still   *)
(* to look for sleepers, or somebody awake is on the way to it: the sleep  *)
(* is inside lk and wakeup_lock after the mutex is free. It holds with the *)
(* alarm at every step, for programs that kill no thread.                  *)
THEOREM Wakeup == ASSUME MaxKills = 0 PROVE Spec => []NoLostWakeup
<1>1. Init => Asleep /\ NoLostWakeup
  <2> SUFFICES ASSUME Init PROVE Asleep /\ NoLostWakeup
    OBVIOUS
  <2>1. \A t \in Threads : /\ frame[t].op = "none"
                           /\ node[t].state \in {"RUNNING", "UNBORN"}
    BY IdleFrame DEF Init
  <2>2. QED
    BY <2>1 DEF Asleep, NoLostWakeup, Killing, Taking
<1>2. IInv /\ Asleep /\ NoLostWakeup /\ [Next]_vars => Asleep' /\ NoLostWakeup'
  BY NextWakeup
<1>3. QED
  BY Invariance, <1>1, <1>2, PTL DEF Spec
=============================================================================
