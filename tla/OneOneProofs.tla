---------------------------- MODULE OneOneProofs ----------------------------
(***************************************************************************)
(* Proofs about OneOne, for any set of threads and any number of joins and *)
(* kills, with the SIGUSR1 handler on top of any step: the table's lock is *)
(* held by the thread in the section, and a join goes on only after the    *)
(* last store of the thread it waits for.                                  *)
(***************************************************************************)
EXTENDS OneOne, ListProofs

Section == {"name", "crit", "unname", "unlock"}

(* Only cleanup frees, and only thread_exit stores the value and the       *)
(* state, each after a walk that has found the node.                       *)
Fits(f, at) ==
  /\ at \in {"munmap", "free"} => f.op \in {"clean", "cleanall"} /\ f.where # "absent"
  /\ at \in {"store1", "store2", "sysexit"} => f.op \in {"exit", "return"} /\ f.where # "absent"

(* Operations of the library on a thread are on one that it may create,    *)
(* and a thread ends only itself.                                          *)
Proper(t, f) ==
  /\ f.op \notin {"none", "body", "all"} => f.k \in Kids
  /\ f.op \in {"exit", "return"} => f.k = t
  /\ Fits(f, f.at)

Args == \A t \in Threads : \A f \in Activations(t) : Proper(t, f)

(* Only the handler runs on top of something, which is not in the section  *)
(* again.                                                                  *)
Handling ==
  \A t \in Threads :
    /\ saved[t] # NoFrame => frame[t].op = "exit"
    /\ frame[t].at \in Section => saved[t].at \notin Section

Creates(f) == f.op \in {"create", "init"}

(* A thread is created by one caller, and has done nothing before.         *)
Creation ==
  \A t \in Threads : \A f \in Activations(t) : Creates(f) =>
    /\ frame[f.k] = NoFrame /\ node[f.k].stack # "none"
    /\ \A u \in Threads \ {t} : \A g \in Activations(u) : Creates(g) => g.k # f.k

(* The state of a node is an answer: its thread is past its last store.    *)
Ends == \A k \in Kids : node[k].state = "TERMINATED" => Finished(k)

TypeInv == TypeOK /\ Args

IInv == TypeInv /\ SectionOwned /\ Handling /\ Creation

JInv == IInv /\ Ends /\ JoinMeansDone

(* No thread's stack becomes unallocated again.                            *)
StacksStay == \A k \in Kids : node[k].stack # "none" => node'[k].stack # "none"

-----------------------------------------------------------------------------
(* The operations and the places of frames.                                *)
Ops == {"none", "create", "init", "insert", "body", "join", "exit", "return",
        "clean", "cleanall", "all"}
Ats == {"unborn", "idle", "clone", "start", "acq", "name", "crit", "unname", "unlock", "found",
        "wait", "read", "store1", "store2", "sysexit", "dead", "munmap", "free", "test", "head"}

(* main is not a thread of the table, and NoTid is nobody.                  *)
LEMMA Constants ==
  /\ Threads = Kids \cup {Main} /\ Main \notin Kids /\ NoTid \notin Threads
BY OneOneAssumption DEF Threads

(* The frames calls begin with and return to.                               *)
LEMMA FrameTypes ==
  /\ NoFrame \in Frames /\ NoFrame.op = "none" /\ NoFrame.at = "unborn"
  /\ Idle \in Frames /\ Idle.op = "none" /\ Idle.at = "idle"
  /\ \A op \in Ops, k \in Threads, v \in Values \cup {Null} :
       /\ Locking(op, k, v) \in Frames
       /\ Locking(op, k, v).op = op /\ Locking(op, k, v).at = "acq" /\ Locking(op, k, v).k = k
<1>1. NoFrame \in Frames /\ NoFrame.op = "none" /\ NoFrame.at = "unborn"
  BY DEF NoFrame, Frames
<1>2. Idle \in Frames /\ Idle.op = "none" /\ Idle.at = "idle"
  BY DEF NoFrame, Idle, Frames
<1>3. \A op \in Ops, k \in Threads, v \in Values \cup {Null} :
       /\ Locking(op, k, v) \in Frames
       /\ Locking(op, k, v).op = op /\ Locking(op, k, v).at = "acq" /\ Locking(op, k, v).k = k
  BY DEF Locking, Frames, Ops
<1>4. QED
  BY <1>1, <1>2, <1>3

(* A frame with another operation and place, about no thread.               *)
LEMMA BodyFrame ==
  ASSUME NEW op \in Ops, NEW at \in Ats, NEW f, f = [Idle EXCEPT !.op = op, !.at = at]
  PROVE  f \in Frames /\ f.op = op /\ f.at = at
<1>1. Idle \in Frames
  BY FrameTypes
<1>2. QED
  BY <1>1 DEF Frames, Ops, Ats

(* What the operators that move a thread change.                            *)
LEMMA GoAtKeeps ==
  ASSUME frame \in [Threads -> Frames], NEW t \in Threads, NEW at \in Ats, GoAt(t, at)
  PROVE  /\ frame' \in [Threads -> Frames] /\ \A u \in Threads \ {t} : frame'[u] = frame[u]
         /\ frame'[t].at = at /\ frame'[t].op = frame[t].op /\ frame'[t].k = frame[t].k
         /\ frame'[t].v = frame[t].v /\ frame'[t].where = frame[t].where
BY DEF GoAt, Frames, Ats

(* Goto changes one frame.                                                  *)
LEMMA GotoKeeps ==
  ASSUME frame \in [Threads -> Frames], NEW t \in Threads, NEW f \in Frames, Goto(t, f)
  PROVE  /\ frame' \in [Threads -> Frames] /\ \A u \in Threads \ {t} : frame'[u] = frame[u]
         /\ frame'[t] = f
BY DEF Goto

(* Returns goes to what was interrupted, or to the program.                 *)
LEMMA ReturnsKeeps ==
  ASSUME frame \in [Threads -> Frames], saved \in [Threads -> Frames],
         NEW t \in Threads, Returns(t)
  PROVE  /\ frame' \in [Threads -> Frames] /\ \A u \in Threads \ {t} : frame'[u] = frame[u]
         /\ saved' \in [Threads -> Frames] /\ \A u \in Threads \ {t} : saved'[u] = saved[u]
         /\ saved'[t] = NoFrame
         /\ frame'[t] = Idle \/ (frame'[t] = saved[t] /\ saved[t] # NoFrame)
<1>1. Idle \in Frames /\ NoFrame \in Frames
  BY FrameTypes
<1> DEFINE f == IF saved[t] = NoFrame THEN Idle ELSE saved[t]
<1>2. f \in Frames /\ Goto(t, f) /\ saved' = [saved EXCEPT ![t] = NoFrame]
  BY <1>1 DEF Returns
<1>3. f = Idle \/ (f = saved[t] /\ saved[t] # NoFrame)
  OBVIOUS
<1> HIDE DEF f
<1>4. QED
  BY <1>1, <1>2, <1>3, GotoKeeps

(* What thread_create's steps put t into.                                   *)
LEMMA CreateFrame ==
  ASSUME NEW k \in Threads
  PROVE  \E f \in Frames : /\ f = [Idle EXCEPT !.op = "create", !.at = "clone", !.k = k]
                           /\ f.op = "create" /\ f.at = "clone" /\ f.k = k
<1>1. Idle \in Frames
  BY FrameTypes
<1>2. PICK f : f = [Idle EXCEPT !.op = "create", !.at = "clone", !.k = k]
  OBVIOUS
<1>3. f \in Frames /\ f.op = "create" /\ f.at = "clone" /\ f.k = k
  BY <1>1, <1>2 DEF Frames
<1>4. QED
  BY <1>2, <1>3

-----------------------------------------------------------------------------
(* A step that creates nothing new keeps every creation as it was.          *)
LEMMA CreationKept ==
  ASSUME IInv, NEW t \in Threads, frame[t] # NoFrame, StacksStay, Args',
         \A u \in Threads \ {t} : frame'[u] = frame[u] /\ saved'[u] = saved[u],
         \A f \in Activations(t)' : Creates(f) => \E g \in Activations(t) : Creates(g) /\ g.k = f.k
  PROVE  Creation'
<1> SUFFICES ASSUME NEW u \in Threads, NEW f \in Activations(u)', Creates(f)
             PROVE  /\ frame'[f.k] = NoFrame /\ node'[f.k].stack # "none"
                    /\ \A w \in Threads \ {u} : \A h \in Activations(w)' : Creates(h) => h.k # f.k
  BY DEF Creation
<1>1. \A w \in Threads : \A h \in Activations(w)' : Creates(h) =>
        \E g \in Activations(w) : Creates(g) /\ g.k = h.k
  BY DEF Activations
<1>2. PICK g \in Activations(u) : Creates(g) /\ g.k = f.k
  BY <1>1
<1>3. g.k \in Kids /\ g.k \in Threads
  BY <1>2 DEF IInv, TypeInv, Args, Proper, Fits, Creates, Threads
<1>4. frame[g.k] = NoFrame /\ node[g.k].stack # "none"
  BY <1>2 DEF IInv, Creation
<1>5. frame'[f.k] = NoFrame /\ node'[f.k].stack # "none"
  BY <1>2, <1>3, <1>4 DEF StacksStay
<1>6. ASSUME NEW w \in Threads \ {u}, NEW h \in Activations(w)', Creates(h) PROVE h.k # f.k
  <2>1. PICK e \in Activations(w) : Creates(e) /\ e.k = h.k
    BY <1>1, <1>6
  <2>2. QED
    BY <1>2, <2>1 DEF IInv, Creation
<1>7. QED
  BY <1>5, <1>6

(* A step of t keeps the invariant if it keeps what is said of t.           *)
LEMMA OwnStep ==
  ASSUME IInv, TypeOK', NEW t \in Threads, frame[t] # NoFrame, StacksStay,
         \A u \in Threads \ {t} : frame'[u] = frame[u] /\ saved'[u] = saved[u],
         \A f \in {frame'[t], saved'[t]} : Proper(t, f),
         \A f \in {frame'[t], saved'[t]} : f.at \in Section => lock'.owner = t,
         \A f \in {frame'[t], saved'[t]} : Creates(f) =>
           \E g \in Activations(t) : Creates(g) /\ g.k = f.k,
         \A u \in Threads \ {t} : lock.owner = u => lock'.owner = u,
         saved'[t] # NoFrame => frame'[t].op = "exit",
         frame'[t].at \in Section => saved'[t].at \notin Section
  PROVE  IInv'
<1>1. Args'
  BY DEF IInv, TypeInv, Args, Proper, Fits, Activations
<1>2. SectionOwned'
  BY DEF IInv, SectionOwned, Activations, Section
<1>3. Handling'
  BY DEF IInv, Handling
<1>4. Creation'
  BY <1>1, CreationKept DEF Activations
<1>5. QED
  BY <1>1, <1>2, <1>3, <1>4 DEF IInv, TypeInv

(* A thread at a step is not unborn.                                        *)
LEMMA Born ==
  ASSUME NEW t \in Threads, frame[t].at # "unborn"
  PROVE  frame[t] # NoFrame
BY FrameTypes

(* A step inside the operation t is in, without the lock or with it.        *)
LEMMA AtStep ==
  ASSUME IInv, TypeOK', NEW t \in Threads, NEW at \in Ats, GoAt(t, at), saved' = saved,
         Runs(t), StacksStay, Fits(frame[t], at),
         at \in Section => lock'.owner = t /\ saved[t].at \notin Section,
         saved[t].at \in Section => lock'.owner = t,
         \A u \in Threads \ {t} : lock.owner = u => lock'.owner = u
  PROVE  IInv'
<1>1. frame \in [Threads -> Frames]
  BY DEF IInv, TypeInv, TypeOK
<1>2. /\ \A u \in Threads \ {t} : frame'[u] = frame[u]
      /\ frame'[t].at = at /\ frame'[t].op = frame[t].op /\ frame'[t].k = frame[t].k
      /\ frame'[t].where = frame[t].where
  BY <1>1, GoAtKeeps
<1>3. \A f \in {frame'[t], saved'[t]} : Proper(t, f)
  BY <1>2 DEF IInv, TypeInv, Args, Proper, Fits, Activations
<1>4. saved'[t] # NoFrame => frame'[t].op = "exit"
  BY <1>2 DEF IInv, Handling
<1>5. frame[t] # NoFrame
  BY Born DEF Runs, Alive
<1>6. \A f \in {frame'[t], saved'[t]} : Creates(f) =>
        \E g \in Activations(t) : Creates(g) /\ g.k = f.k
  BY <1>2 DEF Activations, Creates
<1>7. QED
  BY <1>2, <1>3, <1>4, <1>5, <1>6, OwnStep

(* A step that moves no thread and leaves the lock with its owner.          *)
LEMMA SameStep ==
  ASSUME IInv, TypeOK', frame' = frame, saved' = saved, lock' = lock, node' = node
  PROVE  IInv'
<1>1. Args' /\ SectionOwned' /\ Handling'
  BY DEF IInv, TypeInv, Args, Proper, Fits, SectionOwned, Handling, Activations
<1>2. Creation'
  BY DEF IInv, Creation, Activations, Creates
<1>3. QED
  BY <1>1, <1>2 DEF IInv, TypeInv

(* Who is in the section owns the lock, and no frame below is in it.        *)
LEMMA Holds ==
  ASSUME IInv, NEW t \in Threads, frame[t].at \in Section
  PROVE  lock.owner = t /\ saved[t].at \notin Section
BY DEF IInv, SectionOwned, Handling, Activations, Section

(* A step of t that puts it into the frame f, outside the section.          *)
LEMMA GotoStep ==
  ASSUME IInv, TypeOK', NEW t \in Threads, NEW f \in Frames, Goto(t, f),
         Runs(t), StacksStay, saved' = saved, lock' = lock, f.at \notin Section,
         Proper(t, f),
         Creates(f) => Creates(frame[t]) /\ frame[t].k = f.k,
         saved[t] = NoFrame \/ f.op = "exit"
  PROVE  IInv'
<1>1. frame \in [Threads -> Frames]
  BY DEF IInv, TypeInv, TypeOK
<1>2. frame'[t] = f /\ \A u \in Threads \ {t} : frame'[u] = frame[u]
  BY <1>1, GotoKeeps
<1>3. \A g \in {frame'[t], saved'[t]} : Proper(t, g)
  BY <1>2 DEF IInv, TypeInv, Args, Proper, Fits, Activations
<1>4. \A g \in {frame'[t], saved'[t]} : g.at \in Section => lock'.owner = t
  BY <1>2 DEF IInv, SectionOwned, Activations, Section
<1>5. frame[t] # NoFrame
  BY Born DEF Runs, Alive
<1>6. \A g \in {frame'[t], saved'[t]} : Creates(g) =>
        \E h \in Activations(t) : Creates(h) /\ h.k = g.k
  BY <1>2 DEF Activations
<1>7. QED
  BY <1>2, <1>3, <1>4, <1>5, <1>6, OwnStep

(* A return.                                                                *)
LEMMA ReturnStep ==
  ASSUME IInv, TypeOK', NEW t \in Threads, Returns(t), Runs(t), StacksStay, lock' = lock
  PROVE  IInv'
<1>1. frame \in [Threads -> Frames] /\ saved \in [Threads -> Frames]
  BY DEF IInv, TypeInv, TypeOK
<1>2. /\ \A u \in Threads \ {t} : frame'[u] = frame[u] /\ saved'[u] = saved[u]
      /\ saved'[t] = NoFrame
      /\ frame'[t] = Idle \/ frame'[t] = saved[t]
  BY <1>1, ReturnsKeeps
<1>3. /\ Idle.op = "none" /\ Idle.at \notin Section /\ NoFrame.op = "none" /\ NoFrame.at \notin Section
      /\ Idle.at = "idle" /\ NoFrame.at = "unborn"
  BY FrameTypes DEF Section
<1>4. \A g \in {frame'[t], saved'[t]} : Proper(t, g)
  BY <1>2, <1>3 DEF IInv, TypeInv, Args, Proper, Fits, Activations
<1>5. \A g \in {frame'[t], saved'[t]} : g.at \in Section => lock'.owner = t
  BY <1>2, <1>3 DEF IInv, SectionOwned, Activations, Section
<1>6. frame[t] # NoFrame
  BY Born DEF Runs, Alive
<1>7. \A g \in {frame'[t], saved'[t]} : Creates(g) =>
        \E h \in Activations(t) : Creates(h) /\ h.k = g.k
  BY <1>2, <1>3 DEF Activations, Creates
<1>8. QED
  BY <1>2, <1>3, <1>4, <1>5, <1>6, <1>7, OwnStep

(* A thread in an operation other than the handler's was not interrupted.   *)
LEMMA NotHandling ==
  ASSUME IInv, NEW t \in Threads, frame[t].op # "exit"
  PROVE  saved[t] = NoFrame
BY DEF IInv, Handling

-----------------------------------------------------------------------------
(* One lemma per operation.                                                 *)
LEMMA AcquireStep == ASSUME IInv, NEW t \in Threads, acquire(t) PROVE IInv'
<1> USE DEF Section
<1>1. /\ TypeOK /\ frame \in [Threads -> Frames] /\ NoTid \notin Threads
      /\ {"acq", "name", "crit"} \subseteq Ats
      /\ UNCHANGED <<list, node, saved, pending, initDone, calls, passed, got>>
      /\ StacksStay
  BY Constants DEF IInv, TypeInv, TypeOK, acquire, history, Ats, StacksStay
<1>2. CASE /\ At(t, "acq") /\ Available(t)
           /\ lock' = [owner |-> t, named |-> FALSE]
           /\ GoAt(t, "name") /\ fate' = fate
  <2>1. TypeOK'
    BY <1>1, <1>2, GoAtKeeps DEF TypeOK
  <2>2. saved[t].at \notin Section
    BY <1>1, <1>2 DEF IInv, SectionOwned, Activations, Available
  <2>3. \A u \in Threads : lock.owner # u
    BY <1>1, <1>2 DEF Available
  <2>4. lock'.owner = t
    BY <1>2
  <2>5. QED
    BY <1>1, <1>2, <2>1, <2>2, <2>3, <2>4, AtStep DEF At, Fits
<1>3. CASE fate' = "exit1" /\ UNCHANGED <<lock, frame>>
  <2>1. TypeOK'
    BY <1>1, <1>3 DEF TypeOK
  <2>2. QED
    BY <1>1, <1>3, <2>1, SameStep
<1>4. CASE /\ At(t, "name") /\ lock' = [lock EXCEPT !.named = TRUE]
           /\ GoAt(t, "crit") /\ fate' = fate
  <2>1. lock' \in [owner : Threads \cup {NoTid}, named : BOOLEAN] /\ lock'.owner = lock.owner
    BY <1>1, <1>4 DEF TypeOK
  <2>2. TypeOK'
    BY <1>1, <1>4, <2>1, GoAtKeeps DEF TypeOK
  <2>3. lock.owner = t /\ saved[t].at \notin Section
    BY <1>4, Holds DEF At
  <2>4. QED
    BY <1>1, <1>4, <2>1, <2>2, <2>3, AtStep DEF At, Fits
<1>5. QED
  BY <1>2, <1>3, <1>4 DEF acquire

(* The two stores of release.                                               *)
LEMMA ReleaseStep == ASSUME IInv, NEW t \in Threads, release(t) PROVE IInv'
<1> USE DEF Section
<1>1. /\ TypeOK /\ frame \in [Threads -> Frames] /\ NoTid \notin Threads
      /\ {"unlock", "found"} \subseteq Ats
      /\ UNCHANGED <<list, node, saved, pending, initDone, fate, calls, passed, got>>
      /\ Runs(t) /\ StacksStay
  BY Constants DEF IInv, TypeInv, TypeOK, release, history, Ats, At, StacksStay
<1>2. lock.owner = t /\ saved[t].at \notin Section
  BY Holds DEF release, At
<1>3. CASE lock' = [lock EXCEPT !.named = FALSE] /\ GoAt(t, "unlock")
  <2>1. lock' \in [owner : Threads \cup {NoTid}, named : BOOLEAN] /\ lock'.owner = lock.owner
    BY <1>1, <1>3 DEF TypeOK
  <2>2. TypeOK'
    BY <1>1, <1>3, <2>1, GoAtKeeps DEF TypeOK
  <2>3. QED
    BY <1>1, <1>2, <1>3, <2>1, <2>2, AtStep DEF Fits
<1>4. CASE lock' = Released(t) /\ GoAt(t, "found")
  <2>1. lock' \in [owner : Threads \cup {NoTid}, named : BOOLEAN]
    BY <1>4 DEF Released
  <2>2. TypeOK'
    BY <1>1, <1>4, <2>1, GoAtKeeps DEF TypeOK
  <2>3. QED
    BY <1>1, <1>2, <1>4, <2>2, AtStep DEF Fits
<1>5. QED
  BY <1>3, <1>4 DEF release

(* A section moves its thread on, in the same operation.                    *)
LEMMA SectionFrame ==
  ASSUME frame \in [Threads -> Frames], NEW t \in Threads, section(t)
  PROVE  /\ frame' \in [Threads -> Frames] /\ \A u \in Threads \ {t} : frame'[u] = frame[u]
         /\ frame'[t].op = frame[t].op /\ frame'[t].k = frame[t].k /\ frame'[t].at = "unname"
<1>1. PICK w \in {"absent", "head", "inner"} :
        frame' = [frame EXCEPT ![t].at = "unname", ![t].where = w]
  BY DEF section, Where
<1> DEFINE x == [frame[t] EXCEPT !.at = "unname", !.where = w]
<1>2. x \in Frames /\ x.op = frame[t].op /\ x.k = frame[t].k /\ x.at = "unname"
  BY DEF Frames
<1>3. Goto(t, x)
  BY <1>1 DEF Goto
<1> HIDE DEF x
<1>4. QED
  BY <1>2, <1>3, GotoKeeps

(* The list is changed inside a section.                                    *)
LEMMA SectionStep == ASSUME IInv, NEW t \in Threads, section(t) PROVE IInv'
<1>1. /\ TypeOK /\ frame \in [Threads -> Frames] /\ list \in Seq(Kids)
      /\ frame' = [frame EXCEPT ![t].at = "unname", ![t].where = Where(frame[t].k)]
      /\ UNCHANGED <<lock, node, saved, pending, initDone, fate, calls, passed, got>>
      /\ Runs(t) /\ StacksStay
  BY DEF IInv, TypeInv, TypeOK, section, history, At, StacksStay
<1>2. lock.owner = t /\ saved[t].at \notin Section
  BY Holds DEF section, At, Section
<1>4. /\ frame' \in [Threads -> Frames] /\ \A u \in Threads \ {t} : frame'[u] = frame[u]
      /\ frame'[t].op = frame[t].op /\ frame'[t].k = frame[t].k /\ frame'[t].at = "unname"
  BY <1>1, SectionFrame
<1>5. list' \in Seq(Kids)
  <2>1. list' = ListAfter(frame[t])
    BY DEF section
  <2>2. CASE frame[t].op = "insert"
    <3>1. frame[t].k \in Kids
      BY <2>2 DEF IInv, TypeInv, Args, Proper, Fits, Activations
    <3>2. <<frame[t].k>> \in Seq(Kids) /\ list' = <<frame[t].k>> \o list
      BY <2>1, <2>2, <3>1 DEF ListAfter
    <3>3. QED
      BY <1>1, <3>2, ConcatProperties
  <2>3. CASE frame[t].op # "insert"
    <3>1. list' = <<>> \/ list' = RemoveFirst(list, frame[t].k) \/ list' = list
      BY <2>1, <2>3 DEF ListAfter
    <3>2. list \in Seq(Kids) /\ <<>> \in Seq(Kids)
      BY <1>1
    <3>3. RemoveFirst(list, frame[t].k) \in Seq(Kids)
      BY <3>2, RemoveFirstType
    <3>4. QED
      BY <3>1, <3>2, <3>3
  <2>4. QED
    BY <2>2, <2>3
<1>6. TypeOK'
  BY <1>1, <1>4, <1>5 DEF TypeOK
<1>7. \A f \in {frame'[t], saved'[t]} : Proper(t, f)
  <2>1. Proper(t, frame[t]) /\ Proper(t, saved[t]) /\ saved' = saved
    BY <1>1 DEF IInv, TypeInv, Args, Activations
  <2>2. Proper(t, frame'[t])
    BY <1>4, <2>1 DEF Proper, Fits
  <2>3. QED
    BY <2>1, <2>2
<1>8. saved'[t] # NoFrame => frame'[t].op = "exit"
  BY <1>1, <1>4 DEF IInv, Handling
<1>9. \A f \in {frame'[t], saved'[t]} : Creates(f) =>
        \E g \in Activations(t) : Creates(g) /\ g.k = f.k
  BY <1>1, <1>4 DEF Activations, Creates
<1>10. frame[t] # NoFrame
  BY <1>1, Born DEF Runs, Alive
<1>11. \A f \in {frame'[t], saved'[t]} : f.at \in Section => lock'.owner = t
  BY <1>1, <1>2
<1>12. QED
  BY <1>1, <1>2, <1>4, <1>6, <1>7, <1>8, <1>9, <1>10, <1>11, OwnStep

(* The new thread is nobody else's, for it has no stack yet.                *)
LEMMA CallCreateStep ==
  ASSUME IInv, NEW t \in Threads, NEW k \in Kids, CallCreate(t, k) PROVE IInv'
<1>1. /\ TypeOK /\ frame \in [Threads -> Frames] /\ k \in Threads
      /\ frame[t].op = "none" /\ frame[t].at = "idle" /\ frame[k] = NoFrame /\ node[k].stack = "none"
      /\ node' = [node EXCEPT ![k].stack = "mapped"]
      /\ UNCHANGED <<list, lock, saved, pending, initDone, fate, calls, passed, got>>
  BY DEF IInv, TypeInv, TypeOK, CallCreate, OpAt, At, history, Threads
<1>2. PICK f \in Frames : /\ Goto(t, f) /\ f.at \notin Section /\ f.k = k
                           /\ f.op \in {"create", "init"} /\ f.at \in {"clone", "acq"}
  <2>1. CASE initDone
    <3>1. PICK f \in Frames : /\ f = [Idle EXCEPT !.op = "create", !.at = "clone", !.k = k]
                              /\ f.op = "create" /\ f.at = "clone" /\ f.k = k
      BY <1>1, CreateFrame
    <3>2. Goto(t, f)
      BY <2>1, <3>1 DEF CallCreate
    <3>3. QED
      BY <3>1, <3>2 DEF Section
  <2>2. CASE ~ initDone
    <3>1. Goto(t, Locking("init", k, Null))
      BY <2>2 DEF CallCreate
    <3>2. "init" \in Ops
      BY DEF Ops
    <3>3. QED
      BY <1>1, <3>1, <3>2, FrameTypes DEF Section
  <2>3. QED
    BY <2>1, <2>2
<1>3. /\ node' \in [Kids -> [state : States \cup HeapStates, ret : Values \cup {Null, Garbage},
                             stack : {"none", "mapped", "unmapped"}, frees : Nat]]
      /\ node'[k].stack = "mapped" /\ \A j \in Kids \ {k} : node'[j] = node[j]
  BY <1>1 DEF TypeOK
<1>4. TypeOK'
  BY <1>1, <1>2, <1>3, GotoKeeps DEF TypeOK
<1>5. saved[t] = NoFrame /\ t # k
  BY <1>1, NotHandling, FrameTypes
<1>6. /\ frame'[t] = f /\ \A u \in Threads \ {t} : frame'[u] = frame[u]
      /\ NoFrame.op = "none" /\ NoFrame.at \notin Section /\ NoFrame.at = "unborn"
  BY <1>1, <1>2, GotoKeeps, FrameTypes DEF Section
<1>7. Args'
  BY <1>1, <1>2, <1>5, <1>6 DEF IInv, TypeInv, Args, Proper, Fits, Activations
<1>8. SectionOwned'
  BY <1>1, <1>2, <1>5, <1>6 DEF IInv, SectionOwned, Activations, Section
<1>9. Handling'
  BY <1>1, <1>2, <1>5, <1>6 DEF IInv, Handling
<1>10. Creation'
  <2>1. \A u \in Threads \ {t} : Activations(u)' = Activations(u)
    BY <1>1, <1>6 DEF Activations
  <2>2. \A u \in Threads : \A g \in Activations(u) : Creates(g) => g.k \in Kids /\ g.k # k /\ g.k # t
    BY <1>1, FrameTypes DEF IInv, TypeInv, Args, Proper, Fits, Creation, Creates
  <2>3. \A g \in Activations(t)' : Creates(g) => g = f
    BY <1>1, <1>5, <1>6 DEF Activations, Creates
  <2>4. frame'[k] = NoFrame /\ node'[k].stack # "none" /\ k \in Threads
    BY <1>1, <1>3, <1>5, <1>6
  <2>5. \A u \in Threads \ {t} : \A g \in Activations(u) : Creates(g) =>
          frame'[g.k] = NoFrame /\ node'[g.k].stack # "none"
    BY <1>3, <1>6, <2>2 DEF IInv, Creation, Threads
  <2>6. QED
    BY <1>2, <2>1, <2>2, <2>3, <2>4, <2>5 DEF IInv, Creation
<1>11. QED
  BY <1>4, <1>7, <1>8, <1>9, <1>10 DEF IInv, TypeInv

(* The clone puts a second thread, with nothing under it, into its body.    *)
LEMMA CloneStep ==
  ASSUME IInv, NEW t \in Threads, NEW k \in Kids, t # k,
         NEW f \in Frames, f.op = "insert", f.k = k, f.at = "acq",
         NEW b \in Frames, b.op = "body", b.at = "start",
         frame' = [frame EXCEPT ![t] = f, ![k] = b],
         saved[t] = NoFrame, saved[k] = NoFrame, frame[t].op = "create", frame[t].k = k,
         UNCHANGED <<list, lock, node, saved, pending, initDone, fate, calls, passed, got>>
  PROVE  IInv'
<1>1. TypeOK /\ frame \in [Threads -> Frames] /\ k \in Threads
  BY DEF IInv, TypeInv, TypeOK, Threads
<1>2. /\ frame' \in [Threads -> Frames] /\ frame'[t] = f /\ frame'[k] = b
      /\ \A u \in Threads \ {t, k} : frame'[u] = frame[u]
  BY <1>1
<1>3. TypeOK'
  BY <1>1, <1>2 DEF TypeOK
<1>4. NoFrame.op = "none" /\ NoFrame.at \notin Section /\ f.at \notin Section /\ b.at \notin Section
  BY FrameTypes DEF Section
<1>5. Args'
  BY <1>1, <1>2, <1>4 DEF IInv, TypeInv, Args, Proper, Fits, Activations
<1>6. SectionOwned'
  BY <1>1, <1>2, <1>4 DEF IInv, SectionOwned, Activations, Section
<1>7. Handling'
  BY <1>1, <1>2, <1>4 DEF IInv, Handling
<1>8. Creation'
  <2>1. \A u \in Threads \ {t, k} : Activations(u)' = Activations(u)
    BY <1>1, <1>2 DEF Activations
  <2>2. \A u \in {t, k} : \A g \in Activations(u)' : ~ Creates(g)
    BY <1>1, <1>2, <1>4 DEF Activations, Creates
  <2>3. \A u \in Threads \ {t, k} : \A g \in Activations(u) : Creates(g) =>
          g.k \in Kids /\ g.k # k /\ g.k # t
    <3>1. \A u \in Threads \ {t} : \A g \in Activations(u) : Creates(g) => g.k \in Kids /\ g.k # k
      BY DEF IInv, TypeInv, Args, Proper, Fits, Creation, Creates, Activations
    <3>2. frame[t] # NoFrame
      BY FrameTypes
    <3>3. QED
      BY <3>1, <3>2 DEF IInv, Creation
  <2>4. \A u \in Threads \ {t, k} : \A g \in Activations(u) : Creates(g) =>
          frame'[g.k] = NoFrame /\ node'[g.k].stack # "none"
    BY <1>2, <2>3 DEF IInv, Creation, Threads
  <2>5. SUFFICES ASSUME NEW u \in Threads, NEW g \in Activations(u)', Creates(g)
                 PROVE  /\ frame'[g.k] = NoFrame /\ node'[g.k].stack # "none"
                        /\ \A w \in Threads \ {u} : \A h \in Activations(w)' :
                             Creates(h) => h.k # g.k
    BY DEF Creation
  <2>6. u \in Threads \ {t, k} /\ g \in Activations(u)
    BY <2>1, <2>2, <2>5
  <2>7. \A w \in Threads \ {u} : \A h \in Activations(w)' : Creates(h) => h.k # g.k
    BY <2>1, <2>2, <2>5, <2>6 DEF IInv, Creation
  <2>8. QED
    BY <2>4, <2>5, <2>6, <2>7
<1>9. QED
  BY <1>3, <1>5, <1>6, <1>7, <1>8 DEF IInv, TypeInv

(* The steps of thread_create and the start of the new thread.              *)
LEMMA ThreadCreateStep ==
  ASSUME IInv, NEW t \in Threads, thread_create(t) PROVE IInv'
<1> DEFINE k == frame[t].k
<1>1. /\ TypeOK /\ frame \in [Threads -> Frames] /\ saved \in [Threads -> Frames]
      /\ Runs(t) /\ initDone \in BOOLEAN
      /\ UNCHANGED <<list, lock, pending, fate, calls, passed, got>>
  BY DEF IInv, TypeInv, TypeOK, thread_create, history, OpAt, At
<1>2. frame[t].op \in {"init", "create", "insert"} => k \in Kids /\ saved[t] = NoFrame
  BY DEF IInv, TypeInv, Args, Proper, Fits, Activations, Handling
<1>3. CASE /\ OpAt(t, "init", "found") /\ initDone' = TRUE
           /\ Goto(t, [Idle EXCEPT !.op = "create", !.at = "clone", !.k = k])
           /\ UNCHANGED <<node, saved>>
  <2>1. k \in Kids /\ k \in Threads /\ saved[t] = NoFrame /\ frame[t].op = "init"
    BY <1>2, <1>3 DEF OpAt, Threads
  <2>2. PICK f \in Frames : /\ f = [Idle EXCEPT !.op = "create", !.at = "clone", !.k = k]
                            /\ f.op = "create" /\ f.at = "clone" /\ f.k = k
    BY <2>1, CreateFrame
  <2>3. Goto(t, f) /\ StacksStay
    BY <1>3, <2>2 DEF StacksStay
  <2>4. TypeOK'
    BY <1>1, <1>3, <2>3, GotoKeeps DEF TypeOK
  <2>5. f.at \notin Section /\ Creates(frame[t]) /\ Proper(t, f)
    BY <2>1, <2>2 DEF Section, Creates, Proper, Fits
  <2>6. QED
    BY <1>1, <1>3, <2>1, <2>2, <2>3, <2>4, <2>5, GotoStep
<1>4. CASE /\ OpAt(t, "create", "clone")
           /\ frame' = [frame EXCEPT ![t] = Locking("insert", k, Null),
                                     ![k] = [Idle EXCEPT !.op = "body", !.at = "start"]]
           /\ UNCHANGED <<node, saved, initDone>>
  <2>1. k \in Kids /\ k \in Threads /\ saved[t] = NoFrame /\ frame[t].op = "create" /\ frame[t].at = "clone"
    BY <1>2, <1>4 DEF OpAt, At, Threads
  <2>2. frame[k] = NoFrame
    BY <2>1 DEF IInv, Creation, Creates, Activations
  <2>3. saved[k] = NoFrame /\ t # k
    BY <2>1, <2>2, NotHandling, FrameTypes
  <2> DEFINE f == Locking("insert", k, Null)
  <2> DEFINE b == [Idle EXCEPT !.op = "body", !.at = "start"]
  <2>4. f \in Frames /\ f.op = "insert" /\ f.k = k /\ f.at = "acq"
    BY <2>1, FrameTypes DEF Ops
  <2>5. b \in Frames /\ b.op = "body" /\ b.at = "start"
    BY BodyFrame DEF Ops, Ats
  <2>6. /\ frame' = [frame EXCEPT ![t] = f, ![k] = b]
        /\ UNCHANGED <<list, lock, node, saved, pending, initDone, fate, calls, passed, got>>
    BY <1>1, <1>4
  <2>7. frame[t].k = k
    OBVIOUS
  <2> HIDE DEF f, b, k
  <2>8. QED
    BY <2>1, <2>3, <2>4, <2>5, <2>6, <2>7, CloneStep
<1>5. CASE /\ OpAt(t, "create", "clone") \/ OpAt(t, "insert", "found")
           /\ Returns(t) /\ UNCHANGED <<node, initDone>>
  <2>1. TypeOK'
    BY <1>1, <1>5, ReturnsKeeps DEF TypeOK
  <2>2. StacksStay
    BY <1>5 DEF StacksStay
  <2>3. QED
    BY <1>1, <1>5, <2>1, <2>2, ReturnStep
<1>6. CASE /\ OpAt(t, "body", "start")
           /\ node' = [node EXCEPT ![t].state = "RUNNING"]
           /\ Goto(t, Idle) /\ UNCHANGED <<saved, initDone>>
  <2>1. /\ node' \in [Kids -> [state : States \cup HeapStates, ret : Values \cup {Null, Garbage},
                               stack : {"none", "mapped", "unmapped"}, frees : Nat]]
        /\ StacksStay
    <3>1. ASSUME NEW j \in Kids
          PROVE  /\ node'[j] \in [state : States \cup HeapStates, ret : Values \cup {Null, Garbage},
                                  stack : {"none", "mapped", "unmapped"}, frees : Nat]
                 /\ node'[j].stack = node[j].stack
      BY <1>1, <1>6, ZenonT(40) DEF TypeOK, States
    <3>2. node' = [j \in Kids |-> node'[j]]
      BY <1>1, <1>6 DEF TypeOK
    <3>3. QED
      BY <3>1, <3>2 DEF StacksStay
  <2>2. Idle \in Frames /\ Idle.op = "none" /\ Idle.at = "idle" /\ Idle.at \notin Section
    BY FrameTypes DEF Section
  <2>3. TypeOK'
    BY <1>1, <1>6, <2>1, <2>2, GotoKeeps DEF TypeOK
  <2>4. saved[t] = NoFrame
    BY <1>6, NotHandling DEF OpAt
  <2>5. ~ Creates(Idle) /\ Proper(t, Idle)
    BY <2>2 DEF Creates, Proper, Fits
  <2>6. QED
    BY <1>1, <1>6, <2>1, <2>2, <2>3, <2>4, <2>5, GotoStep
<1>7. QED
  BY <1>3, <1>4, <1>5, <1>6 DEF thread_create

(* The history of a call of thread_exit.                                    *)
LEMMA PassesKeeps ==
  ASSUME passed \in [Kids -> SUBSET (Values \cup {Null})], NEW t, NEW v \in Values \cup {Null},
         Passes(t, v)
  PROVE  /\ passed' \in [Kids -> SUBSET (Values \cup {Null})]
         /\ \A k \in Kids : passed[k] \subseteq passed'[k]
         /\ t \in Kids => v \in passed'[t]
BY DEF Passes

(* A call of an operation that begins with the table's lock.                *)
LEMMA LockingStep ==
  ASSUME IInv, NEW t \in Threads, Runs(t), frame[t].op # "exit",
         NEW op \in Ops \ {"create", "init"}, NEW k \in Kids, op \in {"exit", "return"} => k = t, NEW v \in Values \cup {Null},
         Goto(t, Locking(op, k, v)), node' = node, saved' = saved, lock' = lock, list' = list,
         pending' = pending, initDone' = initDone, fate' = fate,
         calls' \in [joins : 0 .. MaxJoins, kills : 0 .. MaxKills],
         passed' \in [Kids -> SUBSET (Values \cup {Null})],
         got' \subseteq (Kids \X (Values \cup {Null, Garbage}))
  PROVE  IInv'
<1>1. TypeOK /\ frame \in [Threads -> Frames] /\ k \in Threads /\ op \in Ops
  BY DEF IInv, TypeInv, TypeOK, Threads
<1>2. PICK f \in Frames : /\ f = Locking(op, k, v)
                          /\ f.op = op /\ f.at = "acq" /\ f.k = k
  BY <1>1, FrameTypes
<1>3. Goto(t, f) /\ StacksStay /\ f.at \notin Section /\ ~ Creates(f) /\ Proper(t, f)
  BY <1>2 DEF StacksStay, Section, Creates, Proper, Fits
<1>4. TypeOK'
  BY <1>1, <1>3, GotoKeeps DEF TypeOK
<1>5. saved[t] = NoFrame
  BY NotHandling
<1>6. QED
  BY <1>2, <1>3, <1>4, <1>5, GotoStep

(* A routine ends.                                                          *)
LEMMA CallExitStep == ASSUME IInv, NEW t \in Threads, CallExit(t) PROVE IInv'
<1>1. /\ TypeOK /\ t \in Kids /\ Runs(t) /\ frame[t].op # "exit"
      /\ UNCHANGED <<list, lock, node, saved, pending, initDone, fate, calls, got>>
  BY DEF IInv, TypeInv, CallExit, OpAt, At
<1>2. CASE \E v \in Values : Goto(t, Locking("exit", t, v)) /\ Passes(t, v)
  <2>1. PICK v \in Values : Goto(t, Locking("exit", t, v)) /\ Passes(t, v)
    BY <1>2
  <2>2. passed' \in [Kids -> SUBSET (Values \cup {Null})]
    BY <1>1, <2>1, PassesKeeps DEF TypeOK
  <2>3. QED
    BY <1>1, <2>1, <2>2, LockingStep DEF TypeOK, Ops
<1>3. CASE Goto(t, Locking("return", t, Null)) /\ Passes(t, Null)
  <2>1. passed' \in [Kids -> SUBSET (Values \cup {Null})]
    BY <1>1, <1>3, PassesKeeps DEF TypeOK
  <2>2. QED
    BY <1>1, <1>3, <2>1, LockingStep DEF TypeOK, Ops
<1>4. QED
  BY <1>2, <1>3 DEF CallExit

Nodes ==
  [Kids -> [state : States \cup HeapStates, ret : Values \cup {Null, Garbage},
            stack : {"none", "mapped", "unmapped"}, frees : Nat]]

(* A field other than the stack is written, possibly of nobody's node.      *)
LEMMA NodeStep ==
  ASSUME node \in Nodes, NEW k, NEW r \in Values \cup {Null},
         \/ node' = [node EXCEPT ![k].ret = r]
         \/ node' = [node EXCEPT ![k].state = "TERMINATED"]
         \/ node' = [node EXCEPT ![k].state = "RUNNING"]
         \/ node' = [node EXCEPT ![k].frees = @ + 1]
         \/ node' = [node EXCEPT ![k].stack = "unmapped"]
         \/ node' = node
  PROVE  node' \in Nodes /\ StacksStay
<1>1. node' = [j \in Kids |-> node'[j]]
  BY DEF Nodes
<1>2. ASSUME NEW j \in Kids
      PROVE  /\ node'[j] \in [state : States \cup HeapStates, ret : Values \cup {Null, Garbage},
                              stack : {"none", "mapped", "unmapped"}, frees : Nat]
             /\ node[j].stack # "none" => node'[j].stack # "none"
  <2>1. node[j] \in [state : States \cup HeapStates, ret : Values \cup {Null, Garbage},
                     stack : {"none", "mapped", "unmapped"}, frees : Nat]
    BY DEF Nodes
  <2>2. node'[j] = node[j] \/ node'[j] = [node[j] EXCEPT !.ret = r]
        \/ node'[j] = [node[j] EXCEPT !.state = "TERMINATED"]
        \/ node'[j] = [node[j] EXCEPT !.state = "RUNNING"]
        \/ node'[j] = [node[j] EXCEPT !.frees = node[j].frees + 1]
        \/ node'[j] = [node[j] EXCEPT !.stack = "unmapped"]
    BY DEF Nodes
  <2>3. QED
    BY <2>1, <2>2 DEF States
<1>3. QED
  BY <1>1, <1>2 DEF Nodes, StacksStay

(* A step from one place of t's operation to the next, with the lock left.  *)
LEMMA AtFreeStep ==
  ASSUME IInv, NEW t \in Threads, NEW at \in Ats \ Section, GoAt(t, at), Runs(t),
         Fits(frame[t], at), node' \in Nodes, StacksStay, saved' = saved, lock' = lock, list' = list,
         pending' \subseteq Kids, initDone' = initDone, fate' \in {"running", "exit0", "exit1", "segv"},
         calls' = calls, passed' \in [Kids -> SUBSET (Values \cup {Null})],
         got' \subseteq (Kids \X (Values \cup {Null, Garbage}))
  PROVE  IInv'
<1>1. TypeOK /\ frame \in [Threads -> Frames]
  BY DEF IInv, TypeInv, TypeOK
<1>2. TypeOK'
  BY <1>1, GoAtKeeps DEF TypeOK, Nodes
<1>3. saved[t].at \in Section => lock'.owner = t
  BY DEF IInv, SectionOwned, Activations, Section
<1>4. QED
  BY <1>2, <1>3, AtStep

(* The steps of thread_exit.                                                *)
LEMMA ThreadExitStep == ASSUME IInv, NEW t \in Threads, thread_exit(t) PROVE IInv'
<1> DEFINE f == frame[t]
<1>1. /\ TypeOK /\ frame \in [Threads -> Frames] /\ saved \in [Threads -> Frames] /\ f \in Frames
      /\ node \in Nodes /\ Runs(t)
      /\ pending' \subseteq Kids
      /\ passed' \in [Kids -> SUBSET (Values \cup {Null})]
      /\ UNCHANGED <<list, lock, initDone, fate, calls, got>>
  <2>1. pending' = pending \/ pending' = pending \ {t}
    BY DEF thread_exit
  <2>2. Runs(t)
    BY DEF thread_exit, At
  <2>3. passed' = passed \/ Passes(t, Null)
    BY DEF thread_exit
  <2>4. passed' \in [Kids -> SUBSET (Values \cup {Null})]
    BY <2>3, PassesKeeps DEF IInv, TypeInv, TypeOK
  <2>5. QED
    BY <2>1, <2>2, <2>4 DEF IInv, TypeInv, TypeOK, thread_exit, Nodes
<1>2. CASE /\ At(t, "found") /\ f.op \in {"exit", "return"} /\ f.where = "absent"
           /\ \/ saved[t] # NoFrame /\ Returns(t)
              \/ /\ saved[t] = NoFrame /\ f.op = "exit"
                 /\ Goto(t, Locking("return", t, Null)) /\ UNCHANGED saved
              \/ /\ saved[t] = NoFrame /\ f.op = "return"
                 /\ Goto(t, [f EXCEPT !.at = "dead"]) /\ UNCHANGED saved
           /\ UNCHANGED node
  <2>1. StacksStay
    BY <1>2 DEF StacksStay
  <2>2. CASE saved[t] # NoFrame
    <3>1. Returns(t)
      BY <1>2, <2>2
    <3>2. TypeOK'
      BY <1>1, <1>2, <3>1, ReturnsKeeps DEF TypeOK
    <3>3. QED
      BY <1>1, <2>1, <3>1, <3>2, ReturnStep
  <2>3. CASE saved[t] = NoFrame /\ f.op = "exit"
    <3>1. PICK g \in Frames : /\ g = Locking("return", t, Null)
                              /\ g.op = "return" /\ g.at = "acq" /\ g.k = t
      <4>1. "return" \in Ops
        BY DEF Ops
      <4>2. QED
        BY <4>1, FrameTypes
    <3>2. t \in Kids
      BY <1>2, <2>3 DEF IInv, TypeInv, Args, Proper, Fits, Activations
    <3>3. Goto(t, g) /\ saved' = saved /\ g.at \notin Section /\ ~ Creates(g) /\ Proper(t, g)
      BY <1>2, <2>3, <3>1, <3>2 DEF Section, Creates, Proper, Fits
    <3>4. TypeOK'
      BY <1>1, <1>2, <3>3, GotoKeeps DEF TypeOK
    <3>5. QED
      BY <1>1, <2>1, <2>3, <3>3, <3>4, GotoStep
  <2>4. CASE saved[t] = NoFrame /\ f.op # "exit"
    <3>1. GoAt(t, "dead") /\ saved' = saved
      BY <1>1, <1>2, <2>4 DEF Goto, GoAt
    <3>2. "dead" \in Ats \ Section
      BY DEF Ats, Section
    <3>3. QED
      BY <1>1, <1>2, <2>1, <3>1, <3>2, AtFreeStep DEF TypeOK, Fits
  <2>5. QED
    BY <2>2, <2>3, <2>4
<1>3. CASE /\ At(t, "found") /\ f.op \in {"exit", "return"} /\ f.where # "absent"
           /\ GoAt(t, "store1") /\ UNCHANGED <<node, saved>>
  <2>1. StacksStay /\ "store1" \in Ats \ Section
    BY <1>3 DEF StacksStay, Ats, Section
  <2>2. QED
    BY <1>1, <1>3, <2>1, AtFreeStep DEF TypeOK, Fits
<1>4. CASE At(t, "store1") /\ node' = Stores(t, 1) /\ GoAt(t, "store2") /\ UNCHANGED saved
  <2>1. f.v \in Values \cup {Null}
    BY <1>1 DEF Frames
  <2>2. node' = [node EXCEPT ![t].ret = f.v]
    BY <1>4 DEF Stores, RetVal
  <2>3. node' \in Nodes /\ StacksStay
    BY <1>1, <2>1, <2>2, NodeStep
  <2>4. "store2" \in Ats \ Section
    BY DEF Ats, Section
  <2>5. f.op \in {"exit", "return"} /\ f.where # "absent"
    BY <1>4 DEF IInv, TypeInv, Args, Proper, Fits, Activations, At
  <2>6. QED
    BY <1>1, <1>4, <2>3, <2>4, <2>5, AtFreeStep DEF TypeOK, Fits
<1>5. CASE At(t, "store2") /\ node' = Stores(t, 2) /\ GoAt(t, "sysexit") /\ UNCHANGED saved
  <2>1. node' = [node EXCEPT ![t].state = "TERMINATED"]
    BY <1>5 DEF Stores
  <2>2. node' \in Nodes /\ StacksStay
    BY <1>1, <2>1, NodeStep
  <2>3. "sysexit" \in Ats \ Section
    BY DEF Ats, Section
  <2>4. f.op \in {"exit", "return"} /\ f.where # "absent"
    BY <1>5 DEF IInv, TypeInv, Args, Proper, Fits, Activations, At
  <2>5. QED
    BY <1>1, <1>5, <2>2, <2>3, <2>4, AtFreeStep DEF TypeOK, Fits
<1>6. CASE /\ At(t, "sysexit") /\ GoAt(t, "dead")
           /\ saved' = [saved EXCEPT ![t] = NoFrame] /\ UNCHANGED node
  <2>1. /\ frame' \in [Threads -> Frames] /\ \A u \in Threads \ {t} : frame'[u] = frame[u]
        /\ frame'[t].at = "dead" /\ frame'[t].op = f.op /\ frame'[t].k = f.k
    BY <1>1, <1>6, GoAtKeeps DEF Ats
  <2>2. /\ saved' \in [Threads -> Frames] /\ \A u \in Threads \ {t} : saved'[u] = saved[u]
        /\ saved'[t] = NoFrame /\ NoFrame.op = "none" /\ NoFrame.at = "unborn"
        /\ NoFrame.at \notin Section
    BY <1>1, <1>6, FrameTypes DEF Section
  <2>3. TypeOK' /\ StacksStay
    BY <1>1, <1>6, <2>1, <2>2 DEF TypeOK, StacksStay
  <2>4. \A g \in {frame'[t], saved'[t]} : Proper(t, g)
    BY <2>1, <2>2 DEF IInv, TypeInv, Args, Proper, Fits, Activations
  <2>5. \A g \in {frame'[t], saved'[t]} : Creates(g) => \E h \in Activations(t) : Creates(h) /\ h.k = g.k
    BY <2>1, <2>2 DEF Activations, Creates
  <2>6. frame[t] # NoFrame
    BY <1>1, Born DEF Runs, Alive
  <2>7. \A g \in {frame'[t], saved'[t]} : g.at \notin Section
    BY <2>1, <2>2 DEF Section
  <2>8. QED
    BY <1>1, <2>1, <2>2, <2>3, <2>4, <2>5, <2>6, <2>7, OwnStep
<1>7. QED
  BY <1>2, <1>3, <1>4, <1>5, <1>6 DEF thread_exit

(* A fault ends the process and changes nothing else.                       *)
LEMMA SegvStep == ASSUME IInv, NEW t \in Threads, Segv(t) PROVE IInv'
<1>1. /\ TypeOK /\ fate' = "segv"
      /\ UNCHANGED <<list, lock, node, frame, saved, pending, initDone, calls, passed, got>>
  BY DEF IInv, TypeInv, Segv, history
<1>2. TypeOK'
  BY <1>1 DEF TypeOK
<1>3. QED
  BY <1>1, <1>2, SameStep

(* A call of thread_join.                                                   *)
LEMMA CallJoinStep ==
  ASSUME IInv, NEW t \in Threads, NEW k \in Kids, CallJoin(t, k) PROVE IInv'
<1>1. /\ TypeOK /\ Runs(t) /\ frame[t].op # "exit"
      /\ Goto(t, Locking("join", k, Null))
      /\ UNCHANGED <<list, lock, node, saved, pending, initDone, fate, passed, got>>
  BY DEF IInv, TypeInv, CallJoin, OpAt, At, history
<1>2. calls' \in [joins : 0 .. MaxJoins, kills : 0 .. MaxKills]
  <2>1. /\ calls' = [calls EXCEPT !.joins = @ + 1] /\ calls.joins < MaxJoins
        /\ calls \in [joins : 0 .. MaxJoins, kills : 0 .. MaxKills]
    BY <1>1 DEF CallJoin, TypeOK
  <2>2. QED
    BY <2>1, OneOneAssumption
<1>3. QED
  BY <1>1, <1>2, LockingStep DEF TypeOK, Ops

(* The steps of thread_join.                                                *)
LEMMA ThreadJoinStep == ASSUME IInv, NEW t \in Threads, thread_join(t) PROVE IInv'
<1> DEFINE k == frame[t].k
<1>1. /\ TypeOK /\ frame \in [Threads -> Frames] /\ saved \in [Threads -> Frames]
      /\ node \in Nodes /\ node' = node /\ StacksStay /\ Runs(t)
      /\ frame[t].op = "join" /\ k \in Kids
      /\ UNCHANGED <<list, lock, pending, initDone, fate, calls, passed>>
  <2>1. Runs(t) /\ frame[t].op = "join"
    BY DEF thread_join, OpAt, At
  <2>2. k \in Kids
    BY <2>1 DEF IInv, TypeInv, Args, Proper, Fits, Activations
  <2>3. QED
    BY <2>1, <2>2 DEF IInv, TypeInv, TypeOK, thread_join, Nodes, StacksStay
<1>2. CASE Returns(t) /\ UNCHANGED got
  <2>1. TypeOK'
    BY <1>1, <1>2, ReturnsKeeps DEF TypeOK
  <2>2. QED
    BY <1>1, <1>2, <2>1, ReturnStep
<1>3. CASE GoAt(t, "wait") /\ UNCHANGED <<saved, got>>
  <2>1. "wait" \in Ats \ Section
    BY DEF Ats, Section
  <2>2. QED
    BY <1>1, <1>3, <2>1, AtFreeStep DEF TypeOK, Fits
<1>4. CASE GoAt(t, "read") /\ UNCHANGED <<saved, got>>
  <2>1. "read" \in Ats \ Section
    BY DEF Ats, Section
  <2>2. QED
    BY <1>1, <1>4, <2>1, AtFreeStep DEF TypeOK, Fits
<1>5. CASE /\ got' = got \cup {<<k, node[k].ret>>}
           /\ Goto(t, Locking("clean", k, Null)) /\ UNCHANGED saved
  <2>1. node[k].ret \in Values \cup {Null, Garbage}
    BY <1>1 DEF Nodes
  <2>2. got' \subseteq (Kids \X (Values \cup {Null, Garbage}))
    BY <1>1, <1>5, <2>1 DEF TypeOK
  <2>3. "clean" \in Ops \ {"create", "init"} /\ Null \in Values \cup {Null}
    BY DEF Ops
  <2> HIDE DEF k
  <2>4. QED
    BY <1>1, <1>5, <2>2, <2>3, LockingStep DEF TypeOK
<1>6. QED
  BY <1>2, <1>3, <1>4, <1>5 DEF thread_join

(* The frame of main in cleanupAll.                                         *)
LEMMA AllFrame ==
  \E f \in Frames : /\ f = [Idle EXCEPT !.op = "all", !.at = "test"]
                    /\ f.op = "all" /\ f.at = "test"
<1>1. PICK f : f = [Idle EXCEPT !.op = "all", !.at = "test"]
  OBVIOUS
<1>2. f \in Frames /\ f.op = "all" /\ f.at = "test"
  BY <1>1, BodyFrame DEF Ops, Ats
<1>3. QED
  BY <1>1, <1>2

(* To the test of cleanupAll's loop.                                        *)
LEMMA TestStep ==
  ASSUME IInv, NEW t \in Threads, Runs(t), frame[t].op # "exit",
         Goto(t, [Idle EXCEPT !.op = "all", !.at = "test"]), node' \in Nodes, StacksStay,
         UNCHANGED <<saved, lock, list, pending, initDone, fate, calls, passed, got>>
  PROVE  IInv'
<1>1. TypeOK /\ frame \in [Threads -> Frames]
  BY DEF IInv, TypeInv, TypeOK
<1>2. PICK f \in Frames : /\ f = [Idle EXCEPT !.op = "all", !.at = "test"]
                          /\ f.op = "all" /\ f.at = "test"
  BY AllFrame
<1>3. Goto(t, f) /\ f.at \notin Section /\ ~ Creates(f) /\ Proper(t, f)
  BY <1>2 DEF Section, Creates, Proper, Fits
<1>4. TypeOK'
  BY <1>1, <1>3, GotoKeeps DEF TypeOK, Nodes
<1>5. saved[t] = NoFrame
  BY NotHandling
<1>6. QED
  BY <1>3, <1>4, <1>5, GotoStep

(* The steps of cleanup.                                                    *)
LEMMA CleanupStep == ASSUME IInv, NEW t \in Threads, cleanup(t) PROVE IInv'
<1> DEFINE f == frame[t]
<1>1. /\ TypeOK /\ frame \in [Threads -> Frames] /\ saved \in [Threads -> Frames]
      /\ node \in Nodes /\ Runs(t)
      /\ UNCHANGED <<list, lock, pending, initDone, fate, calls, passed, got>>
  BY DEF IInv, TypeInv, TypeOK, cleanup, history, At, Nodes
<1>2. ASSUME CleanReturns(t), f.op \in {"clean", "cleanall"}, node' \in Nodes, StacksStay PROVE IInv'
  <2>1. CASE f.op = "clean"
    <3>1. Returns(t)
      BY <1>2, <2>1 DEF CleanReturns
    <3>2. TypeOK'
      BY <1>1, <1>2, <3>1, ReturnsKeeps DEF TypeOK, Nodes
    <3>3. QED
      BY <1>1, <1>2, <3>1, <3>2, ReturnStep
  <2>2. CASE f.op # "clean"
    BY <1>1, <1>2, <2>2, TestStep DEF CleanReturns
  <2>3. QED
    BY <2>1, <2>2
<1>3. CASE /\ At(t, "found") /\ f.op \in {"clean", "cleanall"} /\ ~Found(t)
           /\ CleanReturns(t) /\ UNCHANGED node
  BY <1>1, <1>2, <1>3 DEF StacksStay
<1>4. CASE /\ f.op \in {"clean", "cleanall"} /\ Found(t) /\ GoAt(t, "munmap")
           /\ UNCHANGED <<node, saved>>
  <2>1. "munmap" \in Ats \ Section /\ StacksStay /\ f.where # "absent"
    BY <1>4 DEF Ats, Section, StacksStay, Found
  <2>2. QED
    BY <1>1, <1>4, <2>1, AtFreeStep DEF TypeOK, Fits
<1>5. CASE /\ At(t, "munmap")
           /\ node' = IF f.where = "inner" THEN [node EXCEPT ![f.k].stack = "unmapped"] ELSE node
           /\ GoAt(t, "free") /\ UNCHANGED saved
  <2>1. "free" \in Ats \ Section
    BY DEF Ats, Section
  <2>2. node' = [node EXCEPT ![f.k].stack = "unmapped"] \/ node' = node
    BY <1>5
  <2>3. node' \in Nodes /\ StacksStay
    BY <1>1, <2>2, NodeStep
  <2>4. f.op \in {"clean", "cleanall"} /\ f.where # "absent"
    BY <1>5 DEF IInv, TypeInv, Args, Proper, Fits, Activations, At
  <2>5. QED
    BY <1>1, <1>5, <2>1, <2>3, <2>4, AtFreeStep DEF TypeOK, Fits
<1>6. CASE /\ At(t, "free") /\ node' = [node EXCEPT ![f.k].frees = @ + 1] /\ CleanReturns(t)
  <2>1. node' \in Nodes /\ StacksStay
    BY <1>1, <1>6, NodeStep
  <2>2. f.op \in {"clean", "cleanall"}
    BY <1>6 DEF IInv, TypeInv, Args, Proper, Fits, Activations, At
  <2>3. QED
    BY <1>2, <1>6, <2>1, <2>2
<1>7. QED
  BY <1>3, <1>4, <1>5, <1>6 DEF cleanup

(* A call of thread_kill moves nobody.                                      *)
LEMMA CallKillStep ==
  ASSUME IInv, NEW t \in Threads, NEW k \in Kids, CallKill(t, k) PROVE IInv'
<1>1. /\ TypeOK /\ pending' = pending \cup {k} /\ calls' = [calls EXCEPT !.kills = @ + 1]
      /\ calls.kills < MaxKills
      /\ UNCHANGED <<list, lock, node, frame, saved, initDone, fate, passed, got>>
  BY DEF IInv, TypeInv, CallKill, history
<1>2. calls' \in [joins : 0 .. MaxJoins, kills : 0 .. MaxKills]
  <2>1. calls \in [joins : 0 .. MaxJoins, kills : 0 .. MaxKills]
    BY <1>1 DEF TypeOK
  <2>2. QED
    BY <1>1, <2>1, OneOneAssumption
<1>3. TypeOK'
  BY <1>1, <1>2 DEF TypeOK
<1>4. QED
  BY <1>1, <1>3, SameStep

(* The handler's frame is put on top of the one it interrupts.              *)
LEMMA HandlerStep == ASSUME IInv, NEW t \in Threads, sigusr_signal_handler(t) PROVE IInv'
<1>1. /\ TypeOK /\ frame \in [Threads -> Frames] /\ saved \in [Threads -> Frames]
      /\ Runs(t) /\ saved[t] = NoFrame /\ pending' \subseteq Kids /\ t \in Kids
      /\ saved' = [saved EXCEPT ![t] = frame[t]]
      /\ Goto(t, Locking("exit", t, Null))
      /\ passed' \in [Kids -> SUBSET (Values \cup {Null})]
      /\ UNCHANGED <<list, lock, node, initDone, fate, calls, got>>
  <2>1. passed' \in [Kids -> SUBSET (Values \cup {Null})]
    BY PassesKeeps DEF IInv, TypeInv, TypeOK, sigusr_signal_handler
  <2>2. QED
    BY <2>1 DEF IInv, TypeInv, TypeOK, sigusr_signal_handler
<1>2. PICK f \in Frames : /\ f = Locking("exit", t, Null)
                          /\ f.op = "exit" /\ f.at = "acq" /\ f.k = t
  <2>1. "exit" \in Ops
    BY DEF Ops
  <2>2. QED
    BY <2>1, FrameTypes
<1>3. /\ frame' \in [Threads -> Frames] /\ \A u \in Threads \ {t} : frame'[u] = frame[u]
      /\ frame'[t] = f
  BY <1>1, <1>2, GotoKeeps
<1>4. /\ saved' \in [Threads -> Frames] /\ \A u \in Threads \ {t} : saved'[u] = saved[u]
      /\ saved'[t] = frame[t]
  BY <1>1
<1>5. TypeOK' /\ StacksStay
  BY <1>1, <1>3, <1>4 DEF TypeOK, StacksStay
<1>6. frame[t] # NoFrame
  BY <1>1, Born DEF Runs, Alive
<1>7. \A g \in {frame'[t], saved'[t]} : Proper(t, g)
  BY <1>1, <1>2, <1>3, <1>4 DEF IInv, TypeInv, Args, Proper, Fits, Activations
<1>8. \A g \in {frame'[t], saved'[t]} : g.at \in Section => lock'.owner = t
  BY <1>1, <1>2, <1>3, <1>4 DEF IInv, SectionOwned, Activations, Section
<1>9. \A g \in {frame'[t], saved'[t]} : Creates(g) => \E h \in Activations(t) : Creates(h) /\ h.k = g.k
  BY <1>2, <1>3, <1>4 DEF Activations, Creates
<1>10. frame'[t].op = "exit" /\ frame'[t].at \notin Section
  BY <1>2, <1>3 DEF Section
<1>11. QED
  BY <1>1, <1>3, <1>4, <1>5, <1>6, <1>7, <1>8, <1>9, <1>10, OwnStep

(* main returns.                                                            *)
LEMMA CallMainExitStep == ASSUME IInv, CallMainExit PROVE IInv'
<1>1. /\ Main \in Threads /\ Runs(Main) /\ frame[Main].op # "exit"
      /\ node' \in Nodes /\ StacksStay
  BY DEF Threads, IInv, TypeInv, TypeOK, CallMainExit, OpAt, At, Nodes, StacksStay
<1>2. QED
  BY <1>1, TestStep DEF CallMainExit, history

(* The loop of cleanupAll.                                                  *)
LEMMA CleanupAllStep == ASSUME IInv, cleanupAll PROVE IInv'
<1>1. /\ TypeOK /\ Main \in Threads /\ Runs(Main) /\ frame[Main].op = "all"
      /\ node \in Nodes /\ StacksStay /\ list \in Seq(Kids)
      /\ UNCHANGED <<list, lock, node, saved, pending, initDone, calls, passed, got>>
  BY DEF Threads, IInv, TypeInv, TypeOK, cleanupAll, history, OpAt, At, Nodes, StacksStay
<1>2. CASE fate' \in {"exit0", "segv"} /\ UNCHANGED frame
  <2>1. TypeOK'
    BY <1>1, <1>2 DEF TypeOK
  <2>2. QED
    BY <1>1, <1>2, <2>1, SameStep
<1>3. CASE GoAt(Main, "head") /\ UNCHANGED fate
  <2>1. "head" \in Ats \ Section
    BY DEF Ats, Section
  <2>2. QED
    BY <1>1, <1>3, <2>1, AtFreeStep DEF TypeOK, Fits
<1>4. CASE list # <<>> /\ Goto(Main, Locking("cleanall", Head(list), Null)) /\ UNCHANGED fate
  <2>1. Head(list) \in Kids
    BY <1>1, <1>4
  <2>2. "cleanall" \in Ops \ {"create", "init"} /\ Null \in Values \cup {Null}
    BY DEF Ops
  <2>3. QED
    BY <1>1, <1>4, <2>1, <2>2, LockingStep DEF TypeOK
<1>5. QED
  BY <1>2, <1>3, <1>4 DEF cleanupAll

-----------------------------------------------------------------------------
(* The invariant holds initially.                                           *)
LEMMA InitInv == Init => IInv
<1> SUFFICES ASSUME Init PROVE IInv
  OBVIOUS
<1>1. /\ NoFrame \in Frames /\ NoFrame.op = "none" /\ NoFrame.at = "unborn"
      /\ Idle \in Frames /\ Idle.op = "none" /\ Idle.at = "idle"
  BY FrameTypes
<1>2. \A t \in Threads : /\ frame[t] = Idle \/ frame[t] = NoFrame
                         /\ saved[t] = NoFrame
  BY DEF Init
<1>3. TypeOK
  <2>1. node \in [Kids -> [state : States \cup HeapStates, ret : Values \cup {Null, Garbage},
                           stack : {"none", "mapped", "unmapped"}, frees : Nat]]
    BY DEF Init
  <2>2. frame \in [Threads -> Frames] /\ saved \in [Threads -> Frames]
    BY <1>1 DEF Init
  <2>3. /\ list \in Seq(Kids) /\ lock \in [owner : Threads \cup {NoTid}, named : BOOLEAN]
        /\ pending \subseteq Kids /\ initDone \in BOOLEAN
        /\ fate \in {"running", "exit0", "exit1", "segv"}
        /\ passed \in [Kids -> SUBSET (Values \cup {Null})]
        /\ got \subseteq (Kids \X (Values \cup {Null, Garbage}))
    <3>1. list \in Seq(Kids) /\ lock \in [owner : Threads \cup {NoTid}, named : BOOLEAN]
      BY DEF Init
    <3>2. passed \in [Kids -> SUBSET (Values \cup {Null})] /\ initDone \in BOOLEAN
      BY DEF Init
    <3>3. /\ pending \subseteq Kids /\ fate \in {"running", "exit0", "exit1", "segv"}
          /\ got \subseteq (Kids \X (Values \cup {Null, Garbage}))
      BY DEF Init
    <3>4. QED
      BY <3>1, <3>2, <3>3
  <2>4. calls \in [joins : 0 .. MaxJoins, kills : 0 .. MaxKills]
    BY OneOneAssumption DEF Init
  <2>5. QED
    BY <2>1, <2>2, <2>3, <2>4 DEF TypeOK
<1>4. Args /\ SectionOwned /\ Handling /\ Creation
  BY <1>1, <1>2 DEF Args, Proper, Fits, SectionOwned, Handling, Creation, Creates, Activations, Section
<1>5. QED
  BY <1>3, <1>4 DEF IInv, TypeInv

(* Every step keeps the invariant.                                          *)
LEMMA StepInv == IInv /\ [Next]_vars => IInv'
<1> SUFFICES ASSUME IInv, [Next]_vars PROVE IInv'
  OBVIOUS
<1>1. CASE UNCHANGED vars
  <2>1. UNCHANGED <<list, lock, node, frame, saved, pending, initDone, fate, calls, passed, got>>
    BY <1>1 DEF vars
  <2>2. TypeOK'
    BY <2>1 DEF IInv, TypeInv, TypeOK
  <2>3. QED
    BY <2>1, <2>2, SameStep
<1>2. ASSUME NEW t \in Threads, NEW k \in Kids, CallCreate(t, k) \/ CallJoin(t, k) \/ CallKill(t, k)
      PROVE  IInv'
  BY <1>2, CallCreateStep, CallJoinStep, CallKillStep
<1>3. ASSUME NEW t \in Threads, CallExit(t) PROVE IInv'
  BY <1>3, CallExitStep
<1>4. ASSUME NEW t \in Threads, sigusr_signal_handler(t) PROVE IInv'
  BY <1>4, HandlerStep
<1>5. ASSUME NEW t \in Threads, Library(t) PROVE IInv'
  BY <1>5, AcquireStep, SectionStep, ReleaseStep, ThreadCreateStep, ThreadExitStep,
     ThreadJoinStep, CleanupStep, SegvStep, CleanupAllStep DEF Library
<1>6. CASE CallMainExit
  BY <1>6, CallMainExitStep
<1>7. QED
  BY <1>1, <1>2, <1>3, <1>4, <1>5, <1>6 DEF Next

(* IInv, for any set of threads, any calls and any kills: what the frames   *)
(* of the library in one-one.c are about, who owns the table, who creates   *)
(* whom.                                                                    *)
THEOREM Invariance == Spec => []IInv
<1>1. QED
  BY InitInv, StepInv, PTL DEF Spec

(* Whatever the threads, joins and kills, and whatever malloc left, the     *)
(* table, the nodes and the frames have their types.                        *)
THEOREM TypeCorrect == Spec => []TypeOK
<1>1. IInv => TypeOK
  BY DEF IInv, TypeInv
<1>2. QED
  BY <1>1, Invariance, PTL

(* thread_create, thread_join, thread_exit and cleanup walk and change the  *)
(* table only while they own its lock, a SIGUSR1 handler that calls         *)
(* thread_exit on top of them included.                                     *)
THEOREM TableOwned == Spec => []SectionOwned
<1>1. IInv => SectionOwned
  BY DEF IInv
<1>2. QED
  BY <1>1, Invariance, PTL

-----------------------------------------------------------------------------
(***************************************************************************)
(* A join goes on after the last store of the thread it waits for.         *)
(***************************************************************************)
Done == {"sysexit", "dead"}

Waited(f) == f.op = "clean" \/ (f.op = "join" /\ f.at = "read")

(* What every step does: a thread that is done stays so, a join goes past   *)
(* its wait only if the state says so, and only its last store sets it.     *)
Honest ==
  /\ \A u \in Threads : Finished(u) => Finished(u)'
  /\ \A u \in Threads : \A f \in Activations(u)' : Waited(f) =>
       (\E g \in Activations(u) : Waited(g) /\ g.k = f.k) \/ node[f.k].state = "TERMINATED"
  /\ \A k \in Kids : node'[k].state = "TERMINATED" =>
       node[k].state = "TERMINATED" \/ frame'[k].at = "sysexit"

(* Honest steps keep the invariant of joins.                                *)
LEMMA HonestKeeps == ASSUME JInv, IInv', Honest PROVE JInv'
<1>1. Ends'
  BY DEF JInv, Ends, Honest, Finished, Activations, Threads
<1>2. JoinMeansDone'
  <2> SUFFICES ASSUME NEW t \in Threads, NEW f \in Activations(t)', Waited(f)
               PROVE  Finished(f.k)'
    BY DEF JoinMeansDone, Waited
  <2>1. f.k \in Kids /\ f.k \in Threads
    BY DEF IInv, TypeInv, Args, Proper, Fits, Waited, Threads
  <2>2. (\E g \in Activations(t) : Waited(g) /\ g.k = f.k) \/ node[f.k].state = "TERMINATED"
    BY DEF Honest
  <2>3. Finished(f.k)
    BY <2>1, <2>2 DEF JInv, Ends, JoinMeansDone, Waited
  <2>4. QED
    BY <2>1, <2>3 DEF Honest
<1>3. QED
  BY <1>1, <1>2 DEF JInv

StatesStay == \A k \in Kids : node'[k].state = "TERMINATED" =>
                node[k].state = "TERMINATED" \/ frame'[k].at = "sysexit"

(* Steps of one thread are honest when this is so of its two frames.        *)
LEMMA HonestOwn ==
  ASSUME NEW t \in Threads, frame[t].at \notin Done, StatesStay,
         \A u \in Threads \ {t} : frame'[u] = frame[u] /\ saved'[u] = saved[u],
         saved'[t] = saved[t] \/ frame'[t] = saved[t],
         \A f \in {frame'[t], saved'[t]} : Waited(f) =>
           (\E g \in Activations(t) : Waited(g) /\ g.k = f.k) \/ node[f.k].state = "TERMINATED"
  PROVE  Honest
BY DEF Honest, StatesStay, Finished, Activations, Done

(* A step inside an operation.                                              *)
LEMMA HonestAt ==
  ASSUME IInv, NEW t \in Threads, NEW at \in Ats, GoAt(t, at), frame[t].at \notin Done,
         saved' = saved, StatesStay, at = "read" => node[frame[t].k].state = "TERMINATED"
  PROVE  Honest
<1>1. /\ \A u \in Threads \ {t} : frame'[u] = frame[u]
      /\ frame'[t].at = at /\ frame'[t].op = frame[t].op /\ frame'[t].k = frame[t].k
  BY GoAtKeeps DEF IInv, TypeInv, TypeOK
<1>2. \A f \in {frame'[t], saved'[t]} : Waited(f) =>
        (\E g \in Activations(t) : Waited(g) /\ g.k = f.k) \/ node[f.k].state = "TERMINATED"
  BY <1>1 DEF Activations, Waited
<1>3. QED
  BY <1>1, <1>2, HonestOwn

(* A step into another frame.                                               *)
LEMMA HonestGoto ==
  ASSUME IInv, NEW t \in Threads, NEW f, Goto(t, f), frame[t].at \notin Done,
         saved' = saved, StatesStay, Waited(f) => Waited(frame[t]) /\ frame[t].k = f.k
  PROVE  Honest
<1>1. frame'[t] = f /\ \A u \in Threads \ {t} : frame'[u] = frame[u]
  BY DEF IInv, TypeInv, TypeOK, Goto
<1>2. \A g \in {frame'[t], saved'[t]} : Waited(g) =>
        (\E h \in Activations(t) : Waited(h) /\ h.k = g.k) \/ node[g.k].state = "TERMINATED"
  BY <1>1 DEF Activations
<1>3. QED
  BY <1>1, <1>2, HonestOwn

(* A return to what was interrupted, or to the program.                     *)
LEMMA HonestReturn ==
  ASSUME IInv, NEW t \in Threads, Returns(t), frame[t].at \notin Done, StatesStay
  PROVE  Honest
<1>1. /\ \A u \in Threads \ {t} : frame'[u] = frame[u] /\ saved'[u] = saved[u]
      /\ saved'[t] = NoFrame
      /\ (frame'[t] = Idle /\ saved[t] = NoFrame) \/ frame'[t] = saved[t]
  BY DEF IInv, TypeInv, TypeOK, Returns, Goto
<1>2. ~ Waited(Idle) /\ ~ Waited(NoFrame)
  BY FrameTypes DEF Waited
<1>3. \A g \in {frame'[t], saved'[t]} : Waited(g) =>
        (\E h \in Activations(t) : Waited(h) /\ h.k = g.k) \/ node[g.k].state = "TERMINATED"
  BY <1>1, <1>2 DEF Activations
<1>4. QED
  BY <1>1, <1>3, HonestOwn

(* A step that moves nobody.                                                *)
LEMMA HonestSame ==
  ASSUME frame' = frame, saved' = saved, node' = node PROVE Honest
BY DEF Honest, Finished, Activations

(* These stores do not end a thread.                                        *)
LEMMA StatesKept ==
  ASSUME node \in Nodes, NEW k, NEW r \in Values \cup {Null},
         \/ node' = [node EXCEPT ![k].ret = r]
         \/ node' = [node EXCEPT ![k].state = "RUNNING"]
         \/ node' = [node EXCEPT ![k].frees = @ + 1]
         \/ node' = [node EXCEPT ![k].stack = "unmapped"]
         \/ node' = [node EXCEPT ![k].stack = "mapped"]
         \/ node' = node
  PROVE  StatesStay
<1> SUFFICES ASSUME NEW j \in Kids, node'[j].state = "TERMINATED"
             PROVE  node[j].state = "TERMINATED"
  BY DEF StatesStay
<1>1. node'[j] = node[j] \/ node'[j] = [node[j] EXCEPT !.ret = r]
      \/ node'[j] = [node[j] EXCEPT !.state = "RUNNING"]
      \/ node'[j] = [node[j] EXCEPT !.frees = node[j].frees + 1]
      \/ node'[j] = [node[j] EXCEPT !.stack = "unmapped"]
      \/ node'[j] = [node[j] EXCEPT !.stack = "mapped"]
  BY DEF Nodes
<1>2. node[j] \in [state : States \cup HeapStates, ret : Values \cup {Null, Garbage},
                   stack : {"none", "mapped", "unmapped"}, frees : Nat]
  BY DEF Nodes
<1>3. QED
  BY <1>1, <1>2

(* acquire, release and the section between them.                           *)
LEMMA HonestLock ==
  ASSUME IInv, NEW t \in Threads, acquire(t) \/ release(t) \/ section(t) PROVE Honest
<1>1. frame[t].at \notin Done /\ StatesStay /\ saved' = saved
      /\ node' = node /\ frame \in [Threads -> Frames]
  BY DEF acquire, release, section, At, Done, StatesStay, IInv, TypeInv, TypeOK
<1>2. {"name", "crit", "unlock", "found"} \subseteq Ats
  BY DEF Ats
<1>3. ASSUME NEW at \in {"name", "crit", "unlock", "found"}, GoAt(t, at) PROVE Honest
  BY <1>1, <1>2, <1>3, HonestAt
<1>4. CASE acquire(t)
  BY <1>1, <1>3, <1>4, HonestSame DEF acquire
<1>5. CASE release(t)
  BY <1>3, <1>5 DEF release
<1>6. CASE section(t)
  <2>1. /\ \A u \in Threads \ {t} : frame'[u] = frame[u]
        /\ frame'[t].op = frame[t].op /\ frame'[t].k = frame[t].k /\ frame'[t].at = "unname"
    BY <1>1, <1>6, SectionFrame
  <2>2. \A f \in {frame'[t], saved'[t]} : Waited(f) => \E g \in Activations(t) : Waited(g) /\ g.k = f.k
    BY <1>1, <2>1 DEF Waited, Activations
  <2>3. QED
    BY <1>1, <2>1, <2>2, HonestOwn
<1>7. QED
  BY <1>4, <1>5, <1>6

(* A call of something that is not a cleanup is honest.                     *)
LEMMA HonestCall ==
  ASSUME IInv, NEW t \in Threads, NEW k \in Threads, NEW v \in Values \cup {Null},
         NEW op \in Ops \ {"clean"},
         Goto(t, Locking(op, k, v)), frame[t].at \notin Done, saved' = saved, StatesStay
  PROVE  Honest
<1>1. ~ Waited(Locking(op, k, v))
  <2>1. Locking(op, k, v).op = op /\ Locking(op, k, v).at = "acq"
    BY FrameTypes
  <2>2. QED
    BY <2>1 DEF Waited
<1>2. QED
  BY <1>1, HonestGoto

(* A created thread is not done: it has not begun.                          *)
LEMMA HonestCreate ==
  ASSUME IInv, NEW t \in Threads, thread_create(t) \/ \E k \in Kids : CallCreate(t, k)
  PROVE  Honest
<1>1. frame[t].at \notin Done /\ node \in Nodes /\ frame \in [Threads -> Frames]
  BY DEF thread_create, CallCreate, OpAt, At, Done, IInv, TypeInv, TypeOK, Nodes
<1>2. ASSUME NEW k \in Threads, Goto(t, [Idle EXCEPT !.op = "create", !.at = "clone", !.k = k]),
             saved' = saved, StatesStay
      PROVE  Honest
  <2>1. PICK f \in Frames : /\ f = [Idle EXCEPT !.op = "create", !.at = "clone", !.k = k]
                            /\ f.op = "create" /\ f.at = "clone" /\ f.k = k
    BY CreateFrame
  <2>2. Goto(t, f) /\ ~ Waited(f)
    BY <1>2, <2>1 DEF Waited
  <2>3. QED
    BY <1>1, <1>2, <2>2, HonestGoto
<1>3. ASSUME NEW k \in Kids, CallCreate(t, k) PROVE Honest
  <2>1. node' = [node EXCEPT ![k].stack = "mapped"] /\ saved' = saved /\ k \in Threads
    BY <1>3 DEF CallCreate, Threads
  <2>2. StatesStay
    BY <1>1, <2>1, StatesKept
  <2>3. CASE initDone
    BY <1>2, <1>3, <2>1, <2>2, <2>3 DEF CallCreate
  <2>4. CASE ~ initDone
    BY <1>1, <1>3, <2>1, <2>2, <2>4, HonestCall DEF CallCreate, Ops
  <2>5. QED
    BY <2>3, <2>4
<1>4. CASE thread_create(t)
  <2> DEFINE k == frame[t].k
  <2>1. frame[t].op \in {"init", "create"} => k \in Kids /\ saved[t] = NoFrame
    BY DEF IInv, TypeInv, Args, Proper, Fits, Activations, Handling
  <2>2. CASE /\ OpAt(t, "init", "found")
             /\ Goto(t, [Idle EXCEPT !.op = "create", !.at = "clone", !.k = k])
             /\ UNCHANGED <<node, saved>>
    <3>1. k \in Threads /\ StatesStay
      BY <2>1, <2>2 DEF OpAt, Threads, StatesStay
    <3>2. QED
      BY <1>2, <2>2, <3>1
  <2>3. CASE /\ OpAt(t, "create", "clone")
             /\ frame' = [frame EXCEPT ![t] = Locking("insert", k, Null),
                                       ![k] = [Idle EXCEPT !.op = "body", !.at = "start"]]
             /\ UNCHANGED <<node, saved, initDone>>
    <3>1. k \in Kids /\ k \in Threads /\ saved[t] = NoFrame /\ frame[t].op = "create"
      BY <2>1, <2>3 DEF OpAt, At, Threads
    <3>2. frame[k] = NoFrame
      BY <3>1 DEF IInv, Creation, Creates, Activations
    <3>3. saved[k] = NoFrame /\ t # k /\ NoFrame.at = "unborn" /\ NoFrame.op = "none"
      BY <3>1, <3>2, NotHandling, FrameTypes
    <3> DEFINE b == [Idle EXCEPT !.op = "body", !.at = "start"]
    <3> DEFINE f == Locking("insert", k, Null)
    <3>4. f.op = "insert" /\ f.k = k /\ f.at = "acq"
      BY <3>1, FrameTypes DEF Ops
    <3>5. b.op = "body" /\ b.at = "start"
      BY BodyFrame DEF Ops, Ats
    <3>6. frame' = [frame EXCEPT ![t] = f, ![k] = b] /\ saved' = saved /\ node' = node
      BY <2>3
    <3> HIDE DEF f, b, k
    <3>7. /\ frame'[t] = f /\ frame'[k] = b
          /\ \A u \in Threads \ {t, k} : frame'[u] = frame[u]
      BY <1>1, <3>1, <3>3, <3>6
    <3>8. \A u \in Threads : Finished(u) => u \notin {t, k}
      BY <1>1, <3>1, <3>2, <3>3 DEF Finished, Activations, Done
    <3>9. \A u \in {t, k} : \A g \in Activations(u)' : ~ Waited(g)
      BY <3>1, <3>3, <3>4, <3>5, <3>6, <3>7 DEF Activations, Waited
    <3>10. \A u \in Threads \ {t, k} : Activations(u)' = Activations(u)
      BY <3>6, <3>7 DEF Activations
    <3>11. \A u \in Threads : Finished(u) => Finished(u)'
      BY <3>8, <3>10 DEF Finished
    <3>12. QED
      BY <3>6, <3>9, <3>10, <3>11 DEF Honest
  <2>4. CASE Returns(t) /\ UNCHANGED node
    BY <1>1, <2>4, HonestReturn DEF StatesStay
  <2>5. CASE node' = [node EXCEPT ![t].state = "RUNNING"] /\ Goto(t, Idle) /\ UNCHANGED saved
    <3>1. StatesStay
      BY <1>1, <2>5, StatesKept
    <3>2. ~ Waited(Idle)
      BY FrameTypes DEF Waited
    <3>3. QED
      BY <1>1, <2>5, <3>1, <3>2, HonestGoto
  <2>6. QED
    BY <1>4, <2>2, <2>3, <2>4, <2>5 DEF thread_create
<1>5. QED
  BY <1>3, <1>4

(* Only the last store of thread_exit sets the state.                       *)
LEMMA HonestExit == ASSUME IInv, NEW t \in Threads, thread_exit(t) PROVE Honest
<1> DEFINE f == frame[t]
<1>1. node \in Nodes /\ frame \in [Threads -> Frames] /\ saved \in [Threads -> Frames]
      /\ f \in Frames
  BY DEF IInv, TypeInv, TypeOK, Nodes
<1>2. CASE /\ At(t, "found") /\ f.op \in {"exit", "return"}
           /\ \/ saved[t] # NoFrame /\ Returns(t)
              \/ /\ saved[t] = NoFrame /\ f.op = "exit"
                 /\ Goto(t, Locking("return", t, Null)) /\ UNCHANGED saved
              \/ /\ saved[t] = NoFrame /\ f.op = "return"
                 /\ Goto(t, [f EXCEPT !.at = "dead"]) /\ UNCHANGED saved
           /\ UNCHANGED node
  <2>1. StatesStay /\ f.at \notin Done
    BY <1>2 DEF StatesStay, At, Done
  <2>2. CASE saved[t] # NoFrame
    BY <1>2, <2>1, <2>2, HonestReturn
  <2>3. CASE saved[t] = NoFrame /\ f.op = "exit"
    BY <1>2, <2>1, <2>3, HonestCall DEF Ops
  <2>4. CASE saved[t] = NoFrame /\ f.op # "exit"
    <3>1. GoAt(t, "dead") /\ saved' = saved /\ "dead" \in Ats
      BY <1>1, <1>2, <2>4 DEF Goto, GoAt, Ats
    <3>2. QED
      BY <2>1, <3>1, HonestAt
  <2>5. QED
    BY <2>2, <2>3, <2>4
<1>3. CASE At(t, "found") /\ GoAt(t, "store1") /\ UNCHANGED <<node, saved>>
  <2>1. StatesStay /\ f.at \notin Done /\ "store1" \in Ats
    BY <1>3 DEF StatesStay, At, Done, Ats
  <2>2. QED
    BY <1>3, <2>1, HonestAt
<1>4. CASE At(t, "store1") /\ node' = Stores(t, 1) /\ GoAt(t, "store2") /\ UNCHANGED saved
  <2>1. node' = [node EXCEPT ![t].ret = f.v] /\ f.v \in Values \cup {Null}
    BY <1>1, <1>4 DEF Stores, RetVal, Frames
  <2>2. StatesStay
    BY <1>1, <2>1, StatesKept
  <2>3. f.at \notin Done /\ "store2" \in Ats
    BY <1>4 DEF At, Done, Ats
  <2>4. QED
    BY <1>4, <2>2, <2>3, HonestAt
<1>5. CASE At(t, "store2") /\ node' = Stores(t, 2) /\ GoAt(t, "sysexit") /\ UNCHANGED saved
  <2>1. frame'[t].at = "sysexit" /\ "sysexit" \in Ats /\ f.at \notin Done
    BY <1>1, <1>5, GoAtKeeps DEF Ats, At, Done
  <2>2. node' = [node EXCEPT ![t].state = "TERMINATED"]
    BY <1>5 DEF Stores
  <2>3. \A k \in Kids \ {t} : node'[k] = node[k]
    BY <1>1, <2>2 DEF Nodes
  <2>4. StatesStay
    BY <2>1, <2>3 DEF StatesStay
  <2>5. QED
    BY <1>5, <2>1, <2>4, HonestAt
<1>6. CASE /\ At(t, "sysexit") /\ GoAt(t, "dead")
           /\ saved' = [saved EXCEPT ![t] = NoFrame] /\ UNCHANGED node
  <2>1. /\ \A u \in Threads \ {t} : frame'[u] = frame[u]
        /\ frame'[t].at = "dead" /\ frame'[t].op = f.op /\ frame'[t].k = f.k
    BY <1>1, <1>6, GoAtKeeps DEF Ats
  <2>2. /\ \A u \in Threads \ {t} : saved'[u] = saved[u]
        /\ saved'[t] = NoFrame /\ NoFrame.op = "none"
    BY <1>1, <1>6, FrameTypes
  <2>3. \A u \in Threads : Finished(u) => Finished(u)'
    BY <2>1, <2>2 DEF Finished, Activations
  <2>4. \A u \in Threads : \A g \in Activations(u)' : Waited(g) =>
          \E h \in Activations(u) : Waited(h) /\ h.k = g.k
    BY <2>1, <2>2 DEF Activations, Waited
  <2>5. node' = node
    BY <1>6
  <2>6. QED
    BY <2>3, <2>4, <2>5 DEF Honest
<1>7. QED
  BY <1>2, <1>3, <1>4, <1>5, <1>6 DEF thread_exit

(* thread_join waits for the state.                                         *)
LEMMA HonestJoin == ASSUME IInv, NEW t \in Threads, thread_join(t) PROVE Honest
<1> DEFINE k == frame[t].k
<1>1. frame[t].at \notin Done /\ StatesStay /\ k \in Threads /\ frame[t].op = "join"
  BY DEF thread_join, OpAt, At, Done, StatesStay, IInv, TypeInv, Args, Proper, Fits, Activations, Threads
<1>2. CASE Returns(t)
  BY <1>1, <1>2, HonestReturn
<1>3. CASE GoAt(t, "wait") /\ UNCHANGED saved
  BY <1>1, <1>3, HonestAt DEF Ats
<1>4. CASE Ended(k) /\ GoAt(t, "read") /\ UNCHANGED saved
  BY <1>1, <1>4, HonestAt DEF Ats, Ended
<1>5. CASE /\ OpAt(t, "join", "read") /\ Goto(t, Locking("clean", k, Null)) /\ UNCHANGED saved
  <2>1. Locking("clean", k, Null).k = k
    BY DEF Locking
  <2>2. Waited(frame[t])
    BY <1>5 DEF Waited, OpAt, At
  <2>3. QED
    BY <1>1, <1>5, <2>1, <2>2, HonestGoto
<1>6. QED
  BY <1>2, <1>3, <1>4, <1>5 DEF thread_join

(* To the test of cleanupAll's loop.                                        *)
LEMMA HonestTest ==
  ASSUME IInv, NEW t \in Threads, Goto(t, [Idle EXCEPT !.op = "all", !.at = "test"]),
         frame[t].at \notin Done, saved' = saved, StatesStay
  PROVE  Honest
<1>1. PICK f \in Frames : /\ f = [Idle EXCEPT !.op = "all", !.at = "test"]
                          /\ f.op = "all" /\ f.at = "test"
  BY AllFrame
<1>2. Goto(t, f) /\ ~ Waited(f)
  BY <1>1 DEF Waited
<1>3. QED
  BY <1>2, HonestGoto

(* cleanup follows a wait that is over.                                     *)
LEMMA HonestCleanup == ASSUME IInv, NEW t \in Threads, cleanup(t) PROVE Honest
<1> DEFINE f == frame[t]
<1>1. f.at \notin Done /\ node \in Nodes
  BY DEF cleanup, At, Done, IInv, TypeInv, TypeOK, Nodes
<1>2. ASSUME CleanReturns(t), StatesStay PROVE Honest
  BY <1>1, <1>2, HonestReturn, HonestTest DEF CleanReturns
<1>3. CASE CleanReturns(t) /\ UNCHANGED node
  BY <1>2, <1>3 DEF StatesStay
<1>4. CASE GoAt(t, "munmap") /\ UNCHANGED <<node, saved>>
  <2>1. StatesStay /\ "munmap" \in Ats
    BY <1>4 DEF StatesStay, Ats
  <2>2. QED
    BY <1>1, <1>4, <2>1, HonestAt
<1>5. CASE /\ node' = IF f.where = "inner" THEN [node EXCEPT ![f.k].stack = "unmapped"] ELSE node
           /\ GoAt(t, "free") /\ UNCHANGED saved
  <2>1. StatesStay
    BY <1>1, <1>5, StatesKept
  <2>2. "free" \in Ats
    BY DEF Ats
  <2>3. QED
    BY <1>1, <1>5, <2>1, <2>2, HonestAt
<1>6. CASE node' = [node EXCEPT ![f.k].frees = @ + 1] /\ CleanReturns(t)
  <2>1. StatesStay
    BY <1>1, <1>6, StatesKept
  <2>2. QED
    BY <1>2, <1>6, <2>1
<1>7. QED
  BY <1>3, <1>4, <1>5, <1>6 DEF cleanup

(* What the handler interrupts is kept below it.                            *)
LEMMA HonestHandler ==
  ASSUME IInv, NEW t \in Threads, sigusr_signal_handler(t) PROVE Honest
<1>1. /\ \A u \in Threads \ {t} : frame'[u] = frame[u] /\ saved'[u] = saved[u]
      /\ saved[t] = NoFrame /\ saved'[t] = frame[t]
      /\ frame'[t] = Locking("exit", t, Null) /\ node' = node
  BY DEF IInv, TypeInv, TypeOK, sigusr_signal_handler, Goto
<1>2. NoFrame.at = "unborn" /\ Locking("exit", t, Null).op = "exit"
  BY FrameTypes DEF Locking
<1>3. \A u \in Threads : Finished(u) => Finished(u)'
  BY <1>1, <1>2 DEF Finished, Activations
<1>4. \A u \in Threads : \A g \in Activations(u)' : Waited(g) =>
        \E h \in Activations(u) : Waited(h) /\ h.k = g.k
  BY <1>1, <1>2 DEF Activations, Waited
<1>5. QED
  BY <1>1, <1>3, <1>4 DEF Honest

(* main returns, and cleanupAll waits for nobody.                           *)
LEMMA HonestMain == ASSUME IInv, CallMainExit \/ cleanupAll PROVE Honest
<1>1. /\ Main \in Threads /\ frame[Main].at \notin Done /\ StatesStay
      /\ node' = node /\ saved' = saved
  BY DEF Threads, CallMainExit, cleanupAll, OpAt, At, Done, StatesStay
<1>2. CASE CallMainExit
  BY <1>1, <1>2, HonestTest DEF CallMainExit
<1>3. CASE UNCHANGED frame
  BY <1>1, <1>3, HonestSame
<1>4. CASE GoAt(Main, "head")
  BY <1>1, <1>4, HonestAt DEF Ats
<1>5. CASE list # <<>> /\ Goto(Main, Locking("cleanall", Head(list), Null))
  <2>1. Head(list) \in Threads
    <3>1. list \in Seq(Kids)
      BY DEF IInv, TypeInv, TypeOK
    <3>2. QED
      BY <1>5, <3>1 DEF Threads
  <2>2. QED
    BY <1>1, <1>5, <2>1, HonestCall DEF Ops
<1>6. QED
  BY <1>2, <1>3, <1>4, <1>5 DEF cleanupAll

(* The calls of the program.                                                *)
LEMMA HonestCalls ==
  ASSUME IInv, NEW t \in Threads, NEW k \in Kids, CallJoin(t, k) \/ CallKill(t, k) \/ CallExit(t)
  PROVE  Honest
<1>1. CASE CallKill(t, k)
  BY <1>1, HonestSame DEF CallKill
<1>2. CASE CallJoin(t, k)
  <2>1. frame[t].at \notin Done /\ StatesStay /\ saved' = saved /\ k \in Threads
    BY <1>2 DEF CallJoin, OpAt, At, Done, StatesStay, Threads
  <2>2. QED
    BY <1>2, <2>1, HonestCall DEF CallJoin, Ops
<1>3. CASE CallExit(t)
  <2>1. frame[t].at \notin Done /\ StatesStay /\ saved' = saved
    BY <1>3 DEF CallExit, OpAt, At, Done, StatesStay
  <2>2. \E v \in Values \cup {Null}, op \in {"exit", "return"} : Goto(t, Locking(op, t, v))
    BY <1>3 DEF CallExit
  <2>3. QED
    BY <2>1, <2>2, HonestCall DEF Ops
<1>4. QED
  BY <1>1, <1>2, <1>3

(* Every step is honest.                                                    *)
LEMMA HonestStep == ASSUME IInv, [Next]_vars PROVE Honest
<1>1. CASE UNCHANGED vars
  BY <1>1, HonestSame DEF vars
<1>2. ASSUME NEW t \in Threads, NEW k \in Kids, CallCreate(t, k) \/ CallJoin(t, k) \/ CallKill(t, k)
      PROVE  Honest
  BY <1>2, HonestCreate, HonestCalls
<1>3. ASSUME NEW t \in Threads, CallExit(t) PROVE Honest
  <2>1. t \in Kids
    BY <1>3 DEF CallExit
  <2>2. QED
    BY <1>3, <2>1, HonestCalls
<1>4. ASSUME NEW t \in Threads, sigusr_signal_handler(t) PROVE Honest
  BY <1>4, HonestHandler
<1>5. ASSUME NEW t \in Threads, Segv(t) PROVE Honest
  BY <1>5, HonestSame DEF Segv
<1>6. ASSUME NEW t \in Threads, Library(t) PROVE Honest
  BY <1>5, <1>6, HonestLock, HonestCreate, HonestExit, HonestJoin, HonestCleanup, HonestMain
     DEF Library
<1>7. CASE CallMainExit
  BY <1>7, HonestMain
<1>8. QED
  BY <1>1, <1>2, <1>3, <1>4, <1>6, <1>7 DEF Next

(* JInv: the states of the nodes are the threads' own answers, when malloc  *)
(* does not happen to leave THREAD_TERMINATED in a new node.                *)
LEMMA JoinInvariance == ASSUME "TERMINATED" \notin HeapStates PROVE Spec => []JInv
<1>1. Init => JInv
  <2> SUFFICES ASSUME Init PROVE JInv
    OBVIOUS
  <2>1. IInv
    BY InitInv
  <2>2. Ends
    BY DEF Init, Ends
  <2>3. \A t \in Threads : \A f \in Activations(t) : f.op = "none"
    BY FrameTypes DEF Init, Activations
  <2>4. JoinMeansDone
    BY <2>3 DEF JoinMeansDone
  <2>5. QED
    BY <2>1, <2>2, <2>4 DEF JInv
<1>2. JInv /\ [Next]_vars => JInv'
  BY StepInv, HonestStep, HonestKeeps DEF JInv
<1>3. QED
  BY <1>1, <1>2, PTL DEF Spec

(* When malloc does not happen to leave THREAD_TERMINATED in a new node,    *)
(* thread_join reads the value and frees the stack only after the thread's  *)
(* last store, whoever joins, kills or creates whom.                        *)
THEOREM JoinAfterEnd ==
  ASSUME "TERMINATED" \notin HeapStates
  PROVE  Spec => []JoinMeansDone
<1>1. JInv => JoinMeansDone
  BY DEF JInv
<1>2. QED
  BY <1>1, JoinInvariance, PTL
=============================================================================
