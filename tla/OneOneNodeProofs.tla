-------------------------- MODULE OneOneNodeProofs --------------------------
(***************************************************************************)
(* Proofs about the nodes of OneOne: where the node of a thread is, from   *)
(* its insertion to the free of what hangs on it, and what thread_join     *)
(* reads in it.                                                            *)
(***************************************************************************)
EXTENDS OneOneProofs, FiniteSetTheorems

(* A frame is past the section of its operation, but not past its end.     *)
Late == {"unname", "unlock", "found", "munmap", "free"}

(* It has taken a node out of the list; it has still to insert one.        *)
Cleaning(f) == f.op \in {"clean", "cleanall"} /\ f.where # "absent" /\ f.at \in Late
Early(f) == f.op = "insert" /\ f.at \notin Late

Inserters(k) == {t \in Threads : \E f \in Activations(t) : f.op = "insert" /\ f.k = k}

(* The node of k is in at most one place, and in none before it has been   *)
(* inserted by the one thread that creates k.                              *)
OnePlace(k) ==
  /\ \A t, u \in Cleaners(k) : t = u
  /\ \A t, u \in Inserters(k) : t = u
  /\ Inserters(k) # {} => frame[k].at # "unborn"
  /\ Contains(list, k) => Cleaners(k) = {} /\ node[k].frees = 0
  /\ Cleaners(k) # {} => node[k].frees = 0
  /\ node[k].frees \in {0, 1}
  /\ Contains(list, k) \/ Cleaners(k) # {} \/ node[k].frees # 0 => Inserted(k)

(* The frame under the handler is one the thread was executing, and no     *)
(* thread but main, which gets no signal, is about to clean the head.      *)
Below ==
  \A t \in Threads :
    /\ saved[t].at = "unborn" => saved[t] = NoFrame
    /\ saved[t].at # "head"
    /\ frame[t].at = "head" => t = Main

(* Nobody runs but main before the first thread_create has made the list,  *)
(* and only main runs cleanupAll.                                          *)
Starting ==
  /\ \A k \in Kids : frame[k].at # "unborn" => initDone
  /\ saved[Main] = NoFrame
  /\ \A t \in Threads : \A f \in Activations(t) :
       /\ f.op = "create" => initDone
       /\ f.op = "init" => t = Main /\ ~ initDone
       /\ f.op \in {"all", "cleanall"} => t = Main /\ initDone
       /\ f.op \in {"join", "clean"} => t \in Joiners

PInv == Below /\ Once(list) /\ (\A k \in Kids : OnePlace(k)) /\ Starting

-----------------------------------------------------------------------------
(* What the steps of the library do.                                       *)

(* g says of a node what f says.                                           *)
Carries(f, g) ==
  /\ g.k = f.k /\ g.op = f.op
  /\ Cleaning(g) <=> Cleaning(f)
  /\ Early(g) <=> Early(f)

FreesStay == \A k \in Kids : node'[k].frees = node[k].frees

(* A step that takes no node anywhere: t has its insertions and cleanups   *)
(* from before, and loses none unless the handler ends it.                 *)
Tame(t) ==
  /\ list' = list /\ FreesStay
  /\ \A u \in Threads \ {t} : frame'[u] = frame[u] /\ saved'[u] = saved[u]
  /\ frame'[t].at # "unborn"
  /\ \A g \in Activations(t)' : Cleaning(g) \/ g.op = "insert" =>
       \E f \in Activations(t) : Carries(f, g)
  /\ saved[t] = NoFrame => \A f \in Activations(t) : Cleaning(f) \/ Early(f) =>
       \E g \in Activations(t)' : Carries(f, g)

(* The clone: k begins and t goes on to insert its node.                   *)
Clones(t) ==
  \E k \in Kids \ {t} :
    /\ frame[t].op = "create" /\ frame[t].k = k /\ frame[k] = NoFrame
    /\ saved[t] = NoFrame /\ saved[k] = NoFrame
    /\ frame'[t].op = "insert" /\ frame'[t].k = k /\ Early(frame'[t]) /\ frame'[t].at # "unborn"
    /\ frame'[k].op = "body" /\ frame'[k].at # "unborn"
    /\ \A u \in Threads \ {t, k} : frame'[u] = frame[u]
    /\ saved' = saved /\ list' = list /\ FreesStay

(* The free that ends a cleanup.                                           *)
Frees(t) ==
  LET k == frame[t].k IN
  /\ Cleaning(frame[t]) /\ saved[t] = NoFrame /\ k \in Kids
  /\ node'[k].frees = node[k].frees + 1
  /\ \A j \in Kids \ {k} : node'[j].frees = node[j].frees
  /\ \A u \in Threads \ {t} : frame'[u] = frame[u] /\ saved'[u] = saved[u]
  /\ frame'[t].op \in {"none", "all"} /\ frame'[t].at # "unborn"
  /\ saved'[t] = NoFrame /\ list' = list

(* Where the activations of a step come from.                              *)
Known(t, g) ==
  \/ g.op \in {"none", "body", "exit", "return", "insert"}
  \/ \E f \in Activations(t) : f.op = g.op
  \/ g.op = "init" /\ ~ initDone'
  \/ g.op = "create" /\ initDone'
  \/ g.op \in {"all", "cleanall"} /\ t = Main /\ (initDone \/ frame[t].op \in {"all", "cleanall"})
  \/ g.op = "join" /\ t \in Joiners
  \/ g.op = "clean" /\ frame[t].op = "join"

Calls(t) ==
  /\ frame[t].at # "unborn"
  /\ initDone => initDone'
  /\ initDone' /\ ~ initDone =>
       frame[t].op = "init" /\ \A g \in Activations(t)' : g.op # "init"
  /\ pending = {} /\ MaxKills = 0 => pending' = {}
  /\ frame'[t].at = "head" => frame[t].at = "head" \/ (t = Main /\ list # <<>>)
  /\ saved'[t] \in {NoFrame, saved[t]} \/ (saved'[t] = frame[t] /\ t \in pending)
  /\ \A u \in Threads \ {t} :
       /\ saved'[u] = saved[u]
       /\ \/ frame'[u] = frame[u]
          \/ frame'[u].op = "body" /\ frame'[u].at = "start" /\ initDone
  /\ \A g \in Activations(t)' : Known(t, g)

Moves(t) == Calls(t) /\ (Tame(t) \/ Clones(t) \/ section(t) \/ Frees(t))

-----------------------------------------------------------------------------
(* A frame of the same operation, on the same side of its section.         *)
LEMMA SameCarries ==
  ASSUME NEW f, NEW g, g.op = f.op, g.k = f.k, g.where = f.where, g.at \in Late <=> f.at \in Late
  PROVE  Carries(f, g)
BY DEF Carries, Cleaning, Early

(* These frames are about no node.                                         *)
LEMMA NoNode ==
  /\ ~ Cleaning(NoFrame) /\ NoFrame.op = "none" /\ ~ Early(NoFrame)
  /\ ~ Cleaning(Idle) /\ Idle.op = "none" /\ ~ Early(Idle) /\ Idle.at \notin {"unborn", "head"}
BY FrameTypes DEF Cleaning, Early

(* Whoever runs is not unborn.                                             *)
LEMMA RunsBorn == ASSUME NEW t, Runs(t) PROVE frame[t].at # "unborn" /\ frame[t] # NoFrame
BY FrameTypes DEF Runs, Alive

(* A step of t alone.                                                      *)
LEMMA Plain ==
  ASSUME NEW t \in Threads, Runs(t), list' = list, FreesStay, initDone' = initDone,
         pending' \in {pending, pending \ {t}},
         \A u \in Threads \ {t} : frame'[u] = frame[u] /\ saved'[u] = saved[u],
         frame'[t].at # "unborn",
         frame'[t].at = "head" => frame[t].at = "head" \/ (t = Main /\ list # <<>>),
         saved'[t] \in {NoFrame, saved[t]} \/ (saved'[t] = frame[t] /\ t \in pending),
         \A g \in {frame'[t], saved'[t]} : Known(t, g),
         \A g \in {frame'[t], saved'[t]} : Cleaning(g) \/ g.op = "insert" =>
           \E f \in Activations(t) : Carries(f, g),
         saved[t] = NoFrame => \A f \in {frame[t], saved[t]} : Cleaning(f) \/ Early(f) =>
           \E g \in Activations(t)' : Carries(f, g)
  PROVE  Moves(t)
<1>1. Tame(t)
  BY DEF Tame, Activations
<1>2. Calls(t)
  BY RunsBorn DEF Calls, Activations
<1>3. QED
  BY <1>1, <1>2 DEF Moves

(* From one place of an operation to the next.                             *)
LEMMA PlainAt ==
  ASSUME IInv, NEW t \in Threads, NEW at \in Ats \ {"unborn"}, GoAt(t, at), Runs(t),
         at = "head" => t = Main /\ list # <<>>, list' = list, FreesStay, initDone' = initDone, pending' \in {pending, pending \ {t}},
         saved' = saved,
         \/ at \in Late <=> frame[t].at \in Late
         \/ frame[t].op \notin {"insert", "clean", "cleanall"}
  PROVE  Moves(t)
<1>1. /\ \A u \in Threads \ {t} : frame'[u] = frame[u]
      /\ frame'[t].at = at /\ frame'[t].op = frame[t].op /\ frame'[t].k = frame[t].k
      /\ frame'[t].where = frame[t].where
  BY GoAtKeeps DEF IInv, TypeInv, TypeOK
<1>2. Carries(frame[t], frame'[t])
  BY <1>1, SameCarries DEF Carries, Cleaning, Early
<1>3. Carries(saved[t], saved'[t])
  BY SameCarries
<1>4. \A g \in {frame'[t], saved'[t]} : Known(t, g)
  BY <1>1 DEF Known, Activations
<1>5. \A g \in {frame'[t], saved'[t]} : \E f \in Activations(t) : Carries(f, g)
  BY <1>2, <1>3 DEF Activations
<1>6. \A f \in {frame[t], saved[t]} : \E g \in Activations(t)' : Carries(f, g)
  BY <1>2, <1>3 DEF Activations
<1>7. QED
  BY <1>1, <1>4, <1>5, <1>6, Plain

(* To a frame that has nothing to do with a node, from one like that.      *)
LEMMA PlainGoto ==
  ASSUME IInv, NEW t \in Threads, NEW f, Goto(t, f), Runs(t),
         list' = list, FreesStay, initDone' = initDone, pending' \in {pending, pending \ {t}},
         saved' = saved, f.at \notin {"unborn", "head"}, f.op # "insert", ~ Cleaning(f),
         ~ Cleaning(frame[t]), ~ Early(frame[t]), Known(t, f)
  PROVE  Moves(t)
<1>1. frame'[t] = f /\ \A u \in Threads \ {t} : frame'[u] = frame[u]
  BY DEF IInv, TypeInv, TypeOK, Goto
<1>2. Carries(saved[t], saved'[t])
  BY SameCarries
<1>3. \A g \in {frame'[t], saved'[t]} : Known(t, g)
  BY <1>1 DEF Known, Activations
<1>4. \A g \in {frame'[t], saved'[t]} : Cleaning(g) \/ g.op = "insert" =>
        \E h \in Activations(t) : Carries(h, g)
  BY <1>1, <1>2 DEF Activations
<1>5. \A h \in {frame[t], saved[t]} : Cleaning(h) \/ Early(h) =>
        \E g \in Activations(t)' : Carries(h, g)
  BY <1>2 DEF Activations
<1>6. QED
  BY <1>1, <1>3, <1>4, <1>5, Plain

(* A return from a frame that has nothing left to do with a node.          *)
LEMMA PlainReturn ==
  ASSUME IInv, Below, NEW t \in Threads, Returns(t), Runs(t),
         list' = list, FreesStay, initDone' = initDone, pending' \in {pending, pending \ {t}},
         ~ Cleaning(frame[t]), ~ Early(frame[t])
  PROVE  Moves(t)
<1>1. /\ \A u \in Threads \ {t} : frame'[u] = frame[u] /\ saved'[u] = saved[u]
      /\ saved'[t] = NoFrame
      /\ frame'[t] = Idle \/ (frame'[t] = saved[t] /\ saved[t] # NoFrame)
  BY ReturnsKeeps DEF IInv, TypeInv, TypeOK
<1>2. frame'[t].at \notin {"unborn", "head"}
  BY <1>1, NoNode DEF Below
<1>3. \A g \in {frame'[t], saved'[t]} : Known(t, g)
  BY <1>1, NoNode DEF Known, Activations
<1>4. Carries(saved[t], saved[t])
  BY SameCarries
<1>5. \A g \in {frame'[t], saved'[t]} : Cleaning(g) \/ g.op = "insert" =>
        \E h \in Activations(t) : Carries(h, g)
  BY <1>1, <1>4, NoNode DEF Activations
<1>6. saved[t] = NoFrame => \A h \in {frame[t], saved[t]} : ~ Cleaning(h) /\ ~ Early(h)
  BY NoNode
<1>7. QED
  BY <1>1, <1>2, <1>3, <1>5, <1>6, Plain

(* A step that moves nobody.                                               *)
LEMMA PlainSame ==
  ASSUME IInv, NEW t \in Threads, frame[t].at # "unborn", frame' = frame, saved' = saved, list' = list,
         FreesStay, initDone' = initDone, pending = {} /\ MaxKills = 0 => pending' = {}
  PROVE  Moves(t)
<1>1. Carries(frame[t], frame[t]) /\ Carries(saved[t], saved[t])
  BY SameCarries
<1>2. \A f \in Activations(t) : Carries(f, f)
  BY <1>1 DEF Activations
<1>3. Activations(t)' = Activations(t)
  BY DEF Activations
<1>4. Tame(t)
  BY <1>2, <1>3 DEF Tame
<1>5. Calls(t)
  BY <1>3 DEF Calls, Known
<1>6. QED
  BY <1>4, <1>5 DEF Moves

-----------------------------------------------------------------------------
(* One lemma per operation.                                                *)
LEMMA LockMoves ==
  ASSUME IInv, NEW t \in Threads, acquire(t) \/ release(t) \/ section(t) PROVE Moves(t)
<1>1. Runs(t) /\ FreesStay /\ saved' = saved /\ initDone' = initDone /\ pending' = pending
  BY DEF acquire, release, section, At, FreesStay
<1>2. ASSUME NEW a, NEW b, a \in Ats, b \in Ats \ {"unborn", "head"}, frame[t].at = a, GoAt(t, b),
             a \in Late <=> b \in Late, list' = list
      PROVE  Moves(t)
  BY <1>1, <1>2, PlainAt
<1>3. CASE acquire(t)
  <2>1. CASE UNCHANGED <<lock, frame>>
    BY <1>1, <1>3, <2>1, RunsBorn, PlainSame DEF acquire
  <2>2. list' = list
    BY <1>3 DEF acquire
  <2>3. CASE frame[t].at = "acq" /\ GoAt(t, "name")
    BY <1>2, <2>2, <2>3 DEF Ats, Late
  <2>4. CASE frame[t].at = "name" /\ GoAt(t, "crit")
    BY <1>2, <2>2, <2>4 DEF Ats, Late
  <2>5. QED
    BY <1>3, <2>1, <2>3, <2>4 DEF acquire, At
<1>4. CASE release(t)
  <2>1. list' = list
    BY <1>4 DEF release
  <2>2. CASE frame[t].at = "unname" /\ GoAt(t, "unlock")
    BY <1>2, <2>1, <2>2 DEF Ats, Late
  <2>3. CASE frame[t].at = "unlock" /\ GoAt(t, "found")
    BY <1>2, <2>1, <2>3 DEF Ats, Late
  <2>4. QED
    BY <1>4, <2>2, <2>3 DEF release, At
<1>5. CASE section(t)
  <2>1. /\ \A u \in Threads \ {t} : frame'[u] = frame[u]
        /\ frame'[t].op = frame[t].op /\ frame'[t].at = "unname"
    BY <1>5, SectionFrame DEF IInv, TypeInv, TypeOK
  <2>2. Calls(t)
    BY <1>1, <2>1, RunsBorn DEF Calls, Known, Activations
  <2>3. QED
    BY <1>5, <2>2 DEF Moves
<1>6. QED
  BY <1>3, <1>4, <1>5

(* A call of an operation that begins with the table's lock is about no    *)
(* node yet, unless it is the insertion.                                   *)
LEMMA LockingPlain ==
  ASSUME NEW op \in Ops, NEW k \in Threads, NEW v \in Values \cup {Null}
  PROVE  /\ ~ Cleaning(Locking(op, k, v)) /\ Locking(op, k, v).at = "acq"
         /\ Locking(op, k, v).op = op /\ Locking(op, k, v).k = k
         /\ Early(Locking(op, k, v)) <=> op = "insert"
<1>1. Locking(op, k, v).op = op /\ Locking(op, k, v).at = "acq" /\ Locking(op, k, v).k = k
  BY FrameTypes
<1>2. QED
  BY <1>1 DEF Cleaning, Early, Late

(* A step into such a call.                                                *)
LEMMA CallMoves ==
  ASSUME IInv, NEW t \in Threads, NEW op \in Ops \ {"insert"}, NEW k \in Threads,
         NEW v \in Values \cup {Null}, Goto(t, Locking(op, k, v)), Runs(t),
         list' = list, FreesStay, initDone' = initDone, pending' \in {pending, pending \ {t}},
         saved' = saved, ~ Cleaning(frame[t]), ~ Early(frame[t]),
         \A g : g.op = op => Known(t, g)
  PROVE  Moves(t)
<1>1. PICK f : f = Locking(op, k, v)
  OBVIOUS
<1>2. f.op = op /\ f.at = "acq" /\ ~ Cleaning(f)
  BY <1>1, LockingPlain
<1>3. QED
  BY <1>1, <1>2, PlainGoto

(* The calls of the program that are made with nothing on the way.         *)
LEMMA ProgramMoves ==
  ASSUME IInv, Below, NEW t \in Threads, NEW k \in Kids,
         CallCreate(t, k) \/ CallJoin(t, k) \/ CallKill(t, k) \/ CallExit(t)
  PROVE  Moves(t)
<1>1. /\ Runs(t) /\ frame[t].op = "none" /\ list' = list /\ saved' = saved /\ initDone' = initDone
      /\ k \in Threads
  BY DEF CallCreate, CallJoin, CallKill, CallExit, OpAt, At, Threads
<1>2. ~ Cleaning(frame[t]) /\ ~ Early(frame[t])
  BY <1>1 DEF Cleaning, Early
<1>3. CASE CallKill(t, k)
  <2>1. calls.kills < MaxKills /\ calls.kills \in 0 .. MaxKills
    BY <1>3 DEF CallKill, IInv, TypeInv, TypeOK
  <2>2. MaxKills # 0
    BY <2>1, OneOneAssumption
  <2>3. frame' = frame /\ FreesStay
    BY <1>3 DEF CallKill, FreesStay
  <2>4. QED
    BY <1>1, <2>2, <2>3, RunsBorn, PlainSame
<1>4. CASE CallJoin(t, k)
  <2>1. Goto(t, Locking("join", k, Null)) /\ FreesStay /\ pending' = pending /\ t \in Joiners
    BY <1>4 DEF CallJoin, FreesStay
  <2>2. \A g : g.op = "join" => Known(t, g)
    BY <2>1 DEF Known
  <2>3. "join" \in Ops \ {"insert"} /\ Null \in Values \cup {Null}
    BY DEF Ops
  <2>4. QED
    BY <1>1, <1>2, <2>1, <2>2, <2>3, CallMoves
<1>5. CASE CallExit(t)
  <2>1. /\ \E v \in Values \cup {Null}, op \in {"exit", "return"} : Goto(t, Locking(op, t, v))
        /\ FreesStay /\ pending' = pending
    BY <1>5 DEF CallExit, FreesStay
  <2>2. PICK v \in Values \cup {Null}, op \in {"exit", "return"} : Goto(t, Locking(op, t, v))
    BY <2>1
  <2>3. \A g : g.op = op => Known(t, g)
    BY DEF Known
  <2>4. op \in Ops \ {"insert"}
    BY DEF Ops
  <2>5. QED
    BY <1>1, <1>2, <2>1, <2>2, <2>3, <2>4, CallMoves
<1>6. CASE CallCreate(t, k)
  <2>1. pending' = pending /\ FreesStay
    <3>1. node' = [node EXCEPT ![k].stack = "mapped"] /\ node \in Nodes /\ pending' = pending
      BY <1>6 DEF CallCreate, IInv, TypeInv, TypeOK, Nodes
    <3>2. QED
      BY <3>1 DEF FreesStay, Nodes
  <2>2. CASE initDone
    <3>1. PICK f \in Frames : /\ f = [Idle EXCEPT !.op = "create", !.at = "clone", !.k = k]
                              /\ f.op = "create" /\ f.at = "clone" /\ f.k = k
      BY <1>1, CreateFrame
    <3>2. Goto(t, f) /\ ~ Cleaning(f) /\ Known(t, f)
      BY <1>1, <1>6, <2>2, <3>1 DEF CallCreate, Cleaning, Known
    <3>3. QED
      BY <1>1, <1>2, <2>1, <3>1, <3>2, PlainGoto
  <2>3. CASE ~ initDone
    <3>1. Goto(t, Locking("init", k, Null))
      BY <1>6, <2>3 DEF CallCreate
    <3>2. \A g : g.op = "init" => Known(t, g)
      BY <1>1, <2>3 DEF Known
    <3>3. "init" \in Ops \ {"insert"} /\ Null \in Values \cup {Null}
      BY DEF Ops
    <3>4. QED
      BY <1>1, <1>2, <2>1, <3>1, <3>2, <3>3, CallMoves
  <2>4. QED
    BY <2>2, <2>3
<1>7. QED
  BY <1>3, <1>4, <1>5, <1>6

(* thread_create and the start of the new thread.                          *)
LEMMA CreateMoves ==
  ASSUME IInv, Below, Starting, NEW t \in Threads, thread_create(t) PROVE Moves(t)
<1> DEFINE k == frame[t].k
<1>1. /\ frame \in [Threads -> Frames] /\ node \in Nodes /\ Runs(t)
      /\ list' = list /\ pending' = pending
  BY DEF IInv, TypeInv, TypeOK, thread_create, OpAt, At, Nodes
<1>2. frame[t].op \in {"init", "create", "insert"} => k \in Kids /\ k \in Threads /\ saved[t] = NoFrame
  BY DEF IInv, TypeInv, Args, Proper, Activations, Handling, Threads
<1>3. CASE /\ OpAt(t, "init", "found") /\ initDone' = TRUE
           /\ Goto(t, [Idle EXCEPT !.op = "create", !.at = "clone", !.k = k])
           /\ UNCHANGED <<node, saved>>
  <2>1. k \in Threads /\ saved[t] = NoFrame /\ frame[t].op = "init"
    BY <1>2, <1>3 DEF OpAt
  <2>2. PICK f \in Frames : /\ f = [Idle EXCEPT !.op = "create", !.at = "clone", !.k = k]
                            /\ f.op = "create" /\ f.at = "clone" /\ f.k = k
    BY <2>1, CreateFrame
  <2>3. frame'[t] = f /\ \A u \in Threads \ {t} : frame'[u] = frame[u]
    BY <1>1, <1>3, <2>2 DEF Goto
  <2>4. Activations(t)' = {f, NoFrame}
    BY <1>3, <2>1, <2>3 DEF Activations
  <2>5. \A g \in Activations(t)' : ~ Cleaning(g) /\ g.op \in {"none", "create"}
    BY <2>2, <2>4, NoNode DEF Cleaning
  <2>6. \A h \in Activations(t) : ~ Cleaning(h) /\ ~ Early(h)
    BY <2>1, NoNode DEF Activations, Cleaning, Early
  <2>7. Tame(t)
    BY <1>1, <1>3, <2>2, <2>3, <2>5, <2>6 DEF Tame, FreesStay
  <2>8. Calls(t)
    BY <1>1, <1>3, <2>1, <2>2, <2>3, <2>5, RunsBorn DEF Calls, Known
  <2>9. QED
    BY <2>7, <2>8 DEF Moves
<1>4. CASE /\ OpAt(t, "create", "clone")
           /\ frame' = [frame EXCEPT ![t] = Locking("insert", k, Null),
                                     ![k] = [Idle EXCEPT !.op = "body", !.at = "start"]]
           /\ UNCHANGED <<node, saved, initDone>>
  <2>1. /\ k \in Kids /\ k \in Threads /\ saved[t] = NoFrame
        /\ frame[t].op = "create" /\ frame[t].at = "clone"
    BY <1>2, <1>4 DEF OpAt, At
  <2>2. frame[k] = NoFrame
    BY <2>1 DEF IInv, Creation, Creates, Activations
  <2>3. saved[k] = NoFrame /\ t # k
    BY <2>1, <2>2, NotHandling, FrameTypes
  <2>4. PICK f, b : /\ f = Locking("insert", k, Null)
                    /\ b = [Idle EXCEPT !.op = "body", !.at = "start"]
    OBVIOUS
  <2>5. f.op = "insert" /\ f.k = k /\ Early(f) /\ f.at = "acq"
    BY <2>1, <2>4, LockingPlain DEF Ops
  <2>6. b.op = "body" /\ b.at = "start"
    BY <2>4, BodyFrame DEF Ops, Ats
  <2>7. /\ frame'[t] = f /\ frame'[k] = b /\ \A u \in Threads \ {t, k} : frame'[u] = frame[u]
    BY <1>1, <1>4, <2>1, <2>3, <2>4
  <2> HIDE DEF k
  <2>8. Clones(t)
    BY <1>1, <1>4, <2>1, <2>2, <2>3, <2>5, <2>6, <2>7 DEF Clones, FreesStay, k
  <2>9. initDone' = initDone /\ saved' = saved /\ initDone
    BY <1>4, <2>1 DEF Starting, Activations
  <2>10. Calls(t)
    <3>1. \A g \in Activations(t)' : g.op \in {"insert", "none"}
      BY <2>1, <2>5, <2>7, <2>9, NoNode DEF Activations
    <3>2. \A u \in Threads \ {t} :
            \/ frame'[u] = frame[u]
            \/ frame'[u].op = "body" /\ frame'[u].at = "start"
      BY <2>6, <2>7
    <3>3. QED
      BY <1>1, <2>5, <2>7, <2>9, <3>1, <3>2, RunsBorn DEF Calls, Known
  <2>11. QED
    BY <2>8, <2>10 DEF Moves
<1>5. CASE /\ OpAt(t, "create", "clone") \/ OpAt(t, "insert", "found")
           /\ Returns(t) /\ UNCHANGED <<node, initDone>>
  <2>1. ~ Cleaning(frame[t]) /\ ~ Early(frame[t]) /\ FreesStay
    BY <1>5 DEF OpAt, At, Cleaning, Early, Late, FreesStay
  <2>2. QED
    BY <1>1, <1>5, <2>1, PlainReturn
<1>6. CASE /\ OpAt(t, "body", "start")
           /\ node' = [node EXCEPT ![t].state = "RUNNING"]
           /\ Goto(t, Idle) /\ UNCHANGED <<saved, initDone>>
  <2>1. FreesStay
    BY <1>1, <1>6 DEF FreesStay, Nodes
  <2>2. ~ Cleaning(frame[t]) /\ ~ Early(frame[t])
    BY <1>6 DEF OpAt, Cleaning, Early
  <2>3. Known(t, Idle)
    BY NoNode DEF Known
  <2>4. QED
    BY <1>1, <1>6, <2>1, <2>2, <2>3, NoNode, PlainGoto
<1>7. QED
  BY <1>3, <1>4, <1>5, <1>6 DEF thread_create

(* thread_exit.                                                            *)
LEMMA ExitMoves == ASSUME IInv, Below, NEW t \in Threads, thread_exit(t) PROVE Moves(t)
<1> DEFINE f == frame[t]
<1>1. /\ frame \in [Threads -> Frames] /\ saved \in [Threads -> Frames] /\ node \in Nodes
      /\ Runs(t) /\ list' = list /\ initDone' = initDone /\ pending' \in {pending, pending \ {t}}
  BY DEF IInv, TypeInv, TypeOK, thread_exit, At, Nodes
<1>2. \/ f.at = "found" /\ f.op \in {"exit", "return"}
      \/ f.at \in {"store1", "store2", "sysexit"}
  BY DEF thread_exit, At
<1>3. f.op \in {"exit", "return"}
  BY <1>2 DEF IInv, TypeInv, Args, Proper, Fits, Activations
<1>4. f.op \notin {"insert", "clean", "cleanall"} /\ ~ Cleaning(f) /\ ~ Early(f)
  BY <1>3 DEF Cleaning, Early
<1>5. FreesStay
  <2>1. \/ node' = node \/ node' = [node EXCEPT ![t].ret = RetVal(t)]
        \/ node' = [node EXCEPT ![t].state = "TERMINATED"]
    BY DEF thread_exit, Stores
  <2>2. QED
    BY <1>1, <2>1 DEF FreesStay, Nodes
<1>6. ASSUME NEW at \in {"dead", "store1", "store2", "sysexit"}, GoAt(t, at), saved' = saved
      PROVE  Moves(t)
  <2>1. at \in Ats \ {"unborn"}
    BY DEF Ats
  <2>2. QED
    BY <1>1, <1>4, <1>5, <1>6, <2>1, PlainAt
<1>7. CASE /\ f.at = "found"
           /\ IF saved[t] # NoFrame
              THEN Returns(t)
              ELSE /\ Goto(t, IF f.op = "exit" THEN Locking("return", t, Null)
                              ELSE [f EXCEPT !.at = "dead"])
                   /\ UNCHANGED saved
  <2>1. CASE saved[t] # NoFrame
    BY <1>1, <1>4, <1>5, <1>7, <2>1, PlainReturn
  <2>2. CASE saved[t] = NoFrame /\ f.op = "exit"
    <3>1. Goto(t, Locking("return", t, Null)) /\ saved' = saved
      BY <1>7, <2>2
    <3>2. \A g : g.op = "return" => Known(t, g)
      BY DEF Known
    <3>3. "return" \in Ops \ {"insert"} /\ Null \in Values \cup {Null}
      BY DEF Ops
    <3>4. QED
      BY <1>1, <1>4, <1>5, <3>1, <3>2, <3>3, CallMoves
  <2>3. CASE saved[t] = NoFrame /\ f.op # "exit"
    <3>1. GoAt(t, "dead") /\ saved' = saved
      BY <1>1, <1>7, <2>3 DEF Goto, GoAt
    <3>2. QED
      BY <1>6, <3>1
  <2>4. QED
    BY <2>1, <2>2, <2>3
<1>8. CASE GoAt(t, "dead") /\ saved' = [saved EXCEPT ![t] = NoFrame]
  <2>1. /\ \A u \in Threads \ {t} : frame'[u] = frame[u] /\ saved'[u] = saved[u]
        /\ frame'[t].at = "dead" /\ frame'[t].op = f.op /\ saved'[t] = NoFrame
    BY <1>1, <1>8, GoAtKeeps DEF Ats
  <2>2. \A g \in {frame'[t], saved'[t]} : Known(t, g) /\ ~ Cleaning(g) /\ g.op # "insert"
    BY <1>3, <2>1, NoNode DEF Known, Cleaning
  <2>3. saved[t] = NoFrame => \A g \in {f, saved[t]} : ~ Cleaning(g) /\ ~ Early(g)
    BY <1>4, NoNode
  <2>4. QED
    BY <1>1, <1>5, <2>1, <2>2, <2>3, Plain
<1>9. QED
  BY <1>6, <1>7, <1>8 DEF thread_exit, At

(* thread_join.                                                            *)
LEMMA JoinMoves == ASSUME IInv, Below, NEW t \in Threads, thread_join(t) PROVE Moves(t)
<1> DEFINE k == frame[t].k
<1>1. /\ Runs(t) /\ frame[t].op = "join" /\ list' = list /\ FreesStay
      /\ initDone' = initDone /\ pending' = pending
  BY DEF thread_join, OpAt, At, FreesStay
<1>2. k \in Kids /\ k \in Threads
  BY <1>1 DEF IInv, TypeInv, Args, Proper, Activations, Threads
<1>3. frame[t].op \notin {"insert", "clean", "cleanall"} /\ ~ Cleaning(frame[t]) /\ ~ Early(frame[t])
  BY <1>1 DEF Cleaning, Early
<1>4. CASE Returns(t)
  BY <1>1, <1>3, <1>4, PlainReturn
<1>5. ASSUME NEW at \in {"wait", "read"}, GoAt(t, at), saved' = saved PROVE Moves(t)
  <2>1. at \in Ats \ {"unborn"}
    BY DEF Ats
  <2>2. QED
    BY <1>1, <1>3, <1>5, <2>1, PlainAt
<1>6. CASE Goto(t, Locking("clean", k, Null)) /\ saved' = saved
  <2>1. \A g : g.op = "clean" => Known(t, g)
    BY <1>1 DEF Known
  <2>2. "clean" \in Ops \ {"insert"} /\ Null \in Values \cup {Null}
    BY DEF Ops
  <2> HIDE DEF k
  <2>3. QED
    BY <1>1, <1>2, <1>3, <1>6, <2>1, <2>2, CallMoves
<1>7. QED
  BY <1>4, <1>5, <1>6 DEF thread_join

(* The loop of cleanupAll is of main only, and so is a cleanup it calls.   *)
LEMMA CleanupMoves ==
  ASSUME IInv, Below, Starting, NEW t \in Threads, cleanup(t) PROVE Moves(t)
<1> DEFINE f == frame[t]
<1>1. /\ frame \in [Threads -> Frames] /\ saved \in [Threads -> Frames] /\ node \in Nodes
      /\ Runs(t) /\ list' = list /\ initDone' = initDone /\ pending' = pending
  BY DEF IInv, TypeInv, TypeOK, cleanup, At, Nodes
<1>2. f.op \in {"clean", "cleanall"} /\ (f.at \in {"munmap", "free"} => f.where # "absent")
  <2>1. f.op \in {"clean", "cleanall"} \/ f.at \in {"munmap", "free"}
    BY DEF cleanup, At
  <2>2. QED
    BY <2>1 DEF IInv, TypeInv, Args, Proper, Fits, Activations
<1>3. saved[t] = NoFrame /\ f.k \in Kids /\ f.k \in Threads
  BY <1>2, NotHandling DEF IInv, TypeInv, Args, Proper, Activations, Threads
<1>4. f.op = "cleanall" => t = Main
  BY DEF Starting, Activations
<1>5. PICK a \in Frames : a = [Idle EXCEPT !.op = "all", !.at = "test"] /\ a.op = "all" /\ a.at = "test"
  BY AllFrame
<1>6. f.op = "cleanall" => Known(t, a)
  BY <1>4, <1>5 DEF Known
<1>7. CASE /\ At(t, "found") /\ ~ Found(t) /\ CleanReturns(t) /\ UNCHANGED node
  <2>1. ~ Cleaning(f) /\ ~ Early(f) /\ FreesStay
    BY <1>2, <1>7 DEF Found, Cleaning, Early, FreesStay
  <2>2. CASE f.op = "clean"
    BY <1>1, <1>7, <2>1, <2>2, PlainReturn DEF CleanReturns
  <2>3. CASE f.op = "cleanall"
    <3>1. Goto(t, a) /\ saved' = saved /\ ~ Cleaning(a)
      BY <1>5, <1>7, <2>3 DEF CleanReturns, Cleaning
    <3>2. QED
      BY <1>1, <1>5, <1>6, <2>1, <2>3, <3>1, PlainGoto
  <2>4. QED
    BY <1>2, <2>2, <2>3
<1>8. ASSUME NEW at \in {"munmap", "free"}, GoAt(t, at), f.at \in Late, FreesStay, saved' = saved
      PROVE  Moves(t)
  <2>1. at \in Ats \ {"unborn"} /\ at \in Late
    BY DEF Ats, Late
  <2>2. QED
    BY <1>1, <1>8, <2>1, PlainAt
<1>9. CASE /\ At(t, "free") /\ node' = [node EXCEPT ![f.k].frees = @ + 1] /\ CleanReturns(t)
  <2>1. Cleaning(f)
    BY <1>2, <1>9 DEF Cleaning, At, Late
  <2>2. /\ node'[f.k].frees = node[f.k].frees + 1
        /\ \A j \in Kids \ {f.k} : node'[j].frees = node[j].frees
    BY <1>1, <1>3, <1>9 DEF Nodes
  <2>3. PICK g : /\ frame'[t] = g /\ g.at \notin {"unborn", "head"}
                 /\ g.op = "none" \/ (g.op = "all" /\ f.op = "cleanall")
                 /\ saved'[t] = NoFrame
                 /\ \A u \in Threads \ {t} : frame'[u] = frame[u] /\ saved'[u] = saved[u]
    <3>1. CASE f.op = "clean"
      <4>1. Returns(t)
        BY <1>9, <3>1 DEF CleanReturns
      <4>2. QED
        BY <1>1, <1>3, <4>1, ReturnsKeeps, NoNode
    <3>2. CASE f.op = "cleanall"
      <4>1. Goto(t, a) /\ saved' = saved
        BY <1>5, <1>9, <3>2 DEF CleanReturns
      <4>2. QED
        BY <1>1, <1>3, <1>5, <3>2, <4>1, GotoKeeps
    <3>3. QED
      BY <1>2, <3>1, <3>2
  <2>4. Frees(t)
    BY <1>1, <1>3, <2>1, <2>2, <2>3 DEF Frees
  <2>5. \A h \in Activations(t)' : Known(t, h)
    BY <1>4, <2>3, NoNode DEF Known, Activations
  <2>6. Calls(t)
    BY <1>1, <2>3, <2>5, RunsBorn DEF Calls
  <2>7. QED
    BY <2>4, <2>6 DEF Moves
<1>10. CASE At(t, "found") /\ GoAt(t, "munmap") /\ UNCHANGED <<node, saved>>
  BY <1>8, <1>10 DEF At, Late, FreesStay
<1>11. CASE /\ At(t, "munmap")
            /\ node' = IF f.where = "inner" THEN [node EXCEPT ![f.k].stack = "unmapped"] ELSE node
            /\ GoAt(t, "free") /\ UNCHANGED saved
  <2>1. FreesStay
    BY <1>1, <1>11 DEF FreesStay, Nodes
  <2>2. QED
    BY <1>8, <1>11, <2>1 DEF At, Late
<1>12. QED
  BY <1>7, <1>9, <1>10, <1>11 DEF cleanup

(* The handler puts its frame on top of what it interrupts.                *)
LEMMA HandlerMoves ==
  ASSUME IInv, NEW t \in Threads, sigusr_signal_handler(t) PROVE Moves(t)
<1>1. /\ frame \in [Threads -> Frames] /\ saved \in [Threads -> Frames]
      /\ Runs(t) /\ t \in pending /\ saved[t] = NoFrame /\ pending' = pending \ {t}
      /\ saved' = [saved EXCEPT ![t] = frame[t]] /\ Goto(t, Locking("exit", t, Null))
      /\ list' = list /\ FreesStay /\ initDone' = initDone
  BY DEF IInv, TypeInv, TypeOK, sigusr_signal_handler, FreesStay
<1>2. PICK f : f = Locking("exit", t, Null)
  OBVIOUS
<1>3. f.op = "exit" /\ f.at = "acq" /\ ~ Cleaning(f) /\ ~ Early(f)
  BY <1>2, LockingPlain DEF Ops
<1>4. /\ frame'[t] = f /\ saved'[t] = frame[t]
      /\ \A u \in Threads \ {t} : frame'[u] = frame[u] /\ saved'[u] = saved[u]
  BY <1>1, <1>2 DEF Goto
<1>5. Carries(frame[t], frame[t])
  BY SameCarries
<1>6. \A g \in {frame'[t], saved'[t]} : Known(t, g)
  BY <1>3, <1>4 DEF Known, Activations
<1>7. \A g \in {frame'[t], saved'[t]} : Cleaning(g) \/ g.op = "insert" =>
        \E h \in Activations(t) : Carries(h, g)
  BY <1>3, <1>4, <1>5 DEF Activations
<1>8. \A h \in {frame[t], saved[t]} : Cleaning(h) \/ Early(h) =>
        \E g \in Activations(t)' : Carries(h, g)
  BY <1>1, <1>4, <1>5, NoNode DEF Activations
<1>9. QED
  BY <1>1, <1>3, <1>4, <1>6, <1>7, <1>8, Plain

(* The end of main.                                                        *)
LEMMA MainMoves == ASSUME IInv, Starting, CallMainExit \/ cleanupAll PROVE Moves(Main)
<1>1. /\ Main \in Threads /\ Runs(Main) /\ list' = list /\ saved' = saved /\ FreesStay
      /\ initDone' = initDone /\ pending' = pending /\ list \in Seq(Kids)
      /\ frame[Main].op \in {"none", "all"}
  BY DEF CallMainExit, cleanupAll, OpAt, At, Threads, FreesStay, IInv, TypeInv, TypeOK
<1>2. ~ Cleaning(frame[Main]) /\ ~ Early(frame[Main])
  BY <1>1 DEF Cleaning, Early
<1>3. CASE CallMainExit
  <2>1. PICK a \in Frames : a = [Idle EXCEPT !.op = "all", !.at = "test"] /\ a.op = "all" /\ a.at = "test"
    BY AllFrame
  <2>2. Goto(Main, a) /\ Known(Main, a) /\ ~ Cleaning(a)
    BY <1>3, <2>1 DEF CallMainExit, Known, Cleaning
  <2>3. QED
    BY <1>1, <1>2, <2>1, <2>2, PlainGoto
<1>4. CASE cleanupAll
  <2>1. CASE UNCHANGED frame
    BY <1>1, <2>1, RunsBorn, PlainSame
  <2>2. CASE list # <<>> /\ GoAt(Main, "head")
    <3>1. "head" \in Ats \ {"unborn"} /\ frame[Main].op \notin {"insert", "clean", "cleanall"}
      BY <1>1 DEF Ats
    <3>2. QED
      BY <1>1, <2>2, <3>1, PlainAt
  <2>3. CASE list # <<>> /\ Goto(Main, Locking("cleanall", Head(list), Null)) /\ frame[Main].op = "all"
    <3>1. Head(list) \in Threads
      BY <1>1, <2>3 DEF Threads
    <3>2. \A g : g.op = "cleanall" => Known(Main, g)
      BY <2>3 DEF Known
    <3>3. "cleanall" \in Ops \ {"insert"} /\ Null \in Values \cup {Null}
      BY DEF Ops
    <3>4. QED
      BY <1>1, <1>2, <2>3, <3>1, <3>2, <3>3, CallMoves
  <2>4. QED
    BY <1>4, <2>1, <2>2, <2>3 DEF cleanupAll, OpAt
<1>5. QED
  BY <1>3, <1>4

(* Every step.                                                             *)
LEMMA NextMoves ==
  ASSUME IInv, Below, Starting, Next PROVE \E t \in Threads : Moves(t)
<1>1. ASSUME NEW t \in Threads, NEW k \in Kids, CallCreate(t, k) \/ CallJoin(t, k) \/ CallKill(t, k)
      PROVE  Moves(t)
  BY <1>1, ProgramMoves
<1>2. ASSUME NEW t \in Threads, CallExit(t) PROVE Moves(t)
  <2>1. t \in Kids
    BY <1>2 DEF CallExit
  <2>2. QED
    BY <1>2, <2>1, ProgramMoves
<1>3. ASSUME NEW t \in Threads, Segv(t) PROVE Moves(t)
  BY <1>3, PlainSame DEF Segv, Alive, FreesStay
<1>4. ASSUME NEW t \in Threads, Library(t) PROVE Moves(t)
  BY <1>3, <1>4, LockMoves, CreateMoves, ExitMoves, JoinMoves, CleanupMoves, MainMoves DEF Library
<1>5. CASE CallMainExit
  BY <1>5, MainMoves DEF Threads
<1>6. QED
  BY <1>1, <1>2, <1>4, <1>5, HandlerMoves DEF Next

-----------------------------------------------------------------------------
(***************************************************************************)
(* A node is in one place.                                                 *)
(***************************************************************************)

(* Who cleans k, and who is to insert it.                                  *)
LEMMA Members ==
  ASSUME NEW k, NEW t \in Threads
  PROVE  /\ t \in Cleaners(k) <=> \E f \in Activations(t) : Cleaning(f) /\ f.k = k
         /\ t \in Cleaners(k)' <=> \E f \in Activations(t)' : Cleaning(f) /\ f.k = k
         /\ t \in Inserters(k) <=> \E f \in Activations(t) : f.op = "insert" /\ f.k = k
         /\ t \in Inserters(k)' <=> \E f \in Activations(t)' : f.op = "insert" /\ f.k = k
BY DEF Cleaners, Inserters, Cleaning, Late

(* They are threads.                                                       *)
LEMMA MembersThreads ==
  ASSUME NEW k
  PROVE  /\ Cleaners(k) \subseteq Threads /\ Cleaners(k)' \subseteq Threads
         /\ Inserters(k) \subseteq Threads /\ Inserters(k)' \subseteq Threads
BY DEF Cleaners, Inserters

(* No insertion of the node is on its way to the section.                  *)
LEMMA InsertedIs ==
  ASSUME IInv, NEW k
  PROVE  Inserted(k) <=> /\ frame[k].at # "unborn"
                         /\ \A t \in Threads : \A f \in Activations(t) : Early(f) => f.k # k
<1>1. \A t \in Threads : \A f \in Activations(t) : f.op = "insert" =>
        f.at \notin {"munmap", "free"}
  BY DEF IInv, TypeInv, Args, Proper, Fits
<1>2. QED
  BY <1>1 DEF Inserted, Early, Late

(* The same after a step.                                                  *)
LEMMA InsertedNext ==
  ASSUME IInv', NEW k
  PROVE  Inserted(k)' <=> /\ frame'[k].at # "unborn"
                          /\ \A t \in Threads : \A f \in Activations(t)' : Early(f) => f.k # k
<1>1. \A t \in Threads : \A f \in Activations(t)' : f.op = "insert" =>
        f.at \notin {"munmap", "free"}
  BY DEF IInv, TypeInv, Args, Proper, Fits
<1>2. QED
  BY <1>1 DEF Inserted, Early, Late

(* The step of t keeps what is known of main and of interrupted frames.    *)
LEMMA CallsKeep ==
  ASSUME IInv, Below, Starting, NEW t \in Threads, Calls(t)
  PROVE  Below' /\ Starting'
<1>1. pending \subseteq Kids /\ Main \notin Kids /\ Threads = Kids \cup {Main}
  BY Constants DEF IInv, TypeInv, TypeOK
<1>2. Below'
  <2> SUFFICES ASSUME NEW u \in Threads
               PROVE  /\ saved'[u].at = "unborn" => saved'[u] = NoFrame
                      /\ saved'[u].at # "head"
                      /\ frame'[u].at = "head" => u = Main
    BY DEF Below
  <2>1. CASE u = t
    <3>1. t \in pending => t # Main
      BY <1>1
    <3>2. saved'[t] = NoFrame \/ saved'[t] = saved[t] \/ (saved'[t] = frame[t] /\ t # Main)
      BY <3>1 DEF Calls
    <3>3. frame'[t].at = "head" => t = Main
      BY DEF Calls, Below
    <3>4. QED
      BY <2>1, <3>2, <3>3, FrameTypes DEF Calls, Below
  <2>2. CASE u # t
    BY <2>2 DEF Calls, Below
  <2>3. QED
    BY <2>1, <2>2
<1>3. \A k \in Kids : frame'[k].at # "unborn" => initDone'
  <2> SUFFICES ASSUME NEW k \in Kids, frame'[k].at # "unborn" PROVE initDone'
    OBVIOUS
  <2>1. k \in Threads
    BY <1>1
  <2>2. frame[k].at # "unborn" \/ initDone
    BY <2>1 DEF Calls
  <2>3. QED
    BY <2>2 DEF Calls, Starting
<1>4. saved'[Main] = NoFrame
  <2>1. CASE t = Main
    BY <1>1, <2>1 DEF Calls, Starting
  <2>2. CASE t # Main
    BY <1>1, <2>2 DEF Calls, Starting
  <2>3. QED
    BY <2>1, <2>2
<1>5. t \in Kids => initDone
  BY DEF Calls, Starting
<1>6. ASSUME NEW u \in Threads, NEW g \in Activations(u)'
      PROVE  /\ g.op = "create" => initDone'
             /\ g.op = "init" => u = Main /\ ~ initDone'
             /\ g.op \in {"all", "cleanall"} => u = Main /\ initDone'
             /\ g.op \in {"join", "clean"} => u \in Joiners
  <2>1. CASE u = t
    <3>1. Known(t, g)
      BY <1>6, <2>1 DEF Calls
    <3>2. \A f \in Activations(t) :
            /\ f.op = "create" => initDone
            /\ f.op = "init" => t = Main /\ ~ initDone
            /\ f.op \in {"all", "cleanall"} => t = Main /\ initDone
            /\ f.op \in {"join", "clean"} => t \in Joiners
      BY DEF Starting
    <3>3. frame[t] \in Activations(t)
      BY DEF Activations
    <3>4. /\ initDone => initDone'
          /\ initDone' /\ ~ initDone => g.op # "init"
      BY <1>6, <2>1 DEF Calls
    <3>5. CASE \E f \in Activations(t) : f.op = g.op
      BY <2>1, <3>2, <3>4, <3>5
    <3>6. CASE ~ (\E f \in Activations(t) : f.op = g.op)
      BY <1>1, <1>5, <2>1, <3>1, <3>2, <3>3, <3>4, <3>6 DEF Known
    <3>7. QED
      BY <3>5, <3>6
  <2>2. CASE u # t
    <3>1. g \in Activations(u) \/ g.op = "body"
      BY <1>6, <2>2 DEF Calls, Activations
    <3>2. g.op = "init" /\ g \in Activations(u) => u = Main /\ ~ initDone
      BY DEF Starting
    <3>3. u = Main => frame[t].op # "init"
      BY <2>2 DEF Starting, Activations
    <3>4. QED
      BY <3>1, <3>2, <3>3 DEF Calls, Starting
  <2>3. QED
    BY <2>1, <2>2
<1>7. QED
  BY <1>2, <1>3, <1>4, <1>6 DEF Starting

-----------------------------------------------------------------------------
(* A step that brings the node of j nowhere it was not.                    *)
Stays(j) ==
  /\ Contains(list', j) => Contains(list, j)
  /\ Cleaners(j)' \subseteq Cleaners(j) /\ Inserters(j)' \subseteq Inserters(j)
  /\ frame[j].at # "unborn" => frame'[j].at # "unborn"
  /\ node'[j].frees = node[j].frees
  /\ Inserted(j) => Inserted(j)'

(* A step that takes it from nowhere.                                      *)
Lasts(j) ==
  /\ Contains(list, j) => Contains(list', j)
  /\ Cleaners(j) \subseteq Cleaners(j)'
  /\ node'[j].frees = node[j].frees
  /\ Inserted(j)' => Inserted(j)

(* Unless somebody is killed on the way, an inserted node is in a place.   *)
Kept(k) == Inserted(k) => Contains(list, k) \/ Cleaners(k) # {} \/ node[k].frees # 0

NoKills == pending = {} /\ \A t \in Threads : saved[t] = NoFrame

(* Nothing new, so nothing in two places.                                  *)
LEMMA StaysPlace == ASSUME NEW j, OnePlace(j), Stays(j) PROVE OnePlace(j)'
BY DEF OnePlace, Stays

(* Nothing lost.                                                           *)
LEMMA LastsKept == ASSUME NEW j, Kept(j), Lasts(j) PROVE Kept(j)'
BY DEF Kept, Lasts

(* Threads that make no step.                                              *)
LEMMA SameActivations ==
  ASSUME NEW u, frame'[u] = frame[u], saved'[u] = saved[u] PROVE Activations(u)' = Activations(u)
BY DEF Activations

(* A step of t that has all its nodes from before.                         *)
LEMMA StaysIf ==
  ASSUME IInv, IInv', NEW t \in Threads, NEW j \in Kids,
         Contains(list', j) => Contains(list, j), node'[j].frees = node[j].frees,
         frame[j].at # "unborn" => frame'[j].at # "unborn",
         \A u \in Threads \ {t} : Activations(u)' = Activations(u),
         \A g \in Activations(t)' : g.k = j /\ Cleaning(g) =>
           \E f \in Activations(t) : Cleaning(f) /\ f.k = j,
         \A g \in Activations(t)' : g.k = j /\ g.op = "insert" =>
           \E f \in Activations(t) : f.op = "insert" /\ f.k = j,
         \A g \in Activations(t)' : g.k = j /\ Early(g) =>
           \E f \in Activations(t) : Early(f) /\ f.k = j
  PROVE  Stays(j)
<1>1. Cleaners(j)' \subseteq Cleaners(j)
  <2> SUFFICES ASSUME NEW u \in Threads, u \in Cleaners(j)' PROVE u \in Cleaners(j)
    BY MembersThreads
  <2>1. QED
    BY Members
<1>2. Inserters(j)' \subseteq Inserters(j)
  <2> SUFFICES ASSUME NEW u \in Threads, u \in Inserters(j)' PROVE u \in Inserters(j)
    BY MembersThreads
  <2>1. QED
    BY Members
<1>3. Inserted(j) => Inserted(j)'
  BY InsertedIs, InsertedNext
<1>4. QED
  BY <1>1, <1>2, <1>3 DEF Stays

(* A step of t that still has all its nodes, while another thread is born  *)
(* or not.                                                                 *)
LEMMA LastsIf ==
  ASSUME IInv, IInv', NEW t \in Threads, NEW j \in Kids,
         Contains(list, j) => Contains(list', j), node'[j].frees = node[j].frees,
         frame'[j].at # "unborn" => frame[j].at # "unborn",
         \A u \in Threads \ {t} : \A f \in Activations(u) : Cleaning(f) \/ Early(f) =>
           f \in Activations(u)',
         \A f \in Activations(t) : f.k = j /\ Cleaning(f) =>
           \E g \in Activations(t)' : Cleaning(g) /\ g.k = j,
         \A f \in Activations(t) : f.k = j /\ Early(f) =>
           \E g \in Activations(t)' : Early(g) /\ g.k = j
  PROVE  Lasts(j)
<1>1. Cleaners(j) \subseteq Cleaners(j)'
  <2> SUFFICES ASSUME NEW u \in Threads, u \in Cleaners(j) PROVE u \in Cleaners(j)'
    BY MembersThreads
  <2>1. QED
    BY Members
<1>2. Inserted(j)' => Inserted(j)
  BY InsertedIs, InsertedNext
<1>3. QED
  BY <1>1, <1>2 DEF Lasts

(* Tame steps.                                                             *)
LEMMA TameStays ==
  ASSUME IInv, IInv', NEW t \in Threads, Calls(t), Tame(t), NEW j \in Kids
  PROVE  Stays(j) /\ (saved[t] = NoFrame => Lasts(j))
<1>1. \A u \in Threads \ {t} : Activations(u)' = Activations(u)
  BY SameActivations DEF Tame
<1>2. /\ list' = list /\ node'[j].frees = node[j].frees /\ frame'[t].at # "unborn"
      /\ frame[t].at # "unborn"
      /\ frame'[j].at # "unborn" <=> frame[j].at # "unborn"
  <2>1. j \in Threads
    BY DEF Threads
  <2>2. QED
    BY <2>1 DEF Tame, FreesStay, Calls
<1>3. \A g \in Activations(t)' : Cleaning(g) \/ g.op = "insert" =>
        \E f \in Activations(t) : Carries(f, g)
  BY DEF Tame
<1>4. \A g : Early(g) => g.op = "insert"
  BY DEF Early
<1>5. Stays(j)
  <2>1. \A g \in Activations(t)' : g.k = j /\ Cleaning(g) =>
           \E f \in Activations(t) : Cleaning(f) /\ f.k = j
    BY <1>3 DEF Carries
  <2>2. \A g \in Activations(t)' : g.k = j /\ g.op = "insert" =>
           \E f \in Activations(t) : f.op = "insert" /\ f.k = j
    BY <1>3 DEF Carries
  <2>3. \A g \in Activations(t)' : g.k = j /\ Early(g) =>
           \E f \in Activations(t) : Early(f) /\ f.k = j
    BY <1>3, <1>4 DEF Carries
  <2>4. QED
    BY <1>1, <1>2, <2>1, <2>2, <2>3, StaysIf
<1>6. ASSUME saved[t] = NoFrame PROVE Lasts(j)
  <2>1. \A f \in Activations(t) : Cleaning(f) \/ Early(f) =>
          \E g \in Activations(t)' : Carries(f, g)
    BY <1>6 DEF Tame
  <2>2. \A f \in Activations(t) : f.k = j /\ Cleaning(f) =>
           \E g \in Activations(t)' : Cleaning(g) /\ g.k = j
    BY <2>1 DEF Carries
  <2>3. \A f \in Activations(t) : f.k = j /\ Early(f) =>
           \E g \in Activations(t)' : Early(g) /\ g.k = j
    BY <2>1 DEF Carries
  <2>4. QED
    BY <1>1, <1>2, <2>2, <2>3, LastsIf
<1>7. QED
  BY <1>5, <1>6

(* The clone: before it k has no node anywhere and nobody inserts one.     *)
LEMMA ClonesStays ==
  ASSUME IInv, IInv', NEW t \in Threads, Calls(t), Clones(t), NEW j \in Kids, OnePlace(j)
  PROVE  OnePlace(j)' /\ (NoKills /\ Kept(j) => Kept(j)')
<1>1. PICK k \in Kids \ {t} :
        /\ frame[t].op = "create" /\ frame[t].k = k /\ frame[k] = NoFrame
        /\ saved[t] = NoFrame /\ saved[k] = NoFrame
        /\ frame'[t].op = "insert" /\ frame'[t].k = k /\ Early(frame'[t]) /\ frame'[t].at # "unborn"
        /\ frame'[k].op = "body" /\ frame'[k].at # "unborn"
        /\ \A u \in Threads \ {t, k} : frame'[u] = frame[u]
        /\ saved' = saved /\ list' = list /\ FreesStay
  BY DEF Clones
<1>2. j \in Threads /\ k \in Threads /\ node'[j].frees = node[j].frees /\ frame[k].at = "unborn"
  BY <1>1, FrameTypes DEF Threads, FreesStay
<1>3. /\ \A u \in Threads \ {t, k} : Activations(u)' = Activations(u)
      /\ Activations(t) = {frame[t], NoFrame} /\ Activations(t)' = {frame'[t], NoFrame}
      /\ Activations(k) = {NoFrame} /\ Activations(k)' = {frame'[k], NoFrame}
  BY <1>1 DEF Activations
<1>4. /\ ~ Cleaning(frame[t]) /\ ~ Cleaning(frame'[t]) /\ ~ Cleaning(frame'[k])
      /\ ~ Early(frame[t]) /\ ~ Early(frame'[k])
  BY <1>1 DEF Cleaning, Early
<1>5. Cleaners(j)' = Cleaners(j)
  <2>1. ASSUME NEW u \in Threads PROVE u \in Cleaners(j)' <=> u \in Cleaners(j)
    BY <1>3, <1>4, NoNode, Members
  <2>2. QED
    BY <2>1, MembersThreads
<1>6. \A u \in Threads \ {t} : u \in Inserters(j)' <=> u \in Inserters(j)
  BY <1>1, <1>3, NoNode, Members
<1>7. CASE j = k
  <2>1. Cleaners(k) = {} /\ Inserters(k) = {} /\ ~ Contains(list, k) /\ node[k].frees = 0
    BY <1>2, <1>7 DEF OnePlace, Inserted
  <2>2. \A u \in Inserters(k)' : u = t
    BY <1>6, <1>7, <2>1, MembersThreads
  <2>3. frame'[k].at # "unborn"
    BY <1>1
  <2>4. ~ Inserted(k)'
    BY <1>1, <1>3, InsertedNext
  <2>5. OnePlace(k)'
    BY <1>1, <1>2, <1>5, <1>7, <2>1, <2>2, <2>3 DEF OnePlace
  <2>6. Kept(k)'
    BY <2>4 DEF Kept
  <2>7. QED
    BY <1>7, <2>5, <2>6
<1>8. CASE j # k
  <2>1. ~ (t \in Inserters(j)')
    BY <1>1, <1>3, <1>8, NoNode, Members
  <2>2. Inserters(j)' \subseteq Inserters(j)
    BY <1>6, <2>1, MembersThreads
  <2>3. frame'[j].at # "unborn" <=> frame[j].at # "unborn"
    BY <1>1, <1>2, <1>8 DEF Calls
  <2>4. Inserted(j)' <=> Inserted(j)
    BY <1>1, <1>3, <1>4, <1>8, <2>3, NoNode, InsertedIs, InsertedNext
  <2>5. Stays(j) /\ Lasts(j)
    BY <1>1, <1>2, <1>5, <2>2, <2>3, <2>4 DEF Stays, Lasts
  <2>6. QED
    BY <2>5, StaysPlace, LastsKept
<1>9. QED
  BY <1>7, <1>8

(* The free: the node was with t alone, and is nowhere else.               *)
LEMMA FreesStays ==
  ASSUME IInv, IInv', NEW t \in Threads, Calls(t), Frees(t), NEW j \in Kids, OnePlace(j)
  PROVE  OnePlace(j)' /\ (NoKills /\ Kept(j) => Kept(j)')
<1>1. PICK k \in Kids :
        /\ k = frame[t].k /\ Cleaning(frame[t]) /\ saved[t] = NoFrame
        /\ node'[k].frees = node[k].frees + 1
        /\ \A i \in Kids \ {k} : node'[i].frees = node[i].frees
        /\ \A u \in Threads \ {t} : frame'[u] = frame[u] /\ saved'[u] = saved[u]
        /\ frame'[t].op \in {"none", "all"} /\ frame'[t].at # "unborn"
        /\ saved'[t] = NoFrame /\ list' = list
  BY DEF Frees
<1>2. /\ \A u \in Threads \ {t} : Activations(u)' = Activations(u)
      /\ Activations(t) = {frame[t], NoFrame} /\ Activations(t)' = {frame'[t], NoFrame}
  BY <1>1 DEF Activations
<1>3. ~ Cleaning(frame'[t]) /\ ~ Early(frame'[t]) /\ ~ Early(frame[t]) /\ frame'[t].op # "insert"
  BY <1>1 DEF Cleaning, Early
<1>4. frame'[j].at # "unborn" <=> frame[j].at # "unborn"
  <2>1. j \in Threads
    BY DEF Threads
  <2>2. QED
    BY <1>1, <2>1 DEF Calls
<1>5. Inserted(j)' <=> Inserted(j)
  BY <1>1, <1>2, <1>3, <1>4, NoNode, InsertedIs, InsertedNext
<1>6. Inserters(j)' \subseteq Inserters(j)
  <2>1. \A u \in Threads : u \in Inserters(j)' => u \in Inserters(j)
    BY <1>2, <1>3, NoNode, Members
  <2>2. QED
    BY <2>1, MembersThreads
<1>7. \A u \in Threads : u \in Cleaners(j)' <=> u # t /\ u \in Cleaners(j)
  <2>1. ~ (t \in Cleaners(j)')
    BY <1>2, <1>3, NoNode, Members
  <2>2. QED
    BY <1>2, <2>1, Members
<1>8. CASE j = k
  <2>1. t \in Cleaners(k)
    BY <1>1, <1>2, Members
  <2>2. \A u \in Cleaners(k) : u = t
    BY <1>8, <2>1 DEF OnePlace
  <2>3. Cleaners(k)' = {}
    BY <1>7, <1>8, <2>2, MembersThreads
  <2>4. ~ Contains(list, k) /\ node[k].frees = 0 /\ Inserted(k)
    BY <1>8, <2>1 DEF OnePlace
  <2>5. node'[k].frees = 1
    BY <1>1, <2>4
  <2>6. OnePlace(k)'
    BY <1>1, <1>4, <1>5, <1>6, <1>8, <2>3, <2>4, <2>5 DEF OnePlace
  <2>7. Kept(k)'
    BY <2>5 DEF Kept
  <2>8. QED
    BY <1>8, <2>6, <2>7
<1>9. CASE j # k
  <2>1. ~ (t \in Cleaners(j))
    BY <1>1, <1>2, <1>9, NoNode, Members
  <2>2. Cleaners(j)' = Cleaners(j)
    BY <1>7, <2>1, MembersThreads
  <2>3. node'[j].frees = node[j].frees
    BY <1>1, <1>9
  <2>4. Stays(j) /\ Lasts(j)
    BY <1>1, <1>4, <1>5, <1>6, <2>2, <2>3 DEF Stays, Lasts
  <2>5. QED
    BY <2>4, StaysPlace, LastsKept
<1>10. QED
  BY <1>8, <1>9

-----------------------------------------------------------------------------
(* What a section does to the frame of its thread.                         *)
LEMMA SectionFacts ==
  ASSUME IInv, NEW t \in Threads, section(t)
  PROVE  /\ frame[t].at = "crit" /\ list' = ListAfter(frame[t])
         /\ \A u \in Threads \ {t} : frame'[u] = frame[u] /\ saved'[u] = saved[u]
         /\ saved' = saved /\ node' = node
         /\ frame'[t].op = frame[t].op /\ frame'[t].k = frame[t].k /\ frame'[t].at = "unname"
         /\ ~ Cleaning(frame[t]) /\ ~ Early(frame'[t])
         /\ Early(frame[t]) <=> frame[t].op = "insert"
         /\ Cleaning(frame'[t]) <=> /\ frame[t].op \in {"clean", "cleanall"}
                                    /\ Contains(list, frame[t].k)
<1>1. frame \in [Threads -> Frames]
  BY DEF IInv, TypeInv, TypeOK
<1>2. /\ frame[t].at = "crit" /\ list' = ListAfter(frame[t]) /\ saved' = saved /\ node' = node
      /\ frame' = [frame EXCEPT ![t].at = "unname", ![t].where = Where(frame[t].k)]
  BY DEF section, At
<1>3. /\ \A u \in Threads \ {t} : frame'[u] = frame[u]
      /\ frame'[t].op = frame[t].op /\ frame'[t].k = frame[t].k /\ frame'[t].at = "unname"
  BY <1>1, SectionFrame
<1>4. PICK w : w = Where(frame[t].k)
  OBVIOUS
<1>5. frame'[t].where = w
  BY <1>1, <1>2, <1>4 DEF Frames
<1>6. w # "absent" <=> Contains(list, frame[t].k)
  BY <1>4 DEF Where
<1>7. QED
  BY <1>2, <1>3, <1>5, <1>6 DEF Cleaning, Early, Late

(* What it does to the list.                                               *)
LEMMA SectionList ==
  ASSUME IInv, NEW t \in Threads, section(t), frame[t].op \in {"insert", "clean", "cleanall"} => frame[t].k \in Kids,
         Once(list), frame[t].op = "insert" => ~ Contains(list, frame[t].k)
  PROVE  /\ Once(list')
         /\ \A x : Contains(list', x) => Contains(list, x) \/ (frame[t].op = "insert" /\ x = frame[t].k)
         /\ frame[t].op = "insert" => Contains(list', frame[t].k)
         /\ frame[t].op \in {"clean", "cleanall"} => ~ Contains(list', frame[t].k)
         /\ frame[t].op # "init" => \A x : Contains(list, x) =>
              Contains(list', x) \/ (frame[t].op \in {"clean", "cleanall"} /\ x = frame[t].k)
<1> DEFINE k == frame[t].k
<1>1. list \in Seq(Kids) /\ list' = ListAfter(frame[t])
  BY SectionFacts DEF IInv, TypeInv, TypeOK
<1>2. CASE frame[t].op = "insert"
  <2>1. list' = <<k>> \o list /\ k \in Kids /\ ~ Contains(list, k)
    BY <1>1, <1>2 DEF ListAfter
  <2> HIDE DEF k
  <2>2. Contains(list', k)
    BY <1>1, <2>1, ConsContains
  <2>3. (\A x : Contains(list', x) => x = k \/ Contains(list, x)) /\ Once(list')
    BY <1>1, <2>1, ConsOnly
  <2>4. \A x : Contains(list, x) => Contains(list', x)
    BY <1>1, <2>1, ConsKeeps
  <2>5. QED
    BY <1>2, <2>2, <2>3, <2>4 DEF k
<1>3. CASE frame[t].op \in {"clean", "cleanall"}
  <2>1. list' = RemoveFirst(list, k) /\ k \in Kids
    BY <1>1, <1>3 DEF ListAfter
  <2> HIDE DEF k
  <2>2. Once(list') /\ ~ Contains(list', k)
    BY <1>1, <2>1, RemoveFirstOnce
  <2>3. \A x : Contains(list', x) => Contains(list, x)
    BY <1>1, <2>1, RemoveFirstOnly
  <2>4. \A x : Contains(list, x) => Contains(list', x) \/ x = k
    BY <1>1, <2>1, RemoveFirstKeeps
  <2>5. QED
    BY <1>3, <2>2, <2>3, <2>4 DEF k
<1>4. CASE frame[t].op = "init"
  <2>1. list' = <<>>
    BY <1>1, <1>4 DEF ListAfter
  <2>2. QED
    BY <1>4, <2>1 DEF Once, Contains
<1>5. CASE frame[t].op \notin {"insert", "clean", "cleanall", "init"}
  <2>1. list' = list
    BY <1>1, <1>5 DEF ListAfter
  <2>2. QED
    BY <1>5, <2>1
<1>6. QED
  BY <1>2, <1>3, <1>4, <1>5

(* A section: an insertion puts a node where it was not, a cleanup takes   *)
(* it out of the list, the reset of the first thread_create is before any  *)
(* insertion.                                                              *)
LEMMA SectionStays ==
  ASSUME IInv, IInv', Starting, NEW t \in Threads, section(t), Once(list),
         \A k \in Kids : OnePlace(k)
  PROVE  Once(list') /\ \A k \in Kids : OnePlace(k)' /\ (NoKills /\ Kept(k) => Kept(k)')
<1> DEFINE f == frame[t]
<1>1. f.op \in {"insert", "clean", "cleanall"} => f.k \in Kids
  BY DEF IInv, TypeInv, Args, Proper, Activations
<1>2. f.op \in {"insert", "clean", "cleanall", "init"} => saved[t] = NoFrame
  BY DEF IInv, Handling
<1>3. f.op = "insert" => ~ Inserted(f.k) /\ t \in Inserters(f.k)
  BY SectionFacts, InsertedIs, Members DEF Activations
<1>4. f.op = "insert" => ~ Contains(list, f.k) /\ Cleaners(f.k) = {} /\ node[f.k].frees = 0
  BY <1>1, <1>3 DEF OnePlace
<1>5. /\ Once(list')
      /\ \A x : Contains(list', x) => Contains(list, x) \/ (f.op = "insert" /\ x = f.k)
      /\ f.op = "insert" => Contains(list', f.k)
      /\ f.op \in {"clean", "cleanall"} => ~ Contains(list', f.k)
      /\ f.op # "init" => \A x : Contains(list, x) =>
           Contains(list', x) \/ (f.op \in {"clean", "cleanall"} /\ x = f.k)
  BY <1>1, <1>4, SectionList
<1> HIDE DEF f
<1>6. /\ \A u \in Threads \ {t} : Activations(u)' = Activations(u)
      /\ node' = node /\ saved' = saved
      /\ frame'[t].op = f.op /\ frame'[t].k = f.k /\ frame'[t].at = "unname" /\ f.at = "crit"
      /\ ~ Cleaning(f) /\ ~ Early(frame'[t])
      /\ Early(f) <=> f.op = "insert"
      /\ Cleaning(frame'[t]) <=> f.op \in {"clean", "cleanall"} /\ Contains(list, f.k)
      /\ Activations(t) = {f, saved[t]} /\ Activations(t)' = {frame'[t], saved[t]}
  BY SectionFacts, SameActivations DEF f, Activations
<1> SUFFICES ASSUME NEW j \in Kids PROVE OnePlace(j)' /\ (NoKills /\ Kept(j) => Kept(j)')
  BY <1>5
<1>7. frame'[j].at # "unborn" <=> frame[j].at # "unborn"
  BY <1>6, SectionFacts DEF f, Threads
<1>8. Inserters(j)' \subseteq Inserters(j)
  <2>1. \A u \in Threads : u \in Inserters(j)' => u \in Inserters(j)
    BY <1>6, Members
  <2>2. QED
    BY <2>1, MembersThreads
<1>9. CASE f.op = "insert" /\ f.k = j
  <2>1. /\ saved[t] = NoFrame /\ t \in Inserters(j) /\ Contains(list', j)
        /\ ~ Contains(list, j) /\ Cleaners(j) = {} /\ node[j].frees = 0
    BY <1>2, <1>3, <1>4, <1>5, <1>9 DEF f
  <2>2. \A u \in Threads : ~ (u \in Cleaners(j)')
    BY <1>6, <1>9, <2>1, NoNode, Members
  <2>3. Cleaners(j)' = {}
    BY <2>2, MembersThreads
  <2>4. \A u \in Inserters(j) : u = t
    BY <2>1 DEF OnePlace
  <2>5. frame'[j].at # "unborn"
    BY <1>7, <2>1 DEF OnePlace
  <2>6. ASSUME NEW u \in Threads, NEW g \in Activations(u)', Early(g), g.k = j PROVE FALSE
    <3>1. g.op = "insert"
      BY <2>6 DEF Early
    <3>2. u \in Inserters(j)'
      BY <2>6, <3>1, Members
    <3>3. u = t
      BY <1>8, <2>4, <3>2
    <3>4. QED
      BY <1>6, <2>1, <2>6, <3>3, NoNode
  <2>7. Inserted(j)'
    BY <2>5, <2>6, InsertedNext
  <2>8. OnePlace(j)'
    BY <1>6, <1>8, <2>1, <2>3, <2>4, <2>5, <2>7 DEF OnePlace
  <2>9. Kept(j)'
    BY <2>1 DEF Kept
  <2>10. QED
    BY <2>8, <2>9
<1>10. \A u \in Threads \ {t} : u \in Cleaners(j)' <=> u \in Cleaners(j)
  BY <1>6, Members
<1>11. ~ (f.op = "insert" /\ f.k = j) => (Inserted(j)' <=> Inserted(j))
  BY <1>6, <1>7, InsertedIs, InsertedNext
<1>12. CASE f.op \in {"clean", "cleanall"} /\ f.k = j /\ Contains(list, j)
  <2>1. Cleaners(j) = {} /\ node[j].frees = 0 /\ Inserted(j) /\ ~ Contains(list', j)
    BY <1>5, <1>12 DEF OnePlace
  <2>2. t \in Cleaners(j)'
    BY <1>6, <1>12, Members
  <2>3. \A u \in Cleaners(j)' : u = t
    BY <1>10, <2>1, MembersThreads
  <2>4. Inserted(j)'
    BY <1>11, <1>12, <2>1
  <2>5. OnePlace(j)'
    BY <1>6, <1>7, <1>8, <2>1, <2>3, <2>4 DEF OnePlace
  <2>6. Kept(j)'
    BY <2>2 DEF Kept
  <2>7. QED
    BY <2>5, <2>6
<1>13. CASE /\ ~ (f.op = "insert" /\ f.k = j)
            /\ ~ (f.op \in {"clean", "cleanall"} /\ f.k = j /\ Contains(list, j))
  <2>1. t \in Cleaners(j)' <=> t \in Cleaners(j)
    BY <1>6, <1>13, Members
  <2>2. Cleaners(j)' = Cleaners(j)
    BY <1>10, <2>1, MembersThreads
  <2>3. Contains(list', j) => Contains(list, j)
    BY <1>5, <1>13
  <2>4. Inserted(j)' <=> Inserted(j)
    BY <1>11, <1>13
  <2>5. Stays(j)
    BY <1>6, <1>7, <1>8, <2>2, <2>3, <2>4 DEF Stays
  <2>6. CASE f.op # "init"
    <3>1. Contains(list, j) => Contains(list', j)
      BY <1>5, <1>13, <2>6
    <3>2. Lasts(j)
      BY <1>6, <2>2, <2>4, <3>1 DEF Lasts
    <3>3. QED
      BY <2>5, <3>2, StaysPlace, LastsKept
  <2>7. CASE f.op = "init"
    <3>1. frame[j].at = "unborn"
      BY <1>6, <2>7 DEF Starting
    <3>2. ~ Inserted(j)'
      BY <1>7, <3>1, InsertedNext
    <3>3. QED
      BY <2>5, <3>2, StaysPlace DEF Kept
  <2>8. QED
    BY <2>6, <2>7
<1>14. QED
  BY <1>9, <1>12, <1>13

-----------------------------------------------------------------------------
(* Where the nodes are, and where they are when nobody is killed.          *)
NodeInv == IInv /\ PInv

KeptInv == NodeInv /\ NoKills /\ \A k \in Kids : Kept(k)

(* Initially there is no node.                                             *)
LEMMA NodeInit == Init => NodeInv /\ (\A k \in Kids : Kept(k)) /\ NoKills
<1> SUFFICES ASSUME Init PROVE NodeInv /\ (\A k \in Kids : Kept(k)) /\ NoKills
  OBVIOUS
<1>1. IInv
  BY InitInv
<1>2. /\ \A t \in Threads : saved[t] = NoFrame /\ (frame[t] = NoFrame \/ (t = Main /\ frame[t] = Idle))
      /\ list = <<>> /\ pending = {} /\ ~ initDone
  BY DEF Init
<1>3. /\ NoFrame.op = "none" /\ NoFrame.at = "unborn" /\ Idle.op = "none" /\ Idle.at = "idle"
      /\ Main \in Threads /\ Main \notin Kids /\ Kids \subseteq Threads
  BY FrameTypes, Constants
<1>4. \A t \in Threads : \A f \in Activations(t) : f.op = "none" /\ ~ Cleaning(f) /\ ~ Early(f)
  BY <1>2, NoNode DEF Activations
<1>5. Below /\ Starting
  BY <1>2, <1>3, <1>4 DEF Below, Starting
<1>6. Once(list) /\ \A k : ~ Contains(list, k)
  BY <1>2 DEF Once, Contains
<1>7. \A k \in Kids : OnePlace(k) /\ Kept(k)
  <2> SUFFICES ASSUME NEW k \in Kids PROVE OnePlace(k) /\ Kept(k)
    OBVIOUS
  <2>1. Cleaners(k) = {} /\ Inserters(k) = {}
    BY <1>4, Members, MembersThreads
  <2>2. node[k].frees = 0
    BY DEF Init
  <2>3. ~ Inserted(k)
    BY <1>2, <1>3 DEF Inserted
  <2>4. QED
    BY <1>6, <2>1, <2>2, <2>3 DEF OnePlace, Kept
<1>8. NoKills
  BY <1>2 DEF NoKills
<1>9. QED
  BY <1>1, <1>5, <1>6, <1>7, <1>8 DEF NodeInv, PInv

(* Every step leaves every node in at most one place; while nobody is      *)
(* killed, in one.                                                         *)
LEMMA NodeStays ==
  ASSUME NodeInv, Next
  PROVE  NodeInv' /\ \A k \in Kids : NoKills /\ Kept(k) => Kept(k)'
<1>1. IInv /\ IInv' /\ Below /\ Starting /\ Once(list) /\ \A k \in Kids : OnePlace(k)
  BY StepInv DEF NodeInv, PInv
<1>2. PICK t \in Threads : Moves(t)
  BY <1>1, NextMoves
<1>3. Calls(t)
  BY <1>2 DEF Moves
<1>4. Below' /\ Starting'
  BY <1>1, <1>3, CallsKeep
<1>5. CASE section(t)
  <2>1. Once(list') /\ \A k \in Kids : OnePlace(k)' /\ (NoKills /\ Kept(k) => Kept(k)')
    BY <1>1, <1>5, SectionStays
  <2>2. QED
    BY <1>1, <1>4, <2>1 DEF NodeInv, PInv
<1>6. ASSUME list' = list, \A k \in Kids : OnePlace(k)' /\ (NoKills /\ Kept(k) => Kept(k)')
      PROVE  NodeInv' /\ \A k \in Kids : NoKills /\ Kept(k) => Kept(k)'
  <2>1. Once(list')
    BY <1>1, <1>6
  <2>2. QED
    BY <1>1, <1>4, <1>6, <2>1 DEF NodeInv, PInv
<1>7. CASE Tame(t)
  <2>1. ASSUME NEW k \in Kids PROVE OnePlace(k)' /\ (NoKills /\ Kept(k) => Kept(k)')
    <3>1. Stays(k) /\ (saved[t] = NoFrame => Lasts(k))
      BY <1>1, <1>3, <1>7, TameStays
    <3>2. NoKills => saved[t] = NoFrame
      BY DEF NoKills
    <3>3. QED
      BY <1>1, <3>1, <3>2, StaysPlace, LastsKept
  <2>2. QED
    BY <1>6, <1>7, <2>1 DEF Tame
<1>8. CASE Clones(t)
  <2>1. \A k \in Kids : OnePlace(k)' /\ (NoKills /\ Kept(k) => Kept(k)')
    BY <1>1, <1>3, <1>8, ClonesStays
  <2>2. list' = list
    BY <1>8 DEF Clones
  <2>3. QED
    BY <1>6, <2>1, <2>2
<1>9. CASE Frees(t)
  <2>1. \A k \in Kids : OnePlace(k)' /\ (NoKills /\ Kept(k) => Kept(k)')
    BY <1>1, <1>3, <1>9, FreesStays
  <2>2. list' = list
    BY <1>9 DEF Frees
  <2>3. QED
    BY <1>6, <2>1, <2>2
<1>10. QED
  BY <1>2, <1>5, <1>7, <1>8, <1>9 DEF Moves

(* The places of a node, counted.                                          *)
LEMMA PlacesAre ==
  ASSUME NodeInv, NEW k \in Kids
  PROVE  Places(k) = (IF Contains(list, k) THEN 1 ELSE 0)
                     + (IF Cleaners(k) # {} THEN 1 ELSE 0) + node[k].frees
<1> DEFINE I == {i \in DOMAIN list : list[i] = k}
<1>1. list \in Seq(Kids) /\ Once(list) /\ OnePlace(k) /\ DOMAIN list = 1 .. Len(list)
  BY DEF NodeInv, PInv, IInv, TypeInv, TypeOK
<1>2. Cardinality(I) = IF Contains(list, k) THEN 1 ELSE 0
  <2>1. CASE Contains(list, k)
    <3>1. PICK i \in 1 .. Len(list) : list[i] = k
      BY <2>1 DEF Contains
    <3>2. I = {i}
      BY <1>1, <3>1 DEF Once
    <3>3. QED
      BY <2>1, <3>2, FS_Singleton
  <2>2. CASE ~ Contains(list, k)
    <3>1. I = {}
      BY <1>1, <2>2 DEF Contains
    <3>2. QED
      BY <2>2, <3>1, FS_EmptySet
  <2>3. QED
    BY <2>1, <2>2
<1>3. Cardinality(Cleaners(k)) = IF Cleaners(k) # {} THEN 1 ELSE 0
  <2>1. CASE Cleaners(k) # {}
    <3>1. PICK t \in Cleaners(k) : TRUE
      BY <2>1
    <3>2. Cleaners(k) = {t}
      BY <1>1, <3>1 DEF OnePlace
    <3>3. Cardinality({t}) = 1
      BY FS_Singleton
    <3>4. QED
      BY <2>1, <3>2, <3>3
  <2>2. CASE Cleaners(k) = {}
    BY <2>2, FS_EmptySet
  <2>3. QED
    BY <2>1, <2>2
<1>4. QED
  BY <1>2, <1>3 DEF Places

(* Nor does a step that changes nothing.                                   *)
LEMMA NodeSame ==
  ASSUME NodeInv, UNCHANGED vars
  PROVE  NodeInv' /\ (NoKills => NoKills') /\ \A k \in Kids : Kept(k) => Kept(k)'
<1>1. IInv'
  BY StepInv DEF NodeInv
<1>2. UNCHANGED <<list, node, frame, saved, pending, initDone>>
  BY DEF vars
<1>3. \A t : Activations(t)' = Activations(t)
  BY <1>2 DEF Activations
<1>4. Below' /\ Starting' /\ Once(list')
  BY <1>2, <1>3 DEF NodeInv, PInv, Below, Starting
<1>5. ASSUME NEW k \in Kids PROVE OnePlace(k)' /\ (Kept(k) => Kept(k)')
  <2>1. \A t \in Threads : t \in Cleaners(k)' <=> t \in Cleaners(k)
    BY <1>3, Members
  <2>2. \A t \in Threads : t \in Inserters(k)' <=> t \in Inserters(k)
    BY <1>3, Members
  <2>3. Cleaners(k)' = Cleaners(k) /\ Inserters(k)' = Inserters(k)
    BY <2>1, <2>2, MembersThreads
  <2>4. Inserted(k)' <=> Inserted(k)
    BY <1>1, <1>2, <1>3, InsertedIs, InsertedNext DEF NodeInv
  <2>5. Stays(k) /\ Lasts(k)
    BY <1>2, <2>3, <2>4 DEF Stays, Lasts
  <2>6. QED
    BY <2>5, StaysPlace, LastsKept DEF NodeInv, PInv
<1>6. NoKills => NoKills'
  BY <1>2 DEF NoKills
<1>7. QED
  BY <1>1, <1>4, <1>5, <1>6 DEF NodeInv, PInv

(* NodeInv, for any set of threads, any calls and any kills.               *)
THEOREM NodeInvariance == Spec => []NodeInv
<1>1. NodeInv /\ [Next]_vars => NodeInv'
  <2> SUFFICES ASSUME NodeInv, [Next]_vars PROVE NodeInv'
    OBVIOUS
  <2>1. CASE Next
    BY <2>1, NodeStays
  <2>2. CASE UNCHANGED vars
    BY <2>2, NodeSame
  <2>3. QED
    BY <2>1, <2>2
<1>2. QED
  BY NodeInit, <1>1, PTL DEF Spec

(* However thread_create, thread_join, thread_kill and cleanup of one-one.c *)
(* interleave, no node is ever in the list and with a thread that cleans   *)
(* it up, or with two, and none is freed twice or before it is inserted.   *)
THEOREM OneFree == Spec => []NodeInOnePlace
<1>1. NodeInv => NodeInOnePlace
  <2> SUFFICES ASSUME NodeInv, NEW k \in Kids PROVE Places(k) <= IF Inserted(k) THEN 1 ELSE 0
    BY DEF NodeInOnePlace
  <2>1. OnePlace(k)
    BY DEF NodeInv, PInv
  <2>2. Places(k) = (IF Contains(list, k) THEN 1 ELSE 0)
                    + (IF Cleaners(k) # {} THEN 1 ELSE 0) + node[k].frees
    BY PlacesAre
  <2>3. QED
    BY <2>1, <2>2 DEF OnePlace
<1>2. QED
  BY <1>1, NodeInvariance, PTL

(* KeptInv, when thread_kill is never called: no handler ever runs.        *)
LEMMA KeptInvariance == ASSUME MaxKills = 0 PROVE Spec => []KeptInv
<1>1. Init => KeptInv
  BY NodeInit DEF KeptInv
<1>2. KeptInv /\ [Next]_vars => KeptInv'
  <2> SUFFICES ASSUME KeptInv, [Next]_vars PROVE KeptInv'
    OBVIOUS
  <2>1. CASE Next
    <3>1. NodeInv' /\ \A k \in Kids : Kept(k)'
      BY <2>1, NodeStays DEF KeptInv
    <3>2. PICK t \in Threads : Calls(t)
      BY <2>1, NextMoves DEF Moves, KeptInv, NodeInv, PInv
    <3>3. NoKills'
      BY <3>2 DEF Calls, KeptInv, NoKills
    <3>4. QED
      BY <3>1, <3>3 DEF KeptInv
  <2>2. CASE UNCHANGED vars
    BY <2>2, NodeSame DEF KeptInv
  <2>3. QED
    BY <2>1, <2>2
<1>3. QED
  BY <1>1, <1>2, PTL DEF Spec

(* When thread_kill is never called, the node of a thread is from its      *)
(* insertion on in the list, or with the one thread that cleans it up, or  *)
(* freed once: joins, two joins of one thread and cleanupAll lose no node  *)
(* and free none twice.                                                    *)
THEOREM OnePlaceAlways == ASSUME MaxKills = 0 PROVE Spec => []NodeConserved
<1>1. KeptInv => NodeConserved
  <2> SUFFICES ASSUME KeptInv, NEW k \in Kids PROVE Places(k) = IF Inserted(k) THEN 1 ELSE 0
    BY DEF NodeConserved
  <2>1. OnePlace(k) /\ Kept(k) /\ NodeInv
    BY DEF KeptInv, NodeInv, PInv
  <2>2. Places(k) = (IF Contains(list, k) THEN 1 ELSE 0)
                    + (IF Cleaners(k) # {} THEN 1 ELSE 0) + node[k].frees
    BY <2>1, PlacesAre
  <2>3. QED
    BY <2>1, <2>2 DEF OnePlace, Kept
<1>2. QED
  BY <1>1, KeptInvariance, PTL

-----------------------------------------------------------------------------
(***************************************************************************)
(* The answer of a thread, its state and its return value, is final.       *)
(***************************************************************************)
Ending == {"exit", "return"}
Storing == {"start", "store1", "store2"}

SameAnswer(k) == node'[k].state = node[k].state /\ node'[k].ret = node[k].ret

(* A thread stores only its own answer.                                    *)
Touches(t) == \A k \in Kids : k # t \/ frame[k].at \notin Storing => SameAnswer(k)

(* The stack and the frees of a node are no part of the answer.            *)
LEMMA NodeKept ==
  ASSUME node \in Nodes, NEW k,
         \/ node' = node
         \/ \E s : node' = [node EXCEPT ![k].stack = s]
         \/ node' = [node EXCEPT ![k].frees = @ + 1]
  PROVE  \A j \in Kids : SameAnswer(j)
BY DEF SameAnswer, Nodes

(* Who writes a node.                                                      *)
LEMMA NextTouches == ASSUME IInv, Next PROVE \E t \in Threads : Touches(t)
<1>1. node \in Nodes
  BY DEF IInv, TypeInv, TypeOK, Nodes
<1>2. ASSUME NEW t \in Threads, node' = node PROVE Touches(t)
  BY <1>2 DEF Touches, SameAnswer
<1>3. ASSUME NEW t \in Threads, NEW k \in Kids, CallCreate(t, k) PROVE Touches(t)
  BY <1>1, <1>3, NodeKept DEF CallCreate, Touches
<1>4. ASSUME NEW t \in Threads, thread_create(t) PROVE Touches(t)
  <2>1. node' = node \/ (frame[t].at = "start" /\ node' = [node EXCEPT ![t].state = "RUNNING"])
    BY <1>4 DEF thread_create, OpAt, At
  <2>2. QED
    BY <1>1, <2>1 DEF Touches, SameAnswer, Storing, Nodes
<1>5. ASSUME NEW t \in Threads, thread_exit(t) PROVE Touches(t)
  <2>1. \/ node' = node
        \/ frame[t].at = "store1" /\ node' = [node EXCEPT ![t].ret = RetVal(t)]
        \/ frame[t].at = "store2" /\ node' = [node EXCEPT ![t].state = "TERMINATED"]
    BY <1>5 DEF thread_exit, Stores, At
  <2>2. QED
    BY <1>1, <2>1 DEF Touches, SameAnswer, Storing, Nodes
<1>6. ASSUME NEW t \in Threads, cleanup(t) PROVE Touches(t)
  <2>1. PICK k : k = frame[t].k
    OBVIOUS
  <2>2. \/ node' = node
        \/ \E s : node' = [node EXCEPT ![k].stack = s]
        \/ node' = [node EXCEPT ![k].frees = @ + 1]
    BY <1>6, <2>1 DEF cleanup
  <2>3. QED
    BY <1>1, <2>2, NodeKept DEF Touches
<1>7. ASSUME NEW t \in Threads, Library(t) PROVE Touches(t)
  BY <1>2, <1>4, <1>5, <1>6, <1>7
     DEF Library, acquire, release, section, thread_join, Segv, cleanupAll
<1>8. QED
  BY <1>2, <1>3, <1>7 DEF Next, CallJoin, CallKill, CallExit, sigusr_signal_handler, CallMainExit

FinalInv == JInv /\ KeptInv

(* When nobody is killed and malloc does not happen to leave               *)
(* THREAD_TERMINATED in a new node, a node that says so keeps its state    *)
(* and its ret_val: for a join that reads it late, and for a second one.   *)
THEOREM FinalAnswer ==
  ASSUME MaxKills = 0, "TERMINATED" \notin HeapStates
  PROVE  Spec => TerminatedIsFinal
<1>1. FinalInv /\ [Next]_vars =>
        [\A k \in Kids : node[k].state = "TERMINATED"
           => node'[k].state = "TERMINATED" /\ node'[k].ret = node[k].ret]_vars
  <2> SUFFICES ASSUME FinalInv, Next, NEW k \in Kids, node[k].state = "TERMINATED"
               PROVE  node'[k].state = "TERMINATED" /\ node'[k].ret = node[k].ret
    OBVIOUS
  <2>1. PICK t \in Threads : Touches(t)
    BY NextTouches DEF FinalInv, JInv
  <2>2. Finished(k) /\ saved[k] = NoFrame
    BY DEF FinalInv, JInv, Ends, KeptInv, NoKills, Threads
  <2>3. frame[k].at \in {"sysexit", "dead"}
    BY <2>2, FrameTypes DEF Finished, Activations
  <2>4. QED
    BY <2>1, <2>3 DEF Touches, SameAnswer, Storing
<1>2. Spec => []FinalInv
  BY KeptInvariance, JoinInvariance, PTL DEF FinalInv
<1>3. QED
  BY <1>1, <1>2, PTL DEF Spec, TerminatedIsFinal

-----------------------------------------------------------------------------
(***************************************************************************)
(* What a join returns.                                                    *)
(***************************************************************************)
(* The frame's next step relies on ret_val: it sets the state, or reads.   *)
Stored(f) == f.at = "store2" \/ (f.op = "join" /\ f.at = "read")

(* Its v is what thread_exit was called with, and so is what it relies on. *)
Says(f) ==
  /\ f.op \in Ending => f.v \in passed[f.k]
  /\ Stored(f) => node[f.k].ret \in passed[f.k]

AnswerInv ==
  /\ IInv /\ ValueDelivered
  /\ \A u \in Threads : \A f \in Activations(u) : Says(f)
  /\ \A k \in Kids : node[k].state = "TERMINATED" => node[k].ret \in passed[k]

(* f says no more than a frame that u had.                                 *)
Bears(u, f) ==
  \E g \in Activations(u) : g.op = f.op /\ g.k = f.k /\ g.v = f.v /\ (Stored(f) => Stored(g))

Grows ==
  /\ \A k \in Kids : passed[k] \subseteq passed'[k]
  /\ \A k \in Kids : node'[k].ret = node[k].ret \/ node'[k].ret \in passed'[k]
  /\ \A k \in Kids : node'[k].state = "TERMINATED" =>
       node[k].state = "TERMINATED" \/ node[k].ret \in passed[k]
  /\ \A p \in got' : p \in got \/ p[2] \in passed[p[1]]

(* What a step must do to keep the invariant.                              *)
LEMMA SaysKeeps ==
  ASSUME AnswerInv, IInv', Grows, \A u \in Threads : \A f \in Activations(u)' : Bears(u, f) \/ Says(f)'
  PROVE  AnswerInv'
<1>1. ASSUME NEW u \in Threads, NEW f \in Activations(u)' PROVE Says(f)'
  <2>1. f.op \in Ending \/ Stored(f) => f.k \in Kids
    BY <1>1 DEF IInv, TypeInv, Args, Proper, Fits, Ending, Stored
  <2>2. CASE Bears(u, f)
    <3>1. PICK g \in Activations(u) : g.op = f.op /\ g.k = f.k /\ g.v = f.v /\ (Stored(f) => Stored(g))
      BY <2>2 DEF Bears
    <3>2. Says(g)
      BY <3>1 DEF AnswerInv
    <3>3. QED
      BY <2>1, <3>1, <3>2 DEF Says, Grows
  <2>3. QED
    BY <1>1, <2>2
<1>2. ASSUME NEW k \in Kids, node'[k].state = "TERMINATED" PROVE node'[k].ret \in passed'[k]
  BY <1>2 DEF Grows, AnswerInv
<1>3. ValueDelivered'
  <2> SUFFICES ASSUME NEW p \in got' PROVE p[2] \in passed'[p[1]]
    BY DEF ValueDelivered
  <2>1. p[1] \in Kids
    BY DEF IInv, TypeInv, TypeOK
  <2>2. p[2] \in passed[p[1]]
    BY DEF Grows, AnswerInv, ValueDelivered
  <2>3. QED
    BY <2>1, <2>2 DEF Grows
<1>4. QED
  BY <1>1, <1>2, <1>3 DEF AnswerInv

(* The same for a step of t that moves t alone.                            *)
LEMMA SaysOwn ==
  ASSUME AnswerInv, IInv', Grows, NEW t \in Threads,
         \A u \in Threads \ {t} : frame'[u] = frame[u] /\ saved'[u] = saved[u],
         \A f \in {frame'[t], saved'[t]} : Bears(t, f) \/ Says(f)'
  PROVE  AnswerInv'
<1>1. ASSUME NEW u \in Threads, NEW f \in Activations(u)' PROVE Bears(u, f) \/ Says(f)'
  BY <1>1 DEF Bears, Activations
<1>2. QED
  BY <1>1, SaysKeeps

(* What was there says what it said.                                       *)
LEMMA BearsOld ==
  ASSUME NEW t \in Threads PROVE Bears(t, frame[t]) /\ Bears(t, saved[t])
BY DEF Bears, Activations

(* Stores that do not touch ret_val and end nobody.                        *)
LEMMA GrowsNode ==
  ASSUME node \in Nodes, passed' = passed, got' = got, NEW k,
         \/ node' = node
         \/ node' = [node EXCEPT ![k].stack = "mapped"]
         \/ node' = [node EXCEPT ![k].stack = "unmapped"]
         \/ node' = [node EXCEPT ![k].state = "RUNNING"]
         \/ node' = [node EXCEPT ![k].frees = @ + 1]
  PROVE  Grows
<1>1. \A j \in Kids : node'[j].ret = node[j].ret
  BY DEF Nodes
<1>2. \A j \in Kids : node'[j].state = node[j].state \/ node'[j].state = "RUNNING"
  BY DEF Nodes
<1>3. QED
  BY <1>1, <1>2 DEF Grows

(* A step inside an operation that reads and stores no answer.             *)
LEMMA SaysAt ==
  ASSUME AnswerInv, IInv', Grows, NEW t \in Threads, NEW at \in Ats \ {"store2", "read"},
         GoAt(t, at), saved' = saved
  PROVE  AnswerInv'
<1>1. /\ \A u \in Threads \ {t} : frame'[u] = frame[u]
      /\ frame'[t].at = at /\ frame'[t].op = frame[t].op /\ frame'[t].k = frame[t].k
      /\ frame'[t].v = frame[t].v
  BY GoAtKeeps DEF AnswerInv, IInv, TypeInv, TypeOK
<1>2. Bears(t, frame'[t])
  BY <1>1 DEF Bears, Activations, Stored
<1>3. QED
  BY <1>1, <1>2, BearsOld, SaysOwn

(* A step into a frame that relies on nothing.                             *)
LEMMA SaysGoto ==
  ASSUME AnswerInv, IInv', Grows, NEW t \in Threads, NEW f, Goto(t, f), saved' = saved,
         f.op \notin Ending, f.at \notin {"store2", "read"}
  PROVE  AnswerInv'
<1>1. frame'[t] = f /\ \A u \in Threads \ {t} : frame'[u] = frame[u]
  BY DEF AnswerInv, IInv, TypeInv, TypeOK, Goto
<1>2. Says(f)'
  BY DEF Says, Stored
<1>3. QED
  BY <1>1, <1>2, BearsOld, SaysOwn

(* A call of thread_exit.                                                  *)
LEMMA SaysEnd ==
  ASSUME AnswerInv, IInv', NEW t \in Threads, t \in Kids, NEW v \in Values \cup {Null},
         Passes(t, v), NEW op \in Ending, Goto(t, Locking(op, t, v)),
         saved' = saved \/ saved' = [saved EXCEPT ![t] = frame[t]], node' = node, got' = got
  PROVE  AnswerInv'
<1>1. /\ frame \in [Threads -> Frames] /\ saved \in [Threads -> Frames]
      /\ passed \in [Kids -> SUBSET (Values \cup {Null})]
  BY DEF AnswerInv, IInv, TypeInv, TypeOK
<1>2. \A k \in Kids : passed[k] \subseteq passed'[k]
  BY <1>1, PassesKeeps
<1>3. v \in passed'[t]
  BY <1>1, PassesKeeps
<1>4. Grows
  BY <1>2 DEF Grows
<1>5. PICK f : f = Locking(op, t, v) /\ f.op = op /\ f.at = "acq" /\ f.k = t /\ f.v = v
  BY DEF Locking
<1>6. frame'[t] = f /\ \A u \in Threads \ {t} : frame'[u] = frame[u]
  BY <1>1, <1>5 DEF Goto
<1>7. saved'[t] \in {saved[t], frame[t]} /\ \A u \in Threads \ {t} : saved'[u] = saved[u]
  BY <1>1
<1>8. Says(f)'
  BY <1>3, <1>5 DEF Says, Stored
<1>9. QED
  BY <1>4, <1>6, <1>7, <1>8, BearsOld, SaysOwn

(* A return to what was interrupted, or to the program.                    *)
LEMMA SaysReturn ==
  ASSUME AnswerInv, IInv', Grows, NEW t \in Threads, Returns(t)
  PROVE  AnswerInv'
<1>1. /\ \A u \in Threads \ {t} : frame'[u] = frame[u] /\ saved'[u] = saved[u]
      /\ saved'[t] = NoFrame
      /\ frame'[t] = Idle \/ frame'[t] = saved[t]
  BY ReturnsKeeps DEF AnswerInv, IInv, TypeInv, TypeOK
<1>2. Says(Idle)' /\ Says(NoFrame)'
  BY FrameTypes DEF Says, Stored, Ending
<1>3. QED
  BY <1>1, <1>2, BearsOld, SaysOwn

(* A step that moves nobody.                                               *)
LEMMA SaysSame ==
  ASSUME AnswerInv, IInv', frame' = frame, saved' = saved, node' = node, passed' = passed, got' = got
  PROVE  AnswerInv'
<1>1. Grows
  BY DEF Grows
<1>2. ASSUME NEW u \in Threads, NEW f \in Activations(u)' PROVE Bears(u, f)
  BY <1>2 DEF Bears, Activations
<1>3. QED
  BY <1>1, <1>2, SaysKeeps

(* acquire, release and the section between them.                          *)
LEMMA SaysLock ==
  ASSUME AnswerInv, IInv', NEW t \in Threads, acquire(t) \/ release(t) \/ section(t)
  PROVE  AnswerInv'
<1>1. /\ saved' = saved /\ node' = node /\ passed' = passed /\ got' = got
      /\ frame \in [Threads -> Frames]
  BY DEF acquire, release, section, history, AnswerInv, IInv, TypeInv, TypeOK
<1>2. Grows
  BY <1>1 DEF Grows
<1>3. {"name", "crit", "unlock", "found"} \subseteq Ats \ {"store2", "read"}
  BY DEF Ats
<1>4. ASSUME NEW at \in {"name", "crit", "unlock", "found"}, GoAt(t, at) PROVE AnswerInv'
  BY <1>1, <1>2, <1>3, <1>4, SaysAt
<1>5. CASE acquire(t)
  BY <1>1, <1>4, <1>5, SaysSame DEF acquire
<1>6. CASE release(t)
  BY <1>4, <1>6 DEF release
<1>7. CASE section(t)
  <2>1. frame' = [frame EXCEPT ![t].at = "unname", ![t].where = Where(frame[t].k)]
    BY <1>7 DEF section
  <2>2. PICK w : w = Where(frame[t].k)
    OBVIOUS
  <2>3. /\ \A u \in Threads \ {t} : frame'[u] = frame[u]
        /\ frame'[t].op = frame[t].op /\ frame'[t].k = frame[t].k
        /\ frame'[t].v = frame[t].v /\ frame'[t].at = "unname"
    BY <1>1, <2>1, <2>2 DEF Frames
  <2>4. Bears(t, frame'[t])
    BY <2>3 DEF Bears, Activations, Stored
  <2>5. QED
    BY <1>1, <1>2, <2>3, <2>4, BearsOld, SaysOwn
<1>8. QED
  BY <1>5, <1>6, <1>7

(* A call that begins with the table's lock, and ends nobody.              *)
LEMMA SaysCall ==
  ASSUME AnswerInv, IInv', Grows, NEW t \in Threads, NEW k, NEW op, op \notin Ending,
         Goto(t, Locking(op, k, Null)), saved' = saved
  PROVE  AnswerInv'
<1>1. Locking(op, k, Null).op = op /\ Locking(op, k, Null).at = "acq"
  BY DEF Locking
<1>2. QED
  BY <1>1, SaysGoto

(* Into thread_create past its initialisation.                             *)
LEMMA SaysClone ==
  ASSUME AnswerInv, IInv', Grows, NEW t \in Threads, NEW k \in Threads, saved' = saved,
         Goto(t, [Idle EXCEPT !.op = "create", !.at = "clone", !.k = k])
  PROVE  AnswerInv'
<1>1. PICK f \in Frames : /\ f = [Idle EXCEPT !.op = "create", !.at = "clone", !.k = k]
                          /\ f.op = "create" /\ f.at = "clone" /\ f.k = k
  BY CreateFrame
<1>2. Goto(t, f) /\ f.op \notin Ending /\ f.at \notin {"store2", "read"}
  BY <1>1 DEF Ending
<1>3. QED
  BY <1>2, SaysGoto

(* The calls of the program.                                               *)
LEMMA SaysProgram ==
  ASSUME AnswerInv, IInv', NEW t \in Threads, NEW k \in Kids,
         CallCreate(t, k) \/ CallJoin(t, k) \/ CallKill(t, k) \/ CallExit(t)
  PROVE  AnswerInv'
<1>1. node \in Nodes /\ k \in Threads
  BY DEF AnswerInv, IInv, TypeInv, TypeOK, Nodes, Threads
<1>2. CASE CallCreate(t, k)
  <2>1. Grows /\ saved' = saved
    BY <1>1, <1>2, GrowsNode DEF CallCreate, history
  <2>2. CASE initDone
    BY <1>1, <1>2, <2>1, <2>2, SaysClone DEF CallCreate
  <2>3. CASE ~ initDone
    BY <1>2, <2>1, <2>3, SaysCall DEF CallCreate, Ending
  <2>4. QED
    BY <2>2, <2>3
<1>3. CASE CallJoin(t, k)
  <2>1. Grows /\ saved' = saved
    BY <1>1, <1>3, GrowsNode DEF CallJoin, history
  <2>2. QED
    BY <1>3, <2>1, SaysCall DEF CallJoin, Ending
<1>4. CASE CallKill(t, k)
  BY <1>4, SaysSame DEF CallKill, history
<1>5. CASE CallExit(t)
  BY <1>5, SaysEnd DEF CallExit, Ending
<1>6. QED
  BY <1>2, <1>3, <1>4, <1>5

(* thread_create and the start of a thread.                                *)
LEMMA SaysCreate ==
  ASSUME AnswerInv, IInv', NEW t \in Threads, thread_create(t) PROVE AnswerInv'
<1> DEFINE k == frame[t].k
<1>1. /\ node \in Nodes /\ frame \in [Threads -> Frames] /\ IInv
      /\ passed' = passed /\ got' = got
  BY DEF AnswerInv, IInv, TypeInv, TypeOK, Nodes, thread_create, history
<1>2. Grows
  <2>1. node' = node \/ node' = [node EXCEPT ![t].state = "RUNNING"]
    BY DEF thread_create
  <2>2. QED
    BY <1>1, <2>1, GrowsNode
<1>3. frame[t].op \in {"init", "create"} => k \in Kids /\ k \in Threads
  BY <1>1 DEF IInv, TypeInv, Args, Proper, Activations, Threads
<1>4. CASE /\ OpAt(t, "init", "found")
           /\ Goto(t, [Idle EXCEPT !.op = "create", !.at = "clone", !.k = k])
           /\ UNCHANGED saved
  BY <1>2, <1>3, <1>4, SaysClone DEF OpAt
<1>5. CASE /\ OpAt(t, "create", "clone")
           /\ frame' = [frame EXCEPT ![t] = Locking("insert", k, Null),
                                     ![k] = [Idle EXCEPT !.op = "body", !.at = "start"]]
           /\ UNCHANGED saved
  <2>1. PICK f, b : /\ f = Locking("insert", k, Null) /\ f.op = "insert" /\ f.at = "acq"
                    /\ b = [Idle EXCEPT !.op = "body", !.at = "start"] /\ b.op = "body" /\ b.at = "start"
    BY <1>3, <1>5, FrameTypes, BodyFrame DEF OpAt, Ops, Ats
  <2>2. \A u \in Threads : frame'[u] \in {frame[u], f, b} /\ saved'[u] = saved[u]
    BY <1>1, <1>5, <2>1
  <2>3. Says(f)' /\ Says(b)'
    BY <2>1 DEF Says, Stored, Ending
  <2>4. \A u \in Threads : \A g \in Activations(u)' : Bears(u, g) \/ Says(g)'
    BY <2>2, <2>3, BearsOld DEF Activations
  <2>5. QED
    BY <1>2, <2>4, SaysKeeps
<1>6. CASE Returns(t)
  BY <1>2, <1>6, SaysReturn
<1>7. CASE Goto(t, Idle) /\ UNCHANGED saved
  BY <1>2, <1>7, FrameTypes, SaysGoto DEF Ending
<1>8. QED
  BY <1>4, <1>5, <1>6, <1>7 DEF thread_create

(* thread_exit.                                                            *)
LEMMA SaysExit ==
  ASSUME AnswerInv, IInv', NEW t \in Threads, thread_exit(t) PROVE AnswerInv'
<1> DEFINE f == frame[t]
<1>1. /\ node \in Nodes /\ frame \in [Threads -> Frames] /\ saved \in [Threads -> Frames] /\ IInv
      /\ got' = got
  BY DEF AnswerInv, IInv, TypeInv, TypeOK, Nodes, thread_exit
<1>2. ASSUME node' = node, passed' = passed PROVE Grows
  BY <1>1, <1>2 DEF Grows
<1>3. f.op \in Ending => f.k = t /\ t \in Kids /\ f.v \in passed[t]
  <2>1. f.op \in Ending => f.k = t /\ t \in Kids
    BY <1>1 DEF IInv, TypeInv, Args, Proper, Activations, Ending
  <2>2. QED
    BY <2>1 DEF AnswerInv, Says, Activations
<1>4. f.at \in {"store1", "store2"} => f.op \in Ending
  BY <1>1 DEF IInv, TypeInv, Args, Proper, Fits, Activations, Ending
<1>5. CASE Returns(t) /\ UNCHANGED <<node, passed>>
  BY <1>2, <1>5, SaysReturn
<1>6. CASE /\ f.op = "exit" /\ Goto(t, Locking("return", t, Null)) /\ Passes(t, Null)
           /\ UNCHANGED <<node, saved>>
  BY <1>1, <1>3, <1>6, SaysEnd DEF Ending
<1>7. CASE Goto(t, [f EXCEPT !.at = "dead"]) /\ UNCHANGED <<node, saved, passed>>
  <2>1. GoAt(t, "dead")
    BY <1>1, <1>7 DEF Goto, GoAt
  <2>2. QED
    BY <1>2, <1>7, <2>1, SaysAt DEF Ats
<1>8. CASE GoAt(t, "store1") /\ UNCHANGED <<node, saved, passed>>
  BY <1>2, <1>8, SaysAt DEF Ats
<1>9. CASE f.at = "store1" /\ node' = Stores(t, 1) /\ GoAt(t, "store2") /\ UNCHANGED <<saved, passed>>
  <2>1. node' = [node EXCEPT ![t].ret = f.v]
    BY <1>9 DEF Stores, RetVal
  <2>2. /\ \A k \in Kids : node'[k].state = node[k].state
        /\ \A k \in Kids : node'[k].ret = node[k].ret \/ (k = t /\ node'[k].ret = f.v)
        /\ t \in Kids => node'[t].ret = f.v
    BY <1>1, <2>1 DEF Nodes
  <2>3. Grows
    BY <1>1, <1>3, <1>4, <1>9, <2>2 DEF Grows
  <2>4. /\ \A u \in Threads \ {t} : frame'[u] = frame[u]
        /\ frame'[t].at = "store2" /\ frame'[t].op = f.op /\ frame'[t].k = f.k /\ frame'[t].v = f.v
    BY <1>1, <1>9, GoAtKeeps DEF Ats
  <2>5. PICK g : g = frame'[t] /\ g.op = f.op /\ g.k = t /\ g.v = f.v
    BY <1>3, <1>4, <1>9, <2>4
  <2>6. Says(g)'
    BY <1>3, <1>4, <1>9, <2>2, <2>5 DEF Says
  <2>7. QED
    BY <1>9, <2>3, <2>4, <2>5, <2>6, BearsOld, SaysOwn
<1>10. CASE f.at = "store2" /\ node' = Stores(t, 2) /\ GoAt(t, "sysexit") /\ UNCHANGED <<saved, passed>>
  <2>1. node' = [node EXCEPT ![t].state = "TERMINATED"]
    BY <1>10 DEF Stores
  <2>2. /\ \A k \in Kids : node'[k].ret = node[k].ret
        /\ \A k \in Kids : node'[k].state = node[k].state \/ k = t
    BY <1>1, <2>1 DEF Nodes
  <2>3. node[t].ret \in passed[t]
    BY <1>3, <1>4, <1>10 DEF AnswerInv, Says, Stored, Activations
  <2>4. Grows
    BY <1>1, <1>10, <2>2, <2>3 DEF Grows
  <2>5. QED
    BY <1>10, <2>4, SaysAt DEF Ats
<1>11. CASE /\ GoAt(t, "dead") /\ saved' = [saved EXCEPT ![t] = NoFrame]
            /\ UNCHANGED <<node, passed>>
  <2>1. /\ \A u \in Threads \ {t} : frame'[u] = frame[u] /\ saved'[u] = saved[u]
        /\ frame'[t].at = "dead" /\ frame'[t].op = f.op /\ frame'[t].k = f.k /\ frame'[t].v = f.v
        /\ saved'[t] = NoFrame
    BY <1>1, <1>11, GoAtKeeps DEF Ats
  <2>2. Bears(t, frame'[t])
    BY <2>1 DEF Bears, Activations, Stored
  <2>3. Says(NoFrame)'
    BY FrameTypes DEF Says, Stored, Ending
  <2>4. QED
    BY <1>2, <1>11, <2>1, <2>2, <2>3, SaysOwn
<1>12. QED
  BY <1>5, <1>6, <1>7, <1>8, <1>9, <1>10, <1>11 DEF thread_exit, At

(* thread_join.                                                            *)
LEMMA SaysJoin ==
  ASSUME AnswerInv, IInv', NEW t \in Threads, thread_join(t) PROVE AnswerInv'
<1> DEFINE k == frame[t].k
<1>1. /\ node' = node /\ passed' = passed /\ frame[t].op = "join" /\ k \in Kids
      /\ frame \in [Threads -> Frames]
  BY DEF AnswerInv, IInv, TypeInv, TypeOK, Args, Proper, Activations, thread_join, OpAt
<1>2. got' = got => Grows
  BY <1>1 DEF Grows
<1>3. CASE Returns(t) /\ got' = got
  BY <1>2, <1>3, SaysReturn
<1>4. CASE GoAt(t, "wait") /\ UNCHANGED <<saved, got>>
  BY <1>2, <1>4, SaysAt DEF Ats
<1>5. CASE Ended(k) /\ GoAt(t, "read") /\ UNCHANGED <<saved, got>>
  <2>1. /\ \A u \in Threads \ {t} : frame'[u] = frame[u]
        /\ frame'[t].at = "read" /\ frame'[t].op = "join" /\ frame'[t].k = k
    BY <1>1, <1>5, GoAtKeeps DEF Ats
  <2>2. node[k].ret \in passed[k]
    BY <1>1, <1>5 DEF AnswerInv, Ended
  <2>3. PICK g : g = frame'[t] /\ g.op = "join" /\ g.k = k
    BY <2>1
  <2>4. Says(g)'
    BY <1>1, <2>2, <2>3 DEF Says, Ending
  <2>5. QED
    BY <1>2, <1>5, <2>1, <2>3, <2>4, BearsOld, SaysOwn
<1>6. CASE /\ frame[t].at = "read" /\ got' = got \cup {<<k, node[k].ret>>}
           /\ Goto(t, Locking("clean", k, Null)) /\ UNCHANGED saved
  <2>1. node[k].ret \in passed[k]
    BY <1>1, <1>6 DEF AnswerInv, Says, Stored, Activations
  <2>2. Grows
    BY <1>1, <1>6, <2>1 DEF Grows
  <2>3. QED
    BY <1>6, <2>2, SaysCall DEF Ending
<1>7. QED
  BY <1>3, <1>4, <1>5, <1>6 DEF thread_join, OpAt, At

(* To the test of cleanupAll's loop.                                       *)
LEMMA SaysTest ==
  ASSUME AnswerInv, IInv', Grows, NEW t \in Threads, saved' = saved,
         Goto(t, [Idle EXCEPT !.op = "all", !.at = "test"])
  PROVE  AnswerInv'
<1>1. PICK f \in Frames : /\ f = [Idle EXCEPT !.op = "all", !.at = "test"]
                          /\ f.op = "all" /\ f.at = "test"
  BY AllFrame
<1>2. Goto(t, f) /\ f.op \notin Ending /\ f.at \notin {"store2", "read"}
  BY <1>1 DEF Ending
<1>3. QED
  BY <1>2, SaysGoto

(* cleanup.                                                                *)
LEMMA SaysCleanup ==
  ASSUME AnswerInv, IInv', NEW t \in Threads, cleanup(t) PROVE AnswerInv'
<1>1. node \in Nodes /\ passed' = passed /\ got' = got
  BY DEF AnswerInv, IInv, TypeInv, TypeOK, Nodes, cleanup, history
<1>2. PICK k : k = frame[t].k
  OBVIOUS
<1>3. \/ node' = node
      \/ node' = [node EXCEPT ![k].stack = "unmapped"]
      \/ node' = [node EXCEPT ![k].frees = @ + 1]
  BY <1>2 DEF cleanup
<1>4. Grows
  BY <1>1, <1>3, GrowsNode
<1>5. CASE CleanReturns(t)
  BY <1>4, <1>5, SaysReturn, SaysTest DEF CleanReturns
<1>6. CASE (GoAt(t, "munmap") \/ GoAt(t, "free")) /\ UNCHANGED saved
  BY <1>4, <1>6, SaysAt DEF Ats
<1>7. QED
  BY <1>5, <1>6 DEF cleanup

(* The end of main.                                                        *)
LEMMA SaysMain == ASSUME AnswerInv, IInv', CallMainExit \/ cleanupAll PROVE AnswerInv'
<1>1. Main \in Threads /\ node' = node /\ saved' = saved /\ passed' = passed /\ got' = got
  BY DEF CallMainExit, cleanupAll, history, Threads
<1>2. Grows
  BY <1>1 DEF Grows
<1>3. CASE CallMainExit
  BY <1>1, <1>2, <1>3, SaysTest DEF CallMainExit
<1>4. CASE UNCHANGED frame
  BY <1>1, <1>4, SaysSame
<1>5. CASE GoAt(Main, "head")
  BY <1>1, <1>2, <1>5, SaysAt DEF Ats
<1>6. CASE Goto(Main, Locking("cleanall", Head(list), Null))
  BY <1>1, <1>2, <1>6, SaysCall DEF Ending
<1>7. QED
  BY <1>3, <1>4, <1>5, <1>6 DEF cleanupAll

(* The SIGUSR1 handler calls thread_exit(NULL).                            *)
LEMMA SaysHandler ==
  ASSUME AnswerInv, IInv', NEW t \in Threads, sigusr_signal_handler(t) PROVE AnswerInv'
<1>1. t \in Kids
  BY DEF AnswerInv, IInv, TypeInv, TypeOK, sigusr_signal_handler
<1>2. QED
  BY <1>1, SaysEnd DEF sigusr_signal_handler, Ending

(* However joins, kills and the end of a thread before its insertion       *)
(* interleave: what thread_join returns was given to thread_exit by the    *)
(* thread it waited for, at the latest by execute_me or by the handler.    *)
(* malloc must not happen to leave THREAD_TERMINATED in a new node.        *)
THEOREM Delivered ==
  ASSUME "TERMINATED" \notin HeapStates PROVE Spec => []ValueDelivered
<1>1. Init => AnswerInv
  <2> SUFFICES ASSUME Init PROVE AnswerInv
    OBVIOUS
  <2>1. /\ \A t \in Threads : \A f \in Activations(t) : f.op = "none" /\ f.at \in {"unborn", "idle"}
        /\ got = {} /\ \A k \in Kids : node[k].state # "TERMINATED"
    BY FrameTypes DEF Init, Activations
  <2>2. QED
    BY <2>1, InitInv DEF AnswerInv, Says, Stored, Ending, ValueDelivered
<1>2. AnswerInv /\ [Next]_vars => AnswerInv'
  <2> SUFFICES ASSUME AnswerInv, [Next]_vars PROVE AnswerInv'
    OBVIOUS
  <2>1. IInv'
    BY StepInv DEF AnswerInv
  <2>2. CASE UNCHANGED vars
    BY <2>1, <2>2, SaysSame DEF vars
  <2>3. ASSUME NEW t \in Threads, NEW k \in Kids, CallCreate(t, k) \/ CallJoin(t, k) \/ CallKill(t, k)
        PROVE  AnswerInv'
    BY <2>1, <2>3, SaysProgram
  <2>4. ASSUME NEW t \in Threads, CallExit(t) PROVE AnswerInv'
    <3>1. t \in Kids
      BY <2>4 DEF CallExit
    <3>2. QED
      BY <2>1, <2>4, <3>1, SaysProgram
  <2>5. ASSUME NEW t \in Threads, Segv(t) PROVE AnswerInv'
    BY <2>1, <2>5, SaysSame DEF Segv, history
  <2>6. ASSUME NEW t \in Threads, Library(t) PROVE AnswerInv'
    BY <2>1, <2>5, <2>6, SaysLock, SaysCreate, SaysExit, SaysJoin, SaysCleanup, SaysMain DEF Library
  <2>7. CASE CallMainExit
    BY <2>1, <2>7, SaysMain
  <2>8. QED
    BY <2>1, <2>2, <2>3, <2>4, <2>6, <2>7, SaysHandler DEF Next
<1>3. AnswerInv => ValueDelivered
  BY DEF AnswerInv
<1>4. QED
  BY <1>1, <1>2, <1>3, PTL DEF Spec
=============================================================================
