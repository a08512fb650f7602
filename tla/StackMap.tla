------------------------------ MODULE StackMap ------------------------------
(***************************************************************************)
(* The memory of the stacks of the one-one library: what thread_create     *)
(* maps for a stack, according to the attributes, and what the cleanup     *)
(* after thread_join unmaps.  Addresses and sizes are in pages; the guard  *)
(* is one page.  Joins come one after the other here, and the interleaving *)
(* of the library's threads is in OneOne.                                  *)
(***************************************************************************)
EXTENDS Naturals, SequencesExt

CONSTANTS
  Threads, (* the threads thread_create may make, each at most once        *)
  Free,    (* nobody's: an unmapped page                                   *)
  Program, (* the program, as the owner of a page                          *)
  Top,     (* the pages are 0 .. Top                                       *)
  Heap,    (* the pages the program has mapped: it may use any as a stack  *)
  Default, (* DEFAULT_STACK_SIZE                                           *)
  Sizes    (* the values of stackSize programs ask for, other than 0       *)

Guard == 1

Pages == 0 .. Top

VARIABLES
  owner, (* per page, who has mapped it                                    *)
  node,  (* per thread: stack_start, stack_size, and what it does          *)
  list   (* tid_table.list                                                 *)

vars == <<owner, node, list>>

Init ==
  /\ owner = [p \in Pages |-> IF p \in Heap THEN Program ELSE Free]
  /\ node = [t \in Threads |-> [start |-> 0, size |-> 0, is |-> "unborn"]]
  /\ list = <<>>

(* The pages of a mapping of the given size; those past the last page of   *)
(* the address space do not exist.                                         *)
Extent(start, size) == {p \in Pages : start <= p /\ p < start + size}

(* clone and tid_insert; a clone that fails leaves the stack mapped.       *)
Start(t, start, size) ==
  \/ /\ node' = [node EXCEPT ![t] = [start |-> start, size |-> size, is |-> "live"]]
     /\ list' = <<t>> \o list
  \/ /\ node' = [node EXCEPT ![t].is = "gone"]
     /\ UNCHANGED list

(* thread_create with a stack of the program, which no other thread uses:  *)
(* stackSize = 0                                                           *)
CreateOn(t, start) ==
  /\ node[t].is = "unborn" /\ owner[start] = Program
  /\ \A u \in Threads : node[u].is = "live" => node[u].start # start
  /\ Start(t, start, Guard)
  /\ UNCHANGED owner

(* thread_create: mmap finds room anywhere                                 *)
Create(t, start, stackSize) ==
  LET size == Guard + stackSize IN
  /\ node[t].is = "unborn" /\ start + size <= Top + 1
  /\ \A p \in Extent(start, size) : owner[p] = Free
  /\ owner' = [p \in Pages |-> IF p \in Extent(start, size) THEN t ELSE owner[p]]
  /\ Start(t, start, size)

(* The end of the thread: it is off its stack.                             *)
End(t) ==
  /\ node[t].is = "live"
  /\ node' = [node EXCEPT ![t].is = "ended"]
  /\ UNCHANGED <<owner, list>>

(* What cleanup unmaps: for the head of the list it gives the address of   *)
(* the node, which munmap refuses.                                         *)
Unmapped(t) ==
  IF Head(list) = t \/ node[t].size = 0 THEN {} ELSE Extent(node[t].start, Default + Guard)

Join(t) ==
  /\ node[t].is = "ended"
  /\ owner' = [p \in Pages |-> IF p \in Unmapped(t) THEN Free ELSE owner[p]]
  /\ list' = RemoveFirst(list, t)
  /\ node' = [node EXCEPT ![t].is = "gone"]

(* A thread that has lost the page it starts on ends the process.          *)
Intact ==
  \A t \in Threads :
    node[t].is = "live" => owner[node[t].start + node[t].size - 1] # Free

Next ==
  Intact /\ \E t \in Threads :
    \/ \E start \in Pages : CreateOn(t, start) \/ \E s \in Sizes \cup {Default} : Create(t, start, s)
    \/ End(t) \/ Join(t)

Spec == Init /\ [][Next]_vars

-----------------------------------------------------------------------------
(* A stack that the program gave to a thread is still the program's after  *)
(* the join: "stack size not 0 means stack is not given by user"           *)
(* (one-one.c:62).                                                         *)
UserStackKept ==
  [][\A t \in Threads :
       LET start == node[t].start IN
       node[t].is = "ended" /\ owner[start] = Program => owner'[start] = Program]_vars
=============================================================================
