# Verification of threadLib

threadLib is three user-level thread libraries with one interface
(`thread_create`, `thread_join`, `thread_exit`, `thread_kill`, `thread_lock`,
`thread_unlock`, `thread_mutex_lock`, `thread_mutex_unlock`):

- **one-one** (`src/src/one_one`): a kernel thread, made by `clone`, per user thread;
- **many-one** (`src/src/many_one`): all user threads on one kernel thread,
  switched by `SIGALRM` and `siglongjmp`;
- **many-many** (`src/src/many_many`): m user threads on n kernel threads.

This directory holds TLA+ models of the code, TLC configurations and TLAPS proofs.
Line numbers below are those of the source files; `PROJECT.json` maps every
definition to the lines it models.

## 1. Inventory

### one-one

| component | state | operations | hard | correct when |
|---|---|---|---|---|
| spinlock (`lock.c` 11-57) | `locked`, `tid` | `initlock`, `acquire`, `release` | the checks read two fields without the lock; stores of `tid` and `locked` are separate | mutual exclusion; `exit(1)` for illegal calls and for no others; implements an abstract lock |
| sleeplock (`lock.c` 59-100) | `locked`, `tid`, inner spinlock `lk` | `initsleeplock`, `acquiresleep`, `releasesleep` | waits that do not wait, retaken inner lock | the same abstract lock; legal use of the inner lock; a free lock is taken |
| threads (`one-one.c`) | `tid_table` (list, spinlock), per node `state`, `ret_val`, stack, `wrapper_fun` | `thread_create`, `execute_me`, `thread_exit`, `thread_join`, `cleanup`, `cleanupAll`, `thread_kill`, the `SIGUSR1` handler | a thread runs before its node is in the list; state and value are written and read without the lock; the handler runs `thread_exit` on top of anything; `exit` walks the list while threads run | a join returns, after the end of the thread and with its value; a node is cleaned up once |
| stacks and attributes (`one-one.c` 172-230, 36-68) | the mapped pages, `stack_start`, `stack_size` | `thread_create`, `cleanup` | the size is stored with the guard added and not used when unmapping | cleanup unmaps the stack of the thread and nothing else |

### many-one

| component | state | operations | hard | correct when |
|---|---|---|---|---|
| threads and scheduler (`many-one.c`) | `thread_list`, `curr_running_proc`, per node `state`, `chan`, `t_context`; the `SIGALRM` mask and the timer | `thread_create`, `thread_exit`, `thread_join`, `cleanup`, `thread_kill`, `signal_handler_alarm`, `scheduler` | the alarm between any two steps, the scheduler's own included; contexts saved over; freed nodes | one thread runs and `curr_running_proc` names it; terminated threads stay so; a node is unlinked and freed once; no runnable thread starves |
| locks (`lock.c`, `utils.c`) | the owners of `thread_list.lock` and of `lk`; `locked`, `tid` | `acquire`, `release` (which block and unblock the alarm), `acquiresleep`, `releasesleep`, `sleep_lock`, `wakeup_lock` | releasing one lock unblocks the alarm with another still held; sleep and wakeup | the abstract lock; no lost wakeup; a spinlock is free, or held by a thread that will release it |
| pending user signals | `sig_info`: an array of 10 and a count | `thread_kill` of other signals, `handle_pending_signals` | unlocked append in two stores, no limit test, a mask built on an uninitialised set | the alarm is unblocked and the timer started when the handler is through |

### many-many

| component | state | operations | hard | correct when |
|---|---|---|---|---|
| threads and schedulers (`many-many.c`) | the list, `curr_running_proc_array`, `kthread_index`, `scheduler_node_array`, `alarm_index` | as many-one, plus `SIGALRM` passed on as `SIGVTALRM` to the next kernel thread | everything of many-one on several processors; unlocked read-modify-writes of `state`; an index published after the thread that looks it up has started; signals inside signal handlers | the array names the thread that executes; `thread_exit` ends its caller |
| locks (`lock.c`, `utils.c`) | as many-one; the caller's identity comes from `kthread_index` | as many-one | a context resumed elsewhere while its thread still runs; an index looked up with the signals unblocked | the abstract lock; no lost wakeup; no exit for a legal call |

How the components interact: threads of all three libraries share a list under
a spinlock; `thread_join` shares the node's fields with `thread_exit` without it;
signal handlers call library code on the stack they interrupt; the sleeplock is
built on the spinlock, in the two scheduled libraries also on the list and the
scheduler. `mangle` and `jmp.c` forge the register image of a first context.

The hazards of this code, each at its line and with the properties that cover
it, are in `PROJECT.json` under `hazards`; those without a property have a note
saying why.

## 2. Modules

| module | models | depends on |
|---|---|---|
| `LockSpec` | what the interface promises of a lock: an owner, a call per thread, and `exit(1)` for illegal calls only | |
| `SpinLock` | one-one `acquire`, `release`, one step per access to a field | refines `LockSpec` |
| `SleepLock` | one-one `acquiresleep`, `releasesleep` and their futex calls | refines `LockSpec`, is a legal client of it |
| `OneOne`, `OneOneMC` | `one-one.c`; its lock is `LockSpec`'s plus whether `tid` names the owner | |
| `StackMap` | the pages `thread_create` maps and `cleanup` unmaps in one-one | |
| `ManyOne`, `ManyOneMC` | `many-one.c` with its `lock.c` and its user signals | refines `LockSpec` |
| `ManyMany` | `many-many.c` and its `lock.c` | refines `LockSpec` |
| `ListProofs` | lemmas about the searches, insertions and removals of the thread lists | TLAPS |
| `SpinLockProofs`, `SleepLockProofs`, `OneOneProofs`, `OneOneNodeProofs`, `ManyOneProofs`, `ManyOneMutexProofs`, `ManyManyProofs` | theorems | TLAPS |

The `MC` modules only add a symmetry set. A definition whose comment begins with
*Mutant* is not part of a model: it is the body a plausible bug would give the
definition after it, and `PROJECT.json` lists which property TLC then finds
violated.

### How state and actions correspond to the code

**SpinLock.** `locked` and `tid` are the fields of `struct spinlock`; `pc` names
the next memory access of each thread; `holds` is the client's view and
`exiter` the thread in `exit(1)`. The client calls anything at any time. A failing
`xchg` stores 1 over 1, so the loop of line 37 is the disabled action `Xchg`.
The initial `tid` names nobody, as in static storage (`initlock` does not write it).

**SleepLock.** `spin` is the owner of the inner lock; an inner `acquire` or
`release` is a call and an effect, and the code between them one step. The two
`futex` calls pass the value of `lk->locked` where an address is wanted
(`waitArgument`, `wakeArgument`), so the kernel refuses them: waiters poll.

**OneOne.** `frame[t]` is the activation of library code of thread `t`: the operation,
its next step, the thread and value it is about, and the outcome of its list
walk; `saved[t]` is the frame under the `SIGUSR1` handler. List operations share
the steps `acq`, `name`, `crit`, `unname`, `unlock`: the steps before and after
the naming of the owner are visible to a handler that calls `acquire` again. `node`
holds `state`, `ret_val`, whether the stack is mapped, and how often
`wrapper_fun` was freed; a thread without a stack faults at its next step. `passed`
and `got` are history variables. A user's stack is taken to be page aligned, since
otherwise the `munmap` of line 63 fails.

**StackMap.** `owner` says per page who has it mapped, `node` what the node of a
thread says of its stack. A `clone` that fails leaves the stack mapped. `Unmapped`
is what the two calls of `munmap` in `cleanup` do: nothing for the head of the list,
whose call gets the address of the node; the default size for any other.

**ManyOne.** `run.cpu` is the stack that executes, `sig` the mask, the timer and the
pending alarm. `Alarm` may happen between any two steps: it stays pending while
blocked and otherwise runs `signal_handler_alarm`. A context is modelled by where
a jump to it leads and is spent by the jump; a jump to a spent one, or into the
scheduler's reused stack, is undefined, and the model stops there (`fate =
"lost"`). A thread resumed in its handler goes through `handle_pending_signals`:
`run.at` is "resumed", then "raising", and `post.loops[t]` is the stack of the loop
bounds `k` of the handlers nested on it. Of a user signal only the count of its target
is kept; `Post` stores the count before the slot, as the compiled
`arr[rem_sig_cnt++] = signal` may; an index outside the array, or a freed node,
ends the behaviour (`fate = "fault"`). `CallCreate` loads the static `id` and
`thread_create` stores it, with the alarm possible between: two threads that would be
given one tid end the behaviour (`fate = "clash"`), because a node is a thread here and
every lookup by tid would find the wrong one. The state starts where `init_many_one`
ends.

**ManyMany.** Main makes all threads, so thread `t` is the `t`-th and the list is
`n-1, ..., 1, 0`. `kt[i]` is kernel thread `i`: whose stack it executes (`on`), its entry
of `curr_running_proc_array` (`curr`), its signal mask and pending `SIGVTALRM`, whether
`kthread_index` knows it (`pub`), and the registers of the scheduler on it. `act[t]` is
the library step the stack of thread `t` is at, with the kernel thread index it has
looked up (`idx`) and may use later on another kernel thread. A section of
`thread_list.lock` is one step: its holder has the signals blocked and takes no
other lock. The inner lock of the sleeplock is visible from `UnlockWake`, which
unblocks the signals, to the end of `release`, which looks the kernel thread up
(`Unlocked`) and then reads its entry of the array (`Releasing`). `hand[c]` is the SIGALRM
handler on kernel thread `c`, main's included: the timer expires (`Expire`), the kernel
chooses a thread that does not block the signal (`Deliver`), and `ualarm(0,0)`, the load
and the store of `alarm_index` and the `tgkill` are steps of their own, into which the
SIGVTALRM of another handler may come. `Preempt(i)` is `signal_handler_vtalarm` on kernel
thread `i`, on top of anything. A jump to a spent context, or to a stack on which
another kernel thread executes, is undefined: `Go` and `ToScheduler` take it, and
`fate = "lost"` ends the behaviour.

## 3. Runs

Passing runs, all exhaustive (distinct states as measured with two workers; the
largest take about two minutes):

| run | instance | states | shows |
|---|---|---|---|
| `SpinLock` | 3 threads, any calls, fair | 1.7 thousand | `OwnerNamed`, `ImplementsLock`, `LockHandedOn` |
| `SleepLock` | 3 threads, any calls, fair | 2.0 thousand | `ImplementsLock`, `UsesSpinLegally`, `FreeLockTaken` |
| `OneOneJoin` | main and 2 threads that all create and join, 2 joins | 240 thousand | `JoinMeansDone`, `ValueDelivered`, `NodeConserved`, `TerminatedIsFinal` |
| `OneOneKill` | the same, one SIGTERM at any step, main returns at any time | 1.4 million | `SectionOwned`, `NodeInOnePlace` |
| `ManyOneAny` | main and 2 threads, any use of the mutex, a join, alarm anywhere | 2.3 million | `ListLockFree`, `CurrRuns`, `NoLostWakeup`, `SpinsForUnlock`, `ImplementsLock` |
| `ManyOneKill` | main and 2 threads with the mutex, one SIGTERM of a thread in any state, one user signal, alarm anywhere | 2.7 million | `AlarmComes`, `TerminatedStays` |
| `ManyOneLive` | main and 1 thread, the mutex, a join, alarm anywhere, fair | 15 thousand | `RunnableRuns`, `FreeMutexTaken` |
| `ManyManyAny` | 2 kernel threads, 3 threads: two share the mutex, one of them in any way, the other ends; a SIGTERM or a join of it; signals anywhere | 870 thousand | `CurrRuns`, `NoLostWakeup`, `ImplementsLock` |

Violating runs, each a disagreement of the code with what the repository says of
it (quoted in `PROJECT.json` under `findings`):

| run | what happens |
|---|---|
| `OneOneEarly` | a thread that ends before its `thread_create` has inserted its node is never marked terminated; a join of it spins for ever |
| `StackMap` | the cleanup after a join unmaps a stack the program gave to its thread |
| `ManyManyUnlock` | a legal `thread_mutex_unlock` ends the process: the thread is moved to another kernel thread between the lookup of its kernel thread and the read of the entry, inside the last `release` of `releasesleep` |
| `ManyManyExit` | `thread_exit` of a thread that is not the newest marks another thread terminated |

No run leaves out a place the alarm or a signal can come in. Where the code then does
something undefined the behaviour ends, and what the runs say is said up to there and
of the state it ends in:

- **many-one.** The handler saves whatever stack executes into the context of
  `curr_running_proc`. In the scheduler that is the scheduler's stack, and between
  `sigsetjmp` and `siglongjmp` of `sleep_lock` it overwrites the context just saved: the
  thread is later resumed on a stack that was used since (`fate = "lost"`). An alarm in
  the last `release` of `releasesleep` leaves the inner lock with a thread off the
  processor, and the next thread spins on it with the alarm blocked, for ever (`Stuck`);
  `SpinsForUnlock` says that no other place of the library does this.
- **many-one signals.** Two senders use one slot, a loop of `handle_pending_signals` may be
  interrupted by another whose count it has already read, and the array is written
  past its end (`fate = "fault"`). The code promises none of the contrary.
- **many-many.** A sleeper may be woken and resumed on one kernel thread while the other
  is still on its stack; a signal in the scheduler, or before the jump of `sleep_lock`,
  spends or overwrites a context (`fate = "lost"`). `thread_kill` of a thread is overwritten
  by the unlocked stores of `execute_me_oo` and of the scheduler; its SIGTERM branches
  leave the timer off; a SIGVTALRM sent to an entry that is not assigned goes to nobody.
  For these no property is stated, and no liveness: the code gives none.
- **one-one.** With a kill, `TerminatedIsFinal` fails: a SIGTERM between lines 153 and 154
  overwrites the value of a terminated thread; so it is stated for programs that do
  not kill, and `NodeConserved` too, as a thread killed in `cleanup` takes the unlinked
  node with it. A SIGTERM inside the section of the table's lock ends the process with
  `exit(1)`, and the model has it do so. With 21 (THREAD_TERMINATED) in `HeapStates`,
  `JoinMeansDone` fails. A join unmaps a stack its thread needs for one more system
  call (`cleanup`, `Segv`), except at the head of the list. A thread that calls
  `thread_exit(v)` before its node is inserted returns from it, and the `thread_exit(NULL)`
  of `execute_me` may then find the node: `ValueDelivered` allows the value of either
  call.

**Bounds.** Two created threads and main are enough for a node at the head and
one inside the list, for two contenders besides the holder of a lock, for two
sleepers, and for a thread that joins while another ends. In `ManyManyAny` two kernel
threads and three threads give a thread that waits in the list while both kernel
threads are busy, the least for one to be taken over by the other. `Enders`, `MutexUsers`,
`Careless`, `Killers` and `Targets` say what the program of each thread does there:
1 and 2 use the mutex, one cloned and one queued; 1 ends, so that its kernel thread takes
over another; 2 misuses the mutex and kills. `MaxCalls` = 1 is a kill or a join of 1, at
any moment. Main, which is never preempted, does not use the mutex there (three times
the states); the theorems cover it. `MaxAlarms` = 2 is the least for two SIGALRM handlers at once and for a
preemption of each kernel thread, which the violation of `StrictLock` needs. Each thread
is created once. `MaxJoins`, `MaxKills` and `MaxSigs` bound the calls in a behaviour: two joins
are needed to join the same thread twice, one kill reaches every state because it
may come at any step. `Slots` is 1 or 2 in place of 10. Calls of the locks, and quanta and
alarms in many-one, are not bounded. `Values` has one value besides NULL, enough to tell a
value from its loss, and none in `OneOneKill`, which is not about values. `StackMap` has 8
pages, a default of two and sizes on both sides of it.

`Disciplined` (a program unlocks what it has locked, and does not end with it) is FALSE
in `ManyOneAny`, and `Careless` has a thread in `ManyManyAny`.

**Fairness.** In one-one the operating system runs every thread that can take a step
(weak fairness per thread) and delivers signals; routines end. `LockHandedOn` also
needs holders to call `release`. In many-one the processor executes the scheduler, the
alarm handler and its loop (weak fairness). The timer is a one-shot timer which every
`release`, `thread_kill`, scheduler and resumed handler sets back: it expires, or is
stopped, or is set back again and again (the second conjunct of `Fairness`; there is no
fairness of `Alarm` itself). A program that calls the mutex without end may therefore
never be interrupted, and the two liveness properties are stated for programs whose
calls end (`CallsEnd`). A thread that gets the processor again and again is not always
interrupted before its next step (strong fairness of its library steps), as 100
microseconds are many instructions, nor is the scheduler on its way to one thread, or
a handler before its `ualarm(0,0)`. Programs give the mutex back. The escapes of the
two properties are `Stuck` and the end of the behaviour, which the code does not exclude.

**Deadlock.** The lock runs check for it. The others do not: a program may stop
calling, the busy waits are disabled actions, and a spinlock spun on with the
alarm blocked really stops the many-one library.

## 4. Proofs

For any set of threads, from the only assumption that `NoTid` is not a thread:

- `SpinLockProofs`: `TypeOK`, `MutualExclusion`, `OwnerNamed`, `MisuseStopped` are
  invariants, and `SpinLock` implements `LockSpec` (`Refinement`). The inductive
  invariant is the conjunction of the four. `MutualExclusion` alone is not
  inductive: whether the exchange succeeds depends on `locked`, and whether the
  unlocked checks let a caller pass depends on `tid`; `OwnerNamed` says what both fields
  are for every holder, step by step.
- `SleepLockProofs`: `TypeOK` and `SpinBalanced` are invariants, `SleepLock`
  implements `LockSpec` (`Refinement`) and is a legal client of the `LockSpec` it is
  built on (`LegalClient`): no inner check ever ends the process. The inductive
  invariant adds that a thread on its way to the `exit(1)` of a double lock still
  owns the mutex after it left the inner lock.

The two refinements compose: the sleeplock uses of the spinlock exactly what the
spinlock is proved to provide.

For any set of threads, joins and kills, with a SIGUSR1 handler on top of any step,
from `OneOneAssumption`:

- `OneOneProofs`: `TypeOK` and `SectionOwned` are invariants (`TypeCorrect`, `TableOwned`), and
  so is `JoinMeansDone` (`JoinAfterEnd`) when malloc does not leave THREAD_TERMINATED in a
  new node, which is the assumption of that theorem. `SectionOwned` needs to know that a
  handler that runs on top of a section cannot get the lock again, and that only
  `thread_exit` runs on top of something (`Handling`). What a `clone` does to the other
  thread's frame is harmless only because that thread has one creator and no frame
  before (`Creation`). `JoinMeansDone` adds `Ends`: a node that says THREAD_TERMINATED
  belongs to a thread that is past its last store, or to one that a handler
  interrupted there. That every step keeps this is shown from three facts about each
  action, collected in `Honest`. The run `OneOneJoin`
  checks `JoinMeansDone` without kills; the theorem covers them too.
- `OneOneNodeProofs`: `NodeInOnePlace` is an invariant (`OneFree`) without any assumption.
  `NodeInv` adds to the invariant above, for each thread: at most one thread that
  inserts its node and at most one that cleans it up, and no place for the node
  before the insertion (`OnePlace`); that the list has nobody twice; and that before
  the list is made by the first `thread_create` nobody but main has run (`Starting`).
  What any step does to nodes is one of four things, shown once per action and
  collected in `Moves`: it takes no node anywhere, it is the clone, a section, or the free
  that ends a cleanup.
- From the same invariant: `NodeConserved` (`OnePlaceAlways`) if `MaxKills = 0`, since a thread
  killed in `cleanup` takes the node it has unlinked with it.
- `TerminatedIsFinal` (`FinalAnswer`) if `MaxKills = 0` and malloc does not leave THREAD_TERMINATED
  behind: a handler that runs after the last store stores NULL over the value.
- `ValueDelivered` (`Delivered`) if malloc does not leave THREAD_TERMINATED behind, with any
  kills, and for threads that end before their node is inserted too: who is past the
  search of `thread_exit` has passed the value it is about to store, and a TERMINATED
  node has one that was passed.

For any set of threads, calls, kills and user signals, with the alarm between any two
steps, from `ManyOneAssumption`:

- `ManyOneProofs`: `TypeOK`, `CurrRuns`, `ListLockFree` and `AlarmComes` are invariants
  (`TypeCorrect`, `Caller`, `ListLock`, `Alarmed`), and `TerminatedStays` holds of every step
  (`Terminated`). None of them is inductive alone: what the
  scheduler does rests on what it picked two steps before, and what a thread does on
  where it was when the alarm took the processor. `IInv` has five parts besides the
  types. `Processor`: who executes, and that the node the scheduler has picked is in the
  list and RUNNABLE; it is not freed, because `cleanup` frees only TERMINATED nodes it
  has unlinked. `Args`: where each operation can be, and that `cleanup`, once past its
  wait, is about a TERMINATED thread. `Executing`: a thread that executes is RUNNING, but
  for the last steps of `thread_exit` and `sleep_lock`. `Masks`: whoever stands at a
  step at which the alarm must not be delivered executes its own code with the alarm
  blocked; whoever executes its own code elsewhere has it unblocked. `Locks`: the owner
  of each spinlock is the thread whose frame says so. The step of each operation is
  shown once to be one of the few effects listed in `Moves`, and everything that is
  proved on top of `IInv` is proved from `Moves`, not from the operations again.
- `SpinsForUnlock` (`SpinsOnlyForUnlock`): a thread off the processor that owns a spinlock
  owns `lk` and is at the last release of `releasesleep`. `Masks` and `Locks` give it while
  the process runs: who has the alarm blocked keeps the processor. That a process that
  has ended did not end at an exchange is `Stopped`.
- `FreedOnce` (`NodesFreedOnce`, stated in `ManyOneProofs`): of any
  number of threads that join one thread, only one unlinks and frees its node. No run
  checks it, as two joins among three threads with the alarm anywhere are too many
  states to add to `ManyOneAny`. A thread keeps a pointer to a node outside the list at two
  places: between the two halves of `thread_create`, and in `cleanup` between the
  unlinking and the free. `ListInv` says that the list has nobody twice and no node that
  is unborn or freed (`Linked`), and that such a pointer is to a node that is not in
  the list and that no other thread inserts, or unlinks and frees (`Pointers`). Most
  operations neither insert nor unlink, which is proved once (`Settled`); only creation,
  insertion and cleanup have a lemma of their own.
- `ManyOneMutexProofs`: the sleeplock implements `LockSpec` (`Refinement`), kills and alarms
  included; as in the other libraries, `acquiresleep` up to its return is one pending
  call. `NoLostWakeup` is an invariant if `MaxKills = 0` (`Wakeup`), with the alarm at
  every step: a thread goes to sleep inside `lk`, and `releasesleep` looks for sleepers
  after it has freed the mutex, in `lk` again. The assumption is needed: a kill of the
  thread that was just woken loses its wakeup. `Asleep` adds to `IInv` that sleepers are
  in the list with their `chan` set, and that nobody dies elsewhere than in
  `thread_exit`.

`ListProofs` has the lemmas on lists that the proofs about one-one and many-one share:
`RemoveFirst` removes one node and leaves the others in their order, and what an
insertion at the head and a removal leave of a list that has nothing twice.

For any number of kernel threads, threads and calls, from `ManyManyAssumption`:

- `ManyManyProofs`: `TypeOK` and `CurrRuns` are invariants (`TypeCorrect`, `Caller`), with every
  signal at every step. `CurrRuns` is far from inductive: the step that could break it is
  the jump of a scheduler, and what the scheduler jumps to was decided several steps
  before. The inductive invariant `IInv` adds what each step of a scheduler knows of its
  node pointer and of the array (`Scheduling`), that no thread's stack is executed on by
  two kernel threads while the process runs (`OneStack`; the undefined jump that would
  break it ends the behaviour), that the context of a thread that executes is spent, or
  the one `sleep_lock` has just saved, and that a looked-up index is a kernel thread
  (`Contexts`), that nobody has to do with a thread not yet started (`Unborn`), the order in
  which kernel threads are started and published (`Cloned`), and the order of the list
  (`Inserted`).
- The sleeplock implements `LockSpec` (`Refinement`) but for one exit: `ImplementsLock` leaves
  the `exit` of the owner check of `release` out of the mapping, and `ManyManyUnlock` shows
  that with it (`StrictLock`) the refinement fails. `acquiresleep` up to its return is one
  pending call of the abstract lock, whatever sleeping and rescheduling happens inside
  it.
- `NoLostWakeup` is an invariant (`NobodyLeftAsleep`) without any assumption on the program
  or on the signals. `Way` says that whoever has set `chan` is still on its way to the mutex,
  `Woken` that while the mutex is free and threads sleep one on its way is awake or was
  terminated there. The property itself excuses a thread killed on its way, and one
  marked by the `thread_exit` of another.

The invariance proofs have a lemma or a step per action; the refinement proofs sort
the actions into those that show nothing, the calls, the step at which the lock is
taken or given up, and the exit.

Model-checked only: all liveness properties (`LockHandedOn`, `FreeLockTaken`,
`RunnableRuns`, `FreeMutexTaken`), as fairness and ENABLED are outside the prover's reach, and
the four violated properties. Every other property of a passing run is a theorem,
under the assumptions named above.

## 5. Not modelled

- The first `thread_create` of many-one: the handler is installed after the timer
  is started, and locks used before it dereference NULL.
- In many-many: `thread_create` by other threads than main and a `clone` that fails; the
  pending user signals, which are stored and never delivered (`handle_pending_signals` is
  commented out); `cleanup` and `cleanupAll`, which nothing calls.
- Spinlocks used by programs in the two scheduled libraries, and several sleeplocks.
- Signals to the whole process (SIGINT, SIGKILL, SIGSTOP, SIGCONT), and signals other
  than SIGTERM in one-one: `thread_kill` forwards them to the kernel.
- The flag `__mask_was_saved` of a forged context, which is never written.
- Guards of other sizes than a page, unaligned stacks, the addresses inside a stack;
  stacks of the two scheduled libraries.
- `mangle` and `jmp.c` (two machine instructions and a demo), tests, benchmarks and demo
  programs (clients: the models take any client instead).
- `exit` while other threads still run is one step in `SpinLock`, `SleepLock` and
  for the `exit(1)` of the others; `exit` of main in one-one, which runs `cleanupAll`,
  is modelled.
- The tid a lock on the heap or on a stack starts with; memory reuse after `free`
  (`ManyOne` records that a node has been freed; `CurrRuns` says that the scheduler
  does not read such a node, and `FreedOnce` that no search of the list does).

## 6. Plan

Done: all modules above and the proofs of section 4; the liveness properties stay with
TLC. Next would be `thread_create` by any thread in `ManyMany`, which needs tids apart from
positions in the list, and several sleeplocks in the two scheduled libraries.
