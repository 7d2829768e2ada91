# A TLA+ model of LiveExec32

LiveExec32 runs 32-bit ARM iOS programs on 64-bit iOS.  Dynarmic translates the
guest's code; everything the guest asks of a kernel (memory, threads, locks,
timers, messages) is emulated in `HostFrameworks/LC32`, on top of the host's
own kernel.  With `NATIVE_GUEST_THREADS` every guest thread is a host thread
with a JIT of its own; without it one JIT runs them in turn.

This directory models the parts of that emulation where several threads meet,
checks the models with TLC on small instances, and proves the central
invariants with TLAPS for instances of every size.

Paths below are relative to `HostFrameworks/LC32` unless they say otherwise.

## The system and its inventory

| part | state | operations | interacts with | hard behaviour |
|---|---|---|---|---|
| guest VM epochs (`dynarmic.cpp` 71-186) | global epoch, participants, retired backings | register, guard enter/exit, retire, reclaim | address space, every JIT | pointers read without a lock while their backing goes away |
| guest address space (`dynarmic_core.cpp` 160-1396, `dynarmic_memory.cpp`) | map, page table, reference counts, lookup caches | mmap, munmap, mprotect, remap, private copy, lookup, destroy | epochs, JITs | stores of an operation seen one by one; overlapping remaps; a host failure half way |
| guest timers (`guest_timer_queue.cpp`, `guest_timers.cpp`) | table of timers, kqueue, waiter thread | EV_ADD, EV_DELETE, EV_ENABLE, EV_DISABLE, take, stop | workqueue pump, teardown | events already collected when their timer is rearmed; a stop while the waiter is in the pump |
| callback executor (`dynarmic.cpp` 249-610, `GuestFrameworks/LC32/LC32.m` 1161-1242) | queue of jobs, active job, state | submit, wait, complete, thread exit, stop | host threads, block bridge, lifecycle | its thread dies or is stopped at any point of a job |
| psynch mutexes and conditions (`dynarmic_psynch.cpp`) | waiters, preposts; generations in guest memory | mutexwait, mutexdrop, cvwait, cvsignal, cvbroad | libpthread, debugger | wakes before waits, timeouts racing signals, wrapping generations |
| psynch read-write locks (`dynarmic_psynch.cpp` 4-227) | waiters, pending unlocks | rw_rdlock, rw_wrlock, rw_unlock | libpthread | an unlock that overtakes the waiters it is for |
| ulocks (`dynarmic_psynch.cpp` 724-1043) | waiters; the word in guest memory | ulock_wait, ulock_wake | libplatform, debugger | compare and sleep |
| workqueues (`dynarmic_workqueue.cpp`, `dynarmic_thread_state.cpp` 2194-2459) | requests, pending jobs, at most four workers | pump, transition, worker exit | timers, Mach messages, threads | every worker blocked; a start that fails with a job in hand |
| thread state (`dynarmic_thread_state.cpp` 170-1047) | suspend counts, snapshot generations, quiescent host calls | suspend, resume, snapshot, park | threads, debugger | two threads that ask for each other's state |
| debugger coordination (`dynarmic_core.cpp` 1996-3287, `dynarmic_native_jit.cpp` 83-317) | run state, generation, pending stop and interrupt | request stop, begin execution, complete stop, step, continue | every guest thread | a halt delivered after the next resume; the first stop wins |
| native threads (`dynarmic_native_jit.cpp` 353-1401) | registry of JITs, lifecycle | create, run, terminate, join, reap, shutdown | epochs, workqueue | a worker that would join itself |
| cooperative scheduler (`dynarmic_thread_state.cpp` 1067-2192) | runnable threads, wait kinds | park, wake, rotate | psynch | nobody left to run |
| Mach messages (`guest_mach_messages.cpp`) | - | convert | workqueue | sizes at their limits |
| Objective-C proxies and blocks (`bridge.mm`, `block_bridge.mm`) | proxies in both directions | wrap, retain, release | callback executor | two reference counts for one object |
| syscalls, file system, bootstrap, framework bridges, tweak, generators | mostly none | one host call each | - | - |

`PROJECT.json` lists the same parts with their files, the lines every definition
stands for, and the hazards: where each of these behaviours bites and which
property would notice.

## Modules

    GuestVmEpoch      <-- GuestVm                 (GuestVm EXTENDS and implements it)
         ^-- GuestVmEpochProofs
    GuestTimerQueue   <-- GuestTimerQueueProofs
    GuestCallbackExecutor <-- GuestCallbackExecutorProofs
    GuestPsynch <-- PsynchMutex <-- PsynchCondition
    MC*               instances for TLC

### GuestVmEpoch

What the epochs promise, with the least about the memory map: a JIT may load
pointers into live backings only.  Each action is one critical section of
`guestVmEpochMutex`; `LoadLivePointer`, the JIT's read of the page table, takes no
lock.  `status` is the life of a `memory_backing`; `loaded` is history, the
pointers a JIT may still use.  Reclamation runs at the end of a retirement, of
an outermost guard exit and of an unregistration, as in the code.

### GuestVm

The map (`memory`), the table the JITs read (`page_table`), reference counts,
the generation of the lookup caches and each thread's cache.  `guestVmMutex`
admits one operation at a time, so `op` is the operation in progress; it advances
page by page, and the JITs read between any two stores.  `EXTENDS GuestVmEpoch`:
allocation and retirement are that module's actions, and the specification of
the epochs is a property of this one (`ImplementsEpochs`): the map never lets a
JIT load a pointer into anything but a live backing.

### GuestTimerQueue

Guest changes are one critical section each.  The waiter has three steps:
`Collect` (kevent64 fills its local array, without the mutex), `Process`
(publication under the mutex) and `TimerReady` (the pump, outside it).  The
kqueue is external: `Fire`, `Fail` (an event with EV_ERROR, whose data is an error
number that replaces the count), and what EV_ADD, EV_ENABLE, EV_DELETE do to a
registration.  Once the shutdown is requested the callback returns without a
pump (`guest_timers.cpp` 15), so nothing is offered any more.  A pump returns: what it
does inside is the workqueue's, not modelled.  `arm`, `fired`, `taken`, `readyArm` and `offered` are history.  The
registration limit, the ident counter, the tokens and the saturating count keep
their limits as constants, so that TLC reaches them.

### GuestCallbackExecutor

The states of `GuestCallbackExecutorState`, the queue, the active job with its
flags, and where each submitter, the executor thread and the guest constructor
that creates it are.  The descriptor is written to guest memory without the
lock, so taking a job, delivering it, running it and completing it are four
steps.  The thread may end in any of them: its JIT is halted, or guest code, the
callback's or what the autorelease pool around it lets go, ends it.

What the guest did is `guest`: it may refuse a callback (no such block, a signature
it does not know, a failed conversion) and acknowledge it all the same, as
`LC32GuestCallbackExecutorMain` does.  A submitter in `Typed` waits for a result
(`InvokeGuestBlock`, `block_bridge.mm` 592-709): it registers a completion, which the guest
fills in a call of its own (`ReturnTypedResult`) before it acknowledges the job, and
which may hold a retained object (`retained`).  `outcome` is what the host's caller gets:
the guest's result or zero.  An executor that waits leaves its loop for a pause
of the debugger only with the queue empty (`WaitPauses`) and comes back whatever was
queued meanwhile (`WaitResumes`).

### GuestPsynch, PsynchMutex, PsynchCondition

`GuestPsynch` is the kernel half: the list of waiters, the preposts, the wait loop
and what the debugger does to a thread in it.  One mutex and one condition
address suffice: waiters and preposts of different addresses never meet.
Generations are 24 bits wide in the code; here they are modulo `Generations`, with
the same comparison.  libpthread's half is external, written from what
`dynarmic_psynch.cpp` expects of it: `PsynchMutex` has the mutex word,
`PsynchCondition` adds the condition's three counters.  The mutex starts with its
counters at the highest value and the condition one below it, so every run wraps
and two condition waits lie on either side of the wrap.

A psynch wait looks up from its loop for three reasons: its grant, the debugger,
the end of the process.  `debugger` has the coordinator's run state, the selection of
the last resume, the threads behind the stop and whether the end was requested
(`nativeShutdownRequested` or `guestProcessExitRequested`).  A wait that looks up leaves the
critical section (`WaitPaused`); on entry to `NativeDebuggerPauseHostWaitIfNeeded` it gives up
when the process ends or in the main thread (`PauseGivesUp`), goes back if the request
is gone, or stays there (`WaitStops`) until a resume selects it, the debugger is
detached or `Dynarmic_nativeDestroy` sets ShuttingDown (`PauseEnds`): the exit flags alone
do not end that inner wait.  Suspension of single threads, which pauses at the
same place and leaves no trace in the wait, is left out.

A signal returns what the code returns: ESRCH for a target that does not wait, or
the number of waits it retires with PBIT or CBIT.  libpthread answers the flags
with `psynch_cvclrprepost` at most, which does nothing (`dynarmic_callbacks.cpp` 1920).

## Runs

| run | instance | shows |
|---|---|---|
| `vm_epoch` | 3 backings, 2 JITs, guards nested twice | no use after reclaim; reclamation is prompt and certain |
| `guest_vm` | 3 pages, 2 backings, 1 JIT, 3 mapping operations | published pointers are live, references count pages, fast paths match the map, caches are current, epochs are implemented |
| `timer_queue` | 1 timer, 2 idents, 2 tokens, counts up to 2 | nothing stale, nothing lost, every deliverable expiration offered, the stop ends |
| `timer_pair` | 2 timers, batches of one event | the same when events have to wait for the next batch |
| `callback_executor` | a call, a typed call, a release | answers are true, results are settled with their call, jobs are awaited, every submitter returns |
| `psynch_fairshare` | 3 threads, 4 generations | handovers are conserved, grants in order, every contender gets in |
| `psynch_firstfit` | 3 threads, 4 generations | wakes and contenders add up, somebody gets in |
| `psynch_debugger` | 3 threads, one of them main; one stop, one detach, one end of the process | still at most one owner; after a shutdown every thread ends |
| `psynch_stop` | one stop of the debugger | **violation**: the handover is lost (below) |
| `psynch_condition` | 2 waits, 2 signals | every wait retired once, broadcasts reach every waiter across the wrap, CBIT is true |
| `psynch_broadcast` | 2 waits, 1 signal | every waiter that a broadcast was for leaves its wait |
| `psynch_timeout` | 2 waits | **violation**: the last-timeout flag is not the last (below) |

### Bounds

* A stale pointer needs one holder and one retirement; a second JIT lets one
  leave while another stays, and the third backing lets retirements overtake
  each other.
* Three pages let a remap of two pages overlap its source; two backings let a
  replacement release one while it installs the other.  The bound on the
  generation of the map is a bound on the number of operations.
* Two tokens and two idents are one rearm, and one deletion with a new
  registration, while an event is under way; counts up to 2 with three
  expirations saturate.  `MaxFailed` error events may come of one arming: one in
  `timer_queue`, none in `timer_pair`, where they would only multiply the states.
  Theorem `StaleExpirationsAreDropped` needs no bound.
* Three submitters, one of each kind, have one job active, one queued and one on its way.
  The theorems about the answers need no bound.
* Three threads have one owner and two contenders, which is what it takes to
  grant the wrong one.  The process may end only in the runs about the debugger
  (`MayEnd`), and a detach before the first stop is left out: no wait can tell it.
  Three waits with eight generations give the same
  result as two with six, in more time.

### Fairness

* The timer waiter and the thread that tears down are host threads, so their
  steps are weakly fair.  Guests need not change their timers, and timers need
  not expire.
* A callback returns unless its thread dies; a submitter that is woken runs.
  Neither the constructor nor the request to shut down has to come.  A pause of
  the executor's wait ends: the debugger resumes it or the shutdown does.
* A guest thread that is not stopped goes on through libpthread and through its
  calls.  Taking a lock, waiting and signalling are its own choice; leaving the
  critical section is assumed, as for any lock.  The run about the end of the
  process assumes less (`HaltSpec`): threads leave their waits, and meet the halt of
  their JIT.  This is strong fairness: the halt is level-triggered and stays set
  while a thread goes in and out of calls.
* `RetiredIsReclaimed` states its assumption itself: every JIT is outside its
  guards again and again.  The code does not guarantee this for the main
  thread while it sits in the host's run loop, hence the hazard at
  `dynarmic_core.cpp:41`, which no property covers: `RetiredIsBlocked` shows only that
  nothing else holds a retired backing back.

## Proofs

All are invariants of a specification for arbitrary constants; each rests on an
inductive invariant that TLC has checked on the instances above.

* `GuestVmEpochProofs` (`EpochInv`).  `NoUseAfterReclaim` alone is not inductive: it does
  not say why a retired backing is still there.  The invariant adds that a
  pointer's holder is inside a guard that it entered before the retirement
  (`LoadedIsPinned`), and that no participant is ahead of the global epoch.
  Then reclaiming contradicts `LoadedIsPinned`.  `RetiredIsBlocked` is the converse:
  what was not reclaimed is blocked by somebody.
* `GuestTimerQueueProofs` (`TimerInv`).  A token says nothing by itself: the invariant
  says that an event in the batch that has its timer's token has its arming,
  that no event's token is still to be given (`BatchIsDatable`), and that an ident
  still to be given names no event (`NextIdentIsFresh`), so a deletion followed by
  a registration cannot revive an event.  The kernel holds current registrations
  only (`KernelIsCurrent`), for which a taken one-shot must have left it (`OneShotIsSpent`).
* `GuestCallbackExecutorProofs` (`ExecInv`).  A queued job is fresh, queued once, and its
  submitter sleeps; an active job is neither completed nor canceled while the
  executor has it, and the guest has handled it exactly when the executor is past
  running it (`HandledIsPast`); a
  completion that holds the guest's data belongs to a block that ran to its result,
  and an object is retained only with such data and before its call has returned
  (`ResultsAreTrue`).  The answers, `ReleasedAtMostOnce`, `CallAnswersAreTrue`,
  `NoResultAfterItsCall` and `NoJobOutlivesItsSubmitter`, follow.

The assumptions are `DepthAssumption`, `TimerAssumption`, `NoneAssumption` and
`ReleaseAssumption`: naturals are naturals, the placeholder `None` is no timer and no
submitter.  They are evaluated in the runs.

Only model-checked: all liveness (fairness is outside the prover's reach);
`GuestVm` with its refinement; the conservation of expirations, whose proof needs
sums over batches; the psynch modules, whose invariants count threads and compare
generations modulo their number.

## Findings

* `psynch_stop` (`dynarmic_psynch.cpp:355`).  A waiter that wakes up for a debugger stop
  unlocks, acknowledges the stop and, on the main thread or when stepped, erases
  its waiter and returns EINTR without a look at `signaled`.  A mutexdrop in between
  found the waiter, signaled it and left no prepost: the grant is gone, and the
  retried wait sleeps for ever.  The comment at 576-580 and
  `test/psynch_cvwait_handoff.c:42` say that such a handover survives.
* `psynch_timeout` (`dynarmic_psynch.cpp:379`).  The flag that tells libpthread that a timeout
  "consumed the last outstanding generation" is computed from the generations the
  waiter brought with it.  Waiters that came later do not count.

## Not modelled

Contents of memory and of messages, formatting, logging, clocks and durations.
The translation of guest code and its invalidation.  The parts listed as
`not_modelled` in `PROJECT.json`, for the reasons given there: most of the syscall,
framework and tweak code converts arguments and makes one host call.

## Plan

In this order; each adds its module, its runs and its mutants.

1. `PsynchRwlock` and `Ulock` on the wait loop of `GuestPsynch`: an unlock is applied once
   and to the right waiters; a wake between compare and sleep is not lost; the
   EINTR path again.
2. `Workqueue`: the pump with its worker limit, compensation, failed starts and
   self-reaping, composed with `GuestTimerQueue`; every taken event reaches a worker.
3. `DebuggerCoordinator`: request, begin, complete, step, with the halts of the JITs
   outside the mutex; first stop wins and no stop is lost; a resume never runs
   with a worker still executing.
4. `ThreadState`: suspension against quiescent host calls, snapshot generations,
   mutual requests; a suspended thread does not execute guest code.
5. `NativeThreads` with shutdown; `CooperativeScheduler` against `GuestPsynch` as its
   specification.
6. Algorithms against reference definitions: reservation of address ranges,
   Mach message conversion, fat Mach-O layout.  Proxy and block ownership.
7. Proofs: `HandoverConserved` and `AtMostOneOwner` for the mutex (needs the list as a
   function of threads and the cardinalities as lemmas); `GuestVm` implements
   `GuestVmEpoch` (needs `PublishedIsLive` and `ReferencesCountPages` strengthened to the
   middle of an operation); `ExpirationsConserved`.
