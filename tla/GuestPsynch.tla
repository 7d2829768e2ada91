----------------------------- MODULE GuestPsynch -----------------------------
(***************************************************************************)
(* The kernel side of the guest's pthread mutexes and condition variables, *)
(* with native guest threads (dynarmic_psynch.cpp and the preposts of      *)
(* dynarmic_thread_state.cpp).                                             *)
(*                                                                         *)
(* libpthread keeps the generation counters of a mutex or a condition in   *)
(* guest memory and enters the kernel only to block or to hand over.  The  *)
(* two race: a handover may arrive before the thread it is for, and is     *)
(* then kept as a prepost.  All the kernel state is one list of waiters    *)
(* and the preposts, under nativeGuestWaitMutex; each operation below is   *)
(* one critical section.  One mutex address and one condition address are  *)
(* modelled: waiters and preposts of different addresses never meet.       *)
(*                                                                         *)
(* The debugger is the environment: it asks every thread to stop, and a    *)
(* thread in a wait leaves the critical section to acknowledge the stop.   *)
(* So is the end of the process, which every wait gives up for.            *)
(***************************************************************************)
EXTENDS Naturals, Sequences, FiniteSets

CONSTANTS
    Thread,        \* native guest threads
    MainThread,    \* those without a NativeGuestJit: the main thread
    Generations,   \* generation values: 2^24 in the code (the low 8 bits are flags)
    MaxStops,      \* bound: stops of the debugger
    MayEnd,        \* bound: whether the process may end
    None

ASSUME PsynchAssumption ==
    /\ Generations \in Nat \ {0}
    /\ MainThread \subseteq Thread
    /\ IsFiniteSet(Thread)
    /\ None \notin Thread
    /\ MaxStops \in Nat
    /\ MayEnd \in BOOLEAN

VARIABLES
    nativeGuestWaiters,      \* the list, in order of arrival (waiter.sequence)
    guestMutexPreposts,      \* grants per generation, no waiter yet
    guestConditionPreposts,  \* wakes per generation bound, no waiter yet
    call,                    \* where each thread is in its blocking call
    ret,                     \* the result of the call it has returned from
    debugger                 \* nativeDebugger, and the requests to end

psynchVars == << nativeGuestWaiters, guestMutexPreposts,
                 guestConditionPreposts, call, ret, debugger >>

-----------------------------------------------------------------------------
(* Generations.  The code keeps them in the upper 24 bits of a word and    *)
(* compares them modulo 2^24.                                              *)

Generation == 0 .. Generations - 1

SequenceNext(g) == (g + 1) % Generations

\* Mutant: generations compared as plain numbers.
LowerWithoutWrap(lhs, rhs) == lhs < rhs

GuestPsynchSequenceLower(lhs, rhs) ==
    IF lhs < rhs THEN 2 * (rhs - lhs) < Generations - 1
                 ELSE 2 * (lhs - rhs) > Generations - 1

GuestPsynchSequenceLowerOrEqual(lhs, rhs) ==
    lhs = rhs \/ GuestPsynchSequenceLower(lhs, rhs)

GuestPsynchSequenceDistance(newer, older) ==
    (newer + Generations - older) % Generations

-----------------------------------------------------------------------------
(* State.                                                                  *)

Timeouts == {"none", "valid", "invalid"}

Result == [error : {"none", "EINTR", "ETIMEDOUT", "EINVAL"},
           update : Nat,     \* in units of GuestPsynchCountIncrement
           last : BOOLEAN]   \* the 0x100 flag of a condition timeout

Done(n) == [error |-> "none", update |-> n, last |-> FALSE]

Failed(e, l) == [error |-> e, update |-> 0, last |-> l]

NativeGuestWaiter ==
    [thread : Thread, kind : {"Mutex", "Condition"}, generation : Generation,
     timed : BOOLEAN, last : BOOLEAN, signaled : BOOLEAN, wakeResult : Nat]

PsynchInit ==
    /\ nativeGuestWaiters = << >>
    /\ guestMutexPreposts = [g \in Generation |-> 0]
    /\ guestConditionPreposts = [g \in Generation |-> 0]
    /\ call = [t \in Thread |-> "none"]
    /\ ret = [t \in Thread |-> None]
    /\ debugger = [state |-> "Running", ends |-> FALSE, parked |-> {},
                   runs |-> Thread, steps |-> {}, stops |-> 0]

\* Stopping and Stopped are one state: debuggerAllStopRequested is set.
RunStates == {"Disabled", "Running", "Stopped", "ShuttingDown"}

\* The thread may execute guest code, and enter a call.
Executes(t) == call[t] = "none" /\ t \notin debugger.parked

\* The thread has left its call with ret[t], and may go on in guest code.
Returned(t) == call[t] = "returned" /\ t \notin debugger.parked

\* Guest code has seen the result of the call.
Consumed(t) ==
    /\ call' = [call EXCEPT ![t] = "none"]
    /\ ret' = [ret EXCEPT ![t] = None]

Waiters(kind) == {i \in DOMAIN nativeGuestWaiters :
                     /\ nativeGuestWaiters[i].kind = kind
                     /\ ~ nativeGuestWaiters[i].signaled}

WaiterOf(t) == CHOOSE i \in DOMAIN nativeGuestWaiters :
                   nativeGuestWaiters[i].thread = t

Erased(t) == SelectSeq(nativeGuestWaiters, LAMBDA w : w.thread # t)

\* The waiter among S that arrived first: the one of lowest sequence.
Oldest(S) == {i \in S : \A j \in S : i <= j}

SignaledAll(S) ==
    [i \in DOMAIN nativeGuestWaiters |->
        IF i \in S THEN [nativeGuestWaiters[i] EXCEPT !.signaled = TRUE]
                   ELSE nativeGuestWaiters[i]]

\* The call of t returns r to the guest.
Return(t, r) ==
    /\ call' = [call EXCEPT ![t] = "returned"]
    /\ ret' = [ret EXCEPT ![t] = r]

Enqueue(t, kind, generation, timed, last, wakeResult) ==
    /\ nativeGuestWaiters' = Append(nativeGuestWaiters,
           [thread |-> t, kind |-> kind, generation |-> generation,
            timed |-> timed, last |-> last, signaled |-> FALSE,
            wakeResult |-> wakeResult])
    /\ call' = [call EXCEPT ![t] = "blocked"]
    /\ ret' = ret

-----------------------------------------------------------------------------
(* Preposts.                                                               *)

\* Mutant: a fair-share waiter takes the prepost of another generation.
PrepostsOfAnyGeneration(generation, firstFit) ==
    {g \in Generation : guestMutexPreposts[g] > 0}

\* Exactly the waiter's generation, or any one under first-fit.
MutexPreposts(generation, firstFit) ==
    {g \in Generation : /\ guestMutexPreposts[g] > 0
                        /\ firstFit \/ g = generation}

ConditionPreposts(generation) ==
    {g \in Generation :
        /\ guestConditionPreposts[g] > 0
        /\ GuestPsynchSequenceLowerOrEqual(generation, g)}

\* The eligible prepost with the lowest bound.
LowestConditionPrepost(generation) ==
    CHOOSE g \in ConditionPreposts(generation) :
        \A h \in ConditionPreposts(generation) \ {g} :
            GuestPsynchSequenceLower(g, h)

\* Mutant: a broadcast forgets the waiters that have not arrived.
BroadcastRecordsNothing(through, count) ==
    UNCHANGED guestConditionPreposts

RecordGuestConditionBroadcastPrepost(through, count) ==
    guestConditionPreposts' =
        [g \in Generation |->
            IF g = through THEN count
            ELSE IF GuestPsynchSequenceLowerOrEqual(g, through) THEN 0
            ELSE guestConditionPreposts[g]]

-----------------------------------------------------------------------------
(* Mutexes.                                                                *)

\* Mutant: the prepost stays behind for the next one.
MutexWaitKeepsPrepost(t, mgen, firstFit) ==
    /\ Executes(t)
    /\ \/ /\ MutexPreposts(mgen, firstFit) # {}
          /\ Return(t, Done(mgen))
          /\ UNCHANGED nativeGuestWaiters
       \/ /\ MutexPreposts(mgen, firstFit) = {}
          /\ Enqueue(t, "Mutex", mgen, FALSE, FALSE, mgen)
    /\ UNCHANGED << guestMutexPreposts, guestConditionPreposts, debugger >>

\* psynch_mutexwait, up to the wait loop.
GuestPsynchMutexWait(t, mgen, firstFit) ==
    /\ Executes(t)
    /\ \/ \E g \in MutexPreposts(mgen, firstFit) :
            /\ guestMutexPreposts' = [guestMutexPreposts EXCEPT ![g] = @ - 1]
            /\ Return(t, Done(mgen))
            /\ UNCHANGED nativeGuestWaiters
       \/ /\ MutexPreposts(mgen, firstFit) = {}
          /\ Enqueue(t, "Mutex", mgen, FALSE, FALSE, mgen)
          /\ UNCHANGED guestMutexPreposts
    /\ UNCHANGED << guestConditionPreposts, debugger >>

MutexDropTarget(mgen, ugen, firstFit) ==
    IF firstFit THEN mgen ELSE SequenceNext(ugen)

\* Mutant: first-fit also looks for the generation of the drop.
WakeOnlyTargetGeneration(target, firstFit) ==
    Oldest({i \in Waiters("Mutex") : nativeGuestWaiters[i].generation = target})

WakeNativeGuestMutexThread(target, firstFit) ==
    Oldest({i \in Waiters("Mutex") :
               firstFit \/ nativeGuestWaiters[i].generation = target})

\* Mutant: an address-only wake, which no late waiter finds.
DropWithoutPrepost(mgen, ugen, firstFit) ==
    /\ nativeGuestWaiters' = SignaledAll(WakeNativeGuestMutexThread(
           MutexDropTarget(mgen, ugen, firstFit), firstFit))
    /\ UNCHANGED guestMutexPreposts

\* psynch_mutexdrop: wake the waiter, or keep the grant for it.
GuestPsynchMutexDrop(mgen, ugen, firstFit) ==
    LET target == MutexDropTarget(mgen, ugen, firstFit)
        woken == WakeNativeGuestMutexThread(target, firstFit)
    IN /\ nativeGuestWaiters' = SignaledAll(woken)
       /\ guestMutexPreposts' =
              IF woken = {} THEN [guestMutexPreposts EXCEPT ![target] = @ + 1]
                            ELSE guestMutexPreposts

-----------------------------------------------------------------------------
(* Condition variables.                                                    *)

\* Mutant: a registered waiter, too, is told to retire itself.
RegisteredWaiterGetsIncrement(t, cgen, sgen, timeout) ==
    LET prepost == LowestConditionPrepost(cgen)
    IN /\ \/ /\ ConditionPreposts(cgen) # {}
             /\ guestConditionPreposts' =
                    [guestConditionPreposts EXCEPT ![prepost] = @ - 1]
             /\ Return(t, Done(1))
             /\ UNCHANGED nativeGuestWaiters
          \/ /\ ConditionPreposts(cgen) = {}
             /\ Enqueue(t, "Condition", cgen, timeout = "valid", FALSE, 1)
             /\ UNCHANGED guestConditionPreposts
       /\ UNCHANGED << guestMutexPreposts, debugger >>

\* psynch_cvwait after its mutexdrop, up to the wait loop.
WaitForCondition(t, cgen, sgen, timeout) ==
    LET last == GuestPsynchSequenceDistance(cgen, sgen) <= 1
        prepost == LowestConditionPrepost(cgen)
    IN /\ \/ /\ timeout = "invalid"
             /\ Return(t, Failed("EINVAL", FALSE))
             /\ UNCHANGED << nativeGuestWaiters, guestConditionPreposts >>
          \/ /\ timeout # "invalid"
             /\ ConditionPreposts(cgen) # {}
             /\ guestConditionPreposts' =
                    [guestConditionPreposts EXCEPT ![prepost] = @ - 1]
             /\ Return(t, Done(1))
             /\ UNCHANGED nativeGuestWaiters
          \/ /\ timeout # "invalid"
             /\ ConditionPreposts(cgen) = {}
             /\ Enqueue(t, "Condition", cgen, timeout = "valid", last, 0)
             /\ UNCHANGED guestConditionPreposts
       /\ UNCHANGED << guestMutexPreposts, debugger >>

WakeNativeGuestConditionThreads(through, broadcast, target) ==
    LET eligible == {i \in Waiters("Condition") :
            /\ GuestPsynchSequenceLowerOrEqual(
                   nativeGuestWaiters[i].generation, through)
            /\ target = None \/ nativeGuestWaiters[i].thread = target}
    IN IF broadcast THEN eligible ELSE Oldest(eligible)

Missing(outstanding, woken) ==
    IF outstanding > woken THEN outstanding - woken ELSE 0

\* psynch_cvsignal and psynch_cvbroad: the waiters they wake, and a prepost
\* for the ones libpthread counts that have not arrived.
GuestPsynchConditionSignal(cgen, sgen, broadcast, target) ==
    LET outstanding == GuestPsynchSequenceDistance(cgen, sgen)
        woken == WakeNativeGuestConditionThreads(cgen, broadcast, target)
        missing == Missing(outstanding, Cardinality(woken))
    IN /\ nativeGuestWaiters' = SignaledAll(woken)
       /\ \/ /\ target # None
             /\ UNCHANGED guestConditionPreposts
          \/ /\ target = None /\ broadcast
             /\ RecordGuestConditionBroadcastPrepost(cgen, missing)
          \/ /\ target = None /\ ~ broadcast /\ woken = {}
             /\ guestConditionPreposts' =
                    [guestConditionPreposts EXCEPT ![cgen] = @ + 1]
          \/ /\ target = None /\ ~ broadcast /\ woken # {}
             /\ UNCHANGED guestConditionPreposts

\* Mutant: the last waiter is reported gone as soon as one is woken.
ClearedWhenWoken(cgen, sgen, broadcast, target) ==
    LET woken == Cardinality(
            WakeNativeGuestConditionThreads(cgen, broadcast, target))
    IN [error |-> "none", update |-> woken,
        flag |-> IF woken = 0 THEN "PBIT" ELSE "CBIT"]

\* What the signaller gets back: an error when the target does not wait, else
\* the generations retired, in increments, and whether a prepost was left
\* (PBIT) or nobody is left (CBIT).
ConditionSignalResult(cgen, sgen, broadcast, target) ==
    LET outstanding == GuestPsynchSequenceDistance(cgen, sgen)
        woken == Cardinality(
            WakeNativeGuestConditionThreads(cgen, broadcast, target))
        hasPrepost == /\ target = None
                      /\ IF broadcast THEN outstanding > woken ELSE woken = 0
    IN IF target # None /\ woken = 0
       THEN [error |-> "ESRCH", update |-> 0, flag |-> "none"]
       ELSE [error |-> "none", update |-> woken,
             flag |-> IF hasPrepost THEN "PBIT"
                      ELSE IF outstanding # 0 /\ woken >= outstanding THEN "CBIT"
                      ELSE "none"]

-----------------------------------------------------------------------------
(* The wait loop of WaitNativeGuestThread.                                 *)

\* Mutant: the waiter stays in the list.
SignaledNotErased(t) ==
    /\ call[t] = "blocked"
    /\ nativeGuestWaiters[WaiterOf(t)].signaled
    /\ Return(t, Done(nativeGuestWaiters[WaiterOf(t)].wakeResult))
    /\ UNCHANGED << nativeGuestWaiters, guestMutexPreposts,
                    guestConditionPreposts, debugger >>

\* Mutant: no notification; the waiter looks again when another one arrives.
SignaledNotNotified(t) ==
    /\ call[t] = "blocked"
    /\ nativeGuestWaiters[WaiterOf(t)].signaled
    /\ Len(nativeGuestWaiters) > 1
    /\ nativeGuestWaiters' = Erased(t)
    /\ Return(t, Done(nativeGuestWaiters[WaiterOf(t)].wakeResult))
    /\ UNCHANGED << guestMutexPreposts, guestConditionPreposts, debugger >>

\* The waiter was signaled.
WaitSignaled(t) ==
    /\ call[t] = "blocked"
    /\ nativeGuestWaiters[WaiterOf(t)].signaled
    /\ nativeGuestWaiters' = Erased(t)
    /\ Return(t, Done(nativeGuestWaiters[WaiterOf(t)].wakeResult))
    /\ UNCHANGED << guestMutexPreposts, guestConditionPreposts, debugger >>

\* The deadline of a condition wait passed first.
WaitTimedOut(t) ==
    /\ call[t] = "blocked"
    /\ nativeGuestWaiters[WaiterOf(t)].timed
    /\ ~ nativeGuestWaiters[WaiterOf(t)].signaled
    /\ nativeGuestWaiters' = Erased(t)
    /\ Return(t, Failed("ETIMEDOUT", nativeGuestWaiters[WaiterOf(t)].last))
    /\ UNCHANGED << guestMutexPreposts, guestConditionPreposts, debugger >>

\* A request to stop or to end wakes the wait, which leaves the critical
\* section.
WaitPaused(t) ==
    /\ call[t] = "blocked"
    /\ debugger.state = "Stopped" \/ debugger.ends
    /\ ~ nativeGuestWaiters[WaiterOf(t)].signaled
    /\ call' = [call EXCEPT ![t] = "paused"]
    /\ UNCHANGED << nativeGuestWaiters, guestMutexPreposts,
                    guestConditionPreposts, ret, debugger >>

\* NativeDebuggerPauseHostWaitIfNeeded, on entry: when the process ends, and
\* in the main thread under an all-stop, it returns true at once.
PauseGivesUp(t) == debugger.ends \/ (debugger.state = "Stopped" /\ t \in MainThread)

\* A worker acknowledges the all-stop and waits for the debugger.
WaitStops(t) ==
    /\ call[t] = "paused"
    /\ debugger.state = "Stopped" /\ ~ PauseGivesUp(t)
    /\ call' = [call EXCEPT ![t] = "stopped"]
    /\ UNCHANGED << nativeGuestWaiters, guestMutexPreposts,
                    guestConditionPreposts, ret, debugger >>

\* Mutant: only the debugger's resume ends the pause.
PauseEndsOnResume(t) == debugger.state = "Running" /\ t \in debugger.runs

\* The debugger runs the worker again, is detached, or shuts down.  (A thread
\* in a wait is never retiring: it would have to call bsdthread_terminate.)
PauseEnds(t) ==
    \/ debugger.state \in {"Disabled", "ShuttingDown"}
    \/ debugger.state = "Running" /\ t \in debugger.runs

\* A worker resumed by a step gives up the wait, and so does everybody when
\* the process ends.
PauseInterrupts(t) ==
    \/ debugger.ends
    \/ debugger.state = "Running" /\ t \in debugger.steps

\* Mutant: an interrupted wait returns as if the mutex had been granted.
InterruptedAsGranted(t) ==
    /\ \/ call[t] = "paused" /\ PauseGivesUp(t)
       \/ call[t] = "stopped" /\ PauseEnds(t) /\ PauseInterrupts(t)
    /\ nativeGuestWaiters' = Erased(t)
    /\ Return(t, Done(0))
    /\ UNCHANGED << guestMutexPreposts, guestConditionPreposts, debugger >>

WaitInterrupted(t) ==
    /\ \/ call[t] = "paused" /\ PauseGivesUp(t)
       \/ call[t] = "stopped" /\ PauseEnds(t) /\ PauseInterrupts(t)
    /\ nativeGuestWaiters' = Erased(t)
    /\ Return(t, Failed("EINTR", FALSE))
    /\ UNCHANGED << guestMutexPreposts, guestConditionPreposts, debugger >>

\* Back to the loop: the request was gone before the pause, or the pause is
\* over.
WaitResumed(t) ==
    /\ \/ /\ call[t] = "paused"
          /\ debugger.state # "Stopped" /\ ~ debugger.ends
       \/ call[t] = "stopped" /\ PauseEnds(t) /\ ~ PauseInterrupts(t)
    /\ call' = [call EXCEPT ![t] = "blocked"]
    /\ UNCHANGED << nativeGuestWaiters, guestMutexPreposts,
                    guestConditionPreposts, ret, debugger >>

WaitStep(t) ==
    \/ WaitSignaled(t)
    \/ WaitTimedOut(t)
    \/ WaitPaused(t)
    \/ WaitStops(t)
    \/ WaitInterrupted(t)
    \/ WaitResumed(t)

-----------------------------------------------------------------------------
(* The debugger and the end of the process, as far as waits see them.      *)

kernelVars == << nativeGuestWaiters, guestMutexPreposts,
                 guestConditionPreposts, call, ret >>

\* NativeDebuggerRequestStop.
AllStopRequested ==
    /\ debugger.state = "Running" /\ debugger.stops < MaxStops
    /\ debugger' = [debugger EXCEPT !.state = "Stopped", !.stops = @ + 1]
    /\ UNCHANGED kernelVars

\* A thread executing guest code acknowledges the stop, or ends.
ThreadStopped(t) ==
    /\ debugger.state = "Stopped" \/ debugger.ends
    /\ call[t] \in {"none", "returned"} /\ t \notin debugger.parked
    /\ debugger' = [debugger EXCEPT !.parked = @ \cup {t}]
    /\ UNCHANGED kernelVars

\* The threads behind the stop that go on when the debugger lets S run: none
\* once the process ends.
Unparked(S) == IF debugger.ends THEN debugger.parked ELSE debugger.parked \ S

\* NativeDebuggerBeginExecution once every thread has stopped: one thread or
\* all of them run, one of these by a step.
Resumed ==
    /\ debugger.state = "Stopped"
    /\ \A t \in Thread : t \in debugger.parked \/ call[t] = "stopped"
    /\ \E t \in Thread : \E runs \in {{t}, Thread}, steps \in {{}, {t}} :
          debugger' = [debugger EXCEPT !.state = "Running", !.parked = Unparked(runs),
                                       !.runs = runs, !.steps = steps]
    /\ UNCHANGED kernelVars

\* Dynarmic_emu_1set_1debugger_1enabled(false).  Before the first stop no wait
\* can tell, and after ShuttingDown none looks any more.  Nobody reads the
\* resume selection again.
Detached ==
    /\ debugger.state \in {"Running", "Stopped"} /\ debugger.stops > 0
    /\ debugger' = [debugger EXCEPT !.state = "Disabled", !.parked = Unparked(Thread),
                                    !.runs = Thread, !.steps = {}]
    /\ UNCHANGED kernelVars

\* SYS_exit, or Dynarmic_nativeDestroy before it takes the debugger's lock.
EndRequested ==
    /\ MayEnd /\ ~ debugger.ends
    /\ debugger' = [debugger EXCEPT !.ends = TRUE]
    /\ UNCHANGED kernelVars

\* The rest of Dynarmic_nativeDestroy, up to its wait for the threads.
ShutDown ==
    /\ debugger.ends /\ debugger.state # "ShuttingDown"
    /\ debugger' = [debugger EXCEPT !.state = "ShuttingDown",
                                    !.runs = Thread, !.steps = {}]
    /\ UNCHANGED kernelVars

DebuggerStep ==
    \/ AllStopRequested
    \/ \E t \in Thread : ThreadStopped(t)
    \/ Resumed
    \/ Detached
    \/ EndRequested
    \/ ShutDown
=============================================================================
