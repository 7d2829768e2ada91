--------------------------- MODULE GuestTimerQueue ---------------------------
(***************************************************************************)
(* The native timer queue behind guest workqueue timers                    *)
(* (guest_timer_queue.cpp, guest_timers.cpp).                              *)
(*                                                                         *)
(* Guest threads register, rearm, enable, disable and delete timers under  *)
(* the queue's mutex.  One waiter thread collects expirations from a       *)
(* kqueue into a local array without the mutex, then publishes them under  *)
(* it, then calls the workqueue pump outside it.  Everything that happens  *)
(* between the collection and the publication makes what was collected     *)
(* potentially stale; the generation token in udata tells.                 *)
(***************************************************************************)
EXTENDS Naturals, FiniteSets

CONSTANTS
    Key,            \* guest timers: (ident, udata) pairs
    MaxIdent,       \* UINT64_MAX for the private idents
    MaxGeneration,  \* UINT64_MAX for the tokens
    MaxTimers,      \* 4096 registrations
    MaxData,        \* INT64_MAX for the expiration count of an event
    BatchSize,      \* 16 events per kevent64 call
    MaxFired,       \* bound: expirations of one arming
    MaxFailed,      \* bound: errors the kernel reports for one arming
    None

ASSUME TimerAssumption ==
    /\ MaxIdent \in Nat \ {0} /\ MaxGeneration \in Nat \ {0}
    /\ MaxTimers \in Nat /\ MaxData \in Nat /\ MaxFired \in Nat
    /\ MaxFailed \in Nat
    /\ BatchSize \in Nat \ {0}

VARIABLES
    timerQueue,     \* guest_timers.cpp: "none", "open", "moved" (to the stopper)
    shutdown,       \* nativeShutdownRequested
    stopped,        \* StopGuestWorkqueueTimers has returned
    stopping, error,
    timers,         \* Impl::timers by private ident
    nextIdent,
    waiter,         \* "none", "waiting", "collected", "callback", "exited"
    batch,          \* the waiter's local events
    kernel,         \* EVFILT_TIMER registrations of the kqueue
    poke,           \* EVFILT_USER is triggered
    armings         \* number of successful EV_ADDs; tells armings apart

queueVars == <<timerQueue, shutdown, stopped>>
kqueueVars == <<kernel, poke>>
timerVars == <<queueVars, stopping, error, timers, nextIdent, waiter, batch,
               kqueueVars, armings>>

Ident == 1..MaxIdent

(* arm, fired, taken and failed are history: the arming, how often it has  *)
(* expired, how many of these expirations the guest got, and how often the *)
(* kernel reported an error in their place.                                *)
Timer == [key : Key, generation : 0..MaxGeneration, pending : BOOLEAN,
          data : 0..MaxData, enabled : BOOLEAN, oneShot : BOOLEAN,
          offered : BOOLEAN, readyArm : Nat, arm : Nat, fired : Nat, taken : Nat,
          failed : Nat]

Registration == [udata : 0..MaxGeneration, enabled : BOOLEAN,
                 oneShot : BOOLEAN, count : Nat, failed : BOOLEAN, arm : Nat]

ASSUME NoneAssumption == None \notin Timer /\ None \notin Registration

Event == [ident : Ident, udata : 0..MaxGeneration, data : Nat, failed : BOOLEAN,
          arm : Nat]

TimerTypeOK ==
    /\ timerQueue \in {"none", "open", "moved"}
    /\ shutdown \in BOOLEAN /\ stopped \in BOOLEAN /\ stopping \in BOOLEAN
    /\ error \in BOOLEAN /\ poke \in BOOLEAN
    /\ timers \in [Ident -> Timer \cup {None}]
    /\ nextIdent \in 0..MaxIdent
    /\ waiter \in {"none", "waiting", "collected", "callback", "exited"}
    /\ batch \subseteq Event
    /\ kernel \in [Ident -> Registration \cup {None}]
    /\ armings \in Nat

TimerInit ==
    /\ timerQueue = "none" /\ shutdown = FALSE /\ stopped = FALSE
    /\ stopping = FALSE /\ error = FALSE
    /\ timers = [i \in Ident |-> None]
    /\ nextIdent = 1
    /\ waiter = "none" /\ batch = {}
    /\ kernel = [i \in Ident |-> None] /\ poke = FALSE
    /\ armings = 0

Registered == {i \in Ident : timers[i] # None}

Deliverable(i) == timers[i] # None /\ timers[i].pending /\ timers[i].enabled

-----------------------------------------------------------------------------
(* ApplyGuestWorkqueueTimerChange creates the queue for the first EV_ADD.  *)
(* Creates a queue although the process is going down. *)
CreateLate ==
    /\ timerQueue # "open"
    /\ waiter = "none"
    /\ timerQueue' = "open"
    /\ waiter' = "waiting"
    /\ UNCHANGED <<shutdown, stopped, stopping, error, timers, nextIdent, batch,
                   kqueueVars, armings>>

Create ==
    /\ timerQueue = "none"
    /\ ~shutdown
    /\ timerQueue' = "open"
    /\ waiter' = "waiting"
    /\ UNCHANGED <<shutdown, stopped, stopping, error, timers, nextIdent, batch,
                   kqueueVars, armings>>

(* A caller reaches the queue while it is open, or holds it from before. *)
CanApply == timerQueue # "none" /\ ~stopping /\ ~error

(* The identifiers the change may work on: the timer of that key, or a new *)
(* private ident.  Past the limits the change fails and nothing changes.   *)
Find(k) == {i \in Registered : timers[i].key = k}

Fresh(k) ==
    IF Find(k) = {} /\ Cardinality(Registered) < MaxTimers /\ nextIdent # 0
    THEN {nextIdent} ELSE {}

Successor(i) == IF i = MaxIdent THEN 0 ELSE i + 1

NextIdent(i) == IF timers[i] = None THEN Successor(nextIdent) ELSE nextIdent

Generation(i) == IF timers[i] = None THEN 0 ELSE timers[i].generation

(* The kqueue's EV_ADD replaces the registration and its expirations. *)
KernelAdd(i, oneShot, enabled) ==
    kernel' = [kernel EXCEPT ![i] =
        [udata |-> Generation(i) + 1, enabled |-> enabled, oneShot |-> oneShot,
         count |-> 0, failed |-> FALSE, arm |-> armings + 1]]

(* Rearms the timer with the token it had. *)
ApplyAddSameToken(k, oneShot, enabled) ==
    /\ CanApply
    /\ \E i \in Find(k) \cup Fresh(k) :
        /\ timers' = [timers EXCEPT ![i] =
            [key |-> k, generation |-> 0, pending |-> FALSE, data |-> 0,
             enabled |-> enabled, oneShot |-> oneShot, offered |-> FALSE,
             readyArm |-> 0, arm |-> armings + 1, fired |-> 0, taken |-> 0,
             failed |-> 0]]
        /\ kernel' = [kernel EXCEPT ![i] =
            [udata |-> 0, enabled |-> enabled, oneShot |-> oneShot,
             count |-> 0, failed |-> FALSE, arm |-> armings + 1]]
        /\ nextIdent' = NextIdent(i)
    /\ armings' = armings + 1
    /\ UNCHANGED <<queueVars, stopping, error, waiter, batch, poke>>

ApplyAdd(k, oneShot, enabled) ==
    /\ CanApply
    /\ \E i \in Find(k) \cup Fresh(k) :
        /\ Generation(i) < MaxGeneration
        /\ timers' = [timers EXCEPT ![i] =
            [key |-> k, generation |-> Generation(i) + 1, pending |-> FALSE,
             data |-> 0, enabled |-> enabled, oneShot |-> oneShot,
             offered |-> FALSE, readyArm |-> 0, arm |-> armings + 1,
             fired |-> 0, taken |-> 0, failed |-> 0]]
        /\ KernelAdd(i, oneShot, enabled)
        /\ nextIdent' = NextIdent(i)
    /\ armings' = armings + 1
    /\ UNCHANGED <<queueVars, stopping, error, waiter, batch, poke>>

(* The kqueue refuses a new timer: its ident is spent, the table unchanged. *)
ApplyAddFails(k) ==
    /\ CanApply
    /\ \E i \in Fresh(k) : nextIdent' = Successor(i)
    /\ UNCHANGED <<queueVars, stopping, error, timers, waiter, batch,
                   kqueueVars, armings>>

(* The kernel knows the timer, or it is a one-shot that already fired. *)
Changeable(i) == kernel[i] # None \/ timers[i].oneShot

ApplyDelete(k) ==
    /\ CanApply
    /\ \E i \in Find(k) :
        /\ Changeable(i)
        /\ timers' = [timers EXCEPT ![i] = None]
        /\ kernel' = [kernel EXCEPT ![i] = None]
    /\ UNCHANGED <<queueVars, stopping, error, nextIdent, waiter, batch, poke,
                   armings>>

KernelEnable(i, enabled) ==
    kernel' = IF kernel[i] = None THEN kernel
              ELSE [kernel EXCEPT ![i].enabled = enabled]

(* Takes EV_ENABLE and EV_DISABLE for a rearming of our own table only. *)
ApplyEnableNewToken(k, enabled) ==
    /\ CanApply
    /\ \E i \in Find(k) :
        /\ Changeable(i)
        /\ timers[i].generation < MaxGeneration
        /\ timers' = [timers EXCEPT ![i].enabled = enabled,
                                    ![i].generation = @ + 1,
                                    ![i].offered = FALSE]
        /\ kernel' = IF kernel[i] = None THEN kernel
                     ELSE [kernel EXCEPT ![i].enabled = enabled,
                                         ![i].udata = @ + 1]
        /\ poke' = (poke \/ (timers[i].pending /\ enabled))
    /\ UNCHANGED <<queueVars, stopping, error, nextIdent, waiter, batch, armings>>

(* Enables without waking the waiter. *)
ApplyEnableSilently(k, enabled) ==
    /\ CanApply
    /\ \E i \in Find(k) :
        /\ Changeable(i)
        /\ timers' = [timers EXCEPT ![i].enabled = enabled, ![i].offered = FALSE]
        /\ KernelEnable(i, enabled)
    /\ UNCHANGED <<queueVars, stopping, error, nextIdent, waiter, batch, poke,
                   armings>>

(* EV_ENABLE and EV_DISABLE keep the token and what was collected. *)
ApplyEnable(k, enabled) ==
    /\ CanApply
    /\ \E i \in Find(k) :
        /\ Changeable(i)
        /\ timers' = [timers EXCEPT ![i].enabled = enabled, ![i].offered = FALSE]
        /\ KernelEnable(i, enabled)
        /\ poke' = (poke \/ (timers[i].pending /\ enabled))
    /\ UNCHANGED <<queueVars, stopping, error, nextIdent, waiter, batch, armings>>

(* The pump takes one deliverable timer whose class it admits. *)
Take(i) ==
    /\ timerQueue # "none"
    /\ ~stopping
    /\ Deliverable(i)
    /\ timers' = [timers EXCEPT ![i] =
        IF @.oneShot THEN None
        ELSE [@ EXCEPT !.pending = FALSE, !.taken = timers[i].taken + timers[i].data]]
    /\ UNCHANGED <<queueVars, stopping, error, nextIdent, waiter, batch,
                   kqueueVars, armings>>

-----------------------------------------------------------------------------
(* The kernel side: a timer expires. *)
Fire(i) ==
    /\ kernel[i] # None
    /\ ~stopping
    /\ timers[i].fired < MaxFired
    /\ kernel[i].oneShot => kernel[i].count = 0
    /\ kernel' = [kernel EXCEPT ![i].count = @ + 1]
    /\ timers' = [timers EXCEPT ![i].fired = @ + 1]
    /\ UNCHANGED <<queueVars, stopping, error, nextIdent, waiter, batch, poke,
                   armings>>

(* The next event of the timer carries EV_ERROR, and the error as data. *)
Fail(i) ==
    /\ kernel[i] # None
    /\ ~stopping
    /\ timers[i].failed < MaxFailed
    /\ kernel' = [kernel EXCEPT ![i].failed = TRUE, ![i].count = 1]
    /\ timers' = [timers EXCEPT ![i].failed = @ + 1]
    /\ UNCHANGED <<queueVars, stopping, error, nextIdent, waiter, batch, poke,
                   armings>>

Ready == {i \in Ident : kernel[i] # None /\ kernel[i].enabled /\ kernel[i].count # 0}

(* Loses the expirations that did not fit into the batch. *)
CollectAllCounts ==
    /\ waiter = "waiting"
    /\ Ready # {} \/ poke
    /\ \E S \in SUBSET Ready :
        /\ S = Ready \/ Cardinality(S) = BatchSize
        /\ Cardinality(S) <= BatchSize
        /\ batch' = {[ident |-> i, udata |-> kernel[i].udata,
                      data |-> kernel[i].count, failed |-> kernel[i].failed,
                      arm |-> kernel[i].arm] : i \in S}
        /\ kernel' = [i \in Ident |->
            IF kernel[i] = None THEN None
            ELSE [kernel[i] EXCEPT !.count = 0, !.failed = FALSE]]
    /\ poke' = FALSE
    /\ waiter' = "collected"
    /\ UNCHANGED <<queueVars, stopping, error, timers, nextIdent, armings>>

(* kevent64 returns the ready events, up to BatchSize of them, and the     *)
(* trigger with them; one-shots leave the kernel.                          *)
Collect ==
    /\ waiter = "waiting"
    /\ Ready # {} \/ poke
    /\ \E S \in SUBSET Ready :
        /\ S = Ready \/ Cardinality(S) = BatchSize
        /\ Cardinality(S) <= BatchSize
        /\ batch' = {[ident |-> i, udata |-> kernel[i].udata,
                      data |-> kernel[i].count, failed |-> kernel[i].failed,
                      arm |-> kernel[i].arm] : i \in S}
        /\ kernel' = [i \in Ident |->
            IF i \notin S THEN kernel[i]
            ELSE IF kernel[i].oneShot THEN None
            ELSE [kernel[i] EXCEPT !.count = 0, !.failed = FALSE]]
    /\ poke' = FALSE
    /\ waiter' = "collected"
    /\ UNCHANGED <<queueVars, stopping, error, timers, nextIdent, armings>>

(* The wait itself fails: nobody serves the timers any more. *)
WaitFails ==
    /\ waiter = "waiting"
    /\ error' = ~stopping
    /\ waiter' = "exited"
    /\ UNCHANGED <<queueVars, stopping, timers, nextIdent, batch, kqueueVars, armings>>

Unsaturated(n) == n

Saturating(n) == IF n > MaxData THEN MaxData ELSE n

(* Expirations add up while they are pending; an error replaces them. *)
ReadyData(t, e) ==
    Saturating(IF t.pending /\ ~e.failed THEN t.data + e.data ELSE e.data)

(* Publishes whatever was collected for the ident, of whichever arming. *)
PublishStale(t, e) ==
    [t EXCEPT !.pending = TRUE, !.offered = FALSE, !.readyArm = e.arm,
              !.data = ReadyData(t, e)]

(* One event of the batch on its timer; a stale token is dropped. *)
Publish(t, e) ==
    IF e.udata # t.generation THEN t
    ELSE [t EXCEPT !.pending = TRUE, !.offered = FALSE, !.readyArm = e.arm,
                   !.data = ReadyData(t, e)]

(* The waiter publishes its batch; it calls the pump if anything in the    *)
(* table is deliverable, its own events or not.                            *)
Process ==
    /\ waiter = "collected"
    /\ batch' = {}
    /\ IF stopping
       THEN waiter' = "exited" /\ UNCHANGED timers
       ELSE /\ timers' = [i \in Ident |->
                IF timers[i] # None /\ \E e \in batch : e.ident = i
                THEN Publish(timers[i], CHOOSE e \in batch : e.ident = i)
                ELSE timers[i]]
            /\ waiter' = IF \E i \in Ident : timers'[i] # None
                            /\ timers'[i].pending /\ timers'[i].enabled
                         THEN "callback" ELSE "waiting"
    /\ UNCHANGED <<queueVars, stopping, error, nextIdent, kqueueVars, armings>>

(* PumpGuestWorkqueue looks at every deliverable timer, unless the process *)
(* is going down.                                                          *)
TimerReady ==
    /\ waiter = "callback"
    /\ waiter' = "waiting"
    /\ timers' = [i \in Ident |->
        IF Deliverable(i) /\ ~shutdown THEN [timers[i] EXCEPT !.offered = TRUE] ELSE timers[i]]
    /\ UNCHANGED <<queueVars, stopping, error, nextIdent, batch, kqueueVars, armings>>

-----------------------------------------------------------------------------
(* Going down. *)
RequestShutdown ==
    /\ ~shutdown
    /\ shutdown' = TRUE
    /\ UNCHANGED <<timerQueue, stopped, stopping, error, timers, nextIdent, waiter,
                   batch, kqueueVars, armings>>

(* Marks the queue as stopping and lets the waiter find out by itself. *)
RequestStopSilently ==
    /\ shutdown
    /\ timerQueue # "none"
    /\ ~stopping
    /\ stopping' = TRUE
    /\ timers' = [i \in Ident |-> None]
    /\ UNCHANGED <<queueVars, error, nextIdent, waiter, batch, kqueueVars, armings>>

(* RequestGuestWorkqueueTimersStop, also the first half of Stop. *)
RequestStop ==
    /\ shutdown
    /\ timerQueue # "none"
    /\ ~stopping
    /\ stopping' = TRUE
    /\ timers' = [i \in Ident |-> None]
    /\ poke' = TRUE
    /\ UNCHANGED <<queueVars, error, nextIdent, waiter, batch, kernel, armings>>

(* StopGuestWorkqueueTimers takes the queue, if there is one. *)
MoveQueue ==
    /\ shutdown
    /\ timerQueue = "open"
    /\ timerQueue' = "moved"
    /\ UNCHANGED <<shutdown, stopped, stopping, error, timers, nextIdent, waiter,
                   batch, kqueueVars, armings>>

(* It returns at once without a queue, else after joining the waiter. *)
Join ==
    /\ shutdown /\ ~stopped
    /\ \/ timerQueue = "none"
       \/ timerQueue = "moved" /\ stopping /\ waiter = "exited"
    /\ stopped' = TRUE
    /\ UNCHANGED <<timerQueue, shutdown, stopping, error, timers, nextIdent, waiter,
                   batch, kqueueVars, armings>>

-----------------------------------------------------------------------------
GuestStep ==
    \/ Create
    \/ \E k \in Key :
        \/ \E oneShot, enabled \in BOOLEAN : ApplyAdd(k, oneShot, enabled)
        \/ \E enabled \in BOOLEAN : ApplyEnable(k, enabled)
        \/ ApplyAddFails(k) \/ ApplyDelete(k)
    \/ \E i \in Ident : Take(i)

WaiterStep == Collect \/ Process \/ TimerReady

StopStep == RequestStop \/ MoveQueue \/ Join

TimerNext ==
    \/ GuestStep \/ WaiterStep \/ WaitFails
    \/ \E i \in Ident : Fire(i) \/ Fail(i)
    \/ RequestShutdown \/ StopStep

(* The waiter is a host thread of its own; teardown is the main thread.    *)
(* Neither guests nor expirations are obliged to go on.                    *)
TimerSpec ==
    /\ TimerInit /\ [][TimerNext]_timerVars
    /\ WF_timerVars(WaiterStep)
    /\ WF_timerVars(StopStep)

-----------------------------------------------------------------------------
(* What is pending is an expiration of the timer as it is armed now: a     *)
(* rearm or a deletion discards what the waiter had collected before it.   *)
NoStaleExpiration ==
    \A i \in Registered : timers[i].pending => timers[i].readyArm = timers[i].arm

(* Expirations of the arming that the waiter holds or the kernel holds. *)
InFlight(i) ==
    LET e == {x \in batch : x.ident = i /\ x.arm = timers[i].arm}
    IN (IF e = {} THEN 0 ELSE (CHOOSE x \in e : TRUE).data)
       + (IF kernel[i] = None THEN 0 ELSE kernel[i].count)

(* No expiration of an armed timer is lost or counted twice between the    *)
(* kernel, the waiter's array, the table and the guest, across any number  *)
(* of EV_ENABLE and EV_DISABLE, until the count saturates or the kernel    *)
(* reports an error for the arming.                                        *)
ExpirationsConserved ==
    ~stopping =>
    \A i \in {j \in Registered : timers[j].failed = 0} :
        LET ready == IF timers[i].pending THEN timers[i].data ELSE 0
            known == timers[i].taken + ready + InFlight(i)
        IN /\ known <= timers[i].fired
           /\ timers[i].fired <= MaxData => known = timers[i].fired

(* Main teardown never leaves a waiter thread behind it.                   *)
NoWaiterAfterStop ==
    stopped => waiter \in {"none", "exited"}

(* Every deliverable expiration is offered to the pump by a callback that  *)
(* starts after it became deliverable, or it goes away by itself, unless   *)
(* the queue fails or the process goes down.                               *)
DeliverableIsOffered ==
    \A i \in Ident :
        (Deliverable(i) /\ ~timers[i].offered)
            ~> (~Deliverable(i) \/ timers[i].offered \/ error \/ shutdown)

(* A stop of a queue whose waiter may be anywhere, in the pump too, ends.  *)
StopEnds == shutdown ~> stopped
=============================================================================
