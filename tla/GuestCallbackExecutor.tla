------------------------ MODULE GuestCallbackExecutor ------------------------
(***************************************************************************)
(* The guest callback executor (dynarmic.cpp 249-610), the guest side of   *)
(* it (GuestFrameworks/LC32/LC32.m 945-1242) and the typed results of      *)
(* block invocations (block_bridge.mm 398-518, 592-709).                   *)
(*                                                                         *)
(* Host threads that are not guest threads submit callbacks; one guest     *)
(* thread fetches, runs and acknowledges them one by one.  A submitter     *)
(* sleeps until its job is completed or canceled.  Startup, teardown and   *)
(* the death of the executor race with both sides.  The guest acknowledges *)
(* a callback it refused to run, and one whose result it could not return: *)
(* the result of a block comes back on a path of its own.                  *)
(***************************************************************************)
EXTENDS Naturals, Sequences

CONSTANTS
    Submitter,      \* host threads, each with one callback to submit
    Release,        \* those whose callback is a _Block_release
    Typed,          \* those in InvokeGuestBlock; the others call functions
                    \* and selectors, which have no result
    None

ASSUME ReleaseAssumption ==
    /\ Release \subseteq Submitter /\ None \notin Submitter
    /\ Typed \subseteq Submitter \ Release

VARIABLES
    state,          \* guestCallbackExecutorState
    threadId,       \* guestCallbackExecutorThreadId names the executor
    jobs,           \* guestCallbackJobs: the submitters whose job is queued
    active,         \* guestCallbackActiveJob
    job,            \* GuestCallbackJob of each submitter
    submitter,      \* where each submitter is; "true" and "false" are results
    executor,       \* where the executor thread is
    creator,        \* where the guest constructor that starts it is
    shutdown,       \* nativeShutdownRequested or guestProcessExitRequested
    guest,          \* what the guest's loop has done with each callback
    completion,     \* TypedCallbackCompletion of each block invocation
    retained,       \* the object results the host holds a reference to
    outcome         \* what InvokeGuestBlock gave its caller

hostVars == <<state, threadId, jobs, active, job>>
typedVars == <<completion, retained, outcome>>
execVars == <<hostVars, submitter, executor, creator, shutdown, guest, typedVars>>

States == {"Unavailable", "Starting", "Ready", "Failed", "Stopping"}

ExecTypeOK ==
    /\ state \in States
    /\ threadId \in BOOLEAN
    /\ jobs \in Seq(Submitter)
    /\ active \in Submitter \cup {None}
    /\ job \in [Submitter ->
            [delivered : BOOLEAN, completed : BOOLEAN, canceled : BOOLEAN]]
    /\ submitter \in [Submitter ->
            {"idle", "starting", "waiting", "true", "false"}]
    /\ executor \in {"none", "entry", "idle", "pausing", "writing", "running",
                     "returning", "ran", "stop", "exited"}
    /\ creator \in {"none", "checked", "creating", "succeeded", "failed", "done"}
    /\ shutdown \in BOOLEAN
    /\ guest \in [Submitter -> {"none", "refused", "ran", "result"}]
    /\ completion \in [Typed -> {"none", "expected", "zero", "guest", "erased"}]
    /\ retained \subseteq Typed
    /\ outcome \in [Typed -> {"none", "zero", "guest"}]
    /\ active # None <=> executor \in {"writing", "running", "returning", "ran"}

ExecInit ==
    /\ state = "Unavailable" /\ threadId = FALSE
    /\ jobs = <<>> /\ active = None
    /\ job = [s \in Submitter |->
            [delivered |-> FALSE, completed |-> FALSE, canceled |-> FALSE]]
    /\ submitter = [s \in Submitter |-> "idle"]
    /\ executor = "none" /\ creator = "none"
    /\ shutdown = FALSE
    /\ guest = [s \in Submitter |-> "none"]
    /\ completion = [s \in Typed |-> "none"]
    /\ retained = {}
    /\ outcome = [s \in Typed |-> "none"]

Queued == {jobs[i] : i \in DOMAIN jobs}

(* CancelQueuedGuestCallbacksLocked, and the active job if there is one. *)
Cancel(S) ==
    job' = [s \in Submitter |->
        IF s \in S THEN [job[s] EXCEPT !.canceled = TRUE] ELSE job[s]]

-----------------------------------------------------------------------------
(* LC32StartGuestCallbackExecutorIfSupported: the lifecycle check is made  *)
(* under another lock than the change of state.                            *)
SupportedCheck ==
    /\ creator = "none"
    /\ ~shutdown
    /\ creator' = "checked"
    /\ UNCHANGED <<hostVars, submitter, executor, shutdown, guest, typedVars>>

Supported ==
    /\ creator = "checked"
    /\ state = "Unavailable"
    /\ state' = "Starting"
    /\ creator' = "creating"
    /\ UNCHANGED <<threadId, jobs, active, job, submitter, executor, shutdown, guest, typedVars>>

PthreadCreate ==
    /\ creator = "creating"
    /\ \/ creator' = "succeeded" /\ executor' = "entry"
       \/ creator' = "failed" /\ UNCHANGED executor
    /\ UNCHANGED <<hostVars, submitter, shutdown, guest, typedVars>>

CreationResult ==
    /\ creator \in {"succeeded", "failed"}
    /\ state' = IF state = "Starting" /\ creator = "failed" THEN "Failed" ELSE state
    /\ creator' = "done"
    /\ UNCHANGED <<threadId, jobs, active, job, submitter, executor, shutdown, guest, typedVars>>

-----------------------------------------------------------------------------
(* InvokeGuestBlock, the constructor of TypedCallbackRegistration. *)
Register(s) ==
    /\ s \in Typed
    /\ completion[s] = "none"
    /\ completion' = [completion EXCEPT ![s] = "expected"]
    /\ UNCHANGED <<hostVars, submitter, executor, creator, shutdown, guest,
                   retained, outcome>>

Registered(s) == s \in Typed => completion[s] = "expected"

(* SubmitGuestCallback.  While the executor starts, up to five seconds. *)
SubmitWhileStarting(s) ==
    /\ submitter[s] = "idle" /\ Registered(s)
    /\ state = "Starting"
    /\ submitter' = [submitter EXCEPT ![s] = "starting"]
    /\ UNCHANGED <<hostVars, executor, creator, shutdown, guest, typedVars>>

StartTimeout(s) ==
    /\ submitter[s] = "starting"
    /\ state = "Starting"
    /\ submitter' = [submitter EXCEPT ![s] = "false"]
    /\ UNCHANGED <<hostVars, executor, creator, shutdown, guest, typedVars>>

Submit(s) ==
    /\ submitter[s] \in {"idle", "starting"} /\ Registered(s)
    /\ state # "Starting"
    /\ IF state = "Ready" /\ ~shutdown
       THEN /\ jobs' = Append(jobs, s)
            /\ submitter' = [submitter EXCEPT ![s] = "waiting"]
       ELSE /\ submitter' = [submitter EXCEPT ![s] = "false"]
            /\ UNCHANGED jobs
    /\ UNCHANGED <<state, threadId, active, job, executor, creator, shutdown, guest, typedVars>>

(* Reports every delivered callback as done. *)
ReturnDelivered(s) ==
    /\ submitter[s] = "waiting"
    /\ job[s].completed \/ job[s].canceled
    /\ submitter' = [submitter EXCEPT ![s] =
            IF job[s].completed \/ job[s].delivered THEN "true" ELSE "false"]
    /\ UNCHANGED <<hostVars, executor, creator, shutdown, guest, typedVars>>

(* Reports what was acknowledged, for a release as for a call. *)
ReturnCompleted(s) ==
    /\ submitter[s] = "waiting"
    /\ job[s].completed \/ job[s].canceled
    /\ submitter' = [submitter EXCEPT ![s] =
            IF job[s].completed THEN "true" ELSE "false"]
    /\ UNCHANGED <<hostVars, executor, creator, shutdown, guest, typedVars>>

(* A delivered release counts as consumed. *)
Return(s) ==
    /\ submitter[s] = "waiting"
    /\ job[s].completed \/ job[s].canceled
    /\ submitter' = [submitter EXCEPT ![s] =
            IF job[s].completed \/ (job[s].delivered /\ s \in Release)
            THEN "true" ELSE "false"]
    /\ UNCHANGED <<hostVars, executor, creator, shutdown, guest, typedVars>>

(* Returns before the reference to an object result is given up. *)
InvokeReturnsEarly(s) ==
    /\ s \in Typed
    /\ submitter[s] \in {"true", "false"} /\ completion[s] # "erased"
    /\ outcome' = [outcome EXCEPT ![s] =
            IF submitter[s] = "true" /\ completion[s] = "guest" THEN "guest" ELSE "zero"]
    /\ completion' = [completion EXCEPT ![s] = "erased"]
    /\ retained' = IF submitter[s] = "true" THEN retained \ {s} ELSE retained
    /\ UNCHANGED <<hostVars, submitter, executor, creator, shutdown, guest>>

(* Back in InvokeGuestBlock: without an acknowledgement, or without result *)
(* data, its caller gets 0.  The registration ends; an object result moves *)
(* to the caller's autorelease pool or is released.                        *)
InvokeReturns(s) ==
    /\ s \in Typed
    /\ submitter[s] \in {"true", "false"} /\ completion[s] # "erased"
    /\ outcome' = [outcome EXCEPT ![s] =
            IF submitter[s] = "true" /\ completion[s] = "guest" THEN "guest" ELSE "zero"]
    /\ completion' = [completion EXCEPT ![s] = "erased"]
    /\ retained' = retained \ {s}
    /\ UNCHANGED <<hostVars, submitter, executor, creator, shutdown, guest>>

-----------------------------------------------------------------------------
(* ServiceGuestCallbackExecutorWait, entry: the first call makes it ready. *)
WaitEnter ==
    /\ executor = "entry"
    /\ \/ /\ state = "Starting"
          /\ state' = "Ready" /\ threadId' = TRUE /\ executor' = "idle"
       \/ /\ state = "Ready" /\ threadId
          /\ executor' = "idle" /\ UNCHANGED <<state, threadId>>
       \/ /\ state # "Starting" /\ ~(state = "Ready" /\ threadId)
          /\ executor' = "stop" /\ UNCHANGED <<state, threadId>>
    /\ UNCHANGED <<jobs, active, job, submitter, creator, shutdown, guest, typedVars>>

WaitStops ==
    /\ executor = "idle"
    /\ state # "Ready" \/ shutdown
    /\ executor' = "stop"
    /\ UNCHANGED <<hostVars, submitter, creator, shutdown, guest, typedVars>>

(* The wait found no job; a pause of the debugger or of the thread is      *)
(* waited for without the lock, and jobs may be queued meanwhile.          *)
WaitPauses ==
    /\ executor = "idle"
    /\ jobs = <<>> /\ state = "Ready" /\ ~shutdown
    /\ executor' = "pausing"
    /\ UNCHANGED <<hostVars, submitter, creator, shutdown, guest, typedVars>>

(* A debugger step in the pause returns to the guest loop, which retries;  *)
(* otherwise the wait goes on.                                             *)
WaitResumes ==
    /\ executor = "pausing"
    /\ executor' \in {"idle", "entry"}
    /\ UNCHANGED <<hostVars, submitter, creator, shutdown, guest, typedVars>>

WaitTakes ==
    /\ executor = "idle"
    /\ state = "Ready" /\ ~shutdown
    /\ jobs # <<>>
    /\ active' = Head(jobs)
    /\ jobs' = Tail(jobs)
    /\ executor' = "writing"
    /\ UNCHANGED <<state, threadId, job, submitter, creator, shutdown, guest, typedVars>>

(* Forgets to reset the active job when the write fails. *)
WriteFailureKeepsActive ==
    /\ executor = "writing"
    /\ \/ /\ job' = [job EXCEPT ![active].delivered = TRUE]
          /\ executor' = "running"
       \/ Cancel({active}) /\ executor' = "entry"
    /\ UNCHANGED <<state, threadId, jobs, active, submitter, creator, shutdown, guest, typedVars>>

(* The descriptor goes to guest memory without the lock; then delivered. *)
WriteDescriptor ==
    /\ executor = "writing"
    /\ \/ /\ job' = [job EXCEPT ![active].delivered = TRUE]
          /\ executor' = "running" /\ UNCHANGED active
       \/ /\ Cancel({active})
          /\ active' = None /\ executor' = "entry"
    /\ UNCHANGED <<state, threadId, jobs, submitter, creator, shutdown, guest, typedVars>>

(* The guest's loop handles the descriptor.  A release is always made; any *)
(* other callback may be refused, and a block may have run and leave no    *)
(* result in the descriptor.                                               *)
RunCallback ==
    /\ executor = "running"
    /\ \E h \in IF active \in Release THEN {"ran"}
                ELSE IF active \in Typed THEN {"refused", "ran", "result"}
                ELSE {"refused", "ran"} :
            guest' = [guest EXCEPT ![active] = h]
    /\ executor' = IF active \in Typed THEN "returning" ELSE "ran"
    /\ UNCHANGED <<hostVars, submitter, creator, shutdown, typedVars>>

(* LC32CompleteTypedGuestBlock, which the guest calls for a refused block  *)
(* too: the descriptor cannot be read, its token is unknown or its shape   *)
(* is wrong, or it is copied and an object in it retained.                 *)
ReturnTypedResult ==
    /\ executor = "returning"
    /\ executor' = "ran"
    /\ \/ UNCHANGED <<completion, retained>>
       \/ /\ completion[active] \notin {"none", "erased"}
          /\ completion' = [completion EXCEPT ![active] =
                    IF guest[active] = "result" THEN "guest" ELSE "zero"]
          /\ \/ UNCHANGED retained
             \/ guest[active] = "result" /\ retained' = retained \cup {active}
    /\ UNCHANGED <<hostVars, submitter, creator, shutdown, guest, outcome>>

(* ServiceGuestCallbackExecutorComplete. *)
Complete ==
    /\ executor = "ran"
    /\ threadId /\ active # None
    /\ job' = [job EXCEPT ![active].completed = TRUE]
    /\ active' = None
    /\ executor' = IF state = "Ready" /\ ~shutdown THEN "entry" ELSE "stop"
    /\ UNCHANGED <<state, threadId, jobs, submitter, creator, shutdown, guest, typedVars>>

(* The executor's guest thread ends: its loop broke, teardown halted its   *)
(* JIT, or guest code ended it: the callback, or the objects that the      *)
(* autorelease pool around it lets go.                                     *)
Exits ==
    \/ executor = "stop"
    \/ shutdown /\ executor \in {"entry", "running", "returning", "ran"}
    \/ executor \in {"running", "ran"}

(* Forgets the jobs still in the queue. *)
ExitKeepsQueue ==
    /\ Exits
    /\ executor' = "exited"
    /\ IF threadId
       THEN /\ Cancel({active})
            /\ active' = None /\ threadId' = FALSE
            /\ state' = IF state = "Stopping" THEN "Stopping" ELSE "Failed"
            /\ UNCHANGED jobs
       ELSE UNCHANGED hostVars
    /\ UNCHANGED <<submitter, creator, shutdown, guest, typedVars>>

(* Cancels every job in the same breath as a plain stop does. *)
GuestCallbackExecutorThreadExited ==
    /\ Exits
    /\ executor' = "exited"
    /\ IF threadId
       THEN /\ Cancel(Queued \cup {active})
            /\ jobs' = <<>> /\ active' = None /\ threadId' = FALSE
            /\ state' = IF state = "Stopping" THEN "Stopping" ELSE "Failed"
       ELSE UNCHANGED hostVars
    /\ UNCHANGED <<submitter, creator, shutdown, guest, typedVars>>

-----------------------------------------------------------------------------
(* Teardown and SYS_exit publish the request, then stop the executor. *)
RequestShutdown ==
    /\ ~shutdown
    /\ shutdown' = TRUE
    /\ UNCHANGED <<hostVars, submitter, executor, creator, guest, typedVars>>

(* Cancels what the executor is working on too. *)
StopCancelsActive ==
    /\ shutdown
    /\ state \notin {"Unavailable", "Stopping"}
    /\ state' = "Stopping"
    /\ Cancel(Queued \cup {active})
    /\ jobs' = <<>>
    /\ UNCHANGED <<threadId, active, submitter, executor, creator, shutdown, guest, typedVars>>

StopGuestCallbackExecutor ==
    /\ shutdown
    /\ state \notin {"Unavailable", "Stopping"}
    /\ state' = "Stopping"
    /\ Cancel(Queued)
    /\ jobs' = <<>>
    /\ UNCHANGED <<threadId, active, submitter, executor, creator, shutdown, guest, typedVars>>

-----------------------------------------------------------------------------
CreatorStep == SupportedCheck \/ Supported \/ PthreadCreate \/ CreationResult

SubmitterStep(s) ==
    \/ Register(s) \/ SubmitWhileStarting(s) \/ StartTimeout(s) \/ Submit(s)
    \/ Return(s) \/ InvokeReturns(s)

ServiceStep ==
    \/ WaitEnter \/ WaitStops \/ WaitResumes \/ WaitTakes \/ WriteDescriptor
    \/ RunCallback \/ ReturnTypedResult \/ Complete

ExecNext ==
    \/ CreatorStep
    \/ \E s \in Submitter : SubmitterStep(s)
    \/ ServiceStep \/ WaitPauses \/ GuestCallbackExecutorThreadExited
    \/ RequestShutdown \/ StopGuestCallbackExecutor

(* Host threads run; guest callbacks return unless their thread dies; the  *)
(* debugger lets a thread it holds go on; a loop that broke ends its       *)
(* thread.  The constructor and the request to    *)
(* shut down are not obliged to come.                                      *)
ExecSpec ==
    /\ ExecInit /\ [][ExecNext]_execVars
    /\ \A s \in Submitter :
        WF_execVars(StartTimeout(s) \/ Return(s)
                    \/ (submitter[s] = "starting" /\ Submit(s)))
    /\ WF_execVars(ServiceStep)
    /\ WF_execVars(executor = "stop" /\ GuestCallbackExecutorThreadExited)
    /\ WF_execVars(StopGuestCallbackExecutor)

-----------------------------------------------------------------------------
(* A submitter that is told its release did not happen may release the     *)
(* block itself: then the guest has not run the release and never will.    *)
ReleasedAtMostOnce ==
    \A s \in Release : submitter[s] = "false" =>
        guest[s] = "none" /\ s # active /\ s \notin Queued

(* A call that is reported as done was seen through by the guest's loop,   *)
(* which ran or refused it; being handed to an executor that then died is  *)
(* not enough.  A caller of a block computes with a result only if the     *)
(* block ran, left one, and the call was acknowledged.                     *)
CallAnswersAreTrue ==
    /\ \A s \in Submitter \ Release : submitter[s] = "true" => guest[s] # "none"
    /\ \A s \in Typed :
        outcome[s] = "guest" => job[s].completed /\ guest[s] = "result"

(* An object result is neither leaked nor stored for a caller that has     *)
(* gone, also when the executor dies between returning the result and      *)
(* acknowledging the call.                                                 *)
NoResultAfterItsCall ==
    \A s \in retained : completion[s] = "guest" /\ outcome[s] = "none"

(* While the executor holds a job, the submitter whose arguments it points *)
(* to is still asleep: no callback outlives the call that submitted it.    *)
NoJobOutlivesItsSubmitter ==
    \A s \in Submitter :
        s \in Queued \/ (s = active /\ executor \in {"writing", "running"})
            => submitter[s] = "waiting"

(* Every submitter gets an answer, whichever of startup, shutdown, a failed *)
(* delivery or the death of the executor overtakes its callback.           *)
SubmitterReturns ==
    \A s \in Submitter :
        submitter[s] \in {"starting", "waiting"} ~> submitter[s] \in {"true", "false"}
=============================================================================
