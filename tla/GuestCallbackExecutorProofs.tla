--------------------- MODULE GuestCallbackExecutorProofs ---------------------
(***************************************************************************)
(* What a submitter is told about its callback agrees with what the guest  *)
(* did, for any number of host threads that submit.                        *)
(***************************************************************************)
EXTENDS GuestCallbackExecutor, TLAPS

Untouched(s) == ~job[s].delivered /\ ~job[s].completed /\ ~job[s].canceled

(* A queued job is fresh, its submitter sleeps, and it is queued once.     *)
QueuedIsFresh ==
    /\ \A s \in Queued : submitter[s] = "waiting" /\ Untouched(s) /\ s # active
    /\ \A m, n \in DOMAIN jobs : jobs[m] = jobs[n] => m = n

(* The active job: its submitter sleeps, and only its delivery is noted.   *)
ActiveIsAwaited ==
    active # None =>
        /\ submitter[active] = "waiting"
        /\ ~job[active].completed /\ ~job[active].canceled
        /\ job[active].delivered <=> executor # "writing"

(* A thread that serves jobs is the one the host knows as the executor.    *)
ServerIsKnown ==
    executor \in {"idle", "pausing", "writing", "running", "returning", "ran"} => threadId

(* The notes about a job follow its progress. *)
NotesAreTrue ==
    \A s \in Submitter :
        /\ submitter[s] \in {"idle", "starting"} => Untouched(s)
        /\ guest[s] # "none" => job[s].delivered
        /\ job[s].completed => guest[s] # "none"
        /\ submitter[s] = "true" /\ s \notin Release => job[s].completed

(* The active job has been handled exactly when the executor is past it;   *)
(* only a block invocation returns a result.                               *)
HandledIsPast ==
    /\ active # None =>
        (guest[active] # "none" <=> executor \in {"returning", "ran"})
    /\ executor = "returning" => active \in Typed

(* What the host knows of a result is what the guest returned, and what a  *)
(* caller got was acknowledged.                                            *)
ResultsAreTrue ==
    \A s \in Typed :
        /\ completion[s] = "guest" => guest[s] = "result"
        /\ outcome[s] # "none" => completion[s] = "erased"
        /\ outcome[s] = "guest" => job[s].completed /\ guest[s] = "result"
        /\ s \in retained => completion[s] = "guest"

(* There is no executor before pthread_create. *)
CreatorFirst ==
    creator \in {"none", "checked", "creating", "failed"} => executor = "none"

ExecInv ==
    /\ ExecTypeOK
    /\ CreatorFirst
    /\ QueuedIsFresh
    /\ ActiveIsAwaited
    /\ ServerIsKnown
    /\ NotesAreTrue
    /\ HandledIsPast
    /\ ResultsAreTrue
    /\ ReleasedAtMostOnce

(* The initial state satisfies the inductive invariant: nothing is queued. *)
LEMMA ExecInitInv == ExecInit => ExecInv
<1> SUFFICES ASSUME ExecInit PROVE ExecInv
    OBVIOUS
<1>1. jobs = <<>> /\ Queued = {} /\ active = None /\ retained = {} /\ executor = "none"
      BY DEF ExecInit, Queued
<1>2. \A s \in Submitter : submitter[s] = "idle" /\ guest[s] = "none" /\ Untouched(s)
      BY ZenonT(60) DEF ExecInit, Untouched
<1>3. ExecTypeOK
  <2>1. jobs \in Seq(Submitter) /\ retained \subseteq Typed
        BY <1>1
  <2>2. /\ job \in [Submitter ->
            [delivered : BOOLEAN, completed : BOOLEAN, canceled : BOOLEAN]]
        /\ submitter \in [Submitter ->
            {"idle", "starting", "waiting", "true", "false"}]
        /\ guest \in [Submitter -> {"none", "refused", "ran", "result"}]
        /\ completion \in [Typed -> {"none", "expected", "zero", "guest", "erased"}]
        /\ outcome \in [Typed -> {"none", "zero", "guest"}]
        BY DEF ExecInit
  <2>3. state \in States /\ creator = "none" /\ threadId = FALSE /\ shutdown = FALSE
        BY DEF ExecInit, States
  <2> QED BY <1>1, <2>1, <2>2, <2>3, ZenonT(60) DEF ExecTypeOK
<1>4. QueuedIsFresh /\ ActiveIsAwaited /\ ServerIsKnown /\ HandledIsPast
      BY <1>1 DEF QueuedIsFresh, ActiveIsAwaited, ServerIsKnown, HandledIsPast
<1>5. NotesAreTrue /\ ReleasedAtMostOnce
      BY <1>1, <1>2, ReleaseAssumption DEF NotesAreTrue, ReleasedAtMostOnce, Untouched
<1>6. ResultsAreTrue
      BY <1>1, ZenonT(60) DEF ResultsAreTrue, ExecInit
<1> QED BY <1>1, <1>3, <1>4, <1>5, <1>6 DEF ExecInv, CreatorFirst

(* Queued has exactly the submitters in the sequence. *)
LEMMA QueuedType == ASSUME ExecTypeOK PROVE Queued \subseteq Submitter
BY DEF Queued, ExecTypeOK

(* Cancelling sets one flag of some jobs. *)
LEMMA CancelEffect ==
    ASSUME ExecTypeOK, NEW S, Cancel(S)
    PROVE  /\ job' \in [Submitter ->
                [delivered : BOOLEAN, completed : BOOLEAN, canceled : BOOLEAN]]
           /\ \A s \in Submitter :
                /\ job'[s].delivered = job[s].delivered
                /\ job'[s].completed = job[s].completed
                /\ s \notin S => job'[s] = job[s]
BY ZenonT(60) DEF ExecTypeOK, Cancel

(* Steps that touch no result: what the guest did and what it acknowledged *)
(* only grows.                                                             *)
LEMMA ResultsKept ==
    ASSUME ResultsAreTrue, UNCHANGED typedVars,
           \A s \in Typed : /\ guest[s] = "result" => guest'[s] = "result"
                            /\ job[s].completed => job'[s].completed
    PROVE  ResultsAreTrue'
BY DEF ResultsAreTrue, typedVars

(* Steps that leave jobs, queue, active job, submitters and history alone. *)
LEMMA ControlInv ==
    ASSUME ExecInv,
           UNCHANGED <<jobs, active, job, submitter, guest, typedVars>>,
           state' \in States, threadId' \in BOOLEAN, shutdown' \in BOOLEAN,
           creator' \in {"none", "checked", "creating", "succeeded", "failed", "done"},
           \/ UNCHANGED executor
           \/ /\ active = None
              /\ executor' \in {"none", "entry", "idle", "pausing", "stop", "exited"},
           ServerIsKnown', CreatorFirst'
    PROVE  ExecInv'
<1> USE DEF ExecInv
<1>1. ExecTypeOK'
  <2>1. CASE UNCHANGED executor
        BY <2>1 DEF ExecTypeOK, typedVars
  <2>2. CASE /\ active = None
             /\ executor' \in {"none", "entry", "idle", "pausing", "stop", "exited"}
        BY <2>2 DEF ExecTypeOK, typedVars
  <2> QED BY <2>1, <2>2
<1>2. Queued' = Queued
      BY DEF Queued
<1>3. \A s \in Submitter : Untouched(s)' <=> Untouched(s)
      BY DEF Untouched
<1>4. QueuedIsFresh' /\ NotesAreTrue' /\ ReleasedAtMostOnce'
      BY <1>2, <1>3, QueuedType DEF QueuedIsFresh, NotesAreTrue, ReleasedAtMostOnce
<1>5. ActiveIsAwaited' /\ HandledIsPast'
  <2>1. active = None => executor' \notin {"returning"}
        BY DEF ExecTypeOK
  <2> QED BY <2>1 DEF ActiveIsAwaited, HandledIsPast
<1>6. ResultsAreTrue'
      BY ResultsKept
<1> QED BY <1>1, <1>4, <1>5, <1>6

(* Submitting, giving up on a start and being refused. *)
LEMMA SubmitInv ==
    ASSUME ExecInv, NEW s \in Submitter,
           SubmitWhileStarting(s) \/ StartTimeout(s) \/ Submit(s)
    PROVE  ExecInv'
<1> USE DEF ExecInv
<1>1. /\ submitter[s] \in {"idle", "starting"}
      /\ UNCHANGED <<state, threadId, active, job, executor, creator, shutdown, guest,
                     typedVars>>
      BY DEF SubmitWhileStarting, StartTimeout, Submit, hostVars
<1>2. /\ submitter' \in [Submitter -> {"idle", "starting", "waiting", "true", "false"}]
      /\ \A q \in Submitter : q # s => submitter'[q] = submitter[q]
      /\ \/ submitter'[s] \in {"starting", "false"} /\ UNCHANGED jobs
         \/ submitter'[s] = "waiting" /\ jobs' = Append(jobs, s)
      BY SMTT(60) DEF SubmitWhileStarting, StartTimeout, Submit, hostVars, ExecTypeOK
<1>3. /\ Untouched(s) /\ guest[s] = "none" /\ s \notin Queued /\ s # active
      /\ ~job[s].completed
  <2>1. Untouched(s) /\ guest[s] = "none"
        BY <1>1 DEF NotesAreTrue, Untouched
  <2>2. s \notin Queued
        BY <1>1 DEF QueuedIsFresh
  <2>3. s # active
        BY <1>1, ReleaseAssumption DEF ActiveIsAwaited
  <2> QED BY <2>1, <2>2, <2>3 DEF Untouched
<1>4. ExecTypeOK'
  <2>1. jobs' \in Seq(Submitter)
        BY <1>2, SMTT(60) DEF ExecTypeOK
  <2> QED BY <1>1, <1>2, <2>1 DEF ExecTypeOK, typedVars
<1>5. /\ Queued' \subseteq Queued \cup {s}
      /\ s \in Queued' => submitter'[s] = "waiting"
      /\ \A m, n \in DOMAIN jobs' : jobs'[m] = jobs'[n] => m = n
  <2>1. CASE submitter'[s] \in {"starting", "false"} /\ UNCHANGED jobs
        BY <2>1, <1>3 DEF Queued, QueuedIsFresh
  <2>2. CASE submitter'[s] = "waiting" /\ jobs' = Append(jobs, s)
    <3>1. jobs \in Seq(Submitter)
          BY DEF ExecTypeOK
    <3>2. /\ DOMAIN jobs' = 1..(Len(jobs) + 1) /\ DOMAIN jobs = 1..Len(jobs)
          /\ Len(jobs) \in Nat
          /\ \A n \in DOMAIN jobs : jobs'[n] = jobs[n] /\ jobs[n] # s
          /\ jobs'[Len(jobs) + 1] = s
          BY <2>2, <3>1, <1>3 DEF Queued
    <3>3. Queued' \subseteq Queued \cup {s}
          BY <3>2 DEF Queued
    <3>4. \A m, n \in DOMAIN jobs' : jobs'[m] = jobs'[n] => m = n
          BY <3>2 DEF QueuedIsFresh
    <3> QED BY <2>2, <3>3, <3>4
  <2> QED BY <1>2, <2>1, <2>2, SMTT(60)
<1>6. \A q \in Submitter : Untouched(q)' <=> Untouched(q)
      BY <1>1, SMTT(60) DEF Untouched
<1>7. QueuedIsFresh'
      BY <1>1, <1>2, <1>3, <1>5, <1>6, QueuedType, SMTT(60) DEF QueuedIsFresh
<1>8. ActiveIsAwaited' /\ ServerIsKnown' /\ HandledIsPast'
  <2>1. active # None => active \in Submitter
        BY SMTT(60) DEF ExecTypeOK
  <2> QED BY <2>1, <1>1, <1>2, <1>3 DEF ActiveIsAwaited, ServerIsKnown, HandledIsPast
<1>9. NotesAreTrue'
      BY <1>1, <1>2, <1>3, <1>6, SMTT(60) DEF NotesAreTrue
<1>10. ReleasedAtMostOnce'
      BY <1>1, <1>2, <1>3, <1>5, ReleaseAssumption DEF ReleasedAtMostOnce
<1>11. ResultsAreTrue'
      BY <1>1, ResultsKept
<1>12. CreatorFirst'
      BY <1>1 DEF CreatorFirst
<1> QED BY <1>4, <1>7, <1>8, <1>9, <1>10, <1>11, <1>12

(* Waking up: the job is answered, so it is neither queued nor active.     *)
LEMMA ReturnInv ==
    ASSUME ExecInv, NEW s \in Submitter, Return(s)
    PROVE  ExecInv'
<1> USE DEF ExecInv
<1>1. /\ submitter[s] = "waiting"
      /\ job[s].completed \/ job[s].canceled
      /\ UNCHANGED <<hostVars, executor, creator, shutdown, guest, typedVars>>
      /\ submitter' = [submitter EXCEPT ![s] =
            IF job[s].completed \/ (job[s].delivered /\ s \in Release)
            THEN "true" ELSE "false"]
      BY SMTT(60) DEF Return
<1>2. /\ submitter' \in [Submitter -> {"idle", "starting", "waiting", "true", "false"}]
      /\ \A q \in Submitter : q # s => submitter'[q] = submitter[q]
      /\ submitter'[s] \in {"true", "false"}
      /\ submitter'[s] = "true" => job[s].completed \/ s \in Release
      /\ submitter'[s] = "false" =>
            ~job[s].completed /\ ~(job[s].delivered /\ s \in Release)
      BY <1>1 DEF ExecTypeOK
<1>3. s \notin Queued
      BY <1>1 DEF QueuedIsFresh, Untouched
<1>4. s # active
      BY <1>1, ReleaseAssumption DEF ActiveIsAwaited
<1>5. UNCHANGED <<state, threadId, jobs, active, job, executor, creator, shutdown, guest,
                  typedVars>>
      BY <1>1 DEF hostVars
<1>6. Queued' = Queued /\ \A q \in Submitter : Untouched(q)' <=> Untouched(q)
      BY <1>5, SMTT(60) DEF Queued, Untouched
<1>7. ExecTypeOK'
      BY <1>2, <1>5, SMTT(60) DEF ExecTypeOK, typedVars
<1>8. QueuedIsFresh'
      BY <1>2, <1>3, <1>5, <1>6, QueuedType, SMTT(60) DEF QueuedIsFresh
<1>9. ActiveIsAwaited' /\ ServerIsKnown' /\ HandledIsPast'
  <2>1. active # None => active \in Submitter
        BY SMTT(60) DEF ExecTypeOK
  <2> QED BY <2>1, <1>2, <1>4, <1>5 DEF ActiveIsAwaited, ServerIsKnown, HandledIsPast
<1>10. NotesAreTrue'
      BY <1>2, <1>5, <1>6, SMTT(60) DEF NotesAreTrue
<1>11. ReleasedAtMostOnce'
      BY <1>2, <1>3, <1>4, <1>5, <1>6, ReleaseAssumption, SMTT(60) DEF ReleasedAtMostOnce, NotesAreTrue
<1>12. ResultsAreTrue'
      BY <1>5, ResultsKept
<1>13. CreatorFirst'
      BY <1>5 DEF CreatorFirst
<1> QED BY <1>7, <1>8, <1>9, <1>10, <1>11, <1>12, <1>13, SMTT(60)

(* Taking the head of the queue: a fresh job of a sleeping submitter.      *)
LEMMA TakesInv ==
    ASSUME ExecInv, WaitTakes
    PROVE  ExecInv'
<1> USE DEF ExecInv
<1>1. /\ executor = "idle" /\ executor' = "writing"
      /\ jobs # <<>> /\ active' = Head(jobs) /\ jobs' = Tail(jobs)
      /\ UNCHANGED <<state, threadId, job, submitter, creator, shutdown, guest, typedVars>>
      BY DEF WaitTakes
<1>2. /\ jobs \in Seq(Submitter) /\ Len(jobs) \in Nat /\ Len(jobs) > 0
      /\ DOMAIN jobs = 1..Len(jobs)
      BY <1>1 DEF ExecTypeOK
<1>3. /\ jobs' \in Seq(Submitter)
      /\ DOMAIN jobs' = 1..(Len(jobs) - 1)
      /\ \A n \in DOMAIN jobs' : jobs'[n] = jobs[n + 1] /\ n + 1 \in DOMAIN jobs
      /\ active' = jobs[1] /\ 1 \in DOMAIN jobs
      BY <1>1, <1>2
<1>4. active' \in Queued /\ Queued' \subseteq Queued
      BY <1>3 DEF Queued
<1>5. active' \notin Queued'
      BY <1>2, <1>3 DEF Queued, QueuedIsFresh
<1>6. \A m, n \in DOMAIN jobs' : jobs'[m] = jobs'[n] => m = n
      BY <1>2, <1>3, SMTT(60) DEF QueuedIsFresh
<1>7. \A q \in Submitter : Untouched(q)' <=> Untouched(q)
      BY <1>1 DEF Untouched
<1>8. active' \in Submitter /\ active' # None
      BY <1>4, QueuedType, ReleaseAssumption, SMTT(60)
<1>9. ExecTypeOK'
      BY <1>1, <1>3, <1>8 DEF ExecTypeOK, typedVars
<1>10. QueuedIsFresh'
      BY <1>1, <1>4, <1>5, <1>6, <1>7, QueuedType, SMTT(60) DEF QueuedIsFresh
<1>11. ActiveIsAwaited' /\ ServerIsKnown' /\ HandledIsPast'
  <2>1. submitter[active'] = "waiting" /\ Untouched(active') /\ guest[active'] = "none"
        BY <1>4, <1>8, SMTT(60) DEF QueuedIsFresh, NotesAreTrue, Untouched
  <2> QED BY <1>1, <2>1, SMTT(60) DEF ActiveIsAwaited, ServerIsKnown, HandledIsPast, Untouched
<1>12. NotesAreTrue'
      BY <1>1, <1>7 DEF NotesAreTrue
<1>13. ReleasedAtMostOnce'
  <2> SUFFICES ASSUME NEW s \in Release, submitter[s] = "false"
               PROVE  guest[s] = "none" /\ s # active' /\ s \notin Queued'
      BY <1>1 DEF ReleasedAtMostOnce
  <2>1. s \notin Queued /\ guest[s] = "none"
        BY DEF ReleasedAtMostOnce
  <2> QED BY <2>1, <1>4
<1>14. ResultsAreTrue'
      BY <1>1, ResultsKept
<1>15. CreatorFirst'
      BY <1>1, SMTT(60) DEF CreatorFirst
<1> QED BY <1>9, <1>10, <1>11, <1>12, <1>13, <1>14, <1>15

(* The three ways a job advances: delivered, run, completed.  In each the  *)
(* submitter of the active job sleeps, and no other job changes.           *)
LEMMA AdvanceInv ==
    ASSUME ExecInv, active \in Submitter,
           UNCHANGED <<state, threadId, jobs, submitter, creator, shutdown>>,
           job' \in [Submitter ->
                [delivered : BOOLEAN, completed : BOOLEAN, canceled : BOOLEAN]],
           \A s \in Submitter : s # active => job'[s] = job[s],
           guest' \in [Submitter -> {"none", "refused", "ran", "result"}],
           \A s \in Submitter : s # active => guest'[s] = guest[s],
           guest'[active] # "none" => job'[active].delivered,
           job'[active].completed => guest'[active] # "none",
           active' \in {active, None},
           executor' \in {"running", "returning", "ran", "entry", "stop"},
           active' # None <=> executor' \in {"running", "returning", "ran"},
           active' # None => /\ ~job'[active].completed /\ ~job'[active].canceled
                             /\ job'[active].delivered,
           executor' = "running" => guest'[active] = "none",
           executor' \in {"returning", "ran"} => guest'[active] # "none",
           executor' = "returning" => active \in Typed,
           completion' \in [Typed -> {"none", "expected", "zero", "guest", "erased"}],
           retained' \subseteq Typed, outcome' = outcome,
           ResultsAreTrue'
    PROVE  ExecInv'
<1> USE DEF ExecInv
<1>1. active # None /\ submitter[active] = "waiting" /\ active \notin Queued
      BY ReleaseAssumption, SMTT(60) DEF ActiveIsAwaited, QueuedIsFresh
<1>2. Queued' = Queued
      BY SMTT(60) DEF Queued
<1>3. \A q \in Submitter : q # active => (Untouched(q)' <=> Untouched(q))
      BY SMTT(60) DEF Untouched
<1>4. ExecTypeOK'
      BY SMTT(60) DEF ExecTypeOK
<1>5. QueuedIsFresh'
      BY <1>1, <1>2, <1>3, QueuedType, ReleaseAssumption, SMTT(60) DEF QueuedIsFresh
<1>6. ActiveIsAwaited' /\ HandledIsPast'
      BY <1>1, ReleaseAssumption, SMTT(60) DEF ActiveIsAwaited, HandledIsPast
<1>7. ServerIsKnown'
      BY <1>1, SMTT(60) DEF ServerIsKnown, ExecTypeOK
<1>8. NotesAreTrue'
      BY <1>1, <1>3, SMTT(60) DEF NotesAreTrue
<1>9. ReleasedAtMostOnce'
      BY <1>1, <1>2, ReleaseAssumption, SMTT(60) DEF ReleasedAtMostOnce
<1>10. CreatorFirst'
      BY <1>1 DEF CreatorFirst, ExecTypeOK
<1> QED BY <1>4, <1>5, <1>6, <1>7, <1>8, <1>9, <1>10, SMTT(60)

(* Writing the descriptor delivers the active job or cancels it. *)
LEMMA WriteInv ==
    ASSUME ExecInv, WriteDescriptor
    PROVE  ExecInv'
<1> USE DEF ExecInv
<1>1. /\ executor = "writing" /\ active \in Submitter
      /\ UNCHANGED <<state, threadId, jobs, submitter, creator, shutdown, guest, typedVars>>
      BY SMTT(60) DEF WriteDescriptor, ExecTypeOK
<1>2. /\ ~job[active].completed /\ ~job[active].canceled /\ ~job[active].delivered
      /\ guest[active] = "none"
      BY <1>1, ReleaseAssumption, SMTT(60) DEF ActiveIsAwaited, NotesAreTrue
<1>3. /\ guest' \in [Submitter -> {"none", "refused", "ran", "result"}]
      /\ completion' \in [Typed -> {"none", "expected", "zero", "guest", "erased"}]
      /\ retained' \subseteq Typed /\ outcome' = outcome
      BY <1>1, SMTT(60) DEF ExecTypeOK, typedVars
<1>4. CASE /\ job' = [job EXCEPT ![active].delivered = TRUE]
           /\ executor' = "running" /\ UNCHANGED active
  <2>1. /\ job' \in [Submitter ->
                [delivered : BOOLEAN, completed : BOOLEAN, canceled : BOOLEAN]]
        /\ \A s \in Submitter : s # active => job'[s] = job[s]
        /\ job'[active].delivered
        /\ job'[active].completed = job[active].completed
        /\ job'[active].canceled = job[active].canceled
        BY <1>1, <1>4, ZenonT(60) DEF ExecTypeOK
  <2>2. ResultsAreTrue'
        BY <1>1, <1>2, <2>1, ResultsKept, ReleaseAssumption
  <2> QED BY <1>1, <1>2, <1>3, <1>4, <2>1, <2>2, AdvanceInv, ReleaseAssumption
<1>5. CASE Cancel({active}) /\ active' = None /\ executor' = "entry"
  <2>1. /\ job' \in [Submitter ->
                [delivered : BOOLEAN, completed : BOOLEAN, canceled : BOOLEAN]]
        /\ \A s \in Submitter : s # active => job'[s] = job[s]
        /\ job'[active].delivered = job[active].delivered
        /\ job'[active].completed = job[active].completed
        BY <1>1, <1>5, CancelEffect
  <2>2. ResultsAreTrue'
        BY <1>1, <1>2, <2>1, ResultsKept, ReleaseAssumption
  <2> QED BY <1>1, <1>2, <1>3, <1>5, <2>1, <2>2, AdvanceInv, ReleaseAssumption
<1> QED BY <1>4, <1>5 DEF WriteDescriptor

(* The guest's loop runs or refuses the active callback. *)
LEMMA RunInv ==
    ASSUME ExecInv, RunCallback
    PROVE  ExecInv'
<1> USE DEF ExecInv
<1>1. /\ executor = "running" /\ active \in Submitter
      /\ executor' = IF active \in Typed THEN "returning" ELSE "ran"
      /\ UNCHANGED <<state, threadId, jobs, active, job, submitter, creator, shutdown,
                     typedVars>>
      BY DEF RunCallback, ExecTypeOK, hostVars
<1>2. /\ ~job[active].completed /\ ~job[active].canceled /\ job[active].delivered
      /\ guest[active] = "none"
      BY <1>1, ReleaseAssumption DEF ActiveIsAwaited, HandledIsPast
<1>3. PICK h \in {"refused", "ran", "result"} : guest' = [guest EXCEPT ![active] = h]
      BY ZenonT(60) DEF RunCallback
<1>4. /\ guest' \in [Submitter -> {"none", "refused", "ran", "result"}]
      /\ \A s \in Submitter : s # active => guest'[s] = guest[s]
      /\ guest'[active] # "none"
      BY <1>1, <1>3 DEF ExecTypeOK
<1>5. /\ job' \in [Submitter ->
                [delivered : BOOLEAN, completed : BOOLEAN, canceled : BOOLEAN]]
      /\ completion' \in [Typed -> {"none", "expected", "zero", "guest", "erased"}]
      /\ retained' \subseteq Typed /\ outcome' = outcome
      BY <1>1 DEF ExecTypeOK, typedVars
<1>6. ResultsAreTrue'
      BY <1>1, <1>2, <1>4, ResultsKept, ReleaseAssumption
<1> QED BY <1>1, <1>2, <1>4, <1>5, <1>6, AdvanceInv, ReleaseAssumption

(* The result, if the host takes it, is stored in a completion whose       *)
(* caller still waits.                                                     *)
LEMMA ResultInv ==
    ASSUME ExecInv, ReturnTypedResult
    PROVE  ExecInv'
<1> USE DEF ExecInv
<1>1. /\ executor = "returning" /\ executor' = "ran" /\ active \in Typed
      /\ active \in Submitter
      /\ UNCHANGED <<state, threadId, jobs, active, job, submitter, creator, shutdown,
                     guest, outcome>>
      BY ReleaseAssumption, SMTT(60) DEF ReturnTypedResult, ExecTypeOK, HandledIsPast, hostVars
<1>2. /\ ~job[active].completed /\ ~job[active].canceled /\ job[active].delivered
      /\ guest[active] # "none"
      BY <1>1, ReleaseAssumption, SMTT(60) DEF ActiveIsAwaited, HandledIsPast
<1>3. /\ guest' \in [Submitter -> {"none", "refused", "ran", "result"}]
      /\ job' \in [Submitter ->
                [delivered : BOOLEAN, completed : BOOLEAN, canceled : BOOLEAN]]
      BY <1>1, SMTT(60) DEF ExecTypeOK
<1>4. /\ completion' \in [Typed -> {"none", "expected", "zero", "guest", "erased"}]
      /\ retained' \subseteq Typed
      /\ ResultsAreTrue'
  <2>1. CASE UNCHANGED <<completion, retained>>
        BY <1>1, <2>1, SMTT(60) DEF ExecTypeOK, ResultsAreTrue
  <2>2. CASE /\ completion[active] \notin {"none", "erased"}
             /\ completion' = [completion EXCEPT ![active] =
                    IF guest[active] = "result" THEN "guest" ELSE "zero"]
             /\ \/ UNCHANGED retained
                \/ guest[active] = "result" /\ retained' = retained \cup {active}
    <3>1. /\ completion' \in [Typed -> {"none", "expected", "zero", "guest", "erased"}]
          /\ \A s \in Typed : s # active => completion'[s] = completion[s]
          /\ completion'[active] = IF guest[active] = "result" THEN "guest" ELSE "zero"
          BY <1>1, <2>2, SMTT(60) DEF ExecTypeOK
    <3>2. /\ retained' \subseteq Typed
          /\ \A s \in Typed : s # active => (s \in retained' <=> s \in retained)
          /\ active \in retained' => active \in retained \/ guest[active] = "result"
          BY <1>1, <2>2, SMTT(60) DEF ExecTypeOK
    <3>3. /\ outcome[active] = "none"
          /\ active \in retained => guest[active] = "result"
          BY <1>1, <2>2, SMTT(60) DEF ResultsAreTrue
    <3> QED BY <1>1, <3>1, <3>2, <3>3, SMTT(60) DEF ResultsAreTrue
  <2> QED BY <2>1, <2>2, SMTT(60) DEF ReturnTypedResult
<1> QED BY <1>1, <1>2, <1>3, <1>4, AdvanceInv, ReleaseAssumption, SMTT(60)

(* The acknowledgement completes the job the guest has just handled. *)
LEMMA CompleteInv ==
    ASSUME ExecInv, Complete
    PROVE  ExecInv'
<1> USE DEF ExecInv
<1>1. /\ executor = "ran" /\ active \in Submitter
      /\ job' = [job EXCEPT ![active].completed = TRUE]
      /\ active' = None /\ executor' \in {"entry", "stop"}
      /\ UNCHANGED <<state, threadId, jobs, submitter, creator, shutdown, guest, typedVars>>
      BY DEF Complete, ExecTypeOK
<1>2. guest[active] # "none" /\ job[active].delivered
      BY <1>1, ReleaseAssumption DEF HandledIsPast, ActiveIsAwaited
<1>3. /\ job' \in [Submitter ->
                [delivered : BOOLEAN, completed : BOOLEAN, canceled : BOOLEAN]]
      /\ \A s \in Submitter : s # active => job'[s] = job[s]
      /\ job'[active].delivered = job[active].delivered
      /\ job'[active].completed
      BY <1>1, ZenonT(60) DEF ExecTypeOK
<1>4. /\ guest' \in [Submitter -> {"none", "refused", "ran", "result"}]
      /\ completion' \in [Typed -> {"none", "expected", "zero", "guest", "erased"}]
      /\ retained' \subseteq Typed /\ outcome' = outcome
      BY <1>1 DEF ExecTypeOK, typedVars
<1>5. ResultsAreTrue'
      BY <1>1, <1>3, ResultsKept, ReleaseAssumption
<1> QED BY <1>1, <1>2, <1>3, <1>4, <1>5, AdvanceInv, ReleaseAssumption

(* A block invocation registers its completion, and takes it down with the *)
(* result once it has an answer.                                           *)
LEMMA InvocationInv ==
    ASSUME ExecInv, NEW s \in Submitter, Register(s) \/ InvokeReturns(s)
    PROVE  ExecInv'
<1> USE DEF ExecInv
<1>1. /\ s \in Typed
      /\ UNCHANGED <<state, threadId, jobs, active, job, submitter, executor, creator,
                     shutdown, guest>>
      BY DEF Register, InvokeReturns, hostVars
<1>2. /\ completion' \in [Typed -> {"none", "expected", "zero", "guest", "erased"}]
      /\ retained' \subseteq Typed
      /\ outcome' \in [Typed -> {"none", "zero", "guest"}]
      BY <1>1, SMTT(60) DEF Register, InvokeReturns, ExecTypeOK
<1>3. ExecTypeOK'
      BY <1>1, <1>2 DEF ExecTypeOK
<1>4. Queued' = Queued /\ \A q \in Submitter : Untouched(q)' <=> Untouched(q)
      BY <1>1 DEF Queued, Untouched
<1>5. QueuedIsFresh' /\ NotesAreTrue' /\ ReleasedAtMostOnce'
      BY <1>1, <1>4, QueuedType DEF QueuedIsFresh, NotesAreTrue, ReleasedAtMostOnce
<1>6. ActiveIsAwaited' /\ ServerIsKnown' /\ HandledIsPast' /\ CreatorFirst'
      BY <1>1 DEF ActiveIsAwaited, ServerIsKnown, HandledIsPast, CreatorFirst
<1>7. CASE Register(s)
  <2>1. /\ completion[s] = "none" /\ UNCHANGED <<retained, outcome>>
        /\ \A q \in Typed : q # s => completion'[q] = completion[q]
        /\ completion'[s] = "expected"
        BY <1>1, <1>7 DEF Register, ExecTypeOK
  <2>2. s \notin retained /\ outcome[s] = "none"
        BY <1>1, <2>1, SMTT(60) DEF ResultsAreTrue
  <2>3. ResultsAreTrue'
        BY <1>1, <2>1, <2>2, SMTT(60) DEF ResultsAreTrue
  <2> QED BY <1>3, <1>5, <1>6, <2>3
<1>8. CASE InvokeReturns(s)
  <2>1. /\ submitter[s] \in {"true", "false"} /\ retained' = retained \ {s}
        /\ \A q \in Typed : q # s => /\ completion'[q] = completion[q]
                                     /\ outcome'[q] = outcome[q]
        /\ completion'[s] = "erased"
        /\ outcome'[s] = "guest" => submitter[s] = "true" /\ completion[s] = "guest"
        BY <1>1, <1>8, SMTT(60) DEF InvokeReturns, ExecTypeOK
  <2>2. outcome'[s] = "guest" => job[s].completed /\ guest[s] = "result"
        BY <1>1, <2>1, ReleaseAssumption, SMTT(60) DEF NotesAreTrue, ResultsAreTrue
  <2>3. ResultsAreTrue'
        BY <1>1, <2>1, <2>2, SMTT(60) DEF ResultsAreTrue
  <2> QED BY <1>3, <1>5, <1>6, <2>3
<1> QED BY <1>7, <1>8

(* A stop answers the queued jobs and leaves the active one to its thread; *)
(* the death of the thread answers the active one too.                     *)
LEMMA CancelInv ==
    ASSUME ExecInv, Cancel(Queued) \/ (Cancel(Queued \cup {active}) /\ active' = None),
           jobs' = <<>>, state' \in States, threadId' \in BOOLEAN,
           UNCHANGED <<submitter, creator, shutdown, guest, typedVars>>,
           \/ active' = None /\ executor' = "exited"
           \/ UNCHANGED <<active, executor, threadId>> /\ Cancel(Queued),
           CreatorFirst'
    PROVE  ExecInv'
<1> USE DEF ExecInv
<1>1. /\ job' \in [Submitter ->
                [delivered : BOOLEAN, completed : BOOLEAN, canceled : BOOLEAN]]
      /\ \A s \in Submitter :
            /\ job'[s].delivered = job[s].delivered
            /\ job'[s].completed = job[s].completed
            /\ s \notin Queued \cup {active} => job'[s] = job[s]
      BY CancelEffect, SMTT(60)
<1>2. Queued' = {}
      BY SMTT(60) DEF Queued
<1>3. ExecTypeOK'
  <2>1. jobs' \in Seq(Submitter)
        BY SMTT(60)
  <2> QED BY <1>1, <2>1 DEF ExecTypeOK, typedVars
<1>4. QueuedIsFresh'
      BY <1>2, SMTT(60) DEF QueuedIsFresh
<1>5. ActiveIsAwaited' /\ ServerIsKnown' /\ HandledIsPast'
  <2>1. CASE active' = None /\ executor' = "exited"
        BY <2>1, SMTT(60) DEF ActiveIsAwaited, ServerIsKnown, HandledIsPast
  <2>2. CASE UNCHANGED <<active, executor, threadId>> /\ Cancel(Queued)
    <3>1. active # None => active \in Submitter /\ active \notin Queued
          BY SMTT(60) DEF ExecTypeOK, QueuedIsFresh
    <3>2. active # None => job'[active] = job[active]
          BY <2>2, <3>1, CancelEffect, SMTT(60)
    <3> QED BY <2>2, <3>2, SMTT(60) DEF ActiveIsAwaited, ServerIsKnown, HandledIsPast
  <2> QED BY <2>1, <2>2, SMTT(60)
<1>6. NotesAreTrue'
  <2>1. ASSUME NEW s \in Submitter, submitter[s] \in {"idle", "starting"}
        PROVE  Untouched(s)'
    <3>1. s \notin Queued \cup {active}
          BY <2>1, ReleaseAssumption, SMTT(60) DEF QueuedIsFresh, ActiveIsAwaited
    <3> QED BY <1>1, <2>1, <3>1, SMTT(60) DEF NotesAreTrue, Untouched
  <2> QED BY <1>1, <2>1, SMTT(60) DEF NotesAreTrue
<1>7. ReleasedAtMostOnce'
      BY <1>2, ReleaseAssumption, SMTT(60) DEF ReleasedAtMostOnce
<1>8. ResultsAreTrue'
      BY <1>1, ResultsKept, ReleaseAssumption, SMTT(60)
<1> QED BY <1>3, <1>4, <1>5, <1>6, <1>7, <1>8, SMTT(60)

(* The executor's thread ends, as the known executor or before it was. *)
LEMMA ExitedInv ==
    ASSUME ExecInv, GuestCallbackExecutorThreadExited
    PROVE  ExecInv'
<1> USE DEF ExecInv
<1>1. executor' = "exited" /\ UNCHANGED <<submitter, creator, shutdown, guest, typedVars>>
      BY DEF GuestCallbackExecutorThreadExited
<1>2. CreatorFirst'
      BY <1>1, SMTT(60) DEF CreatorFirst, GuestCallbackExecutorThreadExited, Exits
<1>3. CASE threadId
  <2>1. /\ Cancel(Queued \cup {active})
        /\ jobs' = <<>> /\ active' = None /\ threadId' = FALSE
        /\ state' \in States
        BY <1>3 DEF GuestCallbackExecutorThreadExited, States
  <2> QED BY <1>1, <1>2, <2>1, CancelInv, ZenonT(60)
<1>4. CASE ~threadId
  <2>1. UNCHANGED <<state, threadId, jobs, active, job>>
        BY <1>4 DEF GuestCallbackExecutorThreadExited, hostVars
  <2>2. active = None
        BY <1>4 DEF ServerIsKnown, ExecTypeOK
  <2>3. ServerIsKnown'
        BY <1>1 DEF ServerIsKnown
  <2> QED BY <1>1, <1>2, <2>1, <2>2, <2>3, ControlInv DEF ExecTypeOK
<1> QED BY <1>3, <1>4

(* Teardown stops the executor. *)
LEMMA StopInv ==
    ASSUME ExecInv, StopGuestCallbackExecutor
    PROVE  ExecInv'
<1>1. /\ Cancel(Queued) /\ jobs' = <<>> /\ state' \in States
      /\ UNCHANGED <<threadId, active, submitter, executor, creator, shutdown, guest, typedVars>>
      BY DEF StopGuestCallbackExecutor, States
<1>2. threadId' \in BOOLEAN /\ CreatorFirst'
      BY <1>1 DEF ExecInv, ExecTypeOK, CreatorFirst
<1> QED BY <1>1, <1>2, CancelInv

(* The creator, the request to shut down, and the executor outside a job.  *)
LEMMA QuietInv ==
    ASSUME ExecInv,
           \/ CreatorStep \/ WaitEnter \/ WaitStops \/ WaitPauses \/ WaitResumes
           \/ RequestShutdown
           \/ UNCHANGED execVars
    PROVE  ExecInv'
<1> USE DEF ExecInv, ExecTypeOK
<1>1. CASE CreatorStep
  <2>1. /\ UNCHANGED <<threadId, jobs, active, job, submitter, shutdown, guest, typedVars>>
        /\ state' \in States
        /\ creator' \in {"none", "checked", "creating", "succeeded", "failed", "done"}
        BY <1>1, SMTT(60) DEF CreatorStep, SupportedCheck, Supported, PthreadCreate, CreationResult,
                    hostVars, States
  <2>2. UNCHANGED executor \/ (creator = "creating" /\ executor' = "entry")
        BY <1>1, SMTT(60) DEF CreatorStep, SupportedCheck, Supported, PthreadCreate, CreationResult
  <2>3. ServerIsKnown'
        BY <2>1, <2>2, SMTT(60) DEF ServerIsKnown
  <2>4. CreatorFirst'
        BY <1>1, SMTT(60) DEF CreatorFirst, CreatorStep, SupportedCheck, Supported, PthreadCreate,
                    CreationResult
  <2>5. creator = "creating" => active = None
        BY SMTT(60) DEF CreatorFirst
  <2> QED BY <2>1, <2>2, <2>3, <2>4, <2>5, ControlInv, SMTT(60)
<1>2. CASE WaitEnter
  <2>1. /\ UNCHANGED <<jobs, active, job, submitter, creator, shutdown, guest, typedVars>>
        /\ state' \in States /\ threadId' \in BOOLEAN
        /\ active = None /\ executor = "entry" /\ executor' \in {"idle", "stop"}
        /\ executor' = "idle" => threadId'
        BY <1>2, ZenonT(60) DEF WaitEnter, States
  <2>2. ServerIsKnown' /\ CreatorFirst'
        BY <2>1 DEF ServerIsKnown, CreatorFirst
  <2> QED BY <2>1, <2>2, ControlInv, SMTT(60)
<1>3. CASE WaitStops \/ WaitPauses \/ WaitResumes
  <2>1. /\ UNCHANGED <<state, threadId, jobs, active, job, submitter, creator, shutdown, guest,
                       typedVars>>
        /\ active = None /\ executor \in {"idle", "pausing"}
        /\ executor' \in {"idle", "pausing", "entry", "stop"}
        BY <1>3 DEF WaitStops, WaitPauses, WaitResumes, hostVars
  <2>2. ServerIsKnown' /\ CreatorFirst'
        BY <2>1 DEF ServerIsKnown, CreatorFirst
  <2> QED BY <2>1, <2>2, ControlInv
<1>4. CASE RequestShutdown \/ UNCHANGED execVars
  <2>1. /\ UNCHANGED <<state, threadId, jobs, active, job, submitter, executor, creator, guest,
                       typedVars>>
        /\ shutdown' \in BOOLEAN
        BY <1>4, ZenonT(60) DEF RequestShutdown, execVars, hostVars
  <2>2. ServerIsKnown' /\ CreatorFirst'
        BY <2>1 DEF ServerIsKnown, CreatorFirst
  <2> QED BY <2>1, <2>2, ControlInv
<1> QED BY <1>1, <1>2, <1>3, <1>4, SMTT(60)

(* Every step of submitters, executor, creator and teardown preserves it.  *)
LEMMA ExecStepInv == ExecInv /\ [ExecNext]_execVars => ExecInv'
<1> SUFFICES ASSUME ExecInv, [ExecNext]_execVars PROVE ExecInv'
    OBVIOUS
<1>1. CASE CreatorStep \/ WaitPauses \/ RequestShutdown \/ UNCHANGED execVars
      BY <1>1, QuietInv
<1>2. CASE \E s \in Submitter : SubmitterStep(s)
      BY <1>2, SubmitInv, ReturnInv, InvocationInv DEF SubmitterStep
<1>3. CASE ServiceStep
      BY <1>3, QuietInv, TakesInv, WriteInv, RunInv, ResultInv, CompleteInv
      DEF ServiceStep
<1>4. CASE GuestCallbackExecutorThreadExited
      BY <1>4, ExitedInv
<1>5. CASE StopGuestCallbackExecutor
      BY <1>5, StopInv
<1> QED BY <1>1, <1>2, <1>3, <1>4, <1>5 DEF ExecNext

(* The executor's state has its type, and there is an active job exactly   *)
(* while the executor writes, runs or acknowledges one.                    *)
THEOREM ExecTypeCorrect == ExecSpec => []ExecTypeOK
<1>1. ExecInv => ExecTypeOK
      BY DEF ExecInv
<1> QED BY <1>1, ExecInitInv, ExecStepInv, PTL DEF ExecSpec

(* A block whose release is reported as not done has not been released by  *)
(* the guest and will not be (dynarmic.cpp 384-389): with any number of    *)
(* submitters no block is released twice.                                  *)
THEOREM NoDoubleRelease == ExecSpec => []ReleasedAtMostOnce
<1>1. ExecInv => ReleasedAtMostOnce
      BY DEF ExecInv
<1> QED BY <1>1, ExecInitInv, ExecStepInv, PTL DEF ExecSpec

(* A call is reported as done only once the guest's loop is through with   *)
(* it (LC32.m 1174-1214), and InvokeGuestBlock hands out a result only of  *)
(* a block that ran, left one and was acknowledged (block_bridge.mm        *)
(* 668-681).                                                               *)
THEOREM AnswersAreTrue == ExecSpec => []CallAnswersAreTrue
<1>1. ExecInv => CallAnswersAreTrue
      BY DEF ExecInv, NotesAreTrue, ResultsAreTrue, CallAnswersAreTrue
<1> QED BY <1>1, ExecInitInv, ExecStepInv, PTL DEF ExecSpec

(* The host holds an object result only for a caller that has yet to       *)
(* return from InvokeGuestBlock, however the executor ended.               *)
THEOREM ResultsAreSettled == ExecSpec => []NoResultAfterItsCall
<1>1. ExecInv => NoResultAfterItsCall
      BY DEF ExecInv, ExecTypeOK, ResultsAreTrue, NoResultAfterItsCall
<1> QED BY <1>1, ExecInitInv, ExecStepInv, PTL DEF ExecSpec

(* The executor never works on a job whose submitter, on whose stack the   *)
(* arguments live, has gone.                                               *)
THEOREM JobsAreAwaited == ExecSpec => []NoJobOutlivesItsSubmitter
<1>1. ExecInv => NoJobOutlivesItsSubmitter
  <2> SUFFICES ASSUME ExecInv PROVE NoJobOutlivesItsSubmitter
      OBVIOUS
  <2>1. \A s \in Queued : submitter[s] = "waiting"
        BY SMTT(60) DEF ExecInv, QueuedIsFresh
  <2>2. active # None => submitter[active] = "waiting"
        BY DEF ExecInv, ActiveIsAwaited
  <2> QED BY <2>1, <2>2, ReleaseAssumption DEF NoJobOutlivesItsSubmitter
<1> QED BY <1>1, ExecInitInv, ExecStepInv, PTL DEF ExecSpec

=============================================================================
