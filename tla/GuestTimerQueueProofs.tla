------------------------ MODULE GuestTimerQueueProofs ------------------------
(***************************************************************************)
(* The generation tokens of the timer queue keep stale expirations out,    *)
(* for any number of timers, idents, tokens and events per batch.          *)
(***************************************************************************)
EXTENDS GuestTimerQueue, TLAPS

(* The kqueue holds registrations of the timers as they are armed now. *)
KernelIsCurrent ==
    ~stopping => \A i \in Ident : kernel[i] # None =>
        /\ timers[i] # None
        /\ kernel[i].udata = timers[i].generation
        /\ kernel[i].arm = timers[i].arm
        /\ kernel[i].oneShot = timers[i].oneShot

(* An event in the waiter's hands that has the token of its timer is of    *)
(* its arming; no event has a token that is still to be given.             *)
BatchIsDatable ==
    ~stopping => \A e \in batch : timers[e.ident] # None =>
        /\ e.udata <= timers[e.ident].generation
        /\ e.udata = timers[e.ident].generation => e.arm = timers[e.ident].arm

(* Idents that are still to be given name no timer and no event. *)
NextIdentIsFresh ==
    ~stopping /\ nextIdent # 0 =>
        /\ \A i \in Ident : i >= nextIdent => timers[i] = None
        /\ \A e \in batch : e.ident < nextIdent

(* A one-shot that is collected is not in the kernel any more. *)
OneShotIsSpent ==
    ~stopping =>
        /\ \A i \in Ident : timers[i] # None =>
            (timers[i].pending /\ timers[i].oneShot => kernel[i] = None)
        /\ \A e \in batch : timers[e.ident] # None =>
            (e.udata = timers[e.ident].generation /\ timers[e.ident].oneShot
                => kernel[e.ident] = None)

(* A queue that stops has no timers. *)
StoppingIsEmpty == stopping => \A i \in Ident : timers[i] = None

TimerInv ==
    /\ TimerTypeOK
    /\ KernelIsCurrent
    /\ BatchIsDatable
    /\ NextIdentIsFresh
    /\ OneShotIsSpent
    /\ StoppingIsEmpty
    /\ NoStaleExpiration

(* The conjuncts that speak of the tables. *)
Tables == /\ KernelIsCurrent /\ BatchIsDatable /\ NextIdentIsFresh
          /\ OneShotIsSpent /\ StoppingIsEmpty /\ NoStaleExpiration

(* The initial state satisfies the inductive invariant: nothing is armed. *)
LEMMA TimerInitInv == TimerInit => TimerInv
<1> SUFFICES ASSUME TimerInit PROVE TimerInv
    OBVIOUS
<1>1. TimerTypeOK
  <2>1. nextIdent \in 0..MaxIdent /\ armings \in Nat /\ batch \subseteq Event
        BY TimerAssumption DEF TimerInit
  <2>2. /\ timers \in [Ident -> Timer \cup {None}]
        /\ kernel \in [Ident -> Registration \cup {None}]
        BY DEF TimerInit
  <2> QED BY <2>1, <2>2, ZenonT(60) DEF TimerInit, TimerTypeOK
<1>2. /\ \A i \in Ident : timers[i] = None /\ kernel[i] = None
      /\ batch = {} /\ ~stopping
      BY DEF TimerInit
<1>3. KernelIsCurrent /\ BatchIsDatable /\ NextIdentIsFresh
      BY <1>2 DEF KernelIsCurrent, BatchIsDatable, NextIdentIsFresh
<1>4. OneShotIsSpent /\ StoppingIsEmpty /\ NoStaleExpiration
      BY <1>2 DEF OneShotIsSpent, StoppingIsEmpty, NoStaleExpiration, Registered
<1> QED BY <1>1, <1>3, <1>4 DEF TimerInv

(* A step that leaves the tables, the batch and the stop alone.            *)
LEMMA TablesUnchanged ==
    ASSUME Tables, UNCHANGED <<timers, kernel, batch, nextIdent, stopping>>
    PROVE  Tables'
BY DEF Tables, KernelIsCurrent, BatchIsDatable, NextIdentIsFresh, OneShotIsSpent,
       StoppingIsEmpty, NoStaleExpiration, Registered

(* Arming: a new ident, or a token above every token collected so far.     *)
LEMMA AddInv ==
    ASSUME TimerInv, NEW k \in Key, NEW oneShot \in BOOLEAN, NEW enabled \in BOOLEAN,
           ApplyAdd(k, oneShot, enabled)
    PROVE  TimerInv'
<1> USE DEF TimerInv, TimerTypeOK
<1>1. PICK i \in Find(k) \cup Fresh(k) :
        /\ Generation(i) < MaxGeneration
        /\ timers' = [timers EXCEPT ![i] =
            [key |-> k, generation |-> Generation(i) + 1, pending |-> FALSE,
             data |-> 0, enabled |-> enabled, oneShot |-> oneShot,
             offered |-> FALSE, readyArm |-> 0, arm |-> armings + 1,
             fired |-> 0, taken |-> 0, failed |-> 0]]
        /\ KernelAdd(i, oneShot, enabled)
        /\ nextIdent' = NextIdent(i)
      BY ZenonT(60) DEF ApplyAdd
<1>2. /\ UNCHANGED <<queueVars, stopping, error, waiter, batch, poke>>
      /\ armings' = armings + 1
      /\ ~stopping
      BY DEF ApplyAdd, CanApply
<1>3. /\ i \in Ident
      /\ timers[i] = None => i = nextIdent /\ nextIdent # 0
      BY NoneAssumption DEF Find, Fresh, Registered, Ident
<1>4. Generation(i) \in Nat /\ Generation(i) + 1 \in 0..MaxGeneration
      BY <1>1, <1>3, TimerAssumption DEF Generation, Timer
<1> DEFINE t == [key |-> k, generation |-> Generation(i) + 1, pending |-> FALSE,
             data |-> 0, enabled |-> enabled, oneShot |-> oneShot,
             offered |-> FALSE, readyArm |-> 0, arm |-> armings + 1,
             fired |-> 0, taken |-> 0, failed |-> 0]
           r == [udata |-> Generation(i) + 1, enabled |-> enabled, oneShot |-> oneShot,
                 count |-> 0, failed |-> FALSE, arm |-> armings + 1]
<1>5. t \in Timer /\ r \in Registration
      BY <1>4, TimerAssumption DEF Timer, Registration
<1>6. /\ timers' \in [Ident -> Timer \cup {None}]
      /\ timers'[i] = t
      /\ \A j \in Ident : j # i => timers'[j] = timers[j]
      BY <1>1, <1>3, <1>5, SMTT(60)
<1>7. /\ kernel' \in [Ident -> Registration \cup {None}]
      /\ kernel'[i] = r
      /\ \A j \in Ident : j # i => kernel'[j] = kernel[j]
      BY <1>1, <1>3, <1>5, SMTT(60) DEF KernelAdd
<1>8. /\ nextIdent' \in 0..MaxIdent
      /\ timers[i] # None => nextIdent' = nextIdent
      /\ timers[i] = None /\ nextIdent' # 0 => nextIdent' = i + 1
      BY <1>1, <1>3, TimerAssumption, SMTT(60) DEF NextIdent, Successor, Ident
<1>9. TimerTypeOK'
      BY <1>2, <1>6, <1>7, <1>8, SMTT(60) DEF queueVars
<1>10. t # None /\ r # None
      BY <1>5, NoneAssumption, ZenonT(60)
<1>11. KernelIsCurrent'
      BY <1>2, <1>6, <1>7, <1>10 DEF KernelIsCurrent
<1>12. \A e \in batch : e.ident = i =>
          timers[i] # None /\ e.udata \in Nat /\ e.udata <= Generation(i)
      BY <1>2, <1>3, SMTT(60) DEF NextIdentIsFresh, BatchIsDatable, Generation, Event, Ident
<1>13. BatchIsDatable'
  <2> SUFFICES ASSUME NEW e \in batch, timers'[e.ident] # None
               PROVE  /\ e.udata <= timers'[e.ident].generation
                      /\ e.udata = timers'[e.ident].generation
                            => e.arm = timers'[e.ident].arm
      BY <1>2 DEF BatchIsDatable
  <2>1. CASE e.ident = i
        BY <2>1, <1>4, <1>6, <1>12
  <2>2. CASE e.ident # i
        BY <2>2, <1>2, <1>6 DEF BatchIsDatable, Event
  <2> QED BY <2>1, <2>2
<1>14. NextIdentIsFresh'
  <2> SUFFICES ASSUME nextIdent' # 0
               PROVE  /\ \A j \in Ident : j >= nextIdent' => timers'[j] = None
                      /\ \A e \in batch : e.ident < nextIdent'
      BY <1>2 DEF NextIdentIsFresh
  <2>1. nextIdent # 0 /\ nextIdent' >= nextIdent /\ i < nextIdent'
        BY <1>2, <1>3, <1>8, SMTT(60) DEF NextIdentIsFresh, Ident
  <2> QED BY <1>2, <1>6, <1>8, <2>1, SMTT(60) DEF NextIdentIsFresh, Ident, Event
<1>15. OneShotIsSpent'
  <2>1. \A j \in Ident : timers'[j] # None =>
            (timers'[j].pending /\ timers'[j].oneShot => kernel'[j] = None)
        BY <1>2, <1>6, <1>7, SMTT(60) DEF OneShotIsSpent
  <2> SUFFICES ASSUME NEW e \in batch, timers'[e.ident] # None,
                      e.udata = timers'[e.ident].generation, timers'[e.ident].oneShot
               PROVE  kernel'[e.ident] = None
      BY <1>2, <2>1, SMTT(60) DEF OneShotIsSpent
  <2>2. e.ident # i
        BY <1>4, <1>6, <1>12, SMTT(60)
  <2> QED BY <2>2, <1>2, <1>6, <1>7, SMTT(60) DEF OneShotIsSpent, Event
<1>16. StoppingIsEmpty' /\ NoStaleExpiration'
      BY <1>2, <1>6, SMTT(60) DEF StoppingIsEmpty, NoStaleExpiration, Registered
<1> QED BY <1>9, <1>11, <1>13, <1>14, <1>15, <1>16

(* A refused EV_ADD spends the ident it was going to use. *)
LEMMA AddFailsInv ==
    ASSUME TimerInv, NEW k \in Key, ApplyAddFails(k)
    PROVE  TimerInv'
<1> USE DEF TimerInv, TimerTypeOK
<1>1. /\ nextIdent # 0 /\ nextIdent' = Successor(nextIdent)
      /\ UNCHANGED <<queueVars, stopping, error, timers, waiter, batch, kqueueVars, armings>>
      BY DEF ApplyAddFails, Fresh
<1>2. nextIdent' \in 0..MaxIdent /\ (nextIdent' # 0 => nextIdent' = nextIdent + 1)
      BY <1>1, TimerAssumption DEF Successor
<1>3. TimerTypeOK'
      BY <1>1, <1>2, SMTT(60) DEF queueVars, kqueueVars
<1>4. KernelIsCurrent' /\ BatchIsDatable' /\ OneShotIsSpent' /\ StoppingIsEmpty'
      BY <1>1, SMTT(60) DEF KernelIsCurrent, BatchIsDatable, OneShotIsSpent, StoppingIsEmpty, kqueueVars
<1>5. NextIdentIsFresh'
      BY <1>1, <1>2, SMTT(60) DEF NextIdentIsFresh, Ident, Event
<1>6. NoStaleExpiration'
      BY <1>1, SMTT(60) DEF NoStaleExpiration, Registered
<1> QED BY <1>3, <1>4, <1>5, <1>6

(* A deletion makes every event collected for the ident undatable; the     *)
(* ident is never given again.                                             *)
LEMMA DeleteInv ==
    ASSUME TimerInv, NEW k \in Key, ApplyDelete(k)
    PROVE  TimerInv'
<1> USE DEF TimerInv, TimerTypeOK
<1>1. PICK i \in Ident : /\ timers' = [timers EXCEPT ![i] = None]
                         /\ kernel' = [kernel EXCEPT ![i] = None]
      BY ZenonT(60) DEF ApplyDelete, Find, Registered
<1>2. UNCHANGED <<queueVars, stopping, error, nextIdent, waiter, batch, poke, armings>>
      BY DEF ApplyDelete
<1>3. /\ timers'[i] = None /\ kernel'[i] = None
      /\ \A j \in Ident : j # i => timers'[j] = timers[j] /\ kernel'[j] = kernel[j]
      BY <1>1
<1>4. TimerTypeOK'
      BY <1>1, <1>2 DEF queueVars
<1>5. KernelIsCurrent' /\ StoppingIsEmpty' /\ NoStaleExpiration'
      BY <1>2, <1>3 DEF KernelIsCurrent, StoppingIsEmpty, NoStaleExpiration, Registered
<1>6. BatchIsDatable' /\ NextIdentIsFresh' /\ OneShotIsSpent'
      BY <1>2, <1>3 DEF BatchIsDatable, NextIdentIsFresh, OneShotIsSpent, Event
<1> QED BY <1>4, <1>5, <1>6

(* Enabling and disabling touches neither token nor arming. *)
LEMMA EnableInv ==
    ASSUME TimerInv, NEW k \in Key, NEW enabled \in BOOLEAN, ApplyEnable(k, enabled)
    PROVE  TimerInv'
<1> USE DEF TimerInv, TimerTypeOK
<1>1. PICK i \in Find(k) :
        /\ timers' = [timers EXCEPT ![i].enabled = enabled, ![i].offered = FALSE]
        /\ KernelEnable(i, enabled)
        /\ poke' = (poke \/ (timers[i].pending /\ enabled))
      BY ZenonT(60) DEF ApplyEnable
<1>2. UNCHANGED <<queueVars, stopping, error, nextIdent, waiter, batch, armings>>
      BY DEF ApplyEnable
<1>3. i \in Ident /\ timers[i] # None /\ timers[i] \in Timer
      BY DEF Find, Registered
<1> DEFINE t == [[timers[i] EXCEPT !.enabled = enabled] EXCEPT !.offered = FALSE]
           r == [kernel[i] EXCEPT !.enabled = enabled]
<1>4. /\ t \in Timer
      /\ t.generation = timers[i].generation /\ t.arm = timers[i].arm
      /\ t.pending = timers[i].pending /\ t.readyArm = timers[i].readyArm
      /\ t.oneShot = timers[i].oneShot
      BY <1>3, ZenonT(60) DEF Timer
<1>5. timers' = [timers EXCEPT ![i] = t]
      BY <1>1, <1>3, ZenonT(60)
<1>6. /\ timers' \in [Ident -> Timer \cup {None}]
      /\ timers'[i] = t
      /\ \A j \in Ident : j # i => timers'[j] = timers[j]
      BY <1>3, <1>4, <1>5
<1>7. kernel[i] # None =>
        /\ r \in Registration /\ r.udata = kernel[i].udata /\ r.arm = kernel[i].arm
        /\ r.oneShot = kernel[i].oneShot
      BY <1>3 DEF Registration
<1>8. /\ kernel' \in [Ident -> Registration \cup {None}]
      /\ kernel'[i] = IF kernel[i] = None THEN None ELSE r
      /\ \A j \in Ident : j # i => kernel'[j] = kernel[j]
      BY <1>1, <1>3, <1>7 DEF KernelEnable
<1>9. poke' \in BOOLEAN
      BY <1>1, <1>3 DEF Timer
<1>10. TimerTypeOK'
      BY <1>2, <1>6, <1>8, <1>9 DEF queueVars
<1>11. t # None
      BY <1>4, NoneAssumption
<1>12. \A j \in Ident :
        /\ (timers'[j] = None) <=> (timers[j] = None)
        /\ (kernel'[j] = None) <=> (kernel[j] = None)
      BY <1>3, <1>6, <1>7, <1>8, <1>11, NoneAssumption
<1>13. \A j \in Ident : timers[j] # None =>
        /\ timers'[j].generation = timers[j].generation /\ timers'[j].arm = timers[j].arm
        /\ timers'[j].pending = timers[j].pending /\ timers'[j].oneShot = timers[j].oneShot
        /\ timers'[j].readyArm = timers[j].readyArm
      BY <1>4, <1>6, ZenonT(60)
<1>14. \A j \in Ident : kernel[j] # None =>
        /\ kernel'[j].udata = kernel[j].udata /\ kernel'[j].arm = kernel[j].arm
        /\ kernel'[j].oneShot = kernel[j].oneShot
      BY <1>7, <1>8, ZenonT(60)
<1> HIDE DEF t, r
<1>15. KernelIsCurrent'
      BY <1>2, <1>12, <1>13, <1>14 DEF KernelIsCurrent
<1>16. BatchIsDatable' /\ NextIdentIsFresh' /\ StoppingIsEmpty'
      BY <1>2, <1>12, <1>13, SMTT(60) DEF BatchIsDatable, NextIdentIsFresh, StoppingIsEmpty, Event
<1>17. OneShotIsSpent' /\ NoStaleExpiration'
      BY <1>2, <1>12, <1>13, SMTT(60) DEF OneShotIsSpent, NoStaleExpiration, Registered, Event
<1> QED BY <1>10, <1>15, <1>16, <1>17

(* Taking a one-shot deletes it: the kernel let go of it when it was       *)
(* collected, so no registration is left without its timer.                *)
LEMMA TakeInv ==
    ASSUME TimerInv, NEW i \in Ident, Take(i)
    PROVE  TimerInv'
<1> USE DEF TimerInv, TimerTypeOK
<1> DEFINE t == [timers[i] EXCEPT !.pending = FALSE,
                                  !.taken = timers[i].taken + timers[i].data]
<1>1. /\ timers[i] # None /\ timers[i] \in Timer /\ timers[i].pending
      /\ timers' = [timers EXCEPT ![i] = IF timers[i].oneShot THEN None ELSE t]
      /\ UNCHANGED <<queueVars, stopping, error, nextIdent, waiter, batch, kqueueVars, armings>>
      /\ ~stopping
      BY DEF Take, Deliverable
<1>2. /\ t \in Timer
      /\ t.generation = timers[i].generation /\ t.arm = timers[i].arm
      /\ t.pending = FALSE /\ t.oneShot = timers[i].oneShot
  <2>1. timers[i].taken + timers[i].data \in Nat
        BY <1>1, TimerAssumption DEF Timer
  <2> QED BY <1>1, <2>1, ZenonT(60) DEF Timer
<1>3. /\ timers' \in [Ident -> Timer \cup {None}]
      /\ timers'[i] = IF timers[i].oneShot THEN None ELSE t
      /\ \A j \in Ident : j # i => timers'[j] = timers[j]
      BY <1>1, <1>2
<1>4. TimerTypeOK'
      BY <1>1, <1>3 DEF queueVars, kqueueVars
<1>5. timers[i].oneShot => kernel[i] = None
      BY <1>1 DEF OneShotIsSpent
<1>6. t # None
      BY <1>2, NoneAssumption
<1> HIDE DEF t
<1>7. KernelIsCurrent'
      BY <1>1, <1>2, <1>3, <1>5, <1>6 DEF KernelIsCurrent, kqueueVars
<1>8. BatchIsDatable' /\ NextIdentIsFresh' /\ StoppingIsEmpty'
      BY <1>1, <1>2, <1>3 DEF BatchIsDatable, NextIdentIsFresh, StoppingIsEmpty, Event
<1>9. OneShotIsSpent' /\ NoStaleExpiration'
      BY <1>1, <1>2, <1>3 DEF OneShotIsSpent, NoStaleExpiration, Registered, Event, kqueueVars
<1> QED BY <1>4, <1>7, <1>8, <1>9

(* What the kernel does to a timer leaves its token and its arming alone.  *)
LEMMA KernelInv ==
    ASSUME TimerInv, NEW i \in Ident, NEW t \in Timer, NEW r \in Registration,
           kernel[i] # None, ~stopping,
           t.generation = timers[i].generation, t.arm = timers[i].arm,
           t.pending = timers[i].pending, t.readyArm = timers[i].readyArm,
           t.oneShot = timers[i].oneShot,
           r.udata = kernel[i].udata, r.arm = kernel[i].arm,
           r.oneShot = kernel[i].oneShot,
           timers' = [timers EXCEPT ![i] = t], kernel' = [kernel EXCEPT ![i] = r],
           UNCHANGED <<queueVars, stopping, error, nextIdent, waiter, batch, poke, armings>>
    PROVE  TimerInv'
<1> USE DEF TimerInv, TimerTypeOK
<1>1. timers[i] # None
      BY DEF KernelIsCurrent
<1>2. /\ timers' \in [Ident -> Timer \cup {None}]
      /\ kernel' \in [Ident -> Registration \cup {None}]
      /\ timers'[i] = t /\ kernel'[i] = r
      /\ \A j \in Ident : j # i => timers'[j] = timers[j] /\ kernel'[j] = kernel[j]
      BY SMTT(60)
<1>3. TimerTypeOK'
      BY <1>2, SMTT(60) DEF queueVars
<1>4. t # None /\ r # None
      BY NoneAssumption, SMTT(60)
<1>5. KernelIsCurrent'
      BY <1>1, <1>2, <1>4, SMTT(60) DEF KernelIsCurrent
<1>6. BatchIsDatable' /\ NextIdentIsFresh' /\ StoppingIsEmpty'
      BY <1>1, <1>2, SMTT(60) DEF BatchIsDatable, NextIdentIsFresh, StoppingIsEmpty, Event
<1>7. OneShotIsSpent' /\ NoStaleExpiration'
      BY <1>1, <1>2, SMTT(60) DEF OneShotIsSpent, NoStaleExpiration, Registered, Event
<1> QED BY <1>3, <1>5, <1>6, <1>7

(* An expiration counts up; an error takes the place of the count. *)
LEMMA FireInv ==
    ASSUME TimerInv, NEW i \in Ident, Fire(i) \/ Fail(i)
    PROVE  TimerInv'
<1> USE DEF TimerInv, TimerTypeOK
<1>1. /\ kernel[i] # None /\ ~stopping
      /\ UNCHANGED <<queueVars, stopping, error, nextIdent, waiter, batch, poke, armings>>
      BY SMTT(60) DEF Fire, Fail
<1>2. timers[i] # None /\ timers[i] \in Timer /\ kernel[i] \in Registration
      BY <1>1, SMTT(60) DEF KernelIsCurrent
<1>3. CASE Fire(i)
  <2> DEFINE t == [timers[i] EXCEPT !.fired = @ + 1]
             r == [kernel[i] EXCEPT !.count = @ + 1]
  <2>1. /\ t \in Timer
        /\ t.generation = timers[i].generation /\ t.arm = timers[i].arm
        /\ t.pending = timers[i].pending /\ t.readyArm = timers[i].readyArm
        /\ t.oneShot = timers[i].oneShot
        BY <1>2 DEF Timer
  <2>2. /\ r \in Registration /\ r.udata = kernel[i].udata /\ r.arm = kernel[i].arm
        /\ r.oneShot = kernel[i].oneShot
        BY <1>2 DEF Registration
  <2>3. timers' = [timers EXCEPT ![i] = t] /\ kernel' = [kernel EXCEPT ![i] = r]
        BY <1>3 DEF Fire
  <2> HIDE DEF t, r
  <2> QED BY <1>1, <2>1, <2>2, <2>3, KernelInv, ZenonT(60)
<1>4. CASE Fail(i)
  <2> DEFINE t == [timers[i] EXCEPT !.failed = @ + 1]
             r == [kernel[i] EXCEPT !.failed = TRUE, !.count = 1]
  <2>1. /\ t \in Timer
        /\ t.generation = timers[i].generation /\ t.arm = timers[i].arm
        /\ t.pending = timers[i].pending /\ t.readyArm = timers[i].readyArm
        /\ t.oneShot = timers[i].oneShot
        BY <1>2 DEF Timer
  <2>2. /\ r \in Registration /\ r.udata = kernel[i].udata /\ r.arm = kernel[i].arm
        /\ r.oneShot = kernel[i].oneShot
        BY <1>2, ZenonT(60) DEF Registration
  <2>3. timers' = [timers EXCEPT ![i] = t] /\ kernel' = [kernel EXCEPT ![i] = r]
        BY <1>4, ZenonT(60) DEF Fail
  <2> HIDE DEF t, r
  <2> QED BY <1>1, <2>1, <2>2, <2>3, KernelInv, ZenonT(60)
<1> QED BY <1>3, <1>4

(* A collection moves what the kernel holds, all of it current, into the   *)
(* batch; a one-shot leaves the kernel with it.                            *)
LEMMA CollectInv ==
    ASSUME TimerInv, Collect
    PROVE  TimerInv'
<1> USE DEF TimerInv, TimerTypeOK
<1>1. PICK S \in SUBSET Ready :
        /\ batch' = {[ident |-> i, udata |-> kernel[i].udata,
                      data |-> kernel[i].count, failed |-> kernel[i].failed,
                      arm |-> kernel[i].arm] : i \in S}
        /\ kernel' = [i \in Ident |->
            IF i \notin S THEN kernel[i]
            ELSE IF kernel[i].oneShot THEN None
            ELSE [kernel[i] EXCEPT !.count = 0, !.failed = FALSE]]
      BY ZenonT(60) DEF Collect
<1>2. /\ UNCHANGED <<queueVars, stopping, error, timers, nextIdent, armings>>
      /\ poke' = FALSE /\ waiter' = "collected"
      BY ZenonT(60) DEF Collect
<1>3. \A i \in S : i \in Ident /\ kernel[i] # None /\ kernel[i] \in Registration
      BY SMTT(60) DEF Ready
<1>4. \A e \in batch' : /\ e \in Event /\ e.ident \in S
                        /\ e.udata = kernel[e.ident].udata
                        /\ e.arm = kernel[e.ident].arm
  <2> SUFFICES ASSUME NEW e \in batch'
               PROVE  /\ e \in Event /\ e.ident \in S
                      /\ e.udata = kernel[e.ident].udata
                      /\ e.arm = kernel[e.ident].arm
      BY SMTT(60)
  <2>1. PICK i \in S : e = [ident |-> i, udata |-> kernel[i].udata,
                            data |-> kernel[i].count, failed |-> kernel[i].failed,
                            arm |-> kernel[i].arm]
        BY <1>1, ZenonT(60)
  <2>2. i \in Ident /\ kernel[i] \in Registration
        BY <1>3, SMTT(60)
  <2>3. e \in Event
        BY <2>1, <2>2 DEF Event, Registration
  <2> QED BY <2>1, <2>3, SMTT(60)
<1>5. \A i \in S : ~kernel[i].oneShot =>
        /\ [kernel[i] EXCEPT !.count = 0, !.failed = FALSE] \in Registration
        /\ [kernel[i] EXCEPT !.count = 0, !.failed = FALSE].udata = kernel[i].udata
        /\ [kernel[i] EXCEPT !.count = 0, !.failed = FALSE].arm = kernel[i].arm
        /\ [kernel[i] EXCEPT !.count = 0, !.failed = FALSE].oneShot = kernel[i].oneShot
      BY <1>3, ZenonT(60) DEF Registration
<1>6. /\ kernel' \in [Ident -> Registration \cup {None}]
      /\ \A i \in Ident :
            /\ kernel'[i] # None =>
                /\ kernel[i] # None
                /\ kernel'[i].udata = kernel[i].udata /\ kernel'[i].arm = kernel[i].arm
                /\ kernel'[i].oneShot = kernel[i].oneShot
            /\ i \in S /\ kernel[i].oneShot => kernel'[i] = None
      BY <1>1, <1>3, <1>5, ZenonT(60)
<1>7. TimerTypeOK'
      BY <1>2, <1>4, <1>6, ZenonT(60) DEF queueVars
<1>8. KernelIsCurrent' /\ StoppingIsEmpty' /\ NoStaleExpiration'
      BY <1>2, <1>6 DEF KernelIsCurrent, StoppingIsEmpty, NoStaleExpiration, Registered
<1>9. BatchIsDatable'
      BY <1>2, <1>3, <1>4 DEF BatchIsDatable, KernelIsCurrent, Registration
<1>10. NextIdentIsFresh'
  <2> SUFFICES ASSUME ~stopping, nextIdent # 0, NEW e \in batch'
               PROVE  e.ident < nextIdent
      BY <1>2 DEF NextIdentIsFresh
  <2>1. e.ident \in Ident /\ timers[e.ident] # None
        BY <1>3, <1>4 DEF KernelIsCurrent
  <2> QED BY <2>1 DEF NextIdentIsFresh, Ident
<1>11. OneShotIsSpent'
      BY <1>2, <1>3, <1>4, <1>6 DEF OneShotIsSpent, KernelIsCurrent
<1> QED BY <1>7, <1>8, <1>9, <1>10, <1>11

(* A publication marks a timer with the arming of an event that has the    *)
(* timer's own token, hence with its own arming.                           *)
LEMMA ProcessInv ==
    ASSUME TimerInv, Process
    PROVE  TimerInv'
<1> USE DEF TimerInv, TimerTypeOK
<1>1. /\ batch' = {} /\ waiter' \in {"waiting", "callback", "exited"}
      /\ UNCHANGED <<queueVars, stopping, error, nextIdent, kqueueVars, armings>>
      BY SMTT(60) DEF Process
<1>2. CASE stopping
  <2>1. UNCHANGED timers
        BY <1>2, SMTT(60) DEF Process
  <2>2. TimerTypeOK'
        BY <1>1, <2>1, SMTT(60) DEF queueVars, kqueueVars
  <2>3. KernelIsCurrent' /\ BatchIsDatable' /\ NextIdentIsFresh' /\ OneShotIsSpent'
        BY <1>1, <1>2, SMTT(60) DEF KernelIsCurrent, BatchIsDatable, NextIdentIsFresh, OneShotIsSpent
  <2>4. StoppingIsEmpty' /\ NoStaleExpiration'
        BY <1>1, <2>1, SMTT(60) DEF StoppingIsEmpty, NoStaleExpiration, Registered
  <2> QED BY <2>2, <2>3, <2>4, SMTT(60)
<1>3. CASE ~stopping
  <2>1. timers' = [i \in Ident |->
                IF timers[i] # None /\ \E e \in batch : e.ident = i
                THEN Publish(timers[i], CHOOSE e \in batch : e.ident = i)
                ELSE timers[i]]
        BY <1>3, ZenonT(60) DEF Process
  <2>2. ASSUME NEW i \in Ident, timers[i] # None
        PROVE  /\ timers'[i] \in Timer
               /\ timers'[i].generation = timers[i].generation
               /\ timers'[i].arm = timers[i].arm
               /\ timers'[i].oneShot = timers[i].oneShot
               /\ timers'[i].pending => timers'[i].readyArm = timers'[i].arm
               /\ timers'[i].pending /\ timers'[i].oneShot => kernel[i] = None
    <3>1. timers[i] \in Timer
          BY <2>2
    <3>2. timers[i].pending => timers[i].readyArm = timers[i].arm
          BY <2>2 DEF NoStaleExpiration, Registered
    <3>3. timers[i].pending /\ timers[i].oneShot => kernel[i] = None
          BY <1>3, <2>2 DEF OneShotIsSpent
    <3>4. CASE ~\E e \in batch : e.ident = i
          BY <2>1, <3>1, <3>2, <3>3, <3>4
    <3>5. CASE \E e \in batch : e.ident = i
      <4> DEFINE e == CHOOSE x \in batch : x.ident = i
                 d == ReadyData(timers[i], e)
      <4>1. e \in batch /\ e.ident = i /\ e \in Event
            BY <3>5, SMTT(60)
      <4>2. timers'[i] = Publish(timers[i], e)
            BY <2>1, <2>2, <3>5, SMTT(60)
      <4> HIDE DEF e
      <4>3. d \in 0..MaxData
            BY <3>1, <4>1, TimerAssumption DEF ReadyData, Saturating, Timer, Event
      <4> HIDE DEF d
      <4>4. CASE e.udata # timers[i].generation
            BY <3>1, <3>2, <3>3, <4>2, <4>4, SMTT(60) DEF Publish
      <4>5. CASE e.udata = timers[i].generation
        <5>1. e.arm = timers[i].arm /\ (timers[i].oneShot => kernel[i] = None)
              BY <1>3, <2>2, <4>1, <4>5 DEF BatchIsDatable, OneShotIsSpent
        <5>2. timers'[i] = [timers[i] EXCEPT !.pending = TRUE, !.offered = FALSE,
                                             !.readyArm = e.arm, !.data = d]
              BY <4>2, <4>5 DEF Publish, d
        <5> QED BY <3>1, <4>1, <4>3, <5>1, <5>2, ZenonT(60) DEF Timer, Event
      <4> QED BY <4>4, <4>5, SMTT(60)
    <3> QED BY <3>4, <3>5
  <2>3. \A i \in Ident : timers[i] = None => timers'[i] = None
        BY <2>1
  <2>4. timers' \in [Ident -> Timer \cup {None}]
    <3>1. \A i \in Ident : timers'[i] \in Timer \cup {None}
          BY <2>2, <2>3
    <3> QED BY <2>1, <3>1
  <2>5. \A i \in Ident : timers'[i] # None => timers[i] # None
        BY <2>3
  <2>6. TimerTypeOK'
        BY <1>1, <2>4 DEF queueVars, kqueueVars
  <2>7. KernelIsCurrent'
        BY <1>1, <2>2, NoneAssumption DEF KernelIsCurrent, kqueueVars
  <2>8. BatchIsDatable' /\ NextIdentIsFresh' /\ StoppingIsEmpty'
        BY <1>1, <1>3, <2>3 DEF BatchIsDatable, NextIdentIsFresh, StoppingIsEmpty
  <2>9. OneShotIsSpent' /\ NoStaleExpiration'
        BY <1>1, <2>2, <2>5 DEF OneShotIsSpent, NoStaleExpiration, Registered, kqueueVars
  <2> QED BY <2>6, <2>7, <2>8, <2>9, SMTT(60)
<1> QED BY <1>2, <1>3, SMTT(60)

(* The callback only notes what it has offered to the pump. *)
LEMMA ReadyInv ==
    ASSUME TimerInv, TimerReady
    PROVE  TimerInv'
<1> USE DEF TimerInv, TimerTypeOK
<1>1. /\ timers' = [i \in Ident |->
            IF Deliverable(i) /\ ~shutdown THEN [timers[i] EXCEPT !.offered = TRUE] ELSE timers[i]]
      /\ waiter' = "waiting"
      /\ UNCHANGED <<queueVars, stopping, error, nextIdent, batch, kqueueVars, armings>>
      BY DEF TimerReady
<1>2. \A i \in Ident :
        /\ timers[i] = None => timers'[i] = None
        /\ timers[i] # None =>
            /\ timers'[i] \in Timer
            /\ timers'[i].generation = timers[i].generation
            /\ timers'[i].arm = timers[i].arm
            /\ timers'[i].oneShot = timers[i].oneShot
            /\ timers'[i].pending = timers[i].pending
            /\ timers'[i].readyArm = timers[i].readyArm
  <2> SUFFICES ASSUME NEW i \in Ident, timers[i] # None
               PROVE  /\ timers'[i] \in Timer
                      /\ timers'[i].generation = timers[i].generation
                      /\ timers'[i].arm = timers[i].arm
                      /\ timers'[i].oneShot = timers[i].oneShot
                      /\ timers'[i].pending = timers[i].pending
                      /\ timers'[i].readyArm = timers[i].readyArm
      BY <1>1 DEF Deliverable
  <2>1. timers[i] \in Timer
        OBVIOUS
  <2>2. timers'[i] = [timers[i] EXCEPT !.offered = TRUE] \/ timers'[i] = timers[i]
        BY <1>1
  <2> QED BY <2>1, <2>2, ZenonT(60) DEF Timer
<1>3. timers' \in [Ident -> Timer \cup {None}]
      BY <1>1, <1>2
<1>4. TimerTypeOK'
      BY <1>1, <1>3 DEF queueVars, kqueueVars
<1>5. KernelIsCurrent'
      BY <1>1, <1>2, NoneAssumption DEF KernelIsCurrent, kqueueVars
<1>6. BatchIsDatable' /\ NextIdentIsFresh' /\ StoppingIsEmpty'
      BY <1>1, <1>2 DEF BatchIsDatable, NextIdentIsFresh, StoppingIsEmpty, Event
<1>7. OneShotIsSpent' /\ NoStaleExpiration'
      BY <1>1, <1>2 DEF OneShotIsSpent, NoStaleExpiration, Registered, Event, kqueueVars
<1> QED BY <1>4, <1>5, <1>6, <1>7

(* A stop empties the table. *)
LEMMA StopInv ==
    ASSUME TimerInv, RequestStop
    PROVE  TimerInv'
<1> USE DEF TimerInv, TimerTypeOK
<1>1. /\ stopping' = TRUE /\ timers' = [i \in Ident |-> None] /\ poke' = TRUE
      /\ UNCHANGED <<queueVars, error, nextIdent, waiter, batch, kernel, armings>>
      BY DEF RequestStop
<1>2. TimerTypeOK'
      BY <1>1 DEF queueVars
<1>3. KernelIsCurrent' /\ BatchIsDatable' /\ NextIdentIsFresh' /\ OneShotIsSpent'
      BY <1>1 DEF KernelIsCurrent, BatchIsDatable, NextIdentIsFresh, OneShotIsSpent
<1>4. StoppingIsEmpty' /\ NoStaleExpiration'
      BY <1>1, SMTT(60) DEF StoppingIsEmpty, NoStaleExpiration, Registered
<1> QED BY <1>2, <1>3, <1>4

(* The steps of teardown, creation and failure that leave the tables alone. *)
LEMMA QuietInv ==
    ASSUME TimerInv,
           Create \/ WaitFails \/ RequestShutdown \/ MoveQueue \/ Join \/ UNCHANGED timerVars
    PROVE  TimerInv'
<1>1. UNCHANGED <<timers, kernel, batch, nextIdent, stopping>>
      BY SMTT(60) DEF Create, WaitFails, RequestShutdown, MoveQueue, Join, timerVars, kqueueVars
<1>2. Tables'
      BY <1>1, TablesUnchanged, SMTT(60) DEF TimerInv, Tables
<1> USE DEF TimerInv, TimerTypeOK, queueVars, kqueueVars
<1>3. TimerTypeOK'
  <2>1. CASE Create
        BY <2>1, SMTT(60) DEF Create
  <2>2. CASE WaitFails
        BY <2>2, SMTT(60) DEF WaitFails
  <2>3. CASE RequestShutdown
        BY <2>3, SMTT(60) DEF RequestShutdown
  <2>4. CASE MoveQueue
        BY <2>4, SMTT(60) DEF MoveQueue
  <2>5. CASE Join
        BY <2>5, SMTT(60) DEF Join
  <2>6. CASE UNCHANGED timerVars
        BY <2>6 DEF timerVars
  <2> QED BY <2>1, <2>2, <2>3, <2>4, <2>5, <2>6, SMTT(60)
<1> QED BY <1>2, <1>3, SMTT(60) DEF Tables

(* Every step of guests, waiter, kernel and teardown preserves it. *)
LEMMA TimerStepInv == TimerInv /\ [TimerNext]_timerVars => TimerInv'
<1> SUFFICES ASSUME TimerInv, [TimerNext]_timerVars PROVE TimerInv'
    BY SMTT(60)
<1>1. CASE GuestStep
      BY <1>1, AddInv, EnableInv, AddFailsInv, DeleteInv, TakeInv, QuietInv DEF GuestStep
<1>2. CASE WaiterStep
      BY <1>2, CollectInv, ProcessInv, ReadyInv DEF WaiterStep
<1>3. CASE StopStep
      BY <1>3, StopInv, QuietInv DEF StopStep
<1>4. CASE \E i \in Ident : Fire(i) \/ Fail(i)
      BY <1>4, FireInv
<1>5. CASE WaitFails \/ RequestShutdown \/ UNCHANGED timerVars
      BY <1>5, QuietInv
<1> QED BY <1>1, <1>2, <1>3, <1>4, <1>5 DEF TimerNext

(* The state of the queue always has its type: tokens, idents and          *)
(* accumulated counts stay within their limits, and every collected event  *)
(* names an ident the queue has given.                                     *)
THEOREM TimerTypeCorrect == TimerSpec => []TimerTypeOK
<1>1. TimerInv => TimerTypeOK
      BY DEF TimerInv
<1> QED BY <1>1, TimerInitInv, TimerStepInv, PTL DEF TimerSpec

(* Whatever guests rearm, delete or register again between the waiter's    *)
(* collection and its publication, what becomes pending is an expiration   *)
(* of the current arming (guest_timer_queue.cpp 60-83).                    *)
THEOREM StaleExpirationsAreDropped == TimerSpec => []NoStaleExpiration
<1>1. TimerInv => NoStaleExpiration
      BY DEF TimerInv
<1> QED BY <1>1, TimerInitInv, TimerStepInv, PTL DEF TimerSpec

=============================================================================
