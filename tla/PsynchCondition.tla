--------------------------- MODULE PsynchCondition ---------------------------
(***************************************************************************)
(* A guest condition variable with its mutex: libpthread's user-space half *)
(* of the condition, external, on PsynchMutex and the kernel half of       *)
(* GuestPsynch.                                                            *)
(*                                                                         *)
(* The condition's words hold three generations: clcnt counts the waits    *)
(* begun, cucnt the ones signals were sent for, cscnt the ones retired.    *)
(* Who retires a wait is the kernel's choice: a registered waiter that is  *)
(* woken gets 0 and its signaller the increment; a waiter that arrives     *)
(* after the signal, or fails, gets the increment itself.                  *)
(***************************************************************************)
EXTENDS PsynchMutex

CONSTANTS
    MaxWaits,     \* bound: condition waits
    MaxSignals    \* bound: signals and broadcasts

ASSUME ConditionAssumption ==
    MaxWaits \in Nat /\ MaxSignals \in Nat /\ Generations > 2 * MaxWaits

VARIABLES
    clcnt, cucnt, cscnt,   \* the condition's words in guest memory
    snap,                  \* what a thread read of them for its call
    promised,              \* threads that were waiting when a broadcast was made
    waits, signals         \* calls so far

conditionVars == << clcnt, cucnt, cscnt, snap, promised, waits, signals >>

cvars == << vars, conditionVars >>

ConditionInit ==
    /\ MutexInit
    /\ clcnt = Generations - 2   \* the second wait wraps the generations
    /\ cucnt = clcnt /\ cscnt = clcnt
    /\ snap = [t \in Thread |-> None]
    /\ promised = {}
    /\ waits = 0 /\ signals = 0

\* _pthread_cond_updateval: n waits are retired.
Retire(n) ==
    cscnt' = IF clcnt = cscnt THEN cscnt ELSE (cscnt + n) % Generations

-----------------------------------------------------------------------------
(* Waiting.                                                                *)

\* Take a generation of the condition and leave the mutex.
ConditionWait(t, timeout) ==
    /\ Executes(t) /\ pc[t] = "in" /\ waits < MaxWaits
    /\ clcnt' = SequenceNext(clcnt)
    /\ snap' = [snap EXCEPT ![t] = [cgen |-> clcnt', sgen |-> cscnt,
                                    timeout |-> timeout]]
    /\ Released(t, "cvdrop", "cvwait")
    /\ waits' = waits + 1
    /\ UNCHANGED << psynchVars, cucnt, cscnt, promised, signals >>

\* psynch_cvwait first finishes the handover of the mutex.
ConditionWaitDrop(t) ==
    /\ Executes(t) /\ pc[t] = "cvdrop"
    /\ GuestPsynchMutexDrop(gen[t][1], gen[t][2], FirstFit)
    /\ pc' = [pc EXCEPT ![t] = "cvwait"]
    /\ gen' = [gen EXCEPT ![t] = << 0, 0 >>]
    /\ UNCHANGED << guestConditionPreposts, call, ret, debugger,
                    lcnt, ucnt, ebit, conditionVars >>

ConditionWaitEnter(t) ==
    /\ Executes(t) /\ pc[t] = "cvwait"
    /\ WaitForCondition(t, snap[t].cgen, snap[t].sgen, snap[t].timeout)
    /\ pc' = [pc EXCEPT ![t] = "cvin"]
    /\ UNCHANGED << lcnt, ucnt, ebit, gen, conditionVars >>

\* psynch_cvwait has returned; the thread then takes the mutex again (Lock).
ConditionWaitLeave(t) ==
    /\ Returned(t) /\ pc[t] = "cvin"
    /\ Consumed(t)
    /\ Retire(IF ret[t].error # "none" THEN 1 ELSE ret[t].update)
    /\ pc' = [pc EXCEPT ![t] = "out"]
    /\ snap' = [snap EXCEPT ![t] = None]
    /\ promised' = promised \ {t}
    /\ UNCHANGED << nativeGuestWaiters, guestMutexPreposts, guestConditionPreposts,
                    debugger, lcnt, ucnt, ebit, gen, clcnt, cucnt, waits, signals >>

-----------------------------------------------------------------------------
(* Signalling, without the mutex: a signaller that holds it only has fewer *)
(* interleavings, and the kernel does not look at the mutex.               *)

\* Nothing to do when no wait is outstanding, or (with no target) when
\* signals were already sent for every one.
Signal(t, broadcast, target) ==
    /\ Executes(t) /\ pc[t] = "out" /\ signals < MaxSignals
    /\ clcnt # cscnt
    /\ target = None => clcnt # cucnt
    /\ target # None => ~ broadcast
    /\ cucnt' = IF target # None THEN cucnt
                ELSE IF broadcast THEN clcnt
                ELSE IF GuestPsynchSequenceLower(cucnt, cscnt) THEN SequenceNext(cscnt)
                ELSE SequenceNext(cucnt)
    /\ snap' = [snap EXCEPT ![t] = [cgen |-> clcnt, sgen |-> cscnt,
                                    broadcast |-> broadcast, target |-> target,
                                    result |-> None]]
    /\ pc' = [pc EXCEPT ![t] = "signal"]
    /\ signals' = signals + 1
    /\ UNCHANGED << psynchVars, lcnt, ucnt, ebit, gen,
                    clcnt, cscnt, promised, waits >>

\* A wait of generation g began no later than one of generation h: of the
\* MaxWaits generations a run hands out, no more than that many lie between.
BeganBy(g, h) == GuestPsynchSequenceDistance(h, g) < MaxWaits

WaitsOnCondition(t) == \/ pc[t] \in {"cvdrop", "cvwait"}
                       \/ pc[t] = "cvin" /\ call[t] # "returned"

SignalCall(t) ==
    LET s == snap[t]
    IN /\ Executes(t) /\ pc[t] = "signal"
       /\ GuestPsynchConditionSignal(s.cgen, s.sgen, s.broadcast, s.target)
       /\ snap' = [snap EXCEPT ![t].result =
                      ConditionSignalResult(s.cgen, s.sgen, s.broadcast, s.target)]
       /\ pc' = [pc EXCEPT ![t] = "signaled"]
       /\ promised' = IF ~ s.broadcast THEN promised
                      ELSE promised \cup
                           {u \in Thread : /\ WaitsOnCondition(u)
                                           /\ BeganBy(snap[u].cgen, s.cgen)}
       /\ UNCHANGED << guestMutexPreposts, call, ret, debugger,
                       lcnt, ucnt, ebit, gen, clcnt, cucnt, cscnt, waits, signals >>

\* An error retires nothing.  The flags only ask for psynch_cvclrprepost,
\* which does nothing here.
SignalDone(t) ==
    /\ Executes(t) /\ pc[t] = "signaled"
    /\ IF snap[t].result.error = "none" THEN Retire(snap[t].result.update)
                                        ELSE UNCHANGED cscnt
    /\ pc' = [pc EXCEPT ![t] = "out"]
    /\ snap' = [snap EXCEPT ![t] = None]
    /\ UNCHANGED << psynchVars, lcnt, ucnt, ebit, gen,
                    clcnt, cucnt, promised, waits, signals >>

ConditionStep(t) ==
    \/ \E timeout \in Timeouts : ConditionWait(t, timeout)
    \/ ConditionWaitDrop(t)
    \/ ConditionWaitEnter(t)
    \/ ConditionWaitLeave(t)
    \/ \E broadcast \in BOOLEAN, target \in Thread \cup {None} :
           Signal(t, broadcast, target)
    \/ SignalCall(t)
    \/ SignalDone(t)

ConditionNext ==
    \/ MutexNext /\ UNCHANGED conditionVars
    \/ \E t \in Thread : ConditionStep(t)

\* A thread in libpthread or in a call goes on; waiting and signalling are its
\* own choice.
ConditionFairness ==
    \A t \in Thread :
        /\ WF_cvars(ConditionWaitDrop(t))
        /\ WF_cvars(ConditionWaitEnter(t))
        /\ WF_cvars(ConditionWaitLeave(t))
        /\ WF_cvars(WaitSignaled(t) /\ UNCHANGED << mutexVars, conditionVars >>)

ConditionSpec ==
    ConditionInit /\ [][ConditionNext]_cvars /\ ConditionFairness

-----------------------------------------------------------------------------
(* Properties.                                                             *)

\* Waits that will retire themselves: not yet woken, or woken by a prepost,
\* or failed.
SelfRetiring ==
    {t \in Thread :
        \/ pc[t] \in {"cvdrop", "cvwait"}
        \/ /\ pc[t] = "cvin" /\ call[t] = "returned"
           /\ ret[t].error # "none" \/ ret[t].update # 0
        \/ /\ pc[t] = "cvin" /\ call[t] # "returned"
           /\ ~ nativeGuestWaiters[WaiterOf(t)].signaled}

\* Waits that a signaller has been told to retire and has not yet.
OwedBySignallers ==
    Cardinality({<< t, n >> \in Thread \X (1 .. Cardinality(Thread)) :
                    pc[t] = "signaled" /\ n <= snap[t].result.update})

\* Every wait is retired exactly once, by the waiter or by its signaller: the
\* results of psynch_cvwait and psynch_cvsignal/cvbroad add up, whichever of
\* them comes first, and whether the wait is woken, preposted or times out.
RetiredOnce ==
    GuestPsynchSequenceDistance(clcnt, cscnt) =
        Cardinality(SelfRetiring) + OwedBySignallers

\* A broadcast reaches every thread that was waiting: the ones still on their
\* way into psynch_cvwait find enough preposts for their generation.
BroadcastReaches ==
    \A t \in promised :
        /\ (pc[t] = "cvin" /\ call[t] # "returned") =>
              nativeGuestWaiters[WaiterOf(t)].signaled
        /\ pc[t] \in {"cvdrop", "cvwait"} =>
              Cardinality({u \in promised : pc[u] \in {"cvdrop", "cvwait"}}) <=
              Cardinality({<< g, n >> \in Generation \X (1 .. 2 * MaxWaits) :
                  /\ BeganBy(snap[t].cgen, g)
                  /\ n <= guestConditionPreposts[g]})

\* A signal or broadcast that tells libpthread nobody is left (CBIT) is right:
\* of the waits begun when it was made, none is still to be woken, in the list
\* or on its way into psynch_cvwait.
ClearedIsClear ==
    [][\A t \in Thread :
          (/\ pc[t] = "signal" /\ pc'[t] = "signaled"
           /\ snap'[t].result.flag = "CBIT")
             => \A u \in Thread : WaitsOnCondition(u) =>
                   \/ ~ BeganBy(snap[u].cgen, snap[t].cgen)
                   \/ /\ pc[u] = "cvin"
                      /\ nativeGuestWaiters'[WaiterOf(u)].signaled]_cvars

\* A thread that was waiting when a broadcast was made leaves psynch_cvwait.
PromisedReturns == \A t \in Thread : (t \in promised) ~> (t \notin promised)

\* A timeout that returns the 0x100 flag consumes the last outstanding
\* generation: no other waiter is in the list when WaitNativeGuestThread
\* decides so.
LastTimeoutIsLast ==
    [][\A t \in Thread :
          (call[t] = "blocked" /\ call'[t] = "returned" /\ ret'[t].last)
             => Waiters("Condition") \subseteq {WaiterOf(t)}]_cvars
=============================================================================
