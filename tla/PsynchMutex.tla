----------------------------- MODULE PsynchMutex -----------------------------
(***************************************************************************)
(* A guest pthread mutex: libpthread's user-space half, external, on the   *)
(* kernel half of GuestPsynch.                                             *)
(*                                                                         *)
(* The mutex word holds two generations.  lcnt counts the threads that     *)
(* asked for the lock, ucnt the ones that left it.  A fair-share mutex is  *)
(* handed to generation ucnt + 1 exactly.  Under first-fit, ebit says the  *)
(* mutex is held, the generations only count the contenders, and a woken   *)
(* contender competes again.                                               *)
(***************************************************************************)
EXTENDS GuestPsynch

CONSTANT FirstFit   \* the policy bits of the flags argument

ASSUME MutexAssumption ==
    /\ FirstFit \in BOOLEAN
    /\ Cardinality(Thread) < Generations

VARIABLES
    lcnt, ucnt, ebit,   \* the mutex word in guest memory
    pc,                 \* where each thread is in libpthread
    gen                 \* mgen and ugen a thread passes to the kernel, while it does

mutexVars == << lcnt, ucnt, ebit, pc, gen >>

vars == << psynchVars, mutexVars >>

MutexInit ==
    /\ PsynchInit
    /\ lcnt = Generations - 1   \* the first contender wraps the generations
    /\ ucnt = lcnt
    /\ ebit = FALSE
    /\ pc = [t \in Thread |-> "out"]
    /\ gen = [t \in Thread |-> << 0, 0 >>]

-----------------------------------------------------------------------------

Free == IF FirstFit THEN ~ ebit ELSE lcnt = ucnt

\* The atomic update of the mutex word: take the lock, or take a generation
\* and contend.
Lock(t) ==
    /\ Executes(t) /\ pc[t] = "out"
    /\ ebit' = TRUE
    /\ lcnt' = IF Free /\ FirstFit THEN lcnt ELSE SequenceNext(lcnt)
    /\ pc' = [pc EXCEPT ![t] = IF Free THEN "in" ELSE "contend"]
    /\ gen' = IF Free THEN gen ELSE [gen EXCEPT ![t] = << lcnt', 0 >>]
    /\ UNCHANGED << psynchVars, ucnt >>

EnterMutexWait(t) ==
    /\ pc[t] = "contend"
    /\ GuestPsynchMutexWait(t, gen[t][1], FirstFit)
    /\ pc' = [pc EXCEPT ![t] = "wait"]
    /\ UNCHANGED << lcnt, ucnt, ebit, gen >>

\* psynch_mutexwait has returned.  An error is retried with the same
\* generation; a first-fit contender that finds the mutex held contends again.
LeaveMutexWait(t) ==
    /\ Returned(t) /\ pc[t] = "wait"
    /\ Consumed(t)
    /\ \/ /\ ret[t].error # "none"
          /\ pc' = [pc EXCEPT ![t] = "contend"]
          /\ UNCHANGED << lcnt, ebit, gen >>
       \/ /\ ret[t].error = "none" /\ (~ FirstFit \/ Free)
          /\ pc' = [pc EXCEPT ![t] = "in"]
          /\ ebit' = TRUE
          /\ gen' = [gen EXCEPT ![t] = << 0, 0 >>]
          /\ UNCHANGED lcnt
       \/ /\ ret[t].error = "none" /\ FirstFit /\ ~ Free
          /\ pc' = [pc EXCEPT ![t] = "contend"]
          /\ lcnt' = SequenceNext(lcnt)
          /\ gen' = [gen EXCEPT ![t] = << lcnt', 0 >>]
          /\ UNCHANGED ebit
    /\ UNCHANGED << nativeGuestWaiters, guestMutexPreposts,
                    guestConditionPreposts, debugger, ucnt >>

\* The atomic update of the mutex word on release; it says whether a handover
\* is due.
Released(t, next, free) ==
    LET contended == IF FirstFit THEN lcnt # ucnt ELSE lcnt # SequenceNext(ucnt)
    IN /\ ucnt' = IF FirstFit /\ ~ contended THEN ucnt ELSE SequenceNext(ucnt)
       /\ ebit' = (~ FirstFit /\ contended)
       /\ pc' = [pc EXCEPT ![t] = IF contended THEN next ELSE free]
       /\ gen' = IF contended THEN [gen EXCEPT ![t] = << lcnt, ucnt' >>] ELSE gen
       /\ lcnt' = lcnt

Unlock(t) ==
    /\ Executes(t) /\ pc[t] = "in"
    /\ Released(t, "drop", "out")
    /\ UNCHANGED psynchVars

Drop(t) ==
    /\ Executes(t) /\ pc[t] = "drop"
    /\ GuestPsynchMutexDrop(gen[t][1], gen[t][2], FirstFit)
    /\ pc' = [pc EXCEPT ![t] = "out"]
    /\ gen' = [gen EXCEPT ![t] = << 0, 0 >>]
    /\ UNCHANGED << guestConditionPreposts, call, ret, debugger,
                    lcnt, ucnt, ebit >>

MutexNext ==
    \/ \E t \in Thread :
          \/ Lock(t) \/ EnterMutexWait(t) \/ LeaveMutexWait(t)
          \/ Unlock(t) \/ Drop(t)
          \/ WaitStep(t) /\ UNCHANGED mutexVars
    \/ DebuggerStep /\ UNCHANGED mutexVars

\* A wait is left when its condition variable is notified with its predicate
\* true, and a pause when the debugger or the end of the process lets it.
WaitFairness(t) ==
    WF_vars(/\ WaitSignaled(t) \/ WaitPaused(t) \/ WaitStops(t)
               \/ WaitInterrupted(t) \/ WaitResumed(t)
            /\ UNCHANGED mutexVars)

\* A thread that is not stopped goes on: it leaves its calls and the critical
\* section.  Asking for the lock is its own choice, and the debugger's moves
\* are the debugger's.
MutexFairness ==
    \A t \in Thread :
        /\ WaitFairness(t)
        /\ WF_vars(EnterMutexWait(t) \/ LeaveMutexWait(t) \/ Unlock(t) \/ Drop(t))

MutexSpec == MutexInit /\ [][MutexNext]_vars /\ MutexFairness

\* When the process ends no more is known of a thread than that it leaves its
\* waits and meets the halt of its JIT, which stays set until it does.
HaltFairness ==
    \A t \in Thread :
        /\ WaitFairness(t)
        /\ SF_vars(ThreadStopped(t) /\ UNCHANGED mutexVars)

HaltSpec == MutexInit /\ [][MutexNext]_vars /\ HaltFairness

-----------------------------------------------------------------------------
(* Properties.                                                             *)

\* The mutex word and the kernel's lists stay well formed: a thread is in the
\* list exactly while its call blocks, at most once, and with a generation.
MutexTypeOK ==
    /\ lcnt \in Generation /\ ucnt \in Generation /\ ebit \in BOOLEAN
    /\ pc \in [Thread -> {"out", "contend", "wait", "in", "drop"}]
    /\ gen \in [Thread -> Generation \X Generation]
    /\ nativeGuestWaiters \in Seq(NativeGuestWaiter)
    /\ guestMutexPreposts \in [Generation -> Nat]
    /\ debugger.state \in RunStates /\ debugger.parked \subseteq Thread
    /\ \A t \in Thread :
          Cardinality({i \in DOMAIN nativeGuestWaiters :
                          nativeGuestWaiters[i].thread = t})
            = IF call[t] \in {"blocked", "paused", "stopped"} THEN 1 ELSE 0

Contenders == {t \in Thread : pc[t] \in {"contend", "wait"}}

\* psynch_mutexwait lets a thread into the critical section only when the
\* owner has handed over to it: no two threads are ever inside.
AtMostOneOwner == Cardinality({t \in Thread : pc[t] = "in"}) <= 1

\* Handovers on their way: a drop about to be made (by psynch_mutexdrop, or by
\* psynch_cvwait in PsynchCondition), a prepost, a waiter that
\* is signaled but has not returned, a successful return not yet acted on.
Handovers ==
    Cardinality({t \in Thread : pc[t] \in {"drop", "cvdrop"}})
    + Cardinality({i \in DOMAIN nativeGuestWaiters :
                      /\ nativeGuestWaiters[i].kind = "Mutex"
                      /\ nativeGuestWaiters[i].signaled})
    + Cardinality({t \in Thread : /\ pc[t] = "wait" /\ call[t] = "returned"
                                  /\ ret[t].error = "none"})
    + Cardinality({<< g, n >> \in Generation \X (1 .. Cardinality(Thread)) :
                      n <= guestMutexPreposts[g]})

\* No handover is lost or made twice, whatever the order in which
\* psynch_mutexwait and psynch_mutexdrop arrive: fair-share, a mutex in use has
\* one owner or one handover on its way; first-fit, every contender is counted
\* in the mutex word or has a wake on its way.
HandoverConserved ==
    IF FirstFit
    THEN Cardinality(Contenders) =
             GuestPsynchSequenceDistance(lcnt, ucnt) + Handovers
    ELSE Cardinality({t \in Thread : pc[t] = "in"}) + Handovers =
             IF lcnt = ucnt THEN 0 ELSE 1

\* psynch_mutexwait returns only to the generation a fair-share drop named,
\* in the order in which the threads asked for the lock.
GrantedInOrder ==
    [][\A t \in Thread : (pc[t] = "wait" /\ pc'[t] = "in") =>
          FirstFit \/ gen[t][1] = SequenceNext(ucnt)]_vars

\* A thread that asked for a fair-share mutex gets it.
ContenderAcquires ==
    \A t \in Thread : (pc[t] = "contend") ~> (pc[t] = "in")

\* Every thread Dynarmic_nativeDestroy joins comes to an end: none stays in a
\* wait, not even one the debugger had stopped there, each is woken or gives
\* up and meets the halt of its JIT.
ShutdownJoins ==
    (debugger.state = "ShuttingDown") ~> (debugger.parked = Thread)

\* As long as somebody contends, somebody gets in (a first-fit mutex promises
\* no more).
SomebodyAcquires ==
    (Contenders # {}) ~> (\E t \in Thread : pc[t] = "in")
=============================================================================
