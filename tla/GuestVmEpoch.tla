---------------------------- MODULE GuestVmEpoch ----------------------------
(***************************************************************************)
(* Epoch based reclamation of guest memory backings (dynarmic.cpp 71-186,  *)
(* dynarmic_core.cpp 10-47).                                               *)
(*                                                                         *)
(* A JIT reads host pointers from the process-wide page table without a    *)
(* lock.  A backing whose last guest page is gone is therefore retired,    *)
(* not unmapped: it is reclaimed once every participant that was already   *)
(* inside a GuestVmEpochGuard at the retirement has left it.  Every action *)
(* below is one critical section of guestVmEpochMutex, except the load of  *)
(* a pointer, which takes no lock at all.                                  *)
(***************************************************************************)
EXTENDS Naturals

CONSTANTS
    Backing,        \* struct memory_backing objects, each allocated at most once
    Participant,    \* the main JIT and the native JITs
    MaxDepth        \* bound: nesting of guards (SVC service inside Run, and so on)

ASSUME DepthAssumption == MaxDepth \in Nat

VARIABLES
    guestVmEpoch,       \* the global epoch
    participants,       \* GuestVmEpochParticipant of each JIT
    status,             \* life of each backing
    retirementEpoch,    \* RetiredMemoryBacking::retirementEpoch
    loaded              \* backings to which a JIT holds a direct pointer

epochVars == <<guestVmEpoch, participants, status, retirementEpoch, loaded>>

Status == {"unused", "live", "retired", "reclaimed"}

EpochTypeOK ==
    /\ guestVmEpoch \in Nat
    /\ participants \in [Participant ->
            [registered : BOOLEAN, epoch : Nat, activeDepth : Nat]]
    /\ status \in [Backing -> Status]
    /\ retirementEpoch \in [Backing -> Nat]
    /\ loaded \in [Participant -> SUBSET Backing]

EpochInit ==
    /\ guestVmEpoch = 1
    /\ participants = [p \in Participant |->
            [registered |-> FALSE, epoch |-> 0, activeDepth |-> 0]]
    /\ status = [b \in Backing |-> "unused"]
    /\ retirementEpoch = [b \in Backing |-> 0]
    /\ loaded = [p \in Participant |-> {}]

-----------------------------------------------------------------------------
(* A participant of ps that still blocks a backing retired at epoch e. *)
Blocks(ps, p, e) ==
    /\ ps[p].registered
    /\ ps[p].activeDepth # 0
    /\ ps[p].epoch < e

(* The loop reclaims every retired backing that no participant blocks. *)
ReclaimRetiredMemoryBackingsLocked(ps, st, re) ==
    [b \in Backing |->
        IF st[b] = "retired" /\ \A p \in Participant : ~Blocks(ps, p, re[b])
        THEN "reclaimed" ELSE st[b]]

RegisterGuestVmEpochParticipant(p) ==
    /\ ~participants[p].registered
    /\ participants' = [participants EXCEPT ![p] =
            [registered |-> TRUE, epoch |-> guestVmEpoch, activeDepth |-> 0]]
    /\ UNCHANGED <<guestVmEpoch, status, retirementEpoch, loaded>>

(* The caller has joined the host thread, so its guards have unwound. *)
UnregisterGuestVmEpochParticipant(p) ==
    /\ participants[p].registered
    /\ participants[p].activeDepth = 0
    /\ participants' = [participants EXCEPT ![p].registered = FALSE]
    /\ status' = ReclaimRetiredMemoryBackingsLocked(
                    participants', status, retirementEpoch)
    /\ UNCHANGED <<guestVmEpoch, retirementEpoch, loaded>>

(* A backing comes into being; its pages are published by the caller. *)
AllocateMemoryBacking(b) ==
    /\ status[b] = "unused"
    /\ status' = [status EXCEPT ![b] = "live"]
    /\ UNCHANGED <<guestVmEpoch, participants, retirementEpoch, loaded>>

(* The last reference is gone and no page-table entry names b any more. *)
RetireLateEpoch(b) ==
    /\ status[b] = "live"
    /\ guestVmEpoch' = guestVmEpoch + 1
    /\ retirementEpoch' = [retirementEpoch EXCEPT ![b] = guestVmEpoch]
    /\ status' = ReclaimRetiredMemoryBackingsLocked(
                    participants, [status EXCEPT ![b] = "retired"],
                    retirementEpoch')
    /\ UNCHANGED <<participants, loaded>>

RetireMemoryBacking(b) ==
    /\ status[b] = "live"
    /\ guestVmEpoch' = guestVmEpoch + 1
    /\ retirementEpoch' = [retirementEpoch EXCEPT ![b] = guestVmEpoch']
    /\ status' = ReclaimRetiredMemoryBackingsLocked(
                    participants, [status EXCEPT ![b] = "retired"],
                    retirementEpoch')
    /\ UNCHANGED <<participants, loaded>>

(* Only the outermost guard of a participant takes the current epoch. *)
GuestVmEpochGuardEnter(p) ==
    /\ participants[p].registered
    /\ participants[p].activeDepth < MaxDepth
    /\ participants' = [participants EXCEPT ![p] =
            [registered |-> TRUE,
             epoch |-> IF @.activeDepth = 0 THEN guestVmEpoch ELSE @.epoch,
             activeDepth |-> @.activeDepth + 1]]
    /\ UNCHANGED <<guestVmEpoch, status, retirementEpoch, loaded>>

(* The pointers a JIT has loaded do not outlive its outermost guard. *)
ExitWithoutReclaim(p) ==
    /\ participants[p].activeDepth # 0
    /\ participants' = [participants EXCEPT ![p].activeDepth = @ - 1]
    /\ loaded' = IF participants[p].activeDepth = 1
                 THEN [loaded EXCEPT ![p] = {}] ELSE loaded
    /\ UNCHANGED <<guestVmEpoch, status, retirementEpoch>>

ExitUnbalanced(p) ==
    /\ participants[p].registered
    /\ participants' = [participants EXCEPT ![p].activeDepth = @ - 1]
    /\ UNCHANGED <<guestVmEpoch, status, retirementEpoch, loaded>>

GuestVmEpochGuardExit(p) ==
    /\ participants[p].activeDepth # 0
    /\ participants' = [participants EXCEPT ![p].activeDepth = @ - 1]
    /\ IF participants[p].activeDepth = 1
       THEN /\ status' = ReclaimRetiredMemoryBackingsLocked(
                            participants', status, retirementEpoch)
            /\ loaded' = [loaded EXCEPT ![p] = {}]
       ELSE UNCHANGED <<status, loaded>>
    /\ UNCHANGED <<guestVmEpoch, retirementEpoch>>

(* jit->Run() and the SVC handlers pick up a direct pointer into b. *)
LoadPointer(p, b) ==
    /\ participants[p].activeDepth # 0
    /\ loaded' = [loaded EXCEPT ![p] = @ \cup {b}]
    /\ UNCHANGED <<guestVmEpoch, participants, status, retirementEpoch>>

(* What the memory map promises: a published pointer is into a live backing. *)
LoadLivePointer(p, b) ==
    /\ status[b] = "live"
    /\ LoadPointer(p, b)

-----------------------------------------------------------------------------
EpochNext ==
    \/ \E p \in Participant :
        \/ RegisterGuestVmEpochParticipant(p)
        \/ UnregisterGuestVmEpochParticipant(p)
        \/ GuestVmEpochGuardEnter(p)
        \/ GuestVmEpochGuardExit(p)
        \/ \E b \in Backing : LoadLivePointer(p, b)
    \/ \E b \in Backing : AllocateMemoryBacking(b) \/ RetireMemoryBacking(b)

EpochSpec == EpochInit /\ [][EpochNext]_epochVars

-----------------------------------------------------------------------------
(* No JIT holds a direct pointer into a backing that was unmapped, however *)
(* retirements, guard entries and guard exits interleave.                  *)
NoUseAfterReclaim ==
    \A p \in Participant : \A b \in loaded[p] : status[b] # "reclaimed"

(* A retired backing waits for somebody: as soon as nobody who was active  *)
(* at its retirement is still inside a guard, it has been unmapped.        *)
RetiredIsBlocked ==
    \A b \in Backing : status[b] = "retired" =>
        \E p \in Participant : Blocks(participants, p, retirementEpoch[b])

(* If every JIT leaves its outermost guard again and again, every retired  *)
(* backing is unmapped, even if new guest code is entered all the time.    *)
RetiredIsReclaimed ==
    (\A p \in Participant : []<>(participants[p].activeDepth = 0))
        => \A b \in Backing : status[b] = "retired" ~> status[b] = "reclaimed"
=============================================================================
