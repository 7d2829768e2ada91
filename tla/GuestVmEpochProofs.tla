------------------------- MODULE GuestVmEpochProofs -------------------------
(***************************************************************************)
(* The reclamation of guest memory backings is safe and prompt, for any    *)
(* set of backings, any set of JITs and any nesting of guards.             *)
(***************************************************************************)
EXTENDS GuestVmEpoch, TLAPS

(* What a loaded pointer rests on: its holder is inside a guard, and the   *)
(* backing is live, or retired by somebody who has to wait for the holder. *)
LoadedIsPinned ==
    \A p \in Participant : \A b \in loaded[p] :
        /\ participants[p].registered
        /\ participants[p].activeDepth # 0
        /\ \/ status[b] = "live"
           \/ /\ status[b] = "retired"
              /\ participants[p].epoch < retirementEpoch[b]

(* No participant is ahead of the global epoch, and an active one is registered. *)
EpochsAreBounded ==
    \A p \in Participant :
        /\ participants[p].epoch <= guestVmEpoch
        /\ participants[p].activeDepth # 0 => participants[p].registered

EpochInv ==
    /\ EpochTypeOK
    /\ EpochsAreBounded
    /\ LoadedIsPinned
    /\ RetiredIsBlocked

(* The initial state satisfies the inductive invariant. *)
LEMMA EpochInitInv == EpochInit => EpochInv
BY DEF EpochInit, EpochInv, EpochTypeOK, EpochsAreBounded, LoadedIsPinned,
       RetiredIsBlocked, Status

(* Every critical section, and every load of a live pointer, preserves it. *)
LEMMA EpochStepInv == EpochInv /\ [EpochNext]_epochVars => EpochInv'
<1> SUFFICES ASSUME EpochInv, [EpochNext]_epochVars PROVE EpochInv'
    OBVIOUS
<1> USE DEF EpochInv, EpochTypeOK, EpochsAreBounded
<1>1. ASSUME NEW p \in Participant, RegisterGuestVmEpochParticipant(p)
      PROVE  EpochInv'
  <2>1. EpochTypeOK' /\ EpochsAreBounded'
        BY <1>1 DEF RegisterGuestVmEpochParticipant
  <2>2. loaded[p] = {}
        BY <1>1 DEF RegisterGuestVmEpochParticipant, LoadedIsPinned
  <2>3. LoadedIsPinned'
        BY <1>1, <2>2 DEF RegisterGuestVmEpochParticipant, LoadedIsPinned
  <2>4. RetiredIsBlocked'
        BY <1>1 DEF RegisterGuestVmEpochParticipant, RetiredIsBlocked, Blocks
  <2> QED BY <2>1, <2>3, <2>4
<1>2. ASSUME NEW p \in Participant, UnregisterGuestVmEpochParticipant(p)
      PROVE  EpochInv'
  <2>0. UNCHANGED <<guestVmEpoch, retirementEpoch, loaded>>
        BY <1>2 DEF UnregisterGuestVmEpochParticipant
  <2>1. /\ status' \in [Backing -> Status]
        /\ \A b \in Backing :
            \/ status'[b] = status[b]
            \/ /\ status[b] = "retired"
               /\ \A q \in Participant : ~Blocks(participants', q, retirementEpoch[b])
        /\ \A b \in Backing : status'[b] = "retired" =>
            \E q \in Participant : Blocks(participants', q, retirementEpoch[b])
        BY <1>2
        DEF UnregisterGuestVmEpochParticipant, ReclaimRetiredMemoryBackingsLocked, Status
  <2>2. \A q \in Participant : q # p => participants'[q] = participants[q]
        BY <1>2 DEF UnregisterGuestVmEpochParticipant
  <2>3. EpochTypeOK' /\ EpochsAreBounded'
        BY <1>2, <2>1 DEF UnregisterGuestVmEpochParticipant
  <2>4. loaded[p] = {}
        BY <1>2 DEF UnregisterGuestVmEpochParticipant, LoadedIsPinned
  <2>5. LoadedIsPinned'
    <3> SUFFICES ASSUME NEW q \in Participant, NEW b \in loaded[q]
                 PROVE  /\ participants'[q] = participants[q]
                        /\ status'[b] = status[b]
        BY <2>0 DEF LoadedIsPinned
    <3>1. b \in Backing /\ q # p
          BY <2>4
    <3>2. participants'[q] = participants[q]
          BY <2>2, <3>1
    <3>3. status[b] = "retired" => Blocks(participants', q, retirementEpoch[b])
          BY <3>2 DEF LoadedIsPinned, Blocks
    <3> QED BY <2>1, <3>1, <3>2, <3>3
  <2>6. RetiredIsBlocked'
        BY <1>2, <2>1 DEF UnregisterGuestVmEpochParticipant, RetiredIsBlocked, Blocks
  <2> QED BY <2>3, <2>5, <2>6
<1>3. ASSUME NEW p \in Participant, GuestVmEpochGuardEnter(p)
      PROVE  EpochInv'
  <2>1. /\ participants' \in [Participant ->
              [registered : BOOLEAN, epoch : Nat, activeDepth : Nat]]
        /\ participants'[p].registered
        /\ participants'[p].activeDepth = participants[p].activeDepth + 1
        /\ participants'[p].epoch = IF participants[p].activeDepth = 0
                                    THEN guestVmEpoch ELSE participants[p].epoch
        /\ \A q \in Participant : q # p => participants'[q] = participants[q]
        BY <1>3 DEF GuestVmEpochGuardEnter
  <2>2. UNCHANGED <<guestVmEpoch, status, retirementEpoch, loaded>>
        BY <1>3 DEF GuestVmEpochGuardEnter
  <2>3. EpochTypeOK' /\ EpochsAreBounded'
        BY <2>1, <2>2
  <2>4. participants[p].activeDepth = 0 => loaded[p] = {}
        BY DEF LoadedIsPinned
  <2>5. LoadedIsPinned'
        BY <2>1, <2>2, <2>4 DEF LoadedIsPinned
  <2>6. ASSUME NEW b \in Backing, status[b] = "retired"
        PROVE  \E q \in Participant : Blocks(participants', q, retirementEpoch[b])
    <3>1. PICK q \in Participant : Blocks(participants, q, retirementEpoch[b])
          BY <2>6 DEF RetiredIsBlocked
    <3>2. Blocks(participants', q, retirementEpoch[b])
          BY <2>1, <3>1 DEF Blocks
    <3> QED BY <3>2
  <2>7. RetiredIsBlocked'
        BY <2>2, <2>6 DEF RetiredIsBlocked, Blocks
  <2> QED BY <2>3, <2>5, <2>7
<1>4. ASSUME NEW p \in Participant, GuestVmEpochGuardExit(p)
      PROVE  EpochInv'
  <2>1. /\ participants' \in [Participant ->
              [registered : BOOLEAN, epoch : Nat, activeDepth : Nat]]
        /\ participants'[p].registered = participants[p].registered
        /\ participants'[p].activeDepth = participants[p].activeDepth - 1
        /\ participants'[p].epoch = participants[p].epoch
        /\ \A q \in Participant : q # p => participants'[q] = participants[q]
        BY <1>4 DEF GuestVmEpochGuardExit
  <2>2. UNCHANGED <<guestVmEpoch, retirementEpoch>>
        BY <1>4 DEF GuestVmEpochGuardExit
  <2>3. EpochsAreBounded'
        BY <1>4, <2>1, <2>2 DEF GuestVmEpochGuardExit
  <2>4. CASE participants[p].activeDepth = 1
    <3>1. /\ status' \in [Backing -> Status]
          /\ \A b \in Backing :
              \/ status'[b] = status[b]
              \/ /\ status[b] = "retired"
                 /\ \A q \in Participant : ~Blocks(participants', q, retirementEpoch[b])
          /\ \A b \in Backing : status'[b] = "retired" =>
              \E q \in Participant : Blocks(participants', q, retirementEpoch[b])
      <4>1. status' = ReclaimRetiredMemoryBackingsLocked(
                        participants', status, retirementEpoch)
            BY <1>4, <2>4 DEF GuestVmEpochGuardExit
      <4> QED BY <4>1 DEF ReclaimRetiredMemoryBackingsLocked, Status
    <3>2. loaded' = [loaded EXCEPT ![p] = {}]
          BY <1>4, <2>4 DEF GuestVmEpochGuardExit
    <3>3. EpochTypeOK'
          BY <2>1, <2>2, <3>1, <3>2
    <3>4. LoadedIsPinned'
      <4> SUFFICES ASSUME NEW q \in Participant, NEW b \in loaded'[q]
                   PROVE  /\ b \in loaded[q]
                          /\ participants'[q] = participants[q]
                          /\ status'[b] = status[b]
          BY <2>2 DEF LoadedIsPinned
      <4>1. b \in loaded[q] /\ b \in Backing /\ q # p
            BY <3>2
      <4>2. participants'[q] = participants[q]
            BY <2>1, <4>1
      <4>3. status[b] = "retired" => Blocks(participants', q, retirementEpoch[b])
            BY <4>1, <4>2 DEF LoadedIsPinned, Blocks
      <4> QED BY <3>1, <4>1, <4>2, <4>3
    <3>5. RetiredIsBlocked'
          BY <2>2, <3>1 DEF RetiredIsBlocked, Blocks
    <3> QED BY <2>3, <3>3, <3>4, <3>5
  <2>5. CASE participants[p].activeDepth # 1
    <3>1. UNCHANGED <<status, loaded>> /\ participants'[p].activeDepth # 0
          BY <1>4, <2>1, <2>5 DEF GuestVmEpochGuardExit
    <3>2. EpochTypeOK'
          BY <2>1, <2>2, <3>1
    <3>3. LoadedIsPinned'
          BY <2>1, <2>2, <3>1 DEF LoadedIsPinned
    <3>4. ASSUME NEW b \in Backing, status[b] = "retired"
          PROVE  \E q \in Participant : Blocks(participants', q, retirementEpoch[b])
      <4>1. PICK q \in Participant : Blocks(participants, q, retirementEpoch[b])
            BY <3>4 DEF RetiredIsBlocked
      <4>2. Blocks(participants', q, retirementEpoch[b])
            BY <2>1, <3>1, <4>1 DEF Blocks
      <4> QED BY <4>2
    <3>5. RetiredIsBlocked'
          BY <2>2, <3>1, <3>4 DEF RetiredIsBlocked, Blocks
    <3> QED BY <2>3, <3>2, <3>3, <3>5
  <2> QED BY <2>4, <2>5
<1>5. ASSUME NEW p \in Participant, NEW b \in Backing, LoadLivePointer(p, b)
      PROVE  EpochInv'
  <2>1. EpochTypeOK' /\ EpochsAreBounded'
        BY <1>5 DEF LoadLivePointer, LoadPointer
  <2>2. LoadedIsPinned'
        BY <1>5 DEF LoadLivePointer, LoadPointer, LoadedIsPinned
  <2>3. RetiredIsBlocked'
        BY <1>5 DEF LoadLivePointer, LoadPointer, RetiredIsBlocked
  <2> QED BY <2>1, <2>2, <2>3
<1>6. ASSUME NEW b \in Backing, AllocateMemoryBacking(b)
      PROVE  EpochInv'
  <2>1. EpochTypeOK' /\ EpochsAreBounded'
        BY <1>6 DEF AllocateMemoryBacking, Status
  <2>2. LoadedIsPinned'
        BY <1>6 DEF AllocateMemoryBacking, LoadedIsPinned
  <2>3. RetiredIsBlocked'
        BY <1>6 DEF AllocateMemoryBacking, RetiredIsBlocked
  <2> QED BY <2>1, <2>2, <2>3
<1>7. ASSUME NEW b \in Backing, RetireMemoryBacking(b)
      PROVE  EpochInv'
  <2> DEFINE st == [status EXCEPT ![b] = "retired"]
  <2>1. st \in [Backing -> Status]
        BY DEF Status
  <2>2. /\ retirementEpoch' = [retirementEpoch EXCEPT ![b] = guestVmEpoch + 1]
        /\ retirementEpoch' \in [Backing -> Nat]
        BY <1>7 DEF RetireMemoryBacking
  <2>3. status' = ReclaimRetiredMemoryBackingsLocked(participants, st, retirementEpoch')
        BY <1>7 DEF RetireMemoryBacking
  <2> HIDE DEF st
  <2>4. /\ status' \in [Backing -> Status]
        /\ \A c \in Backing :
            \/ status'[c] = st[c]
            \/ /\ st[c] = "retired"
               /\ \A q \in Participant : ~Blocks(participants, q, retirementEpoch'[c])
        /\ \A c \in Backing : status'[c] = "retired" =>
            \E q \in Participant : Blocks(participants, q, retirementEpoch'[c])
        BY <2>1, <2>3 DEF ReclaimRetiredMemoryBackingsLocked, Status
  <2>5. EpochTypeOK' /\ EpochsAreBounded'
    <3>1. guestVmEpoch' = guestVmEpoch + 1 /\ UNCHANGED <<participants, loaded>>
          BY <1>7 DEF RetireMemoryBacking
    <3>2. EpochTypeOK'
          BY <2>2, <2>4, <3>1
    <3>3. EpochsAreBounded'
          BY <3>1
    <3> QED BY <3>2, <3>3
  <2>6. ASSUME NEW q \in Participant, NEW c \in loaded[q]
        PROVE  \/ status'[c] = "live"
               \/ /\ status'[c] = "retired"
                  /\ participants[q].epoch < retirementEpoch'[c]
    <3>1. c \in Backing
          BY <2>6
    <3>2. CASE c = b
      <4>1. Blocks(participants, q, retirementEpoch'[c])
            BY <2>2, <2>6, <3>1, <3>2 DEF LoadedIsPinned, Blocks
      <4>2. status'[c] = "retired"
            BY <2>4, <3>1, <3>2, <4>1 DEF st
      <4> QED BY <4>1, <4>2 DEF Blocks
    <3>3. CASE c # b
      <4>1. st[c] = status[c] /\ retirementEpoch'[c] = retirementEpoch[c]
            BY <2>2, <3>1, <3>3 DEF st
      <4>2. CASE status[c] = "live"
            BY <2>4, <3>1, <4>1, <4>2
      <4>3. CASE status[c] = "retired" /\ participants[q].epoch < retirementEpoch[c]
        <5>1. Blocks(participants, q, retirementEpoch'[c])
              BY <2>6, <4>1, <4>3 DEF LoadedIsPinned, Blocks
        <5> QED BY <2>4, <3>1, <4>1, <4>3, <5>1
      <4> QED BY <2>6, <4>2, <4>3 DEF LoadedIsPinned
    <3> QED BY <3>2, <3>3
  <2>7. LoadedIsPinned'
        BY <1>7, <2>6 DEF RetireMemoryBacking, LoadedIsPinned
  <2>8. RetiredIsBlocked'
        BY <1>7, <2>4 DEF RetireMemoryBacking, RetiredIsBlocked, Blocks
  <2> QED BY <2>5, <2>7, <2>8
<1>8. CASE UNCHANGED epochVars
      BY <1>8 DEF epochVars, LoadedIsPinned, RetiredIsBlocked, Blocks
<1> QED
    BY <1>1, <1>2, <1>3, <1>4, <1>5, <1>6, <1>7, <1>8 DEF EpochNext

(* Type correctness of the reclamation state. *)
THEOREM EpochTypeCorrect == EpochSpec => []EpochTypeOK
<1>1. EpochInv => EpochTypeOK
      BY DEF EpochInv
<1> QED BY <1>1, EpochInitInv, EpochStepInv, PTL DEF EpochSpec

(* No JIT ever holds a pointer into an unmapped backing. *)
THEOREM ReclamationIsSafe == EpochSpec => []NoUseAfterReclaim
<1>1. EpochInv => NoUseAfterReclaim
      BY DEF EpochInv, LoadedIsPinned, NoUseAfterReclaim
<1> QED BY <1>1, EpochInitInv, EpochStepInv, PTL DEF EpochSpec

(* A backing stays retired only while a JIT that was active at its         *)
(* retirement is still inside a guard.                                     *)
THEOREM ReclamationIsPrompt == EpochSpec => []RetiredIsBlocked
<1>1. EpochInv => RetiredIsBlocked
      BY DEF EpochInv
<1> QED BY <1>1, EpochInitInv, EpochStepInv, PTL DEF EpochSpec
=============================================================================
