------------------------------- MODULE GuestVm -------------------------------
(***************************************************************************)
(* The guest address space (dynarmic_core.cpp 160-1396, dynarmic_memory.cpp *)
(* 505-803) on top of the epochs that keep its backings alive.             *)
(*                                                                         *)
(* Every mapping operation holds guestVmMutex from its validation to its   *)
(* end, so at most one is in progress: op.  The JITs take no lock.  They   *)
(* read page_table between any two stores of the operation, which is why   *)
(* an operation is a sequence of steps here, one per page-table store and  *)
(* one per release of a backing.                                           *)
(***************************************************************************)
EXTENDS GuestVmEpoch, FiniteSets, FiniteSetsExt

CONSTANTS
    NumPages,       \* the pages 1 .. NumPages; page 0 is the null page
    AnywhereBase,   \* first page offered to a mapping without an address
    Perms,          \* protections a guest asks for, subsets of {"r", "w", "x"}
    Alignments,     \* alignments in pages (mask + 1)
    MaxRange,       \* bound: pages of one operation
    MaxGeneration,  \* bound: one more than the mapping operations of a behaviour
    Unmapped, Null, Direct

ASSUME VmAssumption ==
    /\ NumPages \in Nat \ {0} /\ AnywhereBase \in 1..NumPages
    /\ Perms \subseteq SUBSET {"r", "w", "x"}
    /\ Alignments \subseteq Nat \ {0}
    /\ Direct \notin Backing

VARIABLES
    memory,         \* sharedHandle.memory: the entry of each guest page
    page_table,     \* sharedHandle.page_table: what the JITs may read
    references,     \* memory_backing::references
    guestMemoryLookupGeneration,
    lookupCache,    \* guestMemoryLookupCache of each thread
    op              \* the operation that holds guestVmMutex

mapVars == <<memory, page_table, references>>
lookupVars == <<guestMemoryLookupGeneration, lookupCache>>
vmVars == <<epochVars, mapVars, lookupVars, op>>

Page == 1..NumPages

(* struct memory_page; a page of a host image has no backing of its own. *)
Entry == [backing : Backing \cup {Direct}, index : 0..NumPages - 1,
          perms : SUBSET {"r", "w", "x"}, enforce : BOOLEAN]

Pointer(e) == <<e.backing, e.index>>

NoCache == [generation |-> 0, page |-> 1, pointer |-> Null, perms |-> {}]

Idle == [phase |-> "idle", kind |-> "none", lo |-> 1, n |-> 0, at |-> 0,
         new |-> <<>>, old |-> Direct]

Phases == {"idle", "hide", "widen", "update", "release", "show",
           "destroy", "destroyed"}

VmTypeOK ==
    /\ EpochTypeOK
    /\ memory \in [Page -> Entry \cup {Unmapped}]
    /\ page_table \in [Page -> ((Backing \cup {Direct}) \X (0..NumPages - 1))
                                \cup {Null}]
    /\ references \in [Backing -> Nat]
    /\ op.phase \in Phases

VmInit ==
    /\ EpochInit
    /\ memory = [pg \in Page |-> Unmapped]
    /\ page_table = [pg \in Page |-> Null]
    /\ references = [b \in Backing |-> 0]
    /\ guestMemoryLookupGeneration = 1
    /\ lookupCache = [p \in Participant |-> NoCache]
    /\ op = Idle

-----------------------------------------------------------------------------
(* A strictly permissioned page is absent from the page table unless the   *)
(* guest may both read and write it.                                       *)
GuestPageTablePointer(e) ==
    IF e = Unmapped \/ (e.enforce /\ ~({"r", "w"} \subseteq e.perms))
    THEN Null ELSE Pointer(e)

Range32(lo, n) == lo..(lo + n - 1)

GuestAddressRangeIsValid32(lo, n) == n # 0 /\ Range32(lo, n) \subseteq Page

AllMapped(lo, n) == \A pg \in Range32(lo, n) : memory[pg] # Unmapped

(* Where an allocation without a fixed address goes: the scan restarts at  *)
(* the next aligned page after a collision, so it ends at the lowest fit.  *)
FirstFit(start, n, align) ==
    {s \in Page :
        /\ s >= start /\ s % align = 0 /\ GuestAddressRangeIsValid32(s, n)
        /\ \A pg \in Range32(s, n) : memory[pg] = Unmapped}

Dynarmic_mem_reserve(address, n, fixed, align) ==
    IF fixed
    THEN {address} \cap {s \in Page : GuestAddressRangeIsValid32(s, n)}
    ELSE LET fits == FirstFit(IF address < AnywhereBase
                              THEN address + AnywhereBase ELSE address, n, align)
         IN IF fits = {} THEN {} ELSE {Min(fits)}

InvalidateGuestMemoryLookupCaches ==
    /\ guestMemoryLookupGeneration < MaxGeneration
    /\ guestMemoryLookupGeneration' = guestMemoryLookupGeneration + 1
    /\ UNCHANGED lookupCache

ReleaseMemoryBackingReference(b) ==
    IF b = Direct THEN UNCHANGED <<epochVars, references>>
    ELSE /\ references' = [references EXCEPT ![b] = @ - 1]
         /\ IF references[b] = 1 THEN RetireMemoryBacking(b)
                                 ELSE UNCHANGED epochVars

(* Take guestVmMutex; phase is the first loop of the operation. *)
Begin(kind, phase, lo, n, new) ==
    /\ op.phase = "idle"
    /\ op' = [phase |-> phase, kind |-> kind, lo |-> lo, n |-> n, at |-> 0,
              new |-> new, old |-> Direct]
    /\ InvalidateGuestMemoryLookupCaches

(* The loop goes on with the next page, or the operation with its next     *)
(* loop; after the last loop guestVmMutex is released.                     *)
Loop(again, done) ==
    op' = IF op.at + 1 < op.n
          THEN [op EXCEPT !.at = @ + 1, !.phase = again, !.old = Direct]
          ELSE IF done = "idle" THEN Idle
          ELSE [op EXCEPT !.at = 0, !.phase = done, !.old = Direct]

Cursor == op.lo + op.at

-----------------------------------------------------------------------------
(* The operations up to their first store. *)
Dynarmic_mmap(address, n, fixed, align, perms, b) ==
    \E lo \in Dynarmic_mem_reserve(address, n, fixed, align) :
        /\ Begin("install", "update", lo, n,
                 [i \in 0..n - 1 |-> [backing |-> b, index |-> i, perms |-> perms,
                                      enforce |-> "r" \notin perms]])
        /\ AllocateMemoryBacking(b)
        /\ references' = [references EXCEPT ![b] = n]
        /\ UNCHANGED <<memory, page_table>>

Dynarmic_direct_mmap(address, n, fixed, perms) ==
    \E lo \in Dynarmic_mem_reserve(address, n, fixed, 1) :
        /\ Begin("install", "update", lo, n,
                 [i \in 0..n - 1 |-> [backing |-> Direct, index |-> i, perms |-> perms,
                                      enforce |-> "r" \notin perms]])
        /\ UNCHANGED <<epochVars, mapVars>>

Shareable(e) == e # Unmapped /\ e.backing # Direct /\ "x" \notin e.perms

RemapTarget(destination, n, anywhere, overwrite, align) ==
    /\ ~(anywhere /\ overwrite)
    /\ ~anywhere => destination % align = 0
    /\ ~anywhere /\ ~overwrite =>
        \A pg \in Range32(destination, n) \cap Page : memory[pg] = Unmapped

(* Retains one source page only, whatever the length. *)
RemapRetainFirst(source, n, destination, anywhere, overwrite, align) ==
    /\ GuestAddressRangeIsValid32(source, n)
    /\ \A pg \in Range32(source, n) : Shareable(memory[pg])
    /\ RemapTarget(destination, n, anywhere, overwrite, align)
    /\ \E lo \in Dynarmic_mem_reserve(IF anywhere THEN 0 ELSE destination,
                                      n, ~anywhere, align) :
        /\ Begin("install", "update", lo, n,
                 [i \in 0..n - 1 |-> [memory[source + i] EXCEPT !.enforce = TRUE]])
        /\ references' = [references EXCEPT ![memory[source].backing] = @ + 1]
        /\ UNCHANGED <<epochVars, memory, page_table>>

(* Every source page is copied and retained before the first store. *)
Dynarmic_vm_remap(source, n, destination, anywhere, overwrite, align) ==
    /\ GuestAddressRangeIsValid32(source, n)
    /\ \A pg \in Range32(source, n) : Shareable(memory[pg])
    /\ RemapTarget(destination, n, anywhere, overwrite, align)
    /\ \E lo \in Dynarmic_mem_reserve(IF anywhere THEN 0 ELSE destination,
                                      n, ~anywhere, align) :
        /\ Begin("install", "update", lo, n,
                 [i \in 0..n - 1 |-> [memory[source + i] EXCEPT !.enforce = TRUE]])
        /\ references' = [b \in Backing |-> references[b] +
                Cardinality({pg \in Range32(source, n) : memory[pg].backing = b})]
        /\ UNCHANGED <<epochVars, memory, page_table>>

Dynarmic_munmap(lo, n) ==
    /\ GuestAddressRangeIsValid32(lo, n)
    /\ AllMapped(lo, n)
    /\ Begin("unmap", "update", lo, n, <<>>)
    /\ UNCHANGED <<epochVars, mapVars>>

(* Changes the permissions behind the back of the cached lookups. *)
MprotectKeepCaches(lo, n, perms) ==
    /\ GuestAddressRangeIsValid32(lo, n)
    /\ AllMapped(lo, n)
    /\ op.phase = "idle"
    /\ op' = [phase |-> "hide", kind |-> "protect", lo |-> lo, n |-> n, at |-> 0,
              new |-> [i \in 0..n - 1 |->
                  [memory[lo + i] EXCEPT !.perms = perms, !.enforce = TRUE]],
              old |-> Direct]
    /\ UNCHANGED <<epochVars, mapVars, lookupVars>>

Dynarmic_mprotect(lo, n, perms) ==
    /\ GuestAddressRangeIsValid32(lo, n)
    /\ AllMapped(lo, n)
    /\ Begin("protect", "hide", lo, n,
             [i \in 0..n - 1 |->
                [memory[lo + i] EXCEPT !.perms = perms, !.enforce = TRUE]])
    /\ UNCHANGED <<epochVars, mapVars>>

ReplaceGuestMemoryRangeWithPrivateCopy(lo, n, b) ==
    /\ GuestAddressRangeIsValid32(lo, n)
    /\ AllMapped(lo, n)
    /\ Begin("replace", "hide", lo, n,
             [i \in 0..n - 1 |->
                [memory[lo + i] EXCEPT !.backing = b, !.index = i]])
    /\ AllocateMemoryBacking(b)
    /\ references' = [references EXCEPT ![b] = n]
    /\ UNCHANGED <<memory, page_table>>

-----------------------------------------------------------------------------
(* The loops.  mmap, direct_mmap and vm_remap: the entry and its pointer,  *)
(* then the release of what the page held before.                          *)
InstallPage ==
    /\ op.kind = "install" /\ op.phase = "update"
    /\ memory' = [memory EXCEPT ![Cursor] = op.new[op.at]]
    /\ page_table' = [page_table EXCEPT ![Cursor] =
                        GuestPageTablePointer(op.new[op.at])]
    /\ op' = [op EXCEPT !.phase = "release",
                !.old = IF memory[Cursor] = Unmapped THEN Direct
                        ELSE memory[Cursor].backing]
    /\ UNCHANGED <<epochVars, references, lookupVars>>

(* Leaves the pointer of the page in the page table. *)
UnmapKeepPointer ==
    /\ op.kind = "unmap" /\ op.phase = "update"
    /\ memory' = [memory EXCEPT ![Cursor] = Unmapped]
    /\ op' = [op EXCEPT !.phase = "release", !.old = memory[Cursor].backing]
    /\ UNCHANGED <<epochVars, page_table, references, lookupVars>>

UnmapPage ==
    /\ op.kind = "unmap" /\ op.phase = "update"
    /\ page_table' = [page_table EXCEPT ![Cursor] = Null]
    /\ memory' = [memory EXCEPT ![Cursor] = Unmapped]
    /\ op' = [op EXCEPT !.phase = "release", !.old = memory[Cursor].backing]
    /\ UNCHANGED <<epochVars, references, lookupVars>>

(* The private copy swaps the entries while all their pointers are hidden. *)
ReplacePage ==
    /\ op.kind = "replace" /\ op.phase = "update"
    /\ memory' = [memory EXCEPT ![Cursor] = op.new[op.at]]
    /\ op' = [op EXCEPT !.phase = "release", !.old = memory[Cursor].backing]
    /\ UNCHANGED <<epochVars, page_table, references, lookupVars>>

ReleasePage ==
    /\ op.phase = "release"
    /\ ReleaseMemoryBackingReference(op.old)
    /\ Loop("update", IF op.kind = "replace" THEN "show" ELSE "idle")
    /\ UNCHANGED <<memory, page_table, lookupVars>>

HidePage ==
    /\ op.phase = "hide"
    /\ page_table' = [page_table EXCEPT ![Cursor] = Null]
    /\ Loop("hide", IF op.kind = "protect" THEN "widen" ELSE "update")
    /\ UNCHANGED <<epochVars, memory, references, lookupVars>>

(* The host may refuse to widen its protection of an owned backing; the    *)
(* guest permissions then stay what they were.                             *)
WidenHostProtection ==
    /\ op.phase = "widen"
    /\ \/ op' = [op EXCEPT !.phase = "show"]
       \/ /\ \E i \in 0..op.n - 1 : op.new[i].backing # Direct
          /\ op' = [op EXCEPT !.phase = "show",
                      !.new = [i \in 0..op.n - 1 |-> memory[op.lo + i]]]
    /\ UNCHANGED <<epochVars, mapVars, lookupVars>>

(* Restores the pointer the page would have without its new permissions. *)
ShowStalePointer ==
    /\ op.phase = "show"
    /\ memory' = [memory EXCEPT ![Cursor] = op.new[op.at]]
    /\ page_table' = [page_table EXCEPT ![Cursor] =
                        GuestPageTablePointer(memory[Cursor])]
    /\ Loop("show", "idle")
    /\ UNCHANGED <<epochVars, references, lookupVars>>

ShowPage ==
    /\ op.phase = "show"
    /\ memory' = [memory EXCEPT ![Cursor] = op.new[op.at]]
    /\ page_table' = [page_table EXCEPT ![Cursor] =
                        GuestPageTablePointer(op.new[op.at])]
    /\ Loop("show", "idle")
    /\ UNCHANGED <<epochVars, references, lookupVars>>

(* Dynarmic_nativeDestroy after the last JIT is gone: the pages in hash    *)
(* order, then the table.                                                  *)
DestroyBegin ==
    /\ op.phase = "idle"
    /\ \A p \in Participant : ~participants[p].registered
    /\ op' = [op EXCEPT !.phase = "destroy"]
    /\ guestMemoryLookupGeneration' = guestMemoryLookupGeneration + 1
    /\ UNCHANGED <<epochVars, mapVars, lookupCache>>

DestroyPage(pg) ==
    /\ op.phase = "destroy"
    /\ memory[pg] # Unmapped
    /\ memory' = [memory EXCEPT ![pg] = Unmapped]
    /\ ReleaseMemoryBackingReference(memory[pg].backing)
    /\ UNCHANGED <<page_table, lookupVars, op>>

DestroyEnd ==
    /\ op.phase = "destroy"
    /\ \A pg \in Page : memory[pg] = Unmapped
    /\ page_table' = [pg \in Page |-> Null]
    /\ op' = [op EXCEPT !.phase = "destroyed"]
    /\ UNCHANGED <<epochVars, memory, references, lookupVars>>

-----------------------------------------------------------------------------
(* The readers.  The fast path: a pointer of the page table, with no lock. *)
LoadFastPage(p, pg) ==
    /\ page_table[pg] # Null
    /\ page_table[pg][1] # Direct
    /\ LoadPointer(p, page_table[pg][1])
    /\ UNCHANGED <<mapVars, lookupVars, op>>

(* get_memory_page falls back to the map, under guestVmMutex. *)
get_memory_page(p, pg) ==
    /\ page_table[pg] = Null
    /\ op.phase = "idle"
    /\ memory[pg] # Unmapped
    /\ memory[pg].backing # Direct
    /\ LoadPointer(p, memory[pg].backing)
    /\ UNCHANGED <<mapVars, lookupVars, op>>

CacheHit(p, pg) ==
    /\ lookupCache[p].generation = guestMemoryLookupGeneration
    /\ lookupCache[p].page = pg

(* A miss caches the entry whether or not its permissions suffice. *)
get_memory_page_with_permissions(p, pg, required) ==
    /\ op.phase = "idle"
    /\ CacheHit(p, pg) \/ memory[pg] # Unmapped
    /\ LET c == IF CacheHit(p, pg) THEN lookupCache[p]
                ELSE [generation |-> guestMemoryLookupGeneration, page |-> pg,
                      pointer |-> Pointer(memory[pg]), perms |-> memory[pg].perms]
       IN /\ lookupCache' = [lookupCache EXCEPT ![p] = c]
          /\ IF required \subseteq c.perms /\ c.pointer[1] # Direct
             THEN LoadPointer(p, c.pointer[1])
             ELSE participants[p].activeDepth # 0 /\ UNCHANGED epochVars
    /\ UNCHANGED <<mapVars, guestMemoryLookupGeneration, op>>

-----------------------------------------------------------------------------
MapStep ==
    \/ InstallPage \/ UnmapPage \/ ReplacePage \/ ReleasePage
    \/ HidePage \/ WidenHostProtection \/ ShowPage
    \/ DestroyBegin \/ DestroyEnd \/ \E pg \in Page : DestroyPage(pg)

MapOperation ==
    \E lo \in Page, n \in 1..MaxRange :
        \/ Dynarmic_munmap(lo, n)
        \/ \E perms \in Perms :
            \/ Dynarmic_mprotect(lo, n, perms)
            \/ \E fixed \in BOOLEAN : Dynarmic_direct_mmap(lo, n, fixed, perms)
            \/ \E b \in Backing, fixed \in BOOLEAN, align \in Alignments :
                /\ fixed => align = 1
                /\ Dynarmic_mmap(lo, n, fixed, align, perms, b)
        \/ \E b \in Backing : ReplaceGuestMemoryRangeWithPrivateCopy(lo, n, b)
        \/ \E destination \in Page, anywhere, overwrite \in BOOLEAN,
             align \in Alignments :
             Dynarmic_vm_remap(lo, n, destination, anywhere, overwrite, align)

Reader ==
    \E p \in Participant :
        \/ /\ op.phase \notin {"destroy", "destroyed"}
           /\ RegisterGuestVmEpochParticipant(p)
           /\ UNCHANGED <<mapVars, lookupVars, op>>
        \/ /\ \/ UnregisterGuestVmEpochParticipant(p)
              \/ GuestVmEpochGuardEnter(p)
              \/ GuestVmEpochGuardExit(p)
           /\ UNCHANGED <<mapVars, lookupVars, op>>
        \/ \E pg \in Page :
            \/ LoadFastPage(p, pg)
            \/ get_memory_page(p, pg)
            \/ \E required \in {{"r"}, {"w"}} :
                get_memory_page_with_permissions(p, pg, required)

VmNext == MapStep \/ MapOperation \/ Reader

VmSpec == VmInit /\ [][VmNext]_vmVars

-----------------------------------------------------------------------------
(* At every instant, also between two stores of an operation, a pointer a  *)
(* JIT can read from the page table leads into a backing that is live.     *)
PublishedIsLive ==
    \A pg \in Page :
        /\ page_table[pg] # Null
        /\ page_table[pg][1] # Direct
        /\ op.phase # "destroy"
        => status[page_table[pg][1]] = "live"

(* When no operation is in progress the references of a live backing are   *)
(* the guest pages that share it, so it is retired with the last of them   *)
(* and with none before: no leak and no early release, whatever overlapping *)
(* remaps, replacements and partial unmaps went before.                    *)
ReferencesCountPages ==
    op.phase \in {"idle", "destroy", "destroyed"} =>
        \A b \in Backing :
            LET pages == {pg \in Page : memory[pg] # Unmapped
                                        /\ memory[pg].backing = b}
            IN /\ references[b] = Cardinality(pages)
               /\ status[b] = "live" <=> pages # {}

(* Outside an operation the page table shows exactly what the map allows:  *)
(* no page keeps a fast path past an mprotect, a failed mprotect restores  *)
(* the fast paths it removed, an unmapped page has none.                   *)
FastPathMatchesMap ==
    op.phase = "idle" =>
        \A pg \in Page : page_table[pg] = GuestPageTablePointer(memory[pg])

(* A cached lookup that would still be taken equals what the map says.     *)
CachedLookupIsCurrent ==
    op.phase = "idle" =>
        \A p \in Participant :
            lookupCache[p].generation = guestMemoryLookupGeneration =>
                LET e == memory[lookupCache[p].page]
                IN /\ e # Unmapped
                   /\ lookupCache[p].pointer = Pointer(e)
                   /\ lookupCache[p].perms = e.perms

(* The address space keeps the promise under which reclamation was proved  *)
(* safe: it only lets a JIT load pointers into live backings.              *)
ImplementsEpochs == EpochSpec
=============================================================================
