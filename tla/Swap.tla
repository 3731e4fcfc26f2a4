-------------------------------- MODULE Swap --------------------------------
(***************************************************************************)
(* Eviction and swap-in of one address space's private pages, by threads   *)
(* that share it: mm/swap.zig, and the reclaim and fault paths of          *)
(* proc/fault.zig that call it.  No lock covers a page table entry: every  *)
(* change is a compare-and-swap, and a thread may be killed between any    *)
(* two steps, the brackets of pinPreemption apart (one action each here).  *)
(*                                                                         *)
(* A thread reads and writes memory through the translation its CPU has    *)
(* cached, so an entry that was just changed may still be in use elsewhere *)
(* until the shootdown (one step here; module Shootdown has its protocol). *)
(* The reads and writes of user code are actions of the model: they are    *)
(* what swap has to hide from.                                             *)
(*                                                                         *)
(* Left out: the accessed bit, which only steers the choice of a victim    *)
(* (the choice is free here, and a phase-1 compare may fail because the    *)
(* bit moved); pages shared with the kernel or another process, which      *)
(* evictFrame refuses by their reference count; the range operations, which*)
(* hold the write side of as_lock while every fault holds the read side    *)
(* (mprotect is here, munmap is not); the transfer that goes on after its  *)
(* thread is killed.                                                       *)
(***************************************************************************)
EXTENDS Naturals, FiniteSets

CONSTANTS
  Threads,    \* the group
  Pages,      \* its private pages
  Sourced,    \* those of a region with a file image to reload from
  Protected,  \* those some thread may call mprotect on
  Frames,     \* physical memory
  Slots,      \* swap slots
  MaxGen,     \* times a slot is freed (bound)
  MaxKills,   \* threads killed from outside (bound)
  IoFails     \* whether a transfer may fail

None == "none"

ASSUME DistinctAssumption ==
  /\ Frames \cap Slots = {}
  /\ None \notin Threads \cup Pages \cup Frames \cup Slots

ASSUME SwapAssumption ==
  /\ Sourced \subseteq Pages /\ Protected \subseteq Pages
  /\ MaxGen \in Nat /\ MaxKills \in Nat
  /\ IoFails \in BOOLEAN

VARIABLES
  pte,      \* the leaf entry of each page
  data,     \* contents of each frame in use
  disk,     \* contents of each slot
  used,     \* frames and slots allocated: the two bitmaps
  gen,      \* slot_gen
  tlb,      \* the translation cached where each thread runs, per page
  pc,       \* where each thread is in the code
  at,       \* the page its fault is about
  reg,      \* locals of its evict, discard or swap-in
  chan,     \* PCB.swap_inflight_slot and swap_inflight_frame
  asleep,   \* the page whose eviction it waits for
  pend,     \* PCB.wake_pending
  last,     \* history: the value last written to each page
  reused,   \* history: sourced pages whose entry lost its dirty bit
  orphaned, \* history: pages whose evictor was killed owing a wake or a flush
  kills     \* history: threads killed

vars == <<pte, data, disk, used, gen, tlb, pc, at, reg, chan, asleep, pend,
          last, reused, orphaned, kills>>

memVars == <<pte, data, disk, used, gen, tlb>>
history == <<last, reused, orphaned, kills>>

Values == {0, 1}
Image  == 0        \* what a page holds at its first touch
Junk   == 2        \* a frame or slot out of use

NoPte          == [k |-> "none"]
Present(f, d)  == [k |-> "present", frame |-> f, dirty |-> d]
Inflight(f)    == [k |-> "inflight", frame |-> f]
Swapped(s)     == [k |-> "swapped", slot |-> s, gen |-> gen[s]]

Ptes == {NoPte}
          \cup [k : {"present"}, frame : Frames, dirty : BOOLEAN]
          \cup [k : {"inflight"}, frame : Frames]
          \cup [k : {"swapped"}, slot : Slots, gen : 0..MaxGen]

NoReg == [victim |-> None, then |-> None, seen |-> NoPte,
          slot |-> None, frame |-> None]

\* An evictor owes the faulters of its page a wake from its claim on.
OwingPcs   == {"evShoot", "evWrite", "evRestore", "evReshoot", "evUndo",
               "evCommit", "evFree", "evWake"}
EvictPcs   == OwingPcs \cup {"evLoad", "evClaim"}
DiscardPcs == {"dcLoad", "dcClaim", "dcShoot", "dcFree"}
SwapInPcs  == {"siLoad", "siPublish", "siRead", "siInstall", "siShoot",
               "siFree"}
FaultPcs   == {"lookup", "test", "recheck", "parked", "dispatch", "lazy",
               "lazyMap", "reclaim", "age"}
Alive(t)   == pc[t] # "dead"

TypeOK ==
  /\ pte \in [Pages -> Ptes]
  /\ data \in [Frames -> Values \cup {Junk}]
  /\ disk \in [Slots -> Values \cup {Junk}]
  /\ used \subseteq Frames \cup Slots
  /\ gen \in [Slots -> 0..MaxGen]
  /\ tlb \in [Threads -> [Pages -> {NoPte} \cup [k : {"present"},
                                       frame : Frames, dirty : BOOLEAN]]]
  /\ pc \in [Threads -> EvictPcs \cup DiscardPcs \cup SwapInPcs
                          \cup FaultPcs \cup {"user", "oom", "dead"}]
  /\ at \in [Threads -> Pages \cup {None}]
  /\ reg \in [Threads -> [victim : Pages \cup {None},
                          then : {None, "siLoad", "lazy"},
                          seen : Ptes, slot : Slots \cup {None},
                          frame : Frames \cup {None}]]
  /\ chan \in [Threads -> [slot : Slots \cup {None}, frame : Frames \cup {None}]]
  /\ asleep \in [Threads -> Pages \cup {None}]
  /\ pend \in [Threads -> BOOLEAN]
  /\ last \in [Pages -> Values]
  /\ reused \subseteq Sourced
  /\ orphaned \subseteq Pages
  /\ kills \subseteq Threads

Init ==
  /\ pte = [p \in Pages |-> NoPte]
  /\ data = [f \in Frames |-> Junk]
  /\ disk = [s \in Slots |-> Junk]
  /\ used = {}
  /\ gen = [s \in Slots |-> 0]
  /\ tlb = [t \in Threads |-> [p \in Pages |-> NoPte]]
  /\ pc = [t \in Threads |-> "user"]
  /\ at = [t \in Threads |-> None]
  /\ reg = [t \in Threads |-> NoReg]
  /\ chan = [t \in Threads |-> [slot |-> None, frame |-> None]]
  /\ asleep = [t \in Threads |-> None]
  /\ pend = [t \in Threads |-> FALSE]
  /\ last = [p \in Pages |-> Image]
  /\ reused = {} /\ orphaned = {} /\ kills = {}

Go(t, l) == pc' = [pc EXCEPT ![t] = l]

\* The fault is resolved, or the access is to be retried: back to user mode.
Return(t) == /\ Go(t, "user")
             /\ at' = [at EXCEPT ![t] = None]
             /\ reg' = [reg EXCEPT ![t] = NoReg]

\* Mutant of NextVictim: what the reclaim was for is forgotten.
NextVictimForgets(t) == /\ Go(t, "reclaim")
                        /\ reg' = [reg EXCEPT ![t] = NoReg]
                        /\ UNCHANGED at

\* Back from a victim to the reclaim loop.
NextVictim(t) == /\ Go(t, "reclaim")
                 /\ reg' = [reg EXCEPT ![t] = [NoReg EXCEPT !.then = reg[t].then]]
                 /\ UNCHANGED at

-----------------------------------------------------------------------------
(* Frames and slots.  A resource out of use keeps no content worth naming. *)

FreeFrame(f) == /\ used' = used \ {f}
                /\ data' = [data EXCEPT ![f] = Junk]
                /\ UNCHANGED <<disk, gen>>

\* Mutant of FreeSlot: the entries that name the slot stay good.
FreeSlotSameGen(s) == /\ used' = used \ {s}
                      /\ disk' = [disk EXCEPT ![s] = Junk]
                      /\ UNCHANGED <<data, gen>>

\* freeSlot: a slot that is not allocated is only complained about.
FreeSlot(s) ==
  IF s \in used
    THEN /\ used' = used \ {s}
         /\ disk' = [disk EXCEPT ![s] = Junk]
         /\ gen' = [gen EXCEPT ![s] = @ + 1]
         /\ UNCHANGED data
    ELSE UNCHANGED <<used, disk, gen, data>>

\* shootdownPage: nobody uses the old translation of p after it.
Flush(p) == tlb' = [t \in Threads |-> [tlb[t] EXCEPT ![p] = NoPte]]

-----------------------------------------------------------------------------
(* User code. *)

\* The processor has a translation good for the access: the cached one, if
\* the write need not set the dirty bit, or else the entry itself.
Cached(t, p, write) == tlb[t][p] # NoPte /\ (write => tlb[t][p].dirty)

Read(t, p) ==
  /\ pc[t] = "user"
  /\ tlb[t][p] = NoPte
  /\ pte[p].k = "present"
  /\ tlb' = [tlb EXCEPT ![t][p] = pte[p]]
  /\ UNCHANGED <<pte, data, disk, used, gen, pc, at, reg, chan, asleep, pend,
                 history>>

Write(t, p, v) ==
  /\ pc[t] = "user"
  /\ Cached(t, p, TRUE) \/ pte[p].k = "present"
  /\ LET e == IF Cached(t, p, TRUE) THEN tlb[t][p]
                                    ELSE [pte[p] EXCEPT !.dirty = TRUE]
     IN /\ tlb' = [tlb EXCEPT ![t][p] = e]
        /\ pte' = IF Cached(t, p, TRUE) THEN pte ELSE [pte EXCEPT ![p] = e]
        /\ data' = [data EXCEPT ![e.frame] = v]
  /\ last' = [last EXCEPT ![p] = v]
  /\ UNCHANGED <<disk, used, gen, pc, at, reg, chan, asleep, pend, reused,
                 orphaned, kills>>

Fault(t, p) ==
  /\ pc[t] = "user"
  /\ pte[p].k # "present"
  /\ \E write \in BOOLEAN : ~Cached(t, p, write)
  /\ tlb' = [tlb EXCEPT ![t][p] = NoPte]
  /\ at' = [at EXCEPT ![t] = p]
  /\ Go(t, "lookup")
  /\ UNCHANGED <<pte, data, disk, used, gen, reg, chan, asleep, pend, history>>

\* sysMprotect of a mapped page: changePageProt rewrites the entry from the
\* frame and the new flags alone.
Mprotect(t, p) ==
  /\ pc[t] = "user"
  /\ p \in Protected
  /\ \A u \in Threads : pc[u] \in {"user", "dead"}
  /\ pte[p].k = "present"
  /\ pte' = [pte EXCEPT ![p] = Present(pte[p].frame, FALSE)]
  /\ Flush(p)
  /\ reused' = reused \cup ({p} \cap Sourced)
  /\ UNCHANGED <<data, disk, used, gen, pc, at, reg, chan, asleep, pend, last,
                 orphaned, kills>>

-----------------------------------------------------------------------------
(* trySwapInPage and resolveFault. *)

\* Is the page being evicted?  (blockOnSwapEvict's loop starts here too.)
Lookup(t) ==
  /\ pc[t] = "lookup"
  /\ Go(t, IF pte[at[t]].k = "inflight" THEN "test" ELSE "dispatch")
  /\ UNCHANGED <<memVars, at, reg, chan, asleep, pend, history>>

\* blockOnSwapEvict: a pending wake is consumed, or the thread enrols and
\* goes to sleep.
Enrol(t) ==
  /\ pc[t] = "test"
  /\ pend' = [pend EXCEPT ![t] = FALSE]
  /\ IF pend[t] THEN Go(t, "lookup") /\ UNCHANGED asleep
                ELSE Go(t, "recheck") /\ asleep' = [asleep EXCEPT ![t] = at[t]]
  /\ UNCHANGED <<memVars, at, reg, chan, history>>

\* Mutant of Settled: the entry is not read again after enrolling.
SettledUnread(t) == FALSE

Settled(t) == pte[at[t]].k # "inflight"

Recheck(t) ==
  /\ pc[t] = "recheck"
  /\ IF Settled(t) \/ pend[t]
       THEN /\ Go(t, IF Settled(t) THEN "dispatch" ELSE "lookup")
            /\ asleep' = [asleep EXCEPT ![t] = None]
       ELSE Go(t, "parked") /\ UNCHANGED asleep
  /\ UNCHANGED <<memVars, at, reg, chan, pend, history>>

Resume(t) ==
  /\ pc[t] = "parked"
  /\ asleep[t] = None
  /\ Go(t, "lookup")
  /\ UNCHANGED <<memVars, at, reg, chan, asleep, pend, history>>

\* The entry is read once more: it may have moved on since Lookup, back to
\* in-flight even.  Memory may be short, so a swap-in reclaims first.
Dispatch(t) ==
  /\ pc[t] = "dispatch"
  /\ CASE pte[at[t]].k = "present" -> Return(t)
       [] pte[at[t]].k = "swapped" ->
            /\ Go(t, "reclaim")
            /\ reg' = [reg EXCEPT ![t].then = "siLoad"]
            /\ UNCHANGED at
       [] OTHER -> Go(t, "lazy") /\ UNCHANGED <<at, reg>>
  /\ UNCHANGED <<memVars, chan, asleep, pend, history>>

\* allocFillAndMapUserPage: a frame with the page's image ...
LazyAlloc(t) ==
  /\ pc[t] = "lazy"
  /\ \E f \in Frames \ used :
       /\ used' = used \cup {f}
       /\ data' = [data EXCEPT ![f] = Image]
       /\ reg' = [reg EXCEPT ![t].frame = f]
  /\ Go(t, "lazyMap")
  /\ UNCHANGED <<pte, disk, gen, tlb, at, chan, asleep, pend, history>>

\* ... or, refused (the reserve counts), a round of reclaim or the end.
LazyShort(t) ==
  /\ pc[t] = "lazy"
  /\ \/ Go(t, "reclaim") /\ reg' = [reg EXCEPT ![t].then = "lazy"]
     \/ Frames \subseteq used /\ Go(t, "oom") /\ UNCHANGED reg
  /\ UNCHANGED <<memVars, at, chan, asleep, pend, history>>

\* Mutant of Unmapped: mapUserPage overwrites whatever is not present.
UnmappedOrSwapped(p) == pte[p].k # "present"

Unmapped(p) == pte[p] = NoPte

\* mapUserPage installs over an empty entry only; otherwise AlreadyMapped.
LazyMap(t) ==
  /\ pc[t] = "lazyMap"
  /\ IF Unmapped(at[t])
       THEN /\ pte' = [pte EXCEPT ![at[t]] = Present(reg[t].frame, FALSE)]
            /\ UNCHANGED <<data, disk, used, gen>>
       ELSE FreeFrame(reg[t].frame) /\ UNCHANGED pte
  /\ Return(t)
  /\ UNCHANGED <<tlb, chan, asleep, pend, history>>

-----------------------------------------------------------------------------
(* reclaimViaSwap: any number of pages other than the one being faulted. *)

\* One page of the sweep: it is aged, dropped if clean and sourced, evicted.
Victim(t, p) ==
  /\ pc[t] = "reclaim"
  /\ p # at[t]
  /\ pte[p].k = "present"
  /\ reg' = [reg EXCEPT ![t].victim = p, ![t].seen = pte[p]]
  /\ \/ Go(t, "age")
     \/ Go(t, IF p \in Sourced /\ ~pte[p].dirty THEN "dcLoad" ELSE "evLoad")
  /\ UNCHANGED <<memVars, at, chan, asleep, pend, history>>

EndReclaim(t) ==
  /\ pc[t] = "reclaim"
  /\ Go(t, reg[t].then)
  /\ reg' = [reg EXCEPT ![t] = NoReg]
  /\ UNCHANGED <<memVars, at, chan, asleep, pend, history>>

Seen(t)    == reg[t].seen
Vic(t)     == reg[t].victim

\* Mutant of AgeClears: the accessed bit is cleared by a plain store.
AgeClearsBlindly(t) == TRUE

\* The compare of a page table entry with the one read.
AgeClears(t) == pte[Vic(t)] = Seen(t)

\* Clearing the accessed bit, which the model does not keep, rewrites the
\* entry as it was read.
Age(t) ==
  /\ pc[t] = "age"
  /\ IF AgeClears(t)
       THEN /\ pte' = [pte EXCEPT ![Vic(t)] = Seen(t)]
            /\ tlb' = [tlb EXCEPT ![t][Vic(t)] = NoPte]
       ELSE UNCHANGED <<pte, tlb>>
  /\ NextVictim(t)
  /\ UNCHANGED <<data, disk, used, gen, chan, asleep, pend, history>>

-----------------------------------------------------------------------------
(* discardFrame. *)

\* Mutant of Clean: the caller's look at the dirty bit is trusted.
CleanTrusted(e) == e.k = "present"

Clean(e) == e.k = "present" /\ ~e.dirty

\* The dirty bit is looked at again, in the very entry the claim compares;
\* a refusal goes on to evictFrame.
DiscardLoad(t) ==
  /\ pc[t] = "dcLoad"
  /\ reg' = [reg EXCEPT ![t].seen = pte[Vic(t)]]
  /\ Go(t, IF Clean(pte[Vic(t)]) THEN "dcClaim" ELSE "evLoad")
  /\ UNCHANGED <<memVars, at, chan, asleep, pend, history>>

DiscardClaim(t) ==
  /\ pc[t] = "dcClaim"
  /\ IF pte[Vic(t)] = Seen(t)
       THEN pte' = [pte EXCEPT ![Vic(t)] = NoPte] /\ Go(t, "dcShoot")
       ELSE UNCHANGED pte /\ Go(t, "evLoad")
  /\ UNCHANGED <<data, disk, used, gen, tlb, at, reg, chan, asleep, pend,
                 history>>

DiscardShoot(t) ==
  /\ pc[t] = "dcShoot"
  /\ Flush(Vic(t))
  /\ Go(t, "dcFree")
  /\ UNCHANGED <<pte, data, disk, used, gen, at, reg, chan, asleep, pend,
                 history>>

DiscardFree(t) ==
  /\ pc[t] = "dcFree"
  /\ FreeFrame(Seen(t).frame)
  /\ NextVictim(t)
  /\ UNCHANGED <<pte, tlb, chan, asleep, pend, history>>

-----------------------------------------------------------------------------
(* evictFrame. *)

\* The entry is read, then a slot taken; with neither, nothing is done.
EvictLoad(t) ==
  /\ pc[t] = "evLoad"
  /\ \/ /\ pte[Vic(t)].k = "present"
        /\ \E s \in Slots \ used :
             /\ gen[s] < MaxGen
             /\ used' = used \cup {s}
             /\ reg' = [reg EXCEPT ![t].seen = pte[Vic(t)], ![t].slot = s]
        /\ Go(t, "evClaim")
        /\ UNCHANGED at
     \/ /\ pte[Vic(t)].k # "present" \/ Slots \subseteq used
        /\ NextVictim(t)
        /\ UNCHANGED used
  /\ UNCHANGED <<pte, data, disk, gen, tlb, chan, asleep, pend, history>>

\* Phase 1: the claim and the channel, pinned together.
EvictClaim(t) ==
  /\ pc[t] = "evClaim"
  /\ pte[Vic(t)] = Seen(t)
  /\ pte' = [pte EXCEPT ![Vic(t)] = Inflight(Seen(t).frame)]
  /\ chan' = [chan EXCEPT ![t].slot = reg[t].slot]
  /\ Go(t, "evShoot")
  /\ UNCHANGED <<data, disk, used, gen, tlb, at, reg, asleep, pend, history>>

\* Mutant of EvictLost: the slot taken for the eviction is not given back.
EvictLostKeepsSlot(t) ==
  /\ pc[t] = "evClaim"
  /\ NextVictim(t)
  /\ UNCHANGED <<memVars, chan, asleep, pend, history>>

\* The compare fails, for the accessed bit if for nothing else.
EvictLost(t) ==
  /\ pc[t] = "evClaim"
  /\ FreeSlot(reg[t].slot)
  /\ NextVictim(t)
  /\ UNCHANGED <<pte, tlb, chan, asleep, pend, history>>

\* Mutant of EvictFlush: the write-out does not wait for stale translations.
EvictFlushNothing(t) == UNCHANGED tlb

EvictFlush(t) == Flush(Vic(t))

EvictShoot(t) ==
  /\ pc[t] = "evShoot"
  /\ EvictFlush(t)
  /\ Go(t, "evWrite")
  /\ UNCHANGED <<pte, data, disk, used, gen, at, reg, chan, asleep, pend,
                 history>>

\* Phase 2: writePage.
EvictWrite(t) ==
  /\ pc[t] = "evWrite"
  /\ \/ disk' = [disk EXCEPT ![reg[t].slot] = data[Seen(t).frame]]
        /\ Go(t, "evCommit")
     \/ IoFails /\ UNCHANGED disk /\ Go(t, "evRestore")
  /\ UNCHANGED <<pte, data, used, gen, tlb, at, reg, chan, asleep, pend,
                 history>>

InflightStill(t) == pte[Vic(t)] = Inflight(Seen(t).frame)

EvictRestore(t) ==
  /\ pc[t] = "evRestore"
  /\ IF InflightStill(t)
       THEN pte' = [pte EXCEPT ![Vic(t)] = Seen(t)] /\ Go(t, "evReshoot")
       ELSE UNCHANGED pte /\ Go(t, "evUndo")
  /\ UNCHANGED <<data, disk, used, gen, tlb, at, reg, chan, asleep, pend,
                 history>>

EvictReshoot(t) ==
  /\ pc[t] = "evReshoot"
  /\ Flush(Vic(t))
  /\ Go(t, "evUndo")
  /\ UNCHANGED <<pte, data, disk, used, gen, at, reg, chan, asleep, pend,
                 history>>

EvictUndo(t) ==
  /\ pc[t] = "evUndo"
  /\ chan' = [chan EXCEPT ![t].slot = None]
  /\ FreeSlot(reg[t].slot)
  /\ Go(t, "evWake")
  /\ UNCHANGED <<pte, tlb, at, reg, asleep, pend, history>>

\* Mutant of Handover: the channel keeps the slot that the entry names now.
HandoverLate(t) == UNCHANGED chan

\* clearInflightSlot, before the slot is published, under the same pin.
Handover(t) == chan' = [chan EXCEPT ![t].slot = None]

\* Phase 3: from the channel to the entry, or back to the allocator.
EvictCommit(t) ==
  /\ pc[t] = "evCommit"
  /\ Handover(t)
  /\ IF InflightStill(t)
       THEN /\ pte' = [pte EXCEPT ![Vic(t)] = Swapped(reg[t].slot)]
            /\ Go(t, "evFree")
            /\ UNCHANGED <<data, disk, used, gen>>
       ELSE /\ FreeSlot(reg[t].slot)
            /\ Go(t, "evWake")
            /\ UNCHANGED pte
  /\ UNCHANGED <<tlb, at, reg, asleep, pend, history>>

EvictFree(t) ==
  /\ pc[t] = "evFree"
  /\ FreeFrame(Seen(t).frame)
  /\ Go(t, "evWake")
  /\ UNCHANGED <<pte, tlb, at, reg, chan, asleep, pend, history>>

\* wakeSwapEvictWaiters: one scan for the entry's address.
EvictWake(t) ==
  /\ pc[t] = "evWake"
  /\ LET woken == {u \in Threads : asleep[u] = Vic(t)}
     IN /\ asleep' = [u \in Threads |-> IF u \in woken THEN None ELSE asleep[u]]
        /\ pend' = [u \in Threads |-> pend[u] \/ u \in woken]
  /\ NextVictim(t)
  /\ UNCHANGED <<memVars, chan, history>>

-----------------------------------------------------------------------------
(* swapInFrame. *)

\* An entry that is no longer swapped needs nothing; no frame, no mercy.
SwapInLoad(t) ==
  /\ pc[t] = "siLoad"
  /\ IF pte[at[t]].k # "swapped"
       THEN Return(t) /\ UNCHANGED used
       ELSE \/ \E f \in Frames \ used :
                 /\ used' = used \cup {f}
                 /\ reg' = [reg EXCEPT ![t].seen = pte[at[t]], ![t].frame = f]
                 /\ Go(t, "siPublish")
                 /\ UNCHANGED at
            \/ /\ Frames \subseteq used
               /\ Go(t, "oom")
               /\ UNCHANGED <<at, reg, used>>
  /\ UNCHANGED <<pte, data, disk, gen, tlb, chan, asleep, pend, history>>

SwapInPublish(t) ==
  /\ pc[t] = "siPublish"
  /\ chan' = [chan EXCEPT ![t].frame = reg[t].frame]
  /\ Go(t, "siRead")
  /\ UNCHANGED <<memVars, at, reg, asleep, pend, history>>

\* readPage; a failure gives the frame back, and the fault is out of luck.
SwapInRead(t) ==
  /\ pc[t] = "siRead"
  /\ \/ /\ data' = [data EXCEPT ![reg[t].frame] = disk[Seen(t).slot]]
        /\ Go(t, "siInstall")
        /\ UNCHANGED <<used, disk, gen, reg, chan>>
     \/ /\ IoFails
        /\ chan' = [chan EXCEPT ![t].frame = None]
        /\ FreeFrame(reg[t].frame)
        /\ reg' = [reg EXCEPT ![t] = NoReg]
        /\ Go(t, "oom")
  /\ UNCHANGED <<pte, tlb, at, asleep, pend, history>>

\* Mutant of SwapInWins: any swapped entry will do.
SwapInWinsAny(t) == pte[at[t]].k = "swapped"

SwapInWins(t) == pte[at[t]] = Seen(t)

\* From the channel to the entry.  The flags are the region's: the entry is
\* clean, whatever the page holds.
SwapInInstall(t) ==
  /\ pc[t] = "siInstall"
  /\ chan' = [chan EXCEPT ![t].frame = None]
  /\ IF SwapInWins(t)
       THEN /\ pte' = [pte EXCEPT ![at[t]] = Present(reg[t].frame, FALSE)]
            /\ reused' = reused \cup ({at[t]} \cap Sourced)
            /\ Go(t, "siShoot")
            /\ UNCHANGED <<data, disk, used, gen, at, reg>>
       ELSE /\ FreeFrame(reg[t].frame)
            /\ Return(t)
            /\ UNCHANGED <<pte, reused>>
  /\ UNCHANGED <<tlb, asleep, pend, last, orphaned, kills>>

SwapInShoot(t) ==
  /\ pc[t] = "siShoot"
  /\ Flush(at[t])
  /\ Go(t, "siFree")
  /\ UNCHANGED <<pte, data, disk, used, gen, at, reg, chan, asleep, pend,
                 history>>

SwapInFree(t) ==
  /\ pc[t] = "siFree"
  /\ FreeSlot(Seen(t).slot)
  /\ Return(t)
  /\ UNCHANGED <<pte, tlb, chan, asleep, pend, history>>

-----------------------------------------------------------------------------
(* Death. *)

\* The whole group goes when a fault finds no memory, the faulter last.
OutOfMemory == \E t \in Threads : pc[t] = "oom"

MayKill(t) ==
  /\ Alive(t)
  /\ \/ Cardinality(kills) < MaxKills
     \/ OutOfMemory /\ (pc[t] = "oom" => \A u \in Threads \ {t} :
                                           pc[u] \in {"oom", "dead"})

\* What destroyAddressSpace releases, entry by entry (teardownNonPresent).
Mapped == {pte[p].frame : p \in {q \in Pages : pte[q].k \in {"present", "inflight"}}}
            \cup {pte[p].slot : p \in {q \in Pages : pte[q].k = "swapped"}}

\* tearDownTask: the channels are exchanged for "none" and what they held is
\* freed; the last of the group takes the address space down.
Kill(t) ==
  /\ MayKill(t)
  /\ LET over  == \A u \in Threads \ {t} : ~Alive(u)
         freed == ({chan[t].slot, chan[t].frame} \ {None})
                    \cup (IF over THEN Mapped ELSE {})
     IN /\ used' = used \ freed
        /\ data' = [f \in Frames |-> IF f \in freed THEN Junk ELSE data[f]]
        /\ disk' = [s \in Slots |-> IF s \in freed THEN Junk ELSE disk[s]]
        /\ gen' = [s \in Slots |-> IF s \in freed THEN gen[s] + 1 ELSE gen[s]]
        /\ pte' = IF over THEN [p \in Pages |-> NoPte] ELSE pte
  /\ chan' = [chan EXCEPT ![t] = [slot |-> None, frame |-> None]]
  /\ tlb' = [tlb EXCEPT ![t] = [p \in Pages |-> NoPte]]
  /\ asleep' = [asleep EXCEPT ![t] = None]
  /\ pend' = [pend EXCEPT ![t] = FALSE]
  /\ Go(t, "dead")
  /\ at' = [at EXCEPT ![t] = None]
  /\ reg' = [reg EXCEPT ![t] = NoReg]
  /\ kills' = kills \cup {t}
  /\ orphaned' = orphaned \cup (IF pc[t] \in OwingPcs \cup {"dcShoot"}
                                    THEN {Vic(t)} ELSE {})
  /\ UNCHANGED <<last, reused>>

-----------------------------------------------------------------------------
UserStep(t, p) ==
  \/ Read(t, p)
  \/ \E v \in Values : Write(t, p, v)
  \/ Fault(t, p)
  \/ Mprotect(t, p)

FaultStep(t) ==
  \/ Lookup(t) \/ Enrol(t) \/ Recheck(t) \/ Resume(t) \/ Dispatch(t)
  \/ LazyAlloc(t) \/ LazyShort(t) \/ LazyMap(t)
  \/ (\E p \in Pages : Victim(t, p)) \/ EndReclaim(t) \/ Age(t)

EvictStep(t) ==
  \/ DiscardLoad(t) \/ DiscardClaim(t) \/ DiscardShoot(t) \/ DiscardFree(t)
  \/ EvictLoad(t) \/ EvictClaim(t) \/ EvictLost(t) \/ EvictShoot(t)
  \/ EvictWrite(t) \/ EvictRestore(t) \/ EvictReshoot(t) \/ EvictUndo(t)
  \/ EvictCommit(t) \/ EvictFree(t) \/ EvictWake(t)

SwapInStep(t) ==
  \/ SwapInLoad(t) \/ SwapInPublish(t) \/ SwapInRead(t) \/ SwapInInstall(t)
  \/ SwapInShoot(t) \/ SwapInFree(t)

Next ==
  \E t \in Threads :
    \/ \E p \in Pages : UserStep(t, p)
    \/ FaultStep(t)
    \/ EvictStep(t)
    \/ SwapInStep(t)
    \/ Kill(t)

Spec == Init /\ [][Next]_vars

-----------------------------------------------------------------------------
(* What a page holds, and who names a frame or a slot. *)

Content(p) == CASE pte[p].k = "none"    -> Image
                [] pte[p].k = "swapped" -> disk[pte[p].slot]
                [] OTHER                -> data[pte[p].frame]

Group == {t \in Threads : Alive(t)}

StackNames(t) ==
  CASE pc[t] \in {"siPublish", "lazyMap"}         -> {reg[t].frame}
    [] pc[t] \in {"evFree", "dcShoot", "dcFree"}  -> {Seen(t).frame}
    [] pc[t] = "evClaim"                          -> {reg[t].slot}
    [] pc[t] \in {"siShoot", "siFree"}            -> {Seen(t).slot}
    [] OTHER                                      -> {}

\* The owners of a frame or slot: entries, channels and stacks.
Owners(x) ==
  {p \in Pages : \/ pte[p].k \in {"present", "inflight"} /\ pte[p].frame = x
                 \/ pte[p].k = "swapped" /\ pte[p].slot = x}
    \cup {t \in Group : x \in {chan[t].slot, chan[t].frame} \cup StackNames(t)}

Unnamed == {x \in used : Owners(x) = {}}

\* No page loses what was last written to it, through any interleaving of
\* its eviction, discard and swap-in with the writes of user code, with one
\* exception: a sourced page whose entry lost its dirty bit (see Lossless).
ContentKept ==
  Group # {} => \A p \in Pages \ reused : Content(p) = last[p]

\* A translation still cached on some CPU, that user code reads and writes
\* through, leads to the page and to its last value: never to a frame that
\* was freed, handed to another page, or already copied to disk.  Between
\* discardFrame's claim and its shootdown a peer may still read the old
\* image after another thread's write to the reloaded page.
CachedRight ==
  \A t \in Threads, p \in Pages \ (reused \cup orphaned) :
    tlb[t][p] # NoPte /\ ~(\E u \in Threads : pc[u] = "dcShoot" /\ Vic(u) = p) =>
      tlb[t][p].frame \in used /\ data[tlb[t][p].frame] = last[p]

\* "The slot is named by exactly ONE owner": no slot or frame has two at any
\* point where a kill can land, and a named one is allocated.  Two names
\* mean that it is freed twice and given to two pages.
SoleOwner ==
  \A x \in Frames \cup Slots :
    /\ Cardinality(Owners(x)) <= 1
    /\ Owners(x) # {} => x \in used

\* A kill costs at most one frame or slot (those windows exist, see NoLeak),
\* and without kills none is ever lost.
LeakBounded == Cardinality(Unnamed) <= Cardinality(kills)

\* A thread that sleeps on an eviction has a live evictor that will wake it,
\* unless the evictor was killed owing the wake (see Returns).
FaulterAttended ==
  \A t \in Threads :
    pc[t] = "parked" /\ asleep[t] # None /\ asleep[t] \notin orphaned =>
      \E u \in Group \ {t} : pc[u] \in OwingPcs /\ Vic(u) = asleep[t]

\* "... byte-identical to what re-loading from `source` would produce, so
\* dropping it is lossless" (discardFrame): no page ever loses a write.
Lossless == Group # {} => \A p \in Pages : Content(p) = last[p]

\* "Zero names means it leaks" (evictFrame): every allocated slot has an
\* owner at every instant.
NoLeak == Unnamed \cap Slots = {}

\* "Returns once the PTE is in a settled state" (blockOnSwapEvict): somebody
\* alive will end the eviction a thread sleeps on.
Returns ==
  \A t \in Threads :
    pc[t] = "parked" /\ asleep[t] # None =>
      \E u \in Group \ {t} : pc[u] \in OwingPcs /\ Vic(u) = asleep[t]
=============================================================================
