----------------------------- MODULE SwapProofs -----------------------------
(***************************************************************************)
(* What module Swap promises, for every group of threads, every set of     *)
(* pages, frames and slots, and every bound on generations and kills: its  *)
(* types, that no page loses its content, that no stale translation leads  *)
(* astray, that no frame or slot has two owners, that no sleeper is        *)
(* forgotten, and that a kill costs one frame or one slot at most.         *)
(*                                                                         *)
(* Five facts say what one step of a thread does: it moves nobody else     *)
(* (OthersKept), it gets to a place by one action only (Arrivals), it      *)
(* changes an entry by a compare-and-swap only (EntryMoves), a translation *)
(* by an access or a flush (TranslationMoves), a frame or a slot only if it*)
(* has it in hand (FramesKept, SlotsKept).  Each part of the invariant is  *)
(* kept because of these facts and of the other parts.                     *)
(***************************************************************************)
EXTENDS Swap, FiniteSetTheorems, TLAPS

-----------------------------------------------------------------------------
(* The inductive invariant: types. *)

Steps == EvictPcs \cup DiscardPcs \cup SwapInPcs \cup FaultPcs
           \cup {"user", "oom", "dead"}
Cacheable == {NoPte} \cup [k : {"present"}, frame : Frames, dirty : BOOLEAN]
Regs == [victim : Pages \cup {None}, then : {None, "siLoad", "lazy"},
         seen : Ptes, slot : Slots \cup {None}, frame : Frames \cup {None}]

PteTyped    == pte \in [Pages -> Ptes]
TlbTyped    == tlb \in [Threads -> [Pages -> Cacheable]]
PcTyped     == pc \in [Threads -> Steps]
AtTyped     == at \in [Threads -> Pages \cup {None}]
ChanTyped   == chan \in [Threads -> [slot : Slots \cup {None},
                                     frame : Frames \cup {None}]]
RegTyped    == reg \in [Threads -> Regs]
UsedTyped   == used \subseteq Frames \cup Slots
GenTyped    == gen \in [Slots -> 0..MaxGen]
PendTyped   == pend \in [Threads -> BOOLEAN]
AsleepTyped == asleep \in [Threads -> Pages \cup {None}]
DataTyped   == data \in [Frames -> Values \cup {Junk}]
DiskTyped   == disk \in [Slots -> Values \cup {Junk}]
HistoryTyped ==
  /\ last \in [Pages -> Values]
  /\ reused \subseteq Sourced /\ orphaned \subseteq Pages
  /\ kills \subseteq Threads

\* The types that what follows needs.
Typed ==
  /\ PteTyped /\ TlbTyped /\ PcTyped /\ AtTyped /\ ChanTyped /\ RegTyped
  /\ UsedTyped /\ GenTyped /\ PendTyped

-----------------------------------------------------------------------------
(* What a thread has in hand, and who owns a frame or a slot. *)

\* The locals that count at each step of the code, and the channels.
InHand(t) ==
  /\ pc[t] \notin {"user", "oom", "dead"} => at[t] \in Pages
  /\ pc[t] \in EvictPcs \cup DiscardPcs \cup {"age"} => reg[t].victim \in Pages
  /\ pc[t] \in EvictPcs \cup DiscardPcs \cup {"age", "reclaim"} =>
       reg[t].then # None
  /\ pc[t] \in (EvictPcs \ {"evLoad"})
                 \cup {"age", "dcClaim", "dcShoot", "dcFree"} =>
       reg[t].seen.k = "present"
  /\ pc[t] \in {"dcClaim", "dcShoot", "dcFree"} => ~reg[t].seen.dirty
  /\ pc[t] \in EvictPcs \ {"evLoad"} => reg[t].slot \in Slots
  /\ pc[t] \in SwapInPcs \ {"siLoad"} => reg[t].seen.k = "swapped"
  /\ pc[t] \in (SwapInPcs \ {"siLoad"}) \cup {"lazyMap"} =>
       reg[t].frame \in Frames
  /\ chan[t].slot = IF pc[t] \in OwingPcs \ {"evFree", "evWake"}
                      THEN reg[t].slot ELSE None
  /\ chan[t].frame = IF pc[t] \in {"siRead", "siInstall"}
                       THEN reg[t].frame ELSE None
  /\ asleep[t] # None => pc[t] \in {"recheck", "parked"} /\ asleep[t] = at[t]

Shape == \A t \in Threads : InHand(t)

\* The frame and the slot that a thread at l with locals r has on its stack or
\* in its channel, and those that an entry names.
FrameFor(l, r) ==
  IF l \in {"siPublish", "siRead", "siInstall", "lazyMap"} THEN r.frame
  ELSE IF l \in {"evFree", "dcShoot", "dcFree"} THEN r.seen.frame ELSE None
SlotFor(l, r) ==
  IF l \in {"evClaim", "evShoot", "evWrite", "evRestore", "evReshoot",
            "evUndo", "evCommit"} THEN r.slot
  ELSE IF l \in {"siShoot", "siFree"} THEN r.seen.slot ELSE None
FrameIn(e) == IF e.k \in {"present", "inflight"} THEN e.frame ELSE None
SlotIn(e)  == IF e.k = "swapped" THEN e.slot ELSE None

HeldFrame == [t \in Threads |-> FrameFor(pc[t], reg[t])]
HeldSlot  == [t \in Threads |-> SlotFor(pc[t], reg[t])]
PageFrame == [p \in Pages |-> FrameIn(pte[p])]
PageSlot  == [p \in Pages |-> SlotIn(pte[p])]

\* What is held or named is allocated, and by one owner only.
One(held, named) ==
  /\ \A t \in Threads : held[t] # None => held[t] \in used
  /\ \A p \in Pages : named[p] # None => named[p] \in used
  /\ \A t, u \in Threads : held[t] = held[u] => t = u \/ held[t] = None
  /\ \A p, q \in Pages : named[p] = named[q] => p = q \/ named[p] = None
  /\ \A t \in Threads, p \in Pages : held[t] = named[p] => held[t] = None

OneFrame == One(HeldFrame, PageFrame)
OneSlot  == One(HeldSlot, PageSlot)
OwnInv   == OneFrame /\ OneSlot

\* An entry names its slot by the generation the slot has, and a slot in use
\* can still be freed within the bound.
GenInv ==
  /\ \A s \in Slots \cap used : gen[s] < MaxGen
  /\ \A p \in Pages : pte[p].k = "swapped" => pte[p].gen = gen[pte[p].slot]

-----------------------------------------------------------------------------
(* Claims, translations and clean pages. *)

ClaimPcs == {"evShoot", "evWrite", "evRestore", "evCommit"}

\* What an evictor has claimed is its own until it restores or commits it,
\* and nobody has it cached once it has been flushed.
EvictInv ==
  /\ \A t \in Threads :
       pc[t] \in ClaimPcs => pte[reg[t].victim] = Inflight(reg[t].seen.frame)
  /\ \A t, u \in Threads :
       /\ pc[t] \in ClaimPcs /\ pc[u] \in ClaimPcs
       /\ reg[t].victim = reg[u].victim
       => t = u
  /\ \A t, u \in Threads : pc[t] \in {"evWrite", "evRestore", "evCommit"} =>
       tlb[u][reg[t].victim] = NoPte

\* A translation that may be written through leads to the frame of its entry,
\* which is dirty.
DirtyNamed ==
  \A u \in Threads, p \in Pages : tlb[u][p] # NoPte /\ tlb[u][p].dirty =>
    /\ FrameIn(pte[p]) = tlb[u][p].frame
    /\ pte[p].k = "present" => pte[p].dirty

\* An evictor that has yet to flush knows of it.
DirtySeen ==
  \A t, u \in Threads :
    pc[t] = "evShoot" /\ tlb[u][reg[t].victim] # NoPte
      /\ tlb[u][reg[t].victim].dirty => reg[t].seen.dirty

DeadClean ==
  \A t \in Threads : pc[t] = "dead" => \A p \in Pages : tlb[t][p] = NoPte

\* Any translation leads to the frame of its entry, unless a discard has yet to
\* flush it or a thread was killed that had to.
CachedNamed ==
  \A t \in Threads, p \in Pages : tlb[t][p] # NoPte =>
    \/ p \in orphaned
    \/ FrameIn(pte[p]) = tlb[t][p].frame
    \/ \E u \in Threads : pc[u] = "dcShoot" /\ reg[u].victim = p

DropSourced ==
  \A t \in Threads : pc[t] \in DiscardPcs => reg[t].victim \in Sourced

\* A page of a file image whose entry is clean was never written to, unless its
\* entry once lost the dirty bit.
CleanPage ==
  \A p \in Sourced \ reused :
    pte[p].k = "present" /\ ~pte[p].dirty => last[p] = Image
CleanSeen ==
  \A t \in Threads :
    pc[t] \in {"evShoot", "evWrite", "evRestore"}
      /\ reg[t].victim \in Sourced \ reused /\ ~reg[t].seen.dirty =>
        last[reg[t].victim] = Image

-----------------------------------------------------------------------------
(* Copies under way, and sleepers. *)

\* While the generation that a swap-in has read is the slot's own, the slot is
\* allocated, and only another swap-in from it may be about to free it.
SlotFresh ==
  \A t \in Threads : pc[t] \in {"siPublish", "siRead", "siInstall"} =>
    /\ reg[t].seen.gen <= gen[reg[t].seen.slot]
    /\ reg[t].seen.gen = gen[reg[t].seen.slot] =>
         /\ reg[t].seen.slot \in used
         /\ \A u \in Threads : HeldSlot[u] = reg[t].seen.slot =>
                                 pc[u] \in {"siShoot", "siFree"}

\* A copy made is still good when the entry is to name it.
ReadCopies ==
  \A t \in Threads :
    pc[t] = "siInstall" /\ reg[t].seen.gen = gen[reg[t].seen.slot] =>
      data[reg[t].frame] = disk[reg[t].seen.slot]
WriteCopies ==
  \A t \in Threads :
    pc[t] = "evCommit" => disk[reg[t].slot] = data[reg[t].seen.frame]
LazyImage ==
  \A t \in Threads : pc[t] = "lazyMap" => data[reg[t].frame] = Image

\* An entry in flight has an evictor to settle it, a sleeper one to wake it.
InflightClaimed ==
  \A p \in Pages : pte[p].k = "inflight" =>
    \/ p \in orphaned
    \/ \E u \in Threads : pc[u] \in ClaimPcs /\ reg[u].victim = p
SleeperOwed ==
  \A t \in Threads : pc[t] = "parked" /\ asleep[t] # None =>
    \/ asleep[t] \in orphaned
    \/ \E u \in Threads : pc[u] \in OwingPcs /\ reg[u].victim = asleep[t]

-----------------------------------------------------------------------------
(* Entries, and what is named through them. *)

\* The kind of an entry tells its fields.
LEMMA PresentPte ==
  ASSUME NEW e \in Ptes, e.k = "present"
  PROVE  e \in [k : {"present"}, frame : Frames, dirty : BOOLEAN]
<1>1. CASE e = NoPte
  BY <1>1 DEF NoPte
<1>2. CASE e \in [k : {"inflight"}, frame : Frames]
  BY <1>2
<1>3. CASE e \in [k : {"swapped"}, slot : Slots, gen : 0..MaxGen]
  BY <1>3
<1> QED BY <1>1, <1>2, <1>3 DEF Ptes

LEMMA InflightPte ==
  ASSUME NEW e \in Ptes, e.k = "inflight"
  PROVE  e \in [k : {"inflight"}, frame : Frames]
<1>1. CASE e = NoPte
  BY <1>1 DEF NoPte
<1>2. CASE e \in [k : {"present"}, frame : Frames, dirty : BOOLEAN]
  BY <1>2
<1>3. CASE e \in [k : {"swapped"}, slot : Slots, gen : 0..MaxGen]
  BY <1>3
<1> QED BY <1>1, <1>2, <1>3 DEF Ptes

LEMMA SwappedPte ==
  ASSUME NEW e \in Ptes, e.k = "swapped"
  PROVE  e \in [k : {"swapped"}, slot : Slots, gen : 0..MaxGen]
<1>1. CASE e = NoPte
  BY <1>1 DEF NoPte
<1>2. CASE e \in [k : {"inflight"}, frame : Frames]
  BY <1>2
<1>3. CASE e \in [k : {"present"}, frame : Frames, dirty : BOOLEAN]
  BY <1>3
<1> QED BY <1>1, <1>2, <1>3 DEF Ptes

\* The same, for the frame and the slot an entry names.
LEMMA EntryKinds ==
  ASSUME NEW e \in Ptes
  PROVE  /\ e = NoPte \/ e.k \in {"present", "inflight", "swapped"}
         /\ e = NoPte <=> e.k = "none"
         /\ e.k \in {"present", "inflight"} =>
              FrameIn(e) = e.frame /\ e.frame \in Frames
         /\ e.k = "swapped" => SlotIn(e) = e.slot /\ e.slot \in Slots
<1>1. CASE e.k = "present"
  BY <1>1, PresentPte DEF FrameIn, NoPte
<1>2. CASE e.k = "inflight"
  BY <1>2, InflightPte DEF FrameIn, NoPte
<1>3. CASE e.k = "swapped"
  BY <1>3, SwappedPte DEF SlotIn, NoPte
<1>4. CASE e = NoPte
  BY <1>4 DEF NoPte
<1> QED BY <1>1, <1>2, <1>3, <1>4 DEF Ptes

\* While no entry changes, none comes to name anything else.
LEMMA SameEntries ==
  ASSUME UNCHANGED pte
  PROVE  UNCHANGED <<PageFrame, PageSlot>>
BY DEF PageFrame, PageSlot

\* The frame and the slot of the entry a thread has read.
LEMMA SeenFrame ==
  ASSUME Typed, NEW t \in Threads, reg[t].seen.k = "present"
  PROVE  reg[t].seen.frame \in Frames
BY PresentPte DEF Typed, RegTyped, Regs

LEMMA SeenSlot ==
  ASSUME Typed, NEW t \in Threads, reg[t].seen.k = "swapped"
  PROVE  reg[t].seen.slot \in Slots
BY SwappedPte DEF Typed, RegTyped, Regs

\* What is held or named is a frame or a slot.
LEMMA HeldTypes ==
  ASSUME Typed, Shape
  PROVE  /\ HeldFrame \in [Threads -> Frames \cup {None}]
         /\ HeldSlot \in [Threads -> Slots \cup {None}]
         /\ PageFrame \in [Pages -> Frames \cup {None}]
         /\ PageSlot \in [Pages -> Slots \cup {None}]
<1>1. ASSUME NEW t \in Threads
      PROVE  FrameFor(pc[t], reg[t]) \in Frames \cup {None}
  BY SeenFrame DEF FrameFor, Shape, InHand, SwapInPcs, EvictPcs, OwingPcs
<1>2. ASSUME NEW t \in Threads
      PROVE  SlotFor(pc[t], reg[t]) \in Slots \cup {None}
  BY SeenSlot DEF SlotFor, Shape, InHand, SwapInPcs, EvictPcs, OwingPcs
<1>3. ASSUME NEW p \in Pages
      PROVE  /\ FrameIn(pte[p]) \in Frames \cup {None}
             /\ SlotIn(pte[p]) \in Slots \cup {None}
  BY PresentPte, InflightPte, SwappedPte DEF FrameIn, SlotIn, Typed, PteTyped
<1> QED BY <1>1, <1>2, <1>3 DEF HeldFrame, HeldSlot, PageFrame, PageSlot

-----------------------------------------------------------------------------
(* What a step does to threads. *)

\* A step of thread t.
Step(t) ==
  \/ \E p \in Pages : UserStep(t, p)
  \/ FaultStep(t) \/ EvictStep(t) \/ SwapInStep(t) \/ Kill(t)

\* A step of a thread moves no other one: it may only wake it.
LEMMA OthersKept ==
  ASSUME PcTyped, AtTyped, RegTyped, ChanTyped, AsleepTyped, PendTyped,
         NEW t \in Threads, Step(t)
  PROVE  \A u \in Threads \ {t} :
           /\ pc'[u] = pc[u] /\ at'[u] = at[u] /\ reg'[u] = reg[u]
           /\ chan'[u] = chan[u] /\ asleep'[u] \in {asleep[u], None}
           /\ pend[u] => pend'[u]
<1>1. ASSUME
        \/ (\E p \in Pages : Read(t, p))
        \/ (\E p \in Pages, v \in Values : Write(t, p, v))
        \/ (\E p \in Pages : Fault(t, p)) \/ (\E p \in Pages : Mprotect(t, p))
        \/ Lookup(t) \/ Enrol(t) \/ Recheck(t) \/ Resume(t) \/ Dispatch(t)
        \/ LazyAlloc(t)
      PROVE  \A u \in Threads \ {t} :
           /\ pc'[u] = pc[u] /\ at'[u] = at[u] /\ reg'[u] = reg[u]
           /\ chan'[u] = chan[u] /\ asleep'[u] \in {asleep[u], None}
           /\ pend[u] => pend'[u]
  BY <1>1 DEF PcTyped, AtTyped, RegTyped, ChanTyped, AsleepTyped, PendTyped,
     Read, history, NoPte, Write, Cached, Fault, Go, Mprotect, Flush, Present,
     Lookup, memVars, Enrol, Recheck, Settled, Resume, Dispatch, Return, NoReg,
     LazyAlloc
<1>2. ASSUME
        \/ LazyShort(t) \/ LazyMap(t) \/ (\E p \in Pages : Victim(t, p))
        \/ EndReclaim(t) \/ Age(t) \/ DiscardLoad(t) \/ DiscardClaim(t)
        \/ DiscardShoot(t) \/ DiscardFree(t) \/ EvictLoad(t)
      PROVE  \A u \in Threads \ {t} :
           /\ pc'[u] = pc[u] /\ at'[u] = at[u] /\ reg'[u] = reg[u]
           /\ chan'[u] = chan[u] /\ asleep'[u] \in {asleep[u], None}
           /\ pend[u] => pend'[u]
  BY <1>2 DEF PcTyped, AtTyped, RegTyped, ChanTyped, AsleepTyped, PendTyped,
     LazyShort, Go, memVars, history, LazyMap, Unmapped, Present, FreeFrame,
     Return, NoReg, NoPte, Victim, EndReclaim, Age, AgeClears, Vic, Seen,
     NextVictim, DiscardLoad, Clean, DiscardClaim, DiscardShoot, Flush,
     DiscardFree, EvictLoad
<1>3. ASSUME
        \/ EvictClaim(t) \/ EvictLost(t) \/ EvictShoot(t) \/ EvictWrite(t)
        \/ EvictRestore(t) \/ EvictReshoot(t) \/ EvictUndo(t)
        \/ EvictCommit(t) \/ EvictFree(t) \/ EvictWake(t)
      PROVE  \A u \in Threads \ {t} :
           /\ pc'[u] = pc[u] /\ at'[u] = at[u] /\ reg'[u] = reg[u]
           /\ chan'[u] = chan[u] /\ asleep'[u] \in {asleep[u], None}
           /\ pend[u] => pend'[u]
  BY <1>3 DEF PcTyped, AtTyped, RegTyped, ChanTyped, AsleepTyped, PendTyped,
     EvictClaim, Vic, Seen, Inflight, Go, history, EvictLost, FreeSlot,
     NextVictim, NoReg, EvictShoot, EvictFlush, Flush, NoPte, EvictWrite,
     EvictRestore, InflightStill, EvictReshoot, EvictUndo, EvictCommit,
     Handover, Swapped, EvictFree, FreeFrame, EvictWake, memVars
<1>4. ASSUME
        \/ SwapInLoad(t) \/ SwapInPublish(t) \/ SwapInRead(t)
        \/ SwapInInstall(t) \/ SwapInShoot(t) \/ SwapInFree(t) \/ Kill(t)
      PROVE  \A u \in Threads \ {t} :
           /\ pc'[u] = pc[u] /\ at'[u] = at[u] /\ reg'[u] = reg[u]
           /\ chan'[u] = chan[u] /\ asleep'[u] \in {asleep[u], None}
           /\ pend[u] => pend'[u]
  BY <1>4 DEF PcTyped, AtTyped, RegTyped, ChanTyped, AsleepTyped, PendTyped,
     SwapInLoad, Return, Go, history, NoReg, SwapInPublish, memVars,
     SwapInRead, FreeFrame, Seen, SwapInInstall, SwapInWins, Present,
     SwapInShoot, Flush, NoPte, SwapInFree, FreeSlot, Kill, MayKill, Alive,
     Mapped
<1> QED BY <1>1, <1>2, <1>3, <1>4 DEF Step, UserStep, FaultStep, EvictStep,
           SwapInStep

\* The only action that takes a thread to a place.
Arrives(t) ==
  /\ pc'[t] = "lazyMap" => LazyAlloc(t)
  /\ pc'[t] = "parked" => Recheck(t)
  /\ pc'[t] = "dcLoad" => \E p \in Pages : Victim(t, p)
  /\ pc'[t] = "dcClaim" => DiscardLoad(t)
  /\ pc'[t] = "dcShoot" => DiscardClaim(t)
  /\ pc'[t] = "dcFree" => DiscardShoot(t)
  /\ pc'[t] = "evClaim" => EvictLoad(t)
  /\ pc'[t] = "evShoot" => EvictClaim(t)
  /\ pc'[t] = "evWrite" => EvictShoot(t)
  /\ pc'[t] \in {"evRestore", "evCommit"} => EvictWrite(t)
  /\ pc'[t] = "evReshoot" => EvictRestore(t)
  /\ pc'[t] = "evUndo" => EvictRestore(t) \/ EvictReshoot(t)
  /\ pc'[t] = "siPublish" => SwapInLoad(t)
  /\ pc'[t] = "siRead" => SwapInPublish(t)
  /\ pc'[t] = "siInstall" => SwapInRead(t)
  /\ pc'[t] = "siShoot" => SwapInInstall(t)
  /\ pc'[t] = "siFree" => SwapInShoot(t)
  /\ pc'[t] = "dead" => Kill(t)

\* A step to a place is that place's action.
LEMMA Arrivals ==
  ASSUME PcTyped, RegTyped, Shape, NEW t \in Threads, Step(t)
  PROVE  Arrives(t)
<1>1. ASSUME
        \/ (\E p \in Pages : Read(t, p))
        \/ (\E p \in Pages, v \in Values : Write(t, p, v))
        \/ (\E p \in Pages : Fault(t, p)) \/ (\E p \in Pages : Mprotect(t, p))
      PROVE  Arrives(t)
  BY <1>1 DEF Arrives, PcTyped, Read, history, NoPte, Write, Cached, Fault, Go,
     Mprotect, Flush, Present
<1>2. ASSUME
        \/ Lookup(t) \/ Enrol(t) \/ Recheck(t) \/ Resume(t)
      PROVE  Arrives(t)
  BY <1>2 DEF Arrives, PcTyped, Lookup, Go, memVars, history, Enrol, Recheck,
     Settled, Resume
<1>3. ASSUME
        \/ Dispatch(t) \/ LazyAlloc(t) \/ LazyShort(t) \/ LazyMap(t)
      PROVE  Arrives(t)
  BY <1>3 DEF Arrives, PcTyped, Dispatch, Return, Go, memVars, history, NoReg,
     LazyAlloc, LazyShort, LazyMap, Unmapped, Present, FreeFrame, NoPte
<1>4. ASSUME
        \/ (\E p \in Pages : Victim(t, p)) \/ Age(t) \/ DiscardLoad(t)
        \/ DiscardClaim(t)
      PROVE  Arrives(t)
  BY <1>4 DEF Arrives, PcTyped, Victim, Go, memVars, history, Age, AgeClears,
     Vic, Seen, NextVictim, NoReg, NoPte, DiscardLoad, Clean, DiscardClaim
<1>5. ASSUME
        \/ DiscardShoot(t) \/ DiscardFree(t) \/ EvictLoad(t) \/ EvictClaim(t)
      PROVE  Arrives(t)
  BY <1>5 DEF Arrives, PcTyped, DiscardShoot, Flush, Vic, Go, history, NoPte,
     DiscardFree, FreeFrame, Seen, NextVictim, NoReg, EvictLoad, EvictClaim,
     Inflight
<1>6. ASSUME
        \/ EvictLost(t) \/ EvictShoot(t) \/ EvictWrite(t) \/ EvictRestore(t)
      PROVE  Arrives(t)
  BY <1>6 DEF Arrives, PcTyped, EvictLost, FreeSlot, NextVictim, Go, history,
     NoReg, EvictShoot, EvictFlush, Flush, Vic, NoPte, EvictWrite, Seen,
     EvictRestore, InflightStill, Inflight
<1>7. ASSUME
        \/ EvictReshoot(t) \/ EvictUndo(t) \/ EvictCommit(t) \/ EvictFree(t)
      PROVE  Arrives(t)
  BY <1>7 DEF Arrives, PcTyped, EvictReshoot, Flush, Vic, Go, history, NoPte,
     EvictUndo, FreeSlot, EvictCommit, Handover, InflightStill, Inflight,
     Swapped, Seen, EvictFree, FreeFrame
<1>8. ASSUME
        \/ EvictWake(t) \/ SwapInLoad(t) \/ SwapInPublish(t) \/ SwapInRead(t)
      PROVE  Arrives(t)
  BY <1>8 DEF Arrives, PcTyped, EvictWake, Vic, NextVictim, Go, memVars,
     history, NoReg, SwapInLoad, Return, SwapInPublish, SwapInRead, FreeFrame,
     Seen
<1>9. ASSUME
        \/ SwapInInstall(t) \/ SwapInShoot(t) \/ SwapInFree(t)
      PROVE  Arrives(t)
  BY <1>9 DEF Arrives, PcTyped, SwapInInstall, SwapInWins, Present, FreeFrame,
     Return, Seen, Go, NoReg, SwapInShoot, Flush, history, NoPte, SwapInFree,
     FreeSlot
<1>10. ASSUME EndReclaim(t)
      PROVE  Arrives(t)
  <2>1. pc[t] = "reclaim" /\ pc' = [pc EXCEPT ![t] = reg[t].then]
    BY <1>10 DEF EndReclaim, Go
  <2>2. reg[t].then \in {"siLoad", "lazy"}
    BY <2>1 DEF Shape, InHand, RegTyped, Regs
  <2> QED BY <2>1, <2>2 DEF Arrives, PcTyped
<1>11. ASSUME Kill(t)
      PROVE  Arrives(t)
  BY <1>11 DEF Arrives, PcTyped, Kill, Go
<1> QED BY <1>1, <1>2, <1>3, <1>4, <1>5, <1>6, <1>7, <1>8, <1>9, <1>10, <1>11
           DEF Step, UserStep, FaultStep, EvictStep, SwapInStep

\* Where a thread was that took the action that ends an owing.
Departs(t) ==
  /\ pc[t] # "dead"
  /\ pc[t] \in OwingPcs \cup {"dcShoot"} =>
       \/ Kill(t)
       \/ DiscardShoot(t)
       \/ EvictShoot(t) \/ EvictWrite(t) \/ EvictRestore(t) \/ EvictReshoot(t)
       \/ EvictUndo(t) \/ EvictCommit(t) \/ EvictFree(t) \/ EvictWake(t)

\* Who owes a wake or a flush goes on with its eviction or discard, or is
\* killed.
LEMMA Departures ==
  ASSUME NEW t \in Threads, Step(t)
  PROVE  Departs(t)
<1>1. ASSUME
        \/ (\E p \in Pages : Read(t, p))
        \/ (\E p \in Pages, v \in Values : Write(t, p, v))
        \/ (\E p \in Pages : Fault(t, p)) \/ (\E p \in Pages : Mprotect(t, p))
        \/ Lookup(t) \/ Enrol(t) \/ Recheck(t) \/ Resume(t) \/ Dispatch(t)
        \/ LazyAlloc(t) \/ LazyShort(t) \/ LazyMap(t)
        \/ (\E p \in Pages : Victim(t, p)) \/ EndReclaim(t) \/ Age(t)
        \/ DiscardLoad(t) \/ DiscardClaim(t) \/ DiscardFree(t) \/ EvictLoad(t)
        \/ EvictClaim(t) \/ EvictLost(t) \/ SwapInLoad(t) \/ SwapInPublish(t)
        \/ SwapInRead(t) \/ SwapInInstall(t) \/ SwapInShoot(t)
        \/ SwapInFree(t)
      PROVE  Departs(t)
  BY <1>1 DEF Departs, OwingPcs, Read, history, NoPte, Write, Cached, Fault,
     Go, Mprotect, Flush, Present, Lookup, memVars, Enrol, Recheck, Settled,
     Resume, Dispatch, Return, NoReg, LazyAlloc, LazyShort, LazyMap, Unmapped,
     FreeFrame, Victim, EndReclaim, Age, AgeClears, Vic, Seen, NextVictim,
     DiscardLoad, Clean, DiscardClaim, DiscardFree, EvictLoad, EvictClaim,
     Inflight, EvictLost, FreeSlot, SwapInLoad, SwapInPublish, SwapInRead,
     SwapInInstall, SwapInWins, SwapInShoot, SwapInFree
<1>2. ASSUME DiscardShoot(t)
      PROVE  Departs(t)
  BY <1>2 DEF Departs, DiscardShoot
<1>3. ASSUME EvictShoot(t)
      PROVE  Departs(t)
  BY <1>3 DEF Departs, EvictShoot
<1>4. ASSUME EvictWrite(t)
      PROVE  Departs(t)
  BY <1>4 DEF Departs, EvictWrite
<1>5. ASSUME EvictRestore(t)
      PROVE  Departs(t)
  BY <1>5 DEF Departs, EvictRestore
<1>6. ASSUME EvictReshoot(t)
      PROVE  Departs(t)
  BY <1>6 DEF Departs, EvictReshoot
<1>7. ASSUME EvictUndo(t)
      PROVE  Departs(t)
  BY <1>7 DEF Departs, EvictUndo
<1>8. ASSUME EvictCommit(t)
      PROVE  Departs(t)
  BY <1>8 DEF Departs, EvictCommit
<1>9. ASSUME EvictFree(t)
      PROVE  Departs(t)
  BY <1>9 DEF Departs, EvictFree
<1>10. ASSUME EvictWake(t)
      PROVE  Departs(t)
  BY <1>10 DEF Departs, EvictWake
<1>11. ASSUME Kill(t)
      PROVE  Departs(t)
  BY <1>11 DEF Departs, Kill, MayKill, Alive, Mapped, Go, NoReg, NoPte
<1> QED BY <1>1, <1>2, <1>3, <1>4, <1>5, <1>6, <1>7, <1>8, <1>9, <1>10, <1>11
           DEF Step, UserStep, FaultStep, EvictStep, SwapInStep

-----------------------------------------------------------------------------
(* What a step does to memory. *)

\* The last kill of the group takes the address space down.
LastKill(t) == Kill(t) /\ \A u \in Threads \ {t} : ~Alive(u)

\* The steps that change the entry of p, and what they make of it.
EntryMoved(t, p) ==
  \/ /\ \E v \in Values : Write(t, p, v)
     /\ pc[t] = "user" /\ ~Cached(t, p, TRUE) /\ pte[p].k = "present"
     /\ pte'[p].k = "present" /\ pte'[p].dirty
     /\ pte'[p].frame = pte[p].frame
  \/ /\ Mprotect(t, p) /\ pc[t] = "user" /\ pte[p].k = "present"
     /\ pte'[p] = Present(pte[p].frame, FALSE)
  \/ /\ LazyMap(t) /\ pc[t] = "lazyMap" /\ p = at[t] /\ pte[p] = NoPte
     /\ pte'[p] = Present(reg[t].frame, FALSE)
  \/ /\ SwapInInstall(t) /\ pc[t] = "siInstall" /\ p = at[t]
     /\ pte[p] = reg[t].seen /\ pte'[p] = Present(reg[t].frame, FALSE)
  \/ /\ DiscardClaim(t) /\ pc[t] = "dcClaim" /\ p = reg[t].victim
     /\ pte[p] = reg[t].seen /\ pte'[p] = NoPte
  \/ /\ EvictClaim(t) /\ pc[t] = "evClaim" /\ p = reg[t].victim
     /\ pte[p] = reg[t].seen /\ pte'[p] = Inflight(reg[t].seen.frame)
  \/ /\ EvictRestore(t) /\ pc[t] = "evRestore" /\ p = reg[t].victim
     /\ pte[p] = Inflight(reg[t].seen.frame) /\ pte'[p] = reg[t].seen
  \/ /\ EvictCommit(t) /\ pc[t] = "evCommit" /\ p = reg[t].victim
     /\ pte[p] = Inflight(reg[t].seen.frame)
     /\ pte'[p] = Swapped(reg[t].slot)
  \/ LastKill(t) /\ pte'[p] = NoPte

\* An entry changes in the hands of whoever has read it, and is otherwise left.
LEMMA EntryMoves ==
  ASSUME Typed, Shape, NEW t \in Threads, Step(t),
         NEW q \in Pages, pte'[q] # pte[q]
  PROVE  EntryMoved(t, q)
<1>1. ASSUME
        \/ (\E p \in Pages : Read(t, p)) \/ (\E p \in Pages : Fault(t, p))
        \/ Lookup(t) \/ Enrol(t) \/ Recheck(t) \/ Resume(t) \/ Dispatch(t)
        \/ LazyAlloc(t) \/ LazyShort(t) \/ (\E p \in Pages : Victim(t, p))
        \/ EndReclaim(t) \/ DiscardLoad(t) \/ DiscardShoot(t)
        \/ DiscardFree(t) \/ EvictLoad(t) \/ EvictLost(t) \/ EvictShoot(t)
        \/ EvictWrite(t) \/ EvictReshoot(t) \/ EvictUndo(t) \/ EvictFree(t)
        \/ EvictWake(t) \/ SwapInLoad(t) \/ SwapInPublish(t) \/ SwapInRead(t)
        \/ SwapInShoot(t) \/ SwapInFree(t)
      PROVE  EntryMoved(t, q)
  BY <1>1 DEF Read, history, NoPte, Fault, Go, Lookup, memVars, Enrol, Recheck,
     Settled, Resume, Dispatch, Return, NoReg, LazyAlloc, LazyShort, Victim,
     EndReclaim, DiscardLoad, Clean, Vic, DiscardShoot, Flush, DiscardFree,
     FreeFrame, Seen, NextVictim, EvictLoad, EvictLost, FreeSlot, EvictShoot,
     EvictFlush, EvictWrite, EvictReshoot, EvictUndo, EvictFree, EvictWake,
     SwapInLoad, SwapInPublish, SwapInRead, SwapInShoot, SwapInFree
<1>2. ASSUME NEW p \in Pages, NEW v \in Values, Write(t, p, v)
      PROVE  EntryMoved(t, q)
  <2>1. CASE Cached(t, p, TRUE)
    BY <1>2, <2>1 DEF Write
  <2>2. CASE ~Cached(t, p, TRUE)
    <3>1. pte[p] \in [k : {"present"}, frame : Frames, dirty : BOOLEAN]
      BY <1>2, <2>2, PresentPte DEF Write, Typed, PteTyped
    <3>2. /\ pte' = [pte EXCEPT ![p] = [pte[p] EXCEPT !.dirty = TRUE]]
          /\ pc[t] = "user"
      BY <1>2, <2>2 DEF Write
    <3>3. /\ [pte[p] EXCEPT !.dirty = TRUE].k = "present"
          /\ [pte[p] EXCEPT !.dirty = TRUE].dirty
          /\ [pte[p] EXCEPT !.dirty = TRUE].frame = pte[p].frame
      BY <3>1
    <3>4. q = p /\ pte'[q] = [pte[q] EXCEPT !.dirty = TRUE]
      BY <3>2 DEF Typed, PteTyped
    <3> QED BY <1>2, <2>2, <3>1, <3>2, <3>3, <3>4 DEF EntryMoved
  <2> QED BY <2>1, <2>2
<1>3. ASSUME NEW p \in Pages, Mprotect(t, p)
      PROVE  EntryMoved(t, q)
  BY <1>3 DEF EntryMoved, Mprotect, Typed, PteTyped
<1>4. ASSUME LazyMap(t)
      PROVE  EntryMoved(t, q)
  BY <1>4 DEF EntryMoved, LazyMap, Unmapped, Typed, PteTyped
<1>5. ASSUME Age(t)
      PROVE  EntryMoved(t, q)
  BY <1>5 DEF Age, AgeClears, Typed, PteTyped
<1>6. ASSUME DiscardClaim(t)
      PROVE  EntryMoved(t, q)
  BY <1>6 DEF EntryMoved, DiscardClaim, Vic, Seen, Typed, PteTyped
<1>7. ASSUME EvictClaim(t)
      PROVE  EntryMoved(t, q)
  BY <1>7 DEF EntryMoved, EvictClaim, Vic, Seen, Typed, PteTyped
<1>8. ASSUME EvictRestore(t)
      PROVE  EntryMoved(t, q)
  BY <1>8 DEF EntryMoved, EvictRestore, InflightStill, Vic, Seen, Typed,
     PteTyped
<1>9. ASSUME EvictCommit(t)
      PROVE  EntryMoved(t, q)
  BY <1>9 DEF EntryMoved, EvictCommit, InflightStill, Vic, Seen, Typed,
     PteTyped
<1>10. ASSUME SwapInInstall(t)
      PROVE  EntryMoved(t, q)
  BY <1>10 DEF EntryMoved, SwapInInstall, SwapInWins, Seen, Typed, PteTyped
<1>11. ASSUME Kill(t)
      PROVE  EntryMoved(t, q)
  BY <1>11 DEF EntryMoved, LastKill, Kill
<1> QED BY <1>1, <1>2, <1>3, <1>4, <1>5, <1>6, <1>7, <1>8, <1>9, <1>10, <1>11
           DEF Step, UserStep, FaultStep, EvictStep, SwapInStep

\* What a step does to the translations.
TranslationMoved(t, u, p) ==
  \/ tlb'[u][p] = tlb[u][p] \/ tlb'[u][p] = NoPte
  \/ u = t /\ (Read(t, p) \/ \E v \in Values : Write(t, p, v))

\* A translation is cached by an access of the thread itself.
LEMMA TranslationMoves ==
  ASSUME Typed, NEW t \in Threads, Step(t),
         NEW u \in Threads, NEW q \in Pages
  PROVE  TranslationMoved(t, u, q)
<1>1. ASSUME
        \/ Lookup(t) \/ Enrol(t) \/ Recheck(t) \/ Resume(t) \/ Dispatch(t)
        \/ LazyAlloc(t) \/ LazyShort(t) \/ LazyMap(t)
        \/ (\E p \in Pages : Victim(t, p)) \/ EndReclaim(t) \/ DiscardLoad(t)
        \/ DiscardClaim(t) \/ DiscardFree(t) \/ EvictLoad(t) \/ EvictClaim(t)
        \/ EvictLost(t) \/ EvictWrite(t) \/ EvictRestore(t) \/ EvictUndo(t)
        \/ EvictCommit(t) \/ EvictFree(t) \/ EvictWake(t) \/ SwapInLoad(t)
        \/ SwapInPublish(t) \/ SwapInRead(t) \/ SwapInInstall(t)
        \/ SwapInFree(t)
      PROVE  TranslationMoved(t, u, q)
  BY <1>1 DEF TranslationMoved, Lookup, Go, memVars, history, Enrol, Recheck,
     Settled, Resume, Dispatch, Return, NoReg, LazyAlloc, LazyShort, LazyMap,
     Unmapped, Present, FreeFrame, NoPte, Victim, EndReclaim, DiscardLoad,
     Clean, Vic, DiscardClaim, Seen, DiscardFree, NextVictim, EvictLoad,
     EvictClaim, Inflight, EvictLost, FreeSlot, EvictWrite, EvictRestore,
     InflightStill, EvictUndo, EvictCommit, Handover, Swapped, EvictFree,
     EvictWake, SwapInLoad, SwapInPublish, SwapInRead, SwapInInstall,
     SwapInWins, SwapInFree
<1>2. ASSUME NEW p \in Pages, Read(t, p)
      PROVE  TranslationMoved(t, u, q)
  BY <1>2 DEF TranslationMoved, Typed, TlbTyped, Read, Flush
<1>3. ASSUME NEW p \in Pages, NEW v \in Values, Write(t, p, v)
      PROVE  TranslationMoved(t, u, q)
  BY <1>3 DEF TranslationMoved, Typed, TlbTyped, Write, Flush
<1>4. ASSUME NEW p \in Pages, Fault(t, p)
      PROVE  TranslationMoved(t, u, q)
  BY <1>4 DEF TranslationMoved, Typed, TlbTyped, Fault, Flush
<1>5. ASSUME NEW p \in Pages, Mprotect(t, p)
      PROVE  TranslationMoved(t, u, q)
  BY <1>5 DEF TranslationMoved, Typed, TlbTyped, Mprotect, Flush
<1>6. ASSUME Age(t)
      PROVE  TranslationMoved(t, u, q)
  BY <1>6 DEF TranslationMoved, Typed, TlbTyped, Age, AgeClears
<1>7. ASSUME DiscardShoot(t)
      PROVE  TranslationMoved(t, u, q)
  BY <1>7 DEF TranslationMoved, Typed, TlbTyped, DiscardShoot, Flush
<1>8. ASSUME EvictShoot(t)
      PROVE  TranslationMoved(t, u, q)
  BY <1>8 DEF TranslationMoved, Typed, TlbTyped, EvictShoot, Flush, EvictFlush
<1>9. ASSUME EvictReshoot(t)
      PROVE  TranslationMoved(t, u, q)
  BY <1>9 DEF TranslationMoved, Typed, TlbTyped, EvictReshoot, Flush
<1>10. ASSUME SwapInShoot(t)
      PROVE  TranslationMoved(t, u, q)
  BY <1>10 DEF TranslationMoved, Typed, TlbTyped, SwapInShoot, Flush
<1>11. ASSUME Kill(t)
      PROVE  TranslationMoved(t, u, q)
  BY <1>11 DEF TranslationMoved, Typed, TlbTyped, Kill, Flush
<1> QED BY <1>1, <1>2, <1>3, <1>4, <1>5, <1>6, <1>7, <1>8, <1>9, <1>10, <1>11
           DEF Step, UserStep, FaultStep, EvictStep, SwapInStep

\* What a step of t leaves of a frame in use.
FrameKept(t, f) ==
  \/ data'[f] = data[f] \/ f = HeldFrame[t] \/ LastKill(t)
  \/ \E p \in Pages, v \in Values : Write(t, p, v) /\ f = PageFrame[p]

\* A frame in use changes in the hands of its owner, or by a write to its page.
LEMMA FramesKept ==
  ASSUME Typed, DataTyped, Shape, DirtyNamed, NEW t \in Threads, Step(t),
         NEW f \in Frames \cap used
  PROVE  FrameKept(t, f)
<1>1. ASSUME
        \/ (\E p \in Pages : Read(t, p)) \/ (\E p \in Pages : Fault(t, p))
        \/ (\E p \in Pages : Mprotect(t, p)) \/ Lookup(t) \/ Enrol(t)
        \/ Recheck(t) \/ Resume(t) \/ Dispatch(t) \/ LazyShort(t)
        \/ (\E p \in Pages : Victim(t, p)) \/ EndReclaim(t) \/ Age(t)
        \/ DiscardLoad(t) \/ DiscardClaim(t) \/ DiscardShoot(t)
        \/ EvictLoad(t) \/ EvictClaim(t) \/ EvictLost(t) \/ EvictShoot(t)
        \/ EvictWrite(t) \/ EvictRestore(t) \/ EvictReshoot(t) \/ EvictUndo(t)
        \/ EvictCommit(t) \/ EvictWake(t) \/ SwapInLoad(t) \/ SwapInPublish(t)
        \/ SwapInShoot(t) \/ SwapInFree(t)
      PROVE  FrameKept(t, f)
  BY <1>1 DEF FrameKept, Read, history, NoPte, Fault, Go, Mprotect, Flush,
     Present, Lookup, memVars, Enrol, Recheck, Settled, Resume, Dispatch,
     Return, NoReg, LazyShort, Victim, EndReclaim, Age, AgeClears, Vic, Seen,
     NextVictim, DiscardLoad, Clean, DiscardClaim, DiscardShoot, EvictLoad,
     EvictClaim, Inflight, EvictLost, FreeSlot, EvictShoot, EvictFlush,
     EvictWrite, EvictRestore, InflightStill, EvictReshoot, EvictUndo,
     EvictCommit, Handover, Swapped, EvictWake, SwapInLoad, SwapInPublish,
     SwapInShoot, SwapInFree
<1>2. ASSUME NEW p \in Pages, NEW v \in Values, Write(t, p, v)
      PROVE  FrameKept(t, f)
  <2>1. CASE Cached(t, p, TRUE)
    <3>1. data' = [data EXCEPT ![tlb[t][p].frame] = v]
      BY <1>2, <2>1 DEF Write
    <3>2. tlb[t][p].frame = PageFrame[p]
      BY <2>1 DEF Cached, DirtyNamed, PageFrame
    <3> QED BY <1>2, <3>1, <3>2 DEF FrameKept, DataTyped
  <2>2. CASE ~Cached(t, p, TRUE)
    <3>1. pte[p] \in [k : {"present"}, frame : Frames, dirty : BOOLEAN]
      BY <1>2, <2>2, PresentPte DEF Write, Typed, PteTyped
    <3>2. [pte[p] EXCEPT !.dirty = TRUE].frame = PageFrame[p]
      BY <3>1 DEF PageFrame, FrameIn
    <3>3. data' = [data EXCEPT ![PageFrame[p]] = v]
      BY <1>2, <2>2, <3>2 DEF Write
    <3> QED BY <1>2, <3>3 DEF FrameKept, DataTyped
  <2> QED BY <2>1, <2>2
<1>3. ASSUME LazyAlloc(t)
      PROVE  FrameKept(t, f)
  BY <1>3 DEF FrameKept, LazyAlloc, DataTyped
<1>4. ASSUME LazyMap(t)
      PROVE  FrameKept(t, f)
  BY <1>4 DEF FrameKept, LazyMap, FreeFrame, HeldFrame, FrameFor, DataTyped
<1>5. ASSUME DiscardFree(t)
      PROVE  FrameKept(t, f)
  BY <1>5 DEF FrameKept, DiscardFree, Seen, FreeFrame, HeldFrame, FrameFor,
     DataTyped
<1>6. ASSUME EvictFree(t)
      PROVE  FrameKept(t, f)
  BY <1>6 DEF FrameKept, EvictFree, Seen, FreeFrame, HeldFrame, FrameFor,
     DataTyped
<1>7. ASSUME SwapInRead(t)
      PROVE  FrameKept(t, f)
  BY <1>7 DEF FrameKept, SwapInRead, FreeFrame, HeldFrame, FrameFor, DataTyped
<1>8. ASSUME SwapInInstall(t)
      PROVE  FrameKept(t, f)
  BY <1>8 DEF FrameKept, SwapInInstall, FreeFrame, HeldFrame, FrameFor,
     DataTyped
<1>9. ASSUME Kill(t)
      PROVE  FrameKept(t, f)
  <2>1. CASE LastKill(t)
    BY <2>1 DEF FrameKept
  <2>2. CASE ~LastKill(t)
    <3>1. data'[f] = data[f] \/ f \in {chan[t].slot, chan[t].frame} \ {None}
      BY <1>9, <2>2 DEF Kill, LastKill
    <3>2. chan[t].slot # f
      BY DistinctAssumption DEF Typed, ChanTyped
    <3>3. chan[t].frame = f => HeldFrame[t] = f
      BY DistinctAssumption DEF Shape, InHand, HeldFrame, FrameFor
    <3> QED BY <3>1, <3>2, <3>3 DEF FrameKept
  <2> QED BY <2>1, <2>2
<1> QED BY <1>1, <1>2, <1>3, <1>4, <1>5, <1>6, <1>7, <1>8, <1>9 DEF Step,
           UserStep, FaultStep, EvictStep, SwapInStep

\* What a step of t leaves of a slot.
SlotKept(t, s) ==
  \/ /\ gen'[s] = gen[s] /\ (s \in used => s \in used')
     /\ disk'[s] = disk[s] \/ (EvictWrite(t) /\ s = HeldSlot[t])
  \/ /\ gen'[s] = gen[s] + 1 /\ s \in used /\ s \notin used'
     /\ s = HeldSlot[t] \/ LastKill(t)

\* A slot is filled by the thread that has it, and its generation moves when
\* it is given back.
LEMMA SlotsKept ==
  ASSUME Typed, DiskTyped, Shape, OwnInv, NEW t \in Threads, Step(t),
         NEW s \in Slots
  PROVE  SlotKept(t, s)
<1>1. ASSUME
        \/ (\E p \in Pages : Read(t, p))
        \/ (\E p \in Pages, v \in Values : Write(t, p, v))
        \/ (\E p \in Pages : Fault(t, p)) \/ (\E p \in Pages : Mprotect(t, p))
        \/ Lookup(t) \/ Enrol(t) \/ Recheck(t) \/ Resume(t) \/ Dispatch(t)
        \/ LazyShort(t) \/ (\E p \in Pages : Victim(t, p)) \/ EndReclaim(t)
        \/ Age(t) \/ DiscardLoad(t) \/ DiscardClaim(t) \/ DiscardShoot(t)
        \/ EvictClaim(t) \/ EvictShoot(t) \/ EvictRestore(t)
        \/ EvictReshoot(t) \/ EvictWake(t) \/ SwapInPublish(t)
        \/ SwapInShoot(t)
      PROVE  SlotKept(t, s)
  BY <1>1 DEF SlotKept, Read, history, NoPte, Write, Cached, Fault, Go,
     Mprotect, Flush, Present, Lookup, memVars, Enrol, Recheck, Settled,
     Resume, Dispatch, Return, NoReg, LazyShort, Victim, EndReclaim, Age,
     AgeClears, Vic, Seen, NextVictim, DiscardLoad, Clean, DiscardClaim,
     DiscardShoot, EvictClaim, Inflight, EvictShoot, EvictFlush, EvictRestore,
     InflightStill, EvictReshoot, EvictWake, SwapInPublish, SwapInShoot
<1>2. ASSUME LazyAlloc(t)
      PROVE  SlotKept(t, s)
  BY <1>2 DEF SlotKept, LazyAlloc
<1>3. ASSUME LazyMap(t)
      PROVE  SlotKept(t, s)
  <2>1. /\ UNCHANGED <<disk, gen>>
        /\ UNCHANGED used \/ used' = used \ {reg[t].frame}
    BY <1>3 DEF LazyMap, FreeFrame, Seen
  <2>2. reg[t].frame # s
    BY <1>3, SeenFrame, DistinctAssumption DEF LazyMap, Shape, InHand,
       EvictPcs, OwingPcs, SwapInPcs
  <2> QED BY <2>1, <2>2 DEF SlotKept
<1>4. ASSUME DiscardFree(t)
      PROVE  SlotKept(t, s)
  <2>1. /\ UNCHANGED <<disk, gen>>
        /\ UNCHANGED used \/ used' = used \ {reg[t].seen.frame}
    BY <1>4 DEF DiscardFree, FreeFrame, Seen
  <2>2. reg[t].seen.frame # s
    BY <1>4, SeenFrame, DistinctAssumption DEF DiscardFree, Shape, InHand,
       EvictPcs, OwingPcs, SwapInPcs
  <2> QED BY <2>1, <2>2 DEF SlotKept
<1>5. ASSUME EvictLoad(t)
      PROVE  SlotKept(t, s)
  BY <1>5 DEF SlotKept, EvictLoad
<1>6. ASSUME EvictLost(t)
      PROVE  SlotKept(t, s)
  <2>1. /\ FreeSlot(reg[t].slot) /\ pc[t] = "evClaim"
    BY <1>6 DEF EvictLost
  <2>2. HeldSlot[t] = reg[t].slot
    BY <2>1 DEF HeldSlot, SlotFor
  <2>3. reg[t].slot \in Slots /\ reg[t].slot \in used
    BY <2>1, <2>2, HeldTypes, SeenSlot, DistinctAssumption DEF Shape, InHand,
       EvictPcs, OwingPcs, SwapInPcs, OwnInv, OneSlot, One
  <2> QED BY <2>1, <2>2, <2>3 DEF SlotKept, FreeSlot, Typed, GenTyped,
             DiskTyped
<1>7. ASSUME EvictWrite(t)
      PROVE  SlotKept(t, s)
  BY <1>7 DEF SlotKept, EvictWrite, HeldSlot, SlotFor, DiskTyped
<1>8. ASSUME EvictUndo(t)
      PROVE  SlotKept(t, s)
  <2>1. /\ FreeSlot(reg[t].slot) /\ pc[t] = "evUndo"
    BY <1>8 DEF EvictUndo
  <2>2. HeldSlot[t] = reg[t].slot
    BY <2>1 DEF HeldSlot, SlotFor
  <2>3. reg[t].slot \in Slots /\ reg[t].slot \in used
    BY <2>1, <2>2, HeldTypes, SeenSlot, DistinctAssumption DEF Shape, InHand,
       EvictPcs, OwingPcs, SwapInPcs, OwnInv, OneSlot, One
  <2> QED BY <2>1, <2>2, <2>3 DEF SlotKept, FreeSlot, Typed, GenTyped,
             DiskTyped
<1>9. ASSUME EvictCommit(t)
      PROVE  SlotKept(t, s)
  <2>1. CASE InflightStill(t)
    BY <1>9, <2>1 DEF EvictCommit, SlotKept
  <2>2. CASE ~InflightStill(t)
  <3>1. /\ FreeSlot(reg[t].slot) /\ pc[t] = "evCommit"
      BY <1>9, <2>2 DEF EvictCommit
    <3>2. HeldSlot[t] = reg[t].slot
      BY <3>1 DEF HeldSlot, SlotFor
    <3>3. reg[t].slot \in Slots /\ reg[t].slot \in used
      BY <3>1, <3>2, HeldTypes, SeenSlot, DistinctAssumption DEF Shape, InHand,
         EvictPcs, OwingPcs, SwapInPcs, OwnInv, OneSlot, One
    <3> QED BY <3>1, <3>2, <3>3 DEF SlotKept, FreeSlot, Typed, GenTyped,
               DiskTyped
  <2> QED BY <2>1, <2>2
<1>10. ASSUME EvictFree(t)
      PROVE  SlotKept(t, s)
  <2>1. /\ UNCHANGED <<disk, gen>>
        /\ UNCHANGED used \/ used' = used \ {reg[t].seen.frame}
    BY <1>10 DEF EvictFree, FreeFrame, Seen
  <2>2. reg[t].seen.frame # s
    BY <1>10, SeenFrame, DistinctAssumption DEF EvictFree, Shape, InHand,
       EvictPcs, OwingPcs, SwapInPcs
  <2> QED BY <2>1, <2>2 DEF SlotKept
<1>11. ASSUME SwapInLoad(t)
      PROVE  SlotKept(t, s)
  BY <1>11 DEF SlotKept, SwapInLoad
<1>12. ASSUME SwapInRead(t)
      PROVE  SlotKept(t, s)
  <2>1. /\ UNCHANGED <<disk, gen>>
        /\ UNCHANGED used \/ used' = used \ {reg[t].frame}
    BY <1>12 DEF SwapInRead, FreeFrame, Seen
  <2>2. reg[t].frame # s
    BY <1>12, SeenFrame, DistinctAssumption DEF SwapInRead, Shape, InHand,
       EvictPcs, OwingPcs, SwapInPcs
  <2> QED BY <2>1, <2>2 DEF SlotKept
<1>13. ASSUME SwapInInstall(t)
      PROVE  SlotKept(t, s)
  <2>1. /\ UNCHANGED <<disk, gen>>
        /\ UNCHANGED used \/ used' = used \ {reg[t].frame}
    BY <1>13 DEF SwapInInstall, FreeFrame, Seen
  <2>2. reg[t].frame # s
    BY <1>13, SeenFrame, DistinctAssumption DEF SwapInInstall, Shape, InHand,
       EvictPcs, OwingPcs, SwapInPcs
  <2> QED BY <2>1, <2>2 DEF SlotKept
<1>14. ASSUME SwapInFree(t)
      PROVE  SlotKept(t, s)
  <2>1. /\ FreeSlot(reg[t].seen.slot) /\ pc[t] = "siFree"
    BY <1>14 DEF SwapInFree, Seen
  <2>2. HeldSlot[t] = reg[t].seen.slot
    BY <2>1 DEF HeldSlot, SlotFor
  <2>3. reg[t].seen.slot \in Slots /\ reg[t].seen.slot \in used
    BY <2>1, <2>2, HeldTypes, SeenSlot, DistinctAssumption DEF Shape, InHand,
       EvictPcs, OwingPcs, SwapInPcs, OwnInv, OneSlot, One
  <2> QED BY <2>1, <2>2, <2>3 DEF SlotKept, FreeSlot, Typed, GenTyped,
             DiskTyped
<1>15. ASSUME Kill(t)
      PROVE  SlotKept(t, s)
  <2> DEFINE Freed == ({chan[t].slot, chan[t].frame} \ {None})
                         \cup (IF \A u \in Threads \ {t} : ~Alive(u)
                                 THEN Mapped ELSE {})
  <2>1. gen' = [x \in Slots |-> IF x \in Freed THEN gen[x] + 1 ELSE gen[x]]
    BY <1>15 DEF Kill
  <2>2. CASE s \in Freed
    <3>1. gen'[s] = gen[s] + 1 /\ s \notin used'
      BY <1>15, <2>2 DEF Kill
    <3>2. chan[t].frame # s
      BY DistinctAssumption DEF Typed, ChanTyped
    <3>3. CASE chan[t].slot = s
      <4>1. HeldSlot[t] = s
        BY <3>3, DistinctAssumption DEF Shape, InHand, HeldSlot, SlotFor,
           OwingPcs
      <4> QED BY <3>1, <4>1, DistinctAssumption DEF SlotKept, OwnInv, OneSlot,
                 One
    <3>4. CASE chan[t].slot # s
      <4>1. (\A u \in Threads \ {t} : ~Alive(u)) /\ s \in Mapped
        BY <2>2, <3>2, <3>4
      <4>2. PICK p \in Pages : pte[p].k = "swapped" /\ pte[p].slot = s
        <5>1. ASSUME NEW p \in Pages, pte[p].k \in {"present", "inflight"}
              PROVE  pte[p].frame \in Frames
          BY <5>1, PresentPte, InflightPte DEF Typed, PteTyped
        <5> QED BY <4>1, <5>1, DistinctAssumption DEF Mapped
      <4>3. PageSlot[p] = s
        BY <4>2 DEF PageSlot, SlotIn
      <4> QED BY <1>15, <3>1, <4>1, <4>3, DistinctAssumption DEF SlotKept,
                 LastKill, OwnInv, OneSlot, One
    <3> QED BY <3>3, <3>4
  <2>3. CASE s \notin Freed
    BY <1>15, <2>3 DEF Kill, SlotKept
  <2> QED BY <2>2, <2>3
<1> QED BY <1>1, <1>2, <1>3, <1>4, <1>5, <1>6, <1>7, <1>8, <1>9, <1>10, <1>11,
           <1>12, <1>13, <1>14, <1>15 DEF Step, UserStep, FaultStep, EvictStep,
           SwapInStep

\* A write that finds no good translation goes through the entry, and sets its
\* dirty bit.
LEMMA WriteThroughEntry ==
  ASSUME Typed, NEW t \in Threads, NEW p \in Pages, NEW v \in Values,
         Write(t, p, v), ~Cached(t, p, TRUE)
  PROVE  /\ pte[p].k = "present" /\ pte'[p].k = "present" /\ pte'[p].dirty
         /\ pte'[p].frame = pte[p].frame /\ pte'[p].frame \in Frames
         /\ tlb'[t][p] = pte'[p]
<1> DEFINE e == [pte[p] EXCEPT !.dirty = TRUE]
<1>1. /\ pte[p].k = "present" /\ pte' = [pte EXCEPT ![p] = e]
      /\ tlb' = [tlb EXCEPT ![t][p] = e]
      /\ data' = [data EXCEPT ![e.frame] = v]
  BY DEF Write
<1>2. pte[p] \in [k : {"present"}, frame : Frames, dirty : BOOLEAN]
  BY <1>1, PresentPte DEF Typed, PteTyped
<1>3. /\ e.k = "present" /\ e.dirty /\ e.frame = pte[p].frame
      /\ e.frame \in Frames
  BY <1>2
<1> HIDE DEF e
<1>4. pte'[p] = e
  BY <1>1 DEF Typed, PteTyped
<1>5. tlb'[t][p] = e
  BY <1>1 DEF Typed, TlbTyped
<1> QED BY <1>1, <1>3, <1>4, <1>5

\* It leaves its value in the entry's frame.
LEMMA WriteToEntry ==
  ASSUME Typed, DataTyped, NEW t \in Threads, NEW p \in Pages,
         NEW v \in Values,
         Write(t, p, v), ~Cached(t, p, TRUE)
  PROVE  data'[pte'[p].frame] = v
<1> DEFINE e == [pte[p] EXCEPT !.dirty = TRUE]
<1>1. /\ pte[p].k = "present" /\ pte' = [pte EXCEPT ![p] = e]
      /\ data' = [data EXCEPT ![e.frame] = v]
  BY DEF Write
<1>2. pte[p] \in [k : {"present"}, frame : Frames, dirty : BOOLEAN]
  BY <1>1, PresentPte DEF Typed, PteTyped
<1>3. e.frame \in Frames
  BY <1>2
<1> HIDE DEF e
<1> QED BY <1>1, <1>3 DEF Typed, PteTyped, DataTyped

\* What a step does to the history of p.
HistoryMoved(t, p) ==
  /\ last'[p] = last[p] \/ \E v \in Values : Write(t, p, v) /\ last'[p] = v
  /\ p \in reused => p \in reused'
  /\ p \in orphaned => p \in orphaned'

\* Only a write changes the last value, and the other histories grow.
LEMMA HistoryMoves ==
  ASSUME HistoryTyped, NEW t \in Threads, Step(t), NEW q \in Pages
  PROVE  HistoryMoved(t, q)
<1>1. ASSUME
        \/ (\E p \in Pages : Read(t, p)) \/ (\E p \in Pages : Fault(t, p))
        \/ Lookup(t) \/ Enrol(t) \/ Recheck(t) \/ Resume(t) \/ Dispatch(t)
        \/ LazyAlloc(t) \/ LazyShort(t) \/ LazyMap(t)
        \/ (\E p \in Pages : Victim(t, p)) \/ EndReclaim(t) \/ Age(t)
        \/ DiscardLoad(t) \/ DiscardClaim(t) \/ DiscardShoot(t)
        \/ DiscardFree(t) \/ EvictLoad(t) \/ EvictClaim(t) \/ EvictLost(t)
        \/ EvictShoot(t) \/ EvictWrite(t) \/ EvictRestore(t)
        \/ EvictReshoot(t) \/ EvictUndo(t) \/ EvictCommit(t) \/ EvictFree(t)
        \/ EvictWake(t) \/ SwapInLoad(t) \/ SwapInPublish(t) \/ SwapInRead(t)
        \/ SwapInShoot(t) \/ SwapInFree(t)
      PROVE  HistoryMoved(t, q)
  BY <1>1 DEF HistoryMoved, Read, history, NoPte, Fault, Go, Lookup, memVars,
     Enrol, Recheck, Settled, Resume, Dispatch, Return, NoReg, LazyAlloc,
     LazyShort, LazyMap, Unmapped, Present, FreeFrame, Victim, EndReclaim, Age,
     AgeClears, Vic, Seen, NextVictim, DiscardLoad, Clean, DiscardClaim,
     DiscardShoot, Flush, DiscardFree, EvictLoad, EvictClaim, Inflight,
     EvictLost, FreeSlot, EvictShoot, EvictFlush, EvictWrite, EvictRestore,
     InflightStill, EvictReshoot, EvictUndo, EvictCommit, Handover, Swapped,
     EvictFree, EvictWake, SwapInLoad, SwapInPublish, SwapInRead, SwapInShoot,
     SwapInFree
<1>2. ASSUME NEW p \in Pages, NEW v \in Values, Write(t, p, v)
      PROVE  HistoryMoved(t, q)
  BY <1>2 DEF HistoryMoved, HistoryTyped, Write
<1>3. ASSUME NEW p \in Pages, Mprotect(t, p)
      PROVE  HistoryMoved(t, q)
  BY <1>3 DEF HistoryMoved, Mprotect
<1>4. ASSUME SwapInInstall(t)
      PROVE  HistoryMoved(t, q)
  BY <1>4 DEF HistoryMoved, SwapInInstall
<1>5. ASSUME Kill(t)
      PROVE  HistoryMoved(t, q)
  BY <1>5 DEF HistoryMoved, Kill
<1> QED BY <1>1, <1>2, <1>3, <1>4, <1>5 DEF Step, UserStep, FaultStep,
           EvictStep, SwapInStep

-----------------------------------------------------------------------------
(* Types. *)

\* An entry is only ever replaced by an entry: what is restored, committed or
\* installed is made of the frame and the slot that the thread has in hand.
LEMMA PteTypedStep ==
  ASSUME RegTyped, AtTyped, Shape, GenTyped, PteTyped, NEW t \in Threads,
         Step(t)
  PROVE  PteTyped'
<1>1. ASSUME
        \/ (\E p \in Pages : Read(t, p)) \/ (\E p \in Pages : Fault(t, p))
        \/ Lookup(t) \/ Enrol(t) \/ Recheck(t) \/ Resume(t) \/ Dispatch(t)
        \/ LazyAlloc(t) \/ LazyShort(t) \/ (\E p \in Pages : Victim(t, p))
        \/ EndReclaim(t) \/ DiscardLoad(t) \/ DiscardShoot(t)
        \/ DiscardFree(t) \/ EvictLoad(t) \/ EvictLost(t) \/ EvictShoot(t)
        \/ EvictWrite(t) \/ EvictReshoot(t) \/ EvictUndo(t) \/ EvictFree(t)
        \/ EvictWake(t) \/ SwapInLoad(t) \/ SwapInPublish(t) \/ SwapInRead(t)
        \/ SwapInShoot(t) \/ SwapInFree(t)
      PROVE  PteTyped'
  BY <1>1 DEF PteTyped, Read, history, NoPte, Fault, Go, Lookup, memVars,
     Enrol, Recheck, Settled, Resume, Dispatch, Return, NoReg, LazyAlloc,
     LazyShort, Victim, EndReclaim, DiscardLoad, Clean, Vic, DiscardShoot,
     Flush, DiscardFree, FreeFrame, Seen, NextVictim, EvictLoad, EvictLost,
     FreeSlot, EvictShoot, EvictFlush, EvictWrite, EvictReshoot, EvictUndo,
     EvictFree, EvictWake, SwapInLoad, SwapInPublish, SwapInRead, SwapInShoot,
     SwapInFree
<1>2. ASSUME NEW p \in Pages, NEW v \in Values, Write(t, p, v)
      PROVE  PteTyped'
  <2>1. CASE Cached(t, p, TRUE)
    BY <1>2, <2>1 DEF Write, PteTyped
  <2>2. CASE ~Cached(t, p, TRUE)
    <3>1. pte[p] \in [k : {"present"}, frame : Frames, dirty : BOOLEAN]
      BY <1>2, <2>2, PresentPte DEF Write, PteTyped
    <3>2. [pte[p] EXCEPT !.dirty = TRUE] \in Ptes
      BY <3>1 DEF Ptes
    <3>3. pte' = [pte EXCEPT ![p] = [pte[p] EXCEPT !.dirty = TRUE]]
      BY <1>2, <2>2 DEF Write
    <3> QED BY <3>2, <3>3 DEF PteTyped
  <2> QED BY <2>1, <2>2
<1>3. ASSUME NEW p \in Pages, Mprotect(t, p)
      PROVE  PteTyped'
  BY <1>3, DistinctAssumption, SwapAssumption DEF RegTyped, AtTyped, GenTyped,
     PteTyped, Regs, Ptes, NoPte, Shape, InHand, EvictPcs, OwingPcs,
     DiscardPcs, SwapInPcs, FaultPcs, Mprotect, Flush, Present
<1>4. ASSUME LazyMap(t)
      PROVE  PteTyped'
  <2>1. reg[t].frame \in Frames
    BY <1>4 DEF LazyMap, Shape, InHand
  <2>2. CASE Unmapped(at[t])
    <3>1. pte' = [pte EXCEPT ![at[t]] = Present(reg[t].frame, FALSE)]
      BY <1>4, <2>2 DEF LazyMap
    <3> QED BY <2>1, <3>1 DEF PteTyped, Present, Ptes
  <2>3. CASE ~Unmapped(at[t])
    BY <1>4, <2>3 DEF LazyMap, PteTyped
  <2> QED BY <2>2, <2>3
<1>5. ASSUME Age(t)
      PROVE  PteTyped'
  BY <1>5, DistinctAssumption, SwapAssumption DEF RegTyped, AtTyped, GenTyped,
     PteTyped, Regs, Ptes, NoPte, Shape, InHand, EvictPcs, OwingPcs,
     DiscardPcs, SwapInPcs, FaultPcs, Age, AgeClears, Vic, Seen, NextVictim,
     Go, history, NoReg
<1>6. ASSUME DiscardClaim(t)
      PROVE  PteTyped'
  BY <1>6, DistinctAssumption, SwapAssumption DEF RegTyped, AtTyped, GenTyped,
     PteTyped, Regs, Ptes, NoPte, Shape, InHand, EvictPcs, OwingPcs,
     DiscardPcs, SwapInPcs, FaultPcs, DiscardClaim, Vic, Seen, Go, history
<1>7. ASSUME EvictClaim(t)
      PROVE  PteTyped'
  BY <1>7, DistinctAssumption, SwapAssumption DEF RegTyped, AtTyped, GenTyped,
     PteTyped, Regs, Ptes, NoPte, Shape, InHand, EvictPcs, OwingPcs,
     DiscardPcs, SwapInPcs, FaultPcs, EvictClaim, Vic, Seen, Inflight, Go,
     history
<1>8. ASSUME EvictRestore(t)
      PROVE  PteTyped'
  <2>1. reg[t].seen \in Ptes
    BY DEF RegTyped, Regs
  <2>2. pte' = pte \/ pte' = [pte EXCEPT ![reg[t].victim] = reg[t].seen]
    BY <1>8 DEF EvictRestore, Vic, Seen
  <2> QED BY <2>1, <2>2 DEF PteTyped
<1>9. ASSUME EvictCommit(t)
      PROVE  PteTyped'
  <2>1. \/ pte' = pte
        \/ pte' = [pte EXCEPT ![reg[t].victim] = Swapped(reg[t].slot)]
    BY <1>9 DEF EvictCommit, Vic
  <2>2. reg[t].slot \in Slots /\ Swapped(reg[t].slot) \in Ptes
    BY <1>9 DEF EvictCommit, Shape, InHand, EvictPcs, OwingPcs, GenTyped,
       Swapped, Ptes
  <2> QED BY <2>1, <2>2 DEF PteTyped
<1>10. ASSUME SwapInInstall(t)
      PROVE  PteTyped'
  <2>1. reg[t].frame \in Frames
    BY <1>10 DEF SwapInInstall, Shape, InHand, SwapInPcs
  <2>2. CASE SwapInWins(t)
    <3>1. pte' = [pte EXCEPT ![at[t]] = Present(reg[t].frame, FALSE)]
      BY <1>10, <2>2 DEF SwapInInstall
    <3> QED BY <2>1, <3>1 DEF PteTyped, Present, Ptes
  <2>3. CASE ~SwapInWins(t)
    BY <1>10, <2>3 DEF SwapInInstall, PteTyped
  <2> QED BY <2>2, <2>3
<1>11. ASSUME Kill(t)
      PROVE  PteTyped'
  BY <1>11, DistinctAssumption, SwapAssumption DEF RegTyped, AtTyped, GenTyped,
     PteTyped, Regs, Ptes, NoPte, Shape, InHand, EvictPcs, OwingPcs,
     DiscardPcs, SwapInPcs, FaultPcs, Kill, MayKill, Alive, Mapped, Go, NoReg
<1> QED BY <1>1, <1>2, <1>3, <1>4, <1>5, <1>6, <1>7, <1>8, <1>9, <1>10, <1>11
           DEF Step, UserStep, FaultStep, EvictStep, SwapInStep

\* Only a present entry is ever cached.
LEMMA TlbTypedStep ==
  ASSUME PteTyped, RegTyped, TlbTyped, NEW t \in Threads, Step(t)
  PROVE  TlbTyped'
<1>1. ASSUME
        \/ Lookup(t) \/ Enrol(t) \/ Recheck(t) \/ Resume(t) \/ Dispatch(t)
        \/ LazyAlloc(t) \/ LazyShort(t) \/ LazyMap(t)
        \/ (\E p \in Pages : Victim(t, p)) \/ EndReclaim(t) \/ DiscardLoad(t)
        \/ DiscardClaim(t) \/ DiscardFree(t) \/ EvictLoad(t) \/ EvictClaim(t)
        \/ EvictLost(t) \/ EvictWrite(t) \/ EvictRestore(t) \/ EvictUndo(t)
        \/ EvictCommit(t) \/ EvictFree(t) \/ EvictWake(t) \/ SwapInLoad(t)
        \/ SwapInPublish(t) \/ SwapInRead(t) \/ SwapInInstall(t)
        \/ SwapInFree(t)
      PROVE  TlbTyped'
  BY <1>1 DEF TlbTyped, Lookup, Go, memVars, history, Enrol, Recheck, Settled,
     Resume, Dispatch, Return, NoReg, LazyAlloc, LazyShort, LazyMap, Unmapped,
     Present, FreeFrame, NoPte, Victim, EndReclaim, DiscardLoad, Clean, Vic,
     DiscardClaim, Seen, DiscardFree, NextVictim, EvictLoad, EvictClaim,
     Inflight, EvictLost, FreeSlot, EvictWrite, EvictRestore, InflightStill,
     EvictUndo, EvictCommit, Handover, Swapped, EvictFree, EvictWake,
     SwapInLoad, SwapInPublish, SwapInRead, SwapInInstall, SwapInWins,
     SwapInFree
<1>2. ASSUME NEW p \in Pages, Read(t, p)
      PROVE  TlbTyped'
  BY <1>2, DistinctAssumption, SwapAssumption DEF PteTyped, RegTyped, TlbTyped,
     Regs, Ptes, NoPte, Cacheable, Read, history
<1>3. ASSUME NEW p \in Pages, NEW v \in Values, Write(t, p, v)
      PROVE  TlbTyped'
  <2>1. CASE Cached(t, p, TRUE)
    BY <1>3, <2>1 DEF Write, TlbTyped
  <2>2. CASE ~Cached(t, p, TRUE)
    <3>1. pte[p] \in [k : {"present"}, frame : Frames, dirty : BOOLEAN]
      BY <1>3, <2>2, PresentPte DEF Write, PteTyped
    <3>2. [pte[p] EXCEPT !.dirty = TRUE] \in Cacheable
      BY <3>1 DEF Cacheable
    <3>3. tlb' = [tlb EXCEPT ![t][p] = [pte[p] EXCEPT !.dirty = TRUE]]
      BY <1>3, <2>2 DEF Write
    <3> QED BY <3>2, <3>3 DEF TlbTyped
  <2> QED BY <2>1, <2>2
<1>4. ASSUME NEW p \in Pages, Fault(t, p)
      PROVE  TlbTyped'
  BY <1>4, DistinctAssumption, SwapAssumption DEF PteTyped, RegTyped, TlbTyped,
     Regs, Ptes, NoPte, Cacheable, Fault, Go, history
<1>5. ASSUME NEW p \in Pages, Mprotect(t, p)
      PROVE  TlbTyped'
  BY <1>5, DistinctAssumption, SwapAssumption DEF PteTyped, RegTyped, TlbTyped,
     Regs, Ptes, NoPte, Cacheable, Mprotect, Flush, Present
<1>6. ASSUME Age(t)
      PROVE  TlbTyped'
  <2>1. CASE AgeClears(t)
    <3>1. tlb' = [tlb EXCEPT ![t][Vic(t)] = NoPte]
      BY <1>6, <2>1 DEF Age
    <3> QED BY <3>1 DEF TlbTyped, Cacheable
  <2>2. CASE ~AgeClears(t)
    BY <1>6, <2>2 DEF Age, TlbTyped
  <2> QED BY <2>1, <2>2
<1>7. ASSUME DiscardShoot(t)
      PROVE  TlbTyped'
  BY <1>7, DistinctAssumption, SwapAssumption DEF PteTyped, RegTyped, TlbTyped,
     Regs, Ptes, NoPte, Cacheable, DiscardShoot, Flush, Vic, Go, history
<1>8. ASSUME EvictShoot(t)
      PROVE  TlbTyped'
  BY <1>8, DistinctAssumption, SwapAssumption DEF PteTyped, RegTyped, TlbTyped,
     Regs, Ptes, NoPte, Cacheable, EvictShoot, EvictFlush, Flush, Vic, Go,
     history
<1>9. ASSUME EvictReshoot(t)
      PROVE  TlbTyped'
  BY <1>9, DistinctAssumption, SwapAssumption DEF PteTyped, RegTyped, TlbTyped,
     Regs, Ptes, NoPte, Cacheable, EvictReshoot, Flush, Vic, Go, history
<1>10. ASSUME SwapInShoot(t)
      PROVE  TlbTyped'
  BY <1>10, DistinctAssumption, SwapAssumption DEF PteTyped, RegTyped,
     TlbTyped, Regs, Ptes, NoPte, Cacheable, SwapInShoot, Flush, Go, history
<1>11. ASSUME Kill(t)
      PROVE  TlbTyped'
  BY <1>11, DistinctAssumption, SwapAssumption DEF PteTyped, RegTyped,
     TlbTyped, Regs, Ptes, NoPte, Cacheable, Kill, MayKill, Alive, Mapped, Go,
     NoReg
<1> QED BY <1>1, <1>2, <1>3, <1>4, <1>5, <1>6, <1>7, <1>8, <1>9, <1>10, <1>11
           DEF Step, UserStep, FaultStep, EvictStep, SwapInStep

\* A reclaim returns to what it was for.
LEMMA PcTypedStep ==
  ASSUME RegTyped, PendTyped, Shape, PcTyped, NEW t \in Threads, Step(t)
  PROVE  PcTyped'
<1>1. ASSUME
        \/ (\E p \in Pages : Read(t, p))
        \/ (\E p \in Pages, v \in Values : Write(t, p, v))
        \/ (\E p \in Pages : Mprotect(t, p))
      PROVE  PcTyped'
  BY <1>1 DEF PcTyped, Read, history, NoPte, Write, Cached, Mprotect, Flush,
     Present
<1>2. ASSUME NEW p \in Pages, Fault(t, p)
      PROVE  PcTyped'
  BY <1>2, DistinctAssumption, SwapAssumption DEF RegTyped, PendTyped, PcTyped,
     Regs, Steps, EvictPcs, OwingPcs, DiscardPcs, SwapInPcs, FaultPcs, Fault,
     Go, history, NoPte
<1>3. ASSUME Lookup(t)
      PROVE  PcTyped'
  BY <1>3, DistinctAssumption, SwapAssumption DEF RegTyped, PendTyped, PcTyped,
     Regs, Steps, EvictPcs, OwingPcs, DiscardPcs, SwapInPcs, FaultPcs, Lookup,
     Go, memVars, history
<1>4. ASSUME Enrol(t)
      PROVE  PcTyped'
  BY <1>4, DistinctAssumption, SwapAssumption DEF RegTyped, PendTyped, PcTyped,
     Regs, Steps, EvictPcs, OwingPcs, DiscardPcs, SwapInPcs, FaultPcs, Enrol,
     Go, memVars, history
<1>5. ASSUME Recheck(t)
      PROVE  PcTyped'
  BY <1>5, DistinctAssumption, SwapAssumption DEF RegTyped, PendTyped, PcTyped,
     Regs, Steps, EvictPcs, OwingPcs, DiscardPcs, SwapInPcs, FaultPcs, Recheck,
     Settled, Go, memVars, history
<1>6. ASSUME Resume(t)
      PROVE  PcTyped'
  BY <1>6, DistinctAssumption, SwapAssumption DEF RegTyped, PendTyped, PcTyped,
     Regs, Steps, EvictPcs, OwingPcs, DiscardPcs, SwapInPcs, FaultPcs, Resume,
     Go, memVars, history
<1>7. ASSUME Dispatch(t)
      PROVE  PcTyped'
  BY <1>7, DistinctAssumption, SwapAssumption DEF RegTyped, PendTyped, PcTyped,
     Regs, Steps, EvictPcs, OwingPcs, DiscardPcs, SwapInPcs, FaultPcs,
     Dispatch, Return, Go, memVars, history, NoReg
<1>8. ASSUME LazyAlloc(t)
      PROVE  PcTyped'
  BY <1>8, DistinctAssumption, SwapAssumption DEF RegTyped, PendTyped, PcTyped,
     Regs, Steps, EvictPcs, OwingPcs, DiscardPcs, SwapInPcs, FaultPcs,
     LazyAlloc, Go, history
<1>9. ASSUME LazyShort(t)
      PROVE  PcTyped'
  BY <1>9, DistinctAssumption, SwapAssumption DEF RegTyped, PendTyped, PcTyped,
     Regs, Steps, EvictPcs, OwingPcs, DiscardPcs, SwapInPcs, FaultPcs,
     LazyShort, Go, memVars, history
<1>10. ASSUME LazyMap(t)
      PROVE  PcTyped'
  BY <1>10, DistinctAssumption, SwapAssumption DEF RegTyped, PendTyped,
     PcTyped, Regs, Steps, EvictPcs, OwingPcs, DiscardPcs, SwapInPcs, FaultPcs,
     LazyMap, Unmapped, Present, FreeFrame, Return, Go, history, NoReg, NoPte
<1>11. ASSUME NEW p \in Pages, Victim(t, p)
      PROVE  PcTyped'
  BY <1>11, DistinctAssumption, SwapAssumption DEF RegTyped, PendTyped,
     PcTyped, Regs, Steps, EvictPcs, OwingPcs, DiscardPcs, SwapInPcs, FaultPcs,
     Victim, Go, memVars, history
<1>12. ASSUME EndReclaim(t)
      PROVE  PcTyped'
  <2>1. pc[t] = "reclaim" /\ pc' = [pc EXCEPT ![t] = reg[t].then]
    BY <1>12 DEF EndReclaim, Go
  <2>2. reg[t].then \in {"siLoad", "lazy"}
    BY <2>1 DEF Shape, InHand, RegTyped, Regs
  <2> QED BY <2>1, <2>2 DEF PcTyped, Steps, SwapInPcs, FaultPcs
<1>13. ASSUME Age(t)
      PROVE  PcTyped'
  BY <1>13, DistinctAssumption, SwapAssumption DEF RegTyped, PendTyped,
     PcTyped, Regs, Steps, EvictPcs, OwingPcs, DiscardPcs, SwapInPcs, FaultPcs,
     Age, AgeClears, Vic, Seen, NextVictim, Go, history, NoReg, NoPte
<1>14. ASSUME DiscardLoad(t)
      PROVE  PcTyped'
  BY <1>14, DistinctAssumption, SwapAssumption DEF RegTyped, PendTyped,
     PcTyped, Regs, Steps, EvictPcs, OwingPcs, DiscardPcs, SwapInPcs, FaultPcs,
     DiscardLoad, Clean, Vic, Go, memVars, history
<1>15. ASSUME DiscardClaim(t)
      PROVE  PcTyped'
  BY <1>15, DistinctAssumption, SwapAssumption DEF RegTyped, PendTyped,
     PcTyped, Regs, Steps, EvictPcs, OwingPcs, DiscardPcs, SwapInPcs, FaultPcs,
     DiscardClaim, Vic, Seen, Go, history, NoPte
<1>16. ASSUME DiscardShoot(t)
      PROVE  PcTyped'
  BY <1>16, DistinctAssumption, SwapAssumption DEF RegTyped, PendTyped,
     PcTyped, Regs, Steps, EvictPcs, OwingPcs, DiscardPcs, SwapInPcs, FaultPcs,
     DiscardShoot, Flush, Vic, Go, history, NoPte
<1>17. ASSUME DiscardFree(t)
      PROVE  PcTyped'
  BY <1>17, DistinctAssumption, SwapAssumption DEF RegTyped, PendTyped,
     PcTyped, Regs, Steps, EvictPcs, OwingPcs, DiscardPcs, SwapInPcs, FaultPcs,
     DiscardFree, FreeFrame, Seen, NextVictim, Go, history, NoReg
<1>18. ASSUME EvictLoad(t)
      PROVE  PcTyped'
  BY <1>18, DistinctAssumption, SwapAssumption DEF RegTyped, PendTyped,
     PcTyped, Regs, Steps, EvictPcs, OwingPcs, DiscardPcs, SwapInPcs, FaultPcs,
     EvictLoad, Vic, NextVictim, Go, history, NoReg
<1>19. ASSUME EvictClaim(t)
      PROVE  PcTyped'
  BY <1>19, DistinctAssumption, SwapAssumption DEF RegTyped, PendTyped,
     PcTyped, Regs, Steps, EvictPcs, OwingPcs, DiscardPcs, SwapInPcs, FaultPcs,
     EvictClaim, Vic, Seen, Inflight, Go, history
<1>20. ASSUME EvictLost(t)
      PROVE  PcTyped'
  BY <1>20, DistinctAssumption, SwapAssumption DEF RegTyped, PendTyped,
     PcTyped, Regs, Steps, EvictPcs, OwingPcs, DiscardPcs, SwapInPcs, FaultPcs,
     EvictLost, FreeSlot, NextVictim, Go, history, NoReg
<1>21. ASSUME EvictShoot(t)
      PROVE  PcTyped'
  BY <1>21, DistinctAssumption, SwapAssumption DEF RegTyped, PendTyped,
     PcTyped, Regs, Steps, EvictPcs, OwingPcs, DiscardPcs, SwapInPcs, FaultPcs,
     EvictShoot, EvictFlush, Flush, Vic, Go, history, NoPte
<1>22. ASSUME EvictWrite(t)
      PROVE  PcTyped'
  BY <1>22, DistinctAssumption, SwapAssumption DEF RegTyped, PendTyped,
     PcTyped, Regs, Steps, EvictPcs, OwingPcs, DiscardPcs, SwapInPcs, FaultPcs,
     EvictWrite, Seen, Go, history
<1>23. ASSUME EvictRestore(t)
      PROVE  PcTyped'
  BY <1>23, DistinctAssumption, SwapAssumption DEF RegTyped, PendTyped,
     PcTyped, Regs, Steps, EvictPcs, OwingPcs, DiscardPcs, SwapInPcs, FaultPcs,
     EvictRestore, InflightStill, Inflight, Vic, Seen, Go, history
<1>24. ASSUME EvictReshoot(t)
      PROVE  PcTyped'
  BY <1>24, DistinctAssumption, SwapAssumption DEF RegTyped, PendTyped,
     PcTyped, Regs, Steps, EvictPcs, OwingPcs, DiscardPcs, SwapInPcs, FaultPcs,
     EvictReshoot, Flush, Vic, Go, history, NoPte
<1>25. ASSUME EvictUndo(t)
      PROVE  PcTyped'
  BY <1>25, DistinctAssumption, SwapAssumption DEF RegTyped, PendTyped,
     PcTyped, Regs, Steps, EvictPcs, OwingPcs, DiscardPcs, SwapInPcs, FaultPcs,
     EvictUndo, FreeSlot, Go, history
<1>26. ASSUME EvictCommit(t)
      PROVE  PcTyped'
  BY <1>26, DistinctAssumption, SwapAssumption DEF RegTyped, PendTyped,
     PcTyped, Regs, Steps, EvictPcs, OwingPcs, DiscardPcs, SwapInPcs, FaultPcs,
     EvictCommit, Handover, InflightStill, Inflight, Swapped, FreeSlot, Vic,
     Seen, Go, history
<1>27. ASSUME EvictFree(t)
      PROVE  PcTyped'
  BY <1>27, DistinctAssumption, SwapAssumption DEF RegTyped, PendTyped,
     PcTyped, Regs, Steps, EvictPcs, OwingPcs, DiscardPcs, SwapInPcs, FaultPcs,
     EvictFree, FreeFrame, Seen, Go, history
<1>28. ASSUME EvictWake(t)
      PROVE  PcTyped'
  BY <1>28, DistinctAssumption, SwapAssumption DEF RegTyped, PendTyped,
     PcTyped, Regs, Steps, EvictPcs, OwingPcs, DiscardPcs, SwapInPcs, FaultPcs,
     EvictWake, Vic, NextVictim, Go, memVars, history, NoReg
<1>29. ASSUME SwapInLoad(t)
      PROVE  PcTyped'
  BY <1>29, DistinctAssumption, SwapAssumption DEF RegTyped, PendTyped,
     PcTyped, Regs, Steps, EvictPcs, OwingPcs, DiscardPcs, SwapInPcs, FaultPcs,
     SwapInLoad, Return, Go, history, NoReg
<1>30. ASSUME SwapInPublish(t)
      PROVE  PcTyped'
  BY <1>30, DistinctAssumption, SwapAssumption DEF RegTyped, PendTyped,
     PcTyped, Regs, Steps, EvictPcs, OwingPcs, DiscardPcs, SwapInPcs, FaultPcs,
     SwapInPublish, Go, memVars, history
<1>31. ASSUME SwapInRead(t)
      PROVE  PcTyped'
  BY <1>31, DistinctAssumption, SwapAssumption DEF RegTyped, PendTyped,
     PcTyped, Regs, Steps, EvictPcs, OwingPcs, DiscardPcs, SwapInPcs, FaultPcs,
     SwapInRead, FreeFrame, Seen, Go, history, NoReg
<1>32. ASSUME SwapInInstall(t)
      PROVE  PcTyped'
  BY <1>32, DistinctAssumption, SwapAssumption DEF RegTyped, PendTyped,
     PcTyped, Regs, Steps, EvictPcs, OwingPcs, DiscardPcs, SwapInPcs, FaultPcs,
     SwapInInstall, SwapInWins, Present, FreeFrame, Return, Seen, Go, NoReg
<1>33. ASSUME SwapInShoot(t)
      PROVE  PcTyped'
  BY <1>33, DistinctAssumption, SwapAssumption DEF RegTyped, PendTyped,
     PcTyped, Regs, Steps, EvictPcs, OwingPcs, DiscardPcs, SwapInPcs, FaultPcs,
     SwapInShoot, Flush, Go, history, NoPte
<1>34. ASSUME SwapInFree(t)
      PROVE  PcTyped'
  BY <1>34, DistinctAssumption, SwapAssumption DEF RegTyped, PendTyped,
     PcTyped, Regs, Steps, EvictPcs, OwingPcs, DiscardPcs, SwapInPcs, FaultPcs,
     SwapInFree, FreeSlot, Seen, Return, Go, history, NoReg
<1>35. ASSUME Kill(t)
      PROVE  PcTyped'
  BY <1>35, DistinctAssumption, SwapAssumption DEF RegTyped, PendTyped,
     PcTyped, Regs, Steps, EvictPcs, OwingPcs, DiscardPcs, SwapInPcs, FaultPcs,
     Kill, MayKill, Alive, Mapped, Go, NoReg, NoPte
<1> QED BY <1>1, <1>2, <1>3, <1>4, <1>5, <1>6, <1>7, <1>8, <1>9, <1>10, <1>11,
           <1>12, <1>13, <1>14, <1>15, <1>16, <1>17, <1>18, <1>19, <1>20,
           <1>21, <1>22, <1>23, <1>24, <1>25, <1>26, <1>27, <1>28, <1>29,
           <1>30, <1>31, <1>32, <1>33, <1>34, <1>35 DEF Step, UserStep,
           FaultStep, EvictStep, SwapInStep

\* The page of a fault.
LEMMA AtTypedStep ==
  ASSUME PendTyped, AtTyped, NEW t \in Threads, Step(t)
  PROVE  AtTyped'
<1>1. ASSUME
        \/ (\E p \in Pages : Read(t, p))
        \/ (\E p \in Pages, v \in Values : Write(t, p, v))
        \/ (\E p \in Pages : Mprotect(t, p)) \/ Lookup(t) \/ Enrol(t)
        \/ Recheck(t) \/ Resume(t) \/ LazyAlloc(t) \/ LazyShort(t)
        \/ (\E p \in Pages : Victim(t, p)) \/ EndReclaim(t) \/ Age(t)
        \/ DiscardLoad(t) \/ DiscardClaim(t) \/ DiscardShoot(t)
        \/ DiscardFree(t) \/ EvictLoad(t) \/ EvictClaim(t) \/ EvictLost(t)
        \/ EvictShoot(t) \/ EvictWrite(t) \/ EvictRestore(t)
        \/ EvictReshoot(t) \/ EvictUndo(t) \/ EvictCommit(t) \/ EvictFree(t)
        \/ EvictWake(t) \/ SwapInPublish(t) \/ SwapInRead(t) \/ SwapInShoot(t)
      PROVE  AtTyped'
  BY <1>1 DEF AtTyped, Read, history, NoPte, Write, Cached, Mprotect, Flush,
     Present, Lookup, Go, memVars, Enrol, Recheck, Settled, Resume, LazyAlloc,
     LazyShort, Victim, EndReclaim, NoReg, Age, AgeClears, Vic, Seen,
     NextVictim, DiscardLoad, Clean, DiscardClaim, DiscardShoot, DiscardFree,
     FreeFrame, EvictLoad, EvictClaim, Inflight, EvictLost, FreeSlot,
     EvictShoot, EvictFlush, EvictWrite, EvictRestore, InflightStill,
     EvictReshoot, EvictUndo, EvictCommit, Handover, Swapped, EvictFree,
     EvictWake, SwapInPublish, SwapInRead, SwapInShoot
<1>2. ASSUME NEW p \in Pages, Fault(t, p)
      PROVE  AtTyped'
  BY <1>2, DistinctAssumption, SwapAssumption DEF PendTyped, AtTyped, Fault,
     Go, history, NoPte
<1>3. ASSUME Dispatch(t)
      PROVE  AtTyped'
  BY <1>3, DistinctAssumption, SwapAssumption DEF PendTyped, AtTyped, Dispatch,
     Return, Go, memVars, history, NoReg
<1>4. ASSUME LazyMap(t)
      PROVE  AtTyped'
  BY <1>4, DistinctAssumption, SwapAssumption DEF PendTyped, AtTyped, LazyMap,
     Unmapped, Present, FreeFrame, Return, Go, history, NoReg, NoPte
<1>5. ASSUME SwapInLoad(t)
      PROVE  AtTyped'
  BY <1>5, DistinctAssumption, SwapAssumption DEF PendTyped, AtTyped,
     SwapInLoad, Return, Go, history, NoReg
<1>6. ASSUME SwapInInstall(t)
      PROVE  AtTyped'
  BY <1>6, DistinctAssumption, SwapAssumption DEF PendTyped, AtTyped,
     SwapInInstall, SwapInWins, Present, FreeFrame, Return, Seen, Go, NoReg
<1>7. ASSUME SwapInFree(t)
      PROVE  AtTyped'
  BY <1>7, DistinctAssumption, SwapAssumption DEF PendTyped, AtTyped,
     SwapInFree, FreeSlot, Seen, Return, Go, history, NoReg
<1>8. ASSUME Kill(t)
      PROVE  AtTyped'
  BY <1>8, DistinctAssumption, SwapAssumption DEF PendTyped, AtTyped, Kill,
     MayKill, Alive, Mapped, Go, NoReg, NoPte
<1> QED BY <1>1, <1>2, <1>3, <1>4, <1>5, <1>6, <1>7, <1>8 DEF Step, UserStep,
           FaultStep, EvictStep, SwapInStep

\* The channels hold what the thread's own locals name.
LEMMA ChanTypedStep ==
  ASSUME RegTyped, ChanTyped, NEW t \in Threads, Step(t)
  PROVE  ChanTyped'
<1>1. ASSUME
        \/ (\E p \in Pages : Read(t, p))
        \/ (\E p \in Pages, v \in Values : Write(t, p, v))
        \/ (\E p \in Pages : Fault(t, p)) \/ (\E p \in Pages : Mprotect(t, p))
        \/ Lookup(t) \/ Enrol(t) \/ Recheck(t) \/ Resume(t) \/ Dispatch(t)
        \/ LazyAlloc(t) \/ LazyShort(t) \/ LazyMap(t)
        \/ (\E p \in Pages : Victim(t, p)) \/ EndReclaim(t) \/ Age(t)
        \/ DiscardLoad(t) \/ DiscardClaim(t) \/ DiscardShoot(t)
        \/ DiscardFree(t) \/ EvictLoad(t) \/ EvictLost(t) \/ EvictShoot(t)
        \/ EvictWrite(t) \/ EvictRestore(t) \/ EvictReshoot(t) \/ EvictFree(t)
        \/ EvictWake(t) \/ SwapInLoad(t) \/ SwapInShoot(t) \/ SwapInFree(t)
      PROVE  ChanTyped'
  BY <1>1 DEF ChanTyped, Read, history, NoPte, Write, Cached, Fault, Go,
     Mprotect, Flush, Present, Lookup, memVars, Enrol, Recheck, Settled,
     Resume, Dispatch, Return, NoReg, LazyAlloc, LazyShort, LazyMap, Unmapped,
     FreeFrame, Victim, EndReclaim, Age, AgeClears, Vic, Seen, NextVictim,
     DiscardLoad, Clean, DiscardClaim, DiscardShoot, DiscardFree, EvictLoad,
     EvictLost, FreeSlot, EvictShoot, EvictFlush, EvictWrite, EvictRestore,
     InflightStill, Inflight, EvictReshoot, EvictFree, EvictWake, SwapInLoad,
     SwapInShoot, SwapInFree
<1>2. ASSUME EvictClaim(t)
      PROVE  ChanTyped'
  BY <1>2, DistinctAssumption, SwapAssumption DEF RegTyped, ChanTyped, Regs,
     EvictClaim, Vic, Seen, Inflight, Go, history
<1>3. ASSUME EvictUndo(t)
      PROVE  ChanTyped'
  BY <1>3, DistinctAssumption, SwapAssumption DEF RegTyped, ChanTyped, Regs,
     EvictUndo, FreeSlot, Go, history
<1>4. ASSUME EvictCommit(t)
      PROVE  ChanTyped'
  BY <1>4, DistinctAssumption, SwapAssumption DEF RegTyped, ChanTyped, Regs,
     EvictCommit, Handover, InflightStill, Inflight, Swapped, FreeSlot, Vic,
     Seen, Go, history
<1>5. ASSUME SwapInPublish(t)
      PROVE  ChanTyped'
  BY <1>5, DistinctAssumption, SwapAssumption DEF RegTyped, ChanTyped, Regs,
     SwapInPublish, Go, memVars, history
<1>6. ASSUME SwapInRead(t)
      PROVE  ChanTyped'
  <2>1. chan' \in {chan, [chan EXCEPT ![t].frame = None]}
    BY <1>6 DEF SwapInRead
  <2> QED BY <2>1 DEF ChanTyped
<1>7. ASSUME SwapInInstall(t)
      PROVE  ChanTyped'
  BY <1>7, DistinctAssumption, SwapAssumption DEF RegTyped, ChanTyped, Regs,
     SwapInInstall, SwapInWins, Present, FreeFrame, Return, Seen, Go, NoReg
<1>8. ASSUME Kill(t)
      PROVE  ChanTyped'
  BY <1>8, DistinctAssumption, SwapAssumption DEF RegTyped, ChanTyped, Regs,
     Kill, MayKill, Alive, Mapped, Go, NoReg, NoPte
<1> QED BY <1>1, <1>2, <1>3, <1>4, <1>5, <1>6, <1>7, <1>8 DEF Step, UserStep,
           FaultStep, EvictStep, SwapInStep

\* A thread sleeps on the page of its own fault.
LEMMA AsleepTypedStep ==
  ASSUME AtTyped, RegTyped, PendTyped, AsleepTyped, NEW t \in Threads, Step(t)
  PROVE  AsleepTyped'
<1>1. ASSUME
        \/ (\E p \in Pages : Read(t, p))
        \/ (\E p \in Pages, v \in Values : Write(t, p, v))
        \/ (\E p \in Pages : Fault(t, p)) \/ (\E p \in Pages : Mprotect(t, p))
        \/ Lookup(t) \/ Resume(t) \/ Dispatch(t) \/ LazyAlloc(t)
        \/ LazyShort(t) \/ LazyMap(t) \/ (\E p \in Pages : Victim(t, p))
        \/ EndReclaim(t) \/ Age(t) \/ DiscardLoad(t) \/ DiscardClaim(t)
        \/ DiscardShoot(t) \/ DiscardFree(t) \/ EvictLoad(t) \/ EvictClaim(t)
        \/ EvictLost(t) \/ EvictShoot(t) \/ EvictWrite(t) \/ EvictRestore(t)
        \/ EvictReshoot(t) \/ EvictUndo(t) \/ EvictCommit(t) \/ EvictFree(t)
        \/ SwapInLoad(t) \/ SwapInPublish(t) \/ SwapInRead(t)
        \/ SwapInInstall(t) \/ SwapInShoot(t) \/ SwapInFree(t)
      PROVE  AsleepTyped'
  BY <1>1 DEF AsleepTyped, Read, history, NoPte, Write, Cached, Fault, Go,
     Mprotect, Flush, Present, Lookup, memVars, Resume, Dispatch, Return,
     NoReg, LazyAlloc, LazyShort, LazyMap, Unmapped, FreeFrame, Victim,
     EndReclaim, Age, AgeClears, Vic, Seen, NextVictim, DiscardLoad, Clean,
     DiscardClaim, DiscardShoot, DiscardFree, EvictLoad, EvictClaim, Inflight,
     EvictLost, FreeSlot, EvictShoot, EvictFlush, EvictWrite, EvictRestore,
     InflightStill, EvictReshoot, EvictUndo, EvictCommit, Handover, Swapped,
     EvictFree, SwapInLoad, SwapInPublish, SwapInRead, SwapInInstall,
     SwapInWins, SwapInShoot, SwapInFree
<1>2. ASSUME Enrol(t)
      PROVE  AsleepTyped'
  BY <1>2, DistinctAssumption, SwapAssumption DEF AtTyped, RegTyped, PendTyped,
     AsleepTyped, Regs, Enrol, Go, memVars, history
<1>3. ASSUME Recheck(t)
      PROVE  AsleepTyped'
  BY <1>3, DistinctAssumption, SwapAssumption DEF AtTyped, RegTyped, PendTyped,
     AsleepTyped, Regs, Recheck, Settled, Go, memVars, history
<1>4. ASSUME EvictWake(t)
      PROVE  AsleepTyped'
  BY <1>4, DistinctAssumption, SwapAssumption DEF AtTyped, RegTyped, PendTyped,
     AsleepTyped, Regs, EvictWake, Vic, NextVictim, Go, memVars, history, NoReg
<1>5. ASSUME Kill(t)
      PROVE  AsleepTyped'
  BY <1>5, DistinctAssumption, SwapAssumption DEF AtTyped, RegTyped, PendTyped,
     AsleepTyped, Regs, Kill, MayKill, Alive, Mapped, Go, NoReg, NoPte
<1> QED BY <1>1, <1>2, <1>3, <1>4, <1>5 DEF Step, UserStep, FaultStep,
           EvictStep, SwapInStep

\* The pending wake.
LEMMA PendTypedStep ==
  ASSUME PendTyped, NEW t \in Threads, Step(t)
  PROVE  PendTyped'
<1>1. ASSUME
        \/ (\E p \in Pages : Read(t, p))
        \/ (\E p \in Pages, v \in Values : Write(t, p, v))
        \/ (\E p \in Pages : Fault(t, p)) \/ (\E p \in Pages : Mprotect(t, p))
        \/ Lookup(t) \/ Recheck(t) \/ Resume(t) \/ Dispatch(t) \/ LazyAlloc(t)
        \/ LazyShort(t) \/ LazyMap(t) \/ (\E p \in Pages : Victim(t, p))
        \/ EndReclaim(t) \/ Age(t) \/ DiscardLoad(t) \/ DiscardClaim(t)
        \/ DiscardShoot(t) \/ DiscardFree(t) \/ EvictLoad(t) \/ EvictClaim(t)
        \/ EvictLost(t) \/ EvictShoot(t) \/ EvictWrite(t) \/ EvictRestore(t)
        \/ EvictReshoot(t) \/ EvictUndo(t) \/ EvictCommit(t) \/ EvictFree(t)
        \/ SwapInLoad(t) \/ SwapInPublish(t) \/ SwapInRead(t)
        \/ SwapInInstall(t) \/ SwapInShoot(t) \/ SwapInFree(t)
      PROVE  PendTyped'
  BY <1>1 DEF PendTyped, Read, history, NoPte, Write, Cached, Fault, Go,
     Mprotect, Flush, Present, Lookup, memVars, Recheck, Settled, Resume,
     Dispatch, Return, NoReg, LazyAlloc, LazyShort, LazyMap, Unmapped,
     FreeFrame, Victim, EndReclaim, Age, AgeClears, Vic, Seen, NextVictim,
     DiscardLoad, Clean, DiscardClaim, DiscardShoot, DiscardFree, EvictLoad,
     EvictClaim, Inflight, EvictLost, FreeSlot, EvictShoot, EvictFlush,
     EvictWrite, EvictRestore, InflightStill, EvictReshoot, EvictUndo,
     EvictCommit, Handover, Swapped, EvictFree, SwapInLoad, SwapInPublish,
     SwapInRead, SwapInInstall, SwapInWins, SwapInShoot, SwapInFree
<1>2. ASSUME Enrol(t)
      PROVE  PendTyped'
  BY <1>2, DistinctAssumption, SwapAssumption DEF PendTyped, Enrol, Go,
     memVars, history
<1>3. ASSUME EvictWake(t)
      PROVE  PendTyped'
  BY <1>3, DistinctAssumption, SwapAssumption DEF PendTyped, EvictWake, Vic,
     NextVictim, Go, memVars, history, NoReg
<1>4. ASSUME Kill(t)
      PROVE  PendTyped'
  BY <1>4, DistinctAssumption, SwapAssumption DEF PendTyped, Kill, MayKill,
     Alive, Mapped, Go, NoReg, NoPte
<1> QED BY <1>1, <1>2, <1>3, <1>4 DEF Step, UserStep, FaultStep, EvictStep,
           SwapInStep

\* What is read of an entry into the locals is an entry.
LEMMA RegTypedStep ==
  ASSUME PteTyped, Shape, RegTyped, NEW t \in Threads, Step(t)
  PROVE  RegTyped'
<1>1. ASSUME
        \/ (\E p \in Pages : Read(t, p))
        \/ (\E p \in Pages, v \in Values : Write(t, p, v))
        \/ (\E p \in Pages : Fault(t, p)) \/ (\E p \in Pages : Mprotect(t, p))
        \/ Lookup(t) \/ Enrol(t) \/ Recheck(t) \/ Resume(t) \/ DiscardClaim(t)
        \/ DiscardShoot(t) \/ EvictClaim(t) \/ EvictShoot(t) \/ EvictWrite(t)
        \/ EvictRestore(t) \/ EvictReshoot(t) \/ EvictUndo(t)
        \/ EvictCommit(t) \/ EvictFree(t) \/ SwapInPublish(t)
        \/ SwapInShoot(t)
      PROVE  RegTyped'
  BY <1>1 DEF RegTyped, Read, history, NoPte, Write, Cached, Fault, Go,
     Mprotect, Flush, Present, Lookup, memVars, Enrol, Recheck, Settled,
     Resume, DiscardClaim, Vic, Seen, DiscardShoot, EvictClaim, Inflight,
     EvictShoot, EvictFlush, EvictWrite, EvictRestore, InflightStill,
     EvictReshoot, EvictUndo, FreeSlot, EvictCommit, Handover, Swapped,
     EvictFree, FreeFrame, SwapInPublish, SwapInShoot
<1>2. ASSUME Dispatch(t)
      PROVE  RegTyped'
  BY <1>2, DistinctAssumption, SwapAssumption DEF PteTyped, RegTyped, Regs,
     Ptes, NoPte, NoReg, Dispatch, Return, Go, memVars, history
<1>3. ASSUME LazyAlloc(t)
      PROVE  RegTyped'
  BY <1>3, DistinctAssumption, SwapAssumption DEF PteTyped, RegTyped, Regs,
     Ptes, NoPte, NoReg, LazyAlloc, Go, history
<1>4. ASSUME LazyShort(t)
      PROVE  RegTyped'
  BY <1>4, DistinctAssumption, SwapAssumption DEF PteTyped, RegTyped, Regs,
     Ptes, NoPte, NoReg, LazyShort, Go, memVars, history
<1>5. ASSUME LazyMap(t)
      PROVE  RegTyped'
  BY <1>5, DistinctAssumption, SwapAssumption DEF PteTyped, RegTyped, Regs,
     Ptes, NoPte, NoReg, LazyMap, Unmapped, Present, FreeFrame, Return, Go,
     history
<1>6. ASSUME NEW p \in Pages, Victim(t, p)
      PROVE  RegTyped'
  <2>1. reg' = [reg EXCEPT ![t] = [reg[t] EXCEPT !.victim = p,
                                                !.seen = pte[p]]]
    BY <1>6 DEF Victim, RegTyped
  <2>2. [reg[t] EXCEPT !.victim = p, !.seen = pte[p]] \in Regs
    BY DEF RegTyped, Regs, PteTyped
  <2> QED BY <2>1, <2>2 DEF RegTyped
<1>7. ASSUME EndReclaim(t)
      PROVE  RegTyped'
  BY <1>7, DistinctAssumption, SwapAssumption DEF PteTyped, RegTyped, Regs,
     Ptes, NoPte, NoReg, EndReclaim, Go, memVars, history
<1>8. ASSUME Age(t)
      PROVE  RegTyped'
  BY <1>8, DistinctAssumption, SwapAssumption DEF PteTyped, RegTyped, Regs,
     Ptes, NoPte, NoReg, Age, AgeClears, Vic, Seen, NextVictim, Go, history
<1>9. ASSUME DiscardLoad(t)
      PROVE  RegTyped'
  <2>1. reg' = [reg EXCEPT ![t].seen = pte[Vic(t)]]
    BY <1>9 DEF DiscardLoad
  <2>2. pte[Vic(t)] \in Ptes
    BY <1>9 DEF DiscardLoad, Vic, Shape, InHand, DiscardPcs, PteTyped
  <2> QED BY <2>1, <2>2 DEF RegTyped, Regs
<1>10. ASSUME DiscardFree(t)
      PROVE  RegTyped'
  BY <1>10, DistinctAssumption, SwapAssumption DEF PteTyped, RegTyped, Regs,
     Ptes, NoPte, NoReg, DiscardFree, FreeFrame, Seen, NextVictim, Go, history
<1>11. ASSUME EvictLoad(t)
      PROVE  RegTyped'
  <2>1. pte[Vic(t)] \in Ptes
    BY <1>11 DEF EvictLoad, Vic, Shape, InHand, EvictPcs, PteTyped
  <2>2. ASSUME NEW s \in Slots,
               reg' = [reg EXCEPT ![t].seen = pte[Vic(t)], ![t].slot = s]
        PROVE  RegTyped'
    <3>1. reg' = [reg EXCEPT ![t] = [reg[t] EXCEPT !.seen = pte[Vic(t)],
                                                  !.slot = s]]
      BY <2>2 DEF RegTyped
    <3>2. [reg[t] EXCEPT !.seen = pte[Vic(t)], !.slot = s] \in Regs
      BY <2>1 DEF RegTyped, Regs
    <3> QED BY <3>1, <3>2 DEF RegTyped
  <2>3. CASE NextVictim(t)
    BY <2>3 DEF NextVictim, NoReg, NoPte, Ptes, RegTyped, Regs
  <2> QED BY <1>11, <2>2, <2>3 DEF EvictLoad
<1>12. ASSUME EvictLost(t)
      PROVE  RegTyped'
  BY <1>12, DistinctAssumption, SwapAssumption DEF PteTyped, RegTyped, Regs,
     Ptes, NoPte, NoReg, EvictLost, FreeSlot, NextVictim, Go, history
<1>13. ASSUME EvictWake(t)
      PROVE  RegTyped'
  BY <1>13, DistinctAssumption, SwapAssumption DEF PteTyped, RegTyped, Regs,
     Ptes, NoPte, NoReg, EvictWake, Vic, NextVictim, Go, memVars, history
<1>14. ASSUME SwapInLoad(t)
      PROVE  RegTyped'
  <2>1. pte[at[t]] \in Ptes
    BY <1>14 DEF SwapInLoad, Shape, InHand, SwapInPcs, PteTyped
  <2>2. ASSUME NEW f \in Frames,
               reg' = [reg EXCEPT ![t].seen = pte[at[t]], ![t].frame = f]
        PROVE  RegTyped'
    <3>1. reg' = [reg EXCEPT ![t] = [reg[t] EXCEPT !.seen = pte[at[t]],
                                                  !.frame = f]]
      BY <2>2 DEF RegTyped
    <3>2. [reg[t] EXCEPT !.seen = pte[at[t]], !.frame = f] \in Regs
      BY <2>1 DEF RegTyped, Regs
    <3> QED BY <3>1, <3>2 DEF RegTyped
  <2>3. CASE Return(t)
    BY <2>3 DEF Return, NoReg, NoPte, Ptes, RegTyped, Regs
  <2> QED BY <1>14, <2>2, <2>3 DEF SwapInLoad, RegTyped
<1>15. ASSUME SwapInRead(t)
      PROVE  RegTyped'
  BY <1>15, DistinctAssumption, SwapAssumption DEF PteTyped, RegTyped, Regs,
     Ptes, NoPte, NoReg, SwapInRead, FreeFrame, Seen, Go, history
<1>16. ASSUME SwapInInstall(t)
      PROVE  RegTyped'
  BY <1>16, DistinctAssumption, SwapAssumption DEF PteTyped, RegTyped, Regs,
     Ptes, NoPte, NoReg, SwapInInstall, SwapInWins, Present, FreeFrame, Return,
     Seen, Go
<1>17. ASSUME SwapInFree(t)
      PROVE  RegTyped'
  BY <1>17, DistinctAssumption, SwapAssumption DEF PteTyped, RegTyped, Regs,
     Ptes, NoPte, NoReg, SwapInFree, FreeSlot, Seen, Return, Go, history
<1>18. ASSUME Kill(t)
      PROVE  RegTyped'
  BY <1>18, DistinctAssumption, SwapAssumption DEF PteTyped, RegTyped, Regs,
     Ptes, NoPte, NoReg, Kill, MayKill, Alive, Mapped, Go
<1> QED BY <1>1, <1>2, <1>3, <1>4, <1>5, <1>6, <1>7, <1>8, <1>9, <1>10, <1>11,
           <1>12, <1>13, <1>14, <1>15, <1>16, <1>17, <1>18 DEF Step, UserStep,
           FaultStep, EvictStep, SwapInStep

\* A frame is filled from the image, a slot, or user code.
LEMMA DataTypedStep ==
  ASSUME DiskTyped, RegTyped, Shape, DataTyped, NEW t \in Threads, Step(t)
  PROVE  DataTyped'
<1>1. ASSUME
        \/ (\E p \in Pages : Read(t, p)) \/ (\E p \in Pages : Fault(t, p))
        \/ (\E p \in Pages : Mprotect(t, p)) \/ Lookup(t) \/ Enrol(t)
        \/ Recheck(t) \/ Resume(t) \/ Dispatch(t) \/ LazyShort(t)
        \/ (\E p \in Pages : Victim(t, p)) \/ EndReclaim(t) \/ Age(t)
        \/ DiscardLoad(t) \/ DiscardClaim(t) \/ DiscardShoot(t)
        \/ EvictLoad(t) \/ EvictClaim(t) \/ EvictLost(t) \/ EvictShoot(t)
        \/ EvictWrite(t) \/ EvictRestore(t) \/ EvictReshoot(t) \/ EvictUndo(t)
        \/ EvictCommit(t) \/ EvictWake(t) \/ SwapInLoad(t) \/ SwapInPublish(t)
        \/ SwapInShoot(t) \/ SwapInFree(t)
      PROVE  DataTyped'
  BY <1>1 DEF DataTyped, Read, history, NoPte, Fault, Go, Mprotect, Flush,
     Present, Lookup, memVars, Enrol, Recheck, Settled, Resume, Dispatch,
     Return, NoReg, LazyShort, Victim, EndReclaim, Age, AgeClears, Vic, Seen,
     NextVictim, DiscardLoad, Clean, DiscardClaim, DiscardShoot, EvictLoad,
     EvictClaim, Inflight, EvictLost, FreeSlot, EvictShoot, EvictFlush,
     EvictWrite, EvictRestore, InflightStill, EvictReshoot, EvictUndo,
     EvictCommit, Handover, Swapped, EvictWake, SwapInLoad, SwapInPublish,
     SwapInShoot, SwapInFree
<1>2. ASSUME NEW p \in Pages, NEW v \in Values, Write(t, p, v)
      PROVE  DataTyped'
  BY <1>2, DistinctAssumption, SwapAssumption DEF DiskTyped, RegTyped,
     DataTyped, Regs, Image, Junk, Values, Write, Cached, NoPte
<1>3. ASSUME LazyAlloc(t)
      PROVE  DataTyped'
  BY <1>3, DistinctAssumption, SwapAssumption DEF DiskTyped, RegTyped,
     DataTyped, Regs, Image, Junk, Values, LazyAlloc, Go, history
<1>4. ASSUME LazyMap(t)
      PROVE  DataTyped'
  BY <1>4, DistinctAssumption, SwapAssumption DEF DiskTyped, RegTyped,
     DataTyped, Regs, Image, Junk, Values, LazyMap, Unmapped, Present,
     FreeFrame, Return, Go, history, NoReg, NoPte
<1>5. ASSUME DiscardFree(t)
      PROVE  DataTyped'
  BY <1>5, DistinctAssumption, SwapAssumption DEF DiskTyped, RegTyped,
     DataTyped, Regs, Image, Junk, Values, DiscardFree, FreeFrame, Seen,
     NextVictim, Go, history, NoReg
<1>6. ASSUME EvictFree(t)
      PROVE  DataTyped'
  BY <1>6, DistinctAssumption, SwapAssumption DEF DiskTyped, RegTyped,
     DataTyped, Regs, Image, Junk, Values, EvictFree, FreeFrame, Seen, Go,
     history
<1>7. ASSUME SwapInRead(t)
      PROVE  DataTyped'
  <2>1. reg[t].seen.slot \in Slots
    BY <1>7 DEF SwapInRead, Shape, InHand, SwapInPcs, RegTyped, Regs, Ptes,
       NoPte
  <2>2. \/ data' = [data EXCEPT ![reg[t].frame] = disk[reg[t].seen.slot]]
        \/ data' = [data EXCEPT ![reg[t].frame] = Junk]
    BY <1>7 DEF SwapInRead, FreeFrame, Seen
  <2> QED BY <2>1, <2>2 DEF DataTyped, DiskTyped
<1>8. ASSUME SwapInInstall(t)
      PROVE  DataTyped'
  BY <1>8, DistinctAssumption, SwapAssumption DEF DiskTyped, RegTyped,
     DataTyped, Regs, Image, Junk, Values, SwapInInstall, SwapInWins, Present,
     FreeFrame, Return, Seen, Go, NoReg
<1>9. ASSUME Kill(t)
      PROVE  DataTyped'
  BY <1>9, DistinctAssumption, SwapAssumption DEF DiskTyped, RegTyped,
     DataTyped, Regs, Image, Junk, Values, Kill, MayKill, Alive, Mapped, Go,
     NoReg, NoPte
<1> QED BY <1>1, <1>2, <1>3, <1>4, <1>5, <1>6, <1>7, <1>8, <1>9 DEF Step,
           UserStep, FaultStep, EvictStep, SwapInStep

\* A slot is filled from the frame of the entry that was read.
LEMMA DiskTypedStep ==
  ASSUME DataTyped, RegTyped, Shape, DiskTyped, NEW t \in Threads, Step(t)
  PROVE  DiskTyped'
<1>1. ASSUME
        \/ (\E p \in Pages : Read(t, p))
        \/ (\E p \in Pages, v \in Values : Write(t, p, v))
        \/ (\E p \in Pages : Fault(t, p)) \/ (\E p \in Pages : Mprotect(t, p))
        \/ Lookup(t) \/ Enrol(t) \/ Recheck(t) \/ Resume(t) \/ Dispatch(t)
        \/ LazyAlloc(t) \/ LazyShort(t) \/ LazyMap(t)
        \/ (\E p \in Pages : Victim(t, p)) \/ EndReclaim(t) \/ Age(t)
        \/ DiscardLoad(t) \/ DiscardClaim(t) \/ DiscardShoot(t)
        \/ DiscardFree(t) \/ EvictLoad(t) \/ EvictClaim(t) \/ EvictShoot(t)
        \/ EvictRestore(t) \/ EvictReshoot(t) \/ EvictFree(t) \/ EvictWake(t)
        \/ SwapInLoad(t) \/ SwapInPublish(t) \/ SwapInRead(t)
        \/ SwapInInstall(t) \/ SwapInShoot(t)
      PROVE  DiskTyped'
  BY <1>1 DEF DiskTyped, Read, history, NoPte, Write, Cached, Fault, Go,
     Mprotect, Flush, Present, Lookup, memVars, Enrol, Recheck, Settled,
     Resume, Dispatch, Return, NoReg, LazyAlloc, LazyShort, LazyMap, Unmapped,
     FreeFrame, Victim, EndReclaim, Age, AgeClears, Vic, Seen, NextVictim,
     DiscardLoad, Clean, DiscardClaim, DiscardShoot, DiscardFree, EvictLoad,
     EvictClaim, Inflight, EvictShoot, EvictFlush, EvictRestore, InflightStill,
     EvictReshoot, EvictFree, EvictWake, SwapInLoad, SwapInPublish, SwapInRead,
     SwapInInstall, SwapInWins, SwapInShoot
<1>2. ASSUME EvictLost(t)
      PROVE  DiskTyped'
  BY <1>2, DistinctAssumption, SwapAssumption DEF DataTyped, RegTyped,
     DiskTyped, Regs, Image, Junk, Values, EvictLost, FreeSlot, NextVictim, Go,
     history, NoReg
<1>3. ASSUME EvictWrite(t)
      PROVE  DiskTyped'
  <2>1. reg[t].seen.frame \in Frames
    BY <1>3 DEF EvictWrite, Shape, InHand, EvictPcs, OwingPcs, RegTyped, Regs,
       Ptes, NoPte
  <2>2. disk' \in {disk,
                  [disk EXCEPT ![reg[t].slot] = data[reg[t].seen.frame]]}
    BY <1>3 DEF EvictWrite, Seen
  <2> QED BY <2>1, <2>2 DEF DiskTyped, DataTyped
<1>4. ASSUME EvictUndo(t)
      PROVE  DiskTyped'
  BY <1>4, DistinctAssumption, SwapAssumption DEF DataTyped, RegTyped,
     DiskTyped, Regs, Image, Junk, Values, EvictUndo, FreeSlot, Go, history
<1>5. ASSUME EvictCommit(t)
      PROVE  DiskTyped'
  BY <1>5, DistinctAssumption, SwapAssumption DEF DataTyped, RegTyped,
     DiskTyped, Regs, Image, Junk, Values, EvictCommit, Handover,
     InflightStill, Inflight, Swapped, FreeSlot, Vic, Seen, Go, history
<1>6. ASSUME SwapInFree(t)
      PROVE  DiskTyped'
  BY <1>6, DistinctAssumption, SwapAssumption DEF DataTyped, RegTyped,
     DiskTyped, Regs, Image, Junk, Values, SwapInFree, FreeSlot, Seen, Return,
     Go, history, NoReg
<1>7. ASSUME Kill(t)
      PROVE  DiskTyped'
  BY <1>7, DistinctAssumption, SwapAssumption DEF DataTyped, RegTyped,
     DiskTyped, Regs, Image, Junk, Values, Kill, MayKill, Alive, Mapped, Go,
     NoReg, NoPte
<1> QED BY <1>1, <1>2, <1>3, <1>4, <1>5, <1>6, <1>7 DEF Step, UserStep,
           FaultStep, EvictStep, SwapInStep

\* Frames and slots are taken from those out of use.
LEMMA UsedTypedStep ==
  ASSUME RegTyped, UsedTyped, NEW t \in Threads, Step(t)
  PROVE  UsedTyped'
<1>1. ASSUME
        \/ (\E p \in Pages : Read(t, p))
        \/ (\E p \in Pages, v \in Values : Write(t, p, v))
        \/ (\E p \in Pages : Fault(t, p)) \/ (\E p \in Pages : Mprotect(t, p))
        \/ Lookup(t) \/ Enrol(t) \/ Recheck(t) \/ Resume(t) \/ Dispatch(t)
        \/ LazyShort(t) \/ (\E p \in Pages : Victim(t, p)) \/ EndReclaim(t)
        \/ Age(t) \/ DiscardLoad(t) \/ DiscardClaim(t) \/ DiscardShoot(t)
        \/ EvictClaim(t) \/ EvictShoot(t) \/ EvictWrite(t) \/ EvictRestore(t)
        \/ EvictReshoot(t) \/ EvictWake(t) \/ SwapInPublish(t)
        \/ SwapInShoot(t)
      PROVE  UsedTyped'
  BY <1>1 DEF UsedTyped, Read, history, NoPte, Write, Cached, Fault, Go,
     Mprotect, Flush, Present, Lookup, memVars, Enrol, Recheck, Settled,
     Resume, Dispatch, Return, NoReg, LazyShort, Victim, EndReclaim, Age,
     AgeClears, Vic, Seen, NextVictim, DiscardLoad, Clean, DiscardClaim,
     DiscardShoot, EvictClaim, Inflight, EvictShoot, EvictFlush, EvictWrite,
     EvictRestore, InflightStill, EvictReshoot, EvictWake, SwapInPublish,
     SwapInShoot
<1>2. ASSUME LazyAlloc(t)
      PROVE  UsedTyped'
  BY <1>2, DistinctAssumption, SwapAssumption DEF RegTyped, UsedTyped, Regs,
     LazyAlloc, Go, history
<1>3. ASSUME LazyMap(t)
      PROVE  UsedTyped'
  BY <1>3, DistinctAssumption, SwapAssumption DEF RegTyped, UsedTyped, Regs,
     LazyMap, Unmapped, Present, FreeFrame, Return, Go, history, NoReg, NoPte
<1>4. ASSUME DiscardFree(t)
      PROVE  UsedTyped'
  BY <1>4, DistinctAssumption, SwapAssumption DEF RegTyped, UsedTyped, Regs,
     DiscardFree, FreeFrame, Seen, NextVictim, Go, history, NoReg
<1>5. ASSUME EvictLoad(t)
      PROVE  UsedTyped'
  BY <1>5, DistinctAssumption, SwapAssumption DEF RegTyped, UsedTyped, Regs,
     EvictLoad, Vic, NextVictim, Go, history, NoReg
<1>6. ASSUME EvictLost(t)
      PROVE  UsedTyped'
  BY <1>6, DistinctAssumption, SwapAssumption DEF RegTyped, UsedTyped, Regs,
     EvictLost, FreeSlot, NextVictim, Go, history, NoReg
<1>7. ASSUME EvictUndo(t)
      PROVE  UsedTyped'
  BY <1>7, DistinctAssumption, SwapAssumption DEF RegTyped, UsedTyped, Regs,
     EvictUndo, FreeSlot, Go, history
<1>8. ASSUME EvictCommit(t)
      PROVE  UsedTyped'
  BY <1>8, DistinctAssumption, SwapAssumption DEF RegTyped, UsedTyped, Regs,
     EvictCommit, Handover, InflightStill, Inflight, Swapped, FreeSlot, Vic,
     Seen, Go, history
<1>9. ASSUME EvictFree(t)
      PROVE  UsedTyped'
  BY <1>9, DistinctAssumption, SwapAssumption DEF RegTyped, UsedTyped, Regs,
     EvictFree, FreeFrame, Seen, Go, history
<1>10. ASSUME SwapInLoad(t)
      PROVE  UsedTyped'
  BY <1>10, DistinctAssumption, SwapAssumption DEF RegTyped, UsedTyped, Regs,
     SwapInLoad, Return, Go, history, NoReg
<1>11. ASSUME SwapInRead(t)
      PROVE  UsedTyped'
  BY <1>11, DistinctAssumption, SwapAssumption DEF RegTyped, UsedTyped, Regs,
     SwapInRead, FreeFrame, Seen, Go, history, NoReg
<1>12. ASSUME SwapInInstall(t)
      PROVE  UsedTyped'
  BY <1>12, DistinctAssumption, SwapAssumption DEF RegTyped, UsedTyped, Regs,
     SwapInInstall, SwapInWins, Present, FreeFrame, Return, Seen, Go, NoReg
<1>13. ASSUME SwapInFree(t)
      PROVE  UsedTyped'
  BY <1>13, DistinctAssumption, SwapAssumption DEF RegTyped, UsedTyped, Regs,
     SwapInFree, FreeSlot, Seen, Return, Go, history, NoReg
<1>14. ASSUME Kill(t)
      PROVE  UsedTyped'
  BY <1>14, DistinctAssumption, SwapAssumption DEF RegTyped, UsedTyped, Regs,
     Kill, MayKill, Alive, Mapped, Go, NoReg, NoPte
<1> QED BY <1>1, <1>2, <1>3, <1>4, <1>5, <1>6, <1>7, <1>8, <1>9, <1>10, <1>11,
           <1>12, <1>13, <1>14 DEF Step, UserStep, FaultStep, EvictStep,
           SwapInStep

\* The history variables.
LEMMA HistoryTypedStep ==
  ASSUME HistoryTyped, AtTyped, RegTyped, Shape, NEW t \in Threads, Step(t)
  PROVE  HistoryTyped'
<1>1. ASSUME
        \/ (\E p \in Pages : Read(t, p)) \/ (\E p \in Pages : Fault(t, p))
        \/ Lookup(t) \/ Enrol(t) \/ Recheck(t) \/ Resume(t) \/ Dispatch(t)
        \/ LazyAlloc(t) \/ LazyShort(t) \/ LazyMap(t)
        \/ (\E p \in Pages : Victim(t, p)) \/ EndReclaim(t) \/ Age(t)
        \/ DiscardLoad(t) \/ DiscardClaim(t) \/ DiscardShoot(t)
        \/ DiscardFree(t) \/ EvictLoad(t) \/ EvictClaim(t) \/ EvictLost(t)
        \/ EvictShoot(t) \/ EvictWrite(t) \/ EvictRestore(t)
        \/ EvictReshoot(t) \/ EvictUndo(t) \/ EvictCommit(t) \/ EvictFree(t)
        \/ EvictWake(t) \/ SwapInLoad(t) \/ SwapInPublish(t) \/ SwapInRead(t)
        \/ SwapInShoot(t) \/ SwapInFree(t)
      PROVE  HistoryTyped'
  BY <1>1 DEF HistoryTyped, Read, history, NoPte, Fault, Go, Lookup, memVars,
     Enrol, Recheck, Settled, Resume, Dispatch, Return, NoReg, LazyAlloc,
     LazyShort, LazyMap, Unmapped, Present, FreeFrame, Victim, EndReclaim, Age,
     AgeClears, Vic, Seen, NextVictim, DiscardLoad, Clean, DiscardClaim,
     DiscardShoot, Flush, DiscardFree, EvictLoad, EvictClaim, Inflight,
     EvictLost, FreeSlot, EvictShoot, EvictFlush, EvictWrite, EvictRestore,
     InflightStill, EvictReshoot, EvictUndo, EvictCommit, Handover, Swapped,
     EvictFree, EvictWake, SwapInLoad, SwapInPublish, SwapInRead, SwapInShoot,
     SwapInFree
<1>2. ASSUME NEW p \in Pages, NEW v \in Values, Write(t, p, v)
      PROVE  HistoryTyped'
  BY <1>2 DEF HistoryTyped, Write
<1>3. ASSUME NEW p \in Pages, Mprotect(t, p)
      PROVE  HistoryTyped'
  BY <1>3 DEF HistoryTyped, Mprotect
<1>4. ASSUME SwapInInstall(t)
      PROVE  HistoryTyped'
  BY <1>4 DEF HistoryTyped, SwapInInstall
<1>5. ASSUME Kill(t)
      PROVE  HistoryTyped'
  <2>1. pc[t] \in OwingPcs \cup {"dcShoot"} => reg[t].victim \in Pages
    BY DEF Shape, InHand, EvictPcs, DiscardPcs
  <2> QED BY <1>5, <2>1 DEF HistoryTyped, Kill, Vic
<1> QED BY <1>1, <1>2, <1>3, <1>4, <1>5 DEF Step, UserStep, FaultStep,
           EvictStep, SwapInStep

-----------------------------------------------------------------------------
(* What is in hand, and by whom. *)

\* What the thread that moves has in hand follows from where it gets to.
LEMMA OwnShape ==
  ASSUME PcTyped, AtTyped, RegTyped, ChanTyped, AsleepTyped, PteTyped,
         PendTyped, Shape, NEW t \in Threads, Step(t)
  PROVE  InHand(t)'
<1>1. ASSUME NEW p \in Pages, Read(t, p)
      PROVE  InHand(t)'
  BY <1>1, DistinctAssumption DEF PcTyped, AtTyped, RegTyped, ChanTyped,
     AsleepTyped, PteTyped, Shape, InHand, EvictPcs, OwingPcs, DiscardPcs,
     SwapInPcs, Read, history, NoPte
<1>2. ASSUME NEW p \in Pages, NEW v \in Values, Write(t, p, v)
      PROVE  InHand(t)'
  BY <1>2, DistinctAssumption DEF PcTyped, AtTyped, RegTyped, ChanTyped,
     AsleepTyped, PteTyped, Shape, InHand, EvictPcs, OwingPcs, DiscardPcs,
     SwapInPcs, Write, Cached, NoPte
<1>3. ASSUME NEW p \in Pages, Fault(t, p)
      PROVE  InHand(t)'
  BY <1>3, DistinctAssumption DEF PcTyped, AtTyped, RegTyped, ChanTyped,
     AsleepTyped, PteTyped, Shape, InHand, EvictPcs, OwingPcs, DiscardPcs,
     SwapInPcs, Fault, Go, history, NoPte
<1>4. ASSUME NEW p \in Pages, Mprotect(t, p)
      PROVE  InHand(t)'
  BY <1>4, DistinctAssumption DEF PcTyped, AtTyped, RegTyped, ChanTyped,
     AsleepTyped, PteTyped, Shape, InHand, EvictPcs, OwingPcs, DiscardPcs,
     SwapInPcs, Mprotect, Flush, Present, NoPte
<1>5. ASSUME Lookup(t)
      PROVE  InHand(t)'
  BY <1>5, DistinctAssumption DEF PcTyped, AtTyped, RegTyped, ChanTyped,
     AsleepTyped, PteTyped, Shape, InHand, EvictPcs, OwingPcs, DiscardPcs,
     SwapInPcs, Lookup, Go, memVars, history
<1>6. ASSUME Enrol(t)
      PROVE  InHand(t)'
  BY <1>6, DistinctAssumption DEF PcTyped, AtTyped, RegTyped, ChanTyped,
     AsleepTyped, PteTyped, Shape, InHand, EvictPcs, OwingPcs, DiscardPcs,
     SwapInPcs, Enrol, Go, memVars, history
<1>7. ASSUME Recheck(t)
      PROVE  InHand(t)'
  BY <1>7, DistinctAssumption DEF PcTyped, AtTyped, RegTyped, ChanTyped,
     AsleepTyped, PteTyped, Shape, InHand, EvictPcs, OwingPcs, DiscardPcs,
     SwapInPcs, Recheck, Settled, Go, memVars, history
<1>8. ASSUME Resume(t)
      PROVE  InHand(t)'
  BY <1>8, DistinctAssumption DEF PcTyped, AtTyped, RegTyped, ChanTyped,
     AsleepTyped, PteTyped, Shape, InHand, EvictPcs, OwingPcs, DiscardPcs,
     SwapInPcs, Resume, Go, memVars, history
<1>9. ASSUME Dispatch(t)
      PROVE  InHand(t)'
  <2>1. pc[t] = "dispatch" /\ UNCHANGED <<chan, asleep>>
    BY <1>9 DEF Dispatch
  <2>2. \/ pc' = [pc EXCEPT ![t] = "user"]
        \/ /\ pc' = [pc EXCEPT ![t] = "reclaim"] /\ UNCHANGED at
           /\ reg' = [reg EXCEPT ![t].then = "siLoad"]
        \/ pc' = [pc EXCEPT ![t] = "lazy"] /\ UNCHANGED at
    BY <1>9 DEF Dispatch, Return, Go
  <2>3. /\ pc'[t] \in {"user", "reclaim", "lazy"}
        /\ pc'[t] # "user" => at'[t] = at[t]
        /\ pc'[t] = "reclaim" => reg'[t].then = "siLoad"
    BY <2>2 DEF PcTyped, RegTyped, Regs
  <2> QED BY <2>1, <2>3, DistinctAssumption DEF None, Shape, InHand, EvictPcs,
             OwingPcs, DiscardPcs, SwapInPcs
<1>10. ASSUME LazyAlloc(t)
      PROVE  InHand(t)'
  BY <1>10, DistinctAssumption DEF PcTyped, AtTyped, RegTyped, ChanTyped,
     AsleepTyped, PteTyped, Shape, InHand, EvictPcs, OwingPcs, DiscardPcs,
     SwapInPcs, LazyAlloc, Go, history
<1>11. ASSUME LazyShort(t)
      PROVE  InHand(t)'
  <2>1. pc[t] = "lazy" /\ UNCHANGED <<at, chan, asleep>>
    BY <1>11 DEF LazyShort
  <2>2. \/ /\ pc' = [pc EXCEPT ![t] = "reclaim"]
           /\ reg' = [reg EXCEPT ![t].then = "lazy"]
        \/ pc' = [pc EXCEPT ![t] = "oom"]
    BY <1>11 DEF LazyShort, Go
  <2>3. /\ pc'[t] \in {"reclaim", "oom"}
        /\ pc'[t] = "reclaim" => reg'[t].then = "lazy"
    BY <2>2 DEF PcTyped, RegTyped, Regs
  <2> QED BY <2>1, <2>3, DistinctAssumption DEF None, Shape, InHand, EvictPcs,
             OwingPcs, DiscardPcs, SwapInPcs
<1>12. ASSUME LazyMap(t)
      PROVE  InHand(t)'
  BY <1>12, DistinctAssumption DEF PcTyped, AtTyped, RegTyped, ChanTyped,
     AsleepTyped, PteTyped, Shape, InHand, EvictPcs, OwingPcs, DiscardPcs,
     SwapInPcs, LazyMap, Unmapped, Present, FreeFrame, Return, Go, history,
     NoReg, NoPte
<1>13. ASSUME NEW p \in Pages, Victim(t, p)
      PROVE  InHand(t)'
  BY <1>13, DistinctAssumption DEF PcTyped, AtTyped, RegTyped, ChanTyped,
     AsleepTyped, PteTyped, Shape, InHand, EvictPcs, OwingPcs, DiscardPcs,
     SwapInPcs, Victim, Go, memVars, history
<1>14. ASSUME EndReclaim(t)
      PROVE  InHand(t)'
  <2>1. /\ pc[t] = "reclaim" /\ pc' = [pc EXCEPT ![t] = reg[t].then]
        /\ UNCHANGED <<at, chan, asleep>>
    BY <1>14 DEF EndReclaim, Go
  <2>2. reg[t].then \in {"siLoad", "lazy"}
    BY <2>1 DEF Shape, InHand, RegTyped, Regs
  <2> QED BY <2>1, <2>2, DistinctAssumption DEF Shape, InHand, PcTyped,
             EvictPcs, OwingPcs, DiscardPcs, SwapInPcs
<1>15. ASSUME Age(t)
      PROVE  InHand(t)'
  BY <1>15, DistinctAssumption DEF PcTyped, AtTyped, RegTyped, ChanTyped,
     AsleepTyped, PteTyped, Shape, InHand, EvictPcs, OwingPcs, DiscardPcs,
     SwapInPcs, Age, AgeClears, Vic, Seen, NextVictim, Go, history, NoReg,
     NoPte
<1>16. ASSUME DiscardLoad(t)
      PROVE  InHand(t)'
  BY <1>16, DistinctAssumption DEF PcTyped, AtTyped, RegTyped, ChanTyped,
     AsleepTyped, PteTyped, Shape, InHand, EvictPcs, OwingPcs, DiscardPcs,
     SwapInPcs, DiscardLoad, Clean, Vic, Go, memVars, history
<1>17. ASSUME DiscardClaim(t)
      PROVE  InHand(t)'
  BY <1>17, DistinctAssumption DEF PcTyped, AtTyped, RegTyped, ChanTyped,
     AsleepTyped, PteTyped, Shape, InHand, EvictPcs, OwingPcs, DiscardPcs,
     SwapInPcs, DiscardClaim, Vic, Seen, Go, history, NoPte
<1>18. ASSUME DiscardShoot(t)
      PROVE  InHand(t)'
  BY <1>18, DistinctAssumption DEF PcTyped, AtTyped, RegTyped, ChanTyped,
     AsleepTyped, PteTyped, Shape, InHand, EvictPcs, OwingPcs, DiscardPcs,
     SwapInPcs, DiscardShoot, Flush, Vic, Go, history, NoPte
<1>19. ASSUME DiscardFree(t)
      PROVE  InHand(t)'
  BY <1>19, DistinctAssumption DEF PcTyped, AtTyped, RegTyped, ChanTyped,
     AsleepTyped, PteTyped, Shape, InHand, EvictPcs, OwingPcs, DiscardPcs,
     SwapInPcs, DiscardFree, FreeFrame, Seen, NextVictim, Go, history, NoReg
<1>20. ASSUME EvictLoad(t)
      PROVE  InHand(t)'
  <2>1. pc[t] = "evLoad" /\ UNCHANGED <<at, chan, asleep>>
    BY <1>20 DEF EvictLoad, NextVictim
  <2>2. ASSUME NEW s \in Slots, Go(t, "evClaim"), pte[Vic(t)].k = "present",
               reg' = [reg EXCEPT ![t].seen = pte[Vic(t)], ![t].slot = s]
        PROVE  InHand(t)'
    <3>1. /\ pc'[t] = "evClaim"
          /\ reg'[t].victim = reg[t].victim /\ reg'[t].then = reg[t].then
          /\ reg'[t].seen.k = "present" /\ reg'[t].slot = s
      BY <2>2 DEF Go, PcTyped, RegTyped, Regs
    <3> QED BY <2>1, <3>1, DistinctAssumption DEF Shape, InHand, EvictPcs,
               OwingPcs, DiscardPcs, SwapInPcs
  <2>3. CASE NextVictim(t)
    <3>1. pc'[t] = "reclaim" /\ reg'[t].then = reg[t].then
      BY <2>3 DEF NextVictim, Go, NoReg, PcTyped, RegTyped
    <3> QED BY <2>1, <3>1, DistinctAssumption DEF Shape, InHand, EvictPcs,
               OwingPcs, DiscardPcs, SwapInPcs
  <2> QED BY <1>20, <2>2, <2>3 DEF EvictLoad
<1>21. ASSUME EvictClaim(t)
      PROVE  InHand(t)'
  <2>1. /\ pc[t] = "evClaim" /\ UNCHANGED <<at, reg, asleep>>
        /\ pc' = [pc EXCEPT ![t] = "evShoot"]
        /\ chan' = [chan EXCEPT ![t].slot = reg[t].slot]
    BY <1>21 DEF EvictClaim, Go
  <2>2. /\ pc'[t] = "evShoot" /\ chan'[t].slot = reg[t].slot
        /\ chan'[t].frame = chan[t].frame
    BY <2>1 DEF PcTyped, ChanTyped
  <2> QED BY <2>1, <2>2, DistinctAssumption DEF Shape, InHand, EvictPcs,
             OwingPcs, DiscardPcs, SwapInPcs
<1>22. ASSUME EvictLost(t)
      PROVE  InHand(t)'
  BY <1>22, DistinctAssumption DEF PcTyped, AtTyped, RegTyped, ChanTyped,
     AsleepTyped, PteTyped, Shape, InHand, EvictPcs, OwingPcs, DiscardPcs,
     SwapInPcs, EvictLost, FreeSlot, NextVictim, Go, history, NoReg
<1>23. ASSUME EvictShoot(t)
      PROVE  InHand(t)'
  BY <1>23, DistinctAssumption DEF PcTyped, AtTyped, RegTyped, ChanTyped,
     AsleepTyped, PteTyped, Shape, InHand, EvictPcs, OwingPcs, DiscardPcs,
     SwapInPcs, EvictShoot, EvictFlush, Flush, Vic, Go, history, NoPte
<1>24. ASSUME EvictWrite(t)
      PROVE  InHand(t)'
  BY <1>24, DistinctAssumption DEF PcTyped, AtTyped, RegTyped, ChanTyped,
     AsleepTyped, PteTyped, Shape, InHand, EvictPcs, OwingPcs, DiscardPcs,
     SwapInPcs, EvictWrite, Seen, Go, history
<1>25. ASSUME EvictRestore(t)
      PROVE  InHand(t)'
  BY <1>25, DistinctAssumption DEF PcTyped, AtTyped, RegTyped, ChanTyped,
     AsleepTyped, PteTyped, Shape, InHand, EvictPcs, OwingPcs, DiscardPcs,
     SwapInPcs, EvictRestore, InflightStill, Inflight, Vic, Seen, Go, history
<1>26. ASSUME EvictReshoot(t)
      PROVE  InHand(t)'
  BY <1>26, DistinctAssumption DEF PcTyped, AtTyped, RegTyped, ChanTyped,
     AsleepTyped, PteTyped, Shape, InHand, EvictPcs, OwingPcs, DiscardPcs,
     SwapInPcs, EvictReshoot, Flush, Vic, Go, history, NoPte
<1>27. ASSUME EvictUndo(t)
      PROVE  InHand(t)'
  BY <1>27, DistinctAssumption DEF PcTyped, AtTyped, RegTyped, ChanTyped,
     AsleepTyped, PteTyped, Shape, InHand, EvictPcs, OwingPcs, DiscardPcs,
     SwapInPcs, EvictUndo, FreeSlot, Go, history
<1>28. ASSUME EvictCommit(t)
      PROVE  InHand(t)'
  BY <1>28, DistinctAssumption DEF PcTyped, AtTyped, RegTyped, ChanTyped,
     AsleepTyped, PteTyped, Shape, InHand, EvictPcs, OwingPcs, DiscardPcs,
     SwapInPcs, EvictCommit, Handover, InflightStill, Inflight, Swapped,
     FreeSlot, Vic, Seen, Go, history
<1>29. ASSUME EvictFree(t)
      PROVE  InHand(t)'
  BY <1>29, DistinctAssumption DEF PcTyped, AtTyped, RegTyped, ChanTyped,
     AsleepTyped, PteTyped, Shape, InHand, EvictPcs, OwingPcs, DiscardPcs,
     SwapInPcs, EvictFree, FreeFrame, Seen, Go, history
<1>30. ASSUME EvictWake(t)
      PROVE  InHand(t)'
  BY <1>30, DistinctAssumption DEF PcTyped, AtTyped, RegTyped, ChanTyped,
     AsleepTyped, PteTyped, Shape, InHand, EvictPcs, OwingPcs, DiscardPcs,
     SwapInPcs, EvictWake, Vic, NextVictim, Go, memVars, history, NoReg
<1>31. ASSUME SwapInLoad(t)
      PROVE  InHand(t)'
  <2>1. pc[t] = "siLoad" /\ UNCHANGED <<chan, asleep>>
    BY <1>31 DEF SwapInLoad
  <2>2. ASSUME NEW f \in Frames, Go(t, "siPublish"), pte[at[t]].k = "swapped",
               reg' = [reg EXCEPT ![t].seen = pte[at[t]], ![t].frame = f],
               UNCHANGED at
        PROVE  InHand(t)'
    <3>1. /\ pc'[t] = "siPublish"
          /\ reg'[t].seen.k = "swapped" /\ reg'[t].frame = f
      BY <2>2 DEF Go, PcTyped, RegTyped, Regs
    <3> QED BY <2>1, <2>2, <3>1, DistinctAssumption DEF Shape, InHand,
               EvictPcs, OwingPcs, DiscardPcs, SwapInPcs
  <2>3. ASSUME NEW l \in {"user", "oom"}, Go(t, l)
        PROVE  InHand(t)'
    <3>1. pc'[t] = l
      BY <2>3 DEF Go, PcTyped
    <3> QED BY <2>1, <2>3, <3>1, DistinctAssumption DEF Shape, InHand,
               EvictPcs, OwingPcs, DiscardPcs, SwapInPcs
  <2> QED BY <1>31, <2>2, <2>3 DEF SwapInLoad, Return
<1>32. ASSUME SwapInPublish(t)
      PROVE  InHand(t)'
  BY <1>32, DistinctAssumption DEF PcTyped, AtTyped, RegTyped, ChanTyped,
     AsleepTyped, PteTyped, Shape, InHand, EvictPcs, OwingPcs, DiscardPcs,
     SwapInPcs, SwapInPublish, Go, memVars, history
<1>33. ASSUME SwapInRead(t)
      PROVE  InHand(t)'
  BY <1>33, DistinctAssumption DEF PcTyped, AtTyped, RegTyped, ChanTyped,
     AsleepTyped, PteTyped, Shape, InHand, EvictPcs, OwingPcs, DiscardPcs,
     SwapInPcs, SwapInRead, FreeFrame, Seen, Go, history, NoReg
<1>34. ASSUME SwapInInstall(t)
      PROVE  InHand(t)'
  BY <1>34, DistinctAssumption DEF PcTyped, AtTyped, RegTyped, ChanTyped,
     AsleepTyped, PteTyped, Shape, InHand, EvictPcs, OwingPcs, DiscardPcs,
     SwapInPcs, SwapInInstall, SwapInWins, Present, FreeFrame, Return, Seen,
     Go, NoReg
<1>35. ASSUME SwapInShoot(t)
      PROVE  InHand(t)'
  BY <1>35, DistinctAssumption DEF PcTyped, AtTyped, RegTyped, ChanTyped,
     AsleepTyped, PteTyped, Shape, InHand, EvictPcs, OwingPcs, DiscardPcs,
     SwapInPcs, SwapInShoot, Flush, Go, history, NoPte
<1>36. ASSUME SwapInFree(t)
      PROVE  InHand(t)'
  BY <1>36, DistinctAssumption DEF PcTyped, AtTyped, RegTyped, ChanTyped,
     AsleepTyped, PteTyped, Shape, InHand, EvictPcs, OwingPcs, DiscardPcs,
     SwapInPcs, SwapInFree, FreeSlot, Seen, Return, Go, history, NoReg
<1>37. ASSUME Kill(t)
      PROVE  InHand(t)'
  BY <1>37, DistinctAssumption DEF PcTyped, AtTyped, RegTyped, ChanTyped,
     AsleepTyped, PteTyped, Shape, InHand, EvictPcs, OwingPcs, DiscardPcs,
     SwapInPcs, Kill, MayKill, Alive, Mapped, Go, NoReg, NoPte
<1> QED BY <1>1, <1>2, <1>3, <1>4, <1>5, <1>6, <1>7, <1>8, <1>9, <1>10, <1>11,
           <1>12, <1>13, <1>14, <1>15, <1>16, <1>17, <1>18, <1>19, <1>20,
           <1>21, <1>22, <1>23, <1>24, <1>25, <1>26, <1>27, <1>28, <1>29,
           <1>30, <1>31, <1>32, <1>33, <1>34, <1>35, <1>36, <1>37 DEF Step,
           UserStep, FaultStep, EvictStep, SwapInStep

\* What a thread has in hand follows from where it is.
LEMMA ShapeStep ==
  ASSUME PcTyped, AtTyped, RegTyped, ChanTyped, AsleepTyped, PteTyped,
         PendTyped, Shape, NEW t \in Threads, Step(t)
  PROVE  Shape'
<1>1. ASSUME NEW u \in Threads \ {t}
      PROVE  InHand(u)'
  BY OthersKept, DistinctAssumption DEF Shape, InHand
<1> QED BY <1>1, OwnShape DEF Shape, InHand

\* These leave every frame and every slot with its owner.
LEMMA NoneMoved ==
  ASSUME Typed, Shape, NEW t \in Threads,
         \/ (\E p \in Pages : Read(t, p))
         \/ (\E p \in Pages, v \in Values : Write(t, p, v))
         \/ (\E p \in Pages : Fault(t, p))
         \/ (\E p \in Pages : Mprotect(t, p)) \/ Lookup(t) \/ Enrol(t)
         \/ Recheck(t) \/ Resume(t) \/ Dispatch(t) \/ LazyShort(t)
         \/ (\E p \in Pages : Victim(t, p)) \/ EndReclaim(t) \/ Age(t)
         \/ DiscardLoad(t) \/ DiscardShoot(t) \/ EvictClaim(t)
         \/ EvictShoot(t) \/ EvictWrite(t) \/ EvictRestore(t)
         \/ EvictReshoot(t) \/ EvictWake(t) \/ SwapInPublish(t)
         \/ SwapInShoot(t)
  PROVE  UNCHANGED <<HeldFrame, HeldSlot, PageFrame, PageSlot, used>>
<1>1. CASE
        \/ (\E p \in Pages : Read(t, p)) \/ (\E p \in Pages : Fault(t, p))
        \/ Lookup(t)
  BY <1>1, DistinctAssumption DEF Typed, PteTyped, PcTyped, AtTyped, RegTyped,
     PendTyped, UsedTyped, Shape, InHand, EvictPcs, OwingPcs, DiscardPcs,
     SwapInPcs, FaultPcs, HeldFrame, HeldSlot, PageFrame, PageSlot, FrameFor,
     SlotFor, FrameIn, SlotIn, Read, history, NoPte, Fault, Go, Lookup, memVars
<1>2. CASE
        \/ Enrol(t) \/ Recheck(t) \/ Resume(t)
  BY <1>2, DistinctAssumption DEF Typed, PteTyped, PcTyped, AtTyped, RegTyped,
     PendTyped, UsedTyped, Shape, InHand, EvictPcs, OwingPcs, DiscardPcs,
     SwapInPcs, FaultPcs, HeldFrame, HeldSlot, PageFrame, PageSlot, FrameFor,
     SlotFor, FrameIn, SlotIn, Enrol, Go, memVars, history, Recheck, Settled,
     Resume
<1>3. CASE
        \/ Dispatch(t) \/ LazyShort(t) \/ DiscardLoad(t)
  BY <1>3, DistinctAssumption DEF Typed, PteTyped, PcTyped, AtTyped, RegTyped,
     PendTyped, UsedTyped, Shape, InHand, EvictPcs, OwingPcs, DiscardPcs,
     SwapInPcs, FaultPcs, HeldFrame, HeldSlot, PageFrame, PageSlot, FrameFor,
     SlotFor, FrameIn, SlotIn, Dispatch, Return, Go, memVars, history, NoReg,
     LazyShort, DiscardLoad, Clean, Vic
<1>4. CASE
        \/ DiscardShoot(t) \/ EvictClaim(t) \/ EvictShoot(t)
  BY <1>4, DistinctAssumption DEF Typed, PteTyped, PcTyped, AtTyped, RegTyped,
     PendTyped, UsedTyped, Shape, InHand, EvictPcs, OwingPcs, DiscardPcs,
     SwapInPcs, FaultPcs, HeldFrame, HeldSlot, PageFrame, PageSlot, FrameFor,
     SlotFor, FrameIn, SlotIn, DiscardShoot, Flush, Vic, Go, history, NoPte,
     EvictClaim, Seen, Inflight, EvictShoot, EvictFlush
<1>5. CASE
        \/ EvictWrite(t) \/ EvictRestore(t) \/ EvictReshoot(t)
  BY <1>5, DistinctAssumption DEF Typed, PteTyped, PcTyped, AtTyped, RegTyped,
     PendTyped, UsedTyped, Shape, InHand, EvictPcs, OwingPcs, DiscardPcs,
     SwapInPcs, FaultPcs, HeldFrame, HeldSlot, PageFrame, PageSlot, FrameFor,
     SlotFor, FrameIn, SlotIn, EvictWrite, Seen, Go, history, EvictRestore,
     InflightStill, Inflight, Vic, EvictReshoot, Flush, NoPte
<1>6. CASE
        \/ EvictWake(t) \/ SwapInPublish(t) \/ SwapInShoot(t)
  BY <1>6, DistinctAssumption DEF Typed, PteTyped, PcTyped, AtTyped, RegTyped,
     PendTyped, UsedTyped, Shape, InHand, EvictPcs, OwingPcs, DiscardPcs,
     SwapInPcs, FaultPcs, HeldFrame, HeldSlot, PageFrame, PageSlot, FrameFor,
     SlotFor, FrameIn, SlotIn, EvictWake, Vic, NextVictim, Go, memVars,
     history, NoReg, SwapInPublish, SwapInShoot, Flush, NoPte
<1>7. CASE
        \/ (\E p \in Pages, v \in Values : Write(t, p, v))
  <2>1. UNCHANGED <<pc, reg, used>>
    BY <1>7 DEF Write
  <2>2. PICK p \in Pages, v \in Values : Write(t, p, v)
    BY <1>7
  <2>3. CASE Cached(t, p, TRUE)
    BY <2>1, <2>2, <2>3 DEF Write, HeldFrame, HeldSlot, PageFrame, PageSlot
  <2>4. CASE ~Cached(t, p, TRUE)
    <3>1. pte[p] \in [k : {"present"}, frame : Frames, dirty : BOOLEAN]
      BY <2>2, <2>4, PresentPte DEF Write, Typed, PteTyped
    <3>2. pte' = [pte EXCEPT ![p] = [pte[p] EXCEPT !.dirty = TRUE]]
      BY <2>2, <2>4 DEF Write
    <3>3. \A q \in Pages : /\ pte'[q].k = pte[q].k
                           /\ FrameIn(pte'[q]) = FrameIn(pte[q])
                           /\ SlotIn(pte'[q]) = SlotIn(pte[q])
      BY <3>1, <3>2 DEF Typed, PteTyped, FrameIn, SlotIn
    <3> QED BY <2>1, <3>3 DEF HeldFrame, HeldSlot, PageFrame, PageSlot
  <2> QED BY <2>3, <2>4
<1>8. CASE
        \/ (\E p \in Pages : Mprotect(t, p))
  <2>1. UNCHANGED <<pc, reg, used>>
    BY <1>8 DEF Mprotect
  <2>2. PICK p \in Pages : Mprotect(t, p)
    BY <1>8
  <2>3. /\ pte[p].k = "present"
        /\ pte' = [pte EXCEPT ![p] = Present(pte[p].frame, FALSE)]
    BY <2>2 DEF Mprotect
  <2>4. \A q \in Pages : /\ FrameIn(pte'[q]) = FrameIn(pte[q])
                         /\ SlotIn(pte'[q]) = SlotIn(pte[q])
    BY <2>3 DEF Typed, PteTyped, FrameIn, SlotIn, Present
  <2> QED BY <2>1, <2>4 DEF HeldFrame, HeldSlot, PageFrame, PageSlot
<1>9. CASE
        \/ Age(t)
  <2>1. /\ pc[t] = "age" /\ pc' = [pc EXCEPT ![t] = "reclaim"]
        /\ reg' = [reg EXCEPT ![t] = [NoReg EXCEPT !.then = reg[t].then]]
        /\ UNCHANGED used
    BY <1>9 DEF Age, NextVictim, Go
  <2>2. pte' = pte
    BY <1>9 DEF Age, AgeClears, Typed, PteTyped
  <2> QED BY <2>1, <2>2 DEF Typed, PcTyped, RegTyped, HeldFrame, HeldSlot,
             PageFrame, PageSlot, FrameFor, SlotFor
<1>10. CASE
        \/ (\E p \in Pages : Victim(t, p))
  <2>1. /\ pc[t] = "reclaim" /\ UNCHANGED <<pte, used>>
        /\ \E l \in {"age", "dcLoad", "evLoad"} : pc' = [pc EXCEPT ![t] = l]
        /\ \A u \in Threads \ {t} : reg'[u] = reg[u]
    BY <1>10 DEF Victim, Go, memVars, Typed, RegTyped
  <2> QED BY <2>1 DEF Typed, PcTyped, RegTyped, HeldFrame, HeldSlot, PageFrame,
             PageSlot, FrameFor, SlotFor
<1>11. CASE
        \/ EndReclaim(t)
  <2>1. /\ pc[t] = "reclaim" /\ pc' = [pc EXCEPT ![t] = reg[t].then]
        /\ reg' = [reg EXCEPT ![t] = NoReg] /\ UNCHANGED <<pte, used>>
    BY <1>11 DEF EndReclaim, Go, memVars
  <2>2. reg[t].then \in {"siLoad", "lazy"}
    BY <2>1 DEF Typed, Shape, InHand, RegTyped, Regs
  <2> QED BY <2>1, <2>2 DEF Typed, PcTyped, RegTyped, HeldFrame, HeldSlot,
             PageFrame, PageSlot, FrameFor, SlotFor
<1> QED BY <1>1, <1>2, <1>3, <1>4, <1>5, <1>6, <1>7, <1>8, <1>9, <1>10, <1>11

\* Somebody owns the frame or slot x.
Named(x) ==
  \/ \E t \in Threads : HeldFrame[t] = x \/ HeldSlot[t] = x
  \/ \E p \in Pages : PageFrame[p] = x \/ PageSlot[p] = x

\* A step of t leaves nothing in use without an owner that had one or was free
\* before, but for what t has on its stack when it is killed.
NamesKept(t) ==
  \A x \in used' \ {None} :
    \/ Named(x)'
    \/ x \in used /\ ~Named(x)
    \/ Kill(t) /\ (x = HeldFrame[t] \/ x = HeldSlot[t])

\* A frame just taken is named by the thread that took it, which held none.
LEMMA FrameHeld ==
  ASSUME Typed, Shape, NEW t \in Threads, NEW f \in Frames, used' = used \cup {f},
         UNCHANGED <<PageFrame, PageSlot, HeldSlot>>, HeldFrame[t] = None,
         HeldFrame' = [HeldFrame EXCEPT ![t] = f]
  PROVE  NamesKept(t)
<1>1. HeldFrame'[t] = f /\ \A u \in Threads \ {t} : HeldFrame'[u] = HeldFrame[u]
  BY HeldTypes
<1>2. \A x \in (used \cup {f}) \ {None} : Named(x) \/ x = f => Named(x)'
  BY <1>1 DEF Named
<1> QED BY <1>2 DEF NamesKept

\* The same of a slot.
LEMMA SlotHeld ==
  ASSUME Typed, Shape, NEW t \in Threads, NEW s \in Slots, used' = used \cup {s},
         UNCHANGED <<PageFrame, PageSlot, HeldFrame>>, HeldSlot[t] = None,
         HeldSlot' = [HeldSlot EXCEPT ![t] = s]
  PROVE  NamesKept(t)
<1>1. HeldSlot'[t] = s /\ \A u \in Threads \ {t} : HeldSlot'[u] = HeldSlot[u]
  BY HeldTypes
<1>2. \A x \in (used \cup {s}) \ {None} : Named(x) \/ x = s => Named(x)'
  BY <1>1 DEF Named
<1> QED BY <1>2 DEF NamesKept

\* No frame and no slot ever has two owners, and none that is owned is free.
\* Each of these steps takes one from nobody, gives one up with its name, or
\* passes one on in a single compare-and-swap, so that none is lost either.
LEMMA OwnStep ==
  ASSUME Typed, Shape, OwnInv, NEW t \in Threads, Step(t)
  PROVE  OwnInv' /\ NamesKept(t)
<1>1. ASSUME
        \/ (\E p \in Pages : Read(t, p))
        \/ (\E p \in Pages, v \in Values : Write(t, p, v))
        \/ (\E p \in Pages : Fault(t, p)) \/ (\E p \in Pages : Mprotect(t, p))
        \/ Lookup(t) \/ Enrol(t) \/ Recheck(t) \/ Resume(t) \/ Dispatch(t)
        \/ LazyShort(t) \/ (\E p \in Pages : Victim(t, p)) \/ EndReclaim(t)
        \/ Age(t) \/ DiscardLoad(t) \/ DiscardShoot(t) \/ EvictClaim(t)
        \/ EvictShoot(t) \/ EvictWrite(t) \/ EvictRestore(t)
        \/ EvictReshoot(t) \/ EvictWake(t) \/ SwapInPublish(t)
        \/ SwapInShoot(t)
      PROVE  OwnInv' /\ NamesKept(t)
  <2>1. UNCHANGED <<HeldFrame, HeldSlot, PageFrame, PageSlot, used>>
    BY <1>1, NoneMoved
  <2>2. OwnInv'
    BY <2>1 DEF OwnInv, OneFrame, OneSlot, One
  <2>3. NamesKept(t)
    BY <2>1 DEF NamesKept, Named
  <2> QED BY <2>2, <2>3
<1>2. ASSUME LazyAlloc(t)
      PROVE  OwnInv' /\ NamesKept(t)
  <2>1. PICK f \in Frames \ used : 
          /\ used' = used \cup {f}
          /\ reg' = [reg EXCEPT ![t] = [reg[t] EXCEPT !.frame = f]]
    BY <1>2 DEF LazyAlloc
  <2>2. pc[t] = "lazy" /\ pc' = [pc EXCEPT ![t] = "lazyMap"] /\ UNCHANGED pte
    BY <1>2 DEF LazyAlloc, Go
  <2>3. reg'[t].frame = f
    BY <2>1 DEF Typed, RegTyped, Regs
  <2>4. HeldFrame' = [HeldFrame EXCEPT ![t] = f] /\ UNCHANGED HeldSlot
    BY <2>1, <2>2 DEF FrameFor, SlotFor, HeldSlot, Typed, RegTyped, Regs,
       HeldFrame, PcTyped
  <2>5. OwnInv'
    BY <2>1, <2>2, <2>4, SameEntries, DistinctAssumption, HeldTypes DEF OwnInv,
       OneFrame, OneSlot, One, Typed, UsedTyped
  <2>6. HeldFrame[t] = None /\ HeldFrame'[t] = f
    BY <2>2, <2>4, HeldTypes DEF HeldFrame, FrameFor
  <2>7. NamesKept(t)
    BY <2>1, <2>2, <2>4, <2>6, SameEntries, FrameHeld
  <2> QED BY <2>5, <2>7
<1>3. ASSUME LazyMap(t)
      PROVE  OwnInv' /\ NamesKept(t)
  <2>1. /\ pc[t] = "lazyMap" /\ pc' = [pc EXCEPT ![t] = "user"]
        /\ reg' = [reg EXCEPT ![t] = NoReg]
        /\ at[t] \in Pages /\ reg[t].frame \in Frames
    BY <1>3 DEF LazyMap, Return, Go, Shape, InHand
  <2>2. /\ HeldFrame' = [HeldFrame EXCEPT ![t] = None]
        /\ HeldFrame[t] = reg[t].frame
        /\ HeldSlot' = HeldSlot
    BY <2>1 DEF FrameFor, SlotFor, HeldFrame, HeldSlot, Typed, PcTyped,
       RegTyped
  <2>3. CASE Unmapped(at[t])
    <3>1. /\ pte' = [pte EXCEPT ![at[t]] = Present(reg[t].frame, FALSE)]
          /\ pte[at[t]] = NoPte /\ used' = used
      BY <1>3, <2>3 DEF LazyMap, Unmapped
    <3>2. /\ PageFrame' = [PageFrame EXCEPT ![at[t]] = reg[t].frame]
          /\ PageFrame[at[t]] = None /\ UNCHANGED PageSlot
      BY <2>1, <3>1 DEF FrameIn, SlotIn, PageFrame, PageSlot, Present, NoPte,
         Typed, PteTyped
    <3>3. OwnInv'
      BY <2>1, <2>2, <3>1, <3>2, DistinctAssumption, HeldTypes DEF OwnInv,
         OneFrame, OneSlot, One, Typed, UsedTyped
    <3>4. NamesKept(t)
      BY <2>1, <2>2, <3>1, <3>2, DistinctAssumption, HeldTypes DEF NamesKept,
         Named
    <3> QED BY <3>3, <3>4
  <2>4. CASE ~Unmapped(at[t])
    <3>1. UNCHANGED pte /\ used' = used \ {reg[t].frame}
      BY <1>3, <2>4 DEF LazyMap, FreeFrame
    <3>2. OwnInv'
      BY <2>1, <2>2, <3>1, SameEntries, DistinctAssumption, HeldTypes DEF
         OwnInv, OneFrame, OneSlot, One, Typed, UsedTyped
    <3>3. NamesKept(t)
      BY <2>1, <2>2, <3>1, SameEntries, DistinctAssumption, HeldTypes DEF
         NamesKept, Named
    <3> QED BY <3>2, <3>3
  <2> QED BY <2>3, <2>4
<1>4. ASSUME DiscardClaim(t)
      PROVE  OwnInv' /\ NamesKept(t)
  <2>1. /\ pc[t] = "dcClaim" /\ reg' = [reg EXCEPT ![t] = reg[t]]
        /\ UNCHANGED used
        /\ reg[t].victim \in Pages /\ reg[t].seen.k = "present"
    BY <1>4 DEF DiscardClaim, Typed, RegTyped, Shape, InHand, DiscardPcs
  <2>2. CASE pte[Vic(t)] = Seen(t)
    <3>1. /\ pte' = [pte EXCEPT ![reg[t].victim] = NoPte]
          /\ pc' = [pc EXCEPT ![t] = "dcShoot"]
          /\ pte[reg[t].victim] = reg[t].seen
      BY <1>4, <2>2 DEF DiscardClaim, Go, Vic, Seen
    <3>2. /\ HeldFrame' = [HeldFrame EXCEPT ![t] = PageFrame[reg[t].victim]]
          /\ HeldFrame[t] = None /\ UNCHANGED HeldSlot
      BY <2>1, <3>1 DEF FrameFor, SlotFor, HeldFrame, HeldSlot, PageFrame,
         FrameIn, Typed, PcTyped, RegTyped
    <3>3. /\ PageFrame' = [PageFrame EXCEPT ![reg[t].victim] = None]
          /\ UNCHANGED PageSlot
      BY <2>1, <3>1 DEF FrameIn, SlotIn, PageSlot, NoPte, PageFrame, Typed,
         PteTyped
    <3>4. OwnInv'
      BY <2>1, <3>2, <3>3, DistinctAssumption, HeldTypes DEF OwnInv, OneFrame,
         OneSlot, One, Typed, UsedTyped
    <3>5. NamesKept(t)
      BY <2>1, <3>2, <3>3, DistinctAssumption, HeldTypes DEF NamesKept, Named
    <3> QED BY <3>4, <3>5
  <2>3. CASE pte[Vic(t)] # Seen(t)
    <3>1. pc' = [pc EXCEPT ![t] = "evLoad"] /\ UNCHANGED pte
      BY <1>4, <2>3 DEF DiscardClaim, Go
    <3>2. UNCHANGED <<HeldFrame, HeldSlot>>
      BY <2>1, <3>1 DEF FrameFor, SlotFor, HeldFrame, HeldSlot, Typed, PcTyped,
         RegTyped
    <3>3. OwnInv'
      BY <2>1, <3>1, <3>2, SameEntries, HeldTypes DEF OwnInv, OneFrame,
         OneSlot, One, Typed, UsedTyped
    <3>4. NamesKept(t)
      BY <2>1, <3>1, <3>2, SameEntries, HeldTypes DEF NamesKept, Named
    <3> QED BY <3>3, <3>4
  <2> QED BY <2>2, <2>3
<1>5. ASSUME DiscardFree(t)
      PROVE  OwnInv' /\ NamesKept(t)
  <2>1. /\ pc[t] = "dcFree" /\ pc' = [pc EXCEPT ![t] = "reclaim"]
        /\ reg' = [reg EXCEPT ![t] = [NoReg EXCEPT !.then = reg[t].then]]
        /\ UNCHANGED pte
        /\ used' = used \ {reg[t].seen.frame} /\ reg[t].seen.k = "present"
    BY <1>5 DEF DiscardFree, FreeFrame, Seen, NextVictim, Go, history, NoReg,
       Typed, RegTyped, Shape, InHand, DiscardPcs, EvictPcs, OwingPcs
  <2>2. reg[t].seen.frame \in Frames
    BY <2>1, SeenFrame
  <2>3. /\ HeldFrame' = [HeldFrame EXCEPT ![t] = None]
        /\ HeldFrame[t] = reg[t].seen.frame
        /\ UNCHANGED HeldSlot
    BY <2>1 DEF FrameFor, SlotFor, HeldFrame, HeldSlot, Typed, PcTyped,
       RegTyped
  <2>4. OwnInv'
    BY <2>1, <2>2, <2>3, SameEntries, DistinctAssumption, HeldTypes DEF OwnInv,
       OneFrame, OneSlot, One, Typed, UsedTyped
  <2>5. NamesKept(t)
    BY <2>1, <2>2, <2>3, SameEntries, DistinctAssumption, HeldTypes DEF
       NamesKept, Named
  <2> QED BY <2>4, <2>5
<1>6. ASSUME EvictFree(t)
      PROVE  OwnInv' /\ NamesKept(t)
  <2>1. /\ pc[t] = "evFree" /\ pc' = [pc EXCEPT ![t] = "evWake"]
        /\ reg' = [reg EXCEPT ![t] = reg[t]] /\ UNCHANGED pte
        /\ used' = used \ {reg[t].seen.frame} /\ reg[t].seen.k = "present"
    BY <1>6 DEF EvictFree, FreeFrame, Seen, Go, history, Typed, RegTyped,
       Shape, InHand, DiscardPcs, EvictPcs, OwingPcs
  <2>2. reg[t].seen.frame \in Frames
    BY <2>1, SeenFrame
  <2>3. /\ HeldFrame' = [HeldFrame EXCEPT ![t] = None]
        /\ HeldFrame[t] = reg[t].seen.frame
        /\ UNCHANGED HeldSlot
    BY <2>1 DEF FrameFor, SlotFor, HeldFrame, HeldSlot, Typed, PcTyped,
       RegTyped
  <2>4. OwnInv'
    BY <2>1, <2>2, <2>3, SameEntries, DistinctAssumption, HeldTypes DEF OwnInv,
       OneFrame, OneSlot, One, Typed, UsedTyped
  <2>5. NamesKept(t)
    BY <2>1, <2>2, <2>3, SameEntries, DistinctAssumption, HeldTypes DEF
       NamesKept, Named
  <2> QED BY <2>4, <2>5
<1>7. ASSUME EvictLoad(t)
      PROVE  OwnInv' /\ NamesKept(t)
  <2>1. pc[t] = "evLoad" /\ UNCHANGED pte
    BY <1>7 DEF EvictLoad
  <2>2. ASSUME NEW s \in Slots \ used, used' = used \cup {s}, Go(t, "evClaim"),
               reg' = [reg EXCEPT ![t].seen = pte[Vic(t)], ![t].slot = s]
        PROVE  OwnInv' /\ NamesKept(t)
    <3>1. /\ pc' = [pc EXCEPT ![t] = "evClaim"]
          /\ reg' = [reg EXCEPT ![t] = [reg[t] EXCEPT !.seen = pte[Vic(t)],
                                                 !.slot = s]]
      BY <2>2 DEF Go, Typed, RegTyped
    <3>2. HeldSlot' = [HeldSlot EXCEPT ![t] = s] /\ UNCHANGED HeldFrame
      BY <2>1, <3>1 DEF FrameFor, SlotFor, HeldFrame, Typed, RegTyped, Regs,
         HeldSlot, PcTyped
    <3>3. OwnInv'
      BY <2>1, <2>2, <3>2, SameEntries, DistinctAssumption, HeldTypes DEF
         OwnInv, OneFrame, OneSlot, One, Typed, UsedTyped
    <3>4. HeldSlot[t] = None
      BY <2>1 DEF HeldSlot, SlotFor, OwingPcs
    <3>5. NamesKept(t)
      BY <2>1, <2>2, <3>2, <3>4, SameEntries, SlotHeld
    <3> QED BY <3>3, <3>5
  <2>3. CASE NextVictim(t) /\ UNCHANGED used
    <3>1. /\ pc' = [pc EXCEPT ![t] = "reclaim"]
          /\ reg' = [reg EXCEPT ![t] = [NoReg EXCEPT !.then = reg[t].then]]
      BY <2>3 DEF NextVictim, Go
    <3>2. UNCHANGED <<HeldFrame, HeldSlot>>
      BY <2>1, <3>1 DEF FrameFor, SlotFor, HeldFrame, HeldSlot, Typed, PcTyped,
         RegTyped
    <3>3. OwnInv'
      BY <2>1, <2>3, <3>2, SameEntries, HeldTypes DEF OwnInv, OneFrame,
         OneSlot, One, Typed, UsedTyped
    <3>4. NamesKept(t)
      BY <2>1, <2>3, <3>2, SameEntries, HeldTypes DEF NamesKept, Named
    <3> QED BY <3>3, <3>4
  <2> QED BY <1>7, <2>2, <2>3 DEF EvictLoad
<1>8. ASSUME EvictLost(t)
      PROVE  OwnInv' /\ NamesKept(t)
  <2>1. /\ pc[t] = "evClaim" /\ pc' = [pc EXCEPT ![t] = "reclaim"]
        /\ reg' = [reg EXCEPT ![t] = [NoReg EXCEPT !.then = reg[t].then]]
        /\ UNCHANGED pte
        /\ used' = used \ {reg[t].slot} /\ reg[t].slot \in Slots
    BY <1>8 DEF EvictLost, FreeSlot, NextVictim, Go, history, NoReg, Typed,
       RegTyped, UsedTyped, Shape, InHand, EvictPcs, OwingPcs
  <2>2. /\ HeldSlot' = [HeldSlot EXCEPT ![t] = None]
        /\ HeldSlot[t] = reg[t].slot
        /\ UNCHANGED HeldFrame
    BY <2>1 DEF FrameFor, SlotFor, HeldFrame, HeldSlot, Typed, PcTyped,
       RegTyped
  <2>3. OwnInv'
    BY <2>1, <2>2, SameEntries, DistinctAssumption, HeldTypes DEF OwnInv,
       OneFrame, OneSlot, One, Typed, UsedTyped
  <2>4. NamesKept(t)
    BY <2>1, <2>2, SameEntries, DistinctAssumption, HeldTypes DEF NamesKept,
       Named
  <2> QED BY <2>3, <2>4
<1>9. ASSUME EvictUndo(t)
      PROVE  OwnInv' /\ NamesKept(t)
  <2>1. /\ pc[t] = "evUndo" /\ pc' = [pc EXCEPT ![t] = "evWake"]
        /\ reg' = [reg EXCEPT ![t] = reg[t]] /\ UNCHANGED pte
        /\ used' = used \ {reg[t].slot} /\ reg[t].slot \in Slots
    BY <1>9 DEF EvictUndo, FreeSlot, Go, history, Typed, RegTyped, UsedTyped,
       Shape, InHand, EvictPcs, OwingPcs
  <2>2. /\ HeldSlot' = [HeldSlot EXCEPT ![t] = None]
        /\ HeldSlot[t] = reg[t].slot
        /\ UNCHANGED HeldFrame
    BY <2>1 DEF FrameFor, SlotFor, HeldFrame, HeldSlot, Typed, PcTyped,
       RegTyped
  <2>3. OwnInv'
    BY <2>1, <2>2, SameEntries, DistinctAssumption, HeldTypes DEF OwnInv,
       OneFrame, OneSlot, One, Typed, UsedTyped
  <2>4. NamesKept(t)
    BY <2>1, <2>2, SameEntries, DistinctAssumption, HeldTypes DEF NamesKept,
       Named
  <2> QED BY <2>3, <2>4
<1>10. ASSUME EvictCommit(t)
      PROVE  OwnInv' /\ NamesKept(t)
  <2>1. /\ pc[t] = "evCommit" /\ reg' = [reg EXCEPT ![t] = reg[t]]
        /\ reg[t].victim \in Pages /\ reg[t].slot \in Slots
    BY <1>10 DEF EvictCommit, Typed, RegTyped, Shape, InHand, EvictPcs,
       OwingPcs
  <2>2. HeldSlot[t] = reg[t].slot /\ HeldFrame[t] = None
    BY <2>1 DEF HeldFrame, HeldSlot, FrameFor, SlotFor
  <2>3. CASE InflightStill(t)
    <3>1. /\ pte' = [pte EXCEPT ![reg[t].victim] = Swapped(reg[t].slot)]
          /\ UNCHANGED used
          /\ pc' = [pc EXCEPT ![t] = "evFree"]
          /\ pte[reg[t].victim] = Inflight(reg[t].seen.frame)
      BY <1>10, <2>3 DEF EvictCommit, InflightStill, Vic, Seen, Go
    <3>2. /\ PageFrame[reg[t].victim] = reg[t].seen.frame
          /\ PageSlot[reg[t].victim] = None
      BY <2>1, <3>1 DEF PageFrame, PageSlot, FrameIn, SlotIn, Inflight
    <3>3. /\ HeldFrame' = [HeldFrame EXCEPT ![t] = reg[t].seen.frame]
          /\ HeldSlot' = [HeldSlot EXCEPT ![t] = None]
      BY <2>1, <3>1 DEF FrameFor, SlotFor, PageFrame, FrameIn, Inflight,
         HeldFrame, HeldSlot, Typed, PcTyped, RegTyped
    <3>4. /\ PageFrame' = [PageFrame EXCEPT ![reg[t].victim] = None]
          /\ PageSlot' = [PageSlot EXCEPT ![reg[t].victim] = reg[t].slot]
      BY <2>1, <3>1 DEF FrameIn, SlotIn, PageSlot, Swapped, Inflight,
         PageFrame, Typed, PteTyped
    <3>5. OneFrame'
      BY <2>1, <2>2, <3>1, <3>3, <3>4, <3>2, DistinctAssumption, HeldTypes
         DEF OwnInv, OneFrame, OneSlot, One, Typed, UsedTyped
    <3>6. OneSlot'
      BY <2>1, <2>2, <3>1, <3>3, <3>4, <3>2, DistinctAssumption, HeldTypes
         DEF OwnInv, OneFrame, OneSlot, One, Typed, UsedTyped
    <3>7. NamesKept(t)
      BY <2>1, <2>2, <3>1, <3>2, <3>3, <3>4, DistinctAssumption, HeldTypes DEF
         NamesKept, Named, Typed, UsedTyped
    <3> QED BY <3>5, <3>6, <3>7 DEF OwnInv
  <2>4. CASE ~InflightStill(t)
    <3>1. /\ UNCHANGED pte /\ used' = used \ {reg[t].slot}
          /\ pc' = [pc EXCEPT ![t] = "evWake"]
      BY <1>10, <2>4 DEF EvictCommit, FreeSlot, Go, Typed, UsedTyped
    <3>2. UNCHANGED HeldFrame /\ HeldSlot' = [HeldSlot EXCEPT ![t] = None]
      BY <2>1, <3>1 DEF FrameFor, SlotFor, HeldFrame, HeldSlot, Typed, PcTyped,
         RegTyped
    <3>3. OwnInv'
      BY <2>1, <2>2, <3>1, <3>2, SameEntries, DistinctAssumption, HeldTypes DEF
         OwnInv, OneFrame, OneSlot, One, Typed, UsedTyped
    <3>4. NamesKept(t)
      BY <2>1, <2>2, <3>1, <3>2, SameEntries, DistinctAssumption, HeldTypes DEF
         NamesKept, Named
    <3> QED BY <3>3, <3>4
  <2> QED BY <2>3, <2>4
<1>11. ASSUME SwapInLoad(t)
      PROVE  OwnInv' /\ NamesKept(t)
  <2>1. pc[t] = "siLoad" /\ UNCHANGED pte
    BY <1>11 DEF SwapInLoad
  <2>2. ASSUME NEW f \in Frames \ used, used' = used \cup {f},
               Go(t, "siPublish"),
               reg' = [reg EXCEPT ![t].seen = pte[at[t]], ![t].frame = f]
        PROVE  OwnInv' /\ NamesKept(t)
    <3>1. /\ pc' = [pc EXCEPT ![t] = "siPublish"]
          /\ reg' = [reg EXCEPT ![t] = [reg[t] EXCEPT !.seen = pte[at[t]],
                                                 !.frame = f]]
      BY <2>2 DEF Go, Typed, RegTyped
    <3>2. HeldFrame' = [HeldFrame EXCEPT ![t] = f] /\ UNCHANGED HeldSlot
      BY <2>1, <3>1 DEF FrameFor, SlotFor, HeldSlot, Typed, RegTyped, Regs,
         HeldFrame, PcTyped
    <3>3. OwnInv'
      BY <2>1, <2>2, <3>2, SameEntries, DistinctAssumption, HeldTypes DEF
         OwnInv, OneFrame, OneSlot, One, Typed, UsedTyped
    <3>4. HeldFrame[t] = None
      BY <2>1 DEF HeldFrame, FrameFor, OwingPcs
    <3>5. NamesKept(t)
      BY <2>1, <2>2, <3>2, <3>4, SameEntries, FrameHeld
    <3> QED BY <3>3, <3>5
  <2>3. ASSUME NEW l \in {"user", "oom"}, NEW r \in {reg[t], NoReg},
               UNCHANGED used,
               pc' = [pc EXCEPT ![t] = l], reg' = [reg EXCEPT ![t] = r]
        PROVE  OwnInv' /\ NamesKept(t)
    <3>1. UNCHANGED <<HeldFrame, HeldSlot>>
      BY <2>1, <2>3 DEF FrameFor, SlotFor, HeldFrame, HeldSlot, Typed, PcTyped,
         RegTyped
    <3>2. OwnInv'
      BY <2>1, <2>3, <3>1, SameEntries, HeldTypes DEF OwnInv, OneFrame,
         OneSlot, One, Typed, UsedTyped
    <3>3. NamesKept(t)
      BY <2>1, <2>3, <3>1, SameEntries, HeldTypes DEF NamesKept, Named
    <3> QED BY <3>2, <3>3
  <2>4. CASE Return(t) /\ UNCHANGED used
    BY <2>3, <2>4 DEF Return, Go
  <2>5. CASE Go(t, "oom") /\ UNCHANGED <<at, reg, used>>
    BY <2>3, <2>5 DEF Go, Typed, RegTyped
  <2> QED BY <1>11, <2>2, <2>4, <2>5 DEF SwapInLoad
<1>12. ASSUME SwapInRead(t)
      PROVE  OwnInv' /\ NamesKept(t)
  <2>1. pc[t] = "siRead" /\ UNCHANGED pte /\ reg[t].frame \in Frames
    BY <1>12 DEF SwapInRead, Shape, InHand, SwapInPcs
  <2>2. CASE Go(t, "siInstall") /\ UNCHANGED <<used, reg>>
    <3>1. /\ pc' = [pc EXCEPT ![t] = "siInstall"]
          /\ reg' = [reg EXCEPT ![t] = reg[t]]
      BY <2>2 DEF Go, Typed, RegTyped
    <3>2. UNCHANGED <<HeldFrame, HeldSlot>>
      BY <2>1, <3>1 DEF FrameFor, SlotFor, HeldFrame, HeldSlot, Typed, PcTyped,
         RegTyped
    <3>3. OwnInv'
      BY <2>1, <2>2, <3>2, SameEntries, HeldTypes DEF OwnInv, OneFrame,
         OneSlot, One, Typed, UsedTyped
    <3>4. NamesKept(t)
      BY <2>1, <2>2, <3>2, SameEntries, HeldTypes DEF NamesKept, Named
    <3> QED BY <3>3, <3>4
  <2>3. CASE /\ Go(t, "oom") /\ FreeFrame(reg[t].frame)
             /\ reg' = [reg EXCEPT ![t] = NoReg]
    <3>1. /\ HeldFrame' = [HeldFrame EXCEPT ![t] = None]
          /\ HeldFrame[t] = reg[t].frame
          /\ UNCHANGED HeldSlot
      BY <2>1, <2>3 DEF FrameFor, SlotFor, HeldFrame, HeldSlot, Go, Typed,
         PcTyped, RegTyped
    <3>2. used' = used \ {reg[t].frame}
      BY <2>3 DEF FreeFrame
    <3>3. OwnInv'
      BY <2>1, <3>1, <3>2, SameEntries, DistinctAssumption, HeldTypes DEF
         OwnInv, OneFrame, OneSlot, One, Typed, UsedTyped
    <3>4. NamesKept(t)
      BY <2>1, <3>1, <3>2, SameEntries, DistinctAssumption, HeldTypes DEF
         NamesKept, Named
    <3> QED BY <3>3, <3>4
  <2> QED BY <1>12, <2>2, <2>3 DEF SwapInRead
<1>13. ASSUME SwapInInstall(t)
      PROVE  OwnInv' /\ NamesKept(t)
  <2>1. /\ pc[t] = "siInstall" /\ at[t] \in Pages /\ reg[t].frame \in Frames
        /\ reg[t].seen.k = "swapped"
    BY <1>13 DEF SwapInInstall, Shape, InHand, SwapInPcs
  <2>2. HeldFrame[t] = reg[t].frame /\ HeldSlot[t] = None
    BY <2>1 DEF HeldFrame, HeldSlot, FrameFor, SlotFor
  <2>3. CASE SwapInWins(t)
    <3>1. /\ pte' = [pte EXCEPT ![at[t]] = Present(reg[t].frame, FALSE)]
          /\ UNCHANGED used
          /\ pc' = [pc EXCEPT ![t] = "siShoot"]
          /\ reg' = [reg EXCEPT ![t] = reg[t]]
          /\ pte[at[t]] = reg[t].seen
      BY <1>13, <2>3 DEF SwapInInstall, SwapInWins, Go, Seen, Typed, RegTyped
    <3>2. /\ HeldFrame' = [HeldFrame EXCEPT ![t] = None]
          /\ HeldSlot' = [HeldSlot EXCEPT ![t] = PageSlot[at[t]]]
      BY <2>1, <3>1 DEF FrameFor, SlotFor, PageSlot, SlotIn, HeldFrame,
         HeldSlot, Typed, PcTyped, RegTyped
    <3>3. /\ PageFrame' = [PageFrame EXCEPT ![at[t]] = reg[t].frame]
          /\ PageSlot' = [PageSlot EXCEPT ![at[t]] = None]
          /\ PageFrame[at[t]] = None
      BY <2>1, <3>1 DEF FrameIn, SlotIn, PageFrame, Present, PageSlot, Typed,
         PteTyped
    <3>4. OneFrame'
      BY <2>1, <2>2, <3>1, <3>2, <3>3, DistinctAssumption, HeldTypes
         DEF OwnInv, OneFrame, OneSlot, One, Typed, UsedTyped
    <3>5. OneSlot'
      BY <2>1, <2>2, <3>1, <3>2, <3>3, DistinctAssumption, HeldTypes
         DEF OwnInv, OneFrame, OneSlot, One, Typed, UsedTyped
    <3>6. NamesKept(t)
      BY <2>1, <2>2, <3>1, <3>2, <3>3, DistinctAssumption, HeldTypes DEF
         NamesKept, Named, Typed, UsedTyped
    <3> QED BY <3>4, <3>5, <3>6 DEF OwnInv
  <2>4. CASE ~SwapInWins(t)
    <3>1. /\ UNCHANGED pte /\ used' = used \ {reg[t].frame}
          /\ pc' = [pc EXCEPT ![t] = "user"]
          /\ reg' = [reg EXCEPT ![t] = NoReg]
      BY <1>13, <2>4 DEF SwapInInstall, FreeFrame, Return, Go
    <3>2. HeldFrame' = [HeldFrame EXCEPT ![t] = None] /\ UNCHANGED HeldSlot
      BY <2>1, <3>1 DEF FrameFor, SlotFor, HeldSlot, HeldFrame, Typed, PcTyped,
         RegTyped
    <3>3. OwnInv'
      BY <2>1, <2>2, <3>1, <3>2, SameEntries, DistinctAssumption, HeldTypes DEF
         OwnInv, OneFrame, OneSlot, One, Typed, UsedTyped
    <3>4. NamesKept(t)
      BY <2>1, <2>2, <3>1, <3>2, SameEntries, DistinctAssumption, HeldTypes DEF
         NamesKept, Named
    <3> QED BY <3>3, <3>4
  <2> QED BY <2>3, <2>4
<1>14. ASSUME SwapInFree(t)
      PROVE  OwnInv' /\ NamesKept(t)
  <2>1. /\ pc[t] = "siFree" /\ pc' = [pc EXCEPT ![t] = "user"]
        /\ reg' = [reg EXCEPT ![t] = NoReg] /\ UNCHANGED pte
        /\ used' = used \ {reg[t].seen.slot} /\ reg[t].seen.k = "swapped"
    BY <1>14 DEF SwapInFree, FreeSlot, Seen, Return, Go, history, NoReg, Typed,
       UsedTyped, Shape, InHand, SwapInPcs
  <2>2. reg[t].seen.slot \in Slots
    BY <2>1, SeenSlot
  <2>3. /\ HeldSlot' = [HeldSlot EXCEPT ![t] = None]
        /\ HeldSlot[t] = reg[t].seen.slot
        /\ UNCHANGED HeldFrame
    BY <2>1 DEF FrameFor, SlotFor, HeldFrame, HeldSlot, Typed, PcTyped,
       RegTyped
  <2>4. OwnInv'
    BY <2>1, <2>2, <2>3, SameEntries, DistinctAssumption, HeldTypes DEF OwnInv,
       OneFrame, OneSlot, One, Typed, UsedTyped
  <2>5. NamesKept(t)
    BY <2>1, <2>2, <2>3, SameEntries, DistinctAssumption, HeldTypes DEF
       NamesKept, Named
  <2> QED BY <2>4, <2>5
<1>15. ASSUME Kill(t)
      PROVE  OwnInv' /\ NamesKept(t)
  <2>1. pc' = [pc EXCEPT ![t] = "dead"] /\ reg' = [reg EXCEPT ![t] = NoReg]
    BY <1>15 DEF Kill, Go
  <2>2. /\ HeldFrame' = [HeldFrame EXCEPT ![t] = None]
        /\ HeldSlot' = [HeldSlot EXCEPT ![t] = None]
    BY <2>1 DEF FrameFor, SlotFor, HeldFrame, HeldSlot, Typed, PcTyped,
       RegTyped
  <2>3. chan[t].slot # None =>
           chan[t].slot = HeldSlot[t] /\ chan[t].slot \in Slots
    BY DistinctAssumption DEF Typed, Shape, InHand, EvictPcs, OwingPcs,
       DiscardPcs, SwapInPcs, FaultPcs, HeldSlot, SlotFor
  <2>4. chan[t].frame # None =>
           chan[t].frame = HeldFrame[t] /\ chan[t].frame \in Frames
    BY DistinctAssumption DEF Typed, Shape, InHand, EvictPcs, OwingPcs,
       DiscardPcs, SwapInPcs, FaultPcs, HeldFrame, FrameFor
  <2>5. CASE \A u \in Threads \ {t} : ~Alive(u)
    <3>1. pte' = [p \in Pages |-> NoPte]
      BY <1>15, <2>5 DEF Kill
    <3>2. /\ PageFrame' = [p \in Pages |-> None]
          /\ PageSlot' = [p \in Pages |-> None]
      BY <3>1 DEF PageFrame, PageSlot, FrameIn, SlotIn, NoPte
    <3>3. \A u \in Threads : HeldFrame'[u] = None /\ HeldSlot'[u] = None
      BY <2>2, <2>5 DEF HeldFrame, HeldSlot, FrameFor, SlotFor, Alive
    <3>4. OwnInv'
      BY <3>2, <3>3, DistinctAssumption, HeldTypes DEF OwnInv, OneFrame,
         OneSlot, One, Typed, UsedTyped
    <3>5. used' = used \ (({chan[t].slot, chan[t].frame} \ {None}) \cup Mapped)
      BY <1>15, <2>5 DEF Kill
    <3>6. NamesKept(t)
      <4> SUFFICES ASSUME NEW x \in used' \ {None}, Named(x)
                   PROVE  x = HeldFrame[t] \/ x = HeldSlot[t]
        BY <1>15, <3>5 DEF NamesKept
      <4>1. \A u \in Threads \ {t} : HeldFrame[u] = None /\ HeldSlot[u] = None
        BY <2>5 DEF HeldFrame, HeldSlot, FrameFor, SlotFor, Alive
      <4>2. \A p \in Pages : PageFrame[p] # x /\ PageSlot[p] # x
        BY <3>5 DEF Mapped, PageFrame, PageSlot, FrameIn, SlotIn
      <4> QED BY <4>1, <4>2 DEF Named
    <3> QED BY <3>4, <3>6
  <2>6. CASE ~ \A u \in Threads \ {t} : ~Alive(u)
    <3>1. UNCHANGED pte
      BY <1>15, <2>6 DEF Kill
    <3>2. \A x \in used : x # chan[t].slot /\ x # chan[t].frame => x \in used'
      BY <1>15, <2>6 DEF Kill
    <3>3. OneFrame'
      BY <2>2, <2>3, <2>4, <3>1, <3>2, SameEntries, DistinctAssumption,
         HeldTypes DEF OwnInv, OneFrame, OneSlot, One, Typed, UsedTyped
    <3>4. OneSlot'
      BY <2>2, <2>3, <2>4, <3>1, <3>2, SameEntries, DistinctAssumption,
         HeldTypes DEF OwnInv, OneFrame, OneSlot, One, Typed, UsedTyped
    <3>5. used' \subseteq used
      BY <1>15, <2>6 DEF Kill
    <3>6. NamesKept(t)
      BY <1>15, <2>2, <3>1, <3>5, SameEntries, HeldTypes DEF NamesKept, Named
    <3> QED BY <3>3, <3>4, <3>6 DEF OwnInv
  <2> QED BY <2>5, <2>6
<1> QED BY <1>1, <1>2, <1>3, <1>4, <1>5, <1>6, <1>7, <1>8, <1>9, <1>10, <1>11,
           <1>12, <1>13, <1>14, <1>15 DEF Step, UserStep, FaultStep, EvictStep,
           SwapInStep

\* A frame that another thread has in hand is left alone.
LEMMA HeldFrameKept ==
  ASSUME Typed, DataTyped, Shape, OwnInv, DirtyNamed, NEW t \in Threads,
         Step(t),
         NEW u \in Threads \ {t}, HeldFrame[u] # None
  PROVE  data'[HeldFrame[u]] = data[HeldFrame[u]]
<1>1. HeldFrame[u] \in Frames \cap used
  BY HeldTypes DEF OwnInv, OneFrame, One
<1>2. FrameKept(t, HeldFrame[u])
  BY <1>1, FramesKept
<1>3. /\ HeldFrame[u] # HeldFrame[t]
      /\ \A p \in Pages : HeldFrame[u] # PageFrame[p]
  BY DEF OwnInv, OneFrame, One
<1>4. ~LastKill(t)
  BY DEF LastKill, Alive, HeldFrame, FrameFor
<1> QED BY <1>2, <1>3, <1>4 DEF FrameKept

\* The frame of an entry changes by a write to that page only.
LEMMA PageFrameKept ==
  ASSUME Typed, DataTyped, Shape, OwnInv, DirtyNamed, NEW t \in Threads,
         Step(t),
         NEW p \in Pages, PageFrame[p] # None, ~LastKill(t),
         \A v \in Values : ~Write(t, p, v)
  PROVE  data'[PageFrame[p]] = data[PageFrame[p]]
<1>1. PageFrame[p] \in Frames \cap used
  BY HeldTypes DEF OwnInv, OneFrame, One
<1>2. FrameKept(t, PageFrame[p])
  BY <1>1, FramesKept
<1>3. /\ PageFrame[p] # HeldFrame[t]
      /\ \A q \in Pages : PageFrame[p] = PageFrame[q] => p = q
  BY DEF OwnInv, OneFrame, One
<1> QED BY <1>2, <1>3 DEF FrameKept

\* A slot that another thread has in hand is left alone.
LEMMA HeldSlotKept ==
  ASSUME Typed, DiskTyped, Shape, OwnInv, NEW t \in Threads, Step(t),
         NEW u \in Threads \ {t}, HeldSlot[u] # None
  PROVE  disk'[HeldSlot[u]] = disk[HeldSlot[u]]
<1>1. HeldSlot[u] \in Slots
  BY HeldTypes
<1>2. SlotKept(t, HeldSlot[u])
  BY <1>1, SlotsKept
<1>3. HeldSlot[u] # HeldSlot[t]
  BY DEF OwnInv, OneSlot, One
<1>4. ~LastKill(t)
  BY DEF LastKill, Alive, HeldSlot, SlotFor
<1> QED BY <1>2, <1>3, <1>4 DEF SlotKept

\* The slot that an entry names is written by nobody.
LEMMA PageSlotKept ==
  ASSUME Typed, DiskTyped, Shape, OwnInv, NEW t \in Threads, Step(t),
         NEW p \in Pages, PageSlot[p] # None, ~LastKill(t)
  PROVE  disk'[PageSlot[p]] = disk[PageSlot[p]]
<1>1. PageSlot[p] \in Slots
  BY HeldTypes
<1>2. SlotKept(t, PageSlot[p])
  BY <1>1, SlotsKept
<1>3. PageSlot[p] # HeldSlot[t]
  BY DEF OwnInv, OneSlot, One
<1> QED BY <1>2, <1>3 DEF SlotKept

-----------------------------------------------------------------------------
(* Generations and claims. *)

\* Every slot keeps a generation.
LEMMA GenerationsFunction ==
  ASSUME GenTyped, NEW t \in Threads, Step(t)
  PROVE  gen' = [s \in Slots |-> gen'[s]]
<1>1. ASSUME
        \/ (\E p \in Pages : Read(t, p))
        \/ (\E p \in Pages, v \in Values : Write(t, p, v))
        \/ (\E p \in Pages : Fault(t, p)) \/ (\E p \in Pages : Mprotect(t, p))
        \/ Lookup(t) \/ Enrol(t) \/ Recheck(t) \/ Resume(t) \/ Dispatch(t)
        \/ LazyAlloc(t) \/ LazyShort(t) \/ LazyMap(t)
        \/ (\E p \in Pages : Victim(t, p)) \/ EndReclaim(t) \/ Age(t)
        \/ DiscardLoad(t) \/ DiscardClaim(t) \/ DiscardShoot(t)
        \/ DiscardFree(t) \/ EvictLoad(t) \/ EvictClaim(t) \/ EvictShoot(t)
        \/ EvictWrite(t) \/ EvictRestore(t) \/ EvictReshoot(t) \/ EvictFree(t)
        \/ EvictWake(t) \/ SwapInLoad(t) \/ SwapInPublish(t) \/ SwapInRead(t)
        \/ SwapInInstall(t) \/ SwapInShoot(t)
      PROVE  gen' = [s \in Slots |-> gen'[s]]
  BY <1>1 DEF GenTyped, Read, history, NoPte, Write, Cached, Fault, Go,
     Mprotect, Flush, Present, Lookup, memVars, Enrol, Recheck, Settled,
     Resume, Dispatch, Return, NoReg, LazyAlloc, LazyShort, LazyMap, Unmapped,
     FreeFrame, Victim, EndReclaim, Age, AgeClears, Vic, Seen, NextVictim,
     DiscardLoad, Clean, DiscardClaim, DiscardShoot, DiscardFree, EvictLoad,
     EvictClaim, Inflight, EvictShoot, EvictFlush, EvictWrite, EvictRestore,
     InflightStill, EvictReshoot, EvictFree, EvictWake, SwapInLoad,
     SwapInPublish, SwapInRead, SwapInInstall, SwapInWins, SwapInShoot
<1>2. ASSUME EvictLost(t)
      PROVE  gen' = [s \in Slots |-> gen'[s]]
  BY <1>2 DEF GenTyped, EvictLost, FreeSlot, NextVictim, Go, history, NoReg
<1>3. ASSUME EvictUndo(t)
      PROVE  gen' = [s \in Slots |-> gen'[s]]
  BY <1>3 DEF GenTyped, EvictUndo, FreeSlot, Go, history
<1>4. ASSUME EvictCommit(t)
      PROVE  gen' = [s \in Slots |-> gen'[s]]
  BY <1>4 DEF GenTyped, EvictCommit, Handover, InflightStill, Inflight,
     Swapped, FreeSlot, Vic, Seen, Go, history
<1>5. ASSUME SwapInFree(t)
      PROVE  gen' = [s \in Slots |-> gen'[s]]
  BY <1>5 DEF GenTyped, SwapInFree, FreeSlot, Seen, Return, Go, history, NoReg
<1>6. ASSUME Kill(t)
      PROVE  gen' = [s \in Slots |-> gen'[s]]
  BY <1>6 DEF GenTyped, Kill, MayKill, Alive, Mapped, Go, NoReg, NoPte
<1> QED BY <1>1, <1>2, <1>3, <1>4, <1>5, <1>6 DEF Step, UserStep, FaultStep,
           EvictStep, SwapInStep

\* Generations stay within their bound: only a slot whose generation is below
\* it is ever taken.
LEMMA GenTypedStep ==
  ASSUME Typed, DiskTyped, Shape, OwnInv, GenInv, NEW t \in Threads, Step(t)
  PROVE  GenTyped'
<1>1. ASSUME NEW s \in Slots
      PROVE  gen'[s] \in 0..MaxGen
  <2>1. gen[s] \in 0..MaxGen
    BY DEF Typed, GenTyped
  <2>2. gen'[s] = gen[s] \/ (gen'[s] = gen[s] + 1 /\ s \in used)
    BY SlotsKept DEF SlotKept
  <2> QED BY <2>1, <2>2, SwapAssumption DEF GenInv
<1>2. gen' = [s \in Slots |-> gen'[s]]
  BY GenerationsFunction DEF Typed
<1> QED BY <1>1, <1>2 DEF GenTyped

\* A slot is taken by an eviction, below the bound of its generation.
LEMMA SlotTaken ==
  ASSUME NEW t \in Threads, Step(t),
         NEW s \in Slots, s \in used', s \notin used
  PROVE  gen[s] < MaxGen
<1>1. ASSUME
        \/ (\E p \in Pages : Read(t, p))
        \/ (\E p \in Pages, v \in Values : Write(t, p, v))
        \/ (\E p \in Pages : Fault(t, p)) \/ (\E p \in Pages : Mprotect(t, p))
        \/ Lookup(t) \/ Enrol(t) \/ Recheck(t) \/ Resume(t) \/ Dispatch(t)
        \/ LazyShort(t) \/ (\E p \in Pages : Victim(t, p)) \/ EndReclaim(t)
        \/ Age(t) \/ DiscardLoad(t) \/ DiscardClaim(t) \/ DiscardShoot(t)
        \/ EvictClaim(t) \/ EvictShoot(t) \/ EvictWrite(t) \/ EvictRestore(t)
        \/ EvictReshoot(t) \/ EvictWake(t) \/ SwapInPublish(t)
        \/ SwapInShoot(t)
      PROVE  gen[s] < MaxGen
  BY <1>1 DEF Read, history, NoPte, Write, Cached, Fault, Go, Mprotect, Flush,
     Present, Lookup, memVars, Enrol, Recheck, Settled, Resume, Dispatch,
     Return, NoReg, LazyShort, Victim, EndReclaim, Age, AgeClears, Vic, Seen,
     NextVictim, DiscardLoad, Clean, DiscardClaim, DiscardShoot, EvictClaim,
     Inflight, EvictShoot, EvictFlush, EvictWrite, EvictRestore, InflightStill,
     EvictReshoot, EvictWake, SwapInPublish, SwapInShoot
<1>2. ASSUME LazyAlloc(t)
      PROVE  gen[s] < MaxGen
  BY <1>2, DistinctAssumption DEF LazyAlloc, Go, history
<1>3. ASSUME LazyMap(t)
      PROVE  gen[s] < MaxGen
  BY <1>3, DistinctAssumption DEF LazyMap, Unmapped, Present, FreeFrame,
     Return, Go, history, NoReg, NoPte
<1>4. ASSUME DiscardFree(t)
      PROVE  gen[s] < MaxGen
  BY <1>4, DistinctAssumption DEF DiscardFree, FreeFrame, Seen, NextVictim, Go,
     history, NoReg
<1>5. ASSUME EvictLoad(t)
      PROVE  gen[s] < MaxGen
  BY <1>5, DistinctAssumption DEF EvictLoad, Vic, NextVictim, Go, history,
     NoReg
<1>6. ASSUME EvictLost(t)
      PROVE  gen[s] < MaxGen
  BY <1>6, DistinctAssumption DEF EvictLost, FreeSlot, NextVictim, Go, history,
     NoReg
<1>7. ASSUME EvictUndo(t)
      PROVE  gen[s] < MaxGen
  BY <1>7, DistinctAssumption DEF EvictUndo, FreeSlot, Go, history
<1>8. ASSUME EvictCommit(t)
      PROVE  gen[s] < MaxGen
  BY <1>8, DistinctAssumption DEF EvictCommit, Handover, InflightStill,
     Inflight, Swapped, FreeSlot, Vic, Seen, Go, history
<1>9. ASSUME EvictFree(t)
      PROVE  gen[s] < MaxGen
  BY <1>9, DistinctAssumption DEF EvictFree, FreeFrame, Seen, Go, history
<1>10. ASSUME SwapInLoad(t)
      PROVE  gen[s] < MaxGen
  BY <1>10, DistinctAssumption DEF SwapInLoad, Return, Go, history, NoReg
<1>11. ASSUME SwapInRead(t)
      PROVE  gen[s] < MaxGen
  BY <1>11, DistinctAssumption DEF SwapInRead, FreeFrame, Seen, Go, history,
     NoReg
<1>12. ASSUME SwapInInstall(t)
      PROVE  gen[s] < MaxGen
  BY <1>12, DistinctAssumption DEF SwapInInstall, SwapInWins, Present,
     FreeFrame, Return, Seen, Go, NoReg
<1>13. ASSUME SwapInFree(t)
      PROVE  gen[s] < MaxGen
  BY <1>13, DistinctAssumption DEF SwapInFree, FreeSlot, Seen, Return, Go,
     history, NoReg
<1>14. ASSUME Kill(t)
      PROVE  gen[s] < MaxGen
  BY <1>14, DistinctAssumption DEF Kill, MayKill, Alive, Mapped, Go, NoReg,
     NoPte
<1> QED BY <1>1, <1>2, <1>3, <1>4, <1>5, <1>6, <1>7, <1>8, <1>9, <1>10, <1>11,
           <1>12, <1>13, <1>14 DEF Step, UserStep, FaultStep, EvictStep,
           SwapInStep

\* An entry names its slot by the generation the slot has now.
LEMMA GenStep ==
  ASSUME Typed, DiskTyped, Shape, OwnInv, GenInv, OwnInv', Typed', Shape',
         NEW t \in Threads, Step(t)
  PROVE  GenInv'
<1>1. ASSUME NEW s \in Slots, s \in used'
      PROVE  gen'[s] < MaxGen
  <2>1. gen'[s] = gen[s]
    BY <1>1, SlotsKept DEF SlotKept
  <2>2. CASE s \in used
    BY <2>1, <2>2 DEF GenInv
  <2>3. CASE s \notin used
    BY <1>1, <2>1, <2>3, SlotTaken
  <2> QED BY <2>2, <2>3
<1>2. ASSUME NEW p \in Pages, pte'[p].k = "swapped"
      PROVE  pte'[p].gen = gen'[pte'[p].slot]
  <2>1. pte'[p].slot \in Slots
    BY <1>2, SwappedPte DEF Typed, PteTyped
  <2>2. pte'[p].slot \in used'
    <3>1. PageSlot'[p] = pte'[p].slot
      BY <1>2 DEF PageSlot, SlotIn
    <3> QED BY <2>1, <3>1, DistinctAssumption DEF OwnInv, OneSlot, One
  <2>3. gen'[pte'[p].slot] = gen[pte'[p].slot]
    BY <2>1, <2>2, SlotsKept DEF SlotKept
  <2>4. CASE pte'[p] = pte[p]
    BY <1>2, <2>3, <2>4 DEF GenInv
  <2>5. CASE pte'[p] # pte[p]
    <3>1. EntryMoved(t, p)
      BY <2>5, EntryMoves
    <3>2. pte'[p] = Swapped(reg[t].slot)
      BY <1>2, <3>1 DEF EntryMoved, Present, NoPte, Inflight, Shape, InHand,
         EvictPcs, OwingPcs
    <3> QED BY <2>3, <3>2 DEF Swapped
  <2> QED BY <2>4, <2>5
<1> QED BY <1>1, <1>2 DEF GenInv

\* A claim lasts until its thread ends it: nobody else's compare can succeed on
\* an entry in flight, and nobody can cache it again.
LEMMA EvictStepKeeps ==
  ASSUME Typed, AsleepTyped, Shape, EvictInv, NEW t \in Threads, Step(t)
  PROVE  EvictInv'
<1>1. /\ \A u \in Threads \ {t} : pc'[u] = pc[u] /\ reg'[u] = reg[u]
      /\ Arrives(t)
  BY OthersKept, Arrivals DEF Typed
<1>2. ASSUME NEW u \in Threads \ {t}, pc[u] \in ClaimPcs
      PROVE  pte'[reg[u].victim] = pte[reg[u].victim]
  <2>1. /\ reg[u].victim \in Pages
        /\ pte[reg[u].victim] = Inflight(reg[u].seen.frame)
    BY <1>2 DEF EvictInv, ClaimPcs, Shape, InHand, EvictPcs, OwingPcs
  <2>2. SUFFICES ASSUME EntryMoved(t, reg[u].victim)
                 PROVE  FALSE
    BY <2>1, EntryMoves
  <2>3. pte[reg[u].victim].k = "inflight"
    BY <2>1 DEF Inflight
  <2>4. ~LastKill(t)
    BY <1>2 DEF LastKill, Alive, ClaimPcs
  <2>5. /\ pc[t] \in {"evClaim", "dcClaim"} => reg[t].seen.k = "present"
        /\ pc[t] = "siInstall" => reg[t].seen.k = "swapped"
    BY DEF Shape, InHand, EvictPcs, OwingPcs, SwapInPcs
  <2>6. pc[t] \in ClaimPcs => reg[t].victim # reg[u].victim
    BY <1>2 DEF EvictInv, ClaimPcs
  <2>7. pte[reg[u].victim] # NoPte
    BY <2>3 DEF NoPte
  <2>8. pc[t] \in {"evClaim", "dcClaim", "siInstall"} =>
           pte[reg[u].victim] # reg[t].seen
    BY <2>3, <2>5
  <2>9. pte[reg[u].victim].k # "present"
    BY <2>3
  <2> QED BY <2>2, <2>4, <2>6, <2>7, <2>8, <2>9 DEF EntryMoved, ClaimPcs
<1>3. pc'[t] \in ClaimPcs =>
        /\ reg'[t] = reg[t]
        /\ pte'[reg[t].victim] = Inflight(reg[t].seen.frame)
        /\ pc[t] \in ClaimPcs \/ (pc'[t] = "evShoot" /\
              pte[reg[t].victim] = reg[t].seen /\ reg[t].seen.k = "present")
  <2>1. CASE pc'[t] = "evShoot"
    <3>1. EvictClaim(t)
      BY <1>1, <2>1 DEF Arrives
    <3>2. reg[t].victim \in Pages /\ reg[t].seen.k = "present"
      BY <3>1 DEF EvictClaim, Shape, InHand, EvictPcs
    <3> QED BY <2>1, <3>1, <3>2 DEF EvictClaim, Vic, Seen, Typed, PteTyped
  <2>2. CASE pc'[t] \in {"evWrite", "evRestore", "evCommit"}
    <3>1. EvictShoot(t) \/ EvictWrite(t)
      BY <1>1, <2>2 DEF Arrives
    <3> QED BY <3>1 DEF EvictShoot, EvictWrite, EvictInv, ClaimPcs
  <2> QED BY <2>1, <2>2 DEF ClaimPcs
<1>4. \A u \in Threads : pc'[u] \in ClaimPcs =>
         pte'[reg'[u].victim] = Inflight(reg'[u].seen.frame)
  BY <1>1, <1>2, <1>3 DEF EvictInv, ClaimPcs
<1>5. \A u, w \in Threads :
        pc'[u] \in ClaimPcs /\ pc'[w] \in ClaimPcs
          /\ reg'[u].victim = reg'[w].victim => u = w
  <2>1. ASSUME NEW u \in Threads \ {t}, pc[u] \in ClaimPcs, pc'[t] \in ClaimPcs
        PROVE  reg[u].victim # reg'[t].victim
    <3>1. pte[reg[u].victim].k = "inflight"
      <4>1. pte[reg[u].victim] = Inflight(reg[u].seen.frame)
        BY <2>1 DEF EvictInv, ClaimPcs
      <4> QED BY <4>1 DEF Inflight
    <3> QED BY <1>3, <2>1, <3>1 DEF EvictInv, ClaimPcs
  <2>2. ASSUME NEW u \in Threads \ {t}, NEW w \in Threads \ {t},
               pc[u] \in ClaimPcs, pc[w] \in ClaimPcs,
               reg[u].victim = reg[w].victim
        PROVE  u = w
    BY <2>2 DEF EvictInv, ClaimPcs
  <2> QED BY <1>1, <2>1, <2>2
<1>6. ASSUME NEW u \in Threads, NEW w \in Threads,
             pc'[w] \in {"evWrite", "evRestore", "evCommit"}
      PROVE  tlb'[u][reg'[w].victim] = NoPte
  <2>1. CASE w # t
    <3>1. /\ pc[w] \in {"evWrite", "evRestore", "evCommit"}
          /\ reg'[w] = reg[w] /\ reg[w].victim \in Pages
      BY <1>1, <1>6, <2>1 DEF Shape, InHand, EvictPcs, OwingPcs
    <3>2. /\ tlb[u][reg[w].victim] = NoPte
          /\ pte[reg[w].victim].k = "inflight"
      <4>1. /\ tlb[u][reg[w].victim] = NoPte
            /\ pte[reg[w].victim] = Inflight(reg[w].seen.frame)
        BY <3>1 DEF EvictInv, ClaimPcs
      <4> QED BY <4>1 DEF Inflight
    <3>3. TranslationMoved(t, u, reg[w].victim)
      BY <3>1, TranslationMoves
    <3> QED BY <3>1, <3>2, <3>3 DEF TranslationMoved, Read, Write, Cached
  <2>2. CASE w = t /\ pc'[t] = "evWrite"
    <3>1. EvictShoot(t)
      BY <1>1, <2>2 DEF Arrives
    <3>2. reg[t].victim \in Pages /\ reg' = reg
      BY <3>1 DEF EvictShoot, Shape, InHand, EvictPcs, OwingPcs
    <3> QED BY <2>2, <3>1, <3>2 DEF EvictShoot, EvictFlush, Flush, Vic, Typed,
               TlbTyped
  <2>3. CASE w = t /\ pc'[t] \in {"evRestore", "evCommit"}
    <3>1. EvictWrite(t)
      BY <1>1, <2>3 DEF Arrives
    <3> QED BY <2>3, <3>1 DEF EvictWrite, EvictInv, ClaimPcs
  <2> QED BY <1>6, <2>1, <2>2, <2>3
<1> QED BY <1>4, <1>5, <1>6 DEF EvictInv, ClaimPcs

-----------------------------------------------------------------------------
(* Translations and clean pages. *)

\* The CPU of a thread that died runs something else.
LEMMA DeadCleanStep ==
  ASSUME Typed, AsleepTyped, Shape, DeadClean, NEW t \in Threads, Step(t)
  PROVE  DeadClean'
<1>1. ASSUME NEW u \in Threads \ {t}, pc'[u] = "dead", NEW p \in Pages
      PROVE  tlb'[u][p] = NoPte
  <2>1. pc[u] = "dead"
    BY <1>1, OthersKept DEF Typed
  <2>2. TranslationMoved(t, u, p)
    BY TranslationMoves
  <2> QED BY <2>1, <2>2 DEF TranslationMoved, DeadClean
<1>2. ASSUME pc'[t] = "dead", NEW p \in Pages
      PROVE  tlb'[t][p] = NoPte
  <2>1. Kill(t)
    BY <1>2, Arrivals DEF Arrives, Typed
  <2> QED BY <2>1 DEF Kill, Typed, TlbTyped
<1> QED BY <1>1, <1>2 DEF DeadClean

\* The last of the group leaves no translation.
LEMMA NoneCachedAfter ==
  ASSUME Typed, AsleepTyped, Shape, DeadClean', NEW t \in Threads, LastKill(t),
         Step(t), NEW u \in Threads, NEW p \in Pages
  PROVE  tlb'[u][p] = NoPte
<1>1. CASE u = t
  <2>1. pc'[t] = "dead"
    BY DEF LastKill, Kill, Go, Typed, PcTyped
  <2> QED BY <1>1, <2>1 DEF DeadClean
<1>2. CASE u # t
  <2>1. pc'[u] = "dead"
    BY <1>2, OthersKept DEF LastKill, Alive, Typed
  <2> QED BY <2>1 DEF DeadClean
<1> QED BY <1>1, <1>2

\* A translation leads to a frame.
LEMMA CachedFrame ==
  ASSUME Typed, NEW u \in Threads, NEW p \in Pages, tlb[u][p] # NoPte
  PROVE  tlb[u][p].frame \in Frames /\ tlb[u][p].frame # None
BY DistinctAssumption DEF Typed, TlbTyped, Cacheable

\* Under a translation that stays, an entry keeps its frame, unless it is being
\* discarded.
LEMMA EntryUnderCached ==
  ASSUME Typed, AsleepTyped, Shape, EvictInv, DeadClean',
         NEW t \in Threads, Step(t),
         NEW u \in Threads, NEW p \in Pages,
         tlb[u][p] # NoPte, tlb'[u][p] = tlb[u][p],
         FrameIn(pte[p]) = tlb[u][p].frame
  PROVE  \/ /\ pte'[p] = pte[p]
         \/ /\ FrameIn(pte'[p]) = FrameIn(pte[p])
            /\ pte'[p].k = "present" => pte'[p].dirty
         \/ /\ DiscardClaim(t) /\ pc[t] = "dcClaim" /\ reg[t].victim = p
            /\ pte[p] = reg[t].seen
<1> SUFFICES ASSUME EntryMoved(t, p)
             PROVE  \/ /\ FrameIn(pte'[p]) = FrameIn(pte[p])
                       /\ pte'[p].k = "present" => pte'[p].dirty
                    \/ /\ DiscardClaim(t) /\ pc[t] = "dcClaim"
                       /\ reg[t].victim = p /\ pte[p] = reg[t].seen
  BY EntryMoves
<1>1. pte[p].k \in {"present", "inflight"}
  BY CachedFrame DEF FrameIn
<1>2. ~Mprotect(t, p)
  <2> SUFFICES ASSUME Mprotect(t, p)
               PROVE  FALSE
    OBVIOUS
  <2>1. tlb'[u] = [tlb[u] EXCEPT ![p] = NoPte]
    BY DEF Mprotect, Flush
  <2>2. tlb[u] \in [Pages -> Cacheable]
    BY DEF Typed, TlbTyped
  <2> QED BY <2>1, <2>2
<1>3. ~LastKill(t)
  BY NoneCachedAfter
<1>4. ASSUME pc[t] \in {"evRestore", "evCommit"}
      PROVE  reg[t].victim # p
  BY <1>4 DEF EvictInv, ClaimPcs
<1>5. pte[p] # NoPte
  BY <1>1 DEF NoPte
<1>6. pc[t] = "siInstall" => pte[p] # reg[t].seen
  BY <1>1 DEF Shape, InHand, SwapInPcs
<1>7. CASE pc[t] = "user" /\ pte[p].k = "present" /\ pte'[p].k = "present"
             /\ pte'[p].dirty /\ pte'[p].frame = pte[p].frame
  BY <1>7 DEF FrameIn
<1>8. CASE /\ EvictClaim(t) /\ pc[t] = "evClaim"
           /\ pte[p] = reg[t].seen /\ pte'[p] = Inflight(reg[t].seen.frame)
  <2>1. reg[t].seen.k = "present"
    BY <1>8 DEF Shape, InHand, EvictPcs
  <2>2. pte'[p].k = "inflight" /\ pte'[p].frame = reg[t].seen.frame
    BY <1>8 DEF Inflight
  <2> QED BY <1>8, <2>1, <2>2 DEF FrameIn
<1> QED BY <1>2, <1>3, <1>4, <1>5, <1>6, <1>7, <1>8 DEF EntryMoved

\* A translation that may be written through leads to the frame of a dirty
\* entry: whoever takes the frame away finds the dirty bit, or flushes first.
LEMMA DirtyNamedStep ==
  ASSUME Typed, AsleepTyped, Shape, EvictInv, DeadClean', DirtyNamed,
         NEW t \in Threads, Step(t)
  PROVE  DirtyNamed'
<1> SUFFICES ASSUME NEW u \in Threads, NEW p \in Pages,
                    tlb'[u][p] # NoPte, tlb'[u][p].dirty
             PROVE  /\ FrameIn(pte'[p]) = tlb'[u][p].frame
                    /\ pte'[p].k = "present" => pte'[p].dirty
  BY DEF DirtyNamed
<1>1. CASE tlb'[u][p] = tlb[u][p]
  <2>1. /\ FrameIn(pte[p]) = tlb[u][p].frame
        /\ pte[p].k = "present" => pte[p].dirty
    BY <1>1 DEF DirtyNamed
  <2>2. ASSUME pc[t] = "dcClaim"
        PROVE  pte[p] # reg[t].seen
    <3>1. reg[t].seen.k = "present" /\ ~reg[t].seen.dirty
      BY <2>2 DEF Shape, InHand
    <3> QED BY <2>1, <3>1
  <2> QED BY <1>1, <2>1, <2>2, EntryUnderCached
<1>2. CASE u = t /\ Read(t, p)
  BY <1>2 DEF Read, FrameIn, Typed, TlbTyped
<1>3. CASE u = t /\ \E v \in Values : Write(t, p, v)
  <2>1. CASE Cached(t, p, TRUE)
    <3>1. pte' = pte /\ tlb'[t][p] = tlb[t][p]
      BY <1>3, <2>1 DEF Write, Typed, TlbTyped
    <3> QED BY <1>3, <3>1 DEF DirtyNamed
  <2>2. CASE ~Cached(t, p, TRUE)
    <3>1. /\ tlb'[t][p] = pte'[p]
          /\ pte'[p].k = "present" /\ pte'[p].dirty
      BY <1>3, <2>2, WriteThroughEntry
    <3> QED BY <1>3, <3>1 DEF FrameIn
  <2> QED BY <2>1, <2>2
<1>4. TranslationMoved(t, u, p)
  BY TranslationMoves
<1> QED BY <1>1, <1>2, <1>3, <1>4 DEF TranslationMoved

\* Before its flush, an evictor has seen the dirty bit of whatever is still
\* written through.
LEMMA DirtySeenStep ==
  ASSUME Typed, AsleepTyped, Shape, EvictInv, DirtyNamed, DirtySeen,
         NEW t \in Threads, Step(t)
  PROVE  DirtySeen'
<1> SUFFICES ASSUME NEW w \in Threads, NEW u \in Threads, pc'[w] = "evShoot",
                    tlb'[u][reg'[w].victim] # NoPte,
                    tlb'[u][reg'[w].victim].dirty
             PROVE  reg'[w].seen.dirty
  BY DEF DirtySeen
<1>1. CASE w # t
  <2>1. /\ pc[w] = "evShoot" /\ reg'[w] = reg[w] /\ reg[w].victim \in Pages
    BY <1>1, OthersKept DEF Typed, Shape, InHand, EvictPcs, OwingPcs
  <2>2. pte[reg[w].victim] = Inflight(reg[w].seen.frame)
    BY <2>1 DEF EvictInv, ClaimPcs
  <2>3. pte[reg[w].victim].k = "inflight"
    BY <2>2 DEF Inflight
  <2>4. TranslationMoved(t, u, reg[w].victim)
    BY <2>1, TranslationMoves
  <2>5. ASSUME NEW v \in Values, Write(t, reg[w].victim, v), u = t
        PROVE  tlb'[u][reg[w].victim] = tlb[u][reg[w].victim]
    BY <2>1, <2>3, <2>5 DEF Write, Typed, TlbTyped
  <2>6. ~Read(t, reg[w].victim)
    BY <2>3 DEF Read
  <2>7. tlb'[u][reg[w].victim] = tlb[u][reg[w].victim]
    BY <2>1, <2>4, <2>5, <2>6 DEF TranslationMoved
  <2> QED BY <2>1, <2>7 DEF DirtySeen
<1>2. CASE w = t
  <2>1. EvictClaim(t)
    BY <1>2, Arrivals DEF Arrives, Typed
  <2>2. /\ pte[reg[t].victim] = reg[t].seen /\ tlb' = tlb /\ reg' = reg
        /\ reg[t].victim \in Pages /\ reg[t].seen.k = "present"
    BY <2>1 DEF EvictClaim, Vic, Seen, Shape, InHand, EvictPcs
  <2> QED BY <1>2, <2>2 DEF DirtyNamed
<1> QED BY <1>1, <1>2

\* A translation leads to the frame its entry names, but for those a discard
\* or a killed thread has yet to flush.
LEMMA CachedNamedStep ==
  ASSUME Typed, AsleepTyped, Shape, HistoryTyped, EvictInv, DeadClean',
         CachedNamed, NEW t \in Threads, Step(t)
  PROVE  CachedNamed'
<1> SUFFICES ASSUME NEW u \in Threads, NEW p \in Pages, tlb'[u][p] # NoPte
             PROVE  \/ p \in orphaned'
                    \/ FrameIn(pte'[p]) = tlb'[u][p].frame
                    \/ \E w \in Threads :
                         pc'[w] = "dcShoot" /\ reg'[w].victim = p
  BY DEF CachedNamed
<1>1. ASSUME tlb'[u][p] = tlb[u][p]
      PROVE  \/ p \in orphaned'
             \/ FrameIn(pte'[p]) = tlb'[u][p].frame
             \/ \E w \in Threads : pc'[w] = "dcShoot" /\ reg'[w].victim = p
  <2>1. CASE p \in orphaned
    BY <2>1, HistoryMoves DEF HistoryMoved
  <2>2. CASE FrameIn(pte[p]) = tlb[u][p].frame
    <3>1. ASSUME DiscardClaim(t), pc[t] = "dcClaim", reg[t].victim = p,
                 pte[p] = reg[t].seen
          PROVE  pc'[t] = "dcShoot" /\ reg'[t].victim = p
      BY <3>1 DEF DiscardClaim, Vic, Seen, Go, Typed, PcTyped
    <3> QED BY <1>1, <2>2, <3>1, EntryUnderCached
  <2>3. ASSUME NEW w \in Threads, pc[w] = "dcShoot", reg[w].victim = p
        PROVE  \/ p \in orphaned'
               \/ \E x \in Threads : pc'[x] = "dcShoot" /\ reg'[x].victim = p
    <3>1. CASE w # t
      BY <2>3, <3>1, OthersKept DEF Typed
    <3>2. CASE w = t /\ Kill(t)
      BY <2>3, <3>2 DEF Kill, Vic
    <3>3. ~DiscardShoot(t) \/ w # t
      BY <1>1, <2>3 DEF DiscardShoot, Flush, Vic, Typed, TlbTyped
    <3>4. CASE w = t /\ ~Kill(t) /\ ~DiscardShoot(t)
      BY <2>3, <3>4, Departures DEF Departs, EvictShoot, EvictWrite,
         EvictRestore, EvictReshoot, EvictUndo, EvictCommit, EvictFree,
         EvictWake
    <3> QED BY <3>1, <3>2, <3>3, <3>4
  <2> QED BY <1>1, <2>1, <2>2, <2>3 DEF CachedNamed
<1>2. CASE u = t /\ Read(t, p)
  BY <1>2 DEF Read, FrameIn, Typed, TlbTyped
<1>3. CASE u = t /\ \E v \in Values : Write(t, p, v)
  <2>1. CASE Cached(t, p, TRUE)
    <3>1. tlb'[t][p] = tlb[t][p]
      BY <1>3, <2>1 DEF Write, Typed, TlbTyped
    <3> QED BY <1>1, <1>3, <3>1
  <2>2. CASE ~Cached(t, p, TRUE)
    <3>1. /\ tlb'[t][p] = pte'[p]
          /\ pte'[p].k = "present" /\ pte'[p].dirty
      BY <1>3, <2>2, WriteThroughEntry
    <3> QED BY <1>3, <3>1 DEF FrameIn
  <2> QED BY <2>1, <2>2
<1>4. TranslationMoved(t, u, p)
  BY TranslationMoves
<1> QED BY <1>1, <1>2, <1>3, <1>4 DEF TranslationMoved

\* Only a page with an image to reload is dropped.
LEMMA DropSourcedStep ==
  ASSUME Typed, AsleepTyped, Shape, DropSourced, NEW t \in Threads, Step(t)
  PROVE  DropSourced'
<1>1. ASSUME NEW u \in Threads \ {t}, pc'[u] \in DiscardPcs
      PROVE  reg'[u].victim \in Sourced
  BY <1>1, OthersKept DEF DropSourced, Typed
<1>2. ASSUME pc'[t] = "dcLoad"
      PROVE  reg'[t].victim \in Sourced
  <2>1. PICK p \in Pages : Victim(t, p)
    BY <1>2, Arrivals DEF Arrives, Typed
  <2>2. pc'[t] = "dcLoad" => p \in Sourced
    BY <2>1 DEF Victim, Go, Typed, PcTyped
  <2>3. reg'[t].victim = p
    BY <2>1 DEF Victim, Typed, RegTyped, Regs
  <2> QED BY <1>2, <2>2, <2>3
<1>3. ASSUME pc'[t] \in {"dcClaim", "dcShoot", "dcFree"}
      PROVE  reg'[t].victim \in Sourced
  <2>1. DiscardLoad(t) \/ DiscardClaim(t) \/ DiscardShoot(t)
    BY <1>3, Arrivals DEF Arrives, Typed
  <2>2. pc[t] \in DiscardPcs /\ reg'[t].victim = reg[t].victim
    BY <2>1 DEF DiscardLoad, DiscardClaim, DiscardShoot, DiscardPcs, Typed,
       RegTyped, Regs
  <2> QED BY <2>2 DEF DropSourced
<1> QED BY <1>1, <1>2, <1>3 DEF DropSourced, DiscardPcs

\* A clean entry of a sourced page means that the page holds its image still.
LEMMA CleanPageStep ==
  ASSUME Typed, AsleepTyped, Shape, HistoryTyped, DirtyNamed, CleanPage,
         CleanSeen, ContentKept, NEW t \in Threads, Step(t)
  PROVE  CleanPage'
<1> SUFFICES ASSUME NEW p \in Sourced, p \notin reused',
                    pte'[p].k = "present", ~pte'[p].dirty
             PROVE  last'[p] = Image
  BY DEF CleanPage
<1>1. p \in Pages /\ p \notin reused
  BY SwapAssumption, HistoryMoves DEF HistoryMoved
<1>2. ASSUME NEW v \in Values, Write(t, p, v)
      PROVE  FALSE
  <2>1. CASE Cached(t, p, TRUE)
    BY <1>1, <1>2, <2>1 DEF Write, Cached, DirtyNamed
  <2>2. CASE ~Cached(t, p, TRUE)
    BY <1>1, <1>2, <2>2, WriteThroughEntry
  <2> QED BY <2>1, <2>2
<1>3. last'[p] = last[p]
  BY <1>1, <1>2, HistoryMoves DEF HistoryMoved
<1>4. CASE pte'[p] = pte[p]
  BY <1>1, <1>3, <1>4 DEF CleanPage
<1>5. CASE pte'[p] # pte[p]
  <2>1. EntryMoved(t, p)
    BY <1>1, <1>5, EntryMoves
  <2>2. /\ ~Mprotect(t, p)
        /\ ~(SwapInInstall(t) /\ pte[p] = reg[t].seen /\ p = at[t])
    BY DEF Mprotect, SwapInInstall, SwapInWins, Seen
  <2>3. CASE pc[t] = "lazyMap" /\ pte[p] = NoPte
    <3>1. Content(p) = last[p]
      BY <1>1, <2>3 DEF ContentKept, Group, Alive
    <3> QED BY <1>3, <2>3, <3>1 DEF Content, NoPte
  <2>4. CASE pc[t] = "evRestore" /\ p = reg[t].victim /\ pte'[p] = reg[t].seen
    BY <1>1, <1>3, <2>4 DEF CleanSeen
  <2>5. /\ pte'[p] # NoPte /\ pte'[p] # Inflight(reg[t].seen.frame)
        /\ pte'[p] # Swapped(reg[t].slot)
    BY DEF NoPte, Inflight, Swapped
  <2> QED BY <1>2, <2>1, <2>2, <2>3, <2>4, <2>5 DEF EntryMoved
<1> QED BY <1>4, <1>5

\* The entry an evictor may restore tells as much, as long as the claim lasts.
LEMMA CleanSeenStep ==
  ASSUME Typed, AsleepTyped, Shape, HistoryTyped, EvictInv, DirtySeen,
         CleanPage, CleanSeen, NEW t \in Threads, Step(t)
  PROVE  CleanSeen'
<1> SUFFICES ASSUME NEW w \in Threads,
                    pc'[w] \in {"evShoot", "evWrite", "evRestore"},
                    reg'[w].victim \in Sourced, reg'[w].victim \notin reused',
                    ~reg'[w].seen.dirty
             PROVE  last'[reg'[w].victim] = Image
  BY DEF CleanSeen
<1>1. reg'[w].victim \in Pages /\ reg'[w].victim \notin reused
  BY SwapAssumption, HistoryMoves DEF HistoryMoved
<1>2. CASE w # t
  <2>1. pc'[w] = pc[w] /\ reg'[w] = reg[w]
    BY <1>2, OthersKept DEF Typed
  <2>2. pte[reg[w].victim] = Inflight(reg[w].seen.frame)
    BY <2>1 DEF EvictInv, ClaimPcs
  <2>3. pte[reg[w].victim].k = "inflight"
    BY <2>2 DEF Inflight
  <2>4. ~Cached(t, reg[w].victim, TRUE)
    BY <2>1 DEF Cached, EvictInv, ClaimPcs, DirtySeen
  <2>5. \A v \in Values : ~Write(t, reg[w].victim, v)
    BY <2>3, <2>4 DEF Write
  <2>6. last'[reg[w].victim] = last[reg[w].victim]
    BY <1>1, <2>1, <2>5, HistoryMoves DEF HistoryMoved
  <2> QED BY <1>1, <2>1, <2>6 DEF CleanSeen
<1>3. CASE w = t /\ pc'[t] = "evShoot"
  <2>1. EvictClaim(t)
    BY <1>3, Arrivals DEF Arrives, Typed
  <2>2. /\ pte[reg[t].victim] = reg[t].seen /\ reg' = reg /\ last' = last
        /\ reg[t].seen.k = "present"
    BY <2>1 DEF EvictClaim, Vic, Seen, history, Shape, InHand, EvictPcs
  <2> QED BY <1>1, <1>3, <2>2 DEF CleanPage
<1>4. CASE w = t /\ pc'[t] \in {"evWrite", "evRestore"}
  <2>1. EvictShoot(t) \/ EvictWrite(t)
    BY <1>4, Arrivals DEF Arrives, Typed
  <2>2. pc[t] \in {"evShoot", "evWrite"} /\ reg' = reg /\ last' = last
    BY <2>1 DEF EvictShoot, EvictWrite, history
  <2> QED BY <1>1, <1>4, <2>2 DEF CleanSeen
<1> QED BY <1>2, <1>3, <1>4

-----------------------------------------------------------------------------
(* Copies and contents. *)

\* A frame filled with the image holds it until it is mapped.
LEMMA LazyImageStep ==
  ASSUME Typed, AsleepTyped, DataTyped, Shape, OwnInv, DirtyNamed, LazyImage,
         NEW t \in Threads, Step(t)
  PROVE  LazyImage'
<1>1. ASSUME NEW u \in Threads \ {t}, pc'[u] = "lazyMap"
      PROVE  data'[reg'[u].frame] = Image
  <2>1. pc[u] = "lazyMap" /\ reg'[u] = reg[u]
    BY <1>1, OthersKept DEF Typed
  <2>2. HeldFrame[u] = reg[u].frame /\ HeldFrame[u] # None
    BY <2>1, DistinctAssumption DEF HeldFrame, FrameFor, Shape, InHand
  <2> QED BY <2>1, <2>2, HeldFrameKept DEF LazyImage
<1>2. ASSUME pc'[t] = "lazyMap"
      PROVE  data'[reg'[t].frame] = Image
  <2>1. LazyAlloc(t)
    BY <1>2, Arrivals DEF Arrives, Typed
  <2> QED BY <2>1 DEF LazyAlloc, DataTyped, Typed, RegTyped, Regs
<1> QED BY <1>1, <1>2 DEF LazyImage

\* While the generation that a swap-in has read is the slot's own, the slot is
\* allocated and nobody is filling it.
LEMMA SlotFreshStep ==
  ASSUME Typed, AsleepTyped, DiskTyped, Shape, Shape', OwnInv, GenInv,
         SlotFresh,
         NEW t \in Threads, Step(t)
  PROVE  SlotFresh'
<1>1. \A u \in Threads \ {t} : pc'[u] = pc[u] /\ reg'[u] = reg[u]
  BY OthersKept DEF Typed
<1>2. \A s \in Slots : gen[s] \in Nat /\ gen'[s] \in Nat /\ gen[s] <= gen'[s]
  BY SlotsKept DEF SlotKept, Typed, GenTyped
<1>3. ASSUME HeldSlot'[t] # None, pc'[t] \notin {"siShoot", "siFree"}
      PROVE  \/ /\ HeldSlot'[t] = HeldSlot[t]
                /\ pc[t] \notin {"siShoot", "siFree"}
             \/ HeldSlot'[t] \notin used
  <2>1. pc'[t] \in {"evClaim", "evShoot", "evWrite", "evRestore", "evReshoot",
                    "evUndo", "evCommit"}
    BY <1>3 DEF HeldSlot, SlotFor
  <2>2. CASE pc'[t] = "evClaim"
    <3>1. EvictLoad(t)
      BY <2>2, Arrivals DEF Arrives, Typed
    <3>2. ~NextVictim(t)
      BY <2>2 DEF NextVictim, Go, Typed, PcTyped
    <3>3. reg'[t].slot \notin used
      BY <3>1, <3>2 DEF EvictLoad, Typed, RegTyped, Regs
    <3> QED BY <2>2, <3>3 DEF HeldSlot, SlotFor
  <2>3. CASE pc'[t] # "evClaim"
    <3>1. \/ EvictClaim(t) \/ EvictShoot(t) \/ EvictWrite(t) \/ EvictRestore(t)
          \/ EvictReshoot(t)
      BY <2>1, <2>3, Arrivals DEF Arrives, Typed
    <3>2. /\ pc[t] \in {"evClaim", "evShoot", "evWrite", "evRestore",
                      "evReshoot"}
          /\ reg' = reg
      BY <3>1 DEF EvictClaim, EvictShoot, EvictWrite, EvictRestore,
         EvictReshoot
    <3> QED BY <2>1, <3>2 DEF HeldSlot, SlotFor
  <2> QED BY <2>2, <2>3
<1>4. \A u \in Threads \ {t} : HeldSlot'[u] = HeldSlot[u]
  BY <1>1 DEF HeldSlot
<1>5. ASSUME NEW u \in Threads \ {t},
             pc'[u] \in {"siPublish", "siRead", "siInstall"}
      PROVE  /\ reg'[u].seen.gen <= gen'[reg'[u].seen.slot]
             /\ reg'[u].seen.gen = gen'[reg'[u].seen.slot] =>
                  /\ reg'[u].seen.slot \in used'
                  /\ \A w \in Threads : HeldSlot'[w] = reg'[u].seen.slot =>
                                          pc'[w] \in {"siShoot", "siFree"}
  <2> DEFINE s == reg[u].seen.slot
  <2>1. /\ pc[u] \in {"siPublish", "siRead", "siInstall"} /\ reg'[u] = reg[u]
    BY <1>1, <1>5
  <2>2. s \in Slots /\ reg[u].seen.gen \in Nat
    <3>1. reg[u].seen \in Ptes /\ reg[u].seen.k = "swapped"
      BY <2>1 DEF Shape, InHand, SwapInPcs, Typed, RegTyped, Regs
    <3> QED BY <3>1, SwappedPte, SwapAssumption
  <2>3. reg[u].seen.gen <= gen[s]
    BY <2>1 DEF SlotFresh
  <2>4. ASSUME reg[u].seen.gen = gen'[s]
        PROVE  /\ s \in used /\ s \in used'
               /\ \A w \in Threads :
                     HeldSlot[w] = s => pc[w] \in {"siShoot", "siFree"}
    <3>1. gen'[s] = gen[s]
      BY <1>2, <2>2, <2>3, <2>4
    <3>2. /\ s \in used
          /\ \A w \in Threads :
                     HeldSlot[w] = s => pc[w] \in {"siShoot", "siFree"}
      BY <2>1, <2>4, <3>1 DEF SlotFresh
    <3>3. s \in used => s \in used'
      BY <1>2, <2>2, <3>1, SlotsKept DEF SlotKept
    <3> QED BY <3>2, <3>3
  <2>5. s # None
    BY <2>2, DistinctAssumption
  <2> HIDE DEF s
  <2>6. ASSUME reg[u].seen.gen = gen'[s], NEW w \in Threads, HeldSlot'[w] = s
        PROVE  pc'[w] \in {"siShoot", "siFree"}
    BY <1>1, <1>3, <1>4, <2>4, <2>5, <2>6
  <2>7. reg[u].seen.gen <= gen'[s]
    BY <1>2, <2>2, <2>3
  <2> QED BY <2>1, <2>4, <2>6, <2>7 DEF s
<1>6. ASSUME pc'[t] = "siPublish"
      PROVE  /\ reg'[t].seen.gen = gen'[reg'[t].seen.slot]
             /\ reg'[t].seen.gen \in Nat
             /\ reg'[t].seen.slot \in used'
             /\ \A w \in Threads : HeldSlot'[w] = reg'[t].seen.slot =>
                                     pc'[w] \in {"siShoot", "siFree"}
  <2>1. SwapInLoad(t)
    BY <1>6, Arrivals DEF Arrives, Typed
  <2>2. /\ pte[at[t]].k = "swapped" /\ used \subseteq used' /\ gen' = gen
        /\ reg'[t].seen = pte[at[t]] /\ at[t] \in Pages
    <3>1. pc[t] = "siLoad" /\ gen' = gen
      BY <2>1 DEF SwapInLoad
    <3>2. ~Go(t, "user") /\ ~Go(t, "oom")
      BY <1>6 DEF Go, Typed, PcTyped
    <3>3. PICK f \in Frames : /\ pte[at[t]].k = "swapped"
                              /\ used' = used \cup {f}
                              /\ reg' = [reg EXCEPT ![t].seen = pte[at[t]],
                                                   ![t].frame = f]
      BY <2>1, <3>2 DEF SwapInLoad, Return
    <3>4. reg'[t].seen = pte[at[t]]
      BY <3>3 DEF Typed, RegTyped, Regs
    <3>5. at[t] \in Pages
      BY <3>1 DEF Shape, InHand, SwapInPcs
    <3> QED BY <3>1, <3>3, <3>4, <3>5
  <2>3. /\ PageSlot[at[t]] = pte[at[t]].slot /\ pte[at[t]].slot \in Slots
        /\ pte[at[t]].gen \in Nat
    BY <2>2, SwappedPte, SwapAssumption DEF PageSlot, SlotIn, Typed, PteTyped
  <2>4. PageSlot[at[t]] \in used
    BY <2>2, <2>3, DistinctAssumption DEF OwnInv, OneSlot, One
  <2>5. \A w \in Threads : HeldSlot[w] # PageSlot[at[t]]
    BY <2>2, <2>3, DistinctAssumption DEF OwnInv, OneSlot, One
  <2>6. HeldSlot'[t] = None
    BY <1>6 DEF HeldSlot, SlotFor
  <2>7. None \notin Slots
    BY DistinctAssumption
  <2>8. pte[at[t]].gen = gen[pte[at[t]].slot]
    BY <2>2 DEF GenInv
  <2> QED BY <1>4, <2>2, <2>3, <2>4, <2>5, <2>6, <2>7, <2>8
<1>7. ASSUME pc'[t] \in {"siRead", "siInstall"}
      PROVE  /\ pc[t] \in {"siPublish", "siRead"}
             /\ UNCHANGED <<reg, gen, used>> /\ HeldSlot'[t] = None
  <2>1. SwapInPublish(t) \/ SwapInRead(t)
    BY <1>7, Arrivals DEF Arrives, Typed
  <2>2. CASE SwapInPublish(t)
    BY <1>7, <2>2 DEF SwapInPublish, memVars, HeldSlot, SlotFor
  <2>3. CASE SwapInRead(t)
    BY <1>7, <2>3 DEF SwapInRead, Go, Typed, PcTyped, HeldSlot, SlotFor
  <2> QED BY <2>1, <2>2, <2>3
<1>8. ASSUME pc'[t] \in {"siPublish", "siRead", "siInstall"}
      PROVE  /\ reg'[t].seen.gen <= gen'[reg'[t].seen.slot]
             /\ reg'[t].seen.gen = gen'[reg'[t].seen.slot] =>
                  /\ reg'[t].seen.slot \in used'
                  /\ \A w \in Threads : HeldSlot'[w] = reg'[t].seen.slot =>
                                          pc'[w] \in {"siShoot", "siFree"}
  <2>1. CASE pc'[t] = "siPublish"
    BY <1>6, <2>1
  <2>2. CASE pc'[t] \in {"siRead", "siInstall"}
    <3>1. reg[t].seen.slot \in Slots
      BY <1>7, <2>2, SeenSlot DEF Shape, InHand, SwapInPcs
    <3>2. reg[t].seen.slot # None
      BY <3>1, DistinctAssumption
    <3>3. \A w \in Threads : HeldSlot'[w] = reg[t].seen.slot =>
                               w # t /\ HeldSlot[w] = reg[t].seen.slot
      BY <1>4, <1>7, <2>2, <3>2
    <3> QED BY <1>1, <1>7, <2>2, <3>3 DEF SlotFresh
  <2> QED BY <1>8, <2>1, <2>2
<1> QED BY <1>5, <1>8 DEF SlotFresh

\* What a swap-in has read is still what the slot holds, if the generation is.
LEMMA ReadCopiesStep ==
  ASSUME Typed, AsleepTyped, DataTyped, DiskTyped, Shape, OwnInv, DirtyNamed,
         SlotFresh, ReadCopies, NEW t \in Threads, Step(t)
  PROVE  ReadCopies'
<1>1. ASSUME NEW u \in Threads \ {t}, pc'[u] = "siInstall",
             reg'[u].seen.gen = gen'[reg'[u].seen.slot]
      PROVE  data'[reg'[u].frame] = disk'[reg'[u].seen.slot]
  <2>1. pc[u] = "siInstall" /\ reg'[u] = reg[u]
    BY <1>1, OthersKept DEF Typed
  <2>2. HeldFrame[u] = reg[u].frame /\ HeldFrame[u] # None
    BY <2>1, DistinctAssumption DEF HeldFrame, FrameFor, Shape, InHand,
       SwapInPcs
  <2>3. reg[u].seen.slot \in Slots
    BY <2>1, SeenSlot DEF Shape, InHand, SwapInPcs
  <2>4. SlotKept(t, reg[u].seen.slot)
    BY <2>3, SlotsKept
  <2>5. /\ gen[reg[u].seen.slot] \in Nat
        /\ reg[u].seen.gen <= gen[reg[u].seen.slot]
    BY <2>1, <2>3, SwapAssumption DEF SlotFresh, Typed, GenTyped
  <2>6. /\ gen'[reg[u].seen.slot] = gen[reg[u].seen.slot]
        /\ \/ disk'[reg[u].seen.slot] = disk[reg[u].seen.slot]
           \/ EvictWrite(t) /\ reg[u].seen.slot = HeldSlot[t]
    BY <1>1, <2>1, <2>4, <2>5 DEF SlotKept
  <2>7. ~(EvictWrite(t) /\ reg[u].seen.slot = HeldSlot[t])
    BY <1>1, <2>1, <2>6 DEF EvictWrite, SlotFresh
  <2> QED BY <1>1, <2>1, <2>2, <2>6, <2>7, HeldFrameKept DEF ReadCopies
<1>2. ASSUME pc'[t] = "siInstall"
      PROVE  data'[reg'[t].frame] = disk'[reg'[t].seen.slot]
  <2>1. SwapInRead(t)
    BY <1>2, Arrivals DEF Arrives, Typed
  <2>2. pc[t] = "siRead"
    BY <2>1 DEF SwapInRead
  <2>3. reg[t].frame \in Frames
    BY <2>2 DEF Shape, InHand, SwapInPcs
  <2> QED BY <1>2, <2>1, <2>3 DEF SwapInRead, Seen, Go, Typed, PcTyped,
             DataTyped
<1> QED BY <1>1, <1>2 DEF ReadCopies

\* What an eviction wrote out is still what the frame holds: nobody can write
\* to it any more.
LEMMA WriteCopiesStep ==
  ASSUME Typed, AsleepTyped, DataTyped, DiskTyped, Shape, OwnInv, DirtyNamed,
         EvictInv, WriteCopies, NEW t \in Threads, Step(t)
  PROVE  WriteCopies'
<1>1. ASSUME NEW u \in Threads \ {t}, pc'[u] = "evCommit"
      PROVE  disk'[reg'[u].slot] = data'[reg'[u].seen.frame]
  <2>1. pc[u] = "evCommit" /\ reg'[u] = reg[u]
    BY <1>1, OthersKept DEF Typed
  <2>2. HeldSlot[u] = reg[u].slot /\ HeldSlot[u] # None
    BY <2>1, DistinctAssumption DEF HeldSlot, SlotFor, Shape, InHand, EvictPcs,
       OwingPcs
  <2>3. /\ pte[reg[u].victim] = Inflight(reg[u].seen.frame)
        /\ tlb[t][reg[u].victim] = NoPte
    BY <2>1 DEF EvictInv, ClaimPcs
  <2>4. reg[u].victim \in Pages /\ reg[u].seen.frame \in Frames
    BY <2>1, SeenFrame DEF Shape, InHand, EvictPcs, OwingPcs
  <2>5. pte[reg[u].victim].k = "inflight"
    BY <2>3 DEF Inflight
  <2>6. \A v \in Values : ~Write(t, reg[u].victim, v)
    BY <2>3, <2>5 DEF Write, Cached
  <2>7. PageFrame[reg[u].victim] = reg[u].seen.frame
    BY <2>3, <2>4 DEF PageFrame, FrameIn, Inflight
  <2>8. ~LastKill(t)
    BY <2>1 DEF LastKill, Alive
  <2>9. data'[reg[u].seen.frame] = data[reg[u].seen.frame]
    BY <2>4, <2>6, <2>7, <2>8, PageFrameKept, DistinctAssumption
  <2> QED BY <2>1, <2>2, <2>9, HeldSlotKept DEF WriteCopies
<1>2. ASSUME pc'[t] = "evCommit"
      PROVE  disk'[reg'[t].slot] = data'[reg'[t].seen.frame]
  <2>1. EvictWrite(t)
    BY <1>2, Arrivals DEF Arrives, Typed
  <2>2. pc[t] = "evWrite"
    BY <2>1 DEF EvictWrite
  <2>3. reg[t].slot \in Slots
    BY <2>2 DEF Shape, InHand, EvictPcs, OwingPcs
  <2> QED BY <1>2, <2>1, <2>3 DEF EvictWrite, Seen, Go, Typed, PcTyped,
             DiskTyped
<1> QED BY <1>1, <1>2 DEF WriteCopies

\* What an entry says its page holds.
Holds(e, c, contents, stored) ==
  /\ e = NoPte => c = Image
  /\ e.k \in {"present", "inflight"} => c = contents[e.frame]
  /\ e.k = "swapped" => c = stored[e.slot]

\* The content of a page, by its entry, before a step and after it.
LEMMA ContentOf ==
  ASSUME Typed, NEW p \in Pages
  PROVE  Holds(pte[p], Content(p), data, disk)
<1>1. pte[p] = NoPte <=> pte[p].k = "none"
  BY EntryKinds DEF Typed, PteTyped
<1> QED BY <1>1 DEF Holds, Content

LEMMA NextContentOf ==
  ASSUME Typed', NEW p \in Pages
  PROVE  Holds(pte'[p], Content(p)', data', disk')
<1>1. pte'[p] = NoPte <=> pte'[p].k = "none"
  BY EntryKinds DEF Typed, PteTyped
<1> QED BY <1>1 DEF Holds, Content

\* Every step leaves every page with its content, wherever it moves it.
LEMMA ContentKeptStep ==
  ASSUME Typed, Typed', AsleepTyped, DataTyped, DiskTyped, HistoryTyped, Shape,
         OwnInv, GenInv, EvictInv, DirtyNamed, DropSourced, CleanPage,
         ReadCopies,
         WriteCopies, LazyImage, ContentKept, NEW t \in Threads, Step(t)
  PROVE  ContentKept'
<1> SUFFICES ASSUME Group' # {}, NEW p \in Pages, p \notin reused'
             PROVE  Content(p)' = last'[p]
  BY DEF ContentKept
<1>0. /\ Holds(pte[p], Content(p), data, disk)
      /\ Holds(pte'[p], Content(p)', data', disk')
      /\ pte[p] = NoPte \/ pte[p].k \in {"present", "inflight", "swapped"}
      /\ pte[p].k \in {"present", "inflight"} =>
            PageFrame[p] = pte[p].frame /\ PageFrame[p] \in Frames
      /\ pte[p].k = "swapped" =>
            PageSlot[p] = pte[p].slot /\ PageSlot[p] \in Slots
  BY ContentOf, NextContentOf, EntryKinds DEF Typed, PteTyped, PageFrame,
     PageSlot
<1>1. ~LastKill(t)
  <2> SUFFICES ASSUME LastKill(t)
               PROVE  FALSE
    OBVIOUS
  <2>1. pc'[t] = "dead"
    BY DEF LastKill, Kill, Go, Typed, PcTyped
  <2>2. \A u \in Threads \ {t} : pc'[u] = "dead"
    BY OthersKept DEF LastKill, Alive, Typed
  <2> QED BY <2>1, <2>2 DEF Group, Alive
<1>2. p \notin reused
  BY HistoryMoves DEF HistoryMoved
<1>3. Content(p) = last[p]
  BY <1>2, Departures DEF ContentKept, Group, Alive, Departs
<1>4. ASSUME NEW v \in Values, Write(t, p, v)
      PROVE  Content(p)' = last'[p]
  <2>1. last'[p] = v
    BY <1>4 DEF Write, HistoryTyped
  <2>2. CASE Cached(t, p, TRUE)
    <3>1. FrameIn(pte[p]) = tlb[t][p].frame
      BY <2>2 DEF Cached, DirtyNamed
    <3>2. tlb[t][p].frame \in Frames /\ tlb[t][p].frame # None
      BY <2>2, CachedFrame DEF Cached
    <3>3. pte' = pte /\ data' = [data EXCEPT ![tlb[t][p].frame] = v]
      BY <1>4, <2>2 DEF Write
    <3>4. /\ pte'[p].k \in {"present", "inflight"}
          /\ pte'[p].frame = tlb[t][p].frame
      BY <3>1, <3>2, <3>3 DEF FrameIn
    <3>5. Content(p)' = data'[tlb[t][p].frame]
      BY <3>4, <1>0 DEF Holds
    <3> QED BY <2>1, <3>2, <3>3, <3>5 DEF DataTyped
  <2>3. CASE ~Cached(t, p, TRUE)
    <3>1. /\ pte'[p].k = "present" /\ pte'[p].frame = pte[p].frame
          /\ pte'[p].frame \in Frames /\ data'[pte'[p].frame] = v
      BY <1>4, <2>3, WriteThroughEntry, WriteToEntry
    <3>2. Content(p)' = data'[pte'[p].frame]
      BY <3>1, <1>0 DEF Holds
    <3> QED BY <2>1, <3>1, <3>2
  <2> QED BY <2>2, <2>3
<1> SUFFICES ASSUME \A v \in Values : ~Write(t, p, v)
             PROVE  Content(p)' = Content(p)
  BY <1>3, <1>4, HistoryMoves DEF HistoryMoved
<1>5. \* an entry that still names its frame
      ASSUME pte[p].k \in {"present", "inflight"},
             pte'[p].k \in {"present", "inflight"},
             pte'[p].frame = pte[p].frame
      PROVE  Content(p)' = Content(p)
  <2>1. Content(p) = data[PageFrame[p]] /\ PageFrame[p] # None
    BY <1>5, <1>0, DistinctAssumption DEF Holds
  <2>2. Content(p)' = data'[PageFrame[p]]
    BY <1>5, <1>0 DEF Holds
  <2> QED BY <1>1, <2>1, <2>2, PageFrameKept
<1>6. CASE pte'[p] = pte[p]
  <2>1. CASE pte[p] = NoPte
    BY <1>6, <2>1, <1>0 DEF Holds
  <2>2. CASE pte[p].k = "swapped"
    <3>1. Content(p) = disk[PageSlot[p]] /\ PageSlot[p] # None
      BY <2>2, <1>0, DistinctAssumption DEF Holds
    <3>2. Content(p)' = disk'[PageSlot[p]]
      BY <1>6, <2>2, <1>0 DEF Holds
    <3> QED BY <1>1, <3>1, <3>2, PageSlotKept
  <2> QED BY <1>5, <1>6, <2>1, <2>2, <1>0 DEF Holds
<1>7. CASE pte'[p] # pte[p]
  <2>1. EntryMoved(t, p)
    BY <1>7, EntryMoves
  <2>2. ASSUME pte[p].k = "present", pte'[p] = Present(pte[p].frame, FALSE)
        PROVE  Content(p)' = Content(p)
    <3>1. pte'[p].k = "present" /\ pte'[p].frame = pte[p].frame
      BY <2>2 DEF Present
    <3> QED BY <1>5, <2>2, <3>1
  <2>3. ASSUME LazyMap(t), pc[t] = "lazyMap", p = at[t], pte[p] = NoPte,
               pte'[p] = Present(reg[t].frame, FALSE)
        PROVE  Content(p)' = Content(p)
    <3>1. data' = data
      BY <2>3 DEF LazyMap, Unmapped
    <3>2. pte'[p].k = "present" /\ pte'[p].frame = reg[t].frame
      BY <2>3 DEF Present
    <3>3. Content(p)' = data'[reg[t].frame]
      BY <3>2, <1>0 DEF Holds
    <3> QED BY <2>3, <3>1, <3>3, <1>0 DEF Holds, LazyImage
  <2>4. ASSUME SwapInInstall(t), pc[t] = "siInstall", p = at[t],
               pte[p] = reg[t].seen, pte'[p] = Present(reg[t].frame, FALSE)
        PROVE  Content(p)' = Content(p)
    <3>1. data' = data
      BY <2>4 DEF SwapInInstall, SwapInWins, Seen
    <3>2. pte'[p].k = "present" /\ pte'[p].frame = reg[t].frame
      BY <2>4 DEF Present
    <3>3. pte[p].k = "swapped"
      BY <2>4 DEF Shape, InHand, SwapInPcs
    <3>4. data[reg[t].frame] = disk[pte[p].slot]
      BY <2>4, <3>3 DEF GenInv, ReadCopies
    <3>5. Content(p)' = data'[reg[t].frame]
      BY <3>2, <1>0 DEF Holds
    <3> QED BY <3>1, <3>3, <3>4, <3>5, <1>0 DEF Holds
  <2>5. ASSUME DiscardClaim(t), pc[t] = "dcClaim", p = reg[t].victim,
               pte[p] = reg[t].seen, pte'[p] = NoPte
        PROVE  Content(p)' = Content(p)
    <3>1. pte[p].k = "present" /\ ~pte[p].dirty
      BY <2>5 DEF Shape, InHand
    <3>2. p \in Sourced
      BY <2>5 DEF DropSourced, DiscardPcs
    <3>3. last[p] = Image
      BY <1>2, <3>1, <3>2 DEF CleanPage
    <3> QED BY <1>3, <2>5, <3>3, <1>0 DEF Holds
  <2>6. ASSUME EvictClaim(t), pc[t] = "evClaim", pte[p] = reg[t].seen,
               pte'[p] = Inflight(reg[t].seen.frame)
        PROVE  Content(p)' = Content(p)
    <3>1. pte[p].k = "present"
      BY <2>6 DEF Shape, InHand, EvictPcs
    <3>2. pte'[p].k = "inflight" /\ pte'[p].frame = pte[p].frame
      BY <2>6 DEF Inflight
    <3> QED BY <1>5, <3>1, <3>2
  <2>7. ASSUME EvictRestore(t), pc[t] = "evRestore",
               pte[p] = Inflight(reg[t].seen.frame), pte'[p] = reg[t].seen
        PROVE  Content(p)' = Content(p)
    <3>1. pte'[p].k = "present"
      BY <2>7 DEF Shape, InHand, EvictPcs, OwingPcs
    <3>2. pte[p].k = "inflight" /\ pte[p].frame = pte'[p].frame
      BY <2>7 DEF Inflight
    <3> QED BY <1>5, <3>1, <3>2
  <2>8. ASSUME EvictCommit(t), pc[t] = "evCommit", p = reg[t].victim,
               pte[p] = Inflight(reg[t].seen.frame),
               pte'[p] = Swapped(reg[t].slot)
        PROVE  Content(p)' = Content(p)
    <3>1. disk' = disk
      BY <2>8 DEF EvictCommit, InflightStill, Vic, Seen
    <3>2. pte[p].k = "inflight" /\ pte[p].frame = reg[t].seen.frame
      BY <2>8 DEF Inflight
    <3>3. pte'[p].k = "swapped" /\ pte'[p].slot = reg[t].slot
      BY <2>8 DEF Swapped
    <3>4. Content(p) = data[reg[t].seen.frame]
      BY <3>2, <1>0 DEF Holds
    <3>5. Content(p)' = disk'[reg[t].slot]
      BY <3>3, <1>0 DEF Holds
    <3> QED BY <2>8, <3>1, <3>4, <3>5 DEF WriteCopies
  <2> QED BY <1>1, <2>1, <2>2, <2>3, <2>4, <2>5, <2>6, <2>7, <2>8
             DEF EntryMoved
<1> QED BY <1>6, <1>7

-----------------------------------------------------------------------------
(* Sleepers. *)

\* An evictor goes on to owe the wake until it scans for sleepers or is killed.
LEMMA OwingStep ==
  ASSUME Typed, HistoryTyped, NEW t \in Threads, Step(t), pc[t] \in OwingPcs
  PROVE  \/ pc'[t] \in OwingPcs /\ reg'[t] = reg[t]
         \/ EvictWake(t)
         \/ Kill(t) /\ reg[t].victim \in orphaned'
<1>1. CASE Kill(t)
  BY <1>1 DEF Kill, Vic
<1>2. CASE EvictShoot(t) \/ EvictWrite(t) \/ EvictReshoot(t)
  BY <1>2 DEF EvictShoot, EvictWrite, EvictReshoot, Go, OwingPcs, Typed,
     PcTyped
<1>3. CASE EvictRestore(t) \/ EvictUndo(t) \/ EvictCommit(t) \/ EvictFree(t)
  BY <1>3 DEF EvictRestore, EvictUndo, EvictCommit, EvictFree, Go, OwingPcs,
     Typed, PcTyped
<1>4. ~DiscardShoot(t)
  BY DEF DiscardShoot, OwingPcs
<1> QED BY <1>1, <1>2, <1>3, <1>4, Departures DEF Departs

\* An entry in flight has an evictor that will settle it, or one that was
\* killed.
LEMMA InflightClaimedStep ==
  ASSUME Typed, AsleepTyped, HistoryTyped, Shape, EvictInv, EvictInv',
         InflightClaimed, NEW t \in Threads, Step(t)
  PROVE  InflightClaimed'
<1> SUFFICES ASSUME NEW p \in Pages, pte'[p].k = "inflight", p \notin orphaned'
             PROVE  \E u \in Threads :
                      pc'[u] \in ClaimPcs /\ reg'[u].victim = p
  BY DEF InflightClaimed
<1>1. p \notin orphaned
  BY HistoryMoves DEF HistoryMoved
<1>2. CASE pte'[p] = pte[p]
  <2>1. PICK u \in Threads : pc[u] \in ClaimPcs /\ reg[u].victim = p
    BY <1>1, <1>2 DEF InflightClaimed
  <2>2. CASE u # t
    BY <2>1, <2>2, OthersKept DEF Typed
  <2>3. CASE u = t
    <3>1. pc[t] \in OwingPcs /\ ~EvictWake(t) /\ ~Kill(t)
      BY <2>1, <2>3 DEF EvictWake, Kill, Vic, ClaimPcs, OwingPcs
    <3>2. EvictShoot(t) \/ EvictWrite(t) \/ EvictRestore(t) \/ EvictCommit(t)
      BY <2>1, <2>3, <3>1, Departures DEF Departs, DiscardShoot, EvictReshoot,
         EvictUndo, EvictFree, ClaimPcs
    <3>3. pte[p] = Inflight(reg[t].seen.frame)
      BY <2>1, <2>3 DEF EvictInv, ClaimPcs
    <3>4. ~EvictRestore(t)
      <4>1. SUFFICES ASSUME EvictRestore(t)
                     PROVE  FALSE
        OBVIOUS
      <4>2. pte'[p] = reg[t].seen
        BY <2>1, <2>3, <3>3, <4>1 DEF EvictRestore, InflightStill, Vic, Seen,
           Typed, PteTyped
      <4>3. reg[t].seen.k = "present"
        BY <4>1 DEF EvictRestore, Shape, InHand, EvictPcs, OwingPcs
      <4> QED BY <4>2, <4>3
    <3>5. ~EvictCommit(t)
      <4>1. SUFFICES ASSUME EvictCommit(t)
                     PROVE  FALSE
        OBVIOUS
      <4>2. pte'[p] = Swapped(reg[t].slot)
        BY <2>1, <2>3, <3>3, <4>1 DEF EvictCommit, InflightStill, Vic, Seen,
           Typed, PteTyped
      <4> QED BY <4>2 DEF Swapped
    <3>6. pc'[t] \in ClaimPcs /\ reg' = reg
      BY <3>2, <3>4, <3>5 DEF EvictShoot, EvictWrite, Go, ClaimPcs, Typed,
         PcTyped
    <3> QED BY <2>1, <2>3, <3>6
  <2> QED BY <2>2, <2>3
<1>3. CASE pte'[p] # pte[p]
  <2>1. EntryMoved(t, p)
    BY <1>3, EntryMoves
  <2>2. pte'[p] # NoPte /\ pte'[p] # Swapped(reg[t].slot)
        /\ pte'[p] # Present(reg[t].frame, FALSE)
        /\ pte'[p] # Present(pte[p].frame, FALSE)
    BY DEF NoPte, Swapped, Present
  <2>3. pc[t] = "evRestore" => pte'[p] # reg[t].seen
    BY DEF Shape, InHand, EvictPcs, OwingPcs
  <2>4. EvictClaim(t) /\ p = reg[t].victim
    BY <2>1, <2>2, <2>3 DEF EntryMoved
  <2>5. pc'[t] = "evShoot" /\ reg' = reg
    BY <2>4 DEF EvictClaim, Go, Typed, PcTyped
  <2> QED BY <2>4, <2>5 DEF ClaimPcs
<1> QED BY <1>2, <1>3

\* Whoever sleeps on an eviction is owed a wake: a thread enrols before it
\* looks at the entry again, and the evictor scans after it has settled it.
LEMMA SleeperOwedStep ==
  ASSUME Typed, AsleepTyped, HistoryTyped, Shape, InflightClaimed, SleeperOwed,
         NEW t \in Threads, Step(t)
  PROVE  SleeperOwed'
<1>1. ASSUME NEW u \in Threads \ {t}, pc'[u] = "parked", asleep'[u] # None
      PROVE  \/ asleep'[u] \in orphaned'
             \/ \E w \in Threads : pc'[w] \in OwingPcs
                                     /\ reg'[w].victim = asleep'[u]
  <2>1. pc[u] = "parked" /\ asleep'[u] = asleep[u] /\ asleep[u] \in Pages
    BY <1>1, OthersKept DEF Typed, AsleepTyped
  <2>2. CASE asleep[u] \in orphaned
    BY <2>1, <2>2, HistoryMoves DEF HistoryMoved
  <2>3. ASSUME NEW w \in Threads \ {t}, pc[w] \in OwingPcs,
               reg[w].victim = asleep[u]
        PROVE  pc'[w] \in OwingPcs /\ reg'[w].victim = asleep[u]
    BY <2>3, OthersKept DEF Typed
  <2>4. ASSUME pc[t] \in OwingPcs, reg[t].victim = asleep[u]
        PROVE  \/ asleep[u] \in orphaned'
               \/ pc'[t] \in OwingPcs /\ reg'[t].victim = asleep[u]
    <3>1. ~EvictWake(t)
      BY <1>1, <2>1, <2>4 DEF EvictWake, Vic
    <3> QED BY <2>4, <3>1, OwingStep
  <2> QED BY <1>1, <2>1, <2>2, <2>3, <2>4 DEF SleeperOwed
<1>2. ASSUME pc'[t] = "parked", asleep'[t] # None
      PROVE  \/ asleep'[t] \in orphaned'
             \/ \E w \in Threads : pc'[w] \in OwingPcs
                                     /\ reg'[w].victim = asleep'[t]
  <2>1. Recheck(t)
    BY <1>2, Arrivals DEF Arrives, Typed
  <2>2. /\ pc[t] = "recheck" /\ ~Settled(t) /\ asleep' = asleep
        /\ UNCHANGED <<reg, orphaned>>
    BY <1>2, <2>1 DEF Recheck, Go, history, Typed, PcTyped
  <2>3. asleep[t] = at[t] /\ at[t] \in Pages /\ pte[at[t]].k = "inflight"
    BY <1>2, <2>2, DistinctAssumption DEF Settled, Shape, InHand, EvictPcs,
       OwingPcs
  <2>4. CASE at[t] \in orphaned
    BY <2>2, <2>3, <2>4
  <2>5. ASSUME NEW w \in Threads, pc[w] \in ClaimPcs, reg[w].victim = at[t]
        PROVE  pc'[w] \in OwingPcs /\ reg'[w].victim = at[t]
    <3>1. w # t /\ pc[w] \in OwingPcs
      BY <2>2, <2>5 DEF ClaimPcs, OwingPcs
    <3> QED BY <2>5, <3>1, OthersKept DEF Typed
  <2> QED BY <2>2, <2>3, <2>4, <2>5 DEF InflightClaimed
<1> QED BY <1>1, <1>2 DEF SleeperOwed

-----------------------------------------------------------------------------
(* The invariant. *)

Inv ==
  /\ Typed /\ AsleepTyped /\ DataTyped /\ DiskTyped /\ HistoryTyped
  /\ Shape /\ OwnInv /\ GenInv /\ EvictInv
  /\ DirtyNamed /\ DirtySeen /\ DeadClean /\ CachedNamed
  /\ DropSourced /\ CleanPage /\ CleanSeen
  /\ SlotFresh /\ ReadCopies /\ WriteCopies /\ LazyImage /\ ContentKept
  /\ InflightClaimed /\ SleeperOwed

\* At first no page is mapped and every thread is in user code.
LEMMA InitInv == Init => Inv
<1> SUFFICES ASSUME Init
             PROVE  Inv
  OBVIOUS
<1>1. Typed
  <2>1. NoReg \in Regs /\ NoPte \in Ptes /\ NoPte \in Cacheable
    BY DEF NoReg, Regs, Ptes, Cacheable
  <2>2. 0 \in 0..MaxGen
    BY SwapAssumption
  <2> QED BY <2>1, <2>2 DEF Init, Typed, PteTyped, TlbTyped, PcTyped, Steps,
             AtTyped, ChanTyped, RegTyped, UsedTyped, GenTyped, PendTyped
<1>2. AsleepTyped /\ DataTyped /\ DiskTyped /\ HistoryTyped
  BY DEF Init, AsleepTyped, DataTyped, DiskTyped, HistoryTyped, Values, Image,
     Junk
<1>3. \A p \in Pages : pte[p] = NoPte /\ pte[p].k = "none"
  BY DEF Init, NoPte
<1>4. \A t \in Threads : /\ pc[t] = "user" /\ asleep[t] = None
                         /\ \A p \in Pages : tlb[t][p] = NoPte
  BY DEF Init
<1>5. Shape
  BY <1>4 DEF Init, Shape, InHand, EvictPcs, OwingPcs, DiscardPcs, SwapInPcs
<1>6. OwnInv
  <2>1. \A t \in Threads : HeldFrame[t] = None /\ HeldSlot[t] = None
    BY <1>4 DEF HeldFrame, HeldSlot, FrameFor, SlotFor
  <2>2. \A p \in Pages : PageFrame[p] = None /\ PageSlot[p] = None
    BY <1>3 DEF PageFrame, PageSlot, FrameIn, SlotIn
  <2> QED BY <2>1, <2>2 DEF OwnInv, OneFrame, OneSlot, One
<1>7. GenInv /\ EvictInv
  BY <1>3, <1>4 DEF Init, GenInv, EvictInv, ClaimPcs
<1>8. DirtyNamed /\ DirtySeen /\ DeadClean /\ CachedNamed
  BY <1>4 DEF DirtyNamed, DirtySeen, DeadClean, CachedNamed
<1>9. DropSourced /\ CleanPage /\ CleanSeen
  BY <1>3, <1>4, SwapAssumption DEF DropSourced, DiscardPcs, CleanPage,
     CleanSeen
<1>10. SlotFresh /\ ReadCopies /\ WriteCopies /\ LazyImage
  BY <1>4 DEF SlotFresh, ReadCopies, WriteCopies, LazyImage
<1>11. ContentKept
  BY <1>3 DEF Init, ContentKept, Content
<1>12. InflightClaimed /\ SleeperOwed
  BY <1>3, <1>4 DEF InflightClaimed, SleeperOwed
<1> QED BY <1>1, <1>2, <1>5, <1>6, <1>7, <1>8, <1>9, <1>10, <1>11, <1>12
           DEF Inv

\* Every step keeps the invariant.
LEMMA StepInv ==
  ASSUME Inv, NEW t \in Threads, Step(t)
  PROVE  Inv'
<1> USE DEF Inv
<1>1. PteTyped' /\ TlbTyped' /\ PcTyped' /\ AtTyped' /\ ChanTyped'
  BY PteTypedStep, TlbTypedStep, PcTypedStep, AtTypedStep, ChanTypedStep
     DEF Typed
<1>2. RegTyped' /\ UsedTyped' /\ PendTyped' /\ GenTyped'
  BY RegTypedStep, UsedTypedStep, PendTypedStep, GenTypedStep DEF Typed
<1>3. Typed'
  BY <1>1, <1>2 DEF Typed
<1>4. AsleepTyped' /\ DataTyped' /\ DiskTyped' /\ HistoryTyped'
  BY AsleepTypedStep, DataTypedStep, DiskTypedStep, HistoryTypedStep DEF Typed
<1>5. Shape' /\ OwnInv'
  BY ShapeStep, OwnStep DEF Typed
<1>6. GenInv' /\ EvictInv'
  BY <1>3, <1>5, GenStep, EvictStepKeeps
<1>7. DeadClean'
  BY DeadCleanStep
<1>8. DirtyNamed' /\ DirtySeen' /\ CachedNamed'
  BY <1>7, DirtyNamedStep, DirtySeenStep, CachedNamedStep
<1>9. DropSourced' /\ CleanPage' /\ CleanSeen'
  BY DropSourcedStep, CleanPageStep, CleanSeenStep
<1>10. SlotFresh' /\ ReadCopies' /\ WriteCopies' /\ LazyImage'
  BY <1>5, SlotFreshStep, ReadCopiesStep, WriteCopiesStep, LazyImageStep
<1>11. ContentKept'
  BY <1>3, ContentKeptStep
<1>12. InflightClaimed' /\ SleeperOwed'
  BY <1>6, InflightClaimedStep, SleeperOwedStep
<1> QED BY <1>3, <1>4, <1>5, <1>6, <1>7, <1>8, <1>9, <1>10, <1>11, <1>12

\* And so does a step that changes nothing.
LEMMA StutterInv ==
  ASSUME Inv, UNCHANGED vars
  PROVE  Inv'
<1>1. Typed' /\ AsleepTyped' /\ DataTyped' /\ DiskTyped' /\ HistoryTyped'
  BY DEF Inv, vars, Typed, PteTyped, TlbTyped, PcTyped, AtTyped, ChanTyped,
     RegTyped, UsedTyped, GenTyped, PendTyped, AsleepTyped, DataTyped,
     DiskTyped, HistoryTyped
<1>2. Shape' /\ GenInv' /\ EvictInv'
  BY DEF Inv, vars, Shape, InHand, GenInv, EvictInv, ClaimPcs
<1>3. UNCHANGED <<HeldFrame, HeldSlot, PageFrame, PageSlot>>
  BY DEF vars, HeldFrame, HeldSlot, PageFrame, PageSlot
<1>4. OwnInv'
  BY <1>3 DEF Inv, vars, OwnInv, OneFrame, OneSlot, One
<1>5. DirtyNamed' /\ DirtySeen' /\ DeadClean' /\ CachedNamed'
  BY DEF Inv, vars, DirtyNamed, DirtySeen, DeadClean, CachedNamed
<1>6. DropSourced' /\ CleanPage' /\ CleanSeen'
  BY DEF Inv, vars, DropSourced, CleanPage, CleanSeen
<1>7. SlotFresh' /\ ReadCopies' /\ WriteCopies' /\ LazyImage'
  BY <1>3 DEF Inv, vars, SlotFresh, ReadCopies, WriteCopies, LazyImage
<1>8. ContentKept'
  BY DEF Inv, vars, ContentKept, Group, Alive, Content
<1>9. InflightClaimed' /\ SleeperOwed'
  BY DEF Inv, vars, InflightClaimed, SleeperOwed
<1> QED BY <1>1, <1>2, <1>4, <1>5, <1>6, <1>7, <1>8, <1>9 DEF Inv

\* The inductive invariant holds throughout.
THEOREM Invariance == Spec => []Inv
<1>1. Inv /\ [Next]_vars => Inv'
  <2> SUFFICES ASSUME Inv, Next
               PROVE  Inv'
    BY StutterInv
  <2>1. PICK t \in Threads : Step(t)
    BY DEF Next, Step
  <2> QED BY <2>1, StepInv
<1> QED BY InitInv, <1>1, PTL DEF Spec

-----------------------------------------------------------------------------
(* What follows from it. *)

\* Every variable keeps its type.
THEOREM TypeCorrect == Spec => []TypeOK
<1>1. Inv => TypeOK
  BY DEF Inv, Typed, PteTyped, TlbTyped, Cacheable, PcTyped, Steps, AtTyped,
     ChanTyped, RegTyped, Regs, UsedTyped, GenTyped, PendTyped, AsleepTyped,
     DataTyped, DiskTyped, HistoryTyped, TypeOK
<1> QED BY Invariance, <1>1, PTL

\* No page loses what was last written to it, whatever becomes of its frame
\* while the group lives: through mm/swap.zig's eviction, discard and swap-in,
\* and kills between any two of their steps.
THEOREM ContentIsKept == Spec => []ContentKept
<1>1. Inv => ContentKept
  BY DEF Inv
<1> QED BY Invariance, <1>1, PTL

\* A stale translation never leads to a frame that was freed or already copied
\* out: evictFrame and discardFrame flush in time.
THEOREM CachedIsRight == Spec => []CachedRight
<1>1. ASSUME Inv, NEW t \in Threads, NEW p \in Pages \ (reused \cup orphaned),
             tlb[t][p] # NoPte,
             ~(\E u \in Threads : pc[u] = "dcShoot" /\ Vic(u) = p)
      PROVE  tlb[t][p].frame \in used /\ data[tlb[t][p].frame] = last[p]
  <2>1. FrameIn(pte[p]) = tlb[t][p].frame
    BY <1>1 DEF Inv, CachedNamed, Vic
  <2>2. tlb[t][p].frame # None
    BY <1>1, CachedFrame DEF Inv
  <2>3. pte[p].k \in {"present", "inflight"} /\ pte[p].frame = tlb[t][p].frame
    BY <2>1, <2>2 DEF FrameIn
  <2>4. PageFrame[p] = tlb[t][p].frame
    BY <2>1 DEF PageFrame
  <2>5. tlb[t][p].frame \in used
    BY <1>1, <2>2, <2>4 DEF Inv, OwnInv, OneFrame, One
  <2>6. Content(p) = last[p]
    BY <1>1 DEF Inv, ContentKept, Group, Alive, DeadClean
  <2>7. Holds(pte[p], Content(p), data, disk)
    BY <1>1, ContentOf DEF Inv
  <2> QED BY <2>3, <2>5, <2>6, <2>7 DEF Holds
<1>2. Inv => CachedRight
  BY <1>1 DEF CachedRight
<1> QED BY Invariance, <1>2, PTL

\* An owner, as a page that names a frame or slot or a thread that holds it.
LEMMA OwnersOf ==
  ASSUME Typed, Shape, NEW x \in Frames \cup Slots, NEW y \in Owners(x)
  PROVE  \/ y \in Pages /\ (PageFrame[y] = x \/ PageSlot[y] = x)
         \/ y \in Threads /\ (HeldFrame[y] = x \/ HeldSlot[y] = x)
<1>1. CASE /\ y \in Pages /\ pte[y].k \in {"present", "inflight"}
           /\ pte[y].frame = x
  BY <1>1 DEF PageFrame, FrameIn
<1>2. CASE y \in Pages /\ pte[y].k = "swapped" /\ pte[y].slot = x
  BY <1>2 DEF PageSlot, SlotIn
<1>3. ASSUME y \in Threads, x \in {chan[y].slot, chan[y].frame}
      PROVE  HeldFrame[y] = x \/ HeldSlot[y] = x
  <2>1. x # None
    BY DistinctAssumption
  <2>2. CASE x = chan[y].slot
    <3>1. pc[y] \in OwingPcs \ {"evFree", "evWake"} /\ x = reg[y].slot
      BY <1>3, <2>1, <2>2 DEF Shape, InHand
    <3> QED BY <1>3, <3>1 DEF HeldSlot, SlotFor, OwingPcs
  <2>3. CASE x = chan[y].frame
    <3>1. pc[y] \in {"siRead", "siInstall"} /\ x = reg[y].frame
      BY <1>3, <2>1, <2>3 DEF Shape, InHand
    <3> QED BY <1>3, <3>1 DEF HeldFrame, FrameFor
  <2> QED BY <1>3, <2>2, <2>3
<1>4. ASSUME y \in Threads, x \in StackNames(y)
      PROVE  HeldFrame[y] = x \/ HeldSlot[y] = x
  BY <1>4 DEF StackNames, Seen, HeldFrame, HeldSlot, FrameFor, SlotFor
<1> QED BY <1>1, <1>2, <1>3, <1>4 DEF Owners, Group

\* No frame and no slot has two owners at any point where a kill can land, and
\* one that has an owner is allocated.
THEOREM OwnerIsSole == Spec => []SoleOwner
<1>1. ASSUME Inv, NEW x \in Frames \cup Slots, NEW y \in Owners(x)
      PROVE  x \in used
  <2>1. x # None
    BY DistinctAssumption
  <2> QED BY <1>1, <2>1, OwnersOf DEF Inv, OwnInv, OneFrame, OneSlot, One
<1>2. ASSUME Inv, NEW x \in Frames \cup Slots, NEW y \in Owners(x),
             NEW z \in Owners(x)
      PROVE  y = z
  <2>1. x # None
    BY DistinctAssumption
  <2>2. Typed /\ Shape /\ OneFrame /\ OneSlot
    BY <1>2 DEF Inv, OwnInv
  <2>3. /\ \/ y \in Pages /\ (PageFrame[y] = x \/ PageSlot[y] = x)
           \/ y \in Threads /\ (HeldFrame[y] = x \/ HeldSlot[y] = x)
        /\ \/ z \in Pages /\ (PageFrame[z] = x \/ PageSlot[z] = x)
           \/ z \in Threads /\ (HeldFrame[z] = x \/ HeldSlot[z] = x)
    BY <2>2, OwnersOf
  <2>4. CASE x \in Frames
    <3>1. /\ \A p \in Pages : PageSlot[p] # x
          /\ \A t \in Threads : HeldSlot[t] # x
      BY <2>2, <2>4, HeldTypes, DistinctAssumption
    <3> QED BY <2>1, <2>2, <2>3, <3>1 DEF OneFrame, One
  <2>5. CASE x \in Slots
    <3>1. /\ \A p \in Pages : PageFrame[p] # x
          /\ \A t \in Threads : HeldFrame[t] # x
      BY <2>2, <2>5, HeldTypes, DistinctAssumption
    <3> QED BY <2>1, <2>2, <2>3, <3>1 DEF OneSlot, One
  <2> QED BY <2>4, <2>5
<1>3. ASSUME Inv, NEW x \in Frames \cup Slots
      PROVE  Cardinality(Owners(x)) <= 1
  <2>1. CASE Owners(x) = {}
    BY <2>1, FS_EmptySet
  <2>2. ASSUME NEW y \in Owners(x)
        PROVE  Cardinality(Owners(x)) = 1
    <3>1. Owners(x) = {y}
      BY <1>2, <1>3, <2>2
    <3> QED BY <3>1, FS_Singleton
  <2> QED BY <2>1, <2>2
<1>4. Inv => SoleOwner
  BY <1>1, <1>3 DEF SoleOwner
<1> QED BY Invariance, <1>4, PTL

\* A thread that blockOnSwapEvict has put to sleep has a live evictor that will
\* wake it, unless the evictor was killed owing the wake.
THEOREM FaulterIsAttended == Spec => []FaulterAttended
<1>1. ASSUME Inv, NEW t \in Threads, pc[t] = "parked", asleep[t] # None,
             asleep[t] \notin orphaned
      PROVE  \E u \in Group \ {t} : pc[u] \in OwingPcs /\ Vic(u) = asleep[t]
  <2>1. PICK u \in Threads : pc[u] \in OwingPcs /\ reg[u].victim = asleep[t]
    BY <1>1 DEF Inv, SleeperOwed
  <2>2. u \in Group \ {t}
    BY <1>1, <2>1 DEF Group, Alive, OwingPcs
  <2> QED BY <2>1, <2>2 DEF Vic
<1>2. Inv => FaulterAttended
  BY <1>1 DEF FaulterAttended
<1> QED BY Invariance, <1>2, PTL

-----------------------------------------------------------------------------
(* What a kill costs. *)

\* Named, in the terms of Owners.
LEMMA NamedIs ==
  ASSUME Typed, Shape
  PROVE  Unnamed = {x \in used \ {None} : ~Named(x)}
<1>1. None \notin used
  BY DistinctAssumption DEF Typed, UsedTyped
<1>2. ASSUME NEW x \in used, Owners(x) # {}
      PROVE  Named(x)
  <2>1. x \in Frames \cup Slots
    BY DEF Typed, UsedTyped
  <2>2. PICK y : y \in Owners(x)
    BY <1>2
  <2> QED BY <2>1, <2>2, OwnersOf DEF Named
<1>3. ASSUME NEW x \in used, NEW p \in Pages, PageFrame[p] = x \/ PageSlot[p] = x
      PROVE  p \in Owners(x)
  BY <1>1, <1>3 DEF PageFrame, PageSlot, FrameIn, SlotIn, Owners
<1>4. ASSUME NEW x \in used, NEW t \in Threads, HeldFrame[t] = x \/ HeldSlot[t] = x
      PROVE  t \in Owners(x)
  <2>1. pc[t] # "dead"
    BY <1>1, <1>4 DEF HeldFrame, HeldSlot, FrameFor, SlotFor
  <2>2. x \in {chan[t].slot, chan[t].frame} \cup StackNames(t)
    <3>1. CASE HeldFrame[t] = x
      BY <1>1, <3>1 DEF HeldFrame, FrameFor, StackNames, Seen, Shape, InHand
    <3>2. CASE HeldSlot[t] = x
      BY <1>1, <3>2 DEF HeldSlot, SlotFor, StackNames, Seen, Shape, InHand, OwingPcs
    <3> QED BY <1>4, <3>1, <3>2
  <2> QED BY <2>1, <2>2 DEF Owners, Group, Alive
<1>5. ASSUME NEW x \in used, Named(x)
      PROVE  Owners(x) # {}
  BY <1>3, <1>4, <1>5 DEF Named
<1> QED BY <1>1, <1>2, <1>5 DEF Unnamed

\* At most as many frames and slots are lost as threads were killed.
LeakInv ==
  /\ \A t \in kills : pc[t] = "dead"
  /\ IsFiniteSet(kills) /\ IsFiniteSet(Unnamed) /\ LeakBounded

\* Nothing is in use at first.
LEMMA InitLeak == Init => LeakInv
<1> SUFFICES ASSUME Init PROVE LeakInv
  OBVIOUS
<1>1. kills = {} /\ Unnamed = {}
  BY DEF Init, Unnamed
<1>2. IsFiniteSet({}) /\ Cardinality({}) = 0
  BY FS_EmptySet
<1> QED BY <1>1, <1>2 DEF LeakInv, LeakBounded

\* A step loses nothing, and a kill what the victim had on its stack, which is
\* one frame or one slot.
LEMMA LeakStep ==
  ASSUME Inv, Inv', LeakInv, NEW t \in Threads, Step(t)
  PROVE  LeakInv'
<1>1. /\ Typed /\ Shape /\ OwnInv /\ Typed' /\ Shape'
  BY DEF Inv
<1>2. NamesKept(t)
  BY <1>1, OwnStep
<1>3. /\ Unnamed = {x \in used \ {None} : ~Named(x)}
      /\ Unnamed' = {x \in used' \ {None} : ~Named(x)'}
  <2>1. Unnamed = {x \in used \ {None} : ~Named(x)}
    BY <1>1, NamedIs
  <2>2. (Typed /\ Shape => Unnamed = {x \in used \ {None} : ~Named(x)})'
    BY NamedIs, PTL
  <2> QED BY <1>1, <2>1, <2>2
<1>4. CASE ~Kill(t)
  <2>1. kills' = kills
    BY <1>4 DEF Step, UserStep, FaultStep, EvictStep, SwapInStep, Read, Write, Fault,
       Mprotect, Lookup, Enrol, Recheck, Resume, Dispatch, LazyAlloc, LazyShort,
       LazyMap, Victim, EndReclaim, Age, DiscardLoad, DiscardClaim, DiscardShoot,
       DiscardFree, EvictLoad, EvictClaim, EvictLost, EvictShoot, EvictWrite,
       EvictRestore, EvictReshoot, EvictUndo, EvictCommit, EvictFree, EvictWake,
       SwapInLoad, SwapInPublish, SwapInRead, SwapInInstall, SwapInShoot,
       SwapInFree, history
  <2>2. Unnamed' \subseteq Unnamed
    BY <1>2, <1>3, <1>4 DEF NamesKept
  <2>3. /\ IsFiniteSet(Unnamed')
        /\ Cardinality(Unnamed') <= Cardinality(Unnamed)
        /\ Cardinality(Unnamed') \in Nat /\ Cardinality(Unnamed) \in Nat
    BY <2>2, FS_Subset, FS_CardinalityType DEF LeakInv
  <2>4. Cardinality(kills) \in Nat
    BY FS_CardinalityType DEF LeakInv
  <2>5. \A u \in kills : pc'[u] = "dead"
    <3>1. pc[t] # "dead"
      BY <1>4 DEF Step, UserStep, FaultStep, EvictStep, SwapInStep, Read, Write,
         Fault, Mprotect, Lookup, Enrol, Recheck, Resume, Dispatch, LazyAlloc,
         LazyShort, LazyMap, Victim, EndReclaim, Age, DiscardLoad, DiscardClaim,
         DiscardShoot, DiscardFree, EvictLoad, EvictClaim, EvictLost, EvictShoot,
         EvictWrite, EvictRestore, EvictReshoot, EvictUndo, EvictCommit, EvictFree,
         EvictWake, SwapInLoad, SwapInPublish, SwapInRead, SwapInInstall,
         SwapInShoot, SwapInFree
    <3>2. \A u \in Threads \ {t} : pc'[u] = pc[u]
      BY OthersKept DEF Inv, Typed
    <3> QED BY <3>1, <3>2 DEF LeakInv, Inv, HistoryTyped
  <2> QED BY <2>1, <2>3, <2>4, <2>5 DEF LeakInv, LeakBounded
<1>5. CASE Kill(t)
  <2>1. kills' = kills \cup {t} /\ pc[t] # "dead" /\ pc' = [pc EXCEPT ![t] = "dead"]
    BY <1>5 DEF Kill, MayKill, Alive, Go
  <2>2. t \notin kills
    BY <2>1 DEF LeakInv
  <2>3. /\ IsFiniteSet(kills') /\ Cardinality(kills') = Cardinality(kills) + 1
        /\ Cardinality(kills) \in Nat
    BY <2>1, <2>2, FS_AddElement, FS_CardinalityType DEF LeakInv
  <2>4. HeldFrame[t] = None \/ HeldSlot[t] = None
    BY DEF HeldFrame, HeldSlot, FrameFor, SlotFor
  <2>5. PICK y : y = IF HeldFrame[t] = None THEN HeldSlot[t] ELSE HeldFrame[t]
    OBVIOUS
  <2>6. Unnamed' \subseteq Unnamed \cup {y}
    BY <1>2, <1>3, <2>4, <2>5 DEF NamesKept
  <2>7. /\ IsFiniteSet(Unnamed \cup {y}) /\ Cardinality(Unnamed) \in Nat
        /\ Cardinality(Unnamed \cup {y}) \in Nat
        /\ Cardinality(Unnamed \cup {y}) <= Cardinality(Unnamed) + 1
    <3>1. IsFiniteSet(Unnamed)
      BY DEF LeakInv
    <3>2. /\ IsFiniteSet(Unnamed \cup {y})
          /\ \/ Cardinality(Unnamed \cup {y}) = Cardinality(Unnamed)
             \/ Cardinality(Unnamed \cup {y}) = Cardinality(Unnamed) + 1
      BY <3>1, FS_AddElement
    <3>3. Cardinality(Unnamed) \in Nat /\ Cardinality(Unnamed \cup {y}) \in Nat
      BY <3>1, <3>2, FS_CardinalityType
    <3> QED BY <3>2, <3>3
  <2>8. /\ IsFiniteSet(Unnamed')
        /\ Cardinality(Unnamed') <= Cardinality(Unnamed \cup {y})
        /\ Cardinality(Unnamed') \in Nat
    BY <2>6, <2>7, FS_Subset, FS_CardinalityType
  <2>9. \A u \in kills' : pc'[u] = "dead"
    BY <2>1 DEF LeakInv, Inv, HistoryTyped, Typed, PcTyped
  <2> QED BY <2>3, <2>7, <2>8, <2>9 DEF LeakInv, LeakBounded
<1> QED BY <1>4, <1>5

\* A kill, between whatever two steps of mm/swap.zig, loses one frame or one slot
\* at most, and nothing else ever loses any.
THEOREM LeakIsBounded == Spec => []LeakBounded
<1>1. Inv /\ LeakInv /\ [Next]_vars /\ Inv' => LeakInv'
  <2>1. ASSUME Inv, LeakInv, Inv', Next
        PROVE  LeakInv'
    <3>1. PICK t \in Threads : Step(t)
      BY <2>1 DEF Next, Step
    <3> QED BY <2>1, <3>1, LeakStep
  <2>2. ASSUME LeakInv, UNCHANGED vars
        PROVE  LeakInv'
    <3>1. UNCHANGED <<Unnamed, kills, pc>>
      BY <2>2 DEF vars, Unnamed, Owners, Group, Alive, StackNames, Seen
    <3> QED BY <2>2, <3>1 DEF LeakInv, LeakBounded
  <2> QED BY <2>1, <2>2
<1>2. LeakInv => LeakBounded
  BY DEF LeakInv
<1> QED BY InitLeak, Invariance, <1>1, <1>2, PTL DEF Spec
=============================================================================
