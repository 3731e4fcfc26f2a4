----------------------------- MODULE Shootdown -----------------------------
(***************************************************************************)
(* The TLB shootdown: how a processor that changed page table entries of   *)
(* an address space makes sure no other one goes on using what it cached   *)
(* of them.  cpu/mmu/tlb.zig (doShootdown, flushUserPage and the handler   *)
(* of the interrupt) with cpu/mmu/pcid.zig (address-space tags, PCIDs,     *)
(* and the loading of CR3).                                                *)
(*                                                                         *)
(* Cached entries carry a tag and outlive a switch to other tables.  Only  *)
(* the processors running the tag are interrupted; the others flush when   *)
(* they next load it, because the sender moved the tag's generation.       *)
(*                                                                         *)
(* A processor is taken to cache every translation of the tag in its CR3   *)
(* at once: the hardware may, and a stale entry is the harm.  The sender   *)
(* is pinned, so a processor stands for the thread on it.                  *)
(*                                                                         *)
(* Left out: machines without PCIDs or INVPCID, the kernel's own tag 0 and *)
(* the hypercall of Hyper-V (the .full mode); a processor coming up.       *)
(***************************************************************************)
EXTENDS Naturals, FiniteSets

CONSTANTS
  Cpus,
  Pcids,    \* the tags of user address spaces
  Changing, \* those whose page tables change (the others are only loaded)
  Pages,    \* pages of each
  MaxGen,   \* how often a generation may move (bound)
  Scenes    \* which scenes a behaviour may choose, see SceneNames

SceneNames ==
  {"locked",   \* every flush is a doShootdown
   "apart",    \* flushUserPage too, one flush of an address space at a time
   "threads"}  \* flushUserPage too, by the threads of an address space freely

Kernel == "kernel"   \* PCID 0: the kernel's own tables
NoCpu  == "none"

ASSUME ShootdownAssumption ==
  /\ IsFiniteSet(Cpus) /\ NoCpu \notin Cpus /\ Kernel \notin Pcids
  /\ Changing \subseteq Pcids
  /\ MaxGen \in Nat /\ Scenes \subseteq SceneNames

VARIABLES
  gen,      \* global_gen
  local,    \* local_gen
  mask,     \* pcid_cpumask
  loaded,   \* CpuTlb.loaded
  lazy,     \* CpuTlb.lazy
  cr3,      \* the tag in each processor's CR3
  entry,    \* each processor's cached translations, by tag and page
  inUse,    \* tags allocated
  holder,   \* who has shootdown_lock
  acks,     \* processors whose ack_pending is not zero
  ipi,      \* processors with the vector pending
  pc,       \* where the code on each processor is
  tag,      \* the tag it loads, or whose flush it does
  span,     \* the pages it flushes
  how,      \* current_mode of its shootdown
  mine,     \* the generation its own bump made; what loadCr3 compared
  todo,     \* processors it has still to look at
  targets,  \* inflight_mask
  scene     \* what the callers do (constant)

tlbVars  == <<gen, local, mask, loaded, lazy, cr3, entry, inUse>>
sendVars == <<holder, acks, ipi>>
regs     == <<tag, span, how, mine, todo, targets>>
vars     == <<tlbVars, sendVars, pc, regs, scene>>

LoadPcs == {"announce", "readGen", "write", "drop", "leave"}
\* The critical section of doShootdown.
SendPcs == {"bump", "mask", "scan", "wait"}
\* flushUserPage before it has settled for the lock or against it.
LonePcs == {"loneBump", "loneMask", "loneScan"}
FlushPcs == SendPcs \cup LonePcs \cup {"lock"}

TypeOK ==
  /\ gen \in [Pcids -> 0..MaxGen]
  /\ local \in [Cpus -> [Pcids -> 0..MaxGen]]
  /\ mask \in [Pcids -> SUBSET Cpus]
  /\ loaded \in [Cpus -> Pcids \cup {Kernel}]
  /\ lazy \in [Cpus -> Pcids \cup {Kernel}]
  /\ cr3 \in [Cpus -> Pcids \cup {Kernel}]
  /\ entry \in [Cpus -> [Pcids -> [Pages -> {"none", "cur", "old"}]]]
  /\ inUse \subseteq Pcids
  /\ holder \in Cpus \cup {NoCpu}
  /\ acks \subseteq Cpus
  /\ ipi \subseteq Cpus
  /\ pc \in [Cpus -> LoadPcs \cup FlushPcs \cup {"run"}]
  /\ tag \in [Cpus -> Pcids \cup {Kernel}]
  /\ span \in [Cpus -> SUBSET Pages]
  /\ how \in [Cpus -> {"page", "context"}]
  /\ mine \in [Cpus -> 0..MaxGen]
  /\ todo \in [Cpus -> SUBSET Cpus]
  /\ targets \in [Cpus -> SUBSET Cpus]
  /\ scene \in Scenes

Init ==
  /\ gen = [p \in Pcids |-> 0]
  /\ local = [c \in Cpus |-> [p \in Pcids |-> 0]]
  /\ mask = [p \in Pcids |-> {}]
  /\ loaded = [c \in Cpus |-> Kernel]
  /\ lazy = [c \in Cpus |-> Kernel]
  /\ cr3 = [c \in Cpus |-> Kernel]
  /\ entry = [c \in Cpus |-> [p \in Pcids |-> [v \in Pages |-> "none"]]]
  /\ inUse = {}
  /\ holder = NoCpu /\ acks = {} /\ ipi = {}
  /\ pc = [c \in Cpus |-> "run"]
  /\ tag = [c \in Cpus |-> Kernel]
  /\ span = [c \in Cpus |-> {}]
  /\ how = [c \in Cpus |-> "page"]
  /\ mine = [c \in Cpus |-> 0]
  /\ todo = [c \in Cpus |-> {}]
  /\ targets = [c \in Cpus |-> {}]
  /\ scene \in Scenes

Go(c, l) == pc' = [pc EXCEPT ![c] = l]

Return(c) == /\ Go(c, "run")
             /\ tag' = [tag EXCEPT ![c] = Kernel]
             /\ span' = [span EXCEPT ![c] = {}]
             /\ how' = [how EXCEPT ![c] = "page"]
             /\ mine' = [mine EXCEPT ![c] = 0]
             /\ todo' = [todo EXCEPT ![c] = {}]
             /\ targets' = [targets EXCEPT ![c] = {}]

-----------------------------------------------------------------------------
(* What the processor does to its cache.  Gone(c, p) is what takes the     *)
(* place of an entry dropped: a current one if p is in its CR3.            *)

Gone(c, p) == IF cr3[c] = p THEN "cur" ELSE "none"

\* The entries of c with the pages V of tag p dropped.
Without(c, p, V) ==
  IF p \notin Pcids THEN entry[c]
  ELSE [entry[c] EXCEPT ![p] =
          [v \in Pages |-> IF v \in V THEN Gone(c, p) ELSE entry[c][p][v]]]

\* INVPCID type 0 has been seen to leave an entry behind on a nested
\* machine; INVLPG, which acts on the tag in CR3, is the backstop.
Invalidated(c, p, V) ==
  {Without(c, cr3[c], V)}
    \cup (IF cr3[c] = p \/ p \notin Pcids THEN {}
          ELSE {[Without(c, cr3[c], V) EXCEPT ![p] =
                   [v \in Pages |-> IF v \in V THEN "none" ELSE entry[c][p][v]]]})

\* Mutant of FlushLocalForMode: without the INVLPG backstop.
FlushLocalForModeBare(c, s) ==
  IF how[s] = "context" THEN {Without(c, tag[s], Pages)}
                        ELSE {entry[c], Without(c, tag[s], span[s])}

\* flushLocalForMode: type 1 for the whole tag is reliable.
FlushLocalForMode(c, s) ==
  IF how[s] = "context" THEN {Without(c, tag[s], Pages)}
                        ELSE Invalidated(c, tag[s], span[s])

\* The page table entries of V change: what is cached of them is out of date.
Outdate(p, V) ==
  entry' = [c \in Cpus |-> [entry[c] EXCEPT ![p] =
              [v \in Pages |-> IF v \in V /\ entry[c][p][v] = "cur"
                                 THEN "old" ELSE entry[c][p][v]]]]

-----------------------------------------------------------------------------
(* loadCr3, interrupts off from its first step to its last.                *)

\* loadCr3 of a user tag starts: its bit in the mask before anything else.
Load(c, p) ==
  /\ pc[c] = "run" /\ p \in inUse
  /\ mask' = [mask EXCEPT ![p] = @ \cup {c}]
  /\ tag' = [tag EXCEPT ![c] = p]
  /\ Go(c, "announce")
  /\ UNCHANGED <<gen, local, loaded, lazy, cr3, entry, inUse, sendVars, span,
                 how, mine, todo, targets, scene>>

Announce(c) ==
  /\ pc[c] = "announce"
  /\ loaded' = [loaded EXCEPT ![c] = tag[c]]
  /\ Go(c, "readGen")
  /\ UNCHANGED <<gen, local, mask, lazy, cr3, entry, inUse, sendVars, regs,
                 scene>>

\* local_gen is brought up to date here; "mine" keeps what it was.
ReadGen(c) ==
  /\ pc[c] = "readGen"
  /\ mine' = [mine EXCEPT ![c] = local[c][tag[c]]]
  /\ local' = [local EXCEPT ![c][tag[c]] = gen[tag[c]]]
  /\ Go(c, "write")
  /\ UNCHANGED <<gen, mask, loaded, lazy, cr3, entry, inUse, sendVars, tag,
                 span, how, todo, targets, scene>>

\* What CR3 with or without bit 63 leaves of the entries of p, which from
\* now on are filled in.
Filled(c, p, preserve) ==
  [v \in Pages |-> IF preserve /\ entry[c][p][v] = "old" THEN "old" ELSE "cur"]

\* The CR3 write, then INVPCID of the tag this processor held lazily.
WriteCr3(c) ==
  LET p == tag[c]
      prev == lazy[c]
      evicts == prev # Kernel /\ prev # p
  IN /\ pc[c] = "write"
     /\ cr3' = [cr3 EXCEPT ![c] = p]
     /\ entry' = [entry EXCEPT ![c] = [q \in Pcids |->
                    IF q = p THEN Filled(c, p, mine[c] = local[c][p])
                    ELSE IF evicts /\ q = prev THEN [v \in Pages |-> "none"]
                    ELSE entry[c][q]]]
     /\ \/ evicts /\ Go(c, "drop") /\ UNCHANGED <<lazy, regs>>
        \/ ~evicts /\ lazy' = [lazy EXCEPT ![c] = p] /\ Return(c)
     /\ UNCHANGED <<gen, local, mask, loaded, inUse, sendVars, scene>>

Drop(c) ==
  /\ pc[c] = "drop"
  /\ mask' = [mask EXCEPT ![lazy[c]] = @ \ {c}]
  /\ lazy' = [lazy EXCEPT ![c] = tag[c]]
  /\ Return(c)
  /\ UNCHANGED <<gen, local, loaded, cr3, entry, inUse, sendVars, scene>>

\* Mutant of LoadKernel: "loaded" first, as the other branch has it.
LoadKernelLate(c) ==
  /\ pc[c] = "run" /\ cr3[c] # Kernel
  /\ loaded' = [loaded EXCEPT ![c] = Kernel]
  /\ Go(c, "leave")
  /\ UNCHANGED <<gen, local, mask, cr3, lazy, entry, inUse, sendVars, regs,
                 scene>>

\* loadCr3 of the kernel's tables: the tag stays, lazily.
LoadKernel(c) ==
  /\ pc[c] = "run" /\ cr3[c] # Kernel
  /\ cr3' = [cr3 EXCEPT ![c] = Kernel]
  /\ Go(c, "leave")
  /\ UNCHANGED <<gen, local, mask, loaded, lazy, entry, inUse, sendVars, regs,
                 scene>>

Leave(c) ==
  /\ pc[c] = "leave"
  /\ loaded' = [loaded EXCEPT ![c] = Kernel]
  /\ Go(c, "run")
  /\ UNCHANGED <<gen, local, mask, lazy, cr3, entry, inUse, sendVars, regs,
                 scene>>

-----------------------------------------------------------------------------
(* doShootdown.                                                            *)

\* Bumps of p that flushes under way have still to make, and whether the
\* bound leaves room for n more: a flush that starts is never stuck on it.
Committed(p) ==
  LET Due(S) == Cardinality({c \in Cpus : tag[c] = p /\ pc[c] \in S})
  IN Due({"lock", "bump", "loneBump", "loneMask", "loneScan"}) + Due({"loneBump"})

Room(p, n) == gen[p] + Committed(p) + n =< MaxGen

\* What a caller may do where: see SceneNames.
MayFlush(c, p) ==
  /\ pc[c] = "run" /\ p \in inUse \cap Changing
  /\ scene = "apart" => \A d \in Cpus : pc[d] \in FlushPcs => tag[d] # p

\* A caller changes entries and asks for the shootdown.  The desktop does
\* so, with shootdownAll, of an address space it does not run.
Shoot(c, p, V, mode) ==
  /\ MayFlush(c, p) /\ Room(p, 1)
  /\ V # {} /\ (mode = "context" => V = Pages)
  /\ cr3[c] # p => mode = "context" /\ scene # "threads"
  /\ Outdate(p, V)
  /\ tag' = [tag EXCEPT ![c] = p]
  /\ span' = [span EXCEPT ![c] = V]
  /\ how' = [how EXCEPT ![c] = mode]
  /\ Go(c, "lock")
  /\ UNCHANGED <<gen, local, mask, loaded, lazy, cr3, inUse, sendVars, mine,
                 todo, targets, scene>>

\* The spin on shootdown_lock, with interrupts on whatever the caller had.
Lock(c) ==
  /\ pc[c] = "lock" /\ holder = NoCpu
  /\ holder' = c
  /\ Go(c, "bump")
  /\ UNCHANGED <<tlbVars, acks, ipi, regs, scene>>

BumpGen(c) ==
  LET p == tag[c]
  IN /\ gen[p] < MaxGen
     /\ gen' = [gen EXCEPT ![p] = @ + 1]
     /\ mine' = [mine EXCEPT ![c] = gen[p] + 1]

Bump(c) ==
  /\ pc[c] = "bump"
  /\ BumpGen(c)
  /\ Go(c, "mask")
  /\ UNCHANGED <<local, mask, loaded, lazy, cr3, entry, inUse, sendVars, tag,
                 span, how, todo, targets, scene>>

ReadMask(c) ==
  /\ pc[c] = "mask"
  /\ todo' = [todo EXCEPT ![c] = mask[tag[c]] \ {c}]
  /\ Go(c, "scan")
  /\ UNCHANGED <<tlbVars, sendVars, tag, span, how, mine, targets, scene>>

\* The processors of the mask one by one: only those running the tag.
Scan(c, i) ==
  /\ pc[c] = "scan" /\ i \in todo[c]
  /\ todo' = [todo EXCEPT ![c] = @ \ {i}]
  /\ IF loaded[i] = tag[c]
       THEN /\ acks' = acks \cup {i}
            /\ targets' = [targets EXCEPT ![c] = @ \cup {i}]
       ELSE UNCHANGED <<acks, targets>>
  /\ UNCHANGED <<tlbVars, holder, ipi, pc, tag, span, how, mine, scene>>

Send(c) ==
  /\ pc[c] = "scan" /\ todo[c] = {}
  /\ ipi' = ipi \cup targets[c]
  /\ Go(c, "wait")
  /\ UNCHANGED <<tlbVars, holder, acks, regs, scene>>

\* Mutant of MarkFlushed: one more than the bump returned.
MarkFlushedNext(c) ==
  local' = IF loaded[c] = tag[c]
             THEN [local EXCEPT ![c][tag[c]] = mine[c] + 1] ELSE local

\* Only a sender that runs the tag has flushed it for certain.
MarkFlushed(c) ==
  local' = IF loaded[c] = tag[c]
             THEN [local EXCEPT ![c][tag[c]] = mine[c]] ELSE local

\* Mutant of Awaited: the mask is read again.
AwaitedAgain(c) == targets[c] \cap mask[tag[c]]

\* The processors whose acknowledgement the sender waits for.
Awaited(c) == targets[c]

\* All acknowledged: the local flush, markFlushed, and the lock released.
Finish(c) ==
  /\ pc[c] = "wait" /\ Awaited(c) \cap acks = {}
  /\ \E e \in FlushLocalForMode(c, c) : entry' = [entry EXCEPT ![c] = e]
  /\ MarkFlushed(c)
  /\ holder' = NoCpu
  /\ Return(c)
  /\ UNCHANGED <<gen, mask, loaded, lazy, cr3, inUse, acks, ipi, scene>>

\* Mutant of InterruptsOn: the spin on the lock keeps them off.
InterruptsOnOutsideLock(i) == pc[i] \notin LoadPcs \cup {"lock"}

\* Interrupts are off in loadCr3.
InterruptsOn(i) == pc[i] \notin LoadPcs

\* handleTlbShootdown: the mode and the tag are those the holder published.
Handle(i) ==
  /\ i \in ipi /\ InterruptsOn(i)
  /\ \E s \in Cpus :
       /\ holder = s
       /\ \E e \in FlushLocalForMode(i, s) : entry' = [entry EXCEPT ![i] = e]
  /\ ipi' = ipi \ {i}
  /\ acks' = acks \ {i}
  /\ UNCHANGED <<gen, local, mask, loaded, lazy, cr3, inUse, holder, pc, regs,
                 scene>>

-----------------------------------------------------------------------------
(* flushUserPage: the same without the lock, when nobody else runs the tag.*)
(* Its caller, the break of a copy-on-write page, runs it.                 *)

FlushUserPage(c, p, v) ==
  /\ scene # "locked" /\ MayFlush(c, p) /\ cr3[c] = p /\ Room(p, 2)
  /\ Outdate(p, {v})
  /\ tag' = [tag EXCEPT ![c] = p]
  /\ span' = [span EXCEPT ![c] = {v}]
  /\ Go(c, "loneBump")
  /\ UNCHANGED <<gen, local, mask, loaded, lazy, cr3, inUse, sendVars, how,
                 mine, todo, targets, scene>>

LoneBump(c) ==
  /\ pc[c] = "loneBump"
  /\ BumpGen(c)
  /\ Go(c, "loneMask")
  /\ UNCHANGED <<local, mask, loaded, lazy, cr3, entry, inUse, sendVars, tag,
                 span, how, todo, targets, scene>>

LoneMask(c) ==
  /\ pc[c] = "loneMask"
  /\ todo' = [todo EXCEPT ![c] = mask[tag[c]] \ {c}]
  /\ Go(c, "loneScan")
  /\ UNCHANGED <<tlbVars, sendVars, tag, span, how, mine, targets, scene>>

\* Somebody runs it: shootdownPage after all, with a bump of its own.
LoneScan(c, i) ==
  /\ pc[c] = "loneScan" /\ i \in todo[c]
  /\ IF loaded[i] = tag[c]
       THEN /\ Go(c, "lock")
            /\ todo' = [todo EXCEPT ![c] = {}]
            /\ mine' = [mine EXCEPT ![c] = 0]
       ELSE /\ todo' = [todo EXCEPT ![c] = @ \ {i}]
            /\ UNCHANGED <<pc, mine>>
  /\ UNCHANGED <<tlbVars, sendVars, tag, span, how, targets, scene>>

LoneFinish(c) ==
  /\ pc[c] = "loneScan" /\ todo[c] = {}
  /\ entry' = [entry EXCEPT ![c] = Without(c, cr3[c], span[c])]
  /\ MarkFlushed(c)
  /\ Return(c)
  /\ UNCHANGED <<gen, mask, loaded, lazy, cr3, inUse, sendVars, scene>>

-----------------------------------------------------------------------------
(* Tags come and go with address spaces, and move with tasks.              *)

\* invalidateForMigration
Migrate(p) ==
  /\ p \in inUse /\ Room(p, 1)
  /\ gen' = [gen EXCEPT ![p] = @ + 1]
  /\ UNCHANGED <<local, mask, loaded, lazy, cr3, entry, inUse, sendVars, pc,
                 regs, scene>>

Alloc(p) ==
  /\ p \notin inUse /\ Room(p, 1)
  /\ inUse' = inUse \cup {p}
  /\ gen' = [gen EXCEPT ![p] = @ + 1]
  /\ UNCHANGED <<local, mask, loaded, lazy, cr3, entry, sendVars, pc, regs,
                 scene>>

\* The last thread's teardown: the tables are gone without a shootdown, and
\* nobody runs the tag, is loading it or flushing it.
Free(p) ==
  /\ p \in inUse /\ Room(p, 1)
  /\ \A c \in Cpus : cr3[c] # p /\ loaded[c] # p /\ tag[c] # p
  /\ inUse' = inUse \ {p}
  /\ gen' = [gen EXCEPT ![p] = @ + 1]
  /\ mask' = [mask EXCEPT ![p] = {}]
  /\ Outdate(p, Pages)
  /\ UNCHANGED <<local, loaded, lazy, cr3, sendVars, pc, regs, scene>>

-----------------------------------------------------------------------------
LoadSteps(c) == \/ Announce(c) \/ ReadGen(c) \/ WriteCr3(c) \/ Drop(c)
                \/ Leave(c)

SendSteps(c) == \/ Lock(c) \/ Bump(c) \/ ReadMask(c) \/ Send(c) \/ Finish(c)
                \/ \E i \in Cpus : Scan(c, i)

LoneSteps(c) == \/ LoneBump(c) \/ LoneMask(c) \/ LoneFinish(c)
                \/ \E i \in Cpus : LoneScan(c, i)

Next ==
  \/ \E c \in Cpus :
       \/ LoadSteps(c) \/ SendSteps(c) \/ LoneSteps(c)
       \/ LoadKernel(c) \/ Handle(c)
       \/ \E p \in Pcids : \/ Load(c, p)
                           \/ \E v \in Pages : FlushUserPage(c, p, v)
                           \/ \E V \in SUBSET Pages, m \in {"page", "context"} :
                                Shoot(c, p, V, m)
  \/ \E p \in Pcids : Migrate(p) \/ Alloc(p) \/ Free(p)

Spec == Init /\ [][Next]_vars

-----------------------------------------------------------------------------
\* Whether some processor has yet to return from the flush of page v of p.
Owed(p, v) == \E s \in Cpus : pc[s] \in FlushPcs /\ tag[s] = p /\ v \in span[s]

\* Once the flush of a changed entry has returned, no processor that runs
\* the address space still uses what it had cached of it, and none uses what
\* an earlier owner of the tag left: the caller frees the frame next.
StaleUnusable ==
  \A c \in Cpus, p \in Pcids, v \in Pages :
    /\ cr3[c] = p /\ pc[c] \notin LoadPcs
    /\ entry[c][p][v] = "old"
    => Owed(p, v)

\* No acknowledgement is left over when the lock is free: one leaked would
\* wedge the next sender, or be taken for an answer to it.
AcksPaired ==
  /\ ipi \subseteq acks
  /\ holder = NoCpu => acks = {}

\* A processor in user tables is counted by the senders all the while, but for
\* the moment of a switch to other user tables: it says which it will have
\* before it has them.
Counted ==
  \A c \in Cpus : cr3[c] # Kernel /\ pc[c] \notin {"readGen", "write"} =>
    loaded[c] = cr3[c] /\ c \in mask[cr3[c]]

\* A sender never waits for a processor that cannot answer it: the interrupt is
\* pending there, its handler will find this sender's request, and interrupts
\* are on, or will be when loadCr3 is over.
AwaitedCanAnswer ==
  \A s \in Cpus : pc[s] = "wait" => \A i \in Awaited(s) \cap acks :
    i \in ipi /\ holder = s /\ (InterruptsOn(i) \/ pc[i] \in LoadPcs)
=============================================================================
