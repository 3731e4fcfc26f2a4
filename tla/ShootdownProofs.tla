-------------------------- MODULE ShootdownProofs --------------------------
(***************************************************************************)
(* Theorems about module Shootdown, for any number of processors, tags and *)
(* pages: types, the pairing of acknowledgements, and that no processor    *)
(* uses a translation whose flush has returned.                            *)
(***************************************************************************)
EXTENDS Shootdown, FiniteSetTheorems, TLAPS

Old(c, p, v) == entry[c][p][v] = "old"

\* What a processor says it has loaded is what is in its CR3 but during the
\* switch, and from the announcement on it is in that tag's mask.
LoadInv ==
  \A c \in Cpus :
    /\ pc[c] \notin {"readGen", "write", "leave"} => loaded[c] = cr3[c]
    /\ pc[c] \in {"readGen", "write", "drop"} => loaded[c] = tag[c]
    /\ pc[c] \in {"announce", "readGen", "write", "drop"} =>
         tag[c] \in Pcids /\ c \in mask[tag[c]]
    /\ pc[c] = "leave" => cr3[c] = Kernel
    /\ pc[c] = "drop" => lazy[c] \in Pcids /\ lazy[c] # tag[c]
    /\ cr3[c] \in Pcids => c \in mask[cr3[c]] /\ (pc[c] # "drop" => lazy[c] = cr3[c])
    /\ loaded[c] \in Pcids => c \in mask[loaded[c]]

\* The section is one processor's, acknowledgements are due to it alone, and
\* the interrupts go out together.
HoldInv ==
  /\ \A s \in Cpus : pc[s] \in SendPcs <=> holder = s
  /\ \A s \in Cpus : pc[s] \notin {"scan", "wait"} => targets[s] = {}
  /\ holder = NoCpu => acks = {} /\ ipi = {}
  /\ holder # NoCpu =>
       /\ acks \subseteq targets[holder]
       /\ pc[holder] = "wait" => ipi = acks
       /\ pc[holder] # "wait" => ipi = {} /\ acks = targets[holder]

\* A flush is of a user tag; page by page only of the one in CR3.
FlushInv ==
  \A c \in Cpus :
    /\ pc[c] \in FlushPcs =>
         /\ tag[c] \in Pcids
         /\ how[c] = "context" => span[c] = Pages
         /\ how[c] = "page" => cr3[c] = tag[c]
    /\ pc[c] \notin SendPcs \cup {"lock"} => how[c] = "page"

Bumped == {"mask", "scan", "wait", "loneMask", "loneScan"}

GenInv ==
  /\ \A c \in Cpus, p \in Pcids : local[c][p] =< gen[p]
  /\ \A c \in Cpus : pc[c] \in Bumped => mine[c] =< gen[tag[c]]

\* The scenes whose callers keep flushes of an address space apart.
SceneInv ==
  /\ scene = "locked" => \A c \in Cpus : pc[c] \notin LonePcs
  /\ scene = "apart" => \A c, d \in Cpus :
       pc[c] \in FlushPcs /\ pc[d] \in FlushPcs /\ tag[c] = tag[d] => c = d

\* A flush of page v of p that has its bump still to come.
PreBump(p, v) ==
  \E s \in Cpus : /\ pc[s] \in {"lock", "bump", "loneBump"}
                  /\ tag[s] = p /\ v \in span[s]

\* A flush of page v of p that will still come to c, which runs p.
InSight(s, c) ==
  \/ pc[s] \in {"mask", "loneMask"}
  \/ pc[s] = "scan" /\ (s = c \/ c \in todo[s] \/ c \in acks)
  \/ pc[s] = "wait" /\ (s = c \/ c \in acks)
  \/ pc[s] = "loneScan" /\ (s = c \/ c \in todo[s])

Sighted(c, p, v) ==
  \E s \in Cpus : tag[s] = p /\ v \in span[s] /\ InSight(s, c)

\* The CR3 write to come will drop all of p.
WillDrop(c, p) ==
  /\ tag[c] = p
  /\ \/ pc[c] = "readGen" /\ local[c][p] # gen[p]
     \/ pc[c] = "write" /\ mine[c] # local[c][p]

\* A stale entry of a tag that c is to load again will not survive that.
ReloadSafe ==
  \A c \in Cpus, p \in Pcids, v \in Pages : Old(c, p, v) =>
    PreBump(p, v) \/ local[c][p] # gen[p] \/ WillDrop(c, p)

\* A stale entry of the tag that c runs is in the sight of a flush.
RunSafe ==
  \A c \in Cpus, p \in Pcids, v \in Pages : Old(c, p, v) /\ loaded[c] = p =>
    PreBump(p, v) \/ Sighted(c, p, v) \/ WillDrop(c, p)

Safe == scene # "threads" => ReloadSafe /\ RunSafe

Inv == TypeOK /\ LoadInv /\ HoldInv /\ FlushInv /\ GenInv /\ SceneInv

-----------------------------------------------------------------------------
Cache == [Pcids -> [Pages -> {"none", "cur", "old"}]]

RegsTyped ==
  /\ pc \in [Cpus -> LoadPcs \cup FlushPcs \cup {"run"}]
  /\ tag \in [Cpus -> Pcids \cup {Kernel}]
  /\ span \in [Cpus -> SUBSET Pages]
  /\ how \in [Cpus -> {"page", "context"}]
  /\ mine \in [Cpus -> 0..MaxGen]
  /\ todo \in [Cpus -> SUBSET Cpus]
  /\ targets \in [Cpus -> SUBSET Cpus]

TablesTyped ==
  /\ gen \in [Pcids -> 0..MaxGen]
  /\ local \in [Cpus -> [Pcids -> 0..MaxGen]]
  /\ mask \in [Pcids -> SUBSET Cpus]
  /\ loaded \in [Cpus -> Pcids \cup {Kernel}]
  /\ lazy \in [Cpus -> Pcids \cup {Kernel}]
  /\ cr3 \in [Cpus -> Pcids \cup {Kernel}]
  /\ inUse \subseteq Pcids
  /\ holder \in Cpus \cup {NoCpu}
  /\ acks \subseteq Cpus
  /\ ipi \subseteq Cpus
  /\ scene \in Scenes

EntriesTyped == entry \in [Cpus -> Cache]

\* TypeOK in three parts, so that an action is argued about only where it acts.
LEMMA TypedParts == TypeOK <=> RegsTyped /\ TablesTyped /\ EntriesTyped
BY DEF TypeOK, RegsTyped, TablesTyped, EntriesTyped, Cache

\* Room leaves a generation below the bound: the other bumps due are not
\* negative in number.
LEMMA RoomBelow ==
  ASSUME TypeOK, NEW p \in Pcids, Room(p, 1)
  PROVE  gen[p] + 1 \in 0..MaxGen
<1> DEFINE Due(S) == {c \in Cpus : tag[c] = p /\ pc[c] \in S}
<1>1. ASSUME NEW S
      PROVE  Cardinality(Due(S)) \in Nat
  <2>1. IsFiniteSet(Due(S))
    BY FS_Subset, ShootdownAssumption
  <2> QED BY <2>1, FS_CardinalityType
<1> DEFINE A == Cardinality(Due({"lock", "bump", "loneBump", "loneMask", "loneScan"}))
           B == Cardinality(Due({"loneBump"}))
<1>2. A \in Nat /\ B \in Nat
  BY <1>1
<1>3. gen[p] + (A + B) + 1 =< MaxGen
  BY DEF Room, Committed
<1>4. gen[p] \in Nat /\ MaxGen \in Nat
  BY ShootdownAssumption DEF TypeOK
<1> HIDE DEF A, B
<1> QED BY <1>2, <1>3, <1>4

\* Entries dropped leave a cache, in which nothing has become stale.
LEMMA WithoutLeaves ==
  ASSUME TypeOK, NEW c \in Cpus, NEW q \in Pcids \cup {Kernel}, NEW V
  PROVE  /\ Without(c, q, V) \in Cache
         /\ \A r \in Pcids, v \in Pages :
              Without(c, q, V)[r][v] = "old" => entry[c][r][v] = "old"
         /\ \A v \in Pages : q \in Pcids /\ v \in V => Without(c, q, V)[q][v] # "old"
<1>1. entry[c] \in Cache
  BY DEF TypeOK, Cache
<1>2. CASE q \notin Pcids
  BY <1>1, <1>2 DEF Without
<1>3. CASE q \in Pcids
  <2> DEFINE f == [v \in Pages |-> IF v \in V THEN Gone(c, q) ELSE entry[c][q][v]]
  <2>1. /\ f \in [Pages -> {"none", "cur", "old"}]
        /\ \A v \in Pages : f[v] = "old" => entry[c][q][v] = "old" /\ v \notin V
    BY <1>1, <1>3 DEF Gone, Cache
  <2>2. Without(c, q, V) = [entry[c] EXCEPT ![q] = f]
    BY <1>3 DEF Without
  <2> HIDE DEF f
  <2> QED BY <1>1, <1>3, <2>1, <2>2 DEF Cache
<1> QED BY <1>2, <1>3

\* flushLocalForMode leaves a cache, in which nothing has become stale, and
\* nothing of what it was to drop is, if it was to drop a whole tag or pages of
\* the tag in CR3: INVPCID may fail on a page, and INVLPG acts on that tag only.
LEMMA FlushLeaves ==
  ASSUME TypeOK, NEW c \in Cpus, NEW s \in Cpus,
         NEW e \in FlushLocalForMode(c, s), tag[s] \in Pcids
  PROVE  /\ e \in Cache
         /\ \A q \in Pcids, v \in Pages : e[q][v] = "old" => entry[c][q][v] = "old"
         /\ how[s] = "context" => \A v \in Pages : e[tag[s]][v] # "old"
         /\ cr3[c] = tag[s] => \A v \in span[s] : e[tag[s]][v] # "old"
<1>0. /\ entry[c] \in Cache /\ span[s] \subseteq Pages
      /\ tag[s] \in Pcids \cup {Kernel} /\ cr3[c] \in Pcids \cup {Kernel}
  BY DEF TypeOK, Cache
<1>1. CASE how[s] = "context"
  <2>1. e = Without(c, tag[s], Pages)
    BY <1>1 DEF FlushLocalForMode
  <2> QED BY <1>0, <2>1, WithoutLeaves
<1> DEFINE w == Without(c, cr3[c], span[s])
<1>2. /\ w \in Cache /\ \A r \in Pcids, v \in Pages : w[r][v] = "old" => entry[c][r][v] = "old"
      /\ \A v \in Pages : cr3[c] \in Pcids /\ v \in span[s] => w[cr3[c]][v] # "old"
  BY <1>0, WithoutLeaves
<1>3. CASE how[s] # "context" /\ cr3[c] = tag[s]
  <2>1. e = w
    BY <1>3 DEF FlushLocalForMode, Invalidated
  <2> HIDE DEF w
  <2> QED BY <1>0, <1>2, <1>3, <2>1
<1>4. CASE how[s] # "context" /\ cr3[c] # tag[s]
  <2> DEFINE f == [v \in Pages |-> IF v \in span[s] THEN "none" ELSE entry[c][tag[s]][v]]
  <2>1. e = w \/ e = [w EXCEPT ![tag[s]] = f]
    BY <1>4 DEF FlushLocalForMode, Invalidated
  <2>2. /\ f \in [Pages -> {"none", "cur", "old"}]
        /\ \A v \in Pages : f[v] = "old" => entry[c][tag[s]][v] = "old"
    BY <1>0 DEF Cache
  <2> HIDE DEF w, f
  <2>3. CASE e = w
    BY <1>0, <1>2, <1>4, <2>3
  <2>4. CASE e = [w EXCEPT ![tag[s]] = f]
    <3>1. e \in Cache
      BY <1>0, <1>2, <2>2, <2>4 DEF Cache
    <3>2. \A r \in Pcids, v \in Pages :
            e[r][v] = IF r = tag[s] THEN f[v] ELSE w[r][v]
      BY <1>2, <2>4 DEF Cache
    <3> QED BY <1>0, <1>2, <1>4, <2>2, <3>1, <3>2
  <2> QED BY <2>1, <2>3, <2>4
<1> QED BY <1>1, <1>3, <1>4

-----------------------------------------------------------------------------
\* loadCr3's order of stores: the mask before `loaded`, `loaded` before CR3
\* (the other way round for the kernel's tables). Nothing else touches them but
\* the freeing of a tag, which nobody runs or loads.
LEMMA LoadStep ==
  ASSUME TypeOK, LoadInv, [Next]_vars
  PROVE  LoadInv'
<1>1. ASSUME NEW c \in Cpus, NEW p \in Pcids, Load(c, p)
      PROVE  LoadInv'
  BY <1>1, ShootdownAssumption DEF TypeOK, LoadInv, LoadPcs, FlushPcs, SendPcs,
     LonePcs, Load, Go, sendVars
<1>2. ASSUME NEW c \in Cpus, Announce(c)
      PROVE  LoadInv'
  BY <1>2, ShootdownAssumption DEF TypeOK, LoadInv, LoadPcs, FlushPcs, SendPcs,
     LonePcs, Announce, Go, sendVars, regs
<1>3. ASSUME NEW c \in Cpus, ReadGen(c)
      PROVE  LoadInv'
  BY <1>3, ShootdownAssumption DEF TypeOK, LoadInv, LoadPcs, FlushPcs, SendPcs,
     LonePcs, ReadGen, Go, sendVars
<1>4. ASSUME NEW c \in Cpus, WriteCr3(c)
      PROVE  LoadInv'
  BY <1>4, ShootdownAssumption DEF TypeOK, LoadInv, LoadPcs, FlushPcs, SendPcs,
     LonePcs, WriteCr3, Return, Filled, Go, sendVars, regs
<1>5. ASSUME NEW c \in Cpus, Drop(c)
      PROVE  LoadInv'
  BY <1>5, ShootdownAssumption DEF TypeOK, LoadInv, LoadPcs, FlushPcs, SendPcs,
     LonePcs, Drop, Return, Go, sendVars
<1>6. ASSUME NEW c \in Cpus, LoadKernel(c)
      PROVE  LoadInv'
  BY <1>6, ShootdownAssumption DEF TypeOK, LoadInv, LoadPcs, FlushPcs, SendPcs,
     LonePcs, LoadKernel, Go, sendVars, regs
<1>7. ASSUME NEW c \in Cpus, Leave(c)
      PROVE  LoadInv'
  BY <1>7, ShootdownAssumption DEF TypeOK, LoadInv, LoadPcs, FlushPcs, SendPcs,
     LonePcs, Leave, Go, sendVars, regs
<1>8. ASSUME NEW c \in Cpus, NEW p \in Pcids, NEW V \in SUBSET Pages,
             NEW m \in {"page", "context"}, Shoot(c, p, V, m)
      PROVE  LoadInv'
  BY <1>8, ShootdownAssumption DEF TypeOK, LoadInv, LoadPcs, FlushPcs, SendPcs,
     LonePcs, Shoot, MayFlush, Outdate, Go, sendVars
<1>9. ASSUME NEW c \in Cpus, Lock(c)
      PROVE  LoadInv'
  BY <1>9, ShootdownAssumption DEF TypeOK, LoadInv, LoadPcs, FlushPcs, SendPcs,
     LonePcs, Lock, Go, tlbVars, regs
<1>10. ASSUME NEW c \in Cpus, Bump(c)
       PROVE  LoadInv'
  BY <1>10, ShootdownAssumption DEF TypeOK, LoadInv, LoadPcs, FlushPcs,
     SendPcs, LonePcs, Bump, BumpGen, Go, sendVars
<1>11. ASSUME NEW c \in Cpus, ReadMask(c)
       PROVE  LoadInv'
  BY <1>11, ShootdownAssumption DEF TypeOK, LoadInv, LoadPcs, FlushPcs,
     SendPcs, LonePcs, ReadMask, Go, tlbVars, sendVars
<1>12. ASSUME NEW c \in Cpus, NEW i \in Cpus, Scan(c, i)
       PROVE  LoadInv'
  BY <1>12, ShootdownAssumption DEF TypeOK, LoadInv, LoadPcs, FlushPcs,
     SendPcs, LonePcs, Scan, tlbVars
<1>13. ASSUME NEW c \in Cpus, Send(c)
       PROVE  LoadInv'
  BY <1>13, ShootdownAssumption DEF TypeOK, LoadInv, LoadPcs, FlushPcs,
     SendPcs, LonePcs, Send, Go, tlbVars, regs
<1>14. ASSUME NEW c \in Cpus, Finish(c)
       PROVE  LoadInv'
  BY <1>14, ShootdownAssumption DEF TypeOK, LoadInv, LoadPcs, FlushPcs,
     SendPcs, LonePcs, Finish, Return, MarkFlushed, Awaited, Go
<1>15. ASSUME NEW c \in Cpus, Handle(c)
       PROVE  LoadInv'
  BY <1>15, ShootdownAssumption DEF TypeOK, LoadInv, LoadPcs, FlushPcs,
     SendPcs, LonePcs, Handle, InterruptsOn, regs
<1>16. ASSUME NEW c \in Cpus, NEW p \in Pcids, NEW v \in Pages, FlushUserPage(c, p,
              v)
       PROVE  LoadInv'
  BY <1>16, ShootdownAssumption DEF TypeOK, LoadInv, LoadPcs, FlushPcs,
     SendPcs, LonePcs, FlushUserPage, MayFlush, Outdate, Go, sendVars
<1>17. ASSUME NEW c \in Cpus, LoneBump(c)
       PROVE  LoadInv'
  BY <1>17, ShootdownAssumption DEF TypeOK, LoadInv, LoadPcs, FlushPcs,
     SendPcs, LonePcs, LoneBump, BumpGen, Go, sendVars
<1>18. ASSUME NEW c \in Cpus, LoneMask(c)
       PROVE  LoadInv'
  BY <1>18, ShootdownAssumption DEF TypeOK, LoadInv, LoadPcs, FlushPcs,
     SendPcs, LonePcs, LoneMask, Go, tlbVars, sendVars
<1>19. ASSUME NEW c \in Cpus, NEW i \in Cpus, LoneScan(c, i)
       PROVE  LoadInv'
  BY <1>19, ShootdownAssumption DEF TypeOK, LoadInv, LoadPcs, FlushPcs,
     SendPcs, LonePcs, LoneScan, Go, tlbVars, sendVars
<1>20. ASSUME NEW c \in Cpus, LoneFinish(c)
       PROVE  LoadInv'
  BY <1>20, ShootdownAssumption DEF TypeOK, LoadInv, LoadPcs, FlushPcs,
     SendPcs, LonePcs, LoneFinish, Return, MarkFlushed, Go, sendVars
<1>21. ASSUME NEW p \in Pcids, Migrate(p)
       PROVE  LoadInv'
  BY <1>21, ShootdownAssumption DEF TypeOK, LoadInv, LoadPcs, FlushPcs,
     SendPcs, LonePcs, Migrate, sendVars, regs
<1>22. ASSUME NEW p \in Pcids, Alloc(p)
       PROVE  LoadInv'
  BY <1>22, ShootdownAssumption DEF TypeOK, LoadInv, LoadPcs, FlushPcs,
     SendPcs, LonePcs, Alloc, sendVars, regs
<1>23. ASSUME NEW p \in Pcids, Free(p)
       PROVE  LoadInv'
  BY <1>23, ShootdownAssumption DEF TypeOK, LoadInv, LoadPcs, FlushPcs,
     SendPcs, LonePcs, Free, Outdate, sendVars, regs
<1>24. CASE UNCHANGED vars
  BY <1>24 DEF TypeOK, LoadInv, LoadPcs, FlushPcs, SendPcs, LonePcs, vars,
     tlbVars, sendVars, regs
<1> QED BY <1>1, <1>2, <1>3, <1>4, <1>5, <1>6, <1>7, <1>8, <1>9, <1>10, <1>11,
           <1>12, <1>13, <1>14, <1>15, <1>16, <1>17, <1>18, <1>19, <1>20,
           <1>21, <1>22, <1>23, <1>24 DEF Next, LoadSteps, SendSteps, LoneSteps

\* doShootdown: one processor in the section, and the handlers' answers are
\* to it. Scan adds a processor to the acknowledgements and to the targets at
\* once; the sender leaves when none is due.
LEMMA HoldStep ==
  ASSUME TypeOK, HoldInv, [Next]_vars
  PROVE  HoldInv'
<1>1. ASSUME NEW c \in Cpus, NEW p \in Pcids, Load(c, p)
      PROVE  HoldInv'
  BY <1>1, ShootdownAssumption DEF TypeOK, HoldInv, LoadPcs, FlushPcs, SendPcs,
     LonePcs, Load, Go, sendVars
<1>2. ASSUME NEW c \in Cpus, Announce(c)
      PROVE  HoldInv'
  BY <1>2, ShootdownAssumption DEF TypeOK, HoldInv, LoadPcs, FlushPcs, SendPcs,
     LonePcs, Announce, Go, sendVars, regs
<1>3. ASSUME NEW c \in Cpus, ReadGen(c)
      PROVE  HoldInv'
  BY <1>3, ShootdownAssumption DEF TypeOK, HoldInv, LoadPcs, FlushPcs, SendPcs,
     LonePcs, ReadGen, Go, sendVars
<1>4. ASSUME NEW c \in Cpus, WriteCr3(c)
      PROVE  HoldInv'
  <2>1. /\ pc[c] = "write" /\ UNCHANGED <<holder, acks, ipi>>
        /\ \A d \in Cpus \ {c} : pc'[d] = pc[d] /\ targets'[d] = targets[d]
        /\ pc'[c] \in {"drop", "run"} /\ (targets'[c] = targets[c] \/ targets'[c] = {})
    BY <1>4 DEF TypeOK, WriteCr3, Return, Go, sendVars, regs
  <2> QED BY <2>1, ShootdownAssumption DEF TypeOK, HoldInv, LoadPcs, FlushPcs,
             SendPcs, LonePcs
<1>5. ASSUME NEW c \in Cpus, Drop(c)
      PROVE  HoldInv'
  BY <1>5, ShootdownAssumption DEF TypeOK, HoldInv, LoadPcs, FlushPcs, SendPcs,
     LonePcs, Drop, Return, Go, sendVars
<1>6. ASSUME NEW c \in Cpus, LoadKernel(c)
      PROVE  HoldInv'
  BY <1>6, ShootdownAssumption DEF TypeOK, HoldInv, LoadPcs, FlushPcs, SendPcs,
     LonePcs, LoadKernel, Go, sendVars, regs
<1>7. ASSUME NEW c \in Cpus, Leave(c)
      PROVE  HoldInv'
  BY <1>7, ShootdownAssumption DEF TypeOK, HoldInv, LoadPcs, FlushPcs, SendPcs,
     LonePcs, Leave, Go, sendVars, regs
<1>8. ASSUME NEW c \in Cpus, NEW p \in Pcids, NEW V \in SUBSET Pages,
             NEW m \in {"page", "context"}, Shoot(c, p, V, m)
      PROVE  HoldInv'
  BY <1>8, ShootdownAssumption DEF TypeOK, HoldInv, LoadPcs, FlushPcs, SendPcs,
     LonePcs, Shoot, MayFlush, Outdate, Go, sendVars
<1>9. ASSUME NEW c \in Cpus, Lock(c)
      PROVE  HoldInv'
  BY <1>9, ShootdownAssumption DEF TypeOK, HoldInv, LoadPcs, FlushPcs, SendPcs,
     LonePcs, Lock, Go, tlbVars, regs
<1>10. ASSUME NEW c \in Cpus, Bump(c)
       PROVE  HoldInv'
  BY <1>10, ShootdownAssumption DEF TypeOK, HoldInv, LoadPcs, FlushPcs,
     SendPcs, LonePcs, Bump, BumpGen, Go, sendVars
<1>11. ASSUME NEW c \in Cpus, ReadMask(c)
       PROVE  HoldInv'
  BY <1>11, ShootdownAssumption DEF TypeOK, HoldInv, LoadPcs, FlushPcs,
     SendPcs, LonePcs, ReadMask, Go, tlbVars, sendVars
<1>12. ASSUME NEW c \in Cpus, NEW i \in Cpus, Scan(c, i)
       PROVE  HoldInv'
  <2>1. holder = c /\ ipi = {} /\ acks = targets[c]
    BY <1>12, ShootdownAssumption DEF TypeOK, HoldInv, Scan, SendPcs
  <2>2. pc[c] = "scan" /\ UNCHANGED <<pc, holder, ipi>>
    BY <1>12 DEF Scan
  <2>3. \/ acks' = acks /\ targets' = targets
        \/ /\ acks' = acks \cup {i}
           /\ targets' = [targets EXCEPT ![c] = @ \cup {i}]
    BY <1>12 DEF Scan
  <2>4. targets \in [Cpus -> SUBSET Cpus]
    BY DEF TypeOK
  <2>5. /\ \A d \in Cpus \ {c} : targets'[d] = targets[d]
        /\ acks' = targets'[c]
    BY <2>1, <2>3, <2>4
  <2> QED BY <2>1, <2>2, <2>5, ShootdownAssumption DEF TypeOK, HoldInv, SendPcs
<1>13. ASSUME NEW c \in Cpus, Send(c)
       PROVE  HoldInv'
  <2>1. /\ holder = c /\ ipi = {} /\ acks = targets[c]
    BY <1>13, ShootdownAssumption DEF TypeOK, HoldInv, Send, SendPcs
  <2>2. /\ pc[c] = "scan" /\ pc' = [pc EXCEPT ![c] = "wait"]
        /\ UNCHANGED <<holder, acks, targets>> /\ ipi' = targets[c]
    BY <1>13, <2>1 DEF TypeOK, Send, Go, regs
  <2> QED BY <2>1, <2>2, ShootdownAssumption DEF TypeOK, HoldInv, SendPcs
<1>14. ASSUME NEW c \in Cpus, Finish(c)
       PROVE  HoldInv'
  BY <1>14, ShootdownAssumption DEF TypeOK, HoldInv, LoadPcs, FlushPcs,
     SendPcs, LonePcs, Finish, Return, MarkFlushed, Awaited, Go
<1>15. ASSUME NEW c \in Cpus, Handle(c)
       PROVE  HoldInv'
  BY <1>15, ShootdownAssumption DEF TypeOK, HoldInv, LoadPcs, FlushPcs,
     SendPcs, LonePcs, Handle, InterruptsOn, regs
<1>16. ASSUME NEW c \in Cpus, NEW p \in Pcids, NEW v \in Pages, FlushUserPage(c, p,
              v)
       PROVE  HoldInv'
  BY <1>16, ShootdownAssumption DEF TypeOK, HoldInv, LoadPcs, FlushPcs,
     SendPcs, LonePcs, FlushUserPage, MayFlush, Outdate, Go, sendVars
<1>17. ASSUME NEW c \in Cpus, LoneBump(c)
       PROVE  HoldInv'
  BY <1>17, ShootdownAssumption DEF TypeOK, HoldInv, LoadPcs, FlushPcs,
     SendPcs, LonePcs, LoneBump, BumpGen, Go, sendVars
<1>18. ASSUME NEW c \in Cpus, LoneMask(c)
       PROVE  HoldInv'
  BY <1>18, ShootdownAssumption DEF TypeOK, HoldInv, LoadPcs, FlushPcs,
     SendPcs, LonePcs, LoneMask, Go, tlbVars, sendVars
<1>19. ASSUME NEW c \in Cpus, NEW i \in Cpus, LoneScan(c, i)
       PROVE  HoldInv'
  <2>1. pc' = pc \/ pc' = [pc EXCEPT ![c] = "lock"]
    BY <1>19 DEF LoneScan, Go
  <2>2. pc[c] = "loneScan" /\ UNCHANGED <<holder, acks, ipi, targets>>
    BY <1>19 DEF LoneScan, sendVars
  <2>3. /\ pc'[c] \notin SendPcs
        /\ \A d \in Cpus \ {c} : pc'[d] = pc[d]
    BY <2>1, <2>2 DEF TypeOK, SendPcs
  <2>4. targets[c] = {} /\ holder # c
    BY <2>2, ShootdownAssumption DEF HoldInv, SendPcs
  <2> QED BY <2>2, <2>3, <2>4, ShootdownAssumption DEF TypeOK, HoldInv,
             SendPcs
<1>20. ASSUME NEW c \in Cpus, LoneFinish(c)
       PROVE  HoldInv'
  BY <1>20, ShootdownAssumption DEF TypeOK, HoldInv, LoadPcs, FlushPcs,
     SendPcs, LonePcs, LoneFinish, Return, MarkFlushed, Go, sendVars
<1>21. ASSUME NEW p \in Pcids, Migrate(p)
       PROVE  HoldInv'
  BY <1>21, ShootdownAssumption DEF TypeOK, HoldInv, LoadPcs, FlushPcs,
     SendPcs, LonePcs, Migrate, sendVars, regs
<1>22. ASSUME NEW p \in Pcids, Alloc(p)
       PROVE  HoldInv'
  BY <1>22, ShootdownAssumption DEF TypeOK, HoldInv, LoadPcs, FlushPcs,
     SendPcs, LonePcs, Alloc, sendVars, regs
<1>23. ASSUME NEW p \in Pcids, Free(p)
       PROVE  HoldInv'
  BY <1>23, ShootdownAssumption DEF TypeOK, HoldInv, LoadPcs, FlushPcs,
     SendPcs, LonePcs, Free, Outdate, sendVars, regs
<1>24. CASE UNCHANGED vars
  BY <1>24 DEF TypeOK, HoldInv, LoadPcs, FlushPcs, SendPcs, LonePcs, vars,
     tlbVars, sendVars, regs
<1> QED BY <1>1, <1>2, <1>3, <1>4, <1>5, <1>6, <1>7, <1>8, <1>9, <1>10, <1>11,
           <1>12, <1>13, <1>14, <1>15, <1>16, <1>17, <1>18, <1>19, <1>20,
           <1>21, <1>22, <1>23, <1>24 DEF Next, LoadSteps, SendSteps, LoneSteps

\* A flush is of a user tag, and the registers of its call are its own until
\* it returns.
LEMMA FlushStep ==
  ASSUME TypeOK, FlushInv, [Next]_vars
  PROVE  FlushInv'
<1>1. ASSUME NEW c \in Cpus, NEW p \in Pcids, Load(c, p)
      PROVE  FlushInv'
  BY <1>1, ShootdownAssumption DEF TypeOK, FlushInv, LoadPcs, FlushPcs,
     SendPcs, LonePcs, Load, Go, sendVars
<1>2. ASSUME NEW c \in Cpus, Announce(c)
      PROVE  FlushInv'
  BY <1>2, ShootdownAssumption DEF TypeOK, FlushInv, LoadPcs, FlushPcs,
     SendPcs, LonePcs, Announce, Go, sendVars, regs
<1>3. ASSUME NEW c \in Cpus, ReadGen(c)
      PROVE  FlushInv'
  BY <1>3, ShootdownAssumption DEF TypeOK, FlushInv, LoadPcs, FlushPcs,
     SendPcs, LonePcs, ReadGen, Go, sendVars
<1>4. ASSUME NEW c \in Cpus, WriteCr3(c)
      PROVE  FlushInv'
  <2>1. /\ \A d \in Cpus \ {c} : /\ pc'[d] = pc[d] /\ tag'[d] = tag[d] /\ cr3'[d] = cr3[d]
                                /\ how'[d] = how[d] /\ span'[d] = span[d]
        /\ pc'[c] \in {"drop", "run"} /\ pc[c] = "write" /\ (how'[c] = how[c] \/ how'[c] = "page")
    BY <1>4 DEF TypeOK, WriteCr3, Return, Go, regs
  <2> QED BY <2>1 DEF FlushInv, LoadPcs, FlushPcs, SendPcs, LonePcs
<1>5. ASSUME NEW c \in Cpus, Drop(c)
      PROVE  FlushInv'
  BY <1>5, ShootdownAssumption DEF TypeOK, FlushInv, LoadPcs, FlushPcs,
     SendPcs, LonePcs, Drop, Return, Go, sendVars
<1>6. ASSUME NEW c \in Cpus, LoadKernel(c)
      PROVE  FlushInv'
  BY <1>6, ShootdownAssumption DEF TypeOK, FlushInv, LoadPcs, FlushPcs,
     SendPcs, LonePcs, LoadKernel, Go, sendVars, regs
<1>7. ASSUME NEW c \in Cpus, Leave(c)
      PROVE  FlushInv'
  BY <1>7, ShootdownAssumption DEF TypeOK, FlushInv, LoadPcs, FlushPcs,
     SendPcs, LonePcs, Leave, Go, sendVars, regs
<1>8. ASSUME NEW c \in Cpus, NEW p \in Pcids, NEW V \in SUBSET Pages,
             NEW m \in {"page", "context"}, Shoot(c, p, V, m)
      PROVE  FlushInv'
  BY <1>8, ShootdownAssumption DEF TypeOK, FlushInv, LoadPcs, FlushPcs,
     SendPcs, LonePcs, Shoot, MayFlush, Outdate, Go, sendVars
<1>9. ASSUME NEW c \in Cpus, Lock(c)
      PROVE  FlushInv'
  BY <1>9, ShootdownAssumption DEF TypeOK, FlushInv, LoadPcs, FlushPcs,
     SendPcs, LonePcs, Lock, Go, tlbVars, regs
<1>10. ASSUME NEW c \in Cpus, Bump(c)
       PROVE  FlushInv'
  BY <1>10, ShootdownAssumption DEF TypeOK, FlushInv, LoadPcs, FlushPcs,
     SendPcs, LonePcs, Bump, BumpGen, Go, sendVars
<1>11. ASSUME NEW c \in Cpus, ReadMask(c)
       PROVE  FlushInv'
  BY <1>11, ShootdownAssumption DEF TypeOK, FlushInv, LoadPcs, FlushPcs,
     SendPcs, LonePcs, ReadMask, Go, tlbVars, sendVars
<1>12. ASSUME NEW c \in Cpus, NEW i \in Cpus, Scan(c, i)
       PROVE  FlushInv'
  BY <1>12, ShootdownAssumption DEF TypeOK, FlushInv, LoadPcs, FlushPcs,
     SendPcs, LonePcs, Scan, tlbVars
<1>13. ASSUME NEW c \in Cpus, Send(c)
       PROVE  FlushInv'
  BY <1>13, ShootdownAssumption DEF TypeOK, FlushInv, LoadPcs, FlushPcs,
     SendPcs, LonePcs, Send, Go, tlbVars, regs
<1>14. ASSUME NEW c \in Cpus, Finish(c)
       PROVE  FlushInv'
  BY <1>14, ShootdownAssumption DEF TypeOK, FlushInv, LoadPcs, FlushPcs,
     SendPcs, LonePcs, Finish, Return, MarkFlushed, Awaited, Go
<1>15. ASSUME NEW c \in Cpus, Handle(c)
       PROVE  FlushInv'
  BY <1>15, ShootdownAssumption DEF TypeOK, FlushInv, LoadPcs, FlushPcs,
     SendPcs, LonePcs, Handle, InterruptsOn, regs
<1>16. ASSUME NEW c \in Cpus, NEW p \in Pcids, NEW v \in Pages, FlushUserPage(c, p,
              v)
       PROVE  FlushInv'
  BY <1>16, ShootdownAssumption DEF TypeOK, FlushInv, LoadPcs, FlushPcs,
     SendPcs, LonePcs, FlushUserPage, MayFlush, Outdate, Go, sendVars
<1>17. ASSUME NEW c \in Cpus, LoneBump(c)
       PROVE  FlushInv'
  BY <1>17, ShootdownAssumption DEF TypeOK, FlushInv, LoadPcs, FlushPcs,
     SendPcs, LonePcs, LoneBump, BumpGen, Go, sendVars
<1>18. ASSUME NEW c \in Cpus, LoneMask(c)
       PROVE  FlushInv'
  BY <1>18, ShootdownAssumption DEF TypeOK, FlushInv, LoadPcs, FlushPcs,
     SendPcs, LonePcs, LoneMask, Go, tlbVars, sendVars
<1>19. ASSUME NEW c \in Cpus, NEW i \in Cpus, LoneScan(c, i)
       PROVE  FlushInv'
  <2>1. /\ UNCHANGED <<tag, how, cr3, span>> /\ \A d \in Cpus \ {c} : pc'[d] = pc[d]
        /\ pc[c] = "loneScan" /\ pc'[c] \in {"lock", "loneScan"}
    BY <1>19 DEF TypeOK, LoneScan, Go, tlbVars
  <2> QED BY <2>1 DEF FlushInv, LoadPcs, FlushPcs, SendPcs, LonePcs
<1>20. ASSUME NEW c \in Cpus, LoneFinish(c)
       PROVE  FlushInv'
  BY <1>20, ShootdownAssumption DEF TypeOK, FlushInv, LoadPcs, FlushPcs,
     SendPcs, LonePcs, LoneFinish, Return, MarkFlushed, Go, sendVars
<1>21. ASSUME NEW p \in Pcids, Migrate(p)
       PROVE  FlushInv'
  BY <1>21, ShootdownAssumption DEF TypeOK, FlushInv, LoadPcs, FlushPcs,
     SendPcs, LonePcs, Migrate, sendVars, regs
<1>22. ASSUME NEW p \in Pcids, Alloc(p)
       PROVE  FlushInv'
  BY <1>22, ShootdownAssumption DEF TypeOK, FlushInv, LoadPcs, FlushPcs,
     SendPcs, LonePcs, Alloc, sendVars, regs
<1>23. ASSUME NEW p \in Pcids, Free(p)
       PROVE  FlushInv'
  BY <1>23, ShootdownAssumption DEF TypeOK, FlushInv, LoadPcs, FlushPcs,
     SendPcs, LonePcs, Free, Outdate, sendVars, regs
<1>24. CASE UNCHANGED vars
  BY <1>24 DEF TypeOK, FlushInv, LoadPcs, FlushPcs, SendPcs, LonePcs, vars,
     tlbVars, sendVars, regs
<1> QED BY <1>1, <1>2, <1>3, <1>4, <1>5, <1>6, <1>7, <1>8, <1>9, <1>10, <1>11,
           <1>12, <1>13, <1>14, <1>15, <1>16, <1>17, <1>18, <1>19, <1>20,
           <1>21, <1>22, <1>23, <1>24 DEF Next, LoadSteps, SendSteps, LoneSteps

\* loadCr3 and markFlushed never store a generation that has not been made.
LEMMA GenStep ==
  ASSUME TypeOK, FlushInv, GenInv, [Next]_vars
  PROVE  GenInv'
<1>1. ASSUME NEW c \in Cpus, NEW p \in Pcids, Load(c, p)
      PROVE  GenInv'
  BY <1>1, ShootdownAssumption DEF TypeOK, FlushInv, GenInv, Bumped, LoadPcs,
     FlushPcs, SendPcs, LonePcs, Load, Go, sendVars
<1>2. ASSUME NEW c \in Cpus, Announce(c)
      PROVE  GenInv'
  BY <1>2, ShootdownAssumption DEF TypeOK, FlushInv, GenInv, Bumped, LoadPcs,
     FlushPcs, SendPcs, LonePcs, Announce, Go, sendVars, regs
<1>3. ASSUME NEW c \in Cpus, ReadGen(c)
      PROVE  GenInv'
  BY <1>3, ShootdownAssumption DEF TypeOK, FlushInv, GenInv, Bumped, LoadPcs,
     FlushPcs, SendPcs, LonePcs, ReadGen, Go, sendVars
<1>4. ASSUME NEW c \in Cpus, WriteCr3(c)
      PROVE  GenInv'
  BY <1>4, ShootdownAssumption DEF TypeOK, FlushInv, GenInv, Bumped, LoadPcs,
     FlushPcs, SendPcs, LonePcs, WriteCr3, Return, Filled, Go, sendVars, regs
<1>5. ASSUME NEW c \in Cpus, Drop(c)
      PROVE  GenInv'
  BY <1>5, ShootdownAssumption DEF TypeOK, FlushInv, GenInv, Bumped, LoadPcs,
     FlushPcs, SendPcs, LonePcs, Drop, Return, Go, sendVars
<1>6. ASSUME NEW c \in Cpus, LoadKernel(c)
      PROVE  GenInv'
  BY <1>6, ShootdownAssumption DEF TypeOK, FlushInv, GenInv, Bumped, LoadPcs,
     FlushPcs, SendPcs, LonePcs, LoadKernel, Go, sendVars, regs
<1>7. ASSUME NEW c \in Cpus, Leave(c)
      PROVE  GenInv'
  BY <1>7, ShootdownAssumption DEF TypeOK, FlushInv, GenInv, Bumped, LoadPcs,
     FlushPcs, SendPcs, LonePcs, Leave, Go, sendVars, regs
<1>8. ASSUME NEW c \in Cpus, NEW p \in Pcids, NEW V \in SUBSET Pages,
             NEW m \in {"page", "context"}, Shoot(c, p, V, m)
      PROVE  GenInv'
  BY <1>8, ShootdownAssumption DEF TypeOK, FlushInv, GenInv, Bumped, LoadPcs,
     FlushPcs, SendPcs, LonePcs, Shoot, MayFlush, Outdate, Go, sendVars
<1>9. ASSUME NEW c \in Cpus, Lock(c)
      PROVE  GenInv'
  BY <1>9, ShootdownAssumption DEF TypeOK, FlushInv, GenInv, Bumped, LoadPcs,
     FlushPcs, SendPcs, LonePcs, Lock, Go, tlbVars, regs
<1>10. ASSUME NEW c \in Cpus, Bump(c)
       PROVE  GenInv'
  BY <1>10, ShootdownAssumption DEF TypeOK, FlushInv, GenInv, Bumped, LoadPcs,
     FlushPcs, SendPcs, LonePcs, Bump, BumpGen, Go, sendVars
<1>11. ASSUME NEW c \in Cpus, ReadMask(c)
       PROVE  GenInv'
  BY <1>11, ShootdownAssumption DEF TypeOK, FlushInv, GenInv, Bumped, LoadPcs,
     FlushPcs, SendPcs, LonePcs, ReadMask, Go, tlbVars, sendVars
<1>12. ASSUME NEW c \in Cpus, NEW i \in Cpus, Scan(c, i)
       PROVE  GenInv'
  BY <1>12, ShootdownAssumption DEF TypeOK, FlushInv, GenInv, Bumped, LoadPcs,
     FlushPcs, SendPcs, LonePcs, Scan, tlbVars
<1>13. ASSUME NEW c \in Cpus, Send(c)
       PROVE  GenInv'
  BY <1>13, ShootdownAssumption DEF TypeOK, FlushInv, GenInv, Bumped, LoadPcs,
     FlushPcs, SendPcs, LonePcs, Send, Go, tlbVars, regs
<1>14. ASSUME NEW c \in Cpus, Finish(c)
       PROVE  GenInv'
  BY <1>14, ShootdownAssumption DEF TypeOK, FlushInv, GenInv, Bumped, LoadPcs,
     FlushPcs, SendPcs, LonePcs, Finish, Return, MarkFlushed, Awaited, Go
<1>15. ASSUME NEW c \in Cpus, Handle(c)
       PROVE  GenInv'
  BY <1>15, ShootdownAssumption DEF TypeOK, FlushInv, GenInv, Bumped, LoadPcs,
     FlushPcs, SendPcs, LonePcs, Handle, InterruptsOn, regs
<1>16. ASSUME NEW c \in Cpus, NEW p \in Pcids, NEW v \in Pages, FlushUserPage(c, p,
              v)
       PROVE  GenInv'
  BY <1>16, ShootdownAssumption DEF TypeOK, FlushInv, GenInv, Bumped, LoadPcs,
     FlushPcs, SendPcs, LonePcs, FlushUserPage, MayFlush, Outdate, Go, sendVars
<1>17. ASSUME NEW c \in Cpus, LoneBump(c)
       PROVE  GenInv'
  BY <1>17, ShootdownAssumption DEF TypeOK, FlushInv, GenInv, Bumped, LoadPcs,
     FlushPcs, SendPcs, LonePcs, LoneBump, BumpGen, Go, sendVars
<1>18. ASSUME NEW c \in Cpus, LoneMask(c)
       PROVE  GenInv'
  BY <1>18, ShootdownAssumption DEF TypeOK, FlushInv, GenInv, Bumped, LoadPcs,
     FlushPcs, SendPcs, LonePcs, LoneMask, Go, tlbVars, sendVars
<1>19. ASSUME NEW c \in Cpus, NEW i \in Cpus, LoneScan(c, i)
       PROVE  GenInv'
  <2>1. /\ UNCHANGED <<tag, gen, local>>
        /\ \A d \in Cpus \ {c} : pc'[d] = pc[d] /\ mine'[d] = mine[d]
        /\ pc[c] = "loneScan" /\ (pc'[c] = "lock" \/ (pc'[c] = "loneScan" /\ mine'[c] = mine[c]))
    BY <1>19 DEF TypeOK, LoneScan, Go, tlbVars
  <2> QED BY <2>1 DEF GenInv, Bumped
<1>20. ASSUME NEW c \in Cpus, LoneFinish(c)
       PROVE  GenInv'
  BY <1>20, ShootdownAssumption DEF TypeOK, FlushInv, GenInv, Bumped, LoadPcs,
     FlushPcs, SendPcs, LonePcs, LoneFinish, Return, MarkFlushed, Go, sendVars
<1>21. ASSUME NEW p \in Pcids, Migrate(p)
       PROVE  GenInv'
  BY <1>21, ShootdownAssumption DEF TypeOK, FlushInv, GenInv, Bumped, LoadPcs,
     FlushPcs, SendPcs, LonePcs, Migrate, sendVars, regs
<1>22. ASSUME NEW p \in Pcids, Alloc(p)
       PROVE  GenInv'
  BY <1>22, ShootdownAssumption DEF TypeOK, FlushInv, GenInv, Bumped, LoadPcs,
     FlushPcs, SendPcs, LonePcs, Alloc, sendVars, regs
<1>23. ASSUME NEW p \in Pcids, Free(p)
       PROVE  GenInv'
  BY <1>23, ShootdownAssumption DEF TypeOK, FlushInv, GenInv, Bumped, LoadPcs,
     FlushPcs, SendPcs, LonePcs, Free, Outdate, sendVars, regs
<1>24. CASE UNCHANGED vars
  BY <1>24 DEF TypeOK, FlushInv, GenInv, Bumped, LoadPcs, FlushPcs, SendPcs,
     LonePcs, vars, tlbVars, sendVars, regs
<1> QED BY <1>1, <1>2, <1>3, <1>4, <1>5, <1>6, <1>7, <1>8, <1>9, <1>10, <1>11,
           <1>12, <1>13, <1>14, <1>15, <1>16, <1>17, <1>18, <1>19, <1>20,
           <1>21, <1>22, <1>23, <1>24 DEF Next, LoadSteps, SendSteps, LoneSteps

\* The callers' discipline holds at every step: flushes start only where the
\* scene allows, and a lone flush that finds somebody running its tag goes on as
\* the same flush.
LEMMA SceneStep ==
  ASSUME TypeOK, SceneInv, [Next]_vars
  PROVE  SceneInv'
<1>1. ASSUME NEW c \in Cpus, NEW p \in Pcids, Load(c, p)
      PROVE  SceneInv'
  BY <1>1, ShootdownAssumption DEF TypeOK, SceneInv, LoadPcs, FlushPcs,
     SendPcs, LonePcs, Load, Go, sendVars
<1>2. ASSUME NEW c \in Cpus, Announce(c)
      PROVE  SceneInv'
  BY <1>2, ShootdownAssumption DEF TypeOK, SceneInv, LoadPcs, FlushPcs,
     SendPcs, LonePcs, Announce, Go, sendVars, regs
<1>3. ASSUME NEW c \in Cpus, ReadGen(c)
      PROVE  SceneInv'
  BY <1>3, ShootdownAssumption DEF TypeOK, SceneInv, LoadPcs, FlushPcs,
     SendPcs, LonePcs, ReadGen, Go, sendVars
<1>4. ASSUME NEW c \in Cpus, WriteCr3(c)
      PROVE  SceneInv'
  <2>1. /\ UNCHANGED scene /\ \A d \in Cpus \ {c} : pc'[d] = pc[d] /\ tag'[d] = tag[d]
        /\ pc'[c] \in {"drop", "run"}
    BY <1>4 DEF TypeOK, WriteCr3, Return, Go, regs
  <2> QED BY <2>1 DEF SceneInv, LoadPcs, FlushPcs, SendPcs, LonePcs
<1>5. ASSUME NEW c \in Cpus, Drop(c)
      PROVE  SceneInv'
  BY <1>5, ShootdownAssumption DEF TypeOK, SceneInv, LoadPcs, FlushPcs,
     SendPcs, LonePcs, Drop, Return, Go, sendVars
<1>6. ASSUME NEW c \in Cpus, LoadKernel(c)
      PROVE  SceneInv'
  BY <1>6, ShootdownAssumption DEF TypeOK, SceneInv, LoadPcs, FlushPcs,
     SendPcs, LonePcs, LoadKernel, Go, sendVars, regs
<1>7. ASSUME NEW c \in Cpus, Leave(c)
      PROVE  SceneInv'
  BY <1>7, ShootdownAssumption DEF TypeOK, SceneInv, LoadPcs, FlushPcs,
     SendPcs, LonePcs, Leave, Go, sendVars, regs
<1>8. ASSUME NEW c \in Cpus, NEW p \in Pcids, NEW V \in SUBSET Pages,
             NEW m \in {"page", "context"}, Shoot(c, p, V, m)
      PROVE  SceneInv'
  BY <1>8, ShootdownAssumption DEF TypeOK, SceneInv, LoadPcs, FlushPcs,
     SendPcs, LonePcs, Shoot, MayFlush, Outdate, Go, sendVars
<1>9. ASSUME NEW c \in Cpus, Lock(c)
      PROVE  SceneInv'
  BY <1>9, ShootdownAssumption DEF TypeOK, SceneInv, LoadPcs, FlushPcs,
     SendPcs, LonePcs, Lock, Go, tlbVars, regs
<1>10. ASSUME NEW c \in Cpus, Bump(c)
       PROVE  SceneInv'
  BY <1>10, ShootdownAssumption DEF TypeOK, SceneInv, LoadPcs, FlushPcs,
     SendPcs, LonePcs, Bump, BumpGen, Go, sendVars
<1>11. ASSUME NEW c \in Cpus, ReadMask(c)
       PROVE  SceneInv'
  BY <1>11, ShootdownAssumption DEF TypeOK, SceneInv, LoadPcs, FlushPcs,
     SendPcs, LonePcs, ReadMask, Go, tlbVars, sendVars
<1>12. ASSUME NEW c \in Cpus, NEW i \in Cpus, Scan(c, i)
       PROVE  SceneInv'
  BY <1>12, ShootdownAssumption DEF TypeOK, SceneInv, LoadPcs, FlushPcs,
     SendPcs, LonePcs, Scan, tlbVars
<1>13. ASSUME NEW c \in Cpus, Send(c)
       PROVE  SceneInv'
  BY <1>13, ShootdownAssumption DEF TypeOK, SceneInv, LoadPcs, FlushPcs,
     SendPcs, LonePcs, Send, Go, tlbVars, regs
<1>14. ASSUME NEW c \in Cpus, Finish(c)
       PROVE  SceneInv'
  BY <1>14, ShootdownAssumption DEF TypeOK, SceneInv, LoadPcs, FlushPcs,
     SendPcs, LonePcs, Finish, Return, MarkFlushed, Awaited, Go
<1>15. ASSUME NEW c \in Cpus, Handle(c)
       PROVE  SceneInv'
  BY <1>15, ShootdownAssumption DEF TypeOK, SceneInv, LoadPcs, FlushPcs,
     SendPcs, LonePcs, Handle, InterruptsOn, regs
<1>16. ASSUME NEW c \in Cpus, NEW p \in Pcids, NEW v \in Pages, FlushUserPage(c, p,
              v)
       PROVE  SceneInv'
  BY <1>16, ShootdownAssumption DEF TypeOK, SceneInv, LoadPcs, FlushPcs,
     SendPcs, LonePcs, FlushUserPage, MayFlush, Outdate, Go, sendVars
<1>17. ASSUME NEW c \in Cpus, LoneBump(c)
       PROVE  SceneInv'
  BY <1>17, ShootdownAssumption DEF TypeOK, SceneInv, LoadPcs, FlushPcs,
     SendPcs, LonePcs, LoneBump, BumpGen, Go, sendVars
<1>18. ASSUME NEW c \in Cpus, LoneMask(c)
       PROVE  SceneInv'
  BY <1>18, ShootdownAssumption DEF TypeOK, SceneInv, LoadPcs, FlushPcs,
     SendPcs, LonePcs, LoneMask, Go, tlbVars, sendVars
<1>19. ASSUME NEW c \in Cpus, NEW i \in Cpus, LoneScan(c, i)
       PROVE  SceneInv'
  <2>1. /\ UNCHANGED <<scene, tag>> /\ \A d \in Cpus \ {c} : pc'[d] = pc[d]
        /\ pc[c] = "loneScan" /\ pc'[c] \in {"lock", "loneScan"}
    BY <1>19 DEF TypeOK, LoneScan, Go
  <2> QED BY <2>1 DEF SceneInv, LoadPcs, FlushPcs, SendPcs, LonePcs
<1>20. ASSUME NEW c \in Cpus, LoneFinish(c)
       PROVE  SceneInv'
  BY <1>20, ShootdownAssumption DEF TypeOK, SceneInv, LoadPcs, FlushPcs,
     SendPcs, LonePcs, LoneFinish, Return, MarkFlushed, Go, sendVars
<1>21. ASSUME NEW p \in Pcids, Migrate(p)
       PROVE  SceneInv'
  BY <1>21, ShootdownAssumption DEF TypeOK, SceneInv, LoadPcs, FlushPcs,
     SendPcs, LonePcs, Migrate, sendVars, regs
<1>22. ASSUME NEW p \in Pcids, Alloc(p)
       PROVE  SceneInv'
  BY <1>22, ShootdownAssumption DEF TypeOK, SceneInv, LoadPcs, FlushPcs,
     SendPcs, LonePcs, Alloc, sendVars, regs
<1>23. ASSUME NEW p \in Pcids, Free(p)
       PROVE  SceneInv'
  BY <1>23, ShootdownAssumption DEF TypeOK, SceneInv, LoadPcs, FlushPcs,
     SendPcs, LonePcs, Free, Outdate, sendVars, regs
<1>24. CASE UNCHANGED vars
  BY <1>24 DEF TypeOK, SceneInv, LoadPcs, FlushPcs, SendPcs, LonePcs, vars,
     tlbVars, sendVars, regs
<1> QED BY <1>1, <1>2, <1>3, <1>4, <1>5, <1>6, <1>7, <1>8, <1>9, <1>10, <1>11,
           <1>12, <1>13, <1>14, <1>15, <1>16, <1>17, <1>18, <1>19, <1>20,
           <1>21, <1>22, <1>23, <1>24 DEF Next, LoadSteps, SendSteps, LoneSteps

\* Every action of the code stores what TypeOK says.
LEMMA TypeStep ==
  ASSUME TypeOK, LoadInv, HoldInv, FlushInv, [Next]_vars
  PROVE  TypeOK'
<1>0. RegsTyped /\ TablesTyped /\ EntriesTyped
  BY TypedParts
<1>1. ASSUME NEW c \in Cpus, NEW p \in Pcids, Load(c, p)
      PROVE  TypeOK'
  BY <1>1, ShootdownAssumption DEF TypeOK, LoadPcs, FlushPcs, SendPcs, LonePcs,
     Without, Gone, Load, Go, sendVars
<1>2. ASSUME NEW c \in Cpus, Announce(c)
      PROVE  TypeOK'
  BY <1>2, ShootdownAssumption DEF TypeOK, LoadPcs, FlushPcs, SendPcs, LonePcs,
     Without, Gone, Announce, Go, sendVars, regs
<1>3. ASSUME NEW c \in Cpus, ReadGen(c)
      PROVE  TypeOK'
  <2>1. RegsTyped'
    BY <1>0, <1>3, ShootdownAssumption DEF RegsTyped, LoadPcs, FlushPcs,
       SendPcs, LonePcs, TablesTyped, LoadInv, ReadGen, Go, sendVars
  <2>2. TablesTyped'
    BY <1>0, <1>3, ShootdownAssumption DEF RegsTyped, TablesTyped, LoadInv,
       ReadGen, Go, sendVars
  <2>3. EntriesTyped'
    BY <1>0, <1>3, ShootdownAssumption DEF EntriesTyped, ReadGen
  <2> QED BY <2>1, <2>2, <2>3 DEF TypeOK, RegsTyped, TablesTyped, EntriesTyped,
             Cache
<1>4. ASSUME NEW c \in Cpus, WriteCr3(c)
      PROVE  TypeOK'
  <2>1. RegsTyped'
    BY <1>0, <1>4, ShootdownAssumption DEF RegsTyped, LoadPcs, FlushPcs,
       SendPcs, LonePcs, WriteCr3, Return, Filled, Go, regs
  <2>2. TablesTyped'
    BY <1>0, <1>4, ShootdownAssumption DEF RegsTyped, TablesTyped, WriteCr3,
       Return, Filled, Go, sendVars, regs
  <2>3. EntriesTyped'
    BY <1>0, <1>4, ShootdownAssumption DEF EntriesTyped, Cache, RegsTyped,
       LoadInv, WriteCr3, Return, Filled, Go, sendVars, regs
  <2> QED BY <2>1, <2>2, <2>3 DEF TypeOK, RegsTyped, TablesTyped, EntriesTyped,
             Cache
<1>5. ASSUME NEW c \in Cpus, Drop(c)
      PROVE  TypeOK'
  <2>1. RegsTyped'
    BY <1>0, <1>5, ShootdownAssumption DEF RegsTyped, LoadPcs, FlushPcs,
       SendPcs, LonePcs, Drop, Return, Go
  <2>2. TablesTyped'
    BY <1>0, <1>5, ShootdownAssumption DEF RegsTyped, TablesTyped, LoadInv,
       Drop, Return, Go, sendVars
  <2>3. EntriesTyped'
    BY <1>0, <1>5, ShootdownAssumption DEF EntriesTyped, Drop, Return
  <2> QED BY <2>1, <2>2, <2>3 DEF TypeOK, RegsTyped, TablesTyped, EntriesTyped,
             Cache
<1>6. ASSUME NEW c \in Cpus, LoadKernel(c)
      PROVE  TypeOK'
  BY <1>6, ShootdownAssumption DEF TypeOK, LoadPcs, FlushPcs, SendPcs, LonePcs,
     Without, Gone, LoadKernel, Go, sendVars, regs
<1>7. ASSUME NEW c \in Cpus, Leave(c)
      PROVE  TypeOK'
  BY <1>7, ShootdownAssumption DEF TypeOK, LoadPcs, FlushPcs, SendPcs, LonePcs,
     Without, Gone, Leave, Go, sendVars, regs
<1>8. ASSUME NEW c \in Cpus, NEW p \in Pcids, NEW V \in SUBSET Pages,
             NEW m \in {"page", "context"}, Shoot(c, p, V, m)
      PROVE  TypeOK'
  BY <1>8, ShootdownAssumption DEF TypeOK, LoadPcs, FlushPcs, SendPcs, LonePcs,
     Without, Gone, Shoot, MayFlush, Outdate, Go, sendVars
<1>9. ASSUME NEW c \in Cpus, Lock(c)
      PROVE  TypeOK'
  BY <1>9, ShootdownAssumption DEF TypeOK, LoadPcs, FlushPcs, SendPcs, LonePcs,
     Without, Gone, Lock, Go, tlbVars, regs
<1>10. ASSUME NEW c \in Cpus, Bump(c)
       PROVE  TypeOK'
  <2>1. RegsTyped'
    BY <1>0, <1>10, ShootdownAssumption DEF RegsTyped, LoadPcs, FlushPcs,
       SendPcs, LonePcs, TablesTyped, FlushInv, Bump, BumpGen, Go, sendVars
  <2>2. TablesTyped'
    BY <1>0, <1>10, ShootdownAssumption DEF TablesTyped, RegsTyped, FlushInv,
       FlushPcs, SendPcs, LonePcs, Bump, BumpGen, Go, sendVars
  <2>3. EntriesTyped'
    BY <1>0, <1>10, ShootdownAssumption DEF EntriesTyped, Bump, BumpGen
  <2> QED BY <2>1, <2>2, <2>3 DEF TypeOK, RegsTyped, TablesTyped, EntriesTyped,
             Cache
<1>11. ASSUME NEW c \in Cpus, ReadMask(c)
       PROVE  TypeOK'
  <2>1. RegsTyped'
    BY <1>0, <1>11, ShootdownAssumption DEF RegsTyped, LoadPcs, FlushPcs,
       SendPcs, LonePcs, TablesTyped, FlushInv, ReadMask, Go, tlbVars, sendVars
  <2>2. TablesTyped'
    BY <1>0, <1>11, ShootdownAssumption DEF TablesTyped, ReadMask, tlbVars,
       sendVars
  <2>3. EntriesTyped'
    BY <1>0, <1>11, ShootdownAssumption DEF EntriesTyped, ReadMask, tlbVars
  <2> QED BY <2>1, <2>2, <2>3 DEF TypeOK, RegsTyped, TablesTyped, EntriesTyped,
             Cache
<1>12. ASSUME NEW c \in Cpus, NEW i \in Cpus, Scan(c, i)
       PROVE  TypeOK'
  <2>1. RegsTyped'
    BY <1>0, <1>12, ShootdownAssumption DEF RegsTyped, LoadPcs, FlushPcs,
       SendPcs, LonePcs, Scan
  <2>2. TablesTyped'
    BY <1>0, <1>12, ShootdownAssumption DEF TablesTyped, Scan, tlbVars
  <2>3. EntriesTyped'
    BY <1>0, <1>12, ShootdownAssumption DEF EntriesTyped, Scan, tlbVars
  <2> QED BY <2>1, <2>2, <2>3 DEF TypeOK, RegsTyped, TablesTyped, EntriesTyped,
             Cache
<1>13. ASSUME NEW c \in Cpus, Send(c)
       PROVE  TypeOK'
  BY <1>13, ShootdownAssumption DEF TypeOK, LoadPcs, FlushPcs, SendPcs,
     LonePcs, Without, Gone, Send, Go, tlbVars, regs
<1>14. ASSUME NEW c \in Cpus, Finish(c)
       PROVE  TypeOK'
  <2>1. RegsTyped'
    BY <1>0, <1>14, ShootdownAssumption DEF RegsTyped, LoadPcs, FlushPcs,
       SendPcs, LonePcs, Finish, Return, MarkFlushed, Awaited, Go
  <2>2. TablesTyped'
    BY <1>0, <1>14, ShootdownAssumption DEF TablesTyped, RegsTyped, FlushInv,
       FlushPcs, SendPcs, Finish, Return, MarkFlushed, Awaited, Go
  <2>3. EntriesTyped'
    <3>1. PICK e \in FlushLocalForMode(c, c) : entry' = [entry EXCEPT ![c] = e]
      BY <1>14 DEF Finish
    <3>2. tag[c] \in Pcids
      BY <1>14 DEF Finish, FlushInv, FlushPcs, SendPcs
    <3>3. e \in Cache
      BY <3>2, FlushLeaves
    <3> QED BY <1>0, <3>1, <3>3 DEF EntriesTyped
  <2> QED BY <2>1, <2>2, <2>3 DEF TypeOK, RegsTyped, TablesTyped, EntriesTyped,
             Cache
<1>15. ASSUME NEW c \in Cpus, Handle(c)
       PROVE  TypeOK'
  <2>1. RegsTyped'
    BY <1>0, <1>15, ShootdownAssumption DEF RegsTyped, LoadPcs, FlushPcs,
       SendPcs, LonePcs, Handle, InterruptsOn, regs
  <2>2. TablesTyped'
    BY <1>0, <1>15, ShootdownAssumption DEF TablesTyped, Handle, InterruptsOn
  <2>3. EntriesTyped'
    <3>1. PICK s \in Cpus : /\ holder = s
                            /\ \E e \in FlushLocalForMode(c, s) : entry' = [entry EXCEPT ![c] = e]
      BY <1>15 DEF Handle
    <3>2. PICK e \in FlushLocalForMode(c, s) : entry' = [entry EXCEPT ![c] = e]
      BY <3>1
    <3>3. tag[s] \in Pcids
      BY <3>1 DEF HoldInv, FlushInv, FlushPcs
    <3>4. e \in Cache
      BY <3>3, FlushLeaves
    <3> QED BY <1>0, <3>2, <3>4 DEF EntriesTyped
  <2> QED BY <2>1, <2>2, <2>3 DEF TypeOK, RegsTyped, TablesTyped, EntriesTyped,
             Cache
<1>16. ASSUME NEW c \in Cpus, NEW p \in Pcids, NEW v \in Pages, FlushUserPage(c, p,
              v)
       PROVE  TypeOK'
  BY <1>16, ShootdownAssumption DEF TypeOK, LoadPcs, FlushPcs, SendPcs,
     LonePcs, Without, Gone, FlushUserPage, MayFlush, Outdate, Go, sendVars
<1>17. ASSUME NEW c \in Cpus, LoneBump(c)
       PROVE  TypeOK'
  <2>1. RegsTyped'
    BY <1>0, <1>17, ShootdownAssumption DEF RegsTyped, LoadPcs, FlushPcs,
       SendPcs, LonePcs, TablesTyped, FlushInv, LoneBump, BumpGen, Go, sendVars
  <2>2. TablesTyped'
    BY <1>0, <1>17, ShootdownAssumption DEF TablesTyped, RegsTyped, FlushInv,
       FlushPcs, SendPcs, LonePcs, LoneBump, BumpGen, Go, sendVars
  <2>3. EntriesTyped'
    BY <1>0, <1>17, ShootdownAssumption DEF EntriesTyped, LoneBump, BumpGen
  <2> QED BY <2>1, <2>2, <2>3 DEF TypeOK, RegsTyped, TablesTyped, EntriesTyped,
             Cache
<1>18. ASSUME NEW c \in Cpus, LoneMask(c)
       PROVE  TypeOK'
  <2>1. RegsTyped'
    BY <1>0, <1>18, ShootdownAssumption DEF RegsTyped, LoadPcs, FlushPcs,
       SendPcs, LonePcs, TablesTyped, FlushInv, LoneMask, Go, tlbVars, sendVars
  <2>2. TablesTyped'
    BY <1>0, <1>18, ShootdownAssumption DEF TablesTyped, LoneMask, tlbVars,
       sendVars
  <2>3. EntriesTyped'
    BY <1>0, <1>18, ShootdownAssumption DEF EntriesTyped, LoneMask, tlbVars
  <2> QED BY <2>1, <2>2, <2>3 DEF TypeOK, RegsTyped, TablesTyped, EntriesTyped,
             Cache
<1>19. ASSUME NEW c \in Cpus, NEW i \in Cpus, LoneScan(c, i)
       PROVE  TypeOK'
  <2>1. RegsTyped'
    BY <1>0, <1>19, ShootdownAssumption DEF RegsTyped, LoadPcs, FlushPcs,
       SendPcs, LonePcs, LoneScan, Go
  <2>2. TablesTyped'
    BY <1>0, <1>19, ShootdownAssumption DEF TablesTyped, LoneScan, tlbVars,
       sendVars
  <2>3. EntriesTyped'
    BY <1>0, <1>19, ShootdownAssumption DEF EntriesTyped, LoneScan, tlbVars
  <2> QED BY <2>1, <2>2, <2>3 DEF TypeOK, RegsTyped, TablesTyped, EntriesTyped,
             Cache
<1>20. ASSUME NEW c \in Cpus, LoneFinish(c)
       PROVE  TypeOK'
  <2>1. RegsTyped'
    BY <1>0, <1>20, ShootdownAssumption DEF RegsTyped, LoadPcs, FlushPcs,
       SendPcs, LonePcs, LoneFinish, Return, MarkFlushed, Go
  <2>2. TablesTyped'
    BY <1>0, <1>20, ShootdownAssumption DEF TablesTyped, RegsTyped, FlushInv,
       FlushPcs, LonePcs, LoneFinish, Return, MarkFlushed, Go, sendVars
  <2>3. EntriesTyped'
    <3>1. Without(c, cr3[c], span[c]) \in Cache
      BY WithoutLeaves DEF TypeOK
    <3> QED BY <1>0, <1>20, <3>1 DEF EntriesTyped, LoneFinish
  <2> QED BY <2>1, <2>2, <2>3 DEF TypeOK, RegsTyped, TablesTyped, EntriesTyped,
             Cache
<1>21. ASSUME NEW p \in Pcids, Migrate(p)
       PROVE  TypeOK'
  BY <1>21, RoomBelow, ShootdownAssumption DEF TypeOK, Migrate, sendVars, regs
<1>22. ASSUME NEW p \in Pcids, Alloc(p)
       PROVE  TypeOK'
  BY <1>22, RoomBelow, ShootdownAssumption DEF TypeOK, Alloc, sendVars, regs
<1>23. ASSUME NEW p \in Pcids, Free(p)
       PROVE  TypeOK'
  BY <1>23, RoomBelow, ShootdownAssumption DEF TypeOK, Free, Outdate, sendVars,
     regs
<1>24. CASE UNCHANGED vars
  BY <1>24 DEF TypeOK, LoadPcs, FlushPcs, SendPcs, LonePcs, Without, Gone,
     vars, tlbVars, sendVars, regs
<1> QED BY <1>1, <1>2, <1>3, <1>4, <1>5, <1>6, <1>7, <1>8, <1>9, <1>10, <1>11,
           <1>12, <1>13, <1>14, <1>15, <1>16, <1>17, <1>18, <1>19, <1>20,
           <1>21, <1>22, <1>23, <1>24 DEF Next, LoadSteps, SendSteps, LoneSteps

-----------------------------------------------------------------------------
\* An entry becomes stale only where its page table entry is changed: by a
\* flush's caller, whose bump is then to come, or by the freeing of its tag, which
\* moves the generation past everybody's.
LEMMA OldStep ==
  ASSUME Inv, NEW c \in Cpus, NEW p \in Pcids, NEW v \in Pages, Old(c, p, v)', [Next]_vars
  PROVE  Old(c, p, v) \/ PreBump(p, v)' \/ (local'[c][p] # gen'[p] /\ loaded'[c] # p)
<1> DEFINE Kept == Old(c, p, v) \/ PreBump(p, v)' \/ (local'[c][p] # gen'[p] /\ loaded'[c] # p)
<1> USE DEF Inv
<1>1. ASSUME NEW d \in Cpus, NEW q \in Pcids, Load(d, q)
      PROVE  Kept
  BY <1>1 DEF Old, Load
<1>2. ASSUME NEW d \in Cpus, Announce(d)
      PROVE  Kept
  BY <1>2 DEF Old, Announce
<1>3. ASSUME NEW d \in Cpus, ReadGen(d)
      PROVE  Kept
  BY <1>3 DEF Old, ReadGen
<1>4. ASSUME NEW d \in Cpus, WriteCr3(d)
      PROVE  Kept
  <2>1. entry \in [Cpus -> Cache] /\ entry'[c] = IF c # d THEN entry[c] ELSE
          [r \in Pcids |-> IF r = tag[d] THEN Filled(d, tag[d], mine[d] = local[d][tag[d]])
                           ELSE IF lazy[d] # Kernel /\ lazy[d] # tag[d] /\ r = lazy[d]
                             THEN [u \in Pages |-> "none"] ELSE entry[d][r]]
    BY <1>4 DEF WriteCr3, TypeOK, Cache
  <2> QED BY <2>1 DEF Old, Filled, Cache
<1>5. ASSUME NEW d \in Cpus, Drop(d)
      PROVE  Kept
  BY <1>5 DEF Old, Drop, Return
<1>6. ASSUME NEW d \in Cpus, LoadKernel(d)
      PROVE  Kept
  BY <1>6 DEF Old, LoadKernel
<1>7. ASSUME NEW d \in Cpus, Leave(d)
      PROVE  Kept
  BY <1>7 DEF Old, Leave
<1>8. ASSUME NEW d \in Cpus, NEW q \in Pcids, NEW V \in SUBSET Pages,
             NEW m \in {"page", "context"}, Shoot(d, q, V, m)
      PROVE  Kept
  <2>1. entry \in [Cpus -> Cache]
    BY DEF TypeOK, Cache
  <2>2. Old(c, p, v)' => Old(c, p, v) \/ (p = q /\ v \in V)
    BY <1>8, <2>1 DEF Shoot, Outdate, Old, Cache
  <2>3. tag'[d] = q /\ span'[d] = V /\ pc'[d] \in {"lock", "loneBump"}
    BY <1>8 DEF Shoot, MayFlush, Go, TypeOK
  <2> QED BY <2>2, <2>3 DEF PreBump
<1>9. ASSUME NEW d \in Cpus, Lock(d)
      PROVE  Kept
  BY <1>9 DEF Old, Lock, tlbVars
<1>10. ASSUME NEW d \in Cpus, Bump(d)
       PROVE  Kept
  BY <1>10 DEF Old, Bump, BumpGen
<1>11. ASSUME NEW d \in Cpus, ReadMask(d)
       PROVE  Kept
  BY <1>11 DEF Old, ReadMask, tlbVars
<1>12. ASSUME NEW d \in Cpus, NEW i \in Cpus, Scan(d, i)
       PROVE  Kept
  BY <1>12 DEF Old, Scan, tlbVars
<1>13. ASSUME NEW d \in Cpus, Send(d)
       PROVE  Kept
  BY <1>13 DEF Old, Send, tlbVars
<1>14. ASSUME NEW d \in Cpus, Finish(d)
       PROVE  Kept
  <2>1. PICK e \in FlushLocalForMode(d, d) : entry' = [entry EXCEPT ![d] = e]
    BY <1>14 DEF Finish
  <2>2. tag[d] \in Pcids /\ entry \in [Cpus -> Cache]
    BY <1>14 DEF Finish, FlushInv, FlushPcs, SendPcs, TypeOK, Cache
  <2>3. \A r \in Pcids, u \in Pages : e[r][u] = "old" => entry[d][r][u] = "old"
    BY <2>2, FlushLeaves
  <2> QED BY <2>1, <2>2, <2>3 DEF Old
<1>15. ASSUME NEW d \in Cpus, Handle(d)
       PROVE  Kept
  <2>1. PICK s \in Cpus : /\ holder = s
                          /\ \E e \in FlushLocalForMode(d, s) : entry' = [entry EXCEPT ![d] = e]
    BY <1>15 DEF Handle
  <2>2. PICK e \in FlushLocalForMode(d, s) : entry' = [entry EXCEPT ![d] = e]
    BY <2>1
  <2>3. tag[s] \in Pcids /\ entry \in [Cpus -> Cache]
    BY <2>1 DEF HoldInv, FlushInv, FlushPcs, TypeOK, Cache
  <2>4. \A r \in Pcids, u \in Pages : e[r][u] = "old" => entry[d][r][u] = "old"
    BY <2>3, FlushLeaves
  <2> QED BY <2>2, <2>3, <2>4 DEF Old
<1>16. ASSUME NEW d \in Cpus, NEW q \in Pcids, NEW w \in Pages, FlushUserPage(d, q,
              w)
       PROVE  Kept
  <2>1. entry \in [Cpus -> Cache]
    BY DEF TypeOK, Cache
  <2>2. Old(c, p, v)' => Old(c, p, v) \/ (p = q /\ v \in {w})
    BY <1>16, <2>1 DEF FlushUserPage, Outdate, Old, Cache
  <2>3. tag'[d] = q /\ span'[d] = {w} /\ pc'[d] \in {"lock", "loneBump"}
    BY <1>16 DEF FlushUserPage, MayFlush, Go, TypeOK
  <2> QED BY <2>2, <2>3 DEF PreBump
<1>17. ASSUME NEW d \in Cpus, LoneBump(d)
       PROVE  Kept
  BY <1>17 DEF Old, LoneBump, BumpGen
<1>18. ASSUME NEW d \in Cpus, LoneMask(d)
       PROVE  Kept
  BY <1>18 DEF Old, LoneMask, tlbVars
<1>19. ASSUME NEW d \in Cpus, NEW i \in Cpus, LoneScan(d, i)
       PROVE  Kept
  BY <1>19 DEF Old, LoneScan, tlbVars
<1>20. ASSUME NEW d \in Cpus, LoneFinish(d)
       PROVE  Kept
  <2>1. /\ entry' = [entry EXCEPT ![d] = Without(d, cr3[d], span[d])]
        /\ entry \in [Cpus -> Cache] /\ cr3[d] \in Pcids \cup {Kernel}
    BY <1>20 DEF LoneFinish, TypeOK, Cache
  <2>2. TypeOK
    BY DEF Inv
  <2>3. ASSUME NEW r \in Pcids, NEW u \in Pages,
               Without(d, cr3[d], span[d])[r][u] = "old"
        PROVE  entry[d][r][u] = "old"
    BY <2>1, <2>2, <2>3 DEF Without, Gone, Cache
  <2> QED BY <2>1, <2>3 DEF Old
<1>21. ASSUME NEW q \in Pcids, Migrate(q)
       PROVE  Kept
  BY <1>21 DEF Old, Migrate
<1>22. ASSUME NEW q \in Pcids, Alloc(q)
       PROVE  Kept
  BY <1>22 DEF Old, Alloc
<1>23. ASSUME NEW q \in Pcids, Free(q)
       PROVE  Kept
  <2>1. entry \in [Cpus -> Cache]
    BY DEF TypeOK, Cache
  <2>2. Old(c, p, v)' => Old(c, p, v) \/ p = q
    BY <1>23, <2>1 DEF Free, Outdate, Old, Cache
  <2>3. /\ local'[c][q] = local[c][q] /\ gen'[q] = gen[q] + 1
        /\ local[c][q] \in Nat /\ gen[q] \in Nat /\ local[c][q] =< gen[q]
        /\ loaded'[c] # q
    BY <1>23 DEF Free, TypeOK, GenInv
  <2> QED BY <2>2, <2>3
<1>24. CASE UNCHANGED vars
  BY <1>24 DEF Old, TypeOK, LoadPcs, FlushPcs, SendPcs, LonePcs, vars, tlbVars,
     sendVars, regs
<1> QED BY <1>1, <1>2, <1>3, <1>4, <1>5, <1>6, <1>7, <1>8, <1>9, <1>10, <1>11,
           <1>12, <1>13, <1>14, <1>15, <1>16, <1>17, <1>18, <1>19, <1>20,
           <1>21, <1>22, <1>23, <1>24 DEF Next, LoadSteps, SendSteps, LoneSteps

\* A flush stays before its bump until it makes it, and the bump moves the
\* generation of its tag.
LEMMA PreBumpKept ==
  ASSUME TypeOK, FlushInv, NEW s \in Cpus, pc[s] \in {"lock", "bump", "loneBump"}, [Next]_vars
  PROVE  \/ /\ pc'[s] \in {"lock", "bump", "loneBump"}
             /\ tag'[s] = tag[s] /\ span'[s] = span[s]
          \/ /\ pc'[s] \in {"mask", "loneMask"} /\ tag'[s] = tag[s] /\ span'[s] = span[s]
             /\ gen'[tag[s]] = gen[tag[s]] + 1 /\ local' = local
<1> DEFINE Kept == \/ /\ pc'[s] \in {"lock", "bump", "loneBump"}
                      /\ tag'[s] = tag[s] /\ span'[s] = span[s]
                   \/ /\ pc'[s] \in {"mask", "loneMask"} /\ tag'[s] = tag[s] /\ span'[s] = span[s]
                      /\ gen'[tag[s]] = gen[tag[s]] + 1 /\ local' = local
<1>1. ASSUME NEW d \in Cpus, NEW q \in Pcids, Load(d, q)
      PROVE  Kept
  BY <1>1 DEF TypeOK, LoadPcs, FlushPcs, SendPcs, LonePcs, FlushInv, Load, Go,
     sendVars
<1>2. ASSUME NEW d \in Cpus, Announce(d)
      PROVE  Kept
  BY <1>2 DEF TypeOK, LoadPcs, FlushPcs, SendPcs, LonePcs, FlushInv, Announce,
     Go, sendVars, regs
<1>3. ASSUME NEW d \in Cpus, ReadGen(d)
      PROVE  Kept
  BY <1>3 DEF TypeOK, LoadPcs, FlushPcs, SendPcs, LonePcs, FlushInv, ReadGen,
     Go, sendVars
<1>4. ASSUME NEW d \in Cpus, WriteCr3(d)
      PROVE  Kept
  BY <1>4 DEF TypeOK, LoadPcs, FlushPcs, SendPcs, LonePcs, FlushInv, WriteCr3,
     Return, Filled, Go, sendVars, regs
<1>5. ASSUME NEW d \in Cpus, Drop(d)
      PROVE  Kept
  BY <1>5 DEF TypeOK, LoadPcs, FlushPcs, SendPcs, LonePcs, FlushInv, Drop,
     Return, Go, sendVars
<1>6. ASSUME NEW d \in Cpus, LoadKernel(d)
      PROVE  Kept
  BY <1>6 DEF TypeOK, LoadPcs, FlushPcs, SendPcs, LonePcs, FlushInv,
     LoadKernel, Go, sendVars, regs
<1>7. ASSUME NEW d \in Cpus, Leave(d)
      PROVE  Kept
  BY <1>7 DEF TypeOK, LoadPcs, FlushPcs, SendPcs, LonePcs, FlushInv, Leave, Go,
     sendVars, regs
<1>8. ASSUME NEW d \in Cpus, NEW q \in Pcids, NEW V \in SUBSET Pages,
             NEW m \in {"page", "context"}, Shoot(d, q, V, m)
      PROVE  Kept
  BY <1>8 DEF TypeOK, LoadPcs, FlushPcs, SendPcs, LonePcs, FlushInv, Shoot,
     MayFlush, Outdate, Go, sendVars
<1>9. ASSUME NEW d \in Cpus, Lock(d)
      PROVE  Kept
  BY <1>9 DEF TypeOK, LoadPcs, FlushPcs, SendPcs, LonePcs, FlushInv, Lock, Go,
     tlbVars, regs
<1>10. ASSUME NEW d \in Cpus, Bump(d)
       PROVE  Kept
  BY <1>10 DEF TypeOK, LoadPcs, FlushPcs, SendPcs, LonePcs, FlushInv, Bump,
     BumpGen, Go, sendVars
<1>11. ASSUME NEW d \in Cpus, ReadMask(d)
       PROVE  Kept
  BY <1>11 DEF TypeOK, LoadPcs, FlushPcs, SendPcs, LonePcs, FlushInv, ReadMask,
     Go, tlbVars, sendVars
<1>12. ASSUME NEW d \in Cpus, NEW i \in Cpus, Scan(d, i)
       PROVE  Kept
  BY <1>12 DEF TypeOK, LoadPcs, FlushPcs, SendPcs, LonePcs, FlushInv, Scan,
     tlbVars
<1>13. ASSUME NEW d \in Cpus, Send(d)
       PROVE  Kept
  BY <1>13 DEF TypeOK, LoadPcs, FlushPcs, SendPcs, LonePcs, FlushInv, Send, Go,
     tlbVars, regs
<1>14. ASSUME NEW d \in Cpus, Finish(d)
       PROVE  Kept
  BY <1>14 DEF TypeOK, LoadPcs, FlushPcs, SendPcs, LonePcs, FlushInv, Finish,
     Return, MarkFlushed, Awaited, Go
<1>15. ASSUME NEW d \in Cpus, Handle(d)
       PROVE  Kept
  BY <1>15 DEF TypeOK, LoadPcs, FlushPcs, SendPcs, LonePcs, FlushInv, Handle,
     InterruptsOn, regs
<1>16. ASSUME NEW d \in Cpus, NEW q \in Pcids, NEW w \in Pages, FlushUserPage(d, q,
              w)
       PROVE  Kept
  BY <1>16 DEF TypeOK, LoadPcs, FlushPcs, SendPcs, LonePcs, FlushInv,
     FlushUserPage, MayFlush, Outdate, Go, sendVars
<1>17. ASSUME NEW d \in Cpus, LoneBump(d)
       PROVE  Kept
  BY <1>17 DEF TypeOK, LoadPcs, FlushPcs, SendPcs, LonePcs, FlushInv, LoneBump,
     BumpGen, Go, sendVars
<1>18. ASSUME NEW d \in Cpus, LoneMask(d)
       PROVE  Kept
  BY <1>18 DEF TypeOK, LoadPcs, FlushPcs, SendPcs, LonePcs, FlushInv, LoneMask,
     Go, tlbVars, sendVars
<1>19. ASSUME NEW d \in Cpus, NEW i \in Cpus, LoneScan(d, i)
       PROVE  Kept
  BY <1>19 DEF TypeOK, LoadPcs, FlushPcs, SendPcs, LonePcs, FlushInv, LoneScan,
     Go, tlbVars, sendVars
<1>20. ASSUME NEW d \in Cpus, LoneFinish(d)
       PROVE  Kept
  BY <1>20 DEF TypeOK, LoadPcs, FlushPcs, SendPcs, LonePcs, FlushInv,
     LoneFinish, Return, MarkFlushed, Go, sendVars
<1>21. ASSUME NEW q \in Pcids, Migrate(q)
       PROVE  Kept
  BY <1>21 DEF TypeOK, LoadPcs, FlushPcs, SendPcs, LonePcs, FlushInv, Migrate,
     sendVars, regs
<1>22. ASSUME NEW q \in Pcids, Alloc(q)
       PROVE  Kept
  BY <1>22 DEF TypeOK, LoadPcs, FlushPcs, SendPcs, LonePcs, FlushInv, Alloc,
     sendVars, regs
<1>23. ASSUME NEW q \in Pcids, Free(q)
       PROVE  Kept
  BY <1>23 DEF TypeOK, LoadPcs, FlushPcs, SendPcs, LonePcs, FlushInv, Free,
     Outdate, sendVars, regs
<1>24. CASE UNCHANGED vars
  BY <1>24 DEF TypeOK, LoadPcs, FlushPcs, SendPcs, LonePcs, FlushInv, vars,
     tlbVars, sendVars, regs
<1> QED BY <1>1, <1>2, <1>3, <1>4, <1>5, <1>6, <1>7, <1>8, <1>9, <1>10, <1>11,
           <1>12, <1>13, <1>14, <1>15, <1>16, <1>17, <1>18, <1>19, <1>20,
           <1>21, <1>22, <1>23, <1>24 DEF Next, LoadSteps, SendSteps, LoneSteps

\* A processor in loadCr3 with an old generation in hand will drop the tag's
\* entries: interrupts are off, and nobody else stores its registers.
LEMMA DropKept ==
  ASSUME TypeOK, GenInv, FlushInv, NEW c \in Cpus, NEW p \in Pcids, NEW v \in Pages, WillDrop(c, p), Old(c, p, v)', [Next]_vars
  PROVE  WillDrop(c, p)'
<1>1. ASSUME NEW d \in Cpus, NEW q \in Pcids, Load(d, q)
      PROVE  WillDrop(c, p)'
  BY <1>1 DEF TypeOK, LoadPcs, FlushPcs, SendPcs, LonePcs, GenInv, FlushInv,
     WillDrop, Load, Go, sendVars
<1>2. ASSUME NEW d \in Cpus, Announce(d)
      PROVE  WillDrop(c, p)'
  BY <1>2 DEF TypeOK, LoadPcs, FlushPcs, SendPcs, LonePcs, GenInv, FlushInv,
     WillDrop, Announce, Go, sendVars, regs
<1>3. ASSUME NEW d \in Cpus, ReadGen(d)
      PROVE  WillDrop(c, p)'
  BY <1>3 DEF TypeOK, LoadPcs, FlushPcs, SendPcs, LonePcs, GenInv, FlushInv,
     WillDrop, ReadGen, Go, sendVars
<1>4. ASSUME NEW d \in Cpus, WriteCr3(d)
      PROVE  WillDrop(c, p)'
  <2>1. c # d
    <3>1. SUFFICES ASSUME c = d PROVE FALSE
      OBVIOUS
    <3>2. entry'[c][p] = Filled(c, p, FALSE)
      BY <1>4, <3>1 DEF WriteCr3, WillDrop, TypeOK
    <3> QED BY <3>2 DEF Old, Filled
  <2>2. /\ pc'[c] = pc[c] /\ tag'[c] = tag[c] /\ mine'[c] = mine[c]
        /\ UNCHANGED <<gen, local>>
    BY <1>4, <2>1 DEF WriteCr3, Return, Go, regs, TypeOK
  <2> QED BY <2>2 DEF WillDrop
<1>5. ASSUME NEW d \in Cpus, Drop(d)
      PROVE  WillDrop(c, p)'
  BY <1>5 DEF TypeOK, LoadPcs, FlushPcs, SendPcs, LonePcs, GenInv, FlushInv,
     WillDrop, Drop, Return, Go, sendVars
<1>6. ASSUME NEW d \in Cpus, LoadKernel(d)
      PROVE  WillDrop(c, p)'
  BY <1>6 DEF TypeOK, LoadPcs, FlushPcs, SendPcs, LonePcs, GenInv, FlushInv,
     WillDrop, LoadKernel, Go, sendVars, regs
<1>7. ASSUME NEW d \in Cpus, Leave(d)
      PROVE  WillDrop(c, p)'
  BY <1>7 DEF TypeOK, LoadPcs, FlushPcs, SendPcs, LonePcs, GenInv, FlushInv,
     WillDrop, Leave, Go, sendVars, regs
<1>8. ASSUME NEW d \in Cpus, NEW q \in Pcids, NEW V \in SUBSET Pages,
             NEW m \in {"page", "context"}, Shoot(d, q, V, m)
      PROVE  WillDrop(c, p)'
  BY <1>8 DEF TypeOK, LoadPcs, FlushPcs, SendPcs, LonePcs, GenInv, FlushInv,
     WillDrop, Shoot, MayFlush, Outdate, Go, sendVars
<1>9. ASSUME NEW d \in Cpus, Lock(d)
      PROVE  WillDrop(c, p)'
  BY <1>9 DEF TypeOK, LoadPcs, FlushPcs, SendPcs, LonePcs, GenInv, FlushInv,
     WillDrop, Lock, Go, tlbVars, regs
<1>10. ASSUME NEW d \in Cpus, Bump(d)
       PROVE  WillDrop(c, p)'
  BY <1>10 DEF TypeOK, LoadPcs, FlushPcs, SendPcs, LonePcs, GenInv, FlushInv,
     WillDrop, Bump, BumpGen, Go, sendVars
<1>11. ASSUME NEW d \in Cpus, ReadMask(d)
       PROVE  WillDrop(c, p)'
  BY <1>11 DEF TypeOK, LoadPcs, FlushPcs, SendPcs, LonePcs, GenInv, FlushInv,
     WillDrop, ReadMask, Go, tlbVars, sendVars
<1>12. ASSUME NEW d \in Cpus, NEW i \in Cpus, Scan(d, i)
       PROVE  WillDrop(c, p)'
  BY <1>12 DEF TypeOK, LoadPcs, FlushPcs, SendPcs, LonePcs, GenInv, FlushInv,
     WillDrop, Scan, tlbVars
<1>13. ASSUME NEW d \in Cpus, Send(d)
       PROVE  WillDrop(c, p)'
  BY <1>13 DEF TypeOK, LoadPcs, FlushPcs, SendPcs, LonePcs, GenInv, FlushInv,
     WillDrop, Send, Go, tlbVars, regs
<1>14. ASSUME NEW d \in Cpus, Finish(d)
       PROVE  WillDrop(c, p)'
  BY <1>14 DEF TypeOK, LoadPcs, FlushPcs, SendPcs, LonePcs, GenInv, FlushInv,
     WillDrop, Finish, Return, MarkFlushed, Awaited, Go
<1>15. ASSUME NEW d \in Cpus, Handle(d)
       PROVE  WillDrop(c, p)'
  BY <1>15 DEF TypeOK, LoadPcs, FlushPcs, SendPcs, LonePcs, GenInv, FlushInv,
     WillDrop, Handle, InterruptsOn, regs
<1>16. ASSUME NEW d \in Cpus, NEW q \in Pcids, NEW w \in Pages, FlushUserPage(d, q,
              w)
       PROVE  WillDrop(c, p)'
  BY <1>16 DEF TypeOK, LoadPcs, FlushPcs, SendPcs, LonePcs, GenInv, FlushInv,
     WillDrop, FlushUserPage, MayFlush, Outdate, Go, sendVars
<1>17. ASSUME NEW d \in Cpus, LoneBump(d)
       PROVE  WillDrop(c, p)'
  BY <1>17 DEF TypeOK, LoadPcs, FlushPcs, SendPcs, LonePcs, GenInv, FlushInv,
     WillDrop, LoneBump, BumpGen, Go, sendVars
<1>18. ASSUME NEW d \in Cpus, LoneMask(d)
       PROVE  WillDrop(c, p)'
  BY <1>18 DEF TypeOK, LoadPcs, FlushPcs, SendPcs, LonePcs, GenInv, FlushInv,
     WillDrop, LoneMask, Go, tlbVars, sendVars
<1>19. ASSUME NEW d \in Cpus, NEW i \in Cpus, LoneScan(d, i)
       PROVE  WillDrop(c, p)'
  BY <1>19 DEF TypeOK, LoadPcs, FlushPcs, SendPcs, LonePcs, GenInv, FlushInv,
     WillDrop, LoneScan, Go, tlbVars, sendVars
<1>20. ASSUME NEW d \in Cpus, LoneFinish(d)
       PROVE  WillDrop(c, p)'
  BY <1>20 DEF TypeOK, LoadPcs, FlushPcs, SendPcs, LonePcs, GenInv, FlushInv,
     WillDrop, LoneFinish, Return, MarkFlushed, Go, sendVars
<1>21. ASSUME NEW q \in Pcids, Migrate(q)
       PROVE  WillDrop(c, p)'
  BY <1>21 DEF TypeOK, LoadPcs, FlushPcs, SendPcs, LonePcs, GenInv, FlushInv,
     WillDrop, Migrate, sendVars, regs
<1>22. ASSUME NEW q \in Pcids, Alloc(q)
       PROVE  WillDrop(c, p)'
  BY <1>22 DEF TypeOK, LoadPcs, FlushPcs, SendPcs, LonePcs, GenInv, FlushInv,
     WillDrop, Alloc, sendVars, regs
<1>23. ASSUME NEW q \in Pcids, Free(q)
       PROVE  WillDrop(c, p)'
  BY <1>23 DEF TypeOK, LoadPcs, FlushPcs, SendPcs, LonePcs, GenInv, FlushInv,
     WillDrop, Free, Outdate, sendVars, regs
<1>24. CASE UNCHANGED vars
  BY <1>24 DEF TypeOK, LoadPcs, FlushPcs, SendPcs, LonePcs, GenInv, FlushInv,
     WillDrop, vars, tlbVars, sendVars, regs
<1> QED BY <1>1, <1>2, <1>3, <1>4, <1>5, <1>6, <1>7, <1>8, <1>9, <1>10, <1>11,
           <1>12, <1>13, <1>14, <1>15, <1>16, <1>17, <1>18, <1>19, <1>20,
           <1>21, <1>22, <1>23, <1>24 DEF Next, LoadSteps, SendSteps, LoneSteps

\* A flush that has its processor still to look at, or to hear from, keeps it
\* in sight until the entry is gone: c is in the mask it reads, `loaded` says that
\* c runs the tag, and c's handler drops the page. A lone flush that sees c turns
\* into one that will.
LEMMA SightKept ==
  ASSUME TypeOK, LoadInv, HoldInv, NEW c \in Cpus, NEW p \in Pcids, NEW v \in Pages, NEW s \in Cpus,
         tag[s] = p, v \in span[s], InSight(s, c), loaded[c] = p, Old(c, p, v)', [Next]_vars
  PROVE  Sighted(c, p, v)' \/ PreBump(p, v)'
<1>1. ASSUME NEW d \in Cpus, NEW q \in Pcids, Load(d, q)
      PROVE  Sighted(c, p, v)' \/ PreBump(p, v)'
  <2>1. /\ pc'[s] = pc[s] /\ tag'[s] = tag[s] /\ span'[s] = span[s] /\ todo'[s] = todo[s]
        /\ (c \in acks => c \in acks')
    BY <1>1 DEF InSight, TypeOK, LoadPcs, FlushPcs, SendPcs, LonePcs, Load, Go,
       sendVars
  <2> QED BY <2>1 DEF Sighted, InSight
<1>2. ASSUME NEW d \in Cpus, Announce(d)
      PROVE  Sighted(c, p, v)' \/ PreBump(p, v)'
  <2>1. /\ pc'[s] = pc[s] /\ tag'[s] = tag[s] /\ span'[s] = span[s] /\ todo'[s] = todo[s]
        /\ (c \in acks => c \in acks')
    BY <1>2 DEF InSight, TypeOK, LoadPcs, FlushPcs, SendPcs, LonePcs, Announce,
       Go, sendVars, regs
  <2> QED BY <2>1 DEF Sighted, InSight
<1>3. ASSUME NEW d \in Cpus, ReadGen(d)
      PROVE  Sighted(c, p, v)' \/ PreBump(p, v)'
  <2>1. /\ pc'[s] = pc[s] /\ tag'[s] = tag[s] /\ span'[s] = span[s] /\ todo'[s] = todo[s]
        /\ (c \in acks => c \in acks')
    BY <1>3 DEF InSight, TypeOK, LoadPcs, FlushPcs, SendPcs, LonePcs, ReadGen,
       Go, sendVars
  <2> QED BY <2>1 DEF Sighted, InSight
<1>4. ASSUME NEW d \in Cpus, WriteCr3(d)
      PROVE  Sighted(c, p, v)' \/ PreBump(p, v)'
  <2>1. /\ pc'[s] = pc[s] /\ tag'[s] = tag[s] /\ span'[s] = span[s] /\ todo'[s] = todo[s]
        /\ (c \in acks => c \in acks')
    BY <1>4 DEF InSight, TypeOK, LoadPcs, FlushPcs, SendPcs, LonePcs, WriteCr3,
       Return, Filled, Go, sendVars, regs
  <2> QED BY <2>1 DEF Sighted, InSight
<1>5. ASSUME NEW d \in Cpus, Drop(d)
      PROVE  Sighted(c, p, v)' \/ PreBump(p, v)'
  <2>1. /\ pc'[s] = pc[s] /\ tag'[s] = tag[s] /\ span'[s] = span[s] /\ todo'[s] = todo[s]
        /\ (c \in acks => c \in acks')
    BY <1>5 DEF InSight, TypeOK, LoadPcs, FlushPcs, SendPcs, LonePcs, Drop,
       Return, Go, sendVars
  <2> QED BY <2>1 DEF Sighted, InSight
<1>6. ASSUME NEW d \in Cpus, LoadKernel(d)
      PROVE  Sighted(c, p, v)' \/ PreBump(p, v)'
  <2>1. /\ pc'[s] = pc[s] /\ tag'[s] = tag[s] /\ span'[s] = span[s] /\ todo'[s] = todo[s]
        /\ (c \in acks => c \in acks')
    BY <1>6 DEF InSight, TypeOK, LoadPcs, FlushPcs, SendPcs, LonePcs,
       LoadKernel, Go, sendVars, regs
  <2> QED BY <2>1 DEF Sighted, InSight
<1>7. ASSUME NEW d \in Cpus, Leave(d)
      PROVE  Sighted(c, p, v)' \/ PreBump(p, v)'
  <2>1. /\ pc'[s] = pc[s] /\ tag'[s] = tag[s] /\ span'[s] = span[s] /\ todo'[s] = todo[s]
        /\ (c \in acks => c \in acks')
    BY <1>7 DEF InSight, TypeOK, LoadPcs, FlushPcs, SendPcs, LonePcs, Leave,
       Go, sendVars, regs
  <2> QED BY <2>1 DEF Sighted, InSight
<1>8. ASSUME NEW d \in Cpus, NEW q \in Pcids, NEW V \in SUBSET Pages,
             NEW m \in {"page", "context"}, Shoot(d, q, V, m)
      PROVE  Sighted(c, p, v)' \/ PreBump(p, v)'
  <2>1. /\ pc'[s] = pc[s] /\ tag'[s] = tag[s] /\ span'[s] = span[s] /\ todo'[s] = todo[s]
        /\ (c \in acks => c \in acks')
    BY <1>8 DEF InSight, TypeOK, LoadPcs, FlushPcs, SendPcs, LonePcs, Shoot,
       MayFlush, Outdate, Go, sendVars
  <2> QED BY <2>1 DEF Sighted, InSight
<1>9. ASSUME NEW d \in Cpus, Lock(d)
      PROVE  Sighted(c, p, v)' \/ PreBump(p, v)'
  <2>1. /\ pc'[s] = pc[s] /\ tag'[s] = tag[s] /\ span'[s] = span[s] /\ todo'[s] = todo[s]
        /\ (c \in acks => c \in acks')
    BY <1>9 DEF InSight, TypeOK, LoadPcs, FlushPcs, SendPcs, LonePcs, Lock, Go,
       tlbVars, regs
  <2> QED BY <2>1 DEF Sighted, InSight
<1>10. ASSUME NEW d \in Cpus, Bump(d)
       PROVE  Sighted(c, p, v)' \/ PreBump(p, v)'
  <2>1. /\ pc'[s] = pc[s] /\ tag'[s] = tag[s] /\ span'[s] = span[s] /\ todo'[s] = todo[s]
        /\ (c \in acks => c \in acks')
    BY <1>10 DEF InSight, TypeOK, LoadPcs, FlushPcs, SendPcs, LonePcs, Bump,
       BumpGen, Go, sendVars
  <2> QED BY <2>1 DEF Sighted, InSight
<1>11. ASSUME NEW d \in Cpus, ReadMask(d)
       PROVE  Sighted(c, p, v)' \/ PreBump(p, v)'
  <2>1. CASE d = s
    <3>1. /\ pc'[s] = "scan" /\ tag'[s] = tag[s] /\ span'[s] = span[s]
          /\ todo'[s] = mask[p] \ {s}
      BY <1>11, <2>1 DEF ReadMask, Go, TypeOK
    <3>2. c \in mask[p]
      BY DEF LoadInv
    <3> QED BY <3>1, <3>2 DEF Sighted, InSight
  <2>2. CASE d # s
    <3>1. /\ pc'[s] = pc[s] /\ tag'[s] = tag[s] /\ span'[s] = span[s] /\ todo'[s] = todo[s]
          /\ (c \in acks => c \in acks')
      BY <1>11, <2>2 DEF TypeOK, LoadPcs, FlushPcs, SendPcs, LonePcs, ReadMask,
         Go, tlbVars, sendVars
    <3> QED BY <3>1 DEF Sighted, InSight
  <2> QED BY <2>1, <2>2
<1>12. ASSUME NEW d \in Cpus, NEW i \in Cpus, Scan(d, i)
       PROVE  Sighted(c, p, v)' \/ PreBump(p, v)'
  <2>1. CASE d = s
    <3>1. /\ pc[s] = "scan" /\ UNCHANGED <<pc, tag, span>>
          /\ todo'[s] = todo[s] \ {i} /\ acks \subseteq acks'
          /\ (i = c => c \in acks')
      BY <1>12, <2>1 DEF Scan, TypeOK
    <3> QED BY <3>1 DEF Sighted, InSight
  <2>2. CASE d # s
    <3>1. /\ pc'[s] = pc[s] /\ tag'[s] = tag[s] /\ span'[s] = span[s] /\ todo'[s] = todo[s]
          /\ (c \in acks => c \in acks')
      BY <1>12, <2>2 DEF TypeOK, LoadPcs, FlushPcs, SendPcs, LonePcs, Scan,
         tlbVars
    <3> QED BY <3>1 DEF Sighted, InSight
  <2> QED BY <2>1, <2>2
<1>13. ASSUME NEW d \in Cpus, Send(d)
       PROVE  Sighted(c, p, v)' \/ PreBump(p, v)'
  <2>1. CASE d = s
    <3>1. /\ pc[s] = "scan" /\ pc'[s] = "wait" /\ UNCHANGED <<tag, span, acks>> /\ todo[s] = {}
      BY <1>13, <2>1 DEF Send, Go, TypeOK, regs
    <3> QED BY <3>1 DEF Sighted, InSight
  <2>2. CASE d # s
    <3>1. /\ pc'[s] = pc[s] /\ tag'[s] = tag[s] /\ span'[s] = span[s] /\ todo'[s] = todo[s]
          /\ (c \in acks => c \in acks')
      BY <1>13, <2>2 DEF TypeOK, LoadPcs, FlushPcs, SendPcs, LonePcs, Send, Go,
         tlbVars, regs
    <3> QED BY <3>1 DEF Sighted, InSight
  <2> QED BY <2>1, <2>2
<1>14. ASSUME NEW d \in Cpus, Finish(d)
       PROVE  Sighted(c, p, v)' \/ PreBump(p, v)'
  <2>1. CASE d = s
    <3>1. PICK e \in FlushLocalForMode(s, s) : entry' = [entry EXCEPT ![s] = e]
      BY <1>14, <2>1 DEF Finish
    <3>2. pc[s] = "wait" /\ targets[s] \cap acks = {} /\ holder = s
      BY <1>14, <2>1 DEF Finish, Awaited, HoldInv, SendPcs
    <3>3. acks = {}
      BY <3>2, ShootdownAssumption DEF HoldInv, TypeOK
    <3>4. c = s
      BY <3>2, <3>3 DEF InSight
    <3>5. cr3[s] = tag[s]
      BY <3>2, <3>4 DEF LoadInv
    <3>6. e[p][v] # "old"
      BY <3>1, <3>5, FlushLeaves
    <3>7. entry'[c] = e
      BY <3>1, <3>4 DEF TypeOK
    <3> QED BY <3>6, <3>7 DEF Old
  <2>2. CASE d # s
    <3>1. /\ pc'[s] = pc[s] /\ tag'[s] = tag[s] /\ span'[s] = span[s] /\ todo'[s] = todo[s]
          /\ (c \in acks => c \in acks')
      BY <1>14, <2>2 DEF TypeOK, LoadPcs, FlushPcs, SendPcs, LonePcs, Finish,
         Return, MarkFlushed, Awaited, Go
    <3> QED BY <3>1 DEF Sighted, InSight
  <2> QED BY <2>1, <2>2
<1>15. ASSUME NEW d \in Cpus, Handle(d)
       PROVE  Sighted(c, p, v)' \/ PreBump(p, v)'
  <2>0. UNCHANGED <<pc, tag, span, todo>> /\ acks' = acks \ {d}
    BY <1>15 DEF Handle, regs
  <2>1. CASE d = c /\ pc[s] \in {"scan", "wait"}
    <3>1. PICK r \in Cpus : /\ holder = r
                            /\ \E e \in FlushLocalForMode(c, r) : entry' = [entry EXCEPT ![c] = e]
      BY <1>15, <2>1 DEF Handle
    <3>2. r = s
      BY <2>1, <3>1 DEF HoldInv, SendPcs
    <3>3. PICK e \in FlushLocalForMode(c, s) : entry' = [entry EXCEPT ![c] = e]
      BY <3>1, <3>2
    <3>4. cr3[c] = tag[s]
      BY <1>15, <2>1 DEF Handle, InterruptsOn, LoadInv, LoadPcs
    <3>5. e[p][v] # "old"
      BY <3>3, <3>4, FlushLeaves
    <3>6. entry'[c] = e
      BY <3>3 DEF TypeOK
    <3> QED BY <3>5, <3>6 DEF Old
  <2>2. CASE d # c \/ pc[s] \notin {"scan", "wait"}
    BY <2>0, <2>2 DEF Sighted, InSight
  <2> QED BY <2>1, <2>2
<1>16. ASSUME NEW d \in Cpus, NEW q \in Pcids, NEW w \in Pages, FlushUserPage(d, q,
              w)
       PROVE  Sighted(c, p, v)' \/ PreBump(p, v)'
  <2>1. /\ pc'[s] = pc[s] /\ tag'[s] = tag[s] /\ span'[s] = span[s] /\ todo'[s] = todo[s]
        /\ (c \in acks => c \in acks')
    BY <1>16 DEF InSight, TypeOK, LoadPcs, FlushPcs, SendPcs, LonePcs,
       FlushUserPage, MayFlush, Outdate, Go, sendVars
  <2> QED BY <2>1 DEF Sighted, InSight
<1>17. ASSUME NEW d \in Cpus, LoneBump(d)
       PROVE  Sighted(c, p, v)' \/ PreBump(p, v)'
  <2>1. /\ pc'[s] = pc[s] /\ tag'[s] = tag[s] /\ span'[s] = span[s] /\ todo'[s] = todo[s]
        /\ (c \in acks => c \in acks')
    BY <1>17 DEF InSight, TypeOK, LoadPcs, FlushPcs, SendPcs, LonePcs,
       LoneBump, BumpGen, Go, sendVars
  <2> QED BY <2>1 DEF Sighted, InSight
<1>18. ASSUME NEW d \in Cpus, LoneMask(d)
       PROVE  Sighted(c, p, v)' \/ PreBump(p, v)'
  <2>1. CASE d = s
    <3>1. /\ pc'[s] = "loneScan" /\ tag'[s] = tag[s] /\ span'[s] = span[s]
          /\ todo'[s] = mask[p] \ {s}
      BY <1>18, <2>1 DEF LoneMask, Go, TypeOK
    <3>2. c \in mask[p]
      BY DEF LoadInv
    <3> QED BY <3>1, <3>2 DEF Sighted, InSight
  <2>2. CASE d # s
    <3>1. /\ pc'[s] = pc[s] /\ tag'[s] = tag[s] /\ span'[s] = span[s] /\ todo'[s] = todo[s]
          /\ (c \in acks => c \in acks')
      BY <1>18, <2>2 DEF TypeOK, LoadPcs, FlushPcs, SendPcs, LonePcs, LoneMask,
         Go, tlbVars, sendVars
    <3> QED BY <3>1 DEF Sighted, InSight
  <2> QED BY <2>1, <2>2
<1>19. ASSUME NEW d \in Cpus, NEW i \in Cpus, LoneScan(d, i)
       PROVE  Sighted(c, p, v)' \/ PreBump(p, v)'
  <2>1. CASE d = s
    <3>1. /\ pc[s] = "loneScan" /\ UNCHANGED <<tag, span>>
          /\ \/ pc'[s] = "lock"
             \/ pc'[s] = "loneScan" /\ todo'[s] = todo[s] \ {i} /\ i # c
      BY <1>19, <2>1 DEF LoneScan, Go, TypeOK
    <3> QED BY <3>1 DEF Sighted, InSight, PreBump
  <2>2. CASE d # s
    <3>1. /\ pc'[s] = pc[s] /\ tag'[s] = tag[s] /\ span'[s] = span[s] /\ todo'[s] = todo[s]
          /\ (c \in acks => c \in acks')
      BY <1>19, <2>2 DEF TypeOK, LoadPcs, FlushPcs, SendPcs, LonePcs, LoneScan,
         Go, tlbVars, sendVars
    <3> QED BY <3>1 DEF Sighted, InSight
  <2> QED BY <2>1, <2>2
<1>20. ASSUME NEW d \in Cpus, LoneFinish(d)
       PROVE  Sighted(c, p, v)' \/ PreBump(p, v)'
  <2>1. CASE d = s
    <3>1. /\ pc[s] = "loneScan" /\ todo[s] = {}
          /\ entry' = [entry EXCEPT ![s] = Without(s, cr3[s], span[s])]
      BY <1>20, <2>1 DEF LoneFinish
    <3>2. c = s
      BY <3>1 DEF InSight
    <3>3. cr3[s] = tag[s]
      BY <3>1, <3>2 DEF LoadInv
    <3>4. Without(s, cr3[s], span[s])[p][v] # "old"
      BY <3>3, WithoutLeaves
    <3> QED BY <3>1, <3>2, <3>4 DEF Old, TypeOK
  <2>2. CASE d # s
    <3>1. /\ pc'[s] = pc[s] /\ tag'[s] = tag[s] /\ span'[s] = span[s] /\ todo'[s] = todo[s]
          /\ (c \in acks => c \in acks')
      BY <1>20, <2>2 DEF TypeOK, LoadPcs, FlushPcs, SendPcs, LonePcs,
         LoneFinish, Return, MarkFlushed, Go, sendVars
    <3> QED BY <3>1 DEF Sighted, InSight
  <2> QED BY <2>1, <2>2
<1>21. ASSUME NEW q \in Pcids, Migrate(q)
       PROVE  Sighted(c, p, v)' \/ PreBump(p, v)'
  <2>1. /\ pc'[s] = pc[s] /\ tag'[s] = tag[s] /\ span'[s] = span[s] /\ todo'[s] = todo[s]
        /\ (c \in acks => c \in acks')
    BY <1>21 DEF InSight, TypeOK, LoadPcs, FlushPcs, SendPcs, LonePcs, Migrate,
       sendVars, regs
  <2> QED BY <2>1 DEF Sighted, InSight
<1>22. ASSUME NEW q \in Pcids, Alloc(q)
       PROVE  Sighted(c, p, v)' \/ PreBump(p, v)'
  <2>1. /\ pc'[s] = pc[s] /\ tag'[s] = tag[s] /\ span'[s] = span[s] /\ todo'[s] = todo[s]
        /\ (c \in acks => c \in acks')
    BY <1>22 DEF InSight, TypeOK, LoadPcs, FlushPcs, SendPcs, LonePcs, Alloc,
       sendVars, regs
  <2> QED BY <2>1 DEF Sighted, InSight
<1>23. ASSUME NEW q \in Pcids, Free(q)
       PROVE  Sighted(c, p, v)' \/ PreBump(p, v)'
  <2>1. /\ pc'[s] = pc[s] /\ tag'[s] = tag[s] /\ span'[s] = span[s] /\ todo'[s] = todo[s]
        /\ (c \in acks => c \in acks')
    BY <1>23 DEF InSight, TypeOK, LoadPcs, FlushPcs, SendPcs, LonePcs, Free,
       Outdate, sendVars, regs
  <2> QED BY <2>1 DEF Sighted, InSight
<1>24. CASE UNCHANGED vars
  BY <1>24 DEF Sighted, InSight, vars, tlbVars, sendVars, regs
<1> QED BY <1>1, <1>2, <1>3, <1>4, <1>5, <1>6, <1>7, <1>8, <1>9, <1>10, <1>11,
           <1>12, <1>13, <1>14, <1>15, <1>16, <1>17, <1>18, <1>19, <1>20,
           <1>21, <1>22, <1>23, <1>24 DEF Next, LoadSteps, SendSteps, LoneSteps

\* The same of a page: before its bump a flush protects every processor, and the
\* bump leaves everybody's generation behind and everybody in sight.
LEMMA PreBumpGoesOn ==
  ASSUME Inv, NEW c \in Cpus, NEW p \in Pcids, NEW v \in Pages, PreBump(p, v), [Next]_vars
  PROVE  \/ PreBump(p, v)'
         \/ Sighted(c, p, v)' /\ local'[c][p] # gen'[p]
<1>1. PICK s \in Cpus : pc[s] \in {"lock", "bump", "loneBump"} /\ tag[s] = p /\ v \in span[s]
  BY DEF PreBump
<1>2. CASE pc'[s] \in {"lock", "bump", "loneBump"} /\ tag'[s] = tag[s] /\ span'[s] = span[s]
  BY <1>1, <1>2 DEF PreBump
<1>3. CASE /\ pc'[s] \in {"mask", "loneMask"} /\ tag'[s] = tag[s] /\ span'[s] = span[s]
           /\ gen'[tag[s]] = gen[tag[s]] + 1 /\ local' = local
  <2>1. Sighted(c, p, v)'
    BY <1>1, <1>3 DEF Sighted, InSight
  <2>2. local[c][p] \in Nat /\ gen[p] \in Nat /\ local[c][p] =< gen[p]
    BY DEF Inv, TypeOK, GenInv
  <2> QED BY <1>1, <1>3, <2>1, <2>2
<1> QED BY <1>1, <1>2, <1>3, PreBumpKept DEF Inv

\* A processor whose generation of a tag is behind stays behind, or drops the
\* entries as it catches up, or has dropped this one: markFlushed, the one store
\* that could claim too much, comes after the flush of everything changed before
\* its bump, because flushes of one tag do not overlap in the part they bump in.
LEMMA StaleTagKept ==
  ASSUME Inv, RunSafe, scene \in {"locked", "apart"},
         NEW c \in Cpus, NEW p \in Pcids, NEW v \in Pages, local[c][p] # gen[p], Old(c, p, v), Old(c, p, v)', [Next]_vars
  PROVE  PreBump(p, v)' \/ local'[c][p] # gen'[p] \/ WillDrop(c, p)'
<1> DEFINE Kept == \/ PreBump(p, v)' \/ local'[c][p] # gen'[p] \/ WillDrop(c, p)'
<1>1. ASSUME NEW d \in Cpus, NEW q \in Pcids, Load(d, q)
      PROVE  Kept
  BY <1>1 DEF Load
<1>2. ASSUME NEW d \in Cpus, Announce(d)
      PROVE  Kept
  BY <1>2 DEF Announce
<1>3. ASSUME NEW d \in Cpus, ReadGen(d)
      PROVE  Kept
  <2>1. CASE c = d /\ p = tag[d]
    BY <1>3, <2>1 DEF ReadGen, Go, WillDrop, Inv, TypeOK
  <2>2. CASE ~(c = d /\ p = tag[d])
    <3>1. local'[c][p] = local[c][p] /\ gen' = gen
      BY <1>3, <2>2 DEF ReadGen, Inv, TypeOK
    <3> QED BY <3>1
  <2> QED BY <2>1, <2>2
<1>4. ASSUME NEW d \in Cpus, WriteCr3(d)
      PROVE  Kept
  BY <1>4 DEF WriteCr3, Return, Filled
<1>5. ASSUME NEW d \in Cpus, Drop(d)
      PROVE  Kept
  BY <1>5 DEF Drop, Return
<1>6. ASSUME NEW d \in Cpus, LoadKernel(d)
      PROVE  Kept
  BY <1>6 DEF LoadKernel
<1>7. ASSUME NEW d \in Cpus, Leave(d)
      PROVE  Kept
  BY <1>7 DEF Leave
<1>8. ASSUME NEW d \in Cpus, NEW q \in Pcids, NEW V \in SUBSET Pages,
             NEW m \in {"page", "context"}, Shoot(d, q, V, m)
      PROVE  Kept
  BY <1>8 DEF Shoot, MayFlush, Outdate
<1>9. ASSUME NEW d \in Cpus, Lock(d)
      PROVE  Kept
  BY <1>9 DEF Lock, tlbVars
<1>10. ASSUME NEW d \in Cpus, Bump(d)
       PROVE  Kept
  <2>1. /\ gen \in [Pcids -> 0..MaxGen] /\ tag[d] \in Pcids /\ gen' = [gen EXCEPT ![tag[d]] = gen[tag[d]] + 1]
        /\ local' = local /\ local[c][p] \in Nat /\ local[c][p] =< gen[p]
    BY <1>10 DEF Bump, BumpGen, Inv, TypeOK, GenInv, FlushInv, FlushPcs,
       SendPcs, LonePcs
  <2> QED BY <2>1, ShootdownAssumption
<1>11. ASSUME NEW d \in Cpus, ReadMask(d)
       PROVE  Kept
  BY <1>11 DEF ReadMask, tlbVars
<1>12. ASSUME NEW d \in Cpus, NEW i \in Cpus, Scan(d, i)
       PROVE  Kept
  BY <1>12 DEF Scan, tlbVars
<1>13. ASSUME NEW d \in Cpus, Send(d)
       PROVE  Kept
  BY <1>13 DEF Send, tlbVars
<1>14. ASSUME NEW d \in Cpus, Finish(d)
       PROVE  Kept
  <2>1. CASE c = d /\ p = tag[d] /\ loaded[c] = p
    <3>1. PreBump(p, v) \/ Sighted(c, p, v)
      BY <1>14, <2>1 DEF Finish, RunSafe, WillDrop
    <3>2. CASE PreBump(p, v) /\ scene = "locked"
      <4>1. PICK s \in Cpus : pc[s] \in {"lock", "bump", "loneBump"} /\ tag[s] = p /\ v \in span[s]
        BY <3>2 DEF PreBump
      <4>2. /\ s # d /\ pc'[s] = pc[s] /\ tag'[s] = tag[s] /\ span'[s] = span[s]
        BY <1>14, <4>1 DEF Finish, Return, Go, Inv, TypeOK
      <4> QED BY <4>1, <4>2 DEF PreBump
    <3>3. CASE Sighted(c, p, v) \/ scene = "apart"
      <4>1. PICK s \in Cpus : pc[s] \in FlushPcs /\ tag[s] = p /\ v \in span[s]
                            /\ (InSight(s, c) \/ scene = "apart")
        BY <3>1, <3>3 DEF PreBump, Sighted, InSight, FlushPcs, SendPcs, LonePcs
      <4>2. s = d
        <5>1. CASE scene = "apart"
          BY <1>14, <2>1, <4>1, <5>1 DEF Finish, Inv, SceneInv, FlushPcs,
             SendPcs
        <5>2. CASE scene = "locked"
          <6>1. pc[s] \in SendPcs
            BY <4>1, <5>2 DEF InSight, Inv, SceneInv, SendPcs, LonePcs
          <6> QED BY <1>14, <6>1 DEF Finish, Inv, HoldInv, SendPcs
        <5> QED BY <5>1, <5>2
      <4>3. v \in span[d] /\ cr3[d] = tag[d]
        BY <1>14, <2>1, <4>1, <4>2 DEF Finish, Inv, LoadInv
      <4>4. ~Old(c, p, v)'
        <5>1. PICK e \in FlushLocalForMode(d, d) : entry' = [entry EXCEPT ![d] = e]
          BY <1>14 DEF Finish
        <5>2. e[tag[d]][v] # "old"
          BY <2>1, <4>3, <5>1, FlushLeaves DEF Inv
        <5>3. entry'[d] = e
          BY <5>1 DEF Inv, TypeOK
        <5> QED BY <2>1, <5>2, <5>3 DEF Old
      <4> QED BY <4>4
    <3> QED BY <3>1, <3>2, <3>3
  <2>2. CASE ~(c = d /\ p = tag[d] /\ loaded[c] = p)
    <3>1. local'[c][p] = local[c][p] /\ gen' = gen
      BY <1>14, <2>2 DEF Finish, MarkFlushed, Inv, TypeOK
    <3> QED BY <3>1
  <2> QED BY <2>1, <2>2
<1>15. ASSUME NEW d \in Cpus, Handle(d)
       PROVE  Kept
  BY <1>15 DEF Handle, InterruptsOn
<1>16. ASSUME NEW d \in Cpus, NEW q \in Pcids, NEW w \in Pages, FlushUserPage(d, q,
              w)
       PROVE  Kept
  BY <1>16 DEF FlushUserPage, MayFlush, Outdate
<1>17. ASSUME NEW d \in Cpus, LoneBump(d)
       PROVE  Kept
  <2>1. /\ gen \in [Pcids -> 0..MaxGen] /\ tag[d] \in Pcids /\ gen' = [gen EXCEPT ![tag[d]] = gen[tag[d]] + 1]
        /\ local' = local /\ local[c][p] \in Nat /\ local[c][p] =< gen[p]
    BY <1>17 DEF LoneBump, BumpGen, Inv, TypeOK, GenInv, FlushInv, FlushPcs,
       SendPcs, LonePcs
  <2> QED BY <2>1, ShootdownAssumption
<1>18. ASSUME NEW d \in Cpus, LoneMask(d)
       PROVE  Kept
  BY <1>18 DEF LoneMask, tlbVars
<1>19. ASSUME NEW d \in Cpus, NEW i \in Cpus, LoneScan(d, i)
       PROVE  Kept
  BY <1>19 DEF LoneScan, tlbVars
<1>20. ASSUME NEW d \in Cpus, LoneFinish(d)
       PROVE  Kept
  <2>1. CASE c = d /\ p = tag[d] /\ loaded[c] = p
    <3>1. PreBump(p, v) \/ Sighted(c, p, v)
      BY <1>20, <2>1 DEF LoneFinish, RunSafe, WillDrop
    <3>2. CASE PreBump(p, v) /\ scene = "locked"
      <4>1. PICK s \in Cpus : pc[s] \in {"lock", "bump", "loneBump"} /\ tag[s] = p /\ v \in span[s]
        BY <3>2 DEF PreBump
      <4>2. /\ s # d /\ pc'[s] = pc[s] /\ tag'[s] = tag[s] /\ span'[s] = span[s]
        BY <1>20, <4>1 DEF LoneFinish, Return, Go, Inv, TypeOK
      <4> QED BY <4>1, <4>2 DEF PreBump
    <3>3. CASE Sighted(c, p, v) \/ scene = "apart"
      <4>1. PICK s \in Cpus : pc[s] \in FlushPcs /\ tag[s] = p /\ v \in span[s]
                            /\ (InSight(s, c) \/ scene = "apart")
        BY <3>1, <3>3 DEF PreBump, Sighted, InSight, FlushPcs, SendPcs, LonePcs
      <4>2. s = d
        BY <1>20, <2>1, <4>1 DEF LoneFinish, Inv, SceneInv, FlushPcs, SendPcs,
           LonePcs
      <4>3. v \in span[d] /\ cr3[d] = tag[d]
        BY <1>20, <2>1, <4>1, <4>2 DEF LoneFinish, Inv, LoadInv
      <4>4. ~Old(c, p, v)'
        <5>1. Without(d, cr3[d], span[d])[p][v] # "old"
          BY <2>1, <4>3, WithoutLeaves DEF Inv
        <5>2. entry'[d] = Without(d, cr3[d], span[d])
          BY <1>20 DEF LoneFinish, Inv, TypeOK
        <5> QED BY <2>1, <5>1, <5>2 DEF Old
      <4> QED BY <4>4
    <3> QED BY <3>1, <3>2, <3>3
  <2>2. CASE ~(c = d /\ p = tag[d] /\ loaded[c] = p)
    <3>1. local'[c][p] = local[c][p] /\ gen' = gen
      BY <1>20, <2>2 DEF LoneFinish, MarkFlushed, Inv, TypeOK
    <3> QED BY <3>1
  <2> QED BY <2>1, <2>2
<1>21. ASSUME NEW q \in Pcids, Migrate(q)
       PROVE  Kept
  <2>1. /\ gen \in [Pcids -> 0..MaxGen] /\ gen' = [gen EXCEPT ![q] = gen[q] + 1]
        /\ local' = local /\ local[c][p] \in Nat /\ local[c][p] =< gen[p]
    BY <1>21 DEF Migrate, Inv, TypeOK, GenInv
  <2> QED BY <2>1, ShootdownAssumption
<1>22. ASSUME NEW q \in Pcids, Alloc(q)
       PROVE  Kept
  <2>1. /\ gen \in [Pcids -> 0..MaxGen] /\ gen' = [gen EXCEPT ![q] = gen[q] + 1]
        /\ local' = local /\ local[c][p] \in Nat /\ local[c][p] =< gen[p]
    BY <1>22 DEF Alloc, Inv, TypeOK, GenInv
  <2> QED BY <2>1, ShootdownAssumption
<1>23. ASSUME NEW q \in Pcids, Free(q)
       PROVE  Kept
  <2>1. /\ gen \in [Pcids -> 0..MaxGen] /\ gen' = [gen EXCEPT ![q] = gen[q] + 1]
        /\ local' = local /\ local[c][p] \in Nat /\ local[c][p] =< gen[p]
    BY <1>23 DEF Free, Inv, TypeOK, GenInv
  <2> QED BY <2>1, ShootdownAssumption
<1>24. CASE UNCHANGED vars
  BY <1>24 DEF WillDrop, vars, tlbVars, sendVars, regs
<1> QED BY <1>1, <1>2, <1>3, <1>4, <1>5, <1>6, <1>7, <1>8, <1>9, <1>10, <1>11,
           <1>12, <1>13, <1>14, <1>15, <1>16, <1>17, <1>18, <1>19, <1>20,
           <1>21, <1>22, <1>23, <1>24 DEF Next, LoadSteps, SendSteps, LoneSteps

\* loadCr3 announces the tag it will run, and nobody else stores `loaded`.
LEMMA LoadedStep ==
  ASSUME TypeOK, NEW c \in Cpus, NEW p \in Pcids, loaded'[c] = p, [Next]_vars
  PROVE  \/ loaded[c] = p
          \/ /\ pc[c] = "announce" /\ pc'[c] = "readGen" /\ tag[c] = p /\ tag' = tag
             /\ UNCHANGED <<local, gen>> /\ \A s \in Cpus \ {c} : pc'[s] = pc[s] /\ span'[s] = span[s]
<1> DEFINE Kept == \/ loaded[c] = p
                   \/ /\ pc[c] = "announce" /\ pc'[c] = "readGen" /\ tag[c] = p /\ tag' = tag
                      /\ UNCHANGED <<local, gen>> /\ \A s \in Cpus \ {c} : pc'[s] = pc[s] /\ span'[s] = span[s]
<1>1. ASSUME NEW d \in Cpus, NEW q \in Pcids, Load(d, q)
      PROVE  Kept
  BY <1>1 DEF Load
<1>2. ASSUME NEW d \in Cpus, Announce(d)
      PROVE  Kept
  BY <1>2 DEF Announce, Go, TypeOK, regs
<1>3. ASSUME NEW d \in Cpus, ReadGen(d)
      PROVE  Kept
  BY <1>3 DEF ReadGen
<1>4. ASSUME NEW d \in Cpus, WriteCr3(d)
      PROVE  Kept
  BY <1>4 DEF WriteCr3, Return, Filled
<1>5. ASSUME NEW d \in Cpus, Drop(d)
      PROVE  Kept
  BY <1>5 DEF Drop, Return
<1>6. ASSUME NEW d \in Cpus, LoadKernel(d)
      PROVE  Kept
  BY <1>6 DEF LoadKernel
<1>7. ASSUME NEW d \in Cpus, Leave(d)
      PROVE  Kept
  BY <1>7, ShootdownAssumption DEF Leave, TypeOK
<1>8. ASSUME NEW d \in Cpus, NEW q \in Pcids, NEW V \in SUBSET Pages,
             NEW m \in {"page", "context"}, Shoot(d, q, V, m)
      PROVE  Kept
  BY <1>8 DEF Shoot, MayFlush, Outdate
<1>9. ASSUME NEW d \in Cpus, Lock(d)
      PROVE  Kept
  BY <1>9 DEF Lock, tlbVars
<1>10. ASSUME NEW d \in Cpus, Bump(d)
       PROVE  Kept
  BY <1>10 DEF Bump, BumpGen
<1>11. ASSUME NEW d \in Cpus, ReadMask(d)
       PROVE  Kept
  BY <1>11 DEF ReadMask, tlbVars
<1>12. ASSUME NEW d \in Cpus, NEW i \in Cpus, Scan(d, i)
       PROVE  Kept
  BY <1>12 DEF Scan, tlbVars
<1>13. ASSUME NEW d \in Cpus, Send(d)
       PROVE  Kept
  BY <1>13 DEF Send, tlbVars
<1>14. ASSUME NEW d \in Cpus, Finish(d)
       PROVE  Kept
  BY <1>14 DEF Finish, Return, MarkFlushed, Awaited
<1>15. ASSUME NEW d \in Cpus, Handle(d)
       PROVE  Kept
  BY <1>15 DEF Handle, InterruptsOn
<1>16. ASSUME NEW d \in Cpus, NEW q \in Pcids, NEW w \in Pages, FlushUserPage(d, q,
              w)
       PROVE  Kept
  BY <1>16 DEF FlushUserPage, MayFlush, Outdate
<1>17. ASSUME NEW d \in Cpus, LoneBump(d)
       PROVE  Kept
  BY <1>17 DEF LoneBump, BumpGen
<1>18. ASSUME NEW d \in Cpus, LoneMask(d)
       PROVE  Kept
  BY <1>18 DEF LoneMask, tlbVars
<1>19. ASSUME NEW d \in Cpus, NEW i \in Cpus, LoneScan(d, i)
       PROVE  Kept
  BY <1>19 DEF LoneScan, tlbVars
<1>20. ASSUME NEW d \in Cpus, LoneFinish(d)
       PROVE  Kept
  BY <1>20 DEF LoneFinish, Return, MarkFlushed
<1>21. ASSUME NEW q \in Pcids, Migrate(q)
       PROVE  Kept
  BY <1>21 DEF Migrate
<1>22. ASSUME NEW q \in Pcids, Alloc(q)
       PROVE  Kept
  BY <1>22 DEF Alloc
<1>23. ASSUME NEW q \in Pcids, Free(q)
       PROVE  Kept
  BY <1>23 DEF Free, Outdate
<1>24. CASE UNCHANGED vars
  BY <1>24 DEF TypeOK, vars, tlbVars, sendVars, regs
<1> QED BY <1>1, <1>2, <1>3, <1>4, <1>5, <1>6, <1>7, <1>8, <1>9, <1>10, <1>11,
           <1>12, <1>13, <1>14, <1>15, <1>16, <1>17, <1>18, <1>19, <1>20,
           <1>21, <1>22, <1>23, <1>24 DEF Next, LoadSteps, SendSteps, LoneSteps

\* A behaviour stays in its scene.
LEMMA SceneKept ==
  ASSUME [Next]_vars
  PROVE  scene' = scene
<1>1. ASSUME NEW d \in Cpus, NEW q \in Pcids, Load(d, q)
      PROVE  scene' = scene
  BY <1>1 DEF Load
<1>2. ASSUME NEW d \in Cpus, Announce(d)
      PROVE  scene' = scene
  BY <1>2 DEF Announce
<1>3. ASSUME NEW d \in Cpus, ReadGen(d)
      PROVE  scene' = scene
  BY <1>3 DEF ReadGen
<1>4. ASSUME NEW d \in Cpus, WriteCr3(d)
      PROVE  scene' = scene
  BY <1>4 DEF WriteCr3
<1>5. ASSUME NEW d \in Cpus, Drop(d)
      PROVE  scene' = scene
  BY <1>5 DEF Drop
<1>6. ASSUME NEW d \in Cpus, LoadKernel(d)
      PROVE  scene' = scene
  BY <1>6 DEF LoadKernel
<1>7. ASSUME NEW d \in Cpus, Leave(d)
      PROVE  scene' = scene
  BY <1>7 DEF Leave
<1>8. ASSUME NEW d \in Cpus, NEW q \in Pcids, NEW V \in SUBSET Pages,
             NEW m \in {"page", "context"}, Shoot(d, q, V, m)
      PROVE  scene' = scene
  BY <1>8 DEF Shoot
<1>9. ASSUME NEW d \in Cpus, Lock(d)
      PROVE  scene' = scene
  BY <1>9 DEF Lock
<1>10. ASSUME NEW d \in Cpus, Bump(d)
       PROVE  scene' = scene
  BY <1>10 DEF Bump
<1>11. ASSUME NEW d \in Cpus, ReadMask(d)
       PROVE  scene' = scene
  BY <1>11 DEF ReadMask
<1>12. ASSUME NEW d \in Cpus, NEW i \in Cpus, Scan(d, i)
       PROVE  scene' = scene
  BY <1>12 DEF Scan
<1>13. ASSUME NEW d \in Cpus, Send(d)
       PROVE  scene' = scene
  BY <1>13 DEF Send
<1>14. ASSUME NEW d \in Cpus, Finish(d)
       PROVE  scene' = scene
  BY <1>14 DEF Finish
<1>15. ASSUME NEW d \in Cpus, Handle(d)
       PROVE  scene' = scene
  BY <1>15 DEF Handle
<1>16. ASSUME NEW d \in Cpus, NEW q \in Pcids, NEW w \in Pages, FlushUserPage(d, q,
              w)
       PROVE  scene' = scene
  BY <1>16 DEF FlushUserPage
<1>17. ASSUME NEW d \in Cpus, LoneBump(d)
       PROVE  scene' = scene
  BY <1>17 DEF LoneBump
<1>18. ASSUME NEW d \in Cpus, LoneMask(d)
       PROVE  scene' = scene
  BY <1>18 DEF LoneMask
<1>19. ASSUME NEW d \in Cpus, NEW i \in Cpus, LoneScan(d, i)
       PROVE  scene' = scene
  BY <1>19 DEF LoneScan
<1>20. ASSUME NEW d \in Cpus, LoneFinish(d)
       PROVE  scene' = scene
  BY <1>20 DEF LoneFinish
<1>21. ASSUME NEW q \in Pcids, Migrate(q)
       PROVE  scene' = scene
  BY <1>21 DEF Migrate
<1>22. ASSUME NEW q \in Pcids, Alloc(q)
       PROVE  scene' = scene
  BY <1>22 DEF Alloc
<1>23. ASSUME NEW q \in Pcids, Free(q)
       PROVE  scene' = scene
  BY <1>23 DEF Free
<1>24. CASE UNCHANGED vars
  BY <1>24 DEF vars, tlbVars, sendVars, regs
<1> QED BY <1>1, <1>2, <1>3, <1>4, <1>5, <1>6, <1>7, <1>8, <1>9, <1>10, <1>11,
           <1>12, <1>13, <1>14, <1>15, <1>16, <1>17, <1>18, <1>19, <1>20,
           <1>21, <1>22, <1>23, <1>24 DEF Next, LoadSteps, SendSteps, LoneSteps

-----------------------------------------------------------------------------
\* No step lets a stale entry out of the reach of the three things that end it:
\* a flush yet to bump, one that has it in sight, a CR3 write that drops the tag.
LEMMA SafeStep ==
  ASSUME Inv, Safe, [Next]_vars
  PROVE  Safe'
<1> SUFFICES ASSUME scene' # "threads"
             PROVE  ReloadSafe' /\ RunSafe'
  BY DEF Safe
<1>1. scene \in {"locked", "apart"}
  BY SceneKept, ShootdownAssumption DEF Inv, TypeOK, SceneNames
<1>2. ReloadSafe /\ RunSafe
  BY <1>1 DEF Safe
<1>3. ReloadSafe'
  <2> SUFFICES ASSUME NEW c \in Cpus, NEW p \in Pcids, NEW v \in Pages, Old(c, p, v)'
               PROVE  PreBump(p, v)' \/ local'[c][p] # gen'[p] \/ WillDrop(c, p)'
    BY DEF ReloadSafe
  <2>1. CASE ~Old(c, p, v)
    BY <2>1, OldStep
  <2>2. CASE Old(c, p, v)
    <3>1. CASE PreBump(p, v)
      BY <3>1, PreBumpGoesOn
    <3>2. CASE local[c][p] # gen[p]
      BY <1>1, <1>2, <2>2, <3>2, StaleTagKept
    <3>3. CASE WillDrop(c, p)
      BY <3>3, DropKept DEF Inv
    <3> QED BY <1>2, <2>2, <3>1, <3>2, <3>3 DEF ReloadSafe
  <2> QED BY <2>1, <2>2
<1>4. RunSafe'
  <2> SUFFICES ASSUME NEW c \in Cpus, NEW p \in Pcids, NEW v \in Pages, Old(c, p, v)',
                      loaded'[c] = p
               PROVE  PreBump(p, v)' \/ Sighted(c, p, v)' \/ WillDrop(c, p)'
    BY DEF RunSafe
  <2>1. CASE ~Old(c, p, v)
    BY <2>1, OldStep
  <2>2. CASE Old(c, p, v) /\ PreBump(p, v)
    BY <2>2, PreBumpGoesOn
  <2>3. CASE Old(c, p, v) /\ WillDrop(c, p)
    BY <2>3, DropKept DEF Inv
  <2>4. CASE Old(c, p, v) /\ loaded[c] = p /\ Sighted(c, p, v)
    <3>1. PICK s \in Cpus : tag[s] = p /\ v \in span[s] /\ InSight(s, c)
      BY <2>4 DEF Sighted
    <3> QED BY <2>4, <3>1, SightKept DEF Inv
  <2>5. CASE Old(c, p, v) /\ loaded[c] # p /\ local[c][p] # gen[p]
    BY <2>5, LoadedStep DEF Inv, WillDrop
  <2> QED BY <1>2, <2>1, <2>2, <2>3, <2>4, <2>5 DEF ReloadSafe, RunSafe
<1> QED BY <1>3, <1>4

\* Nothing is cached, loaded or under way at first.
LEMMA InitInv == Init => Inv /\ Safe
<1> SUFFICES ASSUME Init PROVE Inv /\ Safe
  OBVIOUS
<1>1. TypeOK
  BY ShootdownAssumption DEF Init, TypeOK
<1>2. LoadInv /\ FlushInv /\ GenInv /\ SceneInv
  BY ShootdownAssumption DEF Init, LoadInv, FlushInv, GenInv, SceneInv, Bumped,
     LoadPcs, FlushPcs, SendPcs, LonePcs
<1>3. HoldInv
  BY ShootdownAssumption DEF Init, HoldInv, SendPcs
<1>4. Safe
  BY DEF Init, Safe, ReloadSafe, RunSafe, Old
<1> QED BY <1>1, <1>2, <1>3, <1>4 DEF Inv

\* The invariant is inductive.
LEMMA InvStep ==
  ASSUME Inv, Safe, [Next]_vars
  PROVE  Inv' /\ Safe'
BY TypeStep, LoadStep, HoldStep, FlushStep, GenStep, SceneStep, SafeStep
   DEF Inv

\* The invariant of the shootdown and of loadCr3.
THEOREM Invariant == Spec => [](Inv /\ Safe)
BY InitInv, InvStep, PTL DEF Spec

\* Types: among them that a generation never passes the bound that the
\* guards of the actions keep, and that the owner of the lock is a processor.
THEOREM TypeCorrect == Spec => []TypeOK
<1>1. Inv /\ Safe => TypeOK
  BY DEF Inv
<1> QED BY <1>1, Invariant, PTL

\* Whenever shootdown_lock is free no acknowledgement is due, and no interrupt is
\* pending without one: no sender hangs on, or takes for its own, an answer to
\* another.
THEOREM AlwaysPaired == Spec => []AcksPaired
<1>1. Inv /\ Safe => AcksPaired
  BY ShootdownAssumption DEF Inv, HoldInv, AcksPaired, TypeOK
<1> QED BY <1>1, Invariant, PTL

\* A processor in user tables is in its tag's mask and says that it has it
\* loaded, from before it can cache a translation to after it last can: no sender
\* of a shootdown passes over it.
THEOREM AlwaysCounted == Spec => []Counted
<1>1. Inv /\ Safe => Counted
  BY ShootdownAssumption DEF Inv, TypeOK, LoadInv, Counted
<1> QED BY <1>1, Invariant, PTL

\* Whoever a sender waits for has been interrupted and has interrupts on, or is
\* in loadCr3 and will.
THEOREM NoDeafTarget == Spec => []AwaitedCanAnswer
<1>1. Inv /\ Safe => AwaitedCanAnswer
  BY ShootdownAssumption DEF Inv, HoldInv, AwaitedCanAnswer, TypeOK, Awaited,
     InterruptsOn,
     SendPcs
<1> QED BY <1>1, Invariant, PTL

\* As long as the flushes of one address space do not overlap, or are all done by
\* doShootdown: once one has returned, no processor that runs the address space
\* uses a translation that it was to flush, nor one that an earlier owner of the
\* tag left behind, whatever was interrupted, skipped as not running it, reloaded
\* or migrated in between.
THEOREM StaleNeverUsed == Spec => [](scene # "threads" => StaleUnusable)
<1>1. Inv /\ Safe /\ scene # "threads" => StaleUnusable
  <2> SUFFICES ASSUME Inv, RunSafe, NEW c \in Cpus, NEW p \in Pcids, NEW v \in Pages,
                      cr3[c] = p, pc[c] \notin LoadPcs, Old(c, p, v)
               PROVE  Owed(p, v)
    BY DEF Safe, StaleUnusable, Old
  <2>1. loaded[c] = p /\ ~WillDrop(c, p)
    BY DEF Inv, LoadInv, LoadPcs, WillDrop
  <2>2. PreBump(p, v) \/ Sighted(c, p, v)
    BY <2>1 DEF RunSafe
  <2> QED BY <2>2 DEF PreBump, Sighted, InSight, Owed, FlushPcs, SendPcs,
             LonePcs
<1> QED BY <1>1, Invariant, PTL
=============================================================================
