-------------------------- MODULE LifecycleProofs --------------------------
(***************************************************************************)
(* What module Lifecycle promises, for every number of slots, of processes *)
(* created and of kills from outside, and whether or not others may act    *)
(* between waitpid's scan and its wait: as long as a killer is not         *)
(* overtaken between its victim's .zombie and the end of the teardown, a   *)
(* lead does not overtake a worker that marked itself first, and no killer *)
(* is evicted in its pass (Unbroken).  If none acts in that gap, a parent  *)
(* that waits hears of every child it could reap.                          *)
(*                                                                         *)
(* One lemma for each action says that it keeps the whole invariant: first *)
(* what it finds, then what it changes, then one step for each part.       *)
(***************************************************************************)
EXTENDS MCLifecycle, FiniteSetTheorems, TLAPS

\* The windows that the module's switches open stay closed.
Unbroken == ~MidKill /\ ~SlowWorker /\ ~KillersQuit

-----------------------------------------------------------------------------
(* The inductive invariant. *)

\* A slot whose task leads its group.
IsLead(l) == l \in Slots /\ state[l] \in {"live", "zombie"} /\ tgid[l] = l

\* A teardown until its victim is out of the table, and that of the member
\* which has found nobody else left.
Owing   == {"mark", "free", "retire"}
Last(a) == at[a] \in {"free", "retire"} /\ last[a]

\* Whoever is in the middle of something is on its CPU; whoever is on a CPU is
\* live or has retired itself; a live task that is marked is tearing itself
\* down; a new one is neither on a CPU nor marked.
Busy ==
  \A p \in Slots :
    /\ at[p] # "idle" => p \in onCpu
    /\ p \in onCpu => \/ state[p] = "live"
                      \/ at[p] \in {"notify", "unpin", "end"} /\ vic[p] = p
    /\ at[p] \in {"notify", "unpin", "end"} /\ vic[p] = p =>
         state[p] \in {"unused", "zombie"}
    /\ p \in torn /\ state[p] = "live" =>
         at[p] \in {"free", "retire"} /\ vic[p] = p
    /\ state[p] = "loading" => p \notin onCpu /\ p \notin torn

\* A new thread belongs to its creator until it is published, and has joined
\* its group by then.
Cloning ==
  \A a \in Actors : at[a] \in CloneSteps =>
    /\ a \in Slots /\ vic[a] \in Slots
    /\ state[vic[a]] = "loading"
    /\ tgid[vic[a]] = (IF at[a] = "join" THEN Nobody ELSE tgid[a])
    /\ at[a] # "join" => pageDir[vic[a]] = pageDir[tgid[a]]

\* A victim is claimed, and doomed only off its CPU.
Killing ==
  \A a \in Actors :
    /\ at[a] \in KillSteps \ {"next"} => vic[a] \in Slots \ {a}
    /\ at[a] \in {"wait", "doom"} => vic[a] \in exiting
    /\ at[a] = "doom" => state[vic[a]] = "live" /\ vic[a] \notin onCpu

\* A killer's victim stays a zombie until the teardown has retired it; what is
\* torn down is marked, and the teardown knows its group.
Tearing ==
  \A a \in Actors :
    /\ at[a] \in TearSteps => vic[a] \in Slots
    /\ at[a] \in TearSteps \ {"mark"} => tg[a] \in Slots
    /\ at[a] \in Owing /\ vic[a] # a =>
         state[vic[a]] = "zombie" /\ vic[a] \in exiting
    /\ at[a] = "mark" /\ vic[a] = a => a \notin torn
    /\ at[a] \in {"free", "retire"} =>
         vic[a] \in torn /\ tg[a] = tgid[vic[a]]

\* "At most one killer ever runs the teardown for a given pid": nor do two
\* have it in hand, and a new thread has one creator.
Owns(a, p) == vic[a] = p /\ p # a /\ at[a] \in {"wait", "doom"} \cup Owing
OneOwner ==
  \A a, b \in Actors, p \in Slots : Owns(a, p) /\ Owns(b, p) => a = b
OneCloner ==
  \A a, b \in Actors :
    at[a] \in CloneSteps /\ at[b] \in CloneSteps /\ vic[a] = vic[b] => a = b

\* A live task has its lead, and so has what is about to be marked or was
\* marked last.
Led ==
  \A p \in Slots : /\ state[p] = "live" => IsLead(tgid[p])
                   /\ state[p] = "zombie" => tgid[p] \in Slots
TornLed ==
  \A a \in Actors : at[a] = "mark" \/ Last(a) => IsLead(tgid[vic[a]])

\* The last to be marked is: no other member is unmarked, or about to be
\* marked, or the last one too.
LastAlone ==
  \A a \in Actors : Last(a) =>
    /\ \A k \in Slots \ torn : state[k] = "live" => tgid[k] # tg[a]
    /\ \A b \in Actors : at[b] = "mark" => tgid[vic[b]] # tg[a]
    /\ \A b \in Actors \ {a} : Last(b) => tg[b] # tg[a]

\* Each lead has an address space of its own, or has lost it.
OwnSpace ==
  /\ spaces \subseteq 1..born
  /\ \A p \in Slots : pageDir[p] \in 0..born
  /\ \A p, q \in Slots :
       /\ state[p] # "unused" /\ tgid[p] = p
       /\ state[q] # "unused" /\ tgid[q] = q
       /\ pageDir[p] = pageDir[q]
       => p = q \/ pageDir[p] = 0
  /\ \A p \in Slots : state[p] = "loading" /\ tgid[p] = p => pageDir[p] \in spaces

\* Whoever is asked to exit off its CPU has a killer that waits for it.
Attended ==
  \A p \in exiting \ torn :
    state[p] \in {"loading", "live"} /\ p \notin onCpu =>
      \E a \in Actors : vic[a] = p /\ at[a] \in {"wait", "doom"}

\* Who will free the address space that l leads: l itself is not released yet,
\* a member is unmarked, or one is about to be marked, or to free it.
Heir(l) ==
  \/ state[l] = "loading"
  \/ \E k \in Slots \ torn : state[k] = "live" /\ tgid[k] = l
  \/ \E a \in Actors : /\ at[a] = "mark" \/ (at[a] = "free" /\ last[a])
                       /\ tgid[vic[a]] = l
Housed ==
  \A s \in spaces : \E l \in Slots :
    /\ state[l] # "unused" /\ tgid[l] = l /\ pageDir[l] = s
    /\ Heir(l)

\* Whom a pass over group g has to deal with: its members, but for a thread
\* whose creator has yet to look at group_exiting.
Due(p, g) ==
  /\ tgid[p] = g
  /\ \/ state[p] = "live"
     \/ state[p] = "loading" /\ \A q \in Actors : at[q] = "check" => vic[q] # p

\* The pass of a has p before it.
Ahead(a, g, p) ==
  /\ grp[a] = g
  /\ \/ at[a] = "next" /\ (idx[a] <= p \/ p = a)
     \/ /\ at[a] \in (KillSteps \ {"next"}) \cup TearSteps /\ vic[a] # a
        /\ idx[a] <= p \/ p = a
     \/ at[a] = "claim" /\ vic[a] = p
     \/ at[a] = "mark" /\ vic[a] = a /\ p = a
Passed ==
  \A g \in groupExit, p \in Slots : Due(p, g) =>
    p \in exiting \cup torn \/ \E a \in Actors : Ahead(a, g, p)

LifeInv ==
  /\ TypeOK /\ Busy /\ Cloning /\ Killing /\ Tearing
  /\ OneOwner /\ OneCloner /\ Led /\ TornLed /\ LastAlone
  /\ OwnSpace /\ GroupKeepsSpace /\ Attended /\ Housed /\ Passed

-----------------------------------------------------------------------------
(* What the invariant says of a slot and of an actor. *)

\* The constants are apart.
LEMMA Outside == Nobody \notin Slots /\ Ext \notin Slots
BY DistinctAssumption

\* Sets of slots, and slots among the actors.
LEMMA Inside ==
  ASSUME LifeInv
  PROVE  /\ exiting \subseteq Slots /\ torn \subseteq Slots
         /\ groupExit \subseteq Slots /\ onCpu \subseteq Slots
         /\ Slots \subseteq Actors /\ born \in Nat
BY NAssumption DEF LifeInv, TypeOK, Actors

\* A thread that creates another is live, unmarked and led.
LEMMA Cloner ==
  ASSUME LifeInv, NEW a \in Actors, at[a] \in CloneSteps
  PROVE  /\ a \in Slots /\ a \in onCpu /\ a \notin torn /\ state[a] = "live"
         /\ IsLead(tgid[a]) /\ tgid[a] \in Slots /\ tgid[a] # vic[a]
         /\ vic[a] \in Slots /\ vic[a] # a /\ state[vic[a]] = "loading"
         /\ tgid[vic[a]] = (IF at[a] = "join" THEN Nobody ELSE tgid[a])
<1>1. a \in Slots /\ vic[a] \in Slots /\ state[vic[a]] = "loading"
  BY DEF LifeInv, Cloning
<1>2. a \in onCpu /\ state[a] = "live" /\ a \notin torn
  BY <1>1 DEF LifeInv, Busy, CloneSteps
<1>3. tgid[vic[a]] = (IF at[a] = "join" THEN Nobody ELSE tgid[a])
  BY DEF LifeInv, Cloning
<1> QED BY <1>1, <1>2, <1>3 DEF LifeInv, Led, IsLead

\* Who tears itself down is live and on its CPU until it retires itself.
LEMMA Tearer ==
  ASSUME LifeInv, NEW a \in Actors, at[a] \in Owing
  PROVE  /\ vic[a] \in Slots /\ tgid[vic[a]] \in Slots
         /\ vic[a] = a => a \in onCpu /\ state[a] = "live"
         /\ vic[a] # a => state[vic[a]] = "zombie" /\ vic[a] \in exiting
<1>1. vic[a] \in Slots
  BY DEF LifeInv, Tearing, Owing, TearSteps
<1>2. vic[a] = a => a \in onCpu /\ state[a] = "live"
  BY <1>1 DEF LifeInv, Busy, Owing
<1>3. vic[a] # a => state[vic[a]] = "zombie" /\ vic[a] \in exiting
  BY DEF LifeInv, Tearing
<1> QED BY <1>1, <1>2, <1>3 DEF LifeInv, Led, IsLead

\* A slot that holds no published task leads nobody and is nobody's to tear
\* down.
LEMMA Aside ==
  ASSUME LifeInv, NEW p \in Slots, state[p] \in {"unused", "loading"}
  PROVE  /\ \A k \in Slots : state[k] = "live" => tgid[k] # p
         /\ \A a \in Actors : at[a] \in Owing => vic[a] # p
         /\ \A a \in Actors : at[a] = "doom" => vic[a] # p
         /\ \A a \in Actors : at[a] = "mark" \/ Last(a) => tgid[vic[a]] # p
         /\ \A a \in Actors : Last(a) => tg[a] # p
         /\ \A a \in Actors : at[a] \in CloneSteps => tgid[a] # p /\ a # p
         /\ p \in onCpu => at[p] \in {"notify", "unpin", "end"} /\ vic[p] = p
         /\ state[p] = "loading" => p \notin onCpu /\ p \notin torn
<1>1. \A k \in Slots : state[k] = "live" => tgid[k] # p
  BY DEF LifeInv, Led, IsLead
<1>2. \A a \in Actors : at[a] \in Owing => vic[a] # p
  BY Tearer
<1>3. \A a \in Actors : at[a] = "doom" => vic[a] # p
  BY DEF LifeInv, Killing
<1>4. \A a \in Actors : at[a] = "mark" \/ Last(a) => tgid[vic[a]] # p
  BY DEF LifeInv, TornLed, IsLead
<1>5. \A a \in Actors : Last(a) => tg[a] # p
  BY <1>4 DEF LifeInv, Tearing, Last
<1>6. \A a \in Actors : at[a] \in CloneSteps => tgid[a] # p /\ a # p
  BY Cloner DEF IsLead
<1>7. /\ p \in onCpu => at[p] \in {"notify", "unpin", "end"} /\ vic[p] = p
      /\ state[p] = "loading" => p \notin onCpu /\ p \notin torn
  BY DEF LifeInv, Busy
<1> QED BY <1>1, <1>2, <1>3, <1>4, <1>5, <1>6, <1>7

\* Address spaces stay housed if each keeps its lead and an heir, and a new one
\* has them.
LEMMA HousedKept ==
  ASSUME LifeInv,
         \A s \in spaces' \ spaces : \E l \in Slots :
           /\ state'[l] # "unused" /\ tgid'[l] = l /\ pageDir'[l] = s
           /\ Heir(l)',
         \A l \in Slots :
           state[l] # "unused" /\ tgid[l] = l /\ pageDir[l] \in spaces' /\ Heir(l) =>
             /\ state'[l] # "unused" /\ tgid'[l] = l /\ pageDir'[l] = pageDir[l]
             /\ Heir(l)'
  PROVE  Housed'
<1> SUFFICES ASSUME NEW s \in spaces'
             PROVE  \E l \in Slots :
                      /\ state'[l] # "unused" /\ tgid'[l] = l /\ pageDir'[l] = s
                      /\ Heir(l)'
  BY DEF Housed
<1>1. CASE s \notin spaces
  BY <1>1
<1>2. CASE s \in spaces
  <2>1. PICK l \in Slots :
          /\ state[l] # "unused" /\ tgid[l] = l /\ pageDir[l] = s
          /\ Heir(l)
    BY <1>2 DEF LifeInv, Housed
  <2> QED BY <2>1
<1> QED BY <1>1, <1>2

\* Heirs are heirs still if members and teardowns that claim them are the same.
LEMMA HeirsKept ==
  ASSUME LifeInv, spaces' \subseteq spaces,
         \A l \in Slots : state[l] # "unused" /\ tgid[l] = l /\ Heir(l) =>
           /\ state'[l] # "unused" /\ tgid'[l] = l /\ pageDir'[l] = pageDir[l]
           /\ state[l] = "loading" => Heir(l)',
         \A k \in Slots \ torn : state[k] = "live" =>
           k \notin torn' /\ state'[k] = "live" /\ tgid'[k] = tgid[k],
         \A a \in Actors : at[a] = "mark" \/ (at[a] = "free" /\ last[a]) =>
           /\ at'[a] = "mark" \/ (at'[a] = "free" /\ last'[a])
           /\ tgid'[vic'[a]] = tgid[vic[a]]
  PROVE  Housed'
<1>1. ASSUME NEW l \in Slots, state[l] # "unused", tgid[l] = l, Heir(l)
      PROVE  Heir(l)'
  <2>1. CASE state[l] = "loading"
    BY <1>1, <2>1
  <2>2. CASE \E k \in Slots \ torn : state[k] = "live" /\ tgid[k] = l
    <3>1. \E k \in Slots \ torn' : state'[k] = "live" /\ tgid'[k] = l
      BY <2>2
    <3> QED BY <3>1 DEF Heir
  <2>3. ASSUME NEW a \in Actors, at[a] = "mark" \/ (at[a] = "free" /\ last[a]),
               tgid[vic[a]] = l
        PROVE  Heir(l)'
    <3>1. /\ at'[a] = "mark" \/ (at'[a] = "free" /\ last'[a])
          /\ tgid'[vic'[a]] = l
      BY <2>3
    <3> QED BY <3>1 DEF Heir
  <2> QED BY <1>1, <2>1, <2>2, <2>3 DEF Heir
<1> QED BY <1>1, HousedKept

\* And they do while no task and no teardown's claim changes.
LEMMA HousedSame ==
  ASSUME LifeInv, UNCHANGED <<state, tgid, pageDir, spaces, torn>>,
         \A a \in Actors : at[a] = "mark" \/ (at[a] = "free" /\ last[a]) =>
           at'[a] = at[a] /\ vic'[a] = vic[a] /\ last'[a] = last[a]
  PROVE  Housed'
<1>1. ASSUME NEW l \in Slots, Heir(l)
      PROVE  Heir(l)'
  <2>1. CASE state[l] = "loading"
    BY <2>1 DEF Heir
  <2>2. CASE \E k \in Slots \ torn : state[k] = "live" /\ tgid[k] = l
    BY <2>2 DEF Heir
  <2>3. CASE \E a \in Actors : /\ at[a] = "mark" \/ (at[a] = "free" /\ last[a])
                               /\ tgid[vic[a]] = l
    <3>1. PICK a \in Actors : /\ at[a] = "mark" \/ (at[a] = "free" /\ last[a])
                              /\ tgid[vic[a]] = l
      BY <2>3
    <3>2. /\ at'[a] = "mark" \/ (at'[a] = "free" /\ last'[a])
          /\ tgid'[vic'[a]] = l
      BY <3>1
    <3> QED BY <3>2 DEF Heir
  <2> QED BY <1>1, <2>1, <2>2, <2>3 DEF Heir
<1> QED BY <1>1, HousedKept

\* New threads stay with their creators while neither changes.
LEMMA CloningKept ==
  ASSUME LifeInv,
         \A a \in Actors : at'[a] \in CloneSteps =>
           /\ at'[a] = at[a] /\ vic'[a] = vic[a] /\ state'[vic[a]] = "loading"
           /\ tgid'[a] = tgid[a] /\ tgid'[vic[a]] = tgid[vic[a]]
           /\ pageDir'[vic[a]] = pageDir[vic[a]] /\ pageDir'[tgid[a]] = pageDir[tgid[a]]
  PROVE  Cloning'
<1> SUFFICES ASSUME NEW a \in Actors, at'[a] \in CloneSteps
             PROVE  /\ a \in Slots /\ vic'[a] \in Slots
                    /\ state'[vic'[a]] = "loading"
                    /\ tgid'[vic'[a]] =
                         (IF at'[a] = "join" THEN Nobody ELSE tgid'[a])
                    /\ at'[a] # "join" => pageDir'[vic'[a]] = pageDir'[tgid'[a]]
  BY DEF Cloning, CloneSteps
<1>1. /\ at'[a] = at[a] /\ vic'[a] = vic[a] /\ state'[vic[a]] = "loading"
      /\ tgid'[a] = tgid[a] /\ tgid'[vic[a]] = tgid[vic[a]]
      /\ pageDir'[vic[a]] = pageDir[vic[a]] /\ pageDir'[tgid[a]] = pageDir[tgid[a]]
  OBVIOUS
<1>2. /\ a \in Slots /\ vic[a] \in Slots
      /\ tgid[vic[a]] = (IF at[a] = "join" THEN Nobody ELSE tgid[a])
  BY <1>1, Cloner
<1>3. at[a] # "join" => pageDir[vic[a]] = pageDir[tgid[a]]
  BY <1>1 DEF LifeInv, Cloning
<1> QED BY <1>1, <1>2, <1>3

\* Members keep their address space while neither they nor their leads change.
LEMMA SpaceKept ==
  ASSUME LifeInv,
         \A k \in Slots \ torn' : state'[k] = "live" =>
           /\ k \notin torn /\ state[k] = "live"
           /\ tgid'[k] = tgid[k] /\ pageDir'[k] = pageDir[k]
           /\ pageDir'[tgid[k]] = pageDir[tgid[k]]
           /\ pageDir[k] \in spaces => pageDir[k] \in spaces'
  PROVE  GroupKeepsSpace'
BY DEF LifeInv, GroupKeepsSpace

\* Passes lose nobody if those due were due, and those before a pass are still
\* before one or dealt with.
LEMMA PassedKept ==
  ASSUME LifeInv,
         \A g \in groupExit', p \in Slots :
           Due(p, g)' /\ p \notin exiting' \cup torn' =>
             /\ g \in groupExit /\ Due(p, g) /\ p \notin exiting \cup torn
             /\ \A a \in Actors : Ahead(a, g, p) =>
                                    \E b \in Actors : Ahead(b, g, p)'
  PROVE  Passed'
<1> SUFFICES ASSUME NEW g \in groupExit', NEW p \in Slots, Due(p, g)',
                    p \notin exiting' \cup torn'
             PROVE  \E b \in Actors : Ahead(b, g, p)'
  BY DEF Passed
<1>1. PICK a \in Actors : Ahead(a, g, p)
  BY DEF LifeInv, Passed
<1> QED BY <1>1

\* So they do if one actor moves and what was before it is still.
LEMMA PassKept ==
  ASSUME LifeInv, NEW a \in Actors,
         \A b \in Actors \ {a} : /\ at'[b] = at[b] /\ vic'[b] = vic[b]
                                 /\ idx'[b] = idx[b] /\ grp'[b] = grp[b],
         \A g \in groupExit', p \in Slots :
           Due(p, g)' /\ p \notin exiting' \cup torn' =>
             /\ g \in groupExit /\ Due(p, g) /\ p \notin exiting \cup torn
             /\ Ahead(a, g, p) => Ahead(a, g, p)'
  PROVE  Passed'
<1>1. ASSUME NEW g \in Slots, NEW p \in Slots, NEW b \in Actors \ {a},
             Ahead(b, g, p)
      PROVE  Ahead(b, g, p)'
  BY <1>1 DEF Ahead
<1> QED BY <1>1, Inside, PassedKept

-----------------------------------------------------------------------------
(* What each action keeps. *)

\* A new process: its slot was out of use, and its address space is new.
LEMMA ExecKeeps ==
  ASSUME Unbroken, LifeInv, NEW p \in Slots, NEW by \in {Shell, Nobody},
         Exec(p, by)
  PROVE  LifeInv'
<1>1. /\ state[p] = "unused" /\ p \notin onCpu
      /\ born + 1 \in 1..MaxBorn /\ born \in Nat
      /\ \A a \in Actors : at[a] \in KillSteps => vic[a] # p \/ at[a] = "next"
  BY Outside, NAssumption DEF LifeInv, Exec, Alloc, StackFree, TypeOK
<1>2. /\ \A k \in Slots : state[k] = "live" => tgid[k] # p
      /\ \A a \in Actors : at[a] \in Owing => vic[a] # p
      /\ \A a \in Actors : at[a] = "doom" => vic[a] # p
      /\ \A a \in Actors : at[a] = "mark" \/ Last(a) => tgid[vic[a]] # p
      /\ \A a \in Actors : Last(a) => tg[a] # p
      /\ \A a \in Actors : at[a] \in CloneSteps => tgid[a] # p /\ a # p
      /\ state[p] = "loading" => p \notin onCpu /\ p \notin torn
  BY <1>1, Aside
<1>3. /\ \A q \in Slots : state'[q] = IF q = p THEN "loading" ELSE state[q]
      /\ \A q \in Slots : tgid'[q] = IF q = p THEN p ELSE tgid[q]
      /\ \A q \in Slots : pageDir'[q] = IF q = p THEN born + 1 ELSE pageDir[q]
      /\ exiting' = exiting \ {p}
      /\ torn' = torn \ {p}
      /\ groupExit' = groupExit \ {p}
      /\ spaces' = spaces \cup {born + 1}
      /\ born' = born + 1
      /\ UNCHANGED <<onCpu, at, vic, tg, last, idx, grp>>
  BY <1>1, <1>2, Outside DEF LifeInv, TypeOK, Exec, Alloc, StackFree, actVars
<1>4. TypeOK'
  <2>1. /\ state' \in [Slots -> {"unused", "loading", "live", "zombie"}]
        /\ onCpu' \subseteq {q \in Slots : state'[q] # "loading"}
    BY <1>1, <1>2, <1>3, NAssumption, Outside DEF LifeInv, TypeOK, Actors,
       Exec, Alloc, StackFree, actVars, counts, KillSteps, TearSteps,
       CloneSteps
  <2>2. /\ tgid' \in [Slots -> Slots \cup {Nobody}]
        /\ parent' \in [Slots -> {Shell, Desktop, Nobody}]
        /\ pageDir' \in [Slots -> 0..MaxBorn]
    BY <1>1, <1>2, <1>3, NAssumption, Outside DEF LifeInv, TypeOK, Actors,
       Exec, Alloc, StackFree, actVars, counts, KillSteps, TearSteps,
       CloneSteps
  <2>3. /\ exiting' \subseteq Slots /\ torn' \subseteq Slots
        /\ groupExit' \subseteq Slots /\ stamped' \subseteq Slots
    BY <1>1, <1>2, <1>3, NAssumption, Outside DEF LifeInv, TypeOK, Actors,
       Exec, Alloc, StackFree, actVars, counts, KillSteps, TearSteps,
       CloneSteps
  <2>4. /\ spaces' \subseteq 1..MaxBorn /\ born' \in 0..MaxBorn
        /\ kills' \in 0..MaxKills
    BY <1>1, <1>2, <1>3, NAssumption, Outside DEF LifeInv, TypeOK, Actors,
       Exec, Alloc, StackFree, actVars, counts, KillSteps, TearSteps,
       CloneSteps
  <2> QED BY <1>1, <1>2, <1>3, <2>1, <2>2, <2>3, <2>4 DEF LifeInv, TypeOK,
          Exec, Alloc, StackFree, counts, pcbVars, actVars
<1>5. Busy'
  BY <1>1, <1>2, <1>3, Inside, Outside DEF LifeInv, Busy, Actors
<1>6. Cloning'
  BY <1>1, <1>2, <1>3, Cloner, Outside DEF LifeInv, Cloning, CloneSteps, Actors
<1>7. Killing'
  BY <1>1, <1>2, <1>3, Outside DEF LifeInv, Killing, KillSteps, Actors
<1>8. Tearing'
  BY <1>1, <1>2, <1>3 DEF LifeInv, Tearing, TearSteps, Owing, Actors
<1>9. OneOwner'
  BY <1>1, <1>2, <1>3 DEF LifeInv, OneOwner, Owns, Owing, Actors
<1>10. OneCloner'
  BY <1>1, <1>2, <1>3, Cloner DEF LifeInv, OneCloner, CloneSteps, Actors
<1>11. Led'
  BY <1>1, <1>2, <1>3 DEF LifeInv, Led, IsLead, Actors
<1>12. TornLed'
  BY <1>1, <1>2, <1>3, Tearer DEF LifeInv, TornLed, IsLead, Last, Actors, Owing
<1>13. LastAlone'
  BY <1>1, <1>2, <1>3, Tearer DEF LifeInv, LastAlone, Last, Actors, Owing,
     Tearing
<1>14. OwnSpace'
  BY <1>1, <1>2, <1>3, Outside, Inside DEF LifeInv, OwnSpace, Actors
<1>15. GroupKeepsSpace'
  BY <1>1, <1>2, <1>3, Inside DEF LifeInv, GroupKeepsSpace, Actors, Led, IsLead
<1>16. Attended'
  BY <1>1, <1>2, <1>3, Inside DEF LifeInv, Attended, Actors
<1>17. Housed'
  <2>1. ASSUME NEW l \in Slots, state[l] # "unused", tgid[l] = l, Heir(l)
        PROVE  /\ state'[l] # "unused" /\ tgid'[l] = l /\ pageDir'[l] = pageDir[l]
               /\ Heir(l)'
    <3>1. state'[l] # "unused" /\ tgid'[l] = l /\ pageDir'[l] = pageDir[l]
      BY <1>1, <1>2, <1>3, <2>1, Outside
    <3>2. CASE state[l] = "loading"
      BY <1>1, <1>2, <1>3, <2>1, <3>1, <3>2 DEF Heir
    <3>3. CASE \E k \in Slots \ torn : state[k] = "live" /\ tgid[k] = l
      <4>1. \E k \in Slots \ torn' : state'[k] = "live" /\ tgid'[k] = l
        BY <1>1, <1>2, <1>3, <3>3
      <4> QED BY <3>1, <4>1 DEF Heir
    <3>4. CASE \E e \in Actors :
                 /\ at[e] = "mark" \/ (at[e] = "free" /\ last[e])
                 /\ tgid[vic[e]] = l
      <4>1. PICK e \in Actors :
              /\ at[e] = "mark" \/ (at[e] = "free" /\ last[e])
              /\ tgid[vic[e]] = l
        BY <3>4
      <4>2. /\ at'[e] = "mark" \/ (at'[e] = "free" /\ last'[e])
            /\ tgid'[vic'[e]] = l
        BY <1>1, <1>2, <1>3, Tearer, <4>1 DEF Owing, Actors
      <4> QED BY <3>1, <4>2 DEF Heir
    <3> QED BY <2>1, <3>1, <3>2, <3>3, <3>4 DEF Heir
  <2>2. /\ state'[p] # "unused" /\ tgid'[p] = p /\ pageDir'[p] = born + 1
        /\ Heir(p)'
    BY <1>1, <1>2, <1>3 DEF Heir
  <2> QED BY <1>1, <1>2, <1>3, <2>1, <2>2, HousedKept
<1>18. Passed'
  BY <1>1, <1>2, <1>3, Inside DEF LifeInv, Passed, Due, Ahead, KillSteps,
     TearSteps, Actors
<1> QED BY <1>4, <1>5, <1>6, <1>7, <1>8, <1>9, <1>10, <1>11, <1>12, <1>13,
           <1>14, <1>15, <1>16, <1>17, <1>18 DEF LifeInv

\* The held child is released.
LEMMA ReleaseKeeps ==
  ASSUME Unbroken, LifeInv, NEW p \in Slots, Release(p)
  PROVE  LifeInv'
<1>1. state[p] = "loading" /\ tgid[p] = p
  BY Outside, NAssumption DEF LifeInv, Release
<1>2. /\ \A k \in Slots : state[k] = "live" => tgid[k] # p
      /\ \A a \in Actors : at[a] \in Owing => vic[a] # p
      /\ \A a \in Actors : at[a] = "doom" => vic[a] # p
      /\ \A a \in Actors : at[a] = "mark" \/ Last(a) => tgid[vic[a]] # p
      /\ \A a \in Actors : Last(a) => tg[a] # p
      /\ \A a \in Actors : at[a] \in CloneSteps => tgid[a] # p /\ a # p
      /\ state[p] = "loading" => p \notin onCpu /\ p \notin torn
  BY <1>1, Aside
<1>3. /\ \A q \in Slots : state'[q] = IF q = p THEN "live" ELSE state[q]
      /\ UNCHANGED <<onCpu, tgid, pageDir, exiting, torn, groupExit, spaces,
             born, at, vic, tg, last, idx, grp>>
  BY <1>1, <1>2, Outside DEF LifeInv, TypeOK, Release, SetState, Terminal,
     counts, actVars
<1>4. TypeOK'
  BY <1>1, <1>2, <1>3, NAssumption, Outside DEF LifeInv, TypeOK, Actors,
     Release, SetState, Terminal, counts, actVars
<1>5. Busy'
  BY <1>1, <1>2, <1>3, Inside, Outside DEF LifeInv, Busy, Actors
<1>6. Cloning'
  BY <1>1, <1>2, <1>3, Cloner, Outside DEF LifeInv, Cloning, CloneSteps, Actors
<1>7. Killing'
  BY <1>1, <1>2, <1>3, Outside DEF LifeInv, Killing, KillSteps, Actors
<1>8. Tearing'
  BY <1>1, <1>2, <1>3 DEF LifeInv, Tearing, TearSteps, Owing, Actors
<1>9. OneOwner'
  BY <1>1, <1>2, <1>3 DEF LifeInv, OneOwner, Owns, Owing, Actors
<1>10. OneCloner'
  BY <1>1, <1>2, <1>3, Cloner DEF LifeInv, OneCloner, CloneSteps, Actors
<1>11. Led'
  BY <1>1, <1>2, <1>3 DEF LifeInv, Led, IsLead, Actors
<1>12. TornLed'
  BY <1>1, <1>2, <1>3, Tearer DEF LifeInv, TornLed, IsLead, Last, Actors, Owing
<1>13. LastAlone'
  BY <1>1, <1>2, <1>3, Tearer DEF LifeInv, LastAlone, Last, Actors, Owing,
     Tearing
<1>14. OwnSpace'
  BY <1>1, <1>2, <1>3, Outside, Inside DEF LifeInv, OwnSpace, Actors
<1>15. GroupKeepsSpace'
  BY <1>1, <1>2, <1>3, Inside DEF LifeInv, GroupKeepsSpace, Actors, Led,
     IsLead, OwnSpace
<1>16. Attended'
  BY <1>1, <1>2, <1>3, Inside DEF LifeInv, Attended, Actors
<1>17. Housed'
  <2>1. \A l \in Slots : state[l] # "unused" /\ tgid[l] = l /\ Heir(l) =>
          /\ state'[l] # "unused" /\ tgid'[l] = l /\ pageDir'[l] = pageDir[l]
          /\ state[l] = "loading" => Heir(l)'
    BY <1>1, <1>2, <1>3, Outside DEF Heir
  <2>2. \A k \in Slots \ torn : state[k] = "live" =>
          k \notin torn' /\ state'[k] = "live" /\ tgid'[k] = tgid[k]
    BY <1>1, <1>2, <1>3
  <2>3. \A e \in Actors : at[e] = "mark" \/ (at[e] = "free" /\ last[e]) =>
          /\ at'[e] = "mark" \/ (at'[e] = "free" /\ last'[e])
          /\ tgid'[vic'[e]] = tgid[vic[e]]
    BY <1>1, <1>2, <1>3, Tearer DEF Owing
  <2> QED BY <1>1, <1>2, <1>3, <2>1, <2>2, <2>3, HeirsKept
<1>18. Passed'
  <2>1. ASSUME NEW g \in groupExit', NEW q \in Slots, Due(q, g)',
               q \notin exiting' \cup torn'
        PROVE  g \in groupExit /\ Due(q, g) /\ q \notin exiting \cup torn
    BY <1>1, <1>2, <1>3, Cloner, Outside, <2>1 DEF Due, CloneSteps
  <2>2. ASSUME NEW g \in Slots, NEW q \in Slots, Due(q, g)',
               q \notin exiting' \cup torn', NEW a \in Actors, Ahead(a, g, q)
        PROVE  Ahead(a, g, q)'
    BY <1>1, <1>2, <1>3, Cloner, Outside, <2>2 DEF Ahead, KillSteps, TearSteps,
       Actors, CloneSteps
  <2> QED BY <2>1, <2>2, PassedKept, Inside
<1> QED BY <1>4, <1>5, <1>6, <1>7, <1>8, <1>9, <1>10, <1>11, <1>12, <1>13,
           <1>14, <1>15, <1>16, <1>17, <1>18 DEF LifeInv

\* A live task gets a CPU.
LEMMA DispatchKeeps ==
  ASSUME Unbroken, LifeInv, NEW p \in Slots, Dispatch(p)
  PROVE  LifeInv'
<1>1. state[p] = "live" /\ p \notin onCpu /\ p \notin exiting
  BY Outside, NAssumption DEF LifeInv, Dispatch
<1>2. /\ onCpu' = onCpu \cup {p}
      /\ UNCHANGED <<state, tgid, pageDir, exiting, torn, groupExit, spaces,
             born, at, vic, tg, last, idx, grp>>
  BY <1>1, Outside DEF LifeInv, TypeOK, Dispatch, counts, actVars
<1>3. TypeOK'
  BY <1>1, <1>2, NAssumption, Outside DEF LifeInv, TypeOK, Actors, Dispatch,
     counts, actVars
<1>4. Busy'
  BY <1>1, <1>2, Inside, Outside DEF LifeInv, Busy, Actors
<1>5. Cloning'
  BY <1>1, <1>2, Cloner, Outside DEF LifeInv, Cloning, CloneSteps, Actors
<1>6. Killing'
  BY <1>1, <1>2, Outside DEF LifeInv, Killing, KillSteps, Actors
<1>7. Tearing'
  BY <1>1, <1>2 DEF LifeInv, Tearing, TearSteps, Owing, Actors
<1>8. OneOwner'
  BY <1>1, <1>2 DEF LifeInv, OneOwner, Owns, Owing, Actors
<1>9. OneCloner'
  BY <1>1, <1>2, Cloner DEF LifeInv, OneCloner, CloneSteps, Actors
<1>10. Led'
  BY <1>1, <1>2 DEF LifeInv, Led, IsLead, Actors
<1>11. TornLed'
  BY <1>1, <1>2, Tearer DEF LifeInv, TornLed, IsLead, Last, Actors, Owing
<1>12. LastAlone'
  BY <1>1, <1>2, Tearer DEF LifeInv, LastAlone, Last, Actors, Owing, Tearing
<1>13. OwnSpace'
  BY <1>1, <1>2, Outside, Inside DEF LifeInv, OwnSpace, Actors
<1>14. GroupKeepsSpace'
  BY <1>1, <1>2, Inside DEF LifeInv, GroupKeepsSpace, Actors, Led, IsLead
<1>15. Attended'
  BY <1>1, <1>2, Inside DEF LifeInv, Attended, Actors
<1>16. Housed'
  BY <1>1, <1>2, HousedSame DEF LifeInv, TypeOK, Actors
<1>17. Passed'
  BY <1>1, <1>2, Inside DEF LifeInv, Passed, Due, Ahead, KillSteps, TearSteps,
     Actors
<1> QED BY <1>3, <1>4, <1>5, <1>6, <1>7, <1>8, <1>9, <1>10, <1>11, <1>12,
           <1>13, <1>14, <1>15, <1>16, <1>17 DEF LifeInv

\* A task that need not die gives up its CPU.
LEMMA YieldKeeps ==
  ASSUME Unbroken, LifeInv, NEW p \in Slots, Yield(p)
  PROVE  LifeInv'
<1>1. at[p] = "idle" /\ p \notin exiting
  BY Outside, NAssumption DEF LifeInv, Yield, Running, MustDie
<1>2. /\ onCpu' = onCpu \ {p}
      /\ UNCHANGED <<state, tgid, pageDir, exiting, torn, groupExit, spaces,
             born, at, vic, tg, last, idx, grp>>
  BY <1>1, Outside DEF LifeInv, TypeOK, Yield, Running, MustDie, counts,
     actVars
<1>3. TypeOK'
  BY <1>1, <1>2, NAssumption, Outside DEF LifeInv, TypeOK, Actors, Yield,
     Running, MustDie, counts, actVars
<1>4. Busy'
  BY <1>1, <1>2, Inside, Outside DEF LifeInv, Busy, Actors
<1>5. Cloning'
  BY <1>1, <1>2, Cloner, Outside DEF LifeInv, Cloning, CloneSteps, Actors
<1>6. Killing'
  BY <1>1, <1>2, Outside DEF LifeInv, Killing, KillSteps, Actors
<1>7. Tearing'
  BY <1>1, <1>2 DEF LifeInv, Tearing, TearSteps, Owing, Actors
<1>8. OneOwner'
  BY <1>1, <1>2 DEF LifeInv, OneOwner, Owns, Owing, Actors
<1>9. OneCloner'
  BY <1>1, <1>2, Cloner DEF LifeInv, OneCloner, CloneSteps, Actors
<1>10. Led'
  BY <1>1, <1>2 DEF LifeInv, Led, IsLead, Actors
<1>11. TornLed'
  BY <1>1, <1>2, Tearer DEF LifeInv, TornLed, IsLead, Last, Actors, Owing
<1>12. LastAlone'
  BY <1>1, <1>2, Tearer DEF LifeInv, LastAlone, Last, Actors, Owing, Tearing
<1>13. OwnSpace'
  BY <1>1, <1>2, Outside, Inside DEF LifeInv, OwnSpace, Actors
<1>14. GroupKeepsSpace'
  BY <1>1, <1>2, Inside DEF LifeInv, GroupKeepsSpace, Actors, Led, IsLead
<1>15. Attended'
  BY <1>1, <1>2, Inside DEF LifeInv, Attended, Actors
<1>16. Housed'
  BY <1>1, <1>2, HousedSame DEF LifeInv, TypeOK, Actors
<1>17. Passed'
  BY <1>1, <1>2, Inside DEF LifeInv, Passed, Due, Ahead, KillSteps, TearSteps,
     Actors
<1> QED BY <1>3, <1>4, <1>5, <1>6, <1>7, <1>8, <1>9, <1>10, <1>11, <1>12,
           <1>13, <1>14, <1>15, <1>16, <1>17 DEF LifeInv

\* A slot for a new thread.
LEMMA CloneKeeps ==
  ASSUME Unbroken, LifeInv, NEW p \in Slots, NEW c \in Slots, Clone(p, c)
  PROVE  LifeInv'
<1>1. /\ state[c] = "unused" /\ c \notin onCpu /\ c # p
      /\ at[p] = "idle" /\ p \in onCpu /\ p \in Actors
      /\ \A a \in Actors : at[a] \in KillSteps => vic[a] # c \/ at[a] = "next"
  BY Outside, NAssumption DEF LifeInv, Clone, Running, Alloc, StackFree, Actors
<1>2. /\ \A k \in Slots : state[k] = "live" => tgid[k] # c
      /\ \A a \in Actors : at[a] \in Owing => vic[a] # c
      /\ \A a \in Actors : at[a] = "doom" => vic[a] # c
      /\ \A a \in Actors : at[a] = "mark" \/ Last(a) => tgid[vic[a]] # c
      /\ \A a \in Actors : Last(a) => tg[a] # c
      /\ \A a \in Actors : at[a] \in CloneSteps => tgid[a] # c /\ a # c
      /\ state[c] = "loading" => c \notin onCpu /\ c \notin torn
  BY <1>1, Aside
<1>3. /\ \A q \in Slots : state'[q] = IF q = c THEN "loading" ELSE state[q]
      /\ \A q \in Slots : tgid'[q] = IF q = c THEN Nobody ELSE tgid[q]
      /\ \A q \in Slots : pageDir'[q] = IF q = c THEN 0 ELSE pageDir[q]
      /\ exiting' = exiting \ {c}
      /\ torn' = torn \ {c}
      /\ groupExit' = groupExit \ {c}
      /\ \A b \in Actors : at'[b] = IF b = p THEN "join" ELSE at[b]
      /\ \A b \in Actors : vic'[b] = IF b = p THEN c ELSE vic[b]
      /\ UNCHANGED <<onCpu, spaces, born, tg, last, idx, grp>>
  BY <1>1, <1>2, Outside DEF LifeInv, TypeOK, Clone, Running, Alloc, StackFree,
     counts, Go, Actors
<1>4. TypeOK'
  <2>1. /\ state' \in [Slots -> {"unused", "loading", "live", "zombie"}]
        /\ onCpu' \subseteq {q \in Slots : state'[q] # "loading"}
    BY <1>1, <1>2, <1>3, NAssumption, Outside DEF LifeInv, TypeOK, Actors,
       Clone, Running, Alloc, StackFree, counts, Go, KillSteps, TearSteps,
       CloneSteps
  <2>2. /\ tgid' \in [Slots -> Slots \cup {Nobody}]
        /\ parent' \in [Slots -> {Shell, Desktop, Nobody}]
        /\ pageDir' \in [Slots -> 0..MaxBorn]
    BY <1>1, <1>2, <1>3, NAssumption, Outside DEF LifeInv, TypeOK, Actors,
       Clone, Running, Alloc, StackFree, counts, Go, KillSteps, TearSteps,
       CloneSteps
  <2>3. /\ exiting' \subseteq Slots /\ torn' \subseteq Slots
        /\ groupExit' \subseteq Slots /\ stamped' \subseteq Slots
    BY <1>1, <1>2, <1>3, NAssumption, Outside DEF LifeInv, TypeOK, Actors,
       Clone, Running, Alloc, StackFree, counts, Go, KillSteps, TearSteps,
       CloneSteps
  <2>4. at' \in [Actors -> {"idle"} \cup KillSteps \cup TearSteps
                             \cup CloneSteps]
    BY <1>1, <1>2, <1>3, NAssumption, Outside DEF LifeInv, TypeOK, Actors,
       Clone, Running, Alloc, StackFree, counts, Go, KillSteps, TearSteps,
       CloneSteps
  <2>5. /\ vic' \in [Actors -> Slots \cup {Nobody}]
        /\ tg' \in [Actors -> Slots \cup {Nobody}]
        /\ last' \in [Actors -> BOOLEAN]
    BY <1>1, <1>2, <1>3, NAssumption, Outside DEF LifeInv, TypeOK, Actors,
       Clone, Running, Alloc, StackFree, counts, Go, KillSteps, TearSteps,
       CloneSteps
  <2> QED BY <1>1, <1>2, <1>3, <2>1, <2>2, <2>3, <2>4, <2>5 DEF LifeInv,
          TypeOK, Clone, Running, Alloc, StackFree, counts, pcbVars, actVars
<1>5. Busy'
  BY <1>1, <1>2, <1>3, Inside, Outside DEF LifeInv, Busy, Actors
<1>6. Cloning'
  BY <1>1, <1>2, <1>3, Cloner, Outside DEF LifeInv, Cloning, CloneSteps, Actors
<1>7. Killing'
  BY <1>1, <1>2, <1>3, Outside DEF LifeInv, Killing, KillSteps, Actors
<1>8. Tearing'
  BY <1>1, <1>2, <1>3 DEF LifeInv, Tearing, TearSteps, Owing, Actors
<1>9. OneOwner'
  BY <1>1, <1>2, <1>3 DEF LifeInv, OneOwner, Owns, Owing, Actors
<1>10. OneCloner'
  BY <1>1, <1>2, <1>3, Cloner DEF LifeInv, OneCloner, CloneSteps, Actors
<1>11. Led'
  BY <1>1, <1>2, <1>3 DEF LifeInv, Led, IsLead, Actors
<1>12. TornLed'
  BY <1>1, <1>2, <1>3, Tearer DEF LifeInv, TornLed, IsLead, Last, Actors, Owing
<1>13. LastAlone'
  BY <1>1, <1>2, <1>3, Tearer DEF LifeInv, LastAlone, Last, Actors, Owing,
     Tearing
<1>14. OwnSpace'
  BY <1>1, <1>2, <1>3, Outside, Inside DEF LifeInv, OwnSpace, Actors
<1>15. GroupKeepsSpace'
  BY <1>1, <1>2, <1>3, Inside DEF LifeInv, GroupKeepsSpace, Actors, Led, IsLead
<1>16. Attended'
  BY <1>1, <1>2, <1>3, Inside DEF LifeInv, Attended, Actors
<1>17. Housed'
  <2>1. \A l \in Slots : state[l] # "unused" /\ tgid[l] = l /\ Heir(l) =>
          /\ state'[l] # "unused" /\ tgid'[l] = l /\ pageDir'[l] = pageDir[l]
          /\ state[l] = "loading" => Heir(l)'
    BY <1>1, <1>2, <1>3, Outside DEF Heir
  <2>2. \A k \in Slots \ torn : state[k] = "live" =>
          k \notin torn' /\ state'[k] = "live" /\ tgid'[k] = tgid[k]
    BY <1>1, <1>2, <1>3
  <2>3. \A e \in Actors : at[e] = "mark" \/ (at[e] = "free" /\ last[e]) =>
          /\ at'[e] = "mark" \/ (at'[e] = "free" /\ last'[e])
          /\ tgid'[vic'[e]] = tgid[vic[e]]
    BY <1>1, <1>2, <1>3, Tearer DEF Owing
  <2> QED BY <1>1, <1>2, <1>3, <2>1, <2>2, <2>3, HeirsKept
<1>18. Passed'
  <2>1. ASSUME NEW g \in groupExit', NEW q \in Slots, Due(q, g)',
               q \notin exiting' \cup torn'
        PROVE  g \in groupExit /\ Due(q, g) /\ q \notin exiting \cup torn
    BY <1>1, <1>2, <1>3, Inside, Outside, <2>1 DEF Due, LifeInv
  <2>2. ASSUME NEW g \in Slots, NEW q \in Slots, Due(q, g)',
               q \notin exiting' \cup torn', NEW a \in Actors, Ahead(a, g, q)
        PROVE  Ahead(a, g, q)'
    BY <1>1, <1>2, <1>3, Inside, Outside, <2>2 DEF Ahead, KillSteps, TearSteps,
       Actors, LifeInv
  <2> QED BY <2>1, <2>2, PassedKept, Inside
<1> QED BY <1>4, <1>5, <1>6, <1>7, <1>8, <1>9, <1>10, <1>11, <1>12, <1>13,
           <1>14, <1>15, <1>16, <1>17, <1>18 DEF LifeInv

\* The new thread joins its creator's group.
LEMMA JoinKeeps ==
  ASSUME Unbroken, LifeInv, NEW p \in Slots, JoinGroup(p)
  PROVE  LifeInv'
<1>1. /\ at[p] = "join"
      /\ p \in Actors /\ vic[p] \in Slots /\ vic[p] # p
      /\ state[vic[p]] = "loading" /\ tgid[vic[p]] = Nobody
      /\ state[p] = "live" /\ p \in onCpu /\ p \notin torn
      /\ IsLead(tgid[p]) /\ tgid[p] # vic[p]
  BY Outside, NAssumption DEF LifeInv, JoinGroup, Actors, CloneSteps, Cloning,
     Busy, Led, IsLead
<1>2. /\ \A k \in Slots : state[k] = "live" => tgid[k] # vic[p]
      /\ \A a \in Actors : at[a] \in Owing => vic[a] # vic[p]
      /\ \A a \in Actors : at[a] = "doom" => vic[a] # vic[p]
      /\ \A a \in Actors : at[a] = "mark" \/ Last(a) => tgid[vic[a]] # vic[p]
      /\ \A a \in Actors : Last(a) => tg[a] # vic[p]
      /\ \A a \in Actors : at[a] \in CloneSteps => tgid[a] # vic[p] /\ a # vic[p]
      /\ state[vic[p]] = "loading" => vic[p] \notin onCpu /\ vic[p] \notin torn
  BY <1>1, Aside
<1>3. /\ \A q \in Slots : tgid'[q] = IF q = vic[p] THEN tgid[p] ELSE tgid[q]
      /\ \A q \in Slots : pageDir'[q] = IF q = vic[p] THEN pageDir[tgid[p]] ELSE
             pageDir[q]
      /\ \A b \in Actors : at'[b] = IF b = p THEN "check" ELSE at[b]
      /\ UNCHANGED <<state, onCpu, exiting, torn, groupExit, spaces, born, vic,
             tg, last, idx, grp>>
  BY <1>1, <1>2, Outside DEF LifeInv, TypeOK, JoinGroup, counts, Go
<1>4. TypeOK'
  <2>1. /\ tgid' \in [Slots -> Slots \cup {Nobody}]
        /\ parent' \in [Slots -> {Shell, Desktop, Nobody}]
        /\ pageDir' \in [Slots -> 0..MaxBorn]
    BY <1>1, <1>2, <1>3, NAssumption, Outside DEF LifeInv, TypeOK, Actors,
       JoinGroup, counts, Go, KillSteps, TearSteps, CloneSteps, IsLead
  <2>2. at' \in [Actors -> {"idle"} \cup KillSteps \cup TearSteps
                             \cup CloneSteps]
    BY <1>1, <1>2, <1>3, NAssumption, Outside DEF LifeInv, TypeOK, Actors,
       JoinGroup, counts, Go, KillSteps, TearSteps, CloneSteps, IsLead
  <2> QED BY <1>1, <1>2, <1>3, <2>1, <2>2 DEF LifeInv, TypeOK, JoinGroup,
          counts, pcbVars, actVars
<1>5. Busy'
  BY <1>1, <1>2, <1>3, Inside, Outside DEF LifeInv, Busy, Actors
<1>6. Cloning'
  BY <1>1, <1>2, <1>3, Cloner, Outside DEF LifeInv, Cloning, CloneSteps,
     Actors, IsLead, OneCloner
<1>7. Killing'
  BY <1>1, <1>2, <1>3, Outside DEF LifeInv, Killing, KillSteps, Actors
<1>8. Tearing'
  BY <1>1, <1>2, <1>3 DEF LifeInv, Tearing, TearSteps, Owing, Actors
<1>9. OneOwner'
  BY <1>1, <1>2, <1>3 DEF LifeInv, OneOwner, Owns, Owing, Actors
<1>10. OneCloner'
  BY <1>1, <1>2, <1>3, Cloner DEF LifeInv, OneCloner, CloneSteps, Actors
<1>11. Led'
  BY <1>1, <1>2, <1>3 DEF LifeInv, Led, IsLead, Actors
<1>12. TornLed'
  BY <1>1, <1>2, <1>3, Tearer DEF LifeInv, TornLed, IsLead, Last, Actors, Owing
<1>13. LastAlone'
  BY <1>1, <1>2, <1>3, Tearer DEF LifeInv, LastAlone, Last, Actors, Owing,
     Tearing
<1>14. OwnSpace'
  BY <1>1, <1>2, <1>3, Outside, Inside DEF LifeInv, OwnSpace, Actors, IsLead
<1>15. GroupKeepsSpace'
  BY <1>1, <1>2, <1>3, Inside DEF LifeInv, GroupKeepsSpace, Actors, Led, IsLead
<1>16. Attended'
  BY <1>1, <1>2, <1>3, Inside DEF LifeInv, Attended, Actors
<1>17. Housed'
  <2>1. \A l \in Slots : state[l] # "unused" /\ tgid[l] = l /\ Heir(l) =>
          /\ state'[l] # "unused" /\ tgid'[l] = l /\ pageDir'[l] = pageDir[l]
          /\ state[l] = "loading" => Heir(l)'
    BY <1>1, <1>2, <1>3, Outside DEF Heir
  <2>2. \A k \in Slots \ torn : state[k] = "live" =>
          k \notin torn' /\ state'[k] = "live" /\ tgid'[k] = tgid[k]
    BY <1>1, <1>2, <1>3
  <2>3. \A e \in Actors : at[e] = "mark" \/ (at[e] = "free" /\ last[e]) =>
          /\ at'[e] = "mark" \/ (at'[e] = "free" /\ last'[e])
          /\ tgid'[vic'[e]] = tgid[vic[e]]
    BY <1>1, <1>2, <1>3, Tearer DEF Owing
  <2> QED BY <1>1, <1>2, <1>3, <2>1, <2>2, <2>3, HeirsKept
<1>18. Passed'
  BY <1>1, <1>2, <1>3, Inside DEF LifeInv, Passed, Due, Ahead, KillSteps,
     TearSteps, Actors
<1> QED BY <1>4, <1>5, <1>6, <1>7, <1>8, <1>9, <1>10, <1>11, <1>12, <1>13,
           <1>14, <1>15, <1>16, <1>17, <1>18 DEF LifeInv

\* The new thread is published.
LEMMA PublishKeeps ==
  ASSUME Unbroken, LifeInv, NEW p \in Slots, Publish(p)
  PROVE  LifeInv'
<1>1. /\ at[p] = "publish"
      /\ p \in Actors /\ vic[p] \in Slots /\ vic[p] # p
      /\ state[vic[p]] = "loading" /\ tgid[vic[p]] = tgid[p]
      /\ state[p] = "live" /\ p \in onCpu /\ p \notin torn
      /\ IsLead(tgid[p]) /\ tgid[p] # vic[p]
      /\ pageDir[vic[p]] = pageDir[tgid[p]]
  BY Outside, NAssumption DEF LifeInv, Publish, Actors, CloneSteps, Cloning,
     Busy, Led, IsLead
<1>2. /\ \A k \in Slots : state[k] = "live" => tgid[k] # vic[p]
      /\ \A a \in Actors : at[a] \in Owing => vic[a] # vic[p]
      /\ \A a \in Actors : at[a] = "doom" => vic[a] # vic[p]
      /\ \A a \in Actors : at[a] = "mark" \/ Last(a) => tgid[vic[a]] # vic[p]
      /\ \A a \in Actors : Last(a) => tg[a] # vic[p]
      /\ \A a \in Actors : at[a] \in CloneSteps => tgid[a] # vic[p] /\ a # vic[p]
      /\ state[vic[p]] = "loading" => vic[p] \notin onCpu /\ vic[p] \notin torn
  BY <1>1, Aside
<1>3. /\ \A q \in Slots : state'[q] = IF q = vic[p] THEN "live" ELSE state[q]
      /\ \A b \in Actors : at'[b] = IF b = p THEN "idle" ELSE at[b]
      /\ \A b \in Actors : vic'[b] = IF b = p THEN Nobody ELSE vic[b]
      /\ UNCHANGED <<onCpu, tgid, pageDir, exiting, torn, groupExit, spaces,
             born, tg, last, idx, grp>>
  BY <1>1, <1>2, Outside DEF LifeInv, TypeOK, Publish, counts, Go, SetState,
     Terminal
<1>4. TypeOK'
  BY <1>1, <1>2, <1>3, NAssumption, Outside DEF LifeInv, TypeOK, Actors,
     Publish, counts, Go, SetState, Terminal
<1>5. Busy'
  BY <1>1, <1>2, <1>3, Inside, Outside DEF LifeInv, Busy, Actors
<1>6. Cloning'
  BY <1>1, <1>2, <1>3, Cloner, Outside DEF LifeInv, Cloning, CloneSteps,
     Actors, OneCloner
<1>7. Killing'
  BY <1>1, <1>2, <1>3, Outside DEF LifeInv, Killing, KillSteps, Actors
<1>8. Tearing'
  BY <1>1, <1>2, <1>3 DEF LifeInv, Tearing, TearSteps, Owing, Actors
<1>9. OneOwner'
  BY <1>1, <1>2, <1>3 DEF LifeInv, OneOwner, Owns, Owing, Actors
<1>10. OneCloner'
  BY <1>1, <1>2, <1>3, Cloner DEF LifeInv, OneCloner, CloneSteps, Actors
<1>11. Led'
  BY <1>1, <1>2, <1>3 DEF LifeInv, Led, IsLead, Actors
<1>12. TornLed'
  BY <1>1, <1>2, <1>3, Tearer DEF LifeInv, TornLed, IsLead, Last, Actors, Owing
<1>13. LastAlone'
  BY <1>1, <1>2, <1>3, Tearer DEF LifeInv, LastAlone, Last, Actors, Owing,
     Tearing
<1>14. OwnSpace'
  BY <1>1, <1>2, <1>3, Outside, Inside DEF LifeInv, OwnSpace, Actors
<1>15. GroupKeepsSpace'
  BY <1>1, <1>2, <1>3, Inside DEF LifeInv, GroupKeepsSpace, Actors, Led, IsLead
<1>16. Attended'
  BY <1>1, <1>2, <1>3, Inside DEF LifeInv, Attended, Actors
<1>17. Housed'
  <2>1. \A l \in Slots : state[l] # "unused" /\ tgid[l] = l /\ Heir(l) =>
          /\ state'[l] # "unused" /\ tgid'[l] = l /\ pageDir'[l] = pageDir[l]
          /\ state[l] = "loading" => Heir(l)'
    BY <1>1, <1>2, <1>3, Outside DEF Heir
  <2>2. \A k \in Slots \ torn : state[k] = "live" =>
          k \notin torn' /\ state'[k] = "live" /\ tgid'[k] = tgid[k]
    BY <1>1, <1>2, <1>3
  <2>3. \A e \in Actors : at[e] = "mark" \/ (at[e] = "free" /\ last[e]) =>
          /\ at'[e] = "mark" \/ (at'[e] = "free" /\ last'[e])
          /\ tgid'[vic'[e]] = tgid[vic[e]]
    BY <1>1, <1>2, <1>3, Tearer DEF Owing
  <2> QED BY <1>1, <1>2, <1>3, <2>1, <2>2, <2>3, HeirsKept
<1>18. Passed'
  <2>1. ASSUME NEW g \in groupExit', NEW q \in Slots, Due(q, g)',
               q \notin exiting' \cup torn'
        PROVE  g \in groupExit /\ Due(q, g) /\ q \notin exiting \cup torn
    BY <1>1, <1>2, <1>3, <2>1 DEF Due, LifeInv, OneCloner, CloneSteps
  <2>2. ASSUME NEW g \in Slots, NEW q \in Slots, Due(q, g)',
               q \notin exiting' \cup torn', NEW a \in Actors, Ahead(a, g, q)
        PROVE  Ahead(a, g, q)'
    BY <1>1, <1>2, <1>3, <2>2 DEF Ahead, KillSteps, TearSteps, Actors, LifeInv,
       OneCloner, CloneSteps
  <2> QED BY <2>1, <2>2, PassedKept, Inside
<1> QED BY <1>4, <1>5, <1>6, <1>7, <1>8, <1>9, <1>10, <1>11, <1>12, <1>13,
           <1>14, <1>15, <1>16, <1>17, <1>18 DEF LifeInv

\* A zombie without other live members, which no killer is at work on, is
\* reaped.
LEMMA ReapKeeps ==
  ASSUME Unbroken, LifeInv, NEW p \in Slots, Reapable(p),
         \A a \in Actors : at[a] \in TearSteps /\ vic[a] # a =>
                             vic[a] # p /\ tgid[vic[a]] # p,
         TypeOK', state' = [state EXCEPT ![p] = "unused"],
         UNCHANGED <<onCpu, tgid, pageDir, exiting, torn, groupExit, spaces,
                     born, at, vic, tg, last, idx, grp>>
  PROVE  LifeInv'
<1>1. /\ state[p] = "zombie"
      /\ \A k \in Slots \ {p} : state[k] = "live" => tgid[k] # p
  BY Outside, NAssumption DEF LifeInv, Reapable, GroupHasOtherLive, Counted
<1>2. /\ \A a \in Actors : at[a] \in Owing => vic[a] # p
      /\ \A a \in Actors : at[a] = "doom" => vic[a] # p
      /\ \A a \in Actors : at[a] = "mark" \/ Last(a) => tgid[vic[a]] # p
      /\ \A a \in Actors : at[a] \in CloneSteps => tgid[a] # p /\ a # p
  BY <1>1, Tearer, Cloner DEF LifeInv, Killing, Owing, TearSteps, Last
<1>3. /\ \A q \in Slots : state'[q] = IF q = p THEN "unused" ELSE state[q]
      /\ UNCHANGED <<onCpu, tgid, pageDir, exiting, torn, groupExit, spaces,
             born, at, vic, tg, last, idx, grp>>
  BY <1>1, <1>2, Outside DEF LifeInv, TypeOK, Reapable, GroupHasOtherLive,
     Counted
<1>4. TypeOK'
  BY <1>1, <1>2, <1>3, NAssumption, Outside DEF LifeInv, TypeOK, Actors,
     Reapable, GroupHasOtherLive, Counted
<1>5. Busy'
  BY <1>1, <1>2, <1>3, Inside, Outside DEF LifeInv, Busy, Actors
<1>6. Cloning'
  BY <1>1, <1>2, <1>3, Cloner, Outside DEF LifeInv, Cloning, CloneSteps, Actors
<1>7. Killing'
  BY <1>1, <1>2, <1>3, Outside DEF LifeInv, Killing, KillSteps, Actors
<1>8. Tearing'
  BY <1>1, <1>2, <1>3 DEF LifeInv, Tearing, TearSteps, Owing, Actors
<1>9. OneOwner'
  BY <1>1, <1>2, <1>3 DEF LifeInv, OneOwner, Owns, Owing, Actors
<1>10. OneCloner'
  BY <1>1, <1>2, <1>3, Cloner DEF LifeInv, OneCloner, CloneSteps, Actors
<1>11. Led'
  BY <1>1, <1>2, <1>3 DEF LifeInv, Led, IsLead, Actors
<1>12. TornLed'
  BY <1>1, <1>2, <1>3, Tearer DEF LifeInv, TornLed, IsLead, Last, Actors, Owing
<1>13. LastAlone'
  BY <1>1, <1>2, <1>3, Tearer DEF LifeInv, LastAlone, Last, Actors, Owing,
     Tearing
<1>14. OwnSpace'
  BY <1>1, <1>2, <1>3, Outside, Inside DEF LifeInv, OwnSpace, Actors
<1>15. GroupKeepsSpace'
  BY <1>1, <1>2, <1>3, Inside DEF LifeInv, GroupKeepsSpace, Actors, Led, IsLead
<1>16. Attended'
  BY <1>1, <1>2, <1>3, Inside DEF LifeInv, Attended, Actors
<1>17. Housed'
  <2>1. \A l \in Slots : state[l] # "unused" /\ tgid[l] = l /\ Heir(l) =>
          /\ state'[l] # "unused" /\ tgid'[l] = l /\ pageDir'[l] = pageDir[l]
          /\ state[l] = "loading" => Heir(l)'
    BY <1>1, <1>2, <1>3, Outside DEF Heir, Last
  <2>2. \A k \in Slots \ torn : state[k] = "live" =>
          k \notin torn' /\ state'[k] = "live" /\ tgid'[k] = tgid[k]
    BY <1>1, <1>2, <1>3
  <2>3. \A e \in Actors : at[e] = "mark" \/ (at[e] = "free" /\ last[e]) =>
          /\ at'[e] = "mark" \/ (at'[e] = "free" /\ last'[e])
          /\ tgid'[vic'[e]] = tgid[vic[e]]
    BY <1>1, <1>2, <1>3, Tearer DEF Owing
  <2> QED BY <1>1, <1>2, <1>3, <2>1, <2>2, <2>3, HeirsKept
<1>18. Passed'
  BY <1>1, <1>2, <1>3, Inside DEF LifeInv, Passed, Due, Ahead, KillSteps,
     TearSteps, Actors
<1> QED BY <1>4, <1>5, <1>6, <1>7, <1>8, <1>9, <1>10, <1>11, <1>12, <1>13,
           <1>14, <1>15, <1>16, <1>17, <1>18 DEF LifeInv

\* A task begins to tear itself down.
LEMMA ExitKeeps ==
  ASSUME Unbroken, LifeInv, NEW p \in Slots, Exit(p)
  PROVE  LifeInv'
<1>1. /\ p \in Actors /\ at[p] = "idle" /\ p \in onCpu /\ p \notin torn
      /\ state[p] = "live" /\ IsLead(tgid[p])
  BY Outside, NAssumption DEF LifeInv, Exit, Running, Unbroken, Busy, Led,
     IsLead, Actors
<1>2. /\ \A b \in Actors : at'[b] = IF b = p THEN "mark" ELSE at[b]
      /\ \A b \in Actors : vic'[b] = IF b = p THEN p ELSE vic[b]
      /\ \A b \in Actors : grp'[b] = IF b = p THEN Nobody ELSE grp[b]
      /\ UNCHANGED <<state, onCpu, tgid, pageDir, exiting, torn, groupExit,
             spaces, born, tg, last, idx>>
  BY <1>1, Outside DEF LifeInv, TypeOK, Exit, Running, Unbroken, counts, Go,
     pcbVars
<1>3. TypeOK'
  <2>1. at' \in [Actors -> {"idle"} \cup KillSteps \cup TearSteps
                             \cup CloneSteps]
    BY <1>1, <1>2, NAssumption, Outside DEF LifeInv, TypeOK, Actors, Exit,
       Running, Unbroken, counts, Go, pcbVars, KillSteps, TearSteps, CloneSteps
  <2>2. /\ vic' \in [Actors -> Slots \cup {Nobody}]
        /\ tg' \in [Actors -> Slots \cup {Nobody}]
        /\ last' \in [Actors -> BOOLEAN]
    BY <1>1, <1>2, NAssumption, Outside DEF LifeInv, TypeOK, Actors, Exit,
       Running, Unbroken, counts, Go, pcbVars, KillSteps, TearSteps, CloneSteps
  <2>3. /\ idx' \in [Actors -> 1..NSlots + 1]
        /\ grp' \in [Actors -> Slots \cup {Nobody}]
    BY <1>1, <1>2, NAssumption, Outside DEF LifeInv, TypeOK, Actors, Exit,
       Running, Unbroken, counts, Go, pcbVars, KillSteps, TearSteps, CloneSteps
  <2> QED BY <1>1, <1>2, <2>1, <2>2, <2>3 DEF LifeInv, TypeOK, Exit, Running,
          Unbroken, counts, pcbVars, actVars
<1>4. Busy'
  BY <1>1, <1>2, Inside, Outside DEF LifeInv, Busy, Actors
<1>5. Cloning'
  BY <1>1, <1>2, Cloner, Outside DEF LifeInv, Cloning, CloneSteps, Actors
<1>6. Killing'
  BY <1>1, <1>2, Outside DEF LifeInv, Killing, KillSteps, Actors
<1>7. Tearing'
  BY <1>1, <1>2 DEF LifeInv, Tearing, TearSteps, Owing, Actors
<1>8. OneOwner'
  BY <1>1, <1>2 DEF LifeInv, OneOwner, Owns, Owing, Actors
<1>9. OneCloner'
  BY <1>1, <1>2, Cloner DEF LifeInv, OneCloner, CloneSteps, Actors
<1>10. Led'
  BY <1>1, <1>2 DEF LifeInv, Led, IsLead, Actors
<1>11. TornLed'
  BY <1>1, <1>2, Tearer DEF LifeInv, TornLed, IsLead, Last, Actors, Owing
<1>12. LastAlone'
  BY <1>1, <1>2, Tearer DEF LifeInv, LastAlone, Last, Actors, Owing, Tearing
<1>13. OwnSpace'
  BY <1>1, <1>2, Outside, Inside DEF LifeInv, OwnSpace, Actors
<1>14. GroupKeepsSpace'
  BY <1>1, <1>2, Inside DEF LifeInv, GroupKeepsSpace, Actors, Led, IsLead
<1>15. Attended'
  BY <1>1, <1>2, Inside DEF LifeInv, Attended, Actors
<1>16. Housed'
  BY <1>1, <1>2, HousedSame DEF LifeInv, TypeOK, Actors
<1>17. Passed'
  BY <1>1, <1>2, Inside DEF LifeInv, Passed, Due, Ahead, KillSteps, TearSteps,
     Actors
<1> QED BY <1>3, <1>4, <1>5, <1>6, <1>7, <1>8, <1>9, <1>10, <1>11, <1>12,
           <1>13, <1>14, <1>15, <1>16, <1>17 DEF LifeInv

\* A pass over a group begins.
LEMMA StartPassKeeps ==
  ASSUME Unbroken, LifeInv, NEW a \in Actors, NEW g \in Slots, at[a] = "idle",
         a # Ext => a \in onCpu, TypeOK', StartPass(a, g),
         UNCHANGED <<state, onCpu, tgid, pageDir, exiting, torn>>,
         UNCHANGED <<spaces, born, vic, tg, last>>
  PROVE  LifeInv'
<1>1. /\ groupExit' = groupExit \cup {g}
      /\ \A b \in Actors : at'[b] = IF b = a THEN "next" ELSE at[b]
      /\ \A b \in Actors : idx'[b] = IF b = a THEN 1 ELSE idx[b]
      /\ \A b \in Actors : grp'[b] = IF b = a THEN g ELSE grp[b]
      /\ UNCHANGED <<state, onCpu, tgid, pageDir, exiting, torn, spaces, born,
             vic, tg, last>>
  BY Outside DEF LifeInv, TypeOK, StartPass, Go
<1>2. TypeOK'
  BY <1>1, NAssumption, Outside DEF LifeInv, TypeOK, Actors, StartPass, Go
<1>3. Busy'
  BY <1>1, Inside, Outside DEF LifeInv, Busy, Actors
<1>4. Cloning'
  BY <1>1, Cloner, Outside DEF LifeInv, Cloning, CloneSteps, Actors
<1>5. Killing'
  BY <1>1, Outside DEF LifeInv, Killing, KillSteps, Actors
<1>6. Tearing'
  BY <1>1 DEF LifeInv, Tearing, TearSteps, Owing, Actors
<1>7. OneOwner'
  BY <1>1 DEF LifeInv, OneOwner, Owns, Owing, Actors
<1>8. OneCloner'
  BY <1>1, Cloner DEF LifeInv, OneCloner, CloneSteps, Actors
<1>9. Led'
  BY <1>1 DEF LifeInv, Led, IsLead, Actors
<1>10. TornLed'
  BY <1>1, Tearer DEF LifeInv, TornLed, IsLead, Last, Actors, Owing
<1>11. LastAlone'
  BY <1>1, Tearer DEF LifeInv, LastAlone, Last, Actors, Owing, Tearing
<1>12. OwnSpace'
  BY <1>1, Outside, Inside DEF LifeInv, OwnSpace, Actors
<1>13. GroupKeepsSpace'
  BY <1>1, Inside DEF LifeInv, GroupKeepsSpace, Actors, Led, IsLead
<1>14. Attended'
  BY <1>1, Inside DEF LifeInv, Attended, Actors
<1>15. Housed'
  BY <1>1, HousedSame DEF LifeInv, TypeOK, Actors
<1>16. Passed'
  <2>1. ASSUME NEW q \in Slots
        PROVE  Ahead(a, g, q)'
    BY <1>1 DEF Ahead, Slots
  <2>2. ASSUME NEW h \in groupExit, NEW q \in Slots, Due(q, h)'
        PROVE  Due(q, h)
    BY <1>1, <2>2 DEF Due
  <2>3. ASSUME NEW h \in groupExit, NEW q \in Slots, NEW b \in Actors, Ahead(b, h, q)
        PROVE  Ahead(b, h, q)'
    BY <1>1, <2>3 DEF Ahead, KillSteps, TearSteps
  <2> QED BY <1>1, <2>1, <2>2, <2>3 DEF LifeInv, Passed
<1> QED BY <1>2, <1>3, <1>4, <1>5, <1>6, <1>7, <1>8, <1>9, <1>10, <1>11, <1>12,
           <1>13, <1>14, <1>15, <1>16 DEF LifeInv

\* One pid is killed from outside.
LEMMA KillKeeps ==
  ASSUME Unbroken, LifeInv, NEW p \in Slots, Kill(p)
  PROVE  LifeInv'
<1>1. at[Ext] = "idle" /\ Ext \in Actors
  BY Outside, NAssumption DEF LifeInv, Kill, Actors
<1>2. /\ \A b \in Actors : at'[b] = IF b = Ext THEN "claim" ELSE at[b]
      /\ \A b \in Actors : vic'[b] = IF b = Ext THEN p ELSE vic[b]
      /\ \A b \in Actors : idx'[b] = IF b = Ext THEN NSlots + 1 ELSE idx[b]
      /\ \A b \in Actors : grp'[b] = IF b = Ext THEN Nobody ELSE grp[b]
      /\ UNCHANGED <<state, onCpu, tgid, pageDir, exiting, torn, groupExit,
             spaces, born, tg, last>>
  BY <1>1, Outside DEF LifeInv, TypeOK, Kill, counts, Go, pcbVars
<1>3. TypeOK'
  <2>1. /\ spaces' \subseteq 1..MaxBorn /\ born' \in 0..MaxBorn
        /\ kills' \in 0..MaxKills
    BY <1>1, <1>2, NAssumption, Outside DEF LifeInv, TypeOK, Actors, Kill,
       counts, Go, pcbVars, KillSteps, TearSteps, CloneSteps
  <2>2. at' \in [Actors -> {"idle"} \cup KillSteps \cup TearSteps
                             \cup CloneSteps]
    BY <1>1, <1>2, NAssumption, Outside DEF LifeInv, TypeOK, Actors, Kill,
       counts, Go, pcbVars, KillSteps, TearSteps, CloneSteps
  <2>3. /\ vic' \in [Actors -> Slots \cup {Nobody}]
        /\ tg' \in [Actors -> Slots \cup {Nobody}]
        /\ last' \in [Actors -> BOOLEAN]
    BY <1>1, <1>2, NAssumption, Outside DEF LifeInv, TypeOK, Actors, Kill,
       counts, Go, pcbVars, KillSteps, TearSteps, CloneSteps
  <2>4. /\ idx' \in [Actors -> 1..NSlots + 1]
        /\ grp' \in [Actors -> Slots \cup {Nobody}]
    BY <1>1, <1>2, NAssumption, Outside DEF LifeInv, TypeOK, Actors, Kill,
       counts, Go, pcbVars, KillSteps, TearSteps, CloneSteps
  <2> QED BY <1>1, <1>2, <2>1, <2>2, <2>3, <2>4 DEF LifeInv, TypeOK, Kill,
          counts, pcbVars, actVars
<1>4. Busy'
  BY <1>1, <1>2, Inside, Outside DEF LifeInv, Busy, Actors
<1>5. Cloning'
  BY <1>1, <1>2, Cloner, Outside DEF LifeInv, Cloning, CloneSteps, Actors
<1>6. Killing'
  BY <1>1, <1>2, Outside DEF LifeInv, Killing, KillSteps, Actors
<1>7. Tearing'
  BY <1>1, <1>2 DEF LifeInv, Tearing, TearSteps, Owing, Actors
<1>8. OneOwner'
  BY <1>1, <1>2 DEF LifeInv, OneOwner, Owns, Owing, Actors
<1>9. OneCloner'
  BY <1>1, <1>2, Cloner DEF LifeInv, OneCloner, CloneSteps, Actors
<1>10. Led'
  BY <1>1, <1>2 DEF LifeInv, Led, IsLead, Actors
<1>11. TornLed'
  BY <1>1, <1>2, Tearer DEF LifeInv, TornLed, IsLead, Last, Actors, Owing
<1>12. LastAlone'
  BY <1>1, <1>2, Tearer DEF LifeInv, LastAlone, Last, Actors, Owing, Tearing
<1>13. OwnSpace'
  BY <1>1, <1>2, Outside, Inside DEF LifeInv, OwnSpace, Actors
<1>14. GroupKeepsSpace'
  BY <1>1, <1>2, Inside DEF LifeInv, GroupKeepsSpace, Actors, Led, IsLead
<1>15. Attended'
  BY <1>1, <1>2, Inside DEF LifeInv, Attended, Actors
<1>16. Housed'
  BY <1>1, <1>2, HousedSame DEF LifeInv, TypeOK, Actors
<1>17. Passed'
  BY <1>1, <1>2, Inside DEF LifeInv, Passed, Due, Ahead, KillSteps, TearSteps,
     Actors
<1> QED BY <1>3, <1>4, <1>5, <1>6, <1>7, <1>8, <1>9, <1>10, <1>11, <1>12,
           <1>13, <1>14, <1>15, <1>16, <1>17 DEF LifeInv

\* The group is dying: the new thread's slot is given back.
LEMMA RefuseKeeps ==
  ASSUME Unbroken, LifeInv, NEW p \in Slots, CheckGroup(p),
         GroupExiting(vic[p])
  PROVE  LifeInv'
<1>1. /\ at[p] = "check"
      /\ p \in Actors /\ vic[p] \in Slots /\ vic[p] # p
      /\ state[vic[p]] = "loading" /\ tgid[vic[p]] = tgid[p]
      /\ state[p] = "live" /\ p \in onCpu /\ p \notin torn
      /\ IsLead(tgid[p]) /\ tgid[p] # vic[p]
  BY Outside, NAssumption DEF LifeInv, CheckGroup, Actors, CloneSteps, Cloning,
     Busy, Led, IsLead
<1>2. /\ \A k \in Slots : state[k] = "live" => tgid[k] # vic[p]
      /\ \A a \in Actors : at[a] \in Owing => vic[a] # vic[p]
      /\ \A a \in Actors : at[a] = "doom" => vic[a] # vic[p]
      /\ \A a \in Actors : at[a] = "mark" \/ Last(a) => tgid[vic[a]] # vic[p]
      /\ \A a \in Actors : Last(a) => tg[a] # vic[p]
      /\ \A a \in Actors : at[a] \in CloneSteps => tgid[a] # vic[p] /\ a # vic[p]
      /\ state[vic[p]] = "loading" => vic[p] \notin onCpu /\ vic[p] \notin torn
  BY <1>1, Aside
<1>3. /\ \A q \in Slots : state'[q] = IF q = vic[p] THEN "unused" ELSE state[q]
      /\ \A b \in Actors : at'[b] = IF b = p THEN "idle" ELSE at[b]
      /\ \A b \in Actors : vic'[b] = IF b = p THEN Nobody ELSE vic[b]
      /\ UNCHANGED <<onCpu, tgid, pageDir, exiting, torn, groupExit, spaces,
             born, tg, last, idx, grp>>
  BY <1>1, <1>2, Outside DEF LifeInv, TypeOK, CheckGroup, counts, Go, SetState,
     Terminal
<1>4. TypeOK'
  BY <1>1, <1>2, <1>3, NAssumption, Outside DEF LifeInv, TypeOK, Actors,
     CheckGroup, counts, Go, SetState, Terminal
<1>5. Busy'
  BY <1>1, <1>2, <1>3, Inside, Outside DEF LifeInv, Busy, Actors
<1>6. Cloning'
  BY <1>1, <1>2, <1>3, Cloner, Outside DEF LifeInv, Cloning, CloneSteps,
     Actors, OneCloner
<1>7. Killing'
  BY <1>1, <1>2, <1>3, Outside DEF LifeInv, Killing, KillSteps, Actors
<1>8. Tearing'
  BY <1>1, <1>2, <1>3 DEF LifeInv, Tearing, TearSteps, Owing, Actors
<1>9. OneOwner'
  BY <1>1, <1>2, <1>3 DEF LifeInv, OneOwner, Owns, Owing, Actors
<1>10. OneCloner'
  BY <1>1, <1>2, <1>3, Cloner DEF LifeInv, OneCloner, CloneSteps, Actors
<1>11. Led'
  BY <1>1, <1>2, <1>3 DEF LifeInv, Led, IsLead, Actors
<1>12. TornLed'
  BY <1>1, <1>2, <1>3, Tearer DEF LifeInv, TornLed, IsLead, Last, Actors, Owing
<1>13. LastAlone'
  BY <1>1, <1>2, <1>3, Tearer DEF LifeInv, LastAlone, Last, Actors, Owing,
     Tearing
<1>14. OwnSpace'
  BY <1>1, <1>2, <1>3, Outside, Inside DEF LifeInv, OwnSpace, Actors
<1>15. GroupKeepsSpace'
  BY <1>1, <1>2, <1>3, Inside DEF LifeInv, GroupKeepsSpace, Actors, Led, IsLead
<1>16. Attended'
  BY <1>1, <1>2, <1>3, Inside DEF LifeInv, Attended, Actors
<1>17. Housed'
  <2>1. \A l \in Slots : state[l] # "unused" /\ tgid[l] = l /\ Heir(l) =>
          /\ state'[l] # "unused" /\ tgid'[l] = l /\ pageDir'[l] = pageDir[l]
          /\ state[l] = "loading" => Heir(l)'
    BY <1>1, <1>2, <1>3, Outside DEF Heir
  <2>2. \A k \in Slots \ torn : state[k] = "live" =>
          k \notin torn' /\ state'[k] = "live" /\ tgid'[k] = tgid[k]
    BY <1>1, <1>2, <1>3
  <2>3. \A e \in Actors : at[e] = "mark" \/ (at[e] = "free" /\ last[e]) =>
          /\ at'[e] = "mark" \/ (at'[e] = "free" /\ last'[e])
          /\ tgid'[vic'[e]] = tgid[vic[e]]
    BY <1>1, <1>2, <1>3, Tearer DEF Owing
  <2> QED BY <1>1, <1>2, <1>3, <2>1, <2>2, <2>3, HeirsKept
<1>18. Passed'
  BY <1>1, <1>2, <1>3, Inside DEF LifeInv, Passed, Due, Ahead, KillSteps,
     TearSteps, Actors
<1> QED BY <1>4, <1>5, <1>6, <1>7, <1>8, <1>9, <1>10, <1>11, <1>12, <1>13,
           <1>14, <1>15, <1>16, <1>17, <1>18 DEF LifeInv

\* The group is not: the new thread may be published.
LEMMA CheckedKeeps ==
  ASSUME Unbroken, LifeInv, NEW p \in Slots, CheckGroup(p),
         ~GroupExiting(vic[p])
  PROVE  LifeInv'
<1>1. /\ at[p] = "check"
      /\ tgid[vic[p]] \notin groupExit
      /\ p \in Actors /\ vic[p] \in Slots /\ vic[p] # p
      /\ state[vic[p]] = "loading" /\ tgid[vic[p]] = tgid[p]
      /\ state[p] = "live" /\ p \in onCpu /\ p \notin torn
      /\ IsLead(tgid[p]) /\ tgid[p] # vic[p]
  BY Outside, NAssumption DEF LifeInv, CheckGroup, GroupExiting, Actors,
     CloneSteps, Cloning, Busy, Led, IsLead
<1>2. /\ \A k \in Slots : state[k] = "live" => tgid[k] # vic[p]
      /\ \A a \in Actors : at[a] \in Owing => vic[a] # vic[p]
      /\ \A a \in Actors : at[a] = "doom" => vic[a] # vic[p]
      /\ \A a \in Actors : at[a] = "mark" \/ Last(a) => tgid[vic[a]] # vic[p]
      /\ \A a \in Actors : Last(a) => tg[a] # vic[p]
      /\ \A a \in Actors : at[a] \in CloneSteps => tgid[a] # vic[p] /\ a # vic[p]
      /\ state[vic[p]] = "loading" => vic[p] \notin onCpu /\ vic[p] \notin torn
  BY <1>1, Aside
<1>3. /\ \A b \in Actors : at'[b] = IF b = p THEN "publish" ELSE at[b]
      /\ UNCHANGED <<state, onCpu, tgid, pageDir, exiting, torn, groupExit,
             spaces, born, vic, tg, last, idx, grp>>
  BY <1>1, <1>2, Outside DEF LifeInv, TypeOK, CheckGroup, GroupExiting, counts,
     Go
<1>4. TypeOK'
  <2>1. at' \in [Actors -> {"idle"} \cup KillSteps \cup TearSteps
                             \cup CloneSteps]
    BY <1>1, <1>2, <1>3, NAssumption, Outside DEF LifeInv, TypeOK, Actors,
       CheckGroup, GroupExiting, counts, Go, KillSteps, TearSteps, CloneSteps
  <2> QED BY <1>1, <1>2, <1>3, <2>1 DEF LifeInv, TypeOK, CheckGroup,
          GroupExiting, counts, pcbVars, actVars
<1>5. Busy'
  BY <1>1, <1>2, <1>3, Inside, Outside DEF LifeInv, Busy, Actors
<1>6. Cloning'
  BY <1>1, <1>2, <1>3, Cloner, Outside DEF LifeInv, Cloning, CloneSteps, Actors
<1>7. Killing'
  BY <1>1, <1>2, <1>3, Outside DEF LifeInv, Killing, KillSteps, Actors
<1>8. Tearing'
  BY <1>1, <1>2, <1>3 DEF LifeInv, Tearing, TearSteps, Owing, Actors
<1>9. OneOwner'
  BY <1>1, <1>2, <1>3 DEF LifeInv, OneOwner, Owns, Owing, Actors
<1>10. OneCloner'
  BY <1>1, <1>2, <1>3, Cloner DEF LifeInv, OneCloner, CloneSteps, Actors
<1>11. Led'
  BY <1>1, <1>2, <1>3 DEF LifeInv, Led, IsLead, Actors
<1>12. TornLed'
  BY <1>1, <1>2, <1>3, Tearer DEF LifeInv, TornLed, IsLead, Last, Actors, Owing
<1>13. LastAlone'
  BY <1>1, <1>2, <1>3, Tearer DEF LifeInv, LastAlone, Last, Actors, Owing,
     Tearing
<1>14. OwnSpace'
  BY <1>1, <1>2, <1>3, Outside, Inside DEF LifeInv, OwnSpace, Actors
<1>15. GroupKeepsSpace'
  BY <1>1, <1>2, <1>3, Inside DEF LifeInv, GroupKeepsSpace, Actors, Led, IsLead
<1>16. Attended'
  BY <1>1, <1>2, <1>3, Inside DEF LifeInv, Attended, Actors
<1>17. Housed'
  BY <1>1, <1>2, <1>3, HousedSame DEF LifeInv, TypeOK, Actors
<1>18. Passed'
  BY <1>1, <1>2, <1>3, Inside DEF LifeInv, Passed, Due, Ahead, KillSteps,
     TearSteps, Actors
<1> QED BY <1>4, <1>5, <1>6, <1>7, <1>8, <1>9, <1>10, <1>11, <1>12, <1>13,
           <1>14, <1>15, <1>16, <1>17, <1>18 DEF LifeInv

\* The pass comes to a peer.
LEMMA PeerKeeps ==
  ASSUME Unbroken, LifeInv, NEW a \in Actors, NextPeer(a), idx[a] <= NSlots,
         Peer(a, idx[a])
  PROVE  LifeInv'
<1>1. /\ at[a] = "next" /\ idx[a] \in 1..NSlots + 1
      /\ a # Ext => a \in Slots /\ a \in onCpu /\ a \notin torn
      /\ a # Ext => state[a] = "live" /\ IsLead(tgid[a])
  BY Outside, NAssumption DEF LifeInv, NextPeer, Peer, Actors, Busy, Led,
     TypeOK, Slots
<1>2. /\ idx[a] \in Slots /\ idx[a] # a
      /\ idx[a] + 1 \in 1..NSlots + 1
  BY <1>1, NAssumption, Outside DEF LifeInv, TypeOK, Actors, Slots, Peer
<1>3. /\ \A b \in Actors : at'[b] = IF b = a THEN "claim" ELSE at[b]
      /\ \A b \in Actors : vic'[b] = IF b = a THEN idx[a] ELSE vic[b]
      /\ \A b \in Actors : idx'[b] = IF b = a THEN idx[a] + 1 ELSE idx[b]
      /\ UNCHANGED <<state, onCpu, tgid, pageDir, exiting, torn, groupExit,
             spaces, born, tg, last, grp>>
  BY <1>1, <1>2, Outside DEF LifeInv, TypeOK, NextPeer, Peer, counts, Go,
     pcbVars
<1>4. TypeOK'
  <2>1. at' \in [Actors -> {"idle"} \cup KillSteps \cup TearSteps
                             \cup CloneSteps]
    BY <1>1, <1>2, <1>3, NAssumption, Outside DEF LifeInv, TypeOK, Actors,
       NextPeer, Peer, counts, Go, pcbVars, KillSteps, TearSteps, CloneSteps
  <2>2. /\ vic' \in [Actors -> Slots \cup {Nobody}]
        /\ tg' \in [Actors -> Slots \cup {Nobody}]
        /\ last' \in [Actors -> BOOLEAN]
    BY <1>1, <1>2, <1>3, NAssumption, Outside DEF LifeInv, TypeOK, Actors,
       NextPeer, Peer, counts, Go, pcbVars, KillSteps, TearSteps, CloneSteps
  <2>3. /\ idx' \in [Actors -> 1..NSlots + 1]
        /\ grp' \in [Actors -> Slots \cup {Nobody}]
    BY <1>1, <1>2, <1>3, NAssumption, Outside DEF LifeInv, TypeOK, Actors,
       NextPeer, Peer, counts, Go, pcbVars, KillSteps, TearSteps, CloneSteps
  <2> QED BY <1>1, <1>2, <1>3, <2>1, <2>2, <2>3 DEF LifeInv, TypeOK, NextPeer,
          Peer, counts, pcbVars, actVars
<1>5. Busy'
  BY <1>1, <1>2, <1>3, Inside, Outside DEF LifeInv, Busy, Actors
<1>6. Cloning'
  BY <1>1, <1>2, <1>3, Cloner, Outside DEF LifeInv, Cloning, CloneSteps, Actors
<1>7. Killing'
  BY <1>1, <1>2, <1>3, Outside DEF LifeInv, Killing, KillSteps, Actors
<1>8. Tearing'
  BY <1>1, <1>2, <1>3 DEF LifeInv, Tearing, TearSteps, Owing, Actors
<1>9. OneOwner'
  BY <1>1, <1>2, <1>3 DEF LifeInv, OneOwner, Owns, Owing, Actors
<1>10. OneCloner'
  BY <1>1, <1>2, <1>3, Cloner DEF LifeInv, OneCloner, CloneSteps, Actors
<1>11. Led'
  BY <1>1, <1>2, <1>3 DEF LifeInv, Led, IsLead, Actors
<1>12. TornLed'
  BY <1>1, <1>2, <1>3, Tearer DEF LifeInv, TornLed, IsLead, Last, Actors, Owing
<1>13. LastAlone'
  BY <1>1, <1>2, <1>3, Tearer DEF LifeInv, LastAlone, Last, Actors, Owing,
     Tearing
<1>14. OwnSpace'
  BY <1>1, <1>2, <1>3, Outside, Inside DEF LifeInv, OwnSpace, Actors
<1>15. GroupKeepsSpace'
  BY <1>1, <1>2, <1>3, Inside DEF LifeInv, GroupKeepsSpace, Actors, Led, IsLead
<1>16. Attended'
  BY <1>1, <1>2, <1>3, Inside DEF LifeInv, Attended, Actors
<1>17. Housed'
  BY <1>1, <1>2, <1>3, HousedSame DEF LifeInv, TypeOK, Actors
<1>18. Passed'
  <2>1. ASSUME NEW g \in groupExit', NEW q \in Slots, Due(q, g)',
               q \notin exiting' \cup torn'
        PROVE  /\ g \in groupExit /\ Due(q, g) /\ q \notin exiting \cup torn
               /\ Ahead(a, g, q) => Ahead(a, g, q)'
    <3>1. g \in groupExit /\ Due(q, g) /\ q \notin exiting \cup torn
      BY <1>1, <1>2, <1>3, Inside, <2>1 DEF Due, LifeInv
    <3>2. Ahead(a, g, q) => Ahead(a, g, q)'
      BY <1>1, <1>2, <1>3, <2>1, <3>1, Inside, Outside
      DEF Ahead, KillSteps, TearSteps, Terminal, Slots, Due
    <3> QED BY <3>1, <3>2
  <2> QED BY <1>1, <1>2, <1>3, <2>1, PassKept
<1> QED BY <1>4, <1>5, <1>6, <1>7, <1>8, <1>9, <1>10, <1>11, <1>12, <1>13,
           <1>14, <1>15, <1>16, <1>17, <1>18 DEF LifeInv

\* The pass comes to a slot that is no peer's.
LEMMA NoPeerKeeps ==
  ASSUME Unbroken, LifeInv, NEW a \in Actors, NextPeer(a), idx[a] <= NSlots,
         ~Peer(a, idx[a])
  PROVE  LifeInv'
<1>1. /\ at[a] = "next" /\ idx[a] \in 1..NSlots + 1
      /\ a # Ext => a \in Slots /\ a \in onCpu /\ a \notin torn
      /\ a # Ext => state[a] = "live" /\ IsLead(tgid[a])
  BY Outside, NAssumption DEF LifeInv, NextPeer, Actors, Busy, Led, TypeOK,
     Slots
<1>2. /\ idx[a] \in Slots /\ idx[a] + 1 \in 1..NSlots + 1
      /\ idx[a] # a => tgid[idx[a]] # grp[a] \/ state[idx[a]] \in Terminal
  BY <1>1, NAssumption, Outside DEF LifeInv, TypeOK, Actors, Slots, Peer
<1>3. /\ \A b \in Actors : idx'[b] = IF b = a THEN idx[a] + 1 ELSE idx[b]
      /\ UNCHANGED <<state, onCpu, tgid, pageDir, exiting, torn, groupExit,
             spaces, born, at, vic, tg, last, grp>>
  BY <1>1, <1>2, Outside DEF LifeInv, TypeOK, NextPeer, counts, Go, pcbVars
<1>4. TypeOK'
  <2>1. /\ idx' \in [Actors -> 1..NSlots + 1]
        /\ grp' \in [Actors -> Slots \cup {Nobody}]
    BY <1>1, <1>2, <1>3, NAssumption, Outside DEF LifeInv, TypeOK, Actors,
       NextPeer, counts, Go, pcbVars, KillSteps, TearSteps, CloneSteps
  <2> QED BY <1>1, <1>2, <1>3, <2>1 DEF LifeInv, TypeOK, NextPeer, counts,
          pcbVars, actVars
<1>5. Busy'
  BY <1>1, <1>2, <1>3, Inside, Outside DEF LifeInv, Busy, Actors
<1>6. Cloning'
  BY <1>1, <1>2, <1>3, Cloner, Outside DEF LifeInv, Cloning, CloneSteps, Actors
<1>7. Killing'
  BY <1>1, <1>2, <1>3, Outside DEF LifeInv, Killing, KillSteps, Actors
<1>8. Tearing'
  BY <1>1, <1>2, <1>3 DEF LifeInv, Tearing, TearSteps, Owing, Actors
<1>9. OneOwner'
  BY <1>1, <1>2, <1>3 DEF LifeInv, OneOwner, Owns, Owing, Actors
<1>10. OneCloner'
  BY <1>1, <1>2, <1>3, Cloner DEF LifeInv, OneCloner, CloneSteps, Actors
<1>11. Led'
  BY <1>1, <1>2, <1>3 DEF LifeInv, Led, IsLead, Actors
<1>12. TornLed'
  BY <1>1, <1>2, <1>3, Tearer DEF LifeInv, TornLed, IsLead, Last, Actors, Owing
<1>13. LastAlone'
  BY <1>1, <1>2, <1>3, Tearer DEF LifeInv, LastAlone, Last, Actors, Owing,
     Tearing
<1>14. OwnSpace'
  BY <1>1, <1>2, <1>3, Outside, Inside DEF LifeInv, OwnSpace, Actors
<1>15. GroupKeepsSpace'
  BY <1>1, <1>2, <1>3, Inside DEF LifeInv, GroupKeepsSpace, Actors, Led, IsLead
<1>16. Attended'
  BY <1>1, <1>2, <1>3, Inside DEF LifeInv, Attended, Actors
<1>17. Housed'
  BY <1>1, <1>2, <1>3, HousedSame DEF LifeInv, TypeOK, Actors
<1>18. Passed'
  <2>1. ASSUME NEW g \in groupExit', NEW q \in Slots, Due(q, g)',
               q \notin exiting' \cup torn'
        PROVE  /\ g \in groupExit /\ Due(q, g) /\ q \notin exiting \cup torn
               /\ Ahead(a, g, q) => Ahead(a, g, q)'
    <3>1. g \in groupExit /\ Due(q, g) /\ q \notin exiting \cup torn
      BY <1>1, <1>2, <1>3, Inside, <2>1 DEF Due, LifeInv
    <3>2. Ahead(a, g, q) => Ahead(a, g, q)'
      BY <1>1, <1>2, <1>3, <2>1, <3>1, Inside, Outside
      DEF Ahead, KillSteps, TearSteps, Terminal, Slots, Due
    <3> QED BY <3>1, <3>2
  <2> QED BY <1>1, <1>2, <1>3, <2>1, PassKept
<1> QED BY <1>4, <1>5, <1>6, <1>7, <1>8, <1>9, <1>10, <1>11, <1>12, <1>13,
           <1>14, <1>15, <1>16, <1>17, <1>18 DEF LifeInv

\* The pass from outside ends.
LEMMA PassEndsKeeps ==
  ASSUME Unbroken, LifeInv, NEW a \in Actors, NextPeer(a), idx[a] > NSlots,
         a = Ext
  PROVE  LifeInv'
<1>1. at[a] = "next" /\ idx[a] \in 1..NSlots + 1
  BY Outside, NAssumption DEF LifeInv, NextPeer, Actors, Busy, Led, TypeOK,
     Slots
<1>2. /\ idx[a] = NSlots + 1 /\ ~(idx[a] <= NSlots)
      /\ 1 \in 1..NSlots + 1
  BY <1>1, NAssumption, Outside DEF LifeInv, TypeOK, Actors, Slots
<1>3. \A q \in Slots : ~(idx[a] <= q) /\ q # Ext
  BY <1>1, <1>2, NAssumption, Outside DEF Slots
<1>4. /\ at' = [at EXCEPT ![a] = "idle"]
      /\ vic' = [vic EXCEPT ![a] = Nobody]
      /\ idx' = [idx EXCEPT ![a] = 1]
  BY <1>1, <1>2, <1>3, Zenon DEF NextPeer, Go
<1>5. /\ \A b \in Actors : at'[b] = IF b = a THEN "idle" ELSE at[b]
      /\ \A b \in Actors : vic'[b] = IF b = a THEN Nobody ELSE vic[b]
      /\ \A b \in Actors : idx'[b] = IF b = a THEN 1 ELSE idx[b]
      /\ UNCHANGED <<state, onCpu, tgid, pageDir, exiting, torn, groupExit,
             spaces, born, tg, last, grp>>
  BY <1>1, <1>2, <1>3, <1>4, Outside DEF LifeInv, TypeOK, NextPeer, counts, Go,
     pcbVars
<1>6. TypeOK'
  <2>1. at' \in [Actors -> {"idle"} \cup KillSteps \cup TearSteps
                             \cup CloneSteps]
    BY <1>1, <1>2, <1>3, <1>4, <1>5, NAssumption, Outside DEF LifeInv, TypeOK,
       Actors, NextPeer, counts, Go, pcbVars, KillSteps, TearSteps, CloneSteps
  <2>2. /\ vic' \in [Actors -> Slots \cup {Nobody}]
        /\ tg' \in [Actors -> Slots \cup {Nobody}]
        /\ last' \in [Actors -> BOOLEAN]
    BY <1>1, <1>2, <1>3, <1>4, <1>5, NAssumption, Outside DEF LifeInv, TypeOK,
       Actors, NextPeer, counts, Go, pcbVars, KillSteps, TearSteps, CloneSteps
  <2>3. /\ idx' \in [Actors -> 1..NSlots + 1]
        /\ grp' \in [Actors -> Slots \cup {Nobody}]
    BY <1>1, <1>2, <1>3, <1>4, <1>5, NAssumption, Outside DEF LifeInv, TypeOK,
       Actors, NextPeer, counts, Go, pcbVars, KillSteps, TearSteps, CloneSteps
  <2> QED BY <1>1, <1>2, <1>3, <1>4, <1>5, <2>1, <2>2, <2>3 DEF LifeInv,
          TypeOK, NextPeer, counts, pcbVars, actVars
<1>7. Busy'
  BY <1>1, <1>2, <1>3, <1>4, <1>5, Inside, Outside DEF LifeInv, Busy, Actors
<1>8. Cloning'
  BY <1>1, <1>2, <1>3, <1>4, <1>5, Cloner, Outside DEF LifeInv, Cloning,
     CloneSteps, Actors
<1>9. Killing'
  BY <1>1, <1>2, <1>3, <1>4, <1>5, Outside DEF LifeInv, Killing, KillSteps,
     Actors
<1>10. Tearing'
  BY <1>1, <1>2, <1>3, <1>4, <1>5 DEF LifeInv, Tearing, TearSteps, Owing,
     Actors
<1>11. OneOwner'
  BY <1>1, <1>2, <1>3, <1>4, <1>5 DEF LifeInv, OneOwner, Owns, Owing, Actors
<1>12. OneCloner'
  BY <1>1, <1>2, <1>3, <1>4, <1>5, Cloner DEF LifeInv, OneCloner, CloneSteps,
     Actors
<1>13. Led'
  BY <1>1, <1>2, <1>3, <1>4, <1>5 DEF LifeInv, Led, IsLead, Actors
<1>14. TornLed'
  BY <1>1, <1>2, <1>3, <1>4, <1>5, Tearer DEF LifeInv, TornLed, IsLead, Last,
     Actors, Owing
<1>15. LastAlone'
  BY <1>1, <1>2, <1>3, <1>4, <1>5, Tearer DEF LifeInv, LastAlone, Last, Actors,
     Owing, Tearing
<1>16. OwnSpace'
  BY <1>1, <1>2, <1>3, <1>4, <1>5, Outside, Inside DEF LifeInv, OwnSpace,
     Actors
<1>17. GroupKeepsSpace'
  BY <1>1, <1>2, <1>3, <1>4, <1>5, Inside DEF LifeInv, GroupKeepsSpace, Actors,
     Led, IsLead
<1>18. Attended'
  BY <1>1, <1>2, <1>3, <1>4, <1>5, Inside DEF LifeInv, Attended, Actors
<1>19. Housed'
  BY <1>1, <1>2, <1>3, <1>4, <1>5, HousedSame DEF LifeInv, TypeOK, Actors
<1>20. Passed'
  <2>1. ASSUME NEW g \in groupExit', NEW q \in Slots, Due(q, g)',
               q \notin exiting' \cup torn'
        PROVE  /\ g \in groupExit /\ Due(q, g) /\ q \notin exiting \cup torn
               /\ Ahead(a, g, q) => Ahead(a, g, q)'
    <3>1. g \in groupExit /\ Due(q, g) /\ q \notin exiting \cup torn
      BY <1>1, <1>2, <1>3, <1>4, <1>5, Inside, <2>1 DEF Due, LifeInv
    <3>2. Ahead(a, g, q) => Ahead(a, g, q)'
      BY <1>1, <1>2, <1>3, <1>4, <1>5, <2>1, <3>1, Inside, Outside
      DEF Ahead, KillSteps, TearSteps, Terminal, Slots, Due
    <3> QED BY <3>1, <3>2
  <2> QED BY <1>1, <1>2, <1>3, <1>4, <1>5, <2>1, PassKept
<1> QED BY <1>6, <1>7, <1>8, <1>9, <1>10, <1>11, <1>12, <1>13, <1>14, <1>15,
           <1>16, <1>17, <1>18, <1>19, <1>20 DEF LifeInv

\* The pass of a member ends with itself.
LEMMA PassSelfKeeps ==
  ASSUME Unbroken, LifeInv, NEW a \in Actors, NextPeer(a), idx[a] > NSlots,
         a # Ext
  PROVE  LifeInv'
<1>1. /\ at[a] = "next" /\ idx[a] \in 1..NSlots + 1
      /\ a # Ext => a \in Slots /\ a \in onCpu /\ a \notin torn
      /\ a # Ext => state[a] = "live" /\ IsLead(tgid[a])
  BY Outside, NAssumption DEF LifeInv, NextPeer, Actors, Busy, Led, TypeOK,
     Slots
<1>2. /\ idx[a] = NSlots + 1 /\ ~(idx[a] <= NSlots)
      /\ a \in Slots
  BY <1>1, NAssumption, Outside DEF Slots
<1>3. \A q \in Slots : ~(idx[a] <= q) /\ q # Ext
  BY <1>1, <1>2, NAssumption, Outside DEF Slots
<1>4. /\ at' = [at EXCEPT ![a] = "mark"]
      /\ vic' = [vic EXCEPT ![a] = a]
      /\ idx' = idx
  BY <1>1, <1>2, <1>3, Zenon DEF NextPeer, Go
<1>5. /\ \A b \in Actors : at'[b] = IF b = a THEN "mark" ELSE at[b]
      /\ \A b \in Actors : vic'[b] = IF b = a THEN a ELSE vic[b]
      /\ UNCHANGED <<state, onCpu, tgid, pageDir, exiting, torn, groupExit,
             spaces, born, tg, last, idx, grp>>
  BY <1>1, <1>2, <1>3, <1>4, Outside DEF LifeInv, TypeOK, NextPeer, counts, Go,
     pcbVars
<1>6. TypeOK'
  <2>1. at' \in [Actors -> {"idle"} \cup KillSteps \cup TearSteps
                             \cup CloneSteps]
    BY <1>1, <1>2, <1>3, <1>4, <1>5, NAssumption, Outside DEF LifeInv, TypeOK,
       Actors, NextPeer, counts, Go, pcbVars, KillSteps, TearSteps, CloneSteps
  <2>2. /\ vic' \in [Actors -> Slots \cup {Nobody}]
        /\ tg' \in [Actors -> Slots \cup {Nobody}]
        /\ last' \in [Actors -> BOOLEAN]
    BY <1>1, <1>2, <1>3, <1>4, <1>5, NAssumption, Outside DEF LifeInv, TypeOK,
       Actors, NextPeer, counts, Go, pcbVars, KillSteps, TearSteps, CloneSteps
  <2> QED BY <1>1, <1>2, <1>3, <1>4, <1>5, <2>1, <2>2 DEF LifeInv, TypeOK,
          NextPeer, counts, pcbVars, actVars
<1>7. Busy'
  BY <1>1, <1>2, <1>3, <1>4, <1>5, Inside, Outside DEF LifeInv, Busy, Actors
<1>8. Cloning'
  BY <1>1, <1>2, <1>3, <1>4, <1>5, Cloner, Outside DEF LifeInv, Cloning,
     CloneSteps, Actors
<1>9. Killing'
  BY <1>1, <1>2, <1>3, <1>4, <1>5, Outside DEF LifeInv, Killing, KillSteps,
     Actors
<1>10. Tearing'
  BY <1>1, <1>2, <1>3, <1>4, <1>5 DEF LifeInv, Tearing, TearSteps, Owing,
     Actors
<1>11. OneOwner'
  BY <1>1, <1>2, <1>3, <1>4, <1>5 DEF LifeInv, OneOwner, Owns, Owing, Actors
<1>12. OneCloner'
  BY <1>1, <1>2, <1>3, <1>4, <1>5, Cloner DEF LifeInv, OneCloner, CloneSteps,
     Actors
<1>13. Led'
  BY <1>1, <1>2, <1>3, <1>4, <1>5 DEF LifeInv, Led, IsLead, Actors
<1>14. TornLed'
  BY <1>1, <1>2, <1>3, <1>4, <1>5, Tearer DEF LifeInv, TornLed, IsLead, Last,
     Actors, Owing
<1>15. LastAlone'
  BY <1>1, <1>2, <1>3, <1>4, <1>5, Tearer DEF LifeInv, LastAlone, Last, Actors,
     Owing, Tearing
<1>16. OwnSpace'
  BY <1>1, <1>2, <1>3, <1>4, <1>5, Outside, Inside DEF LifeInv, OwnSpace,
     Actors
<1>17. GroupKeepsSpace'
  BY <1>1, <1>2, <1>3, <1>4, <1>5, Inside DEF LifeInv, GroupKeepsSpace, Actors,
     Led, IsLead
<1>18. Attended'
  BY <1>1, <1>2, <1>3, <1>4, <1>5, Inside DEF LifeInv, Attended, Actors
<1>19. Housed'
  BY <1>1, <1>2, <1>3, <1>4, <1>5, HousedSame DEF LifeInv, TypeOK, Actors
<1>20. Passed'
  <2>1. ASSUME NEW g \in groupExit', NEW q \in Slots, Due(q, g)',
               q \notin exiting' \cup torn'
        PROVE  /\ g \in groupExit /\ Due(q, g) /\ q \notin exiting \cup torn
               /\ Ahead(a, g, q) => Ahead(a, g, q)'
    <3>1. g \in groupExit /\ Due(q, g) /\ q \notin exiting \cup torn
      BY <1>1, <1>2, <1>3, <1>4, <1>5, Inside, <2>1 DEF Due, LifeInv
    <3>2. Ahead(a, g, q) => Ahead(a, g, q)'
      BY <1>1, <1>2, <1>3, <1>4, <1>5, <2>1, <3>1, Inside, Outside
      DEF Ahead, KillSteps, TearSteps, Terminal, Slots, Due
    <3> QED BY <3>1, <3>2
  <2> QED BY <1>1, <1>2, <1>3, <1>4, <1>5, <2>1, PassKept
<1> QED BY <1>6, <1>7, <1>8, <1>9, <1>10, <1>11, <1>12, <1>13, <1>14, <1>15,
           <1>16, <1>17, <1>18, <1>19, <1>20 DEF LifeInv

\* The victim is gone already.
LEMMA GoneKeeps ==
  ASSUME Unbroken, LifeInv, NEW a \in Actors, Claim(a),
         state[vic[a]] \in Terminal
  PROVE  LifeInv'
<1>1. /\ at[a] = "claim" /\ vic[a] \in Slots /\ vic[a] # a
      /\ state[vic[a]] \in {"unused", "zombie"}
  BY Outside, NAssumption DEF LifeInv, Claim, Killing, KillSteps, Terminal
<1>2. /\ \A b \in Actors : at'[b] = IF b = a THEN "next" ELSE at[b]
      /\ UNCHANGED <<state, onCpu, tgid, pageDir, exiting, torn, groupExit,
             spaces, born, vic, tg, last, idx, grp>>
  BY <1>1, Outside DEF LifeInv, TypeOK, Claim, counts, Go
<1>3. TypeOK'
  <2>1. at' \in [Actors -> {"idle"} \cup KillSteps \cup TearSteps
                             \cup CloneSteps]
    BY <1>1, <1>2, NAssumption, Outside DEF LifeInv, TypeOK, Actors, Claim,
       counts, Go, KillSteps, TearSteps, CloneSteps
  <2> QED BY <1>1, <1>2, <2>1 DEF LifeInv, TypeOK, Claim, counts, pcbVars,
          actVars
<1>4. Busy'
  BY <1>1, <1>2, Inside, Outside DEF LifeInv, Busy, Actors
<1>5. Cloning'
  BY <1>1, <1>2, Cloner, Outside DEF LifeInv, Cloning, CloneSteps, Actors
<1>6. Killing'
  BY <1>1, <1>2, Outside DEF LifeInv, Killing, KillSteps, Actors
<1>7. Tearing'
  BY <1>1, <1>2 DEF LifeInv, Tearing, TearSteps, Owing, Actors
<1>8. OneOwner'
  BY <1>1, <1>2 DEF LifeInv, OneOwner, Owns, Owing, Actors
<1>9. OneCloner'
  BY <1>1, <1>2, Cloner DEF LifeInv, OneCloner, CloneSteps, Actors
<1>10. Led'
  BY <1>1, <1>2 DEF LifeInv, Led, IsLead, Actors
<1>11. TornLed'
  BY <1>1, <1>2, Tearer DEF LifeInv, TornLed, IsLead, Last, Actors, Owing
<1>12. LastAlone'
  BY <1>1, <1>2, Tearer DEF LifeInv, LastAlone, Last, Actors, Owing, Tearing
<1>13. OwnSpace'
  BY <1>1, <1>2, Outside, Inside DEF LifeInv, OwnSpace, Actors
<1>14. GroupKeepsSpace'
  BY <1>1, <1>2, Inside DEF LifeInv, GroupKeepsSpace, Actors, Led, IsLead
<1>15. Attended'
  BY <1>1, <1>2, Inside DEF LifeInv, Attended, Actors
<1>16. Housed'
  BY <1>1, <1>2, HousedSame DEF LifeInv, TypeOK, Actors
<1>17. Passed'
  <2>1. ASSUME NEW g \in groupExit', NEW q \in Slots, Due(q, g)',
               q \notin exiting' \cup torn'
        PROVE  /\ g \in groupExit /\ Due(q, g) /\ q \notin exiting \cup torn
               /\ Ahead(a, g, q) => Ahead(a, g, q)'
    <3>1. g \in groupExit /\ Due(q, g) /\ q \notin exiting \cup torn
      BY <1>1, <1>2, Inside, <2>1 DEF Due, LifeInv
    <3>2. Ahead(a, g, q) => Ahead(a, g, q)'
      BY <1>1, <1>2, <2>1, <3>1, Inside, Outside
      DEF Ahead, KillSteps, TearSteps, Terminal, Slots, Due
    <3> QED BY <3>1, <3>2
  <2> QED BY <1>1, <1>2, <2>1, PassKept
<1> QED BY <1>3, <1>4, <1>5, <1>6, <1>7, <1>8, <1>9, <1>10, <1>11, <1>12,
           <1>13, <1>14, <1>15, <1>16, <1>17 DEF LifeInv

\* Another killer has claimed the victim.
LEMMA ClaimedKeeps ==
  ASSUME Unbroken, LifeInv, NEW a \in Actors, Claim(a),
         state[vic[a]] \notin Terminal, vic[a] \in exiting
  PROVE  LifeInv'
<1>1. /\ at[a] = "claim" /\ vic[a] \in Slots /\ vic[a] # a
      /\ vic[a] \in exiting
  BY Outside, NAssumption DEF LifeInv, Claim, Killing, KillSteps
<1>2. exiting \cup {vic[a]} = exiting
  BY <1>1
<1>3. /\ \A b \in Actors : at'[b] = IF b = a THEN "await" ELSE at[b]
      /\ UNCHANGED <<state, onCpu, tgid, pageDir, exiting, torn, groupExit,
             spaces, born, vic, tg, last, idx, grp>>
  BY <1>1, <1>2, Outside DEF LifeInv, TypeOK, Claim, counts, Go
<1>4. TypeOK'
  <2>1. at' \in [Actors -> {"idle"} \cup KillSteps \cup TearSteps
                             \cup CloneSteps]
    BY <1>1, <1>2, <1>3, NAssumption, Outside DEF LifeInv, TypeOK, Actors,
       Claim, counts, Go, KillSteps, TearSteps, CloneSteps
  <2> QED BY <1>1, <1>2, <1>3, <2>1 DEF LifeInv, TypeOK, Claim, counts,
          pcbVars, actVars
<1>5. Busy'
  BY <1>1, <1>2, <1>3, Inside, Outside DEF LifeInv, Busy, Actors
<1>6. Cloning'
  BY <1>1, <1>2, <1>3, Cloner, Outside DEF LifeInv, Cloning, CloneSteps, Actors
<1>7. Killing'
  BY <1>1, <1>2, <1>3, Outside DEF LifeInv, Killing, KillSteps, Actors
<1>8. Tearing'
  BY <1>1, <1>2, <1>3 DEF LifeInv, Tearing, TearSteps, Owing, Actors
<1>9. OneOwner'
  BY <1>1, <1>2, <1>3 DEF LifeInv, OneOwner, Owns, Owing, Actors
<1>10. OneCloner'
  BY <1>1, <1>2, <1>3, Cloner DEF LifeInv, OneCloner, CloneSteps, Actors
<1>11. Led'
  BY <1>1, <1>2, <1>3 DEF LifeInv, Led, IsLead, Actors
<1>12. TornLed'
  BY <1>1, <1>2, <1>3, Tearer DEF LifeInv, TornLed, IsLead, Last, Actors, Owing
<1>13. LastAlone'
  BY <1>1, <1>2, <1>3, Tearer DEF LifeInv, LastAlone, Last, Actors, Owing,
     Tearing
<1>14. OwnSpace'
  BY <1>1, <1>2, <1>3, Outside, Inside DEF LifeInv, OwnSpace, Actors
<1>15. GroupKeepsSpace'
  BY <1>1, <1>2, <1>3, Inside DEF LifeInv, GroupKeepsSpace, Actors, Led, IsLead
<1>16. Attended'
  BY <1>1, <1>2, <1>3, Inside DEF LifeInv, Attended, Actors
<1>17. Housed'
  BY <1>1, <1>2, <1>3, HousedSame DEF LifeInv, TypeOK, Actors
<1>18. Passed'
  <2>1. ASSUME NEW g \in groupExit', NEW q \in Slots, Due(q, g)',
               q \notin exiting' \cup torn'
        PROVE  /\ g \in groupExit /\ Due(q, g) /\ q \notin exiting \cup torn
               /\ Ahead(a, g, q) => Ahead(a, g, q)'
    <3>1. g \in groupExit /\ Due(q, g) /\ q \notin exiting \cup torn
      BY <1>1, <1>2, <1>3, Inside, <2>1 DEF Due, LifeInv
    <3>2. Ahead(a, g, q) => Ahead(a, g, q)'
      BY <1>1, <1>2, <1>3, <2>1, <3>1, Inside, Outside
      DEF Ahead, KillSteps, TearSteps, Terminal, Slots, Due
    <3> QED BY <3>1, <3>2
  <2> QED BY <1>1, <1>2, <1>3, <2>1, PassKept
<1> QED BY <1>4, <1>5, <1>6, <1>7, <1>8, <1>9, <1>10, <1>11, <1>12, <1>13,
           <1>14, <1>15, <1>16, <1>17, <1>18 DEF LifeInv

\* The victim is claimed.
LEMMA ClaimKeeps ==
  ASSUME Unbroken, LifeInv, NEW a \in Actors, Claim(a),
         state[vic[a]] \notin Terminal, vic[a] \notin exiting
  PROVE  LifeInv'
<1>1. /\ at[a] = "claim" /\ vic[a] \in Slots /\ vic[a] # a
      /\ vic[a] \notin exiting
      /\ \A b \in Actors : ~Owns(b, vic[a])
  BY Outside, NAssumption DEF LifeInv, Claim, Killing, KillSteps, Tearing, Owns
<1>2. /\ exiting' = exiting \cup {vic[a]}
      /\ \A b \in Actors : at'[b] = IF b = a THEN "wait" ELSE at[b]
      /\ UNCHANGED <<state, onCpu, tgid, pageDir, torn, groupExit, spaces, born,
             vic, tg, last, idx, grp>>
  BY <1>1, Outside DEF LifeInv, TypeOK, Claim, counts, Go
<1>3. TypeOK'
  <2>1. /\ exiting' \subseteq Slots /\ torn' \subseteq Slots
        /\ groupExit' \subseteq Slots /\ stamped' \subseteq Slots
    BY <1>1, <1>2, NAssumption, Outside DEF LifeInv, TypeOK, Actors, Claim,
       counts, Go, KillSteps, TearSteps, CloneSteps
  <2>2. at' \in [Actors -> {"idle"} \cup KillSteps \cup TearSteps
                             \cup CloneSteps]
    BY <1>1, <1>2, NAssumption, Outside DEF LifeInv, TypeOK, Actors, Claim,
       counts, Go, KillSteps, TearSteps, CloneSteps
  <2> QED BY <1>1, <1>2, <2>1, <2>2 DEF LifeInv, TypeOK, Claim, counts,
          pcbVars, actVars
<1>4. Busy'
  BY <1>1, <1>2, Inside, Outside DEF LifeInv, Busy, Actors
<1>5. Cloning'
  BY <1>1, <1>2, Cloner, Outside DEF LifeInv, Cloning, CloneSteps, Actors
<1>6. Killing'
  BY <1>1, <1>2, Outside DEF LifeInv, Killing, KillSteps, Actors
<1>7. Tearing'
  BY <1>1, <1>2 DEF LifeInv, Tearing, TearSteps, Owing, Actors
<1>8. OneOwner'
  BY <1>1, <1>2 DEF LifeInv, OneOwner, Owns, Owing, Actors
<1>9. OneCloner'
  BY <1>1, <1>2, Cloner DEF LifeInv, OneCloner, CloneSteps, Actors
<1>10. Led'
  BY <1>1, <1>2 DEF LifeInv, Led, IsLead, Actors
<1>11. TornLed'
  BY <1>1, <1>2, Tearer DEF LifeInv, TornLed, IsLead, Last, Actors, Owing
<1>12. LastAlone'
  BY <1>1, <1>2, Tearer DEF LifeInv, LastAlone, Last, Actors, Owing, Tearing
<1>13. OwnSpace'
  BY <1>1, <1>2, Outside, Inside DEF LifeInv, OwnSpace, Actors
<1>14. GroupKeepsSpace'
  BY <1>1, <1>2, Inside DEF LifeInv, GroupKeepsSpace, Actors, Led, IsLead
<1>15. Attended'
  BY <1>1, <1>2, Inside DEF LifeInv, Attended, Actors
<1>16. Housed'
  BY <1>1, <1>2, HousedSame DEF LifeInv, TypeOK, Actors
<1>17. Passed'
  <2>1. ASSUME NEW g \in groupExit', NEW q \in Slots, Due(q, g)',
               q \notin exiting' \cup torn'
        PROVE  /\ g \in groupExit /\ Due(q, g) /\ q \notin exiting \cup torn
               /\ Ahead(a, g, q) => Ahead(a, g, q)'
    <3>1. g \in groupExit /\ Due(q, g) /\ q \notin exiting \cup torn
      BY <1>1, <1>2, Inside, <2>1 DEF Due, LifeInv
    <3>2. Ahead(a, g, q) => Ahead(a, g, q)'
      BY <1>1, <1>2, <2>1, <3>1, Inside, Outside
      DEF Ahead, KillSteps, TearSteps, Terminal, Slots, Due
    <3> QED BY <3>1, <3>2
  <2> QED BY <1>1, <1>2, <2>1, PassKept
<1> QED BY <1>3, <1>4, <1>5, <1>6, <1>7, <1>8, <1>9, <1>10, <1>11, <1>12,
           <1>13, <1>14, <1>15, <1>16, <1>17 DEF LifeInv

\* A killer has waited for another's victim.
LEMMA AwaitKeeps ==
  ASSUME Unbroken, LifeInv, NEW a \in Actors, Await(a)
  PROVE  LifeInv'
<1>1. at[a] = "await" /\ vic[a] \in Slots /\ vic[a] # a
  BY Outside, NAssumption DEF LifeInv, Await, Killing, KillSteps
<1>2. /\ \A b \in Actors : at'[b] = IF b = a THEN "next" ELSE at[b]
      /\ UNCHANGED <<state, onCpu, tgid, pageDir, exiting, torn, groupExit,
             spaces, born, vic, tg, last, idx, grp>>
  BY <1>1, Outside DEF LifeInv, TypeOK, Await, counts, Go, pcbVars
<1>3. TypeOK'
  <2>1. at' \in [Actors -> {"idle"} \cup KillSteps \cup TearSteps
                             \cup CloneSteps]
    BY <1>1, <1>2, NAssumption, Outside DEF LifeInv, TypeOK, Actors, Await,
       counts, Go, pcbVars, KillSteps, TearSteps, CloneSteps
  <2> QED BY <1>1, <1>2, <2>1 DEF LifeInv, TypeOK, Await, counts, pcbVars,
          actVars
<1>4. Busy'
  BY <1>1, <1>2, Inside, Outside DEF LifeInv, Busy, Actors
<1>5. Cloning'
  BY <1>1, <1>2, Cloner, Outside DEF LifeInv, Cloning, CloneSteps, Actors
<1>6. Killing'
  BY <1>1, <1>2, Outside DEF LifeInv, Killing, KillSteps, Actors
<1>7. Tearing'
  BY <1>1, <1>2 DEF LifeInv, Tearing, TearSteps, Owing, Actors
<1>8. OneOwner'
  BY <1>1, <1>2 DEF LifeInv, OneOwner, Owns, Owing, Actors
<1>9. OneCloner'
  BY <1>1, <1>2, Cloner DEF LifeInv, OneCloner, CloneSteps, Actors
<1>10. Led'
  BY <1>1, <1>2 DEF LifeInv, Led, IsLead, Actors
<1>11. TornLed'
  BY <1>1, <1>2, Tearer DEF LifeInv, TornLed, IsLead, Last, Actors, Owing
<1>12. LastAlone'
  BY <1>1, <1>2, Tearer DEF LifeInv, LastAlone, Last, Actors, Owing, Tearing
<1>13. OwnSpace'
  BY <1>1, <1>2, Outside, Inside DEF LifeInv, OwnSpace, Actors
<1>14. GroupKeepsSpace'
  BY <1>1, <1>2, Inside DEF LifeInv, GroupKeepsSpace, Actors, Led, IsLead
<1>15. Attended'
  BY <1>1, <1>2, Inside DEF LifeInv, Attended, Actors
<1>16. Housed'
  BY <1>1, <1>2, HousedSame DEF LifeInv, TypeOK, Actors
<1>17. Passed'
  <2>1. ASSUME NEW g \in groupExit', NEW q \in Slots, Due(q, g)',
               q \notin exiting' \cup torn'
        PROVE  /\ g \in groupExit /\ Due(q, g) /\ q \notin exiting \cup torn
               /\ Ahead(a, g, q) => Ahead(a, g, q)'
    <3>1. g \in groupExit /\ Due(q, g) /\ q \notin exiting \cup torn
      BY <1>1, <1>2, Inside, <2>1 DEF Due, LifeInv
    <3>2. Ahead(a, g, q) => Ahead(a, g, q)'
      BY <1>1, <1>2, <2>1, <3>1, Inside, Outside
      DEF Ahead, KillSteps, TearSteps, Terminal, Slots, Due
    <3> QED BY <3>1, <3>2
  <2> QED BY <1>1, <1>2, <2>1, PassKept
<1> QED BY <1>3, <1>4, <1>5, <1>6, <1>7, <1>8, <1>9, <1>10, <1>11, <1>12,
           <1>13, <1>14, <1>15, <1>16, <1>17 DEF LifeInv

\* The victim is gone, or its own CPU tears it down.
LEMMA LeftKeeps ==
  ASSUME Unbroken, LifeInv, NEW a \in Actors, Poll(a), at'[a] # "doom"
  PROVE  LifeInv'
<1>1. /\ at[a] = "wait" /\ vic[a] \in Slots /\ vic[a] # a
      /\ state[vic[a]] \in {"unused", "zombie"} \/ vic[a] \in onCpu
  BY Outside, NAssumption DEF LifeInv, Poll, Killing, KillSteps, Terminal,
     StillOnCpu, Unbroken, Go, TypeOK
<1>2. /\ \A b \in Actors : at'[b] = IF b = a THEN "next" ELSE at[b]
      /\ UNCHANGED <<state, onCpu, tgid, pageDir, exiting, torn, groupExit,
             spaces, born, vic, tg, last, idx, grp>>
  BY <1>1, Outside DEF LifeInv, TypeOK, Poll, counts, Go, pcbVars, StillOnCpu,
     Terminal, Unbroken
<1>3. TypeOK'
  <2>1. at' \in [Actors -> {"idle"} \cup KillSteps \cup TearSteps
                             \cup CloneSteps]
    BY <1>1, <1>2, NAssumption, Outside DEF LifeInv, TypeOK, Actors, Poll,
       counts, Go, pcbVars, StillOnCpu, Terminal, Unbroken, KillSteps,
       TearSteps, CloneSteps
  <2> QED BY <1>1, <1>2, <2>1 DEF LifeInv, TypeOK, Poll, counts, pcbVars,
          actVars
<1>4. Busy'
  BY <1>1, <1>2, Inside, Outside DEF LifeInv, Busy, Actors
<1>5. Cloning'
  BY <1>1, <1>2, Cloner, Outside DEF LifeInv, Cloning, CloneSteps, Actors
<1>6. Killing'
  BY <1>1, <1>2, Outside DEF LifeInv, Killing, KillSteps, Actors
<1>7. Tearing'
  BY <1>1, <1>2 DEF LifeInv, Tearing, TearSteps, Owing, Actors
<1>8. OneOwner'
  BY <1>1, <1>2 DEF LifeInv, OneOwner, Owns, Owing, Actors
<1>9. OneCloner'
  BY <1>1, <1>2, Cloner DEF LifeInv, OneCloner, CloneSteps, Actors
<1>10. Led'
  BY <1>1, <1>2 DEF LifeInv, Led, IsLead, Actors
<1>11. TornLed'
  BY <1>1, <1>2, Tearer DEF LifeInv, TornLed, IsLead, Last, Actors, Owing
<1>12. LastAlone'
  BY <1>1, <1>2, Tearer DEF LifeInv, LastAlone, Last, Actors, Owing, Tearing
<1>13. OwnSpace'
  BY <1>1, <1>2, Outside, Inside DEF LifeInv, OwnSpace, Actors
<1>14. GroupKeepsSpace'
  BY <1>1, <1>2, Inside DEF LifeInv, GroupKeepsSpace, Actors, Led, IsLead
<1>15. Attended'
  BY <1>1, <1>2, Inside DEF LifeInv, Attended, Actors
<1>16. Housed'
  BY <1>1, <1>2, HousedSame DEF LifeInv, TypeOK, Actors
<1>17. Passed'
  <2>1. ASSUME NEW g \in groupExit', NEW q \in Slots, Due(q, g)',
               q \notin exiting' \cup torn'
        PROVE  /\ g \in groupExit /\ Due(q, g) /\ q \notin exiting \cup torn
               /\ Ahead(a, g, q) => Ahead(a, g, q)'
    <3>1. g \in groupExit /\ Due(q, g) /\ q \notin exiting \cup torn
      BY <1>1, <1>2, Inside, <2>1 DEF Due, LifeInv
    <3>2. Ahead(a, g, q) => Ahead(a, g, q)'
      BY <1>1, <1>2, <2>1, <3>1, Inside, Outside
      DEF Ahead, KillSteps, TearSteps, Terminal, Slots, Due
    <3> QED BY <3>1, <3>2
  <2> QED BY <1>1, <1>2, <2>1, PassKept
<1> QED BY <1>3, <1>4, <1>5, <1>6, <1>7, <1>8, <1>9, <1>10, <1>11, <1>12,
           <1>13, <1>14, <1>15, <1>16, <1>17 DEF LifeInv

\* The victim is off its CPU.
LEMMA OffCpuKeeps ==
  ASSUME Unbroken, LifeInv, NEW a \in Actors, Poll(a), at'[a] = "doom"
  PROVE  LifeInv'
<1>1. /\ at[a] = "wait" /\ vic[a] \in Slots /\ vic[a] # a
      /\ vic[a] \in exiting
      /\ state[vic[a]] = "live" /\ vic[a] \notin onCpu
  BY Outside, NAssumption DEF LifeInv, Poll, Killing, KillSteps, Terminal,
     StillOnCpu, Unbroken, Go, TypeOK
<1>2. /\ \A b \in Actors : at'[b] = IF b = a THEN "doom" ELSE at[b]
      /\ UNCHANGED <<state, onCpu, tgid, pageDir, exiting, torn, groupExit,
             spaces, born, vic, tg, last, idx, grp>>
  BY <1>1, Outside DEF LifeInv, TypeOK, Poll, counts, Go, pcbVars, StillOnCpu,
     Terminal, Unbroken
<1>3. TypeOK'
  <2>1. at' \in [Actors -> {"idle"} \cup KillSteps \cup TearSteps
                             \cup CloneSteps]
    BY <1>1, <1>2, NAssumption, Outside DEF LifeInv, TypeOK, Actors, Poll,
       counts, Go, pcbVars, StillOnCpu, Terminal, Unbroken, KillSteps,
       TearSteps, CloneSteps
  <2> QED BY <1>1, <1>2, <2>1 DEF LifeInv, TypeOK, Poll, counts, pcbVars,
          actVars
<1>4. Busy'
  BY <1>1, <1>2, Inside, Outside DEF LifeInv, Busy, Actors
<1>5. Cloning'
  BY <1>1, <1>2, Cloner, Outside DEF LifeInv, Cloning, CloneSteps, Actors
<1>6. Killing'
  BY <1>1, <1>2, Outside DEF LifeInv, Killing, KillSteps, Actors
<1>7. Tearing'
  BY <1>1, <1>2 DEF LifeInv, Tearing, TearSteps, Owing, Actors
<1>8. OneOwner'
  BY <1>1, <1>2 DEF LifeInv, OneOwner, Owns, Owing, Actors
<1>9. OneCloner'
  BY <1>1, <1>2, Cloner DEF LifeInv, OneCloner, CloneSteps, Actors
<1>10. Led'
  BY <1>1, <1>2 DEF LifeInv, Led, IsLead, Actors
<1>11. TornLed'
  BY <1>1, <1>2, Tearer DEF LifeInv, TornLed, IsLead, Last, Actors, Owing
<1>12. LastAlone'
  BY <1>1, <1>2, Tearer DEF LifeInv, LastAlone, Last, Actors, Owing, Tearing
<1>13. OwnSpace'
  BY <1>1, <1>2, Outside, Inside DEF LifeInv, OwnSpace, Actors
<1>14. GroupKeepsSpace'
  BY <1>1, <1>2, Inside DEF LifeInv, GroupKeepsSpace, Actors, Led, IsLead
<1>15. Attended'
  BY <1>1, <1>2, Inside DEF LifeInv, Attended, Actors
<1>16. Housed'
  BY <1>1, <1>2, HousedSame DEF LifeInv, TypeOK, Actors
<1>17. Passed'
  <2>1. ASSUME NEW g \in groupExit', NEW q \in Slots, Due(q, g)',
               q \notin exiting' \cup torn'
        PROVE  /\ g \in groupExit /\ Due(q, g) /\ q \notin exiting \cup torn
               /\ Ahead(a, g, q) => Ahead(a, g, q)'
    <3>1. g \in groupExit /\ Due(q, g) /\ q \notin exiting \cup torn
      BY <1>1, <1>2, Inside, <2>1 DEF Due, LifeInv
    <3>2. Ahead(a, g, q) => Ahead(a, g, q)'
      BY <1>1, <1>2, <2>1, <3>1, Inside, Outside
      DEF Ahead, KillSteps, TearSteps, Terminal, Slots, Due
    <3> QED BY <3>1, <3>2
  <2> QED BY <1>1, <1>2, <2>1, PassKept
<1> QED BY <1>3, <1>4, <1>5, <1>6, <1>7, <1>8, <1>9, <1>10, <1>11, <1>12,
           <1>13, <1>14, <1>15, <1>16, <1>17 DEF LifeInv

\* The victim becomes a zombie.
LEMMA DoomKeeps ==
  ASSUME Unbroken, LifeInv, NEW a \in Actors, Doom(a)
  PROVE  LifeInv'
<1>1. /\ at[a] = "doom" /\ vic[a] \in Slots /\ vic[a] # a
      /\ vic[a] \in exiting
      /\ state[vic[a]] = "live" /\ vic[a] \notin onCpu /\ vic[a] \notin torn
      /\ IsLead(tgid[vic[a]])
      /\ \A b \in Actors : at[b] \in CloneSteps => b # vic[a]
      /\ \A b \in Actors : at[b] \in Owing => vic[b] # vic[a]
      /\ \A b \in Actors \ {a} : at[b] = "doom" => vic[b] # vic[a]
  BY Outside, NAssumption DEF LifeInv, Doom, Killing, KillSteps, Busy, Led,
     Cloning, OneOwner, Owns, Owing, CloneSteps, Actors
<1>2. /\ \A q \in Slots : state'[q] = IF q = vic[a] THEN "zombie" ELSE state[q]
      /\ \A b \in Actors : at'[b] = IF b = a THEN "mark" ELSE at[b]
      /\ UNCHANGED <<onCpu, tgid, pageDir, exiting, torn, groupExit, spaces,
             born, vic, tg, last, idx, grp>>
  BY <1>1, Outside DEF LifeInv, TypeOK, Doom, counts, Go, SetState, Terminal
<1>3. TypeOK'
  <2>1. /\ state' \in [Slots -> {"unused", "loading", "live", "zombie"}]
        /\ onCpu' \subseteq {q \in Slots : state'[q] # "loading"}
    BY <1>1, <1>2, NAssumption, Outside DEF LifeInv, TypeOK, Actors, Doom,
       counts, Go, SetState, Terminal, KillSteps, TearSteps, CloneSteps
  <2>2. at' \in [Actors -> {"idle"} \cup KillSteps \cup TearSteps
                             \cup CloneSteps]
    BY <1>1, <1>2, NAssumption, Outside DEF LifeInv, TypeOK, Actors, Doom,
       counts, Go, SetState, Terminal, KillSteps, TearSteps, CloneSteps
  <2> QED BY <1>1, <1>2, <2>1, <2>2 DEF LifeInv, TypeOK, Doom, counts, pcbVars,
          actVars
<1>4. Busy'
  BY <1>1, <1>2, Inside, Outside DEF LifeInv, Busy, Actors
<1>5. Cloning'
  BY <1>1, <1>2, Cloner, Outside DEF LifeInv, Cloning, CloneSteps, Actors
<1>6. Killing'
  BY <1>1, <1>2, Outside DEF LifeInv, Killing, KillSteps, Actors
<1>7. Tearing'
  BY <1>1, <1>2 DEF LifeInv, Tearing, TearSteps, Owing, Actors
<1>8. OneOwner'
  BY <1>1, <1>2 DEF LifeInv, OneOwner, Owns, Owing, Actors
<1>9. OneCloner'
  BY <1>1, <1>2, Cloner DEF LifeInv, OneCloner, CloneSteps, Actors
<1>10. Led'
  BY <1>1, <1>2 DEF LifeInv, Led, IsLead, Actors
<1>11. TornLed'
  BY <1>1, <1>2, Tearer DEF LifeInv, TornLed, IsLead, Last, Actors, Owing
<1>12. LastAlone'
  BY <1>1, <1>2, Tearer DEF LifeInv, LastAlone, Last, Actors, Owing, Tearing
<1>13. OwnSpace'
  BY <1>1, <1>2, Outside, Inside DEF LifeInv, OwnSpace, Actors
<1>14. GroupKeepsSpace'
  BY <1>1, <1>2, Inside DEF LifeInv, GroupKeepsSpace, Actors, Led, IsLead
<1>15. Attended'
  BY <1>1, <1>2, Inside DEF LifeInv, Attended, Actors
<1>16. Housed'
  <2>1. ASSUME NEW l \in Slots, state[l] # "unused", tgid[l] = l, Heir(l)
        PROVE  /\ state'[l] # "unused" /\ tgid'[l] = l /\ pageDir'[l] = pageDir[l]
               /\ Heir(l)'
    <3>1. state'[l] # "unused" /\ tgid'[l] = l /\ pageDir'[l] = pageDir[l]
      BY <1>1, <1>2, <2>1, Outside
    <3>2. CASE state[l] = "loading"
      BY <1>1, <1>2, <2>1, <3>1, <3>2 DEF Heir
    <3>3. CASE \E k \in Slots \ torn : state[k] = "live" /\ tgid[k] = l
      <4>1. PICK k \in Slots \ torn : state[k] = "live" /\ tgid[k] = l
        BY <3>3
      <4>2. CASE k = vic[a]
        <5>1. at'[a] = "mark" /\ tgid'[vic'[a]] = l
          BY <1>1, <1>2, <4>1, <4>2
        <5> QED BY <3>1, <5>1 DEF Heir
      <4>3. CASE k # vic[a]
        <5>1. k \in Slots \ torn' /\ state'[k] = "live" /\ tgid'[k] = l
          BY <1>1, <1>2, <4>1, <4>3
        <5> QED BY <3>1, <5>1 DEF Heir
      <4> QED BY <4>2, <4>3
    <3>4. CASE \E e \in Actors :
                 /\ at[e] = "mark" \/ (at[e] = "free" /\ last[e])
                 /\ tgid[vic[e]] = l
      <4>1. PICK e \in Actors :
              /\ at[e] = "mark" \/ (at[e] = "free" /\ last[e])
              /\ tgid[vic[e]] = l
        BY <3>4
      <4>2. /\ at'[e] = "mark" \/ (at'[e] = "free" /\ last'[e])
            /\ tgid'[vic'[e]] = l
        BY <1>1, <1>2, Tearer, <4>1 DEF Owing, Actors
      <4> QED BY <3>1, <4>2 DEF Heir
    <3> QED BY <2>1, <3>1, <3>2, <3>3, <3>4 DEF Heir
  <2> QED BY <1>1, <1>2, <2>1, HousedKept
<1>17. Passed'
  BY <1>1, <1>2, Inside DEF LifeInv, Passed, Due, Ahead, KillSteps, TearSteps,
     Actors
<1> QED BY <1>3, <1>4, <1>5, <1>6, <1>7, <1>8, <1>9, <1>10, <1>11, <1>12,
           <1>13, <1>14, <1>15, <1>16, <1>17 DEF LifeInv

\* A task is marked, and learns whether it is the last of its group.
LEMMA MarkKeeps ==
  ASSUME Unbroken, LifeInv, NEW a \in Actors, Mark(a)
  PROVE  LifeInv'
<1>1. at[a] = "mark" /\ at[a] \in Owing
  BY Outside, NAssumption DEF LifeInv, Mark, Owing
<1>2. /\ vic[a] \in Slots /\ tgid[vic[a]] \in Slots
      /\ vic[a] = a => a \in onCpu /\ state[a] = "live"
      /\ vic[a] # a => state[vic[a]] = "zombie" /\ vic[a] \in exiting
  BY <1>1, Tearer
<1>3. /\ \A b \in Actors \ {a} : at[b] = "mark" /\ vic[b] # b =>
                                 tgid[vic[b]] # tgid[vic[a]]
      /\ IsLead(tgid[vic[a]])
      /\ ~OtherUnclaimed(vic[a], tgid[vic[a]]) <=>
          \A k \in Slots \ torn :
            state[k] = "live" /\ tgid[k] = tgid[vic[a]] => k = vic[a]
  BY <1>1, <1>2, Tearer DEF Mark, Unbroken, LifeInv, TornLed, OtherUnclaimed,
     Counted
<1>4. \A b \in Actors \ {a} : at[b] = "mark" /\ vic[b] = b =>
          b \in Slots \ torn /\ state[b] = "live" /\ b # vic[a]
  BY <1>1, <1>2, <1>3, Tearer DEF Owing, LifeInv, Tearing
<1>5. ~OtherUnclaimed(vic[a], tgid[vic[a]]) =>
        \A b \in Actors \ {a} : at[b] = "mark" =>
                                   tgid[vic[b]] # tgid[vic[a]]
  BY <1>1, <1>2, <1>3, <1>4
<1>6. \A b \in Actors : Last(b) => tg[b] = tgid[vic[b]] /\ tg[b] # tgid[vic[a]]
  BY <1>1, <1>2, <1>3, <1>4, <1>5 DEF LifeInv, LastAlone, Tearing, Last
<1>7. /\ torn' = torn \cup {vic[a]}
      /\ \A b \in Actors : at'[b] = IF b = a THEN "free" ELSE at[b]
      /\ \A b \in Actors : tg'[b] = IF b = a THEN tgid[vic[a]] ELSE tg[b]
      /\ \A b \in Actors : last'[b] = IF b = a THEN ~OtherUnclaimed(vic[a],
             tgid[vic[a]]) ELSE last[b]
      /\ UNCHANGED <<state, onCpu, tgid, pageDir, exiting, groupExit, spaces,
             born, vic, idx, grp>>
  BY <1>1, <1>2, <1>3, <1>4, <1>5, <1>6, Outside DEF LifeInv, TypeOK, Mark,
     counts, Go
<1>8. TypeOK'
  <2>1. /\ exiting' \subseteq Slots /\ torn' \subseteq Slots
        /\ groupExit' \subseteq Slots /\ stamped' \subseteq Slots
    BY <1>1, <1>2, <1>3, <1>4, <1>5, <1>6, <1>7, NAssumption, Outside DEF
       LifeInv, TypeOK, Actors, Mark, counts, Go, KillSteps, TearSteps,
       CloneSteps
  <2>2. at' \in [Actors -> {"idle"} \cup KillSteps \cup TearSteps
                             \cup CloneSteps]
    BY <1>1, <1>2, <1>3, <1>4, <1>5, <1>6, <1>7, NAssumption, Outside DEF
       LifeInv, TypeOK, Actors, Mark, counts, Go, KillSteps, TearSteps,
       CloneSteps
  <2>3. /\ vic' \in [Actors -> Slots \cup {Nobody}]
        /\ tg' \in [Actors -> Slots \cup {Nobody}]
        /\ last' \in [Actors -> BOOLEAN]
    BY <1>1, <1>2, <1>3, <1>4, <1>5, <1>6, <1>7, NAssumption, Outside DEF
       LifeInv, TypeOK, Actors, Mark, counts, Go, KillSteps, TearSteps,
       CloneSteps
  <2> QED BY <1>1, <1>2, <1>3, <1>4, <1>5, <1>6, <1>7, <2>1, <2>2, <2>3 DEF
          LifeInv, TypeOK, Mark, counts, pcbVars, actVars
<1>9. Busy'
  BY <1>1, <1>2, <1>3, <1>4, <1>5, <1>6, <1>7, Inside, Outside DEF LifeInv,
     Busy, Actors
<1>10. Cloning'
  BY <1>1, <1>2, <1>3, <1>4, <1>5, <1>6, <1>7, Cloner, Outside DEF LifeInv,
     Cloning, CloneSteps, Actors
<1>11. Killing'
  BY <1>1, <1>2, <1>3, <1>4, <1>5, <1>6, <1>7, Outside DEF LifeInv, Killing,
     KillSteps, Actors
<1>12. Tearing'
  BY <1>1, <1>2, <1>3, <1>4, <1>5, <1>6, <1>7 DEF LifeInv, Tearing, TearSteps,
     Owing, Actors
<1>13. OneOwner'
  BY <1>1, <1>2, <1>3, <1>4, <1>5, <1>6, <1>7 DEF LifeInv, OneOwner, Owns,
     Owing, Actors
<1>14. OneCloner'
  BY <1>1, <1>2, <1>3, <1>4, <1>5, <1>6, <1>7, Cloner DEF LifeInv, OneCloner,
     CloneSteps, Actors
<1>15. Led'
  BY <1>1, <1>2, <1>3, <1>4, <1>5, <1>6, <1>7 DEF LifeInv, Led, IsLead, Actors
<1>16. TornLed'
  BY <1>1, <1>2, <1>3, <1>4, <1>5, <1>6, <1>7, Tearer DEF LifeInv, TornLed,
     IsLead, Last, Actors, Owing
<1>17. LastAlone'
  <2>1. ASSUME Last(a)'
        PROVE  /\ \A k \in Slots \ torn' : state'[k] = "live" => tgid'[k] # tg'[a]
               /\ \A b \in Actors : at'[b] = "mark" => tgid'[vic'[b]] # tg'[a]
               /\ \A b \in Actors \ {a} : Last(b)' => tg'[b] # tg'[a]
    <3>1. ~OtherUnclaimed(vic[a], tgid[vic[a]])
      BY <1>1, <1>2, <1>3, <1>4, <1>5, <1>6, <1>7, <2>1 DEF Last
    <3>2. tg'[a] = tgid[vic[a]]
      BY <1>1, <1>2, <1>3, <1>4, <1>5, <1>6, <1>7
    <3>3. \A k \in Slots \ torn' : state'[k] = "live" => tgid'[k] # tg'[a]
      BY <1>1, <1>2, <1>3, <1>4, <1>5, <1>6, <1>7, <3>1, <3>2
    <3>4. \A b \in Actors : at'[b] = "mark" => tgid'[vic'[b]] # tg'[a]
      BY <1>1, <1>2, <1>3, <1>4, <1>5, <1>6, <1>7, <3>1, <3>2
    <3>5. \A b \in Actors \ {a} : Last(b)' => tg'[b] # tg'[a]
      BY <1>1, <1>2, <1>3, <1>4, <1>5, <1>6, <1>7, <3>2 DEF Last
    <3> QED BY <3>3, <3>4, <3>5
  <2>2. ASSUME NEW b \in Actors \ {a}, Last(b)'
        PROVE  /\ \A k \in Slots \ torn' : state'[k] = "live" => tgid'[k] # tg'[b]
               /\ \A c \in Actors : at'[c] = "mark" => tgid'[vic'[c]] # tg'[b]
               /\ \A c \in Actors \ {b} : Last(c)' => tg'[c] # tg'[b]
    <3>1. Last(b) /\ tg'[b] = tg[b]
      BY <1>1, <1>2, <1>3, <1>4, <1>5, <1>6, <1>7, <2>2 DEF Last
    <3>2. /\ \A k \in Slots \ torn : state[k] = "live" => tgid[k] # tg[b]
          /\ \A c \in Actors : at[c] = "mark" => tgid[vic[c]] # tg[b]
          /\ \A c \in Actors \ {b} : Last(c) => tg[c] # tg[b]
      BY <3>1 DEF LifeInv, LastAlone
    <3>3. \A c \in Actors \ {b} : Last(c)' => tg'[c] # tg'[b]
      BY <1>1, <1>2, <1>3, <1>4, <1>5, <1>6, <1>7, <3>1, <3>2 DEF Last
    <3> QED BY <1>1, <1>2, <1>3, <1>4, <1>5, <1>6, <1>7, <3>1, <3>2, <3>3
  <2> QED BY <2>1, <2>2 DEF LastAlone
<1>18. OwnSpace'
  BY <1>1, <1>2, <1>3, <1>4, <1>5, <1>6, <1>7, Outside, Inside DEF LifeInv,
     OwnSpace, Actors
<1>19. GroupKeepsSpace'
  BY <1>1, <1>2, <1>3, <1>4, <1>5, <1>6, <1>7, Inside DEF LifeInv,
     GroupKeepsSpace, Actors, Led, IsLead
<1>20. Attended'
  BY <1>1, <1>2, <1>3, <1>4, <1>5, <1>6, <1>7, Inside DEF LifeInv, Attended,
     Actors
<1>21. Housed'
  <2>1. ASSUME NEW l \in Slots, state[l] # "unused", tgid[l] = l, Heir(l)
        PROVE  /\ state'[l] # "unused" /\ tgid'[l] = l /\ pageDir'[l] = pageDir[l]
               /\ Heir(l)'
    <3>1. state'[l] # "unused" /\ tgid'[l] = l /\ pageDir'[l] = pageDir[l]
      BY <1>1, <1>2, <1>3, <1>4, <1>5, <1>6, <1>7, <2>1, Outside
    <3>2. CASE l = tgid[vic[a]]
      <4>1. CASE OtherUnclaimed(vic[a], l)
        <5>1. \E k \in Slots \ torn' : state'[k] = "live" /\ tgid'[k] = l
          BY <1>1, <1>2, <1>3, <1>4, <1>5, <1>6, <1>7, <4>1 DEF OtherUnclaimed,
             Counted
        <5> QED BY <3>1, <5>1 DEF Heir
      <4>2. CASE ~OtherUnclaimed(vic[a], l)
        <5>1. at'[a] = "free" /\ last'[a] /\ tgid'[vic'[a]] = l
          BY <1>1, <1>2, <1>3, <1>4, <1>5, <1>6, <1>7, <3>2, <4>2
        <5> QED BY <3>1, <5>1 DEF Heir
      <4> QED BY <4>1, <4>2
    <3>3. CASE l # tgid[vic[a]] /\ state[l] = "loading"
      BY <1>1, <1>2, <1>3, <1>4, <1>5, <1>6, <1>7, <2>1, <3>1, <3>3 DEF Heir
    <3>4. CASE /\ l # tgid[vic[a]]
               /\ \E k \in Slots \ torn : state[k] = "live" /\ tgid[k] = l
      <4>1. \E k \in Slots \ torn' : state'[k] = "live" /\ tgid'[k] = l
        BY <1>1, <1>2, <1>3, <1>4, <1>5, <1>6, <1>7, <3>4
      <4> QED BY <3>1, <4>1 DEF Heir
    <3>5. ASSUME l # tgid[vic[a]], NEW e \in Actors,
                 at[e] = "mark" \/ (at[e] = "free" /\ last[e]), tgid[vic[e]] = l
          PROVE  Heir(l)'
      <4>1. /\ at'[e] = "mark" \/ (at'[e] = "free" /\ last'[e])
            /\ tgid'[vic'[e]] = l
        BY <1>1, <1>2, <1>3, <1>4, <1>5, <1>6, <1>7, <3>5
      <4> QED BY <3>1, <4>1 DEF Heir
    <3> QED BY <2>1, <3>1, <3>2, <3>3, <3>4, <3>5 DEF Heir
  <2> QED BY <1>1, <1>2, <1>3, <1>4, <1>5, <1>6, <1>7, <2>1, HousedKept
<1>22. Passed'
  <2>1. ASSUME NEW g \in groupExit', NEW q \in Slots, Due(q, g)',
               q \notin exiting' \cup torn'
        PROVE  /\ g \in groupExit /\ Due(q, g) /\ q \notin exiting \cup torn
               /\ Ahead(a, g, q) => Ahead(a, g, q)'
    <3>1. g \in groupExit /\ Due(q, g) /\ q \notin exiting \cup torn
      BY <1>1, <1>2, <1>3, <1>4, <1>5, <1>6, <1>7, Inside, <2>1 DEF Due,
         LifeInv
    <3>2. Ahead(a, g, q) => Ahead(a, g, q)'
      BY <1>1, <1>2, <1>3, <1>4, <1>5, <1>6, <1>7, <2>1, <3>1, Inside, Outside
      DEF Ahead, KillSteps, TearSteps, Terminal, Slots, Due
    <3> QED BY <3>1, <3>2
  <2> QED BY <1>1, <1>2, <1>3, <1>4, <1>5, <1>6, <1>7, <2>1, PassKept
<1> QED BY <1>8, <1>9, <1>10, <1>11, <1>12, <1>13, <1>14, <1>15, <1>16, <1>17,
           <1>18, <1>19, <1>20, <1>21, <1>22 DEF LifeInv

\* The last of a group frees its address space.
LEMMA FreeLastKeeps ==
  ASSUME Unbroken, LifeInv, NEW a \in Actors, FreeGroup(a), last[a]
  PROVE  LifeInv'
<1>1. at[a] = "free" /\ at[a] \in Owing /\ Last(a)
  BY Outside, NAssumption DEF LifeInv, FreeGroup, Owing, Last
<1>2. /\ vic[a] \in Slots /\ tgid[vic[a]] \in Slots
      /\ vic[a] = a => a \in onCpu /\ state[a] = "live"
      /\ vic[a] # a => state[vic[a]] = "zombie" /\ vic[a] \in exiting
  BY <1>1, Tearer
<1>3. vic[a] \in torn /\ tg[a] = tgid[vic[a]]
  BY <1>1, <1>2, Tearer DEF LifeInv, Tearing
<1>4. /\ IsLead(tg[a]) /\ state[vic[a]] # "loading"
      /\ \A k \in Slots \ torn : state[k] = "live" => tgid[k] # tg[a]
      /\ \A b \in Actors \ {a} : at[b] = "mark" \/ Last(b) => tgid[vic[b]] # tg[a]
  BY <1>1, <1>2, <1>3, Tearer DEF LifeInv, TornLed, LastAlone, Tearing, Last,
     Owing
<1>5. \A b \in Actors : at[b] = "free" /\ last[b] => Last(b)
  BY <1>1, <1>2, <1>3, <1>4 DEF Last
<1>6. /\ \A q \in Slots : pageDir'[q] = IF q \in {tg[a], vic[a]} THEN 0 ELSE
             pageDir[q]
      /\ spaces' = spaces \ {pageDir[tg[a]]}
      /\ \A b \in Actors : at'[b] = IF b = a THEN "retire" ELSE at[b]
      /\ UNCHANGED <<state, onCpu, tgid, exiting, torn, groupExit, born, vic, tg,
             last, idx, grp>>
  BY <1>1, <1>2, <1>3, <1>4, <1>5, Outside DEF LifeInv, TypeOK, FreeGroup,
     counts, Go, Strips
<1>7. TypeOK'
  <2>1. /\ tgid' \in [Slots -> Slots \cup {Nobody}]
        /\ parent' \in [Slots -> {Shell, Desktop, Nobody}]
        /\ pageDir' \in [Slots -> 0..MaxBorn]
    BY <1>1, <1>2, <1>3, <1>4, <1>5, <1>6, NAssumption, Outside DEF LifeInv,
       TypeOK, Actors, FreeGroup, counts, Go, Strips, KillSteps, TearSteps,
       CloneSteps
  <2>2. /\ spaces' \subseteq 1..MaxBorn /\ born' \in 0..MaxBorn
        /\ kills' \in 0..MaxKills
    BY <1>1, <1>2, <1>3, <1>4, <1>5, <1>6, NAssumption, Outside DEF LifeInv,
       TypeOK, Actors, FreeGroup, counts, Go, Strips, KillSteps, TearSteps,
       CloneSteps
  <2>3. at' \in [Actors -> {"idle"} \cup KillSteps \cup TearSteps
                             \cup CloneSteps]
    BY <1>1, <1>2, <1>3, <1>4, <1>5, <1>6, NAssumption, Outside DEF LifeInv,
       TypeOK, Actors, FreeGroup, counts, Go, Strips, KillSteps, TearSteps,
       CloneSteps
  <2> QED BY <1>1, <1>2, <1>3, <1>4, <1>5, <1>6, <2>1, <2>2, <2>3 DEF LifeInv,
          TypeOK, FreeGroup, counts, pcbVars, actVars
<1>8. Busy'
  BY <1>1, <1>2, <1>3, <1>4, <1>5, <1>6, Inside, Outside DEF LifeInv, Busy,
     Actors
<1>9. Cloning'
  <2>1. ASSUME NEW b \in Actors, at'[b] \in CloneSteps
        PROVE  /\ at'[b] = at[b] /\ vic'[b] = vic[b] /\ state'[vic[b]] = "loading"
               /\ tgid'[b] = tgid[b] /\ tgid'[vic[b]] = tgid[vic[b]]
               /\ pageDir'[vic[b]] = pageDir[vic[b]]
               /\ pageDir'[tgid[b]] = pageDir[tgid[b]]
    <3>1. b # a /\ at'[b] = at[b] /\ at[b] \in CloneSteps
      BY <1>1, <1>2, <1>3, <1>4, <1>5, <1>6, <2>1 DEF CloneSteps
    <3>2. /\ b \in Slots /\ b \notin torn /\ state[b] = "live" /\ IsLead(tgid[b])
          /\ vic[b] \in Slots /\ state[vic[b]] = "loading"
      BY <3>1, Cloner
    <3>3. vic[b] # vic[a] /\ vic[b] # tg[a]
      BY <1>1, <1>2, <1>3, <1>4, <1>5, <1>6, <3>2 DEF IsLead
    <3>4. pageDir'[tgid[b]] = pageDir[tgid[b]]
      BY <1>1, <1>2, <1>3, <1>4, <1>5, <1>6, <3>2 DEF IsLead
    <3> QED BY <1>1, <1>2, <1>3, <1>4, <1>5, <1>6, <3>1, <3>2, <3>3, <3>4
  <2> QED BY <2>1, CloningKept
<1>10. Killing'
  BY <1>1, <1>2, <1>3, <1>4, <1>5, <1>6, Outside DEF LifeInv, Killing,
     KillSteps, Actors
<1>11. Tearing'
  BY <1>1, <1>2, <1>3, <1>4, <1>5, <1>6 DEF LifeInv, Tearing, TearSteps, Owing,
     Actors
<1>12. OneOwner'
  BY <1>1, <1>2, <1>3, <1>4, <1>5, <1>6 DEF LifeInv, OneOwner, Owns, Owing,
     Actors
<1>13. OneCloner'
  BY <1>1, <1>2, <1>3, <1>4, <1>5, <1>6, Cloner DEF LifeInv, OneCloner,
     CloneSteps, Actors
<1>14. Led'
  BY <1>1, <1>2, <1>3, <1>4, <1>5, <1>6 DEF LifeInv, Led, IsLead, Actors
<1>15. TornLed'
  BY <1>1, <1>2, <1>3, <1>4, <1>5, <1>6, Tearer DEF LifeInv, TornLed, IsLead,
     Last, Actors, Owing
<1>16. LastAlone'
  BY <1>1, <1>2, <1>3, <1>4, <1>5, <1>6, Tearer DEF LifeInv, LastAlone, Last,
     Actors, Owing, Tearing
<1>17. OwnSpace'
  <2>1. spaces' \subseteq 1..born' /\ \A q \in Slots : pageDir'[q] \in 0..born'
    <3>1. spaces \subseteq 1..born /\ \A q \in Slots : pageDir[q] \in 0..born
      BY DEF LifeInv, OwnSpace
    <3>2. spaces' \subseteq 1..born'
      BY <1>1, <1>2, <1>3, <1>4, <1>5, <1>6, <3>1
    <3>3. \A q \in Slots : pageDir'[q] \in 0..born'
      BY <1>1, <1>2, <1>3, <1>4, <1>5, <1>6, <3>1, Inside
    <3> QED BY <3>2, <3>3
  <2>2. \A q, r \in Slots :
          /\ state'[q] # "unused" /\ tgid'[q] = q
          /\ state'[r] # "unused" /\ tgid'[r] = r
          /\ pageDir'[q] = pageDir'[r]
          => q = r \/ pageDir'[q] = 0
    BY <1>1, <1>2, <1>3, <1>4, <1>5, <1>6 DEF LifeInv, OwnSpace
  <2>3. ASSUME NEW q \in Slots, state'[q] = "loading", tgid'[q] = q
        PROVE  pageDir'[q] \in spaces'
    <3>1. q # vic[a] /\ q # tg[a] /\ pageDir[q] \in spaces /\ state[q] = "loading"
      BY <1>1, <1>2, <1>3, <1>4, <1>5, <1>6, <2>3 DEF LifeInv, OwnSpace, IsLead
    <3>2. pageDir[q] # pageDir[tg[a]]
      BY <1>1, <1>2, <1>3, <1>4, <1>5, <1>6, <2>3, <3>1 DEF LifeInv, OwnSpace,
         IsLead
    <3> QED BY <1>1, <1>2, <1>3, <1>4, <1>5, <1>6, <3>1, <3>2
  <2> QED BY <2>1, <2>2, <2>3 DEF OwnSpace
<1>18. GroupKeepsSpace'
  <2>1. ASSUME NEW k \in Slots \ torn', state'[k] = "live"
        PROVE  /\ k \notin torn /\ state[k] = "live"
               /\ tgid'[k] = tgid[k] /\ pageDir'[k] = pageDir[k]
               /\ pageDir'[tgid[k]] = pageDir[tgid[k]]
               /\ pageDir[k] \in spaces => pageDir[k] \in spaces'
    <3>1. k \notin torn /\ state[k] = "live" /\ IsLead(tgid[k])
      BY <1>1, <1>2, <1>3, <1>4, <1>5, <1>6, <2>1 DEF LifeInv, Led
    <3>2. tgid[k] # tg[a] /\ tgid[k] # vic[a] /\ k # vic[a] /\ k # tg[a]
      BY <1>1, <1>2, <1>3, <1>4, <1>5, <1>6, <3>1 DEF IsLead
    <3>3. pageDir[tgid[k]] = pageDir[k] /\ pageDir[k] \in spaces
      BY <3>1 DEF LifeInv, GroupKeepsSpace
    <3>4. pageDir[k] # pageDir[tg[a]]
      BY <1>1, <1>2, <1>3, <1>4, <1>5, <1>6, <3>1, <3>2, <3>3 DEF LifeInv,
         OwnSpace, IsLead
    <3> QED BY <1>1, <1>2, <1>3, <1>4, <1>5, <1>6, <3>1, <3>2, <3>3, <3>4 DEF
               IsLead
  <2> QED BY <2>1, SpaceKept
<1>19. Attended'
  BY <1>1, <1>2, <1>3, <1>4, <1>5, <1>6, Inside DEF LifeInv, Attended, Actors
<1>20. Housed'
  <2>1. ASSUME NEW l \in Slots, state[l] # "unused", tgid[l] = l,
               pageDir[l] \in spaces', Heir(l)
        PROVE  /\ state'[l] # "unused" /\ tgid'[l] = l /\ pageDir'[l] = pageDir[l]
               /\ Heir(l)'
    <3>1. state'[l] # "unused" /\ tgid'[l] = l /\ pageDir'[l] = pageDir[l]
      BY <1>1, <1>2, <1>3, <1>4, <1>5, <1>6, <2>1, Outside
    <3>2. CASE state[l] = "loading"
      BY <1>1, <1>2, <1>3, <1>4, <1>5, <1>6, <2>1, <3>1, <3>2 DEF Heir
    <3>3. CASE \E k \in Slots \ torn : state[k] = "live" /\ tgid[k] = l
      <4>1. \E k \in Slots \ torn' : state'[k] = "live" /\ tgid'[k] = l
        BY <1>1, <1>2, <1>3, <1>4, <1>5, <1>6, <3>3
      <4> QED BY <3>1, <4>1 DEF Heir
    <3>4. ASSUME NEW e \in Actors, at[e] = "mark" \/ (at[e] = "free" /\ last[e]),
                 tgid[vic[e]] = l
          PROVE  Heir(l)'
      <4>1. /\ at'[e] = "mark" \/ (at'[e] = "free" /\ last'[e])
            /\ tgid'[vic'[e]] = l
        BY <1>1, <1>2, <1>3, <1>4, <1>5, <1>6, <2>1, <3>4
      <4> QED BY <3>1, <4>1 DEF Heir
    <3> QED BY <2>1, <3>1, <3>2, <3>3, <3>4 DEF Heir
  <2> QED BY <1>1, <1>2, <1>3, <1>4, <1>5, <1>6, <2>1, HousedKept
<1>21. Passed'
  <2>1. ASSUME NEW g \in groupExit', NEW q \in Slots, Due(q, g)',
               q \notin exiting' \cup torn'
        PROVE  /\ g \in groupExit /\ Due(q, g) /\ q \notin exiting \cup torn
               /\ Ahead(a, g, q) => Ahead(a, g, q)'
    <3>1. g \in groupExit /\ Due(q, g) /\ q \notin exiting \cup torn
      BY <1>1, <1>2, <1>3, <1>4, <1>5, <1>6, Inside, <2>1 DEF Due, LifeInv
    <3>2. Ahead(a, g, q) => Ahead(a, g, q)'
      BY <1>1, <1>2, <1>3, <1>4, <1>5, <1>6, <2>1, <3>1, Inside, Outside
      DEF Ahead, KillSteps, TearSteps, Terminal, Slots, Due
    <3> QED BY <3>1, <3>2
  <2> QED BY <1>1, <1>2, <1>3, <1>4, <1>5, <1>6, <2>1, PassKept
<1> QED BY <1>7, <1>8, <1>9, <1>10, <1>11, <1>12, <1>13, <1>14, <1>15, <1>16,
           <1>17, <1>18, <1>19, <1>20, <1>21 DEF LifeInv

\* One that is not the last lets go of the address space.
LEMMA FreePartKeeps ==
  ASSUME Unbroken, LifeInv, NEW a \in Actors, FreeGroup(a), ~last[a]
  PROVE  LifeInv'
<1>1. at[a] = "free" /\ at[a] \in Owing
  BY Outside, NAssumption DEF LifeInv, FreeGroup, Owing
<1>2. /\ vic[a] \in Slots /\ tgid[vic[a]] \in Slots
      /\ vic[a] = a => a \in onCpu /\ state[a] = "live"
      /\ vic[a] # a => state[vic[a]] = "zombie" /\ vic[a] \in exiting
  BY <1>1, Tearer
<1>3. vic[a] \in torn /\ tg[a] = tgid[vic[a]]
  BY <1>1, <1>2, Tearer DEF LifeInv, Tearing
<1>4. /\ \A q \in Slots : pageDir'[q] = IF q = vic[a] /\ q # tg[a] THEN 0 ELSE
             pageDir[q]
      /\ \A b \in Actors : at'[b] = IF b = a THEN "retire" ELSE at[b]
      /\ UNCHANGED <<state, onCpu, tgid, exiting, torn, groupExit, spaces, born,
             vic, tg, last, idx, grp>>
  BY <1>1, <1>2, <1>3, Outside DEF LifeInv, TypeOK, FreeGroup, counts, Go,
     Strips
<1>5. TypeOK'
  <2>1. /\ tgid' \in [Slots -> Slots \cup {Nobody}]
        /\ parent' \in [Slots -> {Shell, Desktop, Nobody}]
        /\ pageDir' \in [Slots -> 0..MaxBorn]
    BY <1>1, <1>2, <1>3, <1>4, NAssumption, Outside DEF LifeInv, TypeOK,
       Actors, FreeGroup, counts, Go, Strips, KillSteps, TearSteps, CloneSteps
  <2>2. at' \in [Actors -> {"idle"} \cup KillSteps \cup TearSteps
                             \cup CloneSteps]
    BY <1>1, <1>2, <1>3, <1>4, NAssumption, Outside DEF LifeInv, TypeOK,
       Actors, FreeGroup, counts, Go, Strips, KillSteps, TearSteps, CloneSteps
  <2> QED BY <1>1, <1>2, <1>3, <1>4, <2>1, <2>2 DEF LifeInv, TypeOK, FreeGroup,
          counts, pcbVars, actVars
<1>6. Busy'
  BY <1>1, <1>2, <1>3, <1>4, Inside, Outside DEF LifeInv, Busy, Actors
<1>7. Cloning'
  <2>1. ASSUME NEW b \in Actors, at'[b] \in CloneSteps
        PROVE  /\ at'[b] = at[b] /\ vic'[b] = vic[b] /\ state'[vic[b]] = "loading"
               /\ tgid'[b] = tgid[b] /\ tgid'[vic[b]] = tgid[vic[b]]
               /\ pageDir'[vic[b]] = pageDir[vic[b]]
               /\ pageDir'[tgid[b]] = pageDir[tgid[b]]
    <3>1. b # a /\ at'[b] = at[b] /\ at[b] \in CloneSteps
      BY <1>1, <1>2, <1>3, <1>4, <2>1 DEF CloneSteps
    <3>2. /\ b \in Slots /\ b \notin torn /\ state[b] = "live" /\ IsLead(tgid[b])
          /\ vic[b] \in Slots /\ state[vic[b]] = "loading"
      BY <3>1, Cloner
    <3>3. vic[b] # vic[a]
      BY <1>1, <1>2, <1>3, <1>4, <3>2 DEF IsLead
    <3>4. pageDir'[tgid[b]] = pageDir[tgid[b]]
      BY <1>1, <1>2, <1>3, <1>4, <3>2 DEF IsLead
    <3> QED BY <1>1, <1>2, <1>3, <1>4, <3>1, <3>2, <3>3, <3>4
  <2> QED BY <2>1, CloningKept
<1>8. Killing'
  BY <1>1, <1>2, <1>3, <1>4, Outside DEF LifeInv, Killing, KillSteps, Actors
<1>9. Tearing'
  BY <1>1, <1>2, <1>3, <1>4 DEF LifeInv, Tearing, TearSteps, Owing, Actors
<1>10. OneOwner'
  BY <1>1, <1>2, <1>3, <1>4 DEF LifeInv, OneOwner, Owns, Owing, Actors
<1>11. OneCloner'
  BY <1>1, <1>2, <1>3, <1>4, Cloner DEF LifeInv, OneCloner, CloneSteps, Actors
<1>12. Led'
  BY <1>1, <1>2, <1>3, <1>4 DEF LifeInv, Led, IsLead, Actors
<1>13. TornLed'
  BY <1>1, <1>2, <1>3, <1>4, Tearer DEF LifeInv, TornLed, IsLead, Last, Actors,
     Owing
<1>14. LastAlone'
  BY <1>1, <1>2, <1>3, <1>4, Tearer DEF LifeInv, LastAlone, Last, Actors,
     Owing, Tearing
<1>15. OwnSpace'
  <2>1. spaces' \subseteq 1..born' /\ \A q \in Slots : pageDir'[q] \in 0..born'
    <3>1. spaces \subseteq 1..born /\ \A q \in Slots : pageDir[q] \in 0..born
      BY DEF LifeInv, OwnSpace
    <3>2. spaces' \subseteq 1..born'
      BY <1>1, <1>2, <1>3, <1>4, <3>1
    <3>3. \A q \in Slots : pageDir'[q] \in 0..born'
      BY <1>1, <1>2, <1>3, <1>4, <3>1, Inside
    <3> QED BY <3>2, <3>3
  <2>2. \A q, r \in Slots :
          /\ state'[q] # "unused" /\ tgid'[q] = q
          /\ state'[r] # "unused" /\ tgid'[r] = r
          /\ pageDir'[q] = pageDir'[r]
          => q = r \/ pageDir'[q] = 0
    BY <1>1, <1>2, <1>3, <1>4 DEF LifeInv, OwnSpace
  <2>3. \A q \in Slots :
          state'[q] = "loading" /\ tgid'[q] = q => pageDir'[q] \in spaces'
    BY <1>1, <1>2, <1>3, <1>4 DEF LifeInv, OwnSpace
  <2> QED BY <2>1, <2>2, <2>3 DEF OwnSpace
<1>16. GroupKeepsSpace'
  <2>1. ASSUME NEW k \in Slots \ torn', state'[k] = "live"
        PROVE  /\ k \notin torn /\ state[k] = "live"
               /\ tgid'[k] = tgid[k] /\ pageDir'[k] = pageDir[k]
               /\ pageDir'[tgid[k]] = pageDir[tgid[k]]
               /\ pageDir[k] \in spaces => pageDir[k] \in spaces'
    <3>1. k \notin torn /\ state[k] = "live" /\ IsLead(tgid[k])
      BY <1>1, <1>2, <1>3, <1>4, <2>1 DEF LifeInv, Led
    <3>2. k # vic[a] /\ (tgid[k] # vic[a] \/ vic[a] = tg[a])
      BY <1>1, <1>2, <1>3, <1>4, <3>1 DEF IsLead
    <3>3. pageDir[tgid[k]] = pageDir[k] /\ pageDir[k] \in spaces
      BY <3>1 DEF LifeInv, GroupKeepsSpace
    <3> QED BY <1>1, <1>2, <1>3, <1>4, <3>1, <3>2, <3>3 DEF IsLead
  <2> QED BY <2>1, SpaceKept
<1>17. Attended'
  BY <1>1, <1>2, <1>3, <1>4, Inside DEF LifeInv, Attended, Actors
<1>18. Housed'
  <2>1. ASSUME NEW l \in Slots, state[l] # "unused", tgid[l] = l,
               pageDir[l] \in spaces', Heir(l)
        PROVE  /\ state'[l] # "unused" /\ tgid'[l] = l /\ pageDir'[l] = pageDir[l]
               /\ Heir(l)'
    <3>1. state'[l] # "unused" /\ tgid'[l] = l /\ pageDir'[l] = pageDir[l]
      BY <1>1, <1>2, <1>3, <1>4, <2>1, Outside
    <3>2. CASE state[l] = "loading"
      BY <1>1, <1>2, <1>3, <1>4, <2>1, <3>1, <3>2 DEF Heir
    <3>3. CASE \E k \in Slots \ torn : state[k] = "live" /\ tgid[k] = l
      <4>1. \E k \in Slots \ torn' : state'[k] = "live" /\ tgid'[k] = l
        BY <1>1, <1>2, <1>3, <1>4, <3>3
      <4> QED BY <3>1, <4>1 DEF Heir
    <3>4. ASSUME NEW e \in Actors, at[e] = "mark" \/ (at[e] = "free" /\ last[e]),
                 tgid[vic[e]] = l
          PROVE  Heir(l)'
      <4>1. /\ at'[e] = "mark" \/ (at'[e] = "free" /\ last'[e])
            /\ tgid'[vic'[e]] = l
        BY <1>1, <1>2, <1>3, <1>4, <2>1, <3>4
      <4> QED BY <3>1, <4>1 DEF Heir
    <3> QED BY <2>1, <3>1, <3>2, <3>3, <3>4 DEF Heir
  <2> QED BY <1>1, <1>2, <1>3, <1>4, <2>1, HousedKept
<1>19. Passed'
  <2>1. ASSUME NEW g \in groupExit', NEW q \in Slots, Due(q, g)',
               q \notin exiting' \cup torn'
        PROVE  /\ g \in groupExit /\ Due(q, g) /\ q \notin exiting \cup torn
               /\ Ahead(a, g, q) => Ahead(a, g, q)'
    <3>1. g \in groupExit /\ Due(q, g) /\ q \notin exiting \cup torn
      BY <1>1, <1>2, <1>3, <1>4, Inside, <2>1 DEF Due, LifeInv
    <3>2. Ahead(a, g, q) => Ahead(a, g, q)'
      BY <1>1, <1>2, <1>3, <1>4, <2>1, <3>1, Inside, Outside
      DEF Ahead, KillSteps, TearSteps, Terminal, Slots, Due
    <3> QED BY <3>1, <3>2
  <2> QED BY <1>1, <1>2, <1>3, <1>4, <2>1, PassKept
<1> QED BY <1>5, <1>6, <1>7, <1>8, <1>9, <1>10, <1>11, <1>12, <1>13, <1>14,
           <1>15, <1>16, <1>17, <1>18, <1>19 DEF LifeInv

\* A lead that its parent may reap, or that others outlive, is a zombie.
LEMMA RetireZombieKeeps ==
  ASSUME Unbroken, LifeInv, NEW a \in Actors, Retire(a), vic[a] = tg[a],
         ParentAlive(vic[a]) \/ ~last[a]
  PROVE  LifeInv'
<1>1. at[a] = "retire" /\ at[a] \in Owing
  BY Outside, NAssumption DEF LifeInv, Retire, Owing
<1>2. /\ vic[a] \in Slots /\ tgid[vic[a]] \in Slots
      /\ vic[a] = a => a \in onCpu /\ state[a] = "live"
      /\ vic[a] # a => state[vic[a]] = "zombie" /\ vic[a] \in exiting
  BY <1>1, Tearer
<1>3. /\ vic[a] \in torn /\ tg[a] = tgid[vic[a]]
      /\ vic[a] = tg[a] => IsLead(tg[a])
      /\ \A b \in Actors \ {a} : at[b] \in Owing => vic[b] # vic[a]
      /\ \A b \in Actors : at[b] = "doom" => vic[b] # vic[a]
      /\ \A b \in Actors : at[b] \in CloneSteps => b # vic[a] /\ vic[b] # vic[a]
  BY <1>1, <1>2, Tearer, Cloner DEF LifeInv, Tearing, OneOwner, Owns, Killing,
     IsLead, Owing
<1>4. /\ state' = [state EXCEPT ![vic[a]] = "zombie"]
      /\ at' = [at EXCEPT ![a] = "notify"]
  BY <1>1, <1>2, <1>3, Tearer DEF Retire, Pins, SetState, Terminal, Go,
     LifeInv, TypeOK
<1>5. /\ \A q \in Slots : state'[q] = IF q = vic[a] THEN "zombie" ELSE state[q]
      /\ \A b \in Actors : at'[b] = IF b = a THEN "notify" ELSE at[b]
      /\ UNCHANGED <<onCpu, tgid, pageDir, exiting, torn, groupExit, spaces,
             born, vic, tg, last, idx, grp>>
  BY <1>1, <1>2, <1>3, <1>4, Outside DEF LifeInv, TypeOK, Retire, counts
<1>6. TypeOK'
  <2>1. /\ state' \in [Slots -> {"unused", "loading", "live", "zombie"}]
        /\ onCpu' \subseteq {q \in Slots : state'[q] # "loading"}
    BY <1>1, <1>2, <1>3, <1>4, <1>5, NAssumption, Outside DEF LifeInv, TypeOK,
       Actors, Retire, counts, KillSteps, TearSteps, CloneSteps
  <2>2. at' \in [Actors -> {"idle"} \cup KillSteps \cup TearSteps
                             \cup CloneSteps]
    BY <1>1, <1>2, <1>3, <1>4, <1>5, NAssumption, Outside DEF LifeInv, TypeOK,
       Actors, Retire, counts, KillSteps, TearSteps, CloneSteps
  <2> QED BY <1>1, <1>2, <1>3, <1>4, <1>5, <2>1, <2>2 DEF LifeInv, TypeOK,
          Retire, counts, pcbVars, actVars
<1>7. Busy'
  BY <1>1, <1>2, <1>3, <1>4, <1>5, Inside, Outside DEF LifeInv, Busy, Actors
<1>8. Cloning'
  BY <1>1, <1>2, <1>3, <1>4, <1>5, Cloner, Outside DEF LifeInv, Cloning,
     CloneSteps, Actors
<1>9. Killing'
  BY <1>1, <1>2, <1>3, <1>4, <1>5, Outside DEF LifeInv, Killing, KillSteps,
     Actors
<1>10. Tearing'
  BY <1>1, <1>2, <1>3, <1>4, <1>5 DEF LifeInv, Tearing, TearSteps, Owing,
     Actors
<1>11. OneOwner'
  BY <1>1, <1>2, <1>3, <1>4, <1>5 DEF LifeInv, OneOwner, Owns, Owing, Actors
<1>12. OneCloner'
  BY <1>1, <1>2, <1>3, <1>4, <1>5, Cloner DEF LifeInv, OneCloner, CloneSteps,
     Actors
<1>13. Led'
  BY <1>1, <1>2, <1>3, <1>4, <1>5 DEF LifeInv, Led, IsLead, Actors
<1>14. TornLed'
  BY <1>1, <1>2, <1>3, <1>4, <1>5, Tearer DEF LifeInv, TornLed, IsLead, Last,
     Actors, Owing
<1>15. LastAlone'
  BY <1>1, <1>2, <1>3, <1>4, <1>5, Tearer DEF LifeInv, LastAlone, Last, Actors,
     Owing, Tearing
<1>16. OwnSpace'
  BY <1>1, <1>2, <1>3, <1>4, <1>5, Outside, Inside DEF LifeInv, OwnSpace,
     Actors
<1>17. GroupKeepsSpace'
  BY <1>1, <1>2, <1>3, <1>4, <1>5, Inside DEF LifeInv, GroupKeepsSpace, Actors,
     Led, IsLead
<1>18. Attended'
  BY <1>1, <1>2, <1>3, <1>4, <1>5, Inside DEF LifeInv, Attended, Actors
<1>19. Housed'
  <2>1. \A l \in Slots : state[l] # "unused" /\ tgid[l] = l /\ Heir(l) =>
          /\ state'[l] # "unused" /\ tgid'[l] = l /\ pageDir'[l] = pageDir[l]
          /\ state[l] = "loading" => Heir(l)'
    BY <1>1, <1>2, <1>3, <1>4, <1>5, Outside DEF Heir
  <2>2. \A k \in Slots \ torn : state[k] = "live" =>
          k \notin torn' /\ state'[k] = "live" /\ tgid'[k] = tgid[k]
    BY <1>1, <1>2, <1>3, <1>4, <1>5
  <2>3. \A e \in Actors : at[e] = "mark" \/ (at[e] = "free" /\ last[e]) =>
          /\ at'[e] = "mark" \/ (at'[e] = "free" /\ last'[e])
          /\ tgid'[vic'[e]] = tgid[vic[e]]
    BY <1>1, <1>2, <1>3, <1>4, <1>5, Tearer DEF Owing
  <2> QED BY <1>1, <1>2, <1>3, <1>4, <1>5, <2>1, <2>2, <2>3, HeirsKept
<1>20. Passed'
  <2>1. ASSUME NEW g \in groupExit', NEW q \in Slots, Due(q, g)',
               q \notin exiting' \cup torn'
        PROVE  /\ g \in groupExit /\ Due(q, g) /\ q \notin exiting \cup torn
               /\ Ahead(a, g, q) => Ahead(a, g, q)'
    <3>1. g \in groupExit /\ Due(q, g) /\ q \notin exiting \cup torn
      BY <1>1, <1>2, <1>3, <1>4, <1>5, Inside, <2>1 DEF Due, LifeInv
    <3>2. Ahead(a, g, q) => Ahead(a, g, q)'
      BY <1>1, <1>2, <1>3, <1>4, <1>5, <2>1, <3>1, Inside, Outside
      DEF Ahead, KillSteps, TearSteps, Terminal, Slots, Due
    <3> QED BY <3>1, <3>2
  <2> QED BY <1>1, <1>2, <1>3, <1>4, <1>5, <2>1, PassKept
<1> QED BY <1>6, <1>7, <1>8, <1>9, <1>10, <1>11, <1>12, <1>13, <1>14, <1>15,
           <1>16, <1>17, <1>18, <1>19, <1>20 DEF LifeInv

\* Any other is out of the table, and leads nobody by then.
LEMMA RetireKeeps ==
  ASSUME Unbroken, LifeInv, NEW a \in Actors, Retire(a),
         ~(vic[a] = tg[a] /\ (ParentAlive(vic[a]) \/ ~last[a]))
  PROVE  LifeInv'
<1>1. at[a] = "retire" /\ at[a] \in Owing
  BY Outside, NAssumption DEF LifeInv, Retire, Owing
<1>2. /\ vic[a] \in Slots /\ tgid[vic[a]] \in Slots
      /\ vic[a] = a => a \in onCpu /\ state[a] = "live"
      /\ vic[a] # a => state[vic[a]] = "zombie" /\ vic[a] \in exiting
  BY <1>1, Tearer
<1>3. /\ vic[a] \in torn /\ tg[a] = tgid[vic[a]]
      /\ vic[a] = tg[a] => IsLead(tg[a])
      /\ \A b \in Actors \ {a} : at[b] \in Owing => vic[b] # vic[a]
      /\ \A b \in Actors : at[b] = "doom" => vic[b] # vic[a]
      /\ \A b \in Actors : at[b] \in CloneSteps => b # vic[a] /\ vic[b] # vic[a]
  BY <1>1, <1>2, Tearer, Cloner DEF LifeInv, Tearing, OneOwner, Owns, Killing,
     IsLead, Owing
<1>4. /\ vic[a] = tg[a] => Last(a)
      /\ vic[a] = tg[a] =>
          \A k \in Slots \ {vic[a]} : state[k] = "live" => tgid[k] # vic[a]
  BY <1>1, <1>2, <1>3 DEF Retire, Last, Counted, Unbroken
<1>5. vic[a] # tg[a] => ~IsLead(vic[a])
  BY <1>1, <1>2, <1>3, <1>4 DEF IsLead
<1>6. /\ \A k \in Slots \ {vic[a]} : state[k] = "live" => tgid[k] # vic[a]
      /\ \A b \in Actors \ {a} : at[b] = "mark" \/ Last(b) => tgid[vic[b]] # vic[a]
  BY <1>1, <1>2, <1>3, <1>4, <1>5, Tearer DEF LifeInv, LastAlone, Led, TornLed,
     Tearing, Last, Owing
<1>7. vic[a] = tgid[vic[a]] => ~Heir(vic[a])
  BY <1>1, <1>2, <1>3, <1>4, <1>5, <1>6 DEF Heir, Last
<1>8. /\ state' = [state EXCEPT ![vic[a]] = "unused"]
      /\ at' = [at EXCEPT ![a] = IF last[a] /\ vic[a] # tg[a]
                                 THEN "unpin" ELSE "end"]
  BY <1>1, <1>2, <1>3, <1>4, <1>5, <1>6, <1>7, Tearer DEF Retire, Pins,
     SetState, Terminal, Go, LifeInv, TypeOK
<1>9. /\ \A q \in Slots : state'[q] = IF q = vic[a] THEN "unused" ELSE state[q]
      /\ \A b \in Actors : at'[b] = IF b = a THEN IF last[a] /\ vic[a] # tg[a]
             THEN "unpin" ELSE "end" ELSE at[b]
      /\ UNCHANGED <<onCpu, tgid, pageDir, exiting, torn, groupExit, spaces,
             born, vic, tg, last, idx, grp>>
  BY <1>1, <1>2, <1>3, <1>4, <1>5, <1>6, <1>7, <1>8, Outside DEF LifeInv,
     TypeOK, Retire, counts
<1>10. TypeOK'
  <2>1. /\ state' \in [Slots -> {"unused", "loading", "live", "zombie"}]
        /\ onCpu' \subseteq {q \in Slots : state'[q] # "loading"}
    BY <1>1, <1>2, <1>3, <1>4, <1>5, <1>6, <1>7, <1>8, <1>9, NAssumption,
       Outside DEF LifeInv, TypeOK, Actors, Retire, counts, KillSteps,
       TearSteps, CloneSteps
  <2>2. at' \in [Actors -> {"idle"} \cup KillSteps \cup TearSteps
                             \cup CloneSteps]
    BY <1>1, <1>2, <1>3, <1>4, <1>5, <1>6, <1>7, <1>8, <1>9, NAssumption,
       Outside DEF LifeInv, TypeOK, Actors, Retire, counts, KillSteps,
       TearSteps, CloneSteps
  <2> QED BY <1>1, <1>2, <1>3, <1>4, <1>5, <1>6, <1>7, <1>8, <1>9, <2>1, <2>2
          DEF LifeInv, TypeOK, Retire, counts, pcbVars, actVars
<1>11. Busy'
  BY <1>1, <1>2, <1>3, <1>4, <1>5, <1>6, <1>7, <1>8, <1>9, Inside, Outside DEF
     LifeInv, Busy, Actors
<1>12. Cloning'
  BY <1>1, <1>2, <1>3, <1>4, <1>5, <1>6, <1>7, <1>8, <1>9, Cloner, Outside DEF
     LifeInv, Cloning, CloneSteps, Actors
<1>13. Killing'
  BY <1>1, <1>2, <1>3, <1>4, <1>5, <1>6, <1>7, <1>8, <1>9, Outside DEF LifeInv,
     Killing, KillSteps, Actors
<1>14. Tearing'
  BY <1>1, <1>2, <1>3, <1>4, <1>5, <1>6, <1>7, <1>8, <1>9 DEF LifeInv, Tearing,
     TearSteps, Owing, Actors
<1>15. OneOwner'
  BY <1>1, <1>2, <1>3, <1>4, <1>5, <1>6, <1>7, <1>8, <1>9 DEF LifeInv,
     OneOwner, Owns, Owing, Actors
<1>16. OneCloner'
  BY <1>1, <1>2, <1>3, <1>4, <1>5, <1>6, <1>7, <1>8, <1>9, Cloner DEF LifeInv,
     OneCloner, CloneSteps, Actors
<1>17. Led'
  BY <1>1, <1>2, <1>3, <1>4, <1>5, <1>6, <1>7, <1>8, <1>9 DEF LifeInv, Led,
     IsLead, Actors
<1>18. TornLed'
  BY <1>1, <1>2, <1>3, <1>4, <1>5, <1>6, <1>7, <1>8, <1>9, Tearer DEF LifeInv,
     TornLed, IsLead, Last, Actors, Owing
<1>19. LastAlone'
  BY <1>1, <1>2, <1>3, <1>4, <1>5, <1>6, <1>7, <1>8, <1>9, Tearer DEF LifeInv,
     LastAlone, Last, Actors, Owing, Tearing
<1>20. OwnSpace'
  BY <1>1, <1>2, <1>3, <1>4, <1>5, <1>6, <1>7, <1>8, <1>9, Outside, Inside DEF
     LifeInv, OwnSpace, Actors
<1>21. GroupKeepsSpace'
  BY <1>1, <1>2, <1>3, <1>4, <1>5, <1>6, <1>7, <1>8, <1>9, Inside DEF LifeInv,
     GroupKeepsSpace, Actors, Led, IsLead
<1>22. Attended'
  BY <1>1, <1>2, <1>3, <1>4, <1>5, <1>6, <1>7, <1>8, <1>9, Inside DEF LifeInv,
     Attended, Actors
<1>23. Housed'
  <2>1. \A l \in Slots : state[l] # "unused" /\ tgid[l] = l /\ Heir(l) =>
          /\ state'[l] # "unused" /\ tgid'[l] = l /\ pageDir'[l] = pageDir[l]
          /\ state[l] = "loading" => Heir(l)'
    BY <1>1, <1>2, <1>3, <1>4, <1>5, <1>6, <1>7, <1>8, <1>9, Outside DEF Heir
  <2>2. \A k \in Slots \ torn : state[k] = "live" =>
          k \notin torn' /\ state'[k] = "live" /\ tgid'[k] = tgid[k]
    BY <1>1, <1>2, <1>3, <1>4, <1>5, <1>6, <1>7, <1>8, <1>9
  <2>3. \A e \in Actors : at[e] = "mark" \/ (at[e] = "free" /\ last[e]) =>
          /\ at'[e] = "mark" \/ (at'[e] = "free" /\ last'[e])
          /\ tgid'[vic'[e]] = tgid[vic[e]]
    BY <1>1, <1>2, <1>3, <1>4, <1>5, <1>6, <1>7, <1>8, <1>9, Tearer DEF Owing
  <2> QED BY <1>1, <1>2, <1>3, <1>4, <1>5, <1>6, <1>7, <1>8, <1>9, <2>1, <2>2,
             <2>3, HeirsKept
<1>24. Passed'
  <2>1. ASSUME NEW g \in groupExit', NEW q \in Slots, Due(q, g)',
               q \notin exiting' \cup torn'
        PROVE  /\ g \in groupExit /\ Due(q, g) /\ q \notin exiting \cup torn
               /\ Ahead(a, g, q) => Ahead(a, g, q)'
    <3>1. g \in groupExit /\ Due(q, g) /\ q \notin exiting \cup torn
      BY <1>1, <1>2, <1>3, <1>4, <1>5, <1>6, <1>7, <1>8, <1>9, Inside, <2>1 DEF
         Due, LifeInv
    <3>2. Ahead(a, g, q) => Ahead(a, g, q)'
      BY <1>1, <1>2, <1>3, <1>4, <1>5, <1>6, <1>7, <1>8, <1>9, <2>1, <3>1,
         Inside, Outside
      DEF Ahead, KillSteps, TearSteps, Terminal, Slots, Due
    <3> QED BY <3>1, <3>2
  <2> QED BY <1>1, <1>2, <1>3, <1>4, <1>5, <1>6, <1>7, <1>8, <1>9, <2>1,
             PassKept
<1> QED BY <1>10, <1>11, <1>12, <1>13, <1>14, <1>15, <1>16, <1>17, <1>18,
           <1>19, <1>20, <1>21, <1>22, <1>23, <1>24 DEF LifeInv

\* The parent is told.
LEMMA NotifyKeeps ==
  ASSUME Unbroken, LifeInv, NEW a \in Actors, Notify(a)
  PROVE  LifeInv'
<1>1. at[a] = "notify"
  BY Outside, NAssumption DEF LifeInv, Notify
<1>2. /\ \A b \in Actors : at'[b] = IF b = a THEN "end" ELSE at[b]
      /\ UNCHANGED <<state, onCpu, tgid, pageDir, exiting, torn, groupExit,
             spaces, born, vic, tg, last, idx, grp>>
  BY <1>1, Outside DEF LifeInv, TypeOK, Notify, counts, Go, pcbVars
<1>3. TypeOK'
  <2>1. at' \in [Actors -> {"idle"} \cup KillSteps \cup TearSteps
                             \cup CloneSteps]
    BY <1>1, <1>2, NAssumption, Outside DEF LifeInv, TypeOK, Actors, Notify,
       counts, Go, pcbVars, KillSteps, TearSteps, CloneSteps, Woken
  <2>2. shell' \in [pc : {"user", "scan", "enrol", "sleep", "asleep", "gone"},
                   waiting : BOOLEAN, wakePending : BOOLEAN]
    BY <1>1, <1>2, NAssumption, Outside DEF LifeInv, TypeOK, Actors, Notify,
       counts, Go, pcbVars, KillSteps, TearSteps, CloneSteps, Woken
  <2> QED BY <1>1, <1>2, <2>1, <2>2 DEF LifeInv, TypeOK, Notify, counts,
          pcbVars, actVars
<1>4. Busy'
  BY <1>1, <1>2, Inside, Outside DEF LifeInv, Busy, Actors
<1>5. Cloning'
  BY <1>1, <1>2, Cloner, Outside DEF LifeInv, Cloning, CloneSteps, Actors
<1>6. Killing'
  BY <1>1, <1>2, Outside DEF LifeInv, Killing, KillSteps, Actors
<1>7. Tearing'
  BY <1>1, <1>2 DEF LifeInv, Tearing, TearSteps, Owing, Actors
<1>8. OneOwner'
  BY <1>1, <1>2 DEF LifeInv, OneOwner, Owns, Owing, Actors
<1>9. OneCloner'
  BY <1>1, <1>2, Cloner DEF LifeInv, OneCloner, CloneSteps, Actors
<1>10. Led'
  BY <1>1, <1>2 DEF LifeInv, Led, IsLead, Actors
<1>11. TornLed'
  BY <1>1, <1>2, Tearer DEF LifeInv, TornLed, IsLead, Last, Actors, Owing
<1>12. LastAlone'
  BY <1>1, <1>2, Tearer DEF LifeInv, LastAlone, Last, Actors, Owing, Tearing
<1>13. OwnSpace'
  BY <1>1, <1>2, Outside, Inside DEF LifeInv, OwnSpace, Actors
<1>14. GroupKeepsSpace'
  BY <1>1, <1>2, Inside DEF LifeInv, GroupKeepsSpace, Actors, Led, IsLead
<1>15. Attended'
  BY <1>1, <1>2, Inside DEF LifeInv, Attended, Actors
<1>16. Housed'
  BY <1>1, <1>2, HousedSame DEF LifeInv, TypeOK, Actors
<1>17. Passed'
  <2>1. ASSUME NEW g \in groupExit', NEW q \in Slots, Due(q, g)',
               q \notin exiting' \cup torn'
        PROVE  /\ g \in groupExit /\ Due(q, g) /\ q \notin exiting \cup torn
               /\ Ahead(a, g, q) => Ahead(a, g, q)'
    <3>1. g \in groupExit /\ Due(q, g) /\ q \notin exiting \cup torn
      BY <1>1, <1>2, Inside, <2>1 DEF Due, LifeInv
    <3>2. Ahead(a, g, q) => Ahead(a, g, q)'
      BY <1>1, <1>2, <2>1, <3>1, Inside, Outside
      DEF Ahead, KillSteps, TearSteps, Terminal, Slots, Due
    <3> QED BY <3>1, <3>2
  <2> QED BY <1>1, <1>2, <2>1, PassKept
<1> QED BY <1>3, <1>4, <1>5, <1>6, <1>7, <1>8, <1>9, <1>10, <1>11, <1>12,
           <1>13, <1>14, <1>15, <1>16, <1>17 DEF LifeInv

\* The lead stays: it was not pinned, or its parent will reap it.
LEMMA UnpinKeeps ==
  ASSUME Unbroken, LifeInv, NEW a \in Actors, Unpin(a), UNCHANGED state
  PROVE  LifeInv'
<1>1. at[a] = "unpin"
  BY Outside, NAssumption DEF LifeInv, Unpin
<1>2. /\ \A b \in Actors : at'[b] = IF b = a THEN "end" ELSE at[b]
      /\ UNCHANGED <<state, onCpu, tgid, pageDir, exiting, torn, groupExit,
             spaces, born, vic, tg, last, idx, grp>>
  BY <1>1, Outside DEF LifeInv, TypeOK, Unpin, counts, Go, pcbVars
<1>3. TypeOK'
  <2>1. at' \in [Actors -> {"idle"} \cup KillSteps \cup TearSteps
                             \cup CloneSteps]
    BY <1>1, <1>2, NAssumption, Outside DEF LifeInv, TypeOK, Actors, Unpin,
       counts, Go, pcbVars, KillSteps, TearSteps, CloneSteps, Woken
  <2>2. shell' \in [pc : {"user", "scan", "enrol", "sleep", "asleep", "gone"},
                   waiting : BOOLEAN, wakePending : BOOLEAN]
    BY <1>1, <1>2, NAssumption, Outside DEF LifeInv, TypeOK, Actors, Unpin,
       counts, Go, pcbVars, KillSteps, TearSteps, CloneSteps, Woken
  <2> QED BY <1>1, <1>2, <2>1, <2>2 DEF LifeInv, TypeOK, Unpin, counts,
          pcbVars, actVars
<1>4. Busy'
  BY <1>1, <1>2, Inside, Outside DEF LifeInv, Busy, Actors
<1>5. Cloning'
  BY <1>1, <1>2, Cloner, Outside DEF LifeInv, Cloning, CloneSteps, Actors
<1>6. Killing'
  BY <1>1, <1>2, Outside DEF LifeInv, Killing, KillSteps, Actors
<1>7. Tearing'
  BY <1>1, <1>2 DEF LifeInv, Tearing, TearSteps, Owing, Actors
<1>8. OneOwner'
  BY <1>1, <1>2 DEF LifeInv, OneOwner, Owns, Owing, Actors
<1>9. OneCloner'
  BY <1>1, <1>2, Cloner DEF LifeInv, OneCloner, CloneSteps, Actors
<1>10. Led'
  BY <1>1, <1>2 DEF LifeInv, Led, IsLead, Actors
<1>11. TornLed'
  BY <1>1, <1>2, Tearer DEF LifeInv, TornLed, IsLead, Last, Actors, Owing
<1>12. LastAlone'
  BY <1>1, <1>2, Tearer DEF LifeInv, LastAlone, Last, Actors, Owing, Tearing
<1>13. OwnSpace'
  BY <1>1, <1>2, Outside, Inside DEF LifeInv, OwnSpace, Actors
<1>14. GroupKeepsSpace'
  BY <1>1, <1>2, Inside DEF LifeInv, GroupKeepsSpace, Actors, Led, IsLead
<1>15. Attended'
  BY <1>1, <1>2, Inside DEF LifeInv, Attended, Actors
<1>16. Housed'
  BY <1>1, <1>2, HousedSame DEF LifeInv, TypeOK, Actors
<1>17. Passed'
  <2>1. ASSUME NEW g \in groupExit', NEW q \in Slots, Due(q, g)',
               q \notin exiting' \cup torn'
        PROVE  /\ g \in groupExit /\ Due(q, g) /\ q \notin exiting \cup torn
               /\ Ahead(a, g, q) => Ahead(a, g, q)'
    <3>1. g \in groupExit /\ Due(q, g) /\ q \notin exiting \cup torn
      BY <1>1, <1>2, Inside, <2>1 DEF Due, LifeInv
    <3>2. Ahead(a, g, q) => Ahead(a, g, q)'
      BY <1>1, <1>2, <2>1, <3>1, Inside, Outside
      DEF Ahead, KillSteps, TearSteps, Terminal, Slots, Due
    <3> QED BY <3>1, <3>2
  <2> QED BY <1>1, <1>2, <2>1, PassKept
<1> QED BY <1>3, <1>4, <1>5, <1>6, <1>7, <1>8, <1>9, <1>10, <1>11, <1>12,
           <1>13, <1>14, <1>15, <1>16, <1>17 DEF LifeInv

\* A pinned lead is reaped by the last worker.
LEMMA UnpinReapKeeps ==
  ASSUME Unbroken, LifeInv, NEW a \in Actors, Unpin(a), Unpins(a),
         ~ParentAlive(tg[a]), ~GroupHasOtherLive(tg[a])
  PROVE  LifeInv'
<1>1. /\ at[a] = "unpin" /\ tg[a] \in Slots /\ state[tg[a]] = "zombie"
      /\ \A k \in Slots \ {tg[a]} : state[k] = "live" => tgid[k] # tg[a]
      /\ \A b \in Actors \ {a} : at[b] \in TearSteps /\ vic[b] # b =>
            vic[b] # tg[a] /\ tgid[vic[b]] # tg[a]
  BY Outside, NAssumption DEF LifeInv, Unpin, Unpins, GroupHasOtherLive,
     Counted, Tearing, TearSteps, Unattended, Unbroken
<1>2. /\ \A b \in Actors : at[b] \in Owing => vic[b] # tg[a]
      /\ \A b \in Actors : at[b] = "doom" => vic[b] # tg[a]
      /\ \A b \in Actors : at[b] = "mark" \/ Last(b) => tgid[vic[b]] # tg[a]
      /\ \A b \in Actors : at[b] \in CloneSteps => tgid[b] # tg[a] /\ b # tg[a]
  BY <1>1, Tearer, Cloner DEF LifeInv, Killing, Owing, TearSteps, Last
<1>3. state' = [state EXCEPT ![tg[a]] = "unused"]
  BY <1>1, <1>2 DEF Unpin, SetState, Terminal, LifeInv, TypeOK
<1>4. /\ \A q \in Slots : state'[q] = IF q = tg[a] THEN "unused" ELSE state[q]
      /\ \A b \in Actors : at'[b] = IF b = a THEN "end" ELSE at[b]
      /\ UNCHANGED <<onCpu, tgid, pageDir, exiting, torn, groupExit, spaces,
             born, vic, tg, last, idx, grp>>
  BY <1>1, <1>2, <1>3, Outside DEF LifeInv, TypeOK, Unpin, counts, Go
<1>5. TypeOK'
  <2>1. /\ state' \in [Slots -> {"unused", "loading", "live", "zombie"}]
        /\ onCpu' \subseteq {q \in Slots : state'[q] # "loading"}
    BY <1>1, <1>2, <1>3, <1>4, NAssumption, Outside DEF LifeInv, TypeOK,
       Actors, Unpin, counts, Go, KillSteps, TearSteps, CloneSteps, Woken
  <2>2. at' \in [Actors -> {"idle"} \cup KillSteps \cup TearSteps
                             \cup CloneSteps]
    BY <1>1, <1>2, <1>3, <1>4, NAssumption, Outside DEF LifeInv, TypeOK,
       Actors, Unpin, counts, Go, KillSteps, TearSteps, CloneSteps, Woken
  <2>3. shell' \in [pc : {"user", "scan", "enrol", "sleep", "asleep", "gone"},
                   waiting : BOOLEAN, wakePending : BOOLEAN]
    BY <1>1, <1>2, <1>3, <1>4, NAssumption, Outside DEF LifeInv, TypeOK,
       Actors, Unpin, counts, Go, KillSteps, TearSteps, CloneSteps, Woken
  <2> QED BY <1>1, <1>2, <1>3, <1>4, <2>1, <2>2, <2>3 DEF LifeInv, TypeOK,
          Unpin, counts, pcbVars, actVars
<1>6. Busy'
  BY <1>1, <1>2, <1>3, <1>4, Inside, Outside DEF LifeInv, Busy, Actors
<1>7. Cloning'
  BY <1>1, <1>2, <1>3, <1>4, Cloner, Outside DEF LifeInv, Cloning, CloneSteps,
     Actors
<1>8. Killing'
  BY <1>1, <1>2, <1>3, <1>4, Outside DEF LifeInv, Killing, KillSteps, Actors
<1>9. Tearing'
  BY <1>1, <1>2, <1>3, <1>4 DEF LifeInv, Tearing, TearSteps, Owing, Actors
<1>10. OneOwner'
  BY <1>1, <1>2, <1>3, <1>4 DEF LifeInv, OneOwner, Owns, Owing, Actors
<1>11. OneCloner'
  BY <1>1, <1>2, <1>3, <1>4, Cloner DEF LifeInv, OneCloner, CloneSteps, Actors
<1>12. Led'
  BY <1>1, <1>2, <1>3, <1>4 DEF LifeInv, Led, IsLead, Actors
<1>13. TornLed'
  BY <1>1, <1>2, <1>3, <1>4, Tearer DEF LifeInv, TornLed, IsLead, Last, Actors,
     Owing
<1>14. LastAlone'
  BY <1>1, <1>2, <1>3, <1>4, Tearer DEF LifeInv, LastAlone, Last, Actors,
     Owing, Tearing
<1>15. OwnSpace'
  BY <1>1, <1>2, <1>3, <1>4, Outside, Inside DEF LifeInv, OwnSpace, Actors
<1>16. GroupKeepsSpace'
  BY <1>1, <1>2, <1>3, <1>4, Inside DEF LifeInv, GroupKeepsSpace, Actors, Led,
     IsLead
<1>17. Attended'
  BY <1>1, <1>2, <1>3, <1>4, Inside DEF LifeInv, Attended, Actors
<1>18. Housed'
  <2>1. \A l \in Slots : state[l] # "unused" /\ tgid[l] = l /\ Heir(l) =>
          /\ state'[l] # "unused" /\ tgid'[l] = l /\ pageDir'[l] = pageDir[l]
          /\ state[l] = "loading" => Heir(l)'
    BY <1>1, <1>2, <1>3, <1>4, Outside DEF Heir, Last
  <2>2. \A k \in Slots \ torn : state[k] = "live" =>
          k \notin torn' /\ state'[k] = "live" /\ tgid'[k] = tgid[k]
    BY <1>1, <1>2, <1>3, <1>4
  <2>3. \A e \in Actors : at[e] = "mark" \/ (at[e] = "free" /\ last[e]) =>
          /\ at'[e] = "mark" \/ (at'[e] = "free" /\ last'[e])
          /\ tgid'[vic'[e]] = tgid[vic[e]]
    BY <1>1, <1>2, <1>3, <1>4, Tearer DEF Owing
  <2> QED BY <1>1, <1>2, <1>3, <1>4, <2>1, <2>2, <2>3, HeirsKept
<1>19. Passed'
  <2>1. ASSUME NEW g \in groupExit', NEW q \in Slots, Due(q, g)',
               q \notin exiting' \cup torn'
        PROVE  /\ g \in groupExit /\ Due(q, g) /\ q \notin exiting \cup torn
               /\ Ahead(a, g, q) => Ahead(a, g, q)'
    <3>1. g \in groupExit /\ Due(q, g) /\ q \notin exiting \cup torn
      BY <1>1, <1>2, <1>3, <1>4, Inside, <2>1 DEF Due, LifeInv
    <3>2. Ahead(a, g, q) => Ahead(a, g, q)'
      BY <1>1, <1>2, <1>3, <1>4, <2>1, <3>1, Inside, Outside
      DEF Ahead, KillSteps, TearSteps, Terminal, Slots, Due
    <3> QED BY <3>1, <3>2
  <2> QED BY <1>1, <1>2, <1>3, <1>4, <2>1, PassKept
<1> QED BY <1>5, <1>6, <1>7, <1>8, <1>9, <1>10, <1>11, <1>12, <1>13, <1>14,
           <1>15, <1>16, <1>17, <1>18, <1>19 DEF LifeInv

\* A dead task leaves its stack.
LEMMA EndSelfKeeps ==
  ASSUME Unbroken, LifeInv, NEW a \in Actors, End(a), vic[a] = a
  PROVE  LifeInv'
<1>1. /\ at[a] = "end" /\ a \in Slots
      /\ state[a] \in {"unused", "zombie"}
  BY Outside, NAssumption DEF LifeInv, End, Tearing, TearSteps, Busy
<1>2. /\ onCpu' = onCpu \ {a}
      /\ \A b \in Actors : at'[b] = IF b = a THEN "idle" ELSE at[b]
      /\ \A b \in Actors : vic'[b] = IF b = a THEN Nobody ELSE vic[b]
      /\ \A b \in Actors : tg'[b] = IF b = a THEN Nobody ELSE tg[b]
      /\ \A b \in Actors : last'[b] = IF b = a THEN FALSE ELSE last[b]
      /\ \A b \in Actors : idx'[b] = IF b = a THEN 1 ELSE idx[b]
      /\ \A b \in Actors : grp'[b] = IF b = a THEN Nobody ELSE grp[b]
      /\ UNCHANGED <<state, tgid, pageDir, exiting, torn, groupExit, spaces,
             born>>
  BY <1>1, Outside DEF LifeInv, TypeOK, End, counts, Go, pcbVars
<1>3. \A b \in Actors : (at[b] = "mark" \/ Last(b))' =>
          /\ b # a /\ (at[b] = "mark" <=> at'[b] = "mark") /\ (Last(b) <=> Last(b)')
          /\ vic'[b] = vic[b] /\ tg'[b] = tg[b]
  BY <1>1, <1>2 DEF Last
<1>4. TypeOK'
  <2>1. /\ state' \in [Slots -> {"unused", "loading", "live", "zombie"}]
        /\ onCpu' \subseteq {q \in Slots : state'[q] # "loading"}
    BY <1>1, <1>2, <1>3, NAssumption, Outside DEF LifeInv, TypeOK, Actors, End,
       counts, Go, pcbVars, KillSteps, TearSteps, CloneSteps
  <2>2. at' \in [Actors -> {"idle"} \cup KillSteps \cup TearSteps
                             \cup CloneSteps]
    BY <1>1, <1>2, <1>3, NAssumption, Outside DEF LifeInv, TypeOK, Actors, End,
       counts, Go, pcbVars, KillSteps, TearSteps, CloneSteps
  <2>3. /\ vic' \in [Actors -> Slots \cup {Nobody}]
        /\ tg' \in [Actors -> Slots \cup {Nobody}]
        /\ last' \in [Actors -> BOOLEAN]
    BY <1>1, <1>2, <1>3, NAssumption, Outside DEF LifeInv, TypeOK, Actors, End,
       counts, Go, pcbVars, KillSteps, TearSteps, CloneSteps
  <2>4. /\ idx' \in [Actors -> 1..NSlots + 1]
        /\ grp' \in [Actors -> Slots \cup {Nobody}]
    BY <1>1, <1>2, <1>3, NAssumption, Outside DEF LifeInv, TypeOK, Actors, End,
       counts, Go, pcbVars, KillSteps, TearSteps, CloneSteps
  <2> QED BY <1>1, <1>2, <1>3, <2>1, <2>2, <2>3, <2>4 DEF LifeInv, TypeOK, End,
          counts, pcbVars, actVars
<1>5. Busy'
  BY <1>1, <1>2, <1>3, Inside, Outside DEF LifeInv, Busy, Actors
<1>6. Cloning'
  BY <1>1, <1>2, <1>3, Cloner, Outside DEF LifeInv, Cloning, CloneSteps, Actors
<1>7. Killing'
  BY <1>1, <1>2, <1>3, Outside DEF LifeInv, Killing, KillSteps, Actors
<1>8. Tearing'
  BY <1>1, <1>2, <1>3 DEF LifeInv, Tearing, TearSteps, Owing, Actors
<1>9. OneOwner'
  BY <1>1, <1>2, <1>3 DEF LifeInv, OneOwner, Owns, Owing, Actors
<1>10. OneCloner'
  BY <1>1, <1>2, <1>3, Cloner DEF LifeInv, OneCloner, CloneSteps, Actors
<1>11. Led'
  BY <1>1, <1>2, <1>3 DEF LifeInv, Led, IsLead, Actors
<1>12. TornLed'
  BY <1>1, <1>2, <1>3, Tearer DEF LifeInv, TornLed, IsLead, Last, Actors, Owing
<1>13. LastAlone'
  BY <1>1, <1>2, <1>3, Tearer DEF LifeInv, LastAlone, Last, Actors, Owing,
     Tearing
<1>14. OwnSpace'
  BY <1>1, <1>2, <1>3, Outside, Inside DEF LifeInv, OwnSpace, Actors
<1>15. GroupKeepsSpace'
  BY <1>1, <1>2, <1>3, Inside DEF LifeInv, GroupKeepsSpace, Actors, Led, IsLead
<1>16. Attended'
  BY <1>1, <1>2, <1>3, Inside DEF LifeInv, Attended, Actors
<1>17. Housed'
  BY <1>1, <1>2, <1>3, HousedSame DEF LifeInv, TypeOK, Actors
<1>18. Passed'
  <2>1. ASSUME NEW g \in groupExit', NEW q \in Slots, Due(q, g)',
               q \notin exiting' \cup torn'
        PROVE  /\ g \in groupExit /\ Due(q, g) /\ q \notin exiting \cup torn
               /\ Ahead(a, g, q) => Ahead(a, g, q)'
    <3>1. g \in groupExit /\ Due(q, g) /\ q \notin exiting \cup torn
      BY <1>1, <1>2, <1>3, Inside, <2>1 DEF Due, LifeInv
    <3>2. Ahead(a, g, q) => Ahead(a, g, q)'
      BY <1>1, <1>2, <1>3, <2>1, <3>1, Inside, Outside
      DEF Ahead, KillSteps, TearSteps, Terminal, Slots, Due
    <3> QED BY <3>1, <3>2
  <2> QED BY <1>1, <1>2, <1>3, <2>1, PassKept
<1> QED BY <1>4, <1>5, <1>6, <1>7, <1>8, <1>9, <1>10, <1>11, <1>12, <1>13,
           <1>14, <1>15, <1>16, <1>17, <1>18 DEF LifeInv

\* A killer goes on with its walk.
LEMMA EndOtherKeeps ==
  ASSUME Unbroken, LifeInv, NEW a \in Actors, End(a), vic[a] # a
  PROVE  LifeInv'
<1>1. at[a] = "end" /\ vic[a] \in Slots
  BY Outside, NAssumption DEF LifeInv, End, Tearing, TearSteps
<1>2. /\ \A b \in Actors : at'[b] = IF b = a THEN "next" ELSE at[b]
      /\ \A b \in Actors : vic'[b] = IF b = a THEN Nobody ELSE vic[b]
      /\ \A b \in Actors : tg'[b] = IF b = a THEN Nobody ELSE tg[b]
      /\ \A b \in Actors : last'[b] = IF b = a THEN FALSE ELSE last[b]
      /\ UNCHANGED <<state, onCpu, tgid, pageDir, exiting, torn, groupExit,
             spaces, born, idx, grp>>
  BY <1>1, Outside DEF LifeInv, TypeOK, End, counts, Go, pcbVars
<1>3. \A b \in Actors : (at[b] = "mark" \/ Last(b))' =>
          /\ b # a /\ (at[b] = "mark" <=> at'[b] = "mark") /\ (Last(b) <=> Last(b)')
          /\ vic'[b] = vic[b] /\ tg'[b] = tg[b]
  BY <1>1, <1>2 DEF Last
<1>4. TypeOK'
  <2>1. at' \in [Actors -> {"idle"} \cup KillSteps \cup TearSteps
                             \cup CloneSteps]
    BY <1>1, <1>2, <1>3, NAssumption, Outside DEF LifeInv, TypeOK, Actors, End,
       counts, Go, pcbVars, KillSteps, TearSteps, CloneSteps
  <2>2. /\ vic' \in [Actors -> Slots \cup {Nobody}]
        /\ tg' \in [Actors -> Slots \cup {Nobody}]
        /\ last' \in [Actors -> BOOLEAN]
    BY <1>1, <1>2, <1>3, NAssumption, Outside DEF LifeInv, TypeOK, Actors, End,
       counts, Go, pcbVars, KillSteps, TearSteps, CloneSteps
  <2> QED BY <1>1, <1>2, <1>3, <2>1, <2>2 DEF LifeInv, TypeOK, End, counts,
          pcbVars, actVars
<1>5. Busy'
  BY <1>1, <1>2, <1>3, Inside, Outside DEF LifeInv, Busy, Actors
<1>6. Cloning'
  BY <1>1, <1>2, <1>3, Cloner, Outside DEF LifeInv, Cloning, CloneSteps, Actors
<1>7. Killing'
  BY <1>1, <1>2, <1>3, Outside DEF LifeInv, Killing, KillSteps, Actors
<1>8. Tearing'
  BY <1>1, <1>2, <1>3 DEF LifeInv, Tearing, TearSteps, Owing, Actors
<1>9. OneOwner'
  BY <1>1, <1>2, <1>3 DEF LifeInv, OneOwner, Owns, Owing, Actors
<1>10. OneCloner'
  BY <1>1, <1>2, <1>3, Cloner DEF LifeInv, OneCloner, CloneSteps, Actors
<1>11. Led'
  BY <1>1, <1>2, <1>3 DEF LifeInv, Led, IsLead, Actors
<1>12. TornLed'
  BY <1>1, <1>2, <1>3, Tearer DEF LifeInv, TornLed, IsLead, Last, Actors, Owing
<1>13. LastAlone'
  BY <1>1, <1>2, <1>3, Tearer DEF LifeInv, LastAlone, Last, Actors, Owing,
     Tearing
<1>14. OwnSpace'
  BY <1>1, <1>2, <1>3, Outside, Inside DEF LifeInv, OwnSpace, Actors
<1>15. GroupKeepsSpace'
  BY <1>1, <1>2, <1>3, Inside DEF LifeInv, GroupKeepsSpace, Actors, Led, IsLead
<1>16. Attended'
  BY <1>1, <1>2, <1>3, Inside DEF LifeInv, Attended, Actors
<1>17. Housed'
  BY <1>1, <1>2, <1>3, HousedSame DEF LifeInv, TypeOK, Actors
<1>18. Passed'
  <2>1. ASSUME NEW g \in groupExit', NEW q \in Slots, Due(q, g)',
               q \notin exiting' \cup torn'
        PROVE  /\ g \in groupExit /\ Due(q, g) /\ q \notin exiting \cup torn
               /\ Ahead(a, g, q) => Ahead(a, g, q)'
    <3>1. g \in groupExit /\ Due(q, g) /\ q \notin exiting \cup torn
      BY <1>1, <1>2, <1>3, Inside, <2>1 DEF Due, LifeInv
    <3>2. Ahead(a, g, q) => Ahead(a, g, q)'
      BY <1>1, <1>2, <1>3, <2>1, <3>1, Inside, Outside
      DEF Ahead, KillSteps, TearSteps, Terminal, Slots, Due
    <3> QED BY <3>1, <3>2
  <2> QED BY <1>1, <1>2, <1>3, <2>1, PassKept
<1> QED BY <1>4, <1>5, <1>6, <1>7, <1>8, <1>9, <1>10, <1>11, <1>12, <1>13,
           <1>14, <1>15, <1>16, <1>17, <1>18 DEF LifeInv

-----------------------------------------------------------------------------
(* The whole next-state relation. *)

\* Three things are at most three.
LEMMA Three ==
  ASSUME NEW x, NEW y, NEW z
  PROVE  Cardinality({x, y, z}) # 4
<1>1. IsFiniteSet({x}) /\ Cardinality({x}) = 1
  BY FS_Singleton
<1>2. IsFiniteSet({x, y}) /\ Cardinality({x, y}) \in 1..2
  <2>1. {x, y} = {x} \cup {y}
    OBVIOUS
  <2> QED BY <1>1, <2>1, FS_AddElement
<1>3. Cardinality({x, y, z}) \in 1..3
  <2>1. {x, y, z} = {x, y} \cup {z}
    OBVIOUS
  <2> QED BY <1>2, <2>1, FS_AddElement
<1> QED BY <1>3

\* The killer and the parent that are no slots are not each other.
LEMMA Strangers == Nobody \notin Actors /\ Shell \notin Actors
<1>1. Nobody = Ext => {Shell, Desktop, Nobody, Ext} = {Shell, Desktop, Ext}
  OBVIOUS
<1>2. Shell = Ext => {Shell, Desktop, Nobody, Ext} = {Desktop, Nobody, Ext}
  OBVIOUS
<1>3. Nobody # Ext /\ Shell # Ext
  BY <1>1, <1>2, Three, DistinctAssumption
<1> QED BY <1>3, DistinctAssumption DEF Actors

\* The slots, the groups and the teardowns stay as they are when the parent
\* goes on by itself.
LEMMA CalmKeeps ==
  ASSUME LifeInv, TypeOK',
         UNCHANGED <<state, onCpu, tgid, pageDir, exiting, torn, groupExit,
                     spaces, born, at, vic, tg, last, idx, grp>>
  PROVE  LifeInv'
<1>1. Busy' /\ Cloning' /\ Killing' /\ Tearing'
  BY DEF LifeInv, Busy, Cloning, Killing, Tearing
<1>2. OneOwner' /\ OneCloner'
  BY DEF LifeInv, OneOwner, Owns, OneCloner
<1>3. Led' /\ TornLed' /\ LastAlone'
  BY DEF LifeInv, Led, TornLed, LastAlone, Last, IsLead
<1>4. OwnSpace' /\ GroupKeepsSpace' /\ Attended'
  BY DEF LifeInv, OwnSpace, GroupKeepsSpace, Attended
<1>5. Housed'
  BY HousedSame
<1>6. Passed'
  <2>1. \A g \in groupExit', p \in Slots : Due(p, g)' => Due(p, g)
    BY DEF Due
  <2>2. \A g \in groupExit', p \in Slots, a \in Actors :
          Ahead(a, g, p) => Ahead(a, g, p)'
    BY DEF Ahead
  <2> QED BY <2>1, <2>2, PassedKept
<1> QED BY <1>1, <1>2, <1>3, <1>4, <1>5, <1>6 DEF LifeInv

\* What the parent does by itself.
LEMMA ShellKeeps ==
  ASSUME LifeInv,
         WaitCall \/ (Scan /\ ZombieChildren = {}) \/ Enrol \/ Sleep \/ ShellExit
  PROVE  LifeInv'
<1>1. UNCHANGED <<state, onCpu, tgid, pageDir, exiting, torn, groupExit,
                  spaces, born, at, vic, tg, last, idx, grp>>
  BY DEF WaitCall, Scan, Enrol, Sleep, ShellExit, pcbVars, counts, actVars
<1>2. TypeOK'
  <2>1. shell' \in [pc : {"user", "scan", "enrol", "sleep", "asleep", "gone"},
                    waiting : BOOLEAN, wakePending : BOOLEAN]
    <3>1. CASE WaitCall \/ Sleep \/ ShellExit
      BY <3>1 DEF LifeInv, TypeOK, WaitCall, Sleep, ShellExit
    <3>2. CASE (Scan /\ ZombieChildren = {}) \/ Enrol
      <4>1. shell' = [shell EXCEPT !.pc = "enrol"] \/ shell' = Enrolled
        BY <3>2 DEF Scan, Enrol
      <4> QED BY <4>1 DEF LifeInv, TypeOK, Enrolled
    <3> QED BY <3>1, <3>2
  <2>2. parent' \in [Slots -> {Shell, Desktop, Nobody}]
    BY DEF LifeInv, TypeOK, WaitCall, Scan, Enrol, Sleep, ShellExit, pcbVars
  <2>3. stamped' = stamped /\ kills' = kills
    BY DEF WaitCall, Scan, Enrol, Sleep, ShellExit, pcbVars, counts
  <2> QED BY <1>1, <2>1, <2>2, <2>3 DEF LifeInv, TypeOK
<1> QED BY <1>1, <1>2, CalmKeeps

\* A thread's or an outsider's kill of a group begins a pass over it.
LEMMA GroupPassKeeps ==
  ASSUME Unbroken, LifeInv, NEW p \in Slots, ExitGroup(p) \/ KillGroup(p)
  PROVE  LifeInv'
<1>1. PICK a \in Actors, g \in Slots :
        /\ at[a] = "idle" /\ (a # Ext => a \in onCpu) /\ StartPass(a, g)
  <2>1. CASE ExitGroup(p)
    <3>1. p \in Actors /\ at[p] = "idle" /\ p \in onCpu /\ StartPass(p, tgid[p])
      BY <2>1 DEF ExitGroup, Running, Actors
    <3>2. tgid[p] \in Slots
      BY <3>1 DEF LifeInv, Busy, Led, IsLead
    <3> QED BY <3>1, <3>2
  <2>2. CASE KillGroup(p)
    BY <2>2 DEF KillGroup, Actors
  <2> QED BY <2>1, <2>2
<1>2. /\ UNCHANGED <<state, onCpu, tgid, parent, pageDir, exiting, torn, stamped>>
      /\ UNCHANGED <<spaces, born, vic, tg, last, shell>>
      /\ kills' \in 0..MaxKills
  BY NAssumption DEF ExitGroup, KillGroup, counts, LifeInv, TypeOK
<1>3. TypeOK'
  <2>1. groupExit' \subseteq Slots /\ grp' \in [Actors -> Slots \cup {Nobody}]
    BY <1>1 DEF LifeInv, TypeOK, StartPass
  <2>2. idx' \in [Actors -> 1..NSlots + 1]
    <3>1. 1 \in 1..NSlots + 1 /\ idx' = [idx EXCEPT ![a] = 1]
      BY <1>1, NAssumption DEF StartPass
    <3> QED BY <3>1 DEF LifeInv, TypeOK
  <2>3. at' \in [Actors -> {"idle"} \cup KillSteps \cup TearSteps
                             \cup CloneSteps]
    BY <1>1 DEF LifeInv, TypeOK, StartPass, Go, KillSteps
  <2> QED BY <1>2, <2>1, <2>2, <2>3 DEF LifeInv, TypeOK
<1> QED BY <1>1, <1>2, <1>3, StartPassKeeps

\* A zombie is reaped by its parent or by the sweep.
LEMMA ReapsKeep ==
  ASSUME Unbroken, LifeInv,
         (Scan /\ ZombieChildren # {}) \/ \E p \in Slots : Sweep(p)
  PROVE  LifeInv'
<1>1. PICK p \in Slots :
        /\ Reapable(p) /\ SetState(p, "unused")
        /\ Unattended(p, Shell) \/ Unattended(p, Nobody)
  BY DEF Scan, Sweep, ZombieChildren
<1>2. \A a \in Actors : at[a] \in TearSteps /\ vic[a] # a =>
                          vic[a] # p /\ tgid[vic[a]] # p
  BY <1>1, Strangers DEF Unattended, Unbroken
<1>3. state' = [state EXCEPT ![p] = "unused"]
  BY <1>1 DEF SetState, Reapable, Terminal, LifeInv, TypeOK
<1>4. /\ UNCHANGED <<onCpu, tgid, parent, pageDir, exiting, torn, groupExit, stamped>>
      /\ UNCHANGED <<spaces, born, kills, at, vic, tg, last, idx, grp>>
  BY DEF Scan, Sweep, counts, actVars
<1>5. TypeOK'
  <2>1. shell' \in [pc : {"user", "scan", "enrol", "sleep", "asleep", "gone"},
                    waiting : BOOLEAN, wakePending : BOOLEAN]
    BY DEF LifeInv, TypeOK, Scan, Sweep
  <2>2. /\ state' \in [Slots -> {"unused", "loading", "live", "zombie"}]
        /\ onCpu' \subseteq {q \in Slots : state'[q] # "loading"}
    BY <1>3, <1>4 DEF LifeInv, TypeOK
  <2> QED BY <1>4, <2>1, <2>2 DEF LifeInv, TypeOK
<1> QED BY <1>1, <1>2, <1>3, <1>4, <1>5, ReapKeeps

\* A killer's steps.
LEMMA KillStepKeeps ==
  ASSUME Unbroken, LifeInv, NEW a \in Actors, KillStep(a)
  PROVE  LifeInv'
<1>1. CASE NextPeer(a)
  <2>1. idx[a] <= NSlots \/ idx[a] > NSlots
    BY NAssumption DEF LifeInv, TypeOK
  <2> QED BY <1>1, <2>1, PeerKeeps, NoPeerKeeps, PassEndsKeeps, PassSelfKeeps
<1>2. CASE Claim(a)
  BY <1>2, GoneKeeps, ClaimKeeps, ClaimedKeeps
<1>3. CASE Await(a)
  BY <1>3, AwaitKeeps
<1>4. CASE Poll(a)
  BY <1>4, LeftKeeps, OffCpuKeeps
<1>5. CASE Doom(a)
  BY <1>5, DoomKeeps
<1> QED BY <1>1, <1>2, <1>3, <1>4, <1>5 DEF KillStep

\* The steps of a teardown.
LEMMA TearStepKeeps ==
  ASSUME Unbroken, LifeInv, NEW a \in Actors, TearStep(a)
  PROVE  LifeInv'
<1>1. CASE Mark(a)
  BY <1>1, MarkKeeps
<1>2. CASE FreeGroup(a)
  BY <1>2, FreeLastKeeps, FreePartKeeps
<1>3. CASE Retire(a)
  BY <1>3, RetireZombieKeeps, RetireKeeps
<1>4. CASE Notify(a)
  BY <1>4, NotifyKeeps
<1>5. CASE Unpin(a)
  <2>1. UNCHANGED state \/ (Unpins(a) /\ ~ParentAlive(tg[a])
                                      /\ ~GroupHasOtherLive(tg[a]))
    BY <1>5 DEF Unpin
  <2> QED BY <1>5, <2>1, UnpinKeeps, UnpinReapKeeps
<1>6. CASE End(a)
  BY <1>6, EndSelfKeeps, EndOtherKeeps
<1> QED BY <1>1, <1>2, <1>3, <1>4, <1>5, <1>6 DEF TearStep

\* At the start nothing is there.
LEMMA InitKeeps == Init => LifeInv
<1> SUFFICES ASSUME Init PROVE LifeInv
  OBVIOUS
<1>1. TypeOK
  BY NAssumption DEF Init, TypeOK, All, KillSteps, TearSteps, CloneSteps
<1>2. /\ \A a \in Actors : at[a] = "idle"
      /\ \A p \in Slots : p \in Actors /\ state[p] = "unused" /\ pageDir[p] = 0
      /\ spaces = {} /\ groupExit = {} /\ exiting = {} /\ torn = {} /\ onCpu = {}
      /\ born = 0
  BY DEF Init, All, Actors
<1>3. Busy /\ Cloning /\ Killing /\ Tearing
  BY <1>2 DEF Busy, Cloning, Killing, Tearing, KillSteps, TearSteps,
     CloneSteps,
              Owing
<1>4. OneOwner /\ OneCloner
  BY <1>2 DEF OneOwner, OneCloner, Owns, Owing, CloneSteps
<1>5. Led /\ TornLed /\ LastAlone
  BY <1>2 DEF Led, TornLed, LastAlone, Last
<1>6. OwnSpace /\ GroupKeepsSpace /\ Attended /\ Housed /\ Passed
  BY <1>2 DEF OwnSpace, GroupKeepsSpace, Attended, Housed, Passed
<1> QED BY <1>1, <1>3, <1>4, <1>5, <1>6 DEF LifeInv

\* Every step keeps the invariant.
LEMMA StepKeeps ==
  ASSUME Unbroken, LifeInv, [Next]_vars
  PROVE  LifeInv'
<1>1. CASE UNCHANGED vars
  <2>1. UNCHANGED <<state, onCpu, tgid, pageDir, exiting, torn, groupExit,
                    spaces, born, at, vic, tg, last, idx, grp>>
    BY <1>1 DEF vars, pcbVars, counts, actVars
  <2>2. TypeOK'
    BY <1>1 DEF LifeInv, TypeOK, vars, pcbVars, counts, actVars
  <2> QED BY <2>1, <2>2, CalmKeeps
<1>2. ASSUME NEW p \in Slots, Exec(p, Shell) \/ Exec(p, Nobody) \/ Release(p)
      PROVE  LifeInv'
  BY <1>2, ExecKeeps, ReleaseKeeps
<1>3. ASSUME NEW p \in Slots, Dispatch(p) \/ Yield(p) \/ Exit(p) \/ Kill(p)
      PROVE  LifeInv'
  BY <1>3, DispatchKeeps, YieldKeeps, ExitKeeps, KillKeeps
<1>4. ASSUME NEW p \in Slots, ExitGroup(p) \/ KillGroup(p)
      PROVE  LifeInv'
  BY <1>4, GroupPassKeeps
<1>5. ASSUME NEW p \in Slots, CloneStep(p) \/ \E c \in Slots : Clone(p, c)
      PROVE  LifeInv'
  BY <1>5, CloneKeeps, JoinKeeps, RefuseKeeps, CheckedKeeps, PublishKeeps
     DEF CloneStep
<1>6. ASSUME NEW a \in Actors, KillStep(a) \/ TearStep(a)
      PROVE  LifeInv'
  BY <1>6, KillStepKeeps, TearStepKeeps
<1>7. CASE WaitCall \/ ShellStep \/ ShellExit
  BY <1>7, ShellKeeps, ReapsKeep DEF ShellStep
<1>8. CASE \E p \in Slots : Sweep(p)
  BY <1>8, ReapsKeep
<1> QED BY <1>1, <1>2, <1>3, <1>4, <1>5, <1>6, <1>7, <1>8 DEF Next

\* The inductive invariant holds throughout.
LEMMA Invariance ==
  ASSUME Unbroken
  PROVE  Spec => []LifeInv
<1>1. Init => LifeInv
  BY InitKeeps
<1>2. LifeInv /\ [Next]_vars => LifeInv'
  BY StepKeeps
<1> QED BY <1>1, <1>2, PTL DEF Spec

-----------------------------------------------------------------------------
(* What follows. *)

\* Every variable has its type: no CPU runs a slot under construction.
THEOREM TypeCorrect ==
  ASSUME Unbroken
  PROVE  Spec => []TypeOK
<1>1. LifeInv => TypeOK
  BY DEF LifeInv
<1> QED BY <1>1, Invariance, PTL

\* No thread runs on a freed address space: the group's is freed by the last
\* member to be marked, and a member that is not marked is not outlived by it.
THEOREM SpaceIsKept ==
  ASSUME Unbroken
  PROVE  Spec => []GroupKeepsSpace
<1>1. LifeInv => GroupKeepsSpace
  BY DEF LifeInv
<1> QED BY <1>1, Invariance, PTL

\* A member's lead is live, or pinned as a zombie until the member has gone
\* through its teardown.
THEOREM LeadIsPinned ==
  ASSUME Unbroken
  PROVE  Spec => []LeadPinned
<1>1. LifeInv => LeadPinned
  BY DEF LifeInv, Led, IsLead, LeadPinned
<1> QED BY <1>1, Invariance, PTL

\* Of the members that die at the same time on several CPUs, by themselves or
\* by their killers, only one frees the group's address space.
THEOREM LastIsOne ==
  ASSUME Unbroken
  PROVE  Spec => []OneLast
<1>1. LifeInv => OneLast
  BY DEF LifeInv, LastAlone, Last, OneLast
<1> QED BY <1>1, Invariance, PTL

\* And one does: an address space without a thread left in it has been freed
\* when nobody is at work any more.
THEOREM NothingLeaks ==
  ASSUME Unbroken
  PROVE  Spec => []NoLeak
<1>1. LifeInv => NoLeak
  <2> SUFFICES ASSUME LifeInv, Quiet, NEW s \in spaces
               PROVE  \E p \in Slots : state[p] \in {"loading", "live"}
                                       /\ pageDir[p] = s
    BY DEF NoLeak
  <2>1. PICK l \in Slots : pageDir[l] = s /\ Heir(l)
    BY DEF LifeInv, Housed
  <2>2. CASE state[l] = "loading"
    BY <2>1, <2>2
  <2>3. CASE \E k \in Slots \ torn : state[k] = "live" /\ tgid[k] = l
    BY <2>1, <2>3 DEF LifeInv, GroupKeepsSpace
  <2> QED BY <2>1, <2>2, <2>3 DEF Heir, Quiet
<1> QED BY <1>1, Invariance, PTL

\* "No thread can slip in behind the pass": a thread under construction joins
\* its group before it looks at group_exiting, so that either it sees that the
\* group dies or the pass comes to it.
THEOREM NobodyStraggles ==
  ASSUME Unbroken
  PROVE  Spec => []NoStraggler
<1>1. LifeInv => NoStraggler
  <2> SUFFICES ASSUME LifeInv, NEW g \in groupExit,
                      \A a \in Actors : ~InPass(a, g),
                      NEW p \in Slots, state[p] = "live", tgid[p] = g
               PROVE  p \in exiting \cup torn
    BY DEF NoStraggler
  <2>1. Due(p, g)
    BY DEF Due
  <2>2. \A a \in Actors : ~Ahead(a, g, p)
    BY DEF Ahead, InPass, KillSteps, TearSteps
  <2> QED BY <2>1, <2>2 DEF LifeInv, Passed
<1> QED BY <1>1, Invariance, PTL

\* Whoever is asked to exit off its CPU has a killer at work on it, which has
\* claimed it and waits for it to be gone or tears it down.
THEOREM VictimIsAttended ==
  ASSUME Unbroken
  PROVE  Spec => []VictimAttended
<1>1. LifeInv => VictimAttended
  BY DEF LifeInv, Attended, VictimAttended
<1> QED BY <1>1, Invariance, PTL

-----------------------------------------------------------------------------
(* What a waiting parent hears.                                            *)

\* The teardown that will wake the parent of lead l: its own, or that of a
\* last member which finds it pinned.
Telling(a, l) ==
  \/ at[a] \in Owing \cup {"notify"} /\ vic[a] = l
  \/ at[a] = "unpin" /\ tg[a] = l

\* The group of l has a member to be marked last: one that is not marked, that
\* is about to be, or that was and was the last.
Unmarked(l)  == \E k \in Slots \ torn : state[k] = "live" /\ tgid[k] = l
Ending(a, l) == \/ at[a] = "mark" /\ tgid[vic[a]] = l
                \/ Last(a) /\ tg[a] = l
Remains(l)   == Unmarked(l) \/ \E a \in Actors : Ending(a, l)

\* A group whose lead does not die last has such a member.
Outlived == \A k \in Slots : state[k] = "live" /\ tgid[k] # k => Remains(tgid[k])

\* Only leads have the parent process as their parent.
Childhood == \A p \in Slots : state[p] # "unused" /\ parent[p] = Shell => tgid[p] = p

\* How the parent's wait fields go with its state and its wake_pending.
Waiting ==
  /\ shell.pc # "enrol"
  /\ shell.waiting => shell.pc \in {"sleep", "asleep"}
  /\ shell.pc = "asleep" => shell.waiting
  /\ shell.pc = "sleep" => shell.waiting \/ shell.wakePending

\* While the parent waits, each zombie child has somebody who will wake it.
Told ==
  shell.waiting =>
    \A p \in Slots : state[p] = "zombie" /\ parent[p] = Shell =>
      Remains(p) \/ \E a \in Actors : Telling(a, p)

HeardInv == LifeInv /\ Outlived /\ Childhood /\ Waiting /\ Told

\* What a step leaves alone that marks nobody, dooms nobody, retires nobody and
\* wakes nobody.
Quietly ==
  /\ \A k \in Slots : state[k] = "live" =>
       state'[k] = "live" /\ (k \in torn' => k \in torn)
  /\ \A k \in Slots : state[k] \in {"live", "zombie"} => tgid'[k] = tgid[k]
  /\ \A k \in Slots : state'[k] = "live" => state[k] = "live" \/ k \notin torn'
  /\ \A k \in Slots : state'[k] = "zombie" =>
       state[k] = "zombie" /\ (parent'[k] = Shell => parent[k] = Shell)
  /\ \A a \in Actors : at[a] \in Owing \cup {"notify", "unpin"} =>
       /\ at'[a] = at[a] \/ (at[a] = "free" /\ at'[a] = "retire")
       /\ vic'[a] = vic[a] /\ tg'[a] = tg[a] /\ last'[a] = last[a]

\* Slots made, released, let go.
LEMMA SlotsQuietly ==
  ASSUME LifeInv, NEW p \in Slots,
         \/ Exec(p, Shell) \/ Exec(p, Nobody) \/ Release(p) \/ Sweep(p)
         \/ Dispatch(p) \/ Yield(p)
  PROVE  Quietly /\ UNCHANGED shell
<1>1. CASE Exec(p, Shell) \/ Exec(p, Nobody)
  BY <1>1 DEF Exec, Alloc, LifeInv, TypeOK, Quietly, actVars
<1>2. CASE Release(p)
  BY <1>2 DEF Release, SetState, Terminal, LifeInv, TypeOK, Busy, Quietly, counts,
     actVars
<1>3. CASE Sweep(p)
  BY <1>3 DEF Sweep, Reapable, SetState, Terminal, LifeInv, TypeOK, Quietly, counts,
     actVars
<1>4. CASE Dispatch(p) \/ Yield(p)
  BY <1>4 DEF Dispatch, Yield, Quietly, counts, actVars
<1> QED BY <1>1, <1>2, <1>3, <1>4

\* A thread's own steps, and the beginning of a kill.
LEMMA ThreadsQuietly ==
  ASSUME Unbroken, LifeInv, NEW p \in Slots,
         Exit(p) \/ ExitGroup(p) \/ KillGroup(p) \/ Kill(p)
  PROVE  Quietly /\ UNCHANGED shell
<1>1. \A a \in Actors : at[a] = "idle" => at[a] \notin Owing \cup {"notify", "unpin"}
  BY DEF Owing
<1>2. CASE Exit(p)
  BY <1>1, <1>2 DEF Unbroken, Exit, Running, Go, Quietly, pcbVars, counts, LifeInv,
     TypeOK
<1>3. CASE ExitGroup(p) \/ KillGroup(p) \/ Kill(p)
  BY <1>1, <1>3 DEF ExitGroup, KillGroup, Kill, StartPass, Running, Go, Quietly,
     pcbVars, counts, LifeInv, TypeOK
<1> QED BY <1>2, <1>3

\* The making of a thread.
LEMMA ClonesQuietly ==
  ASSUME LifeInv, NEW p \in Slots, CloneStep(p) \/ \E c \in Slots : Clone(p, c)
  PROVE  Quietly /\ UNCHANGED shell
<1>1. p \in Actors
  BY DEF Actors
<1>2. ASSUME NEW c \in Slots, Clone(p, c)
      PROVE  Quietly /\ UNCHANGED shell
  BY <1>1, <1>2 DEF Clone, Running, Alloc, Go, LifeInv, TypeOK, Quietly, Owing
<1>3. ASSUME at[p] \in CloneSteps
      PROVE  vic[p] \in Slots /\ state[vic[p]] = "loading" /\ vic[p] \notin torn
  BY <1>1, <1>3 DEF LifeInv, Cloning, Busy
<1>4. CASE JoinGroup(p)
  BY <1>1, <1>3, <1>4 DEF JoinGroup, Go, LifeInv, TypeOK, Quietly, Owing, CloneSteps,
     counts
<1>5. CASE CheckGroup(p)
  BY <1>1, <1>3, <1>5 DEF CheckGroup, SetState, Terminal, Go, LifeInv, TypeOK,
     Quietly, Owing, CloneSteps, counts
<1>6. CASE Publish(p)
  BY <1>1, <1>3, <1>6 DEF Publish, SetState, Terminal, Go, LifeInv, TypeOK, Quietly,
     Owing, CloneSteps, counts
<1> QED BY <1>2, <1>4, <1>5, <1>6 DEF CloneStep

\* A killer's walk, and the ends of a teardown.
LEMMA ActorsQuietly ==
  ASSUME LifeInv, NEW a \in Actors,
         \/ NextPeer(a) \/ Claim(a) \/ Await(a) \/ Poll(a)
         \/ FreeGroup(a) \/ End(a)
  PROVE  Quietly /\ UNCHANGED shell
<1>1. CASE NextPeer(a) \/ Claim(a) \/ Await(a) \/ Poll(a)
  BY <1>1 DEF NextPeer, Claim, Await, Poll, Go, LifeInv, TypeOK, Quietly, Owing,
     pcbVars, counts
<1>2. CASE FreeGroup(a)
  BY <1>2 DEF FreeGroup, Go, LifeInv, TypeOK, Quietly, Owing
<1>3. CASE End(a)
  BY <1>3 DEF End, Go, LifeInv, TypeOK, Quietly, Owing, counts
<1> QED BY <1>1, <1>2, <1>3

\* The parent's steps.
LEMMA ShellQuietly ==
  ASSUME LifeInv, WaitCall \/ ShellStep \/ ShellExit
  PROVE  Quietly
<1>1. CASE Scan
  BY <1>1 DEF Scan, ZombieChildren, Reapable, SetState, Terminal, LifeInv, TypeOK,
     Quietly, counts, actVars
<1>2. CASE ShellExit
  BY <1>2 DEF ShellExit, LifeInv, TypeOK, Quietly, counts, actVars
<1>3. CASE WaitCall \/ Enrol \/ Sleep
  BY <1>3 DEF WaitCall, Enrol, Sleep, LifeInv, TypeOK, Quietly, pcbVars, counts, actVars
<1> QED BY <1>1, <1>2, <1>3 DEF ShellStep

\* Through such a step, what remains remains, and who is to tell still is.
LEMMA QuietlyKeeps ==
  ASSUME LifeInv, Quietly, NEW l \in Slots
  PROVE  /\ Remains(l) => Remains(l)'
         /\ \A a \in Actors : Telling(a, l) => Telling(a, l)'
<1>1. \A a \in Actors : at[a] \in Owing =>
        vic[a] \in Slots /\ state[vic[a]] \in {"live", "zombie"}
  BY Tearer
<1>2. Unmarked(l) => Unmarked(l)'
  BY DEF Unmarked, Quietly
<1>3. ASSUME NEW a \in Actors, Ending(a, l)
      PROVE  Ending(a, l)'
  BY <1>1, <1>3 DEF Ending, Last, Quietly, Owing
<1>4. ASSUME NEW a \in Actors, Telling(a, l)
      PROVE  Telling(a, l)'
  BY <1>4 DEF Telling, Quietly, Owing
<1> QED BY <1>2, <1>3, <1>4 DEF Remains

\* Every step is such a one, or one of five.
LEMMA StepIs ==
  ASSUME Unbroken, LifeInv, [Next]_vars
  PROVE  \/ Quietly /\ (UNCHANGED shell \/ WaitCall \/ ShellStep \/ ShellExit)
         \/ \E a \in Actors : Mark(a) \/ Doom(a) \/ Retire(a) \/ Notify(a) \/ Unpin(a)
<1>1. CASE UNCHANGED vars
  BY <1>1 DEF vars, pcbVars, actVars, Quietly
<1>2. ASSUME NEW p \in Slots,
             \/ Exec(p, Shell) \/ Exec(p, Nobody) \/ Release(p) \/ Sweep(p)
             \/ Dispatch(p) \/ Yield(p)
      PROVE  Quietly /\ UNCHANGED shell
  BY <1>2, SlotsQuietly
<1>3. ASSUME NEW p \in Slots, Exit(p) \/ ExitGroup(p) \/ KillGroup(p) \/ Kill(p)
      PROVE  Quietly /\ UNCHANGED shell
  BY <1>3, ThreadsQuietly
<1>4. ASSUME NEW p \in Slots, CloneStep(p) \/ \E c \in Slots : Clone(p, c)
      PROVE  Quietly /\ UNCHANGED shell
  BY <1>4, ClonesQuietly
<1>5. ASSUME NEW a \in Actors,
             \/ NextPeer(a) \/ Claim(a) \/ Await(a) \/ Poll(a)
             \/ FreeGroup(a) \/ End(a)
      PROVE  Quietly /\ UNCHANGED shell
  BY <1>5, ActorsQuietly
<1>6. CASE WaitCall \/ ShellStep \/ ShellExit
  BY <1>6, ShellQuietly
<1> QED BY <1>1, <1>2, <1>3, <1>4, <1>5, <1>6 DEF Next, KillStep, TearStep

\* A thread has no parent process.
LEMMA Parents == Shell # Nobody
<1>1. Shell = Nobody => {Shell, Desktop, Nobody, Ext} = {Desktop, Nobody, Ext}
  OBVIOUS
<1> QED BY <1>1, Three, DistinctAssumption

\* Only a launch gives a process a parent, and it makes it a lead.
LEMMA ChildhoodStep ==
  ASSUME LifeInv, Childhood, [Next]_vars
  PROVE  Childhood'
<1>1. \A a \in Actors : at[a] = "join" =>
        a \in Slots /\ vic[a] \in Slots /\ tgid[vic[a]] = Nobody
  BY DEF LifeInv, Cloning, CloneSteps
<1>2. ASSUME NEW p \in Slots, state'[p] # "unused", parent'[p] = Shell
      PROVE  tgid'[p] = p
  <2>1. CASE \E q \in Slots : Exec(q, Shell) \/ Exec(q, Nobody)
    BY <1>2, <2>1 DEF Exec, Alloc, LifeInv, TypeOK, Childhood
  <2>2. CASE \E q, c \in Slots : Clone(q, c)
    BY <1>2, <2>2, Parents DEF Clone, Alloc, LifeInv, TypeOK, Childhood
  <2>3. CASE \E q \in Slots : JoinGroup(q)
    <3>1. PICK q \in Slots : JoinGroup(q)
      BY <2>3
    <3>2. q \in Actors /\ at[q] = "join" /\ UNCHANGED <<state, parent>>
          /\ tgid' = [tgid EXCEPT ![vic[q]] = tgid[q]]
      BY <3>1 DEF JoinGroup, Actors
    <3>3. tgid[p] = p
      BY <1>2, <3>2 DEF Childhood
    <3>4. vic[q] # p
      BY <1>1, <3>2, <3>3, Outside
    <3> QED BY <3>2, <3>3, <3>4 DEF LifeInv, TypeOK
  <2>4. ASSUME UNCHANGED tgid,
               \/ UNCHANGED <<parent, state>>
               \/ UNCHANGED parent /\ \E q \in Slots, s \in {"live", "zombie", "unused"} :
                    SetState(q, s)
               \/ ShellExit
        PROVE  tgid'[p] = p
    <3>1. state[p] # "unused" /\ parent[p] = Shell
      BY <1>2, <2>4 DEF ShellExit, SetState, Terminal, LifeInv, TypeOK
    <3> QED BY <2>4, <3>1 DEF Childhood
  <2>5. CASE UNCHANGED vars
    BY <2>4, <2>5 DEF vars, pcbVars
  <2>6. CASE \E q \in Slots :
               \/ Release(q) \/ Sweep(q) \/ Dispatch(q) \/ Yield(q) \/ Exit(q)
               \/ ExitGroup(q) \/ Kill(q) \/ KillGroup(q)
    BY <2>4, <2>6 DEF Release, Sweep, Dispatch, Yield, Exit, ExitGroup, Kill,
       KillGroup, pcbVars
  <2>7. ASSUME NEW q \in Slots, CheckGroup(q) \/ Publish(q)
        PROVE  tgid'[p] = p
    <3>1. vic[q] \in Slots
      BY <2>7 DEF CheckGroup, Publish, LifeInv, Cloning, CloneSteps, Actors
    <3> QED BY <2>4, <2>7, <3>1 DEF CheckGroup, Publish
  <2>8. ASSUME NEW a \in Actors, KillStep(a) \/ TearStep(a)
        PROVE  tgid'[p] = p
    <3>1. /\ at[a] = "doom" => vic[a] \in Slots
          /\ at[a] \in TearSteps => vic[a] \in Slots
          /\ at[a] = "unpin" => tg[a] \in Slots
      BY DEF LifeInv, Killing, KillSteps, Tearing, TearSteps
    <3> QED BY <2>4, <2>8, <3>1 DEF KillStep, NextPeer, Claim, Await, Poll, Doom,
            TearStep, Mark, FreeGroup, Retire, Notify, Unpin, End, pcbVars, TearSteps
  <2>9. CASE WaitCall \/ ShellStep \/ ShellExit
    <3>1. CASE Scan /\ ZombieChildren # {}
      <4>1. \E q \in Slots : SetState(q, "unused")
        BY <3>1 DEF Scan, ZombieChildren
      <4> QED BY <2>4, <3>1, <4>1 DEF Scan
    <3>2. CASE WaitCall \/ (Scan /\ ZombieChildren = {}) \/ Enrol \/ Sleep
      BY <2>4, <3>2 DEF WaitCall, Scan, Enrol, Sleep, pcbVars
    <3>3. CASE ShellExit
      BY <2>4, <3>3 DEF ShellExit
    <3> QED BY <2>9, <3>1, <3>2, <3>3 DEF ShellStep
  <2> QED BY <2>1, <2>2, <2>3, <2>5, <2>6, <2>7, <2>8, <2>9 DEF Next, CloneStep
<1> QED BY <1>2 DEF Childhood

\* The parent is woken with its wait fields cleared and its wake_pending set.
LEMMA WaitingStep ==
  ASSUME ~ScanGap, Unbroken, LifeInv, Waiting, [Next]_vars
  PROVE  Waiting'
<1>1. CASE UNCHANGED shell
  BY <1>1 DEF Waiting
<1>2. ASSUME shell' = Woken, shell.waiting
      PROVE  Waiting'
  BY <1>2 DEF Waiting, Woken, LifeInv, TypeOK
<1>3. CASE WaitCall \/ ShellStep \/ ShellExit
  BY <1>3 DEF WaitCall, ShellStep, Scan, Enrol, Sleep, ShellExit, Enrolled, Waiting,
     LifeInv, TypeOK
<1>4. ASSUME NEW a \in Actors, Mark(a) \/ Doom(a) \/ Retire(a) \/ Notify(a) \/ Unpin(a)
      PROVE  Waiting'
  BY <1>1, <1>2, <1>4 DEF Mark, Doom, Retire, Notify, Unpin, ParentIsWaiting
<1> QED BY <1>1, <1>3, <1>4, StepIs

\* A member that is marked leaves another to be the last, or is the last.
LEMMA MarkLeaves ==
  ASSUME LifeInv, NEW a \in Actors, Mark(a), NEW l \in Slots
  PROVE  /\ Remains(l) => Remains(l)'
         /\ \A b \in Actors : Telling(b, l) => Telling(b, l)'
<1>1. /\ at[a] = "mark" /\ vic[a] \in Slots
      /\ torn' = torn \cup {vic[a]} /\ at' = [at EXCEPT ![a] = "free"]
      /\ tg' = [tg EXCEPT ![a] = tgid[vic[a]]]
      /\ last' = [last EXCEPT ![a] = ~OtherUnclaimed(vic[a], tgid[vic[a]])]
      /\ UNCHANGED <<state, tgid, vic>>
  BY Tearer DEF Mark, Go, Owing
<1>2. /\ at'[a] = "free" /\ tg'[a] = tgid[vic[a]]
      /\ last'[a] = ~OtherUnclaimed(vic[a], tgid[vic[a]])
      /\ \A b \in Actors \ {a} : at'[b] = at[b] /\ tg'[b] = tg[b] /\ last'[b] = last[b]
  BY <1>1 DEF LifeInv, TypeOK
<1>3. \A b \in Actors : Telling(b, l) => Telling(b, l)'
  BY <1>1, <1>2 DEF Telling, Owing
<1>4. CASE l = tgid[vic[a]]
  <2>1. CASE OtherUnclaimed(vic[a], l)
    BY <1>1, <1>3, <1>4, <2>1 DEF OtherUnclaimed, Counted, Remains, Unmarked
  <2>2. CASE ~OtherUnclaimed(vic[a], l)
    BY <1>2, <1>3, <1>4, <2>2 DEF Remains, Ending, Last
  <2> QED BY <2>1, <2>2
<1>5. CASE l # tgid[vic[a]]
  <2>1. Unmarked(l) => Unmarked(l)'
    BY <1>1, <1>5 DEF Unmarked
  <2>2. \A b \in Actors : Ending(b, l) => Ending(b, l)'
    BY <1>1, <1>2, <1>5 DEF Ending, Last
  <2> QED BY <1>3, <2>1, <2>2 DEF Remains
<1> QED BY <1>4, <1>5

\* So does one that is doomed: its killer is about to mark it.
LEMMA DoomLeaves ==
  ASSUME LifeInv, NEW a \in Actors, Doom(a), NEW l \in Slots
  PROVE  /\ Remains(l) => Remains(l)'
         /\ \A b \in Actors : Telling(b, l) => Telling(b, l)'
<1>1. /\ at[a] = "doom" /\ vic[a] \in Slots /\ state[vic[a]] = "live"
      /\ at' = [at EXCEPT ![a] = "mark"]
      /\ UNCHANGED <<tgid, torn, vic, tg, last>>
      /\ \A k \in Slots \ {vic[a]} : state'[k] = state[k]
  BY DEF Doom, Go, LifeInv, Killing, KillSteps, SetState, TypeOK
<1>2. at'[a] = "mark" /\ \A b \in Actors \ {a} : at'[b] = at[b]
  BY <1>1 DEF LifeInv, TypeOK
<1>3. \A b \in Actors : Telling(b, l) => Telling(b, l)'
  BY <1>1, <1>2 DEF Telling, Owing
<1>4. \A b \in Actors : Ending(b, l) => Ending(b, l)'
  BY <1>1, <1>2 DEF Ending, Last
<1>5. Unmarked(l) => Unmarked(l)' \/ Ending(a, l)'
  BY <1>1, <1>2 DEF Unmarked, Ending
<1> QED BY <1>3, <1>4, <1>5 DEF Remains

\* Who retires is one no more: a group loses its last member only when no other
\* is left but the lead, and then the lead has its own teardown, or is found pinned.
LEMMA RetireLeaves ==
  ASSUME Unbroken, LifeInv, NEW a \in Actors, Retire(a)
  PROVE  /\ \A k \in Slots : state'[k] = "live" => state[k] = "live"
         /\ \A l \in Slots : Remains(l) =>
              \/ Remains(l)'
              \/ /\ last[a] /\ tg[a] = l
                 /\ \A k \in Slots : state'[k] = "live" /\ tgid[k] = l => k = l
         /\ \A l \in Slots, b \in Actors \ {a} : Telling(b, l) => Telling(b, l)'
         /\ \A l \in Slots : state'[l] = "zombie" =>
              \/ vic[a] # l /\ state[l] = "zombie"
              \/ vic[a] = l /\ at'[a] = "notify"
         /\ vic[a] # tg[a] /\ last[a] => at'[a] = "unpin"
         /\ UNCHANGED <<tgid, parent, vic, tg, shell>>
<1>1. /\ at[a] = "retire" /\ vic[a] \in Slots /\ vic[a] \in torn
      /\ state[vic[a]] \in {"live", "zombie"} /\ tgid[vic[a]] = tg[a]
  BY Tearer DEF Retire, Owing, LifeInv, Tearing
<1>2. /\ at'[a] \in {"notify", "unpin", "end"}
      /\ \A b \in Actors \ {a} : at'[b] = at[b]
      /\ UNCHANGED <<tgid, parent, torn, vic, tg, last, shell>>
  BY <1>1 DEF Retire, Go, LifeInv, TypeOK
<1>3. /\ \A k \in Slots \ {vic[a]} : state'[k] = state[k]
      /\ \/ state'[vic[a]] = "zombie" /\ at'[a] = "notify"
         \/ state'[vic[a]] = "unused"
  BY <1>1 DEF Retire, Go, SetState, Terminal, LifeInv, TypeOK
<1>4. vic[a] # tg[a] /\ last[a] => at'[a] = "unpin"
  BY <1>1 DEF Retire, Pins, Go, LifeInv, TypeOK
<1>5. last[a] => \A k \in Slots : state'[k] = "live" /\ tgid[k] = tg[a] => k = tg[a]
  BY <1>3 DEF Retire, Unbroken, Counted
<1>6. ASSUME NEW l \in Slots, Remains(l)
      PROVE  Remains(l)' \/ (last[a] /\ tg[a] = l)
  <2>1. Unmarked(l) => Unmarked(l)'
    BY <1>1, <1>2, <1>3 DEF Unmarked
  <2>2. \A b \in Actors \ {a} : Ending(b, l) => Ending(b, l)'
    BY <1>2 DEF Ending, Last
  <2>3. Ending(a, l) => last[a] /\ tg[a] = l
    BY <1>1 DEF Ending, Last
  <2> QED BY <1>6, <2>1, <2>2, <2>3 DEF Remains
<1>7. \A l \in Slots, b \in Actors \ {a} : Telling(b, l) => Telling(b, l)'
  BY <1>2 DEF Telling
<1> QED BY <1>1, <1>2, <1>3, <1>4, <1>5, <1>6, <1>7

\* What Notify and Unpin leave alone: they wake a parent that waits for the
\* lead, and lose nobody else.
LEMMA WakeLeaves ==
  ASSUME LifeInv, NEW a \in Actors, Notify(a) \/ Unpin(a)
  PROVE  /\ \A k \in Slots : state'[k] \in {"live", "zombie"} => state'[k] = state[k]
         /\ \A l \in Slots : Remains(l) => Remains(l)'
         /\ \A l \in Slots, b \in Actors : Telling(b, l) =>
              \/ Telling(b, l)'
              \/ /\ shell.waiting /\ parent[l] = Shell /\ shell.pc # "gone"
                   /\ state'[l] = "zombie" => ~shell'.waiting
         /\ shell'.waiting => shell.waiting
         /\ UNCHANGED <<tgid, parent>>
<1>1. /\ at[a] \in {"notify", "unpin"}
      /\ \A b \in Actors \ {a} : at'[b] = at[b]
      /\ UNCHANGED <<tgid, parent, torn, vic, tg, last>>
  BY DEF Notify, Unpin, Go, LifeInv, TypeOK, pcbVars
<1>2. \A k \in Slots : state[k] = "live" <=> state'[k] = "live"
  BY <1>1 DEF Notify, Unpin, Unpins, SetState, Terminal, pcbVars, LifeInv, TypeOK,
     Tearing, TearSteps
<1>3. \A k \in Slots : state'[k] \in {"live", "zombie"} => state'[k] = state[k]
  BY <1>1 DEF Notify, Unpin, Unpins, SetState, Terminal, pcbVars, LifeInv, TypeOK,
     Tearing, TearSteps
<1>4. ASSUME NEW l \in Slots, Remains(l)
      PROVE  Remains(l)'
  <2>1. Unmarked(l) => Unmarked(l)'
    BY <1>1, <1>2 DEF Unmarked
  <2>2. \A b \in Actors : Ending(b, l) => Ending(b, l)'
    BY <1>1 DEF Ending, Last
  <2> QED BY <1>4, <2>1, <2>2 DEF Remains
<1>5. ASSUME NEW l \in Slots, Telling(a, l), shell.waiting, parent[l] = Shell,
             shell.pc # "gone", state'[l] = "zombie"
      PROVE  ~shell'.waiting
  <2>1. l = (IF at[a] = "notify" THEN vic[a] ELSE tg[a])
    BY <1>1, <1>5 DEF Telling, Owing
  <2>2. ParentAlive(l) /\ ParentIsWaiting(l)
    BY <1>5 DEF ParentAlive, ParentIsWaiting
  <2>3. state[l] = "zombie"
    BY <1>3, <1>5
  <2>4. shell' = Woken
    BY <1>1, <2>1, <2>2, <2>3 DEF Notify, Unpin, Unpins
  <2> QED BY <2>4 DEF Woken, LifeInv, TypeOK
<1>6. \A l \in Slots, b \in Actors \ {a} : Telling(b, l) => Telling(b, l)'
  BY <1>1 DEF Telling
<1>7. shell'.waiting => shell.waiting
  BY DEF Notify, Unpin, Woken, LifeInv, TypeOK
<1> QED BY <1>1, <1>3, <1>4, <1>5, <1>6, <1>7

\* A group that loses a member keeps one that will be the last.
LEMMA OutlivedStep ==
  ASSUME Unbroken, LifeInv, LifeInv', Outlived, [Next]_vars
  PROVE  Outlived'
<1>1. CASE Quietly
  <2> SUFFICES ASSUME NEW k \in Slots, state'[k] = "live", tgid'[k] # k
               PROVE  \E l \in Slots : l = tgid'[k] /\ Remains(l)'
    BY DEF Outlived, Remains, Unmarked, Ending
  <2>1. CASE state[k] = "live"
    <3>1. tgid'[k] = tgid[k] /\ tgid[k] \in Slots
      BY <1>1, <2>1 DEF Quietly, LifeInv, Led, IsLead
    <3>2. PICK l \in Slots : l = tgid[k]
      BY <3>1
    <3>3. Remains(l)
      BY <2>1, <3>1, <3>2 DEF Outlived
    <3> QED BY <1>1, <3>1, <3>2, <3>3, QuietlyKeeps
  <2>2. CASE state[k] # "live"
    <3>1. k \notin torn' /\ tgid'[k] \in Slots
      BY <1>1, <2>2 DEF Quietly, LifeInv, Led, IsLead
    <3>2. PICK l \in Slots : l = tgid'[k]
      BY <3>1
    <3> QED BY <3>1, <3>2 DEF Remains, Unmarked
  <2> QED BY <2>1, <2>2
<1>2. ASSUME NEW a \in Actors, Mark(a) \/ Doom(a) \/ Retire(a) \/ Notify(a) \/ Unpin(a)
      PROVE  Outlived'
  <2>1. UNCHANGED tgid /\ \A k \in Slots : state'[k] = "live" => state[k] = "live"
    <3>1. CASE Mark(a)
      BY <3>1 DEF Mark
    <3>2. CASE Doom(a)
      BY <3>2 DEF Doom, SetState, Terminal, LifeInv, TypeOK, Killing, KillSteps
    <3>3. CASE Retire(a)
      BY <1>2, <3>3, RetireLeaves
    <3>4. CASE Notify(a) \/ Unpin(a)
      BY <1>2, <3>4, WakeLeaves
    <3> QED BY <1>2, <3>1, <3>2, <3>3, <3>4
  <2>2. ASSUME NEW l \in Slots, Remains(l),
               NEW k \in Slots, state'[k] = "live", tgid[k] = l, k # l
        PROVE  Remains(l)'
    BY <1>2, <2>2, MarkLeaves, DoomLeaves, RetireLeaves, WakeLeaves
  <2>3. \A k \in Slots : state[k] = "live" => tgid[k] \in Slots
    BY DEF LifeInv, Led, IsLead
  <2>4. \A l \in Slots, k \in Slots :
          Remains(l) /\ state'[k] = "live" /\ tgid[k] = l /\ k # l => Remains(l)'
    BY <2>2
  <2> QED BY <2>1, <2>3, <2>4 DEF Outlived, Remains, Unmarked, Ending
<1> QED BY <1>1, <1>2, StepIs

\* A parent that waits is told: it begins to wait only when no child of it can
\* be reaped, so that each zombie among them has members to come.
LEMMA ToldStep ==
  ASSUME ~ScanGap, Unbroken, LifeInv, Outlived, Waiting, Told, [Next]_vars
  PROVE  Told'
<1> SUFFICES ASSUME shell'.waiting, NEW p \in Slots, state'[p] = "zombie",
                    parent'[p] = Shell
             PROVE  Remains(p)' \/ \E a \in Actors : Telling(a, p)'
  BY DEF Told
<1>1. CASE Quietly /\ (UNCHANGED shell \/ WaitCall \/ ShellStep \/ ShellExit)
  <2>1. state[p] = "zombie" /\ parent[p] = Shell
    BY <1>1 DEF Quietly
  <2>2. CASE shell.waiting
    BY <1>1, <2>1, <2>2, QuietlyKeeps DEF Told
  <2>3. CASE ~shell.waiting
    <3>1. Scan /\ ZombieChildren = {}
      BY <1>1, <2>3 DEF WaitCall, ShellStep, Scan, Enrol, Sleep, ShellExit, Waiting,
         LifeInv, TypeOK
    <3>2. GroupHasOtherLive(p)
      BY <2>1, <3>1 DEF ZombieChildren, Reapable
    <3>3. Remains(p)
      BY <3>2 DEF GroupHasOtherLive, Counted, Outlived
    <3> QED BY <1>1, <3>3, QuietlyKeeps
  <2> QED BY <2>2, <2>3
<1>2. ASSUME NEW a \in Actors, Mark(a)
      PROVE  Remains(p)' \/ \E b \in Actors : Telling(b, p)'
  BY <1>2, MarkLeaves DEF Mark, Told
<1>3. ASSUME NEW a \in Actors, Doom(a)
      PROVE  Remains(p)' \/ \E b \in Actors : Telling(b, p)'
  <2>1. CASE vic[a] = p
    <3>1. Telling(a, p)'
      BY <1>3, <2>1 DEF Doom, Go, Telling, Owing, LifeInv, TypeOK
    <3> QED BY <3>1
  <2>2. CASE vic[a] # p
    <3>1. state[p] = "zombie" /\ UNCHANGED <<parent, shell>>
      BY <1>3, <2>2 DEF Doom, SetState, LifeInv, TypeOK
    <3>2. Remains(p) \/ \E b \in Actors : Telling(b, p)
      BY <3>1 DEF Told
    <3> QED BY <1>3, <3>2, DoomLeaves
  <2> QED BY <2>1, <2>2
<1>4. ASSUME NEW a \in Actors, Retire(a)
      PROVE  Remains(p)' \/ \E b \in Actors : Telling(b, p)'
  <2>1. /\ UNCHANGED <<parent, vic, tg, shell>>
        /\ \/ vic[a] # p /\ state[p] = "zombie"
           \/ vic[a] = p /\ at'[a] = "notify"
    BY <1>4, RetireLeaves
  <2>2. CASE vic[a] = p
    <3>1. Telling(a, p)'
      BY <2>1, <2>2 DEF Telling
    <3> QED BY <3>1
  <2>3. CASE vic[a] # p /\ Remains(p)
    <3>1. Remains(p)' \/ (last[a] /\ tg[a] = p)
      BY <1>4, <2>3, RetireLeaves
    <3>2. last[a] /\ tg[a] = p => Telling(a, p)'
      BY <1>4, <2>1, <2>3, RetireLeaves DEF Telling
    <3> QED BY <3>1, <3>2
  <2>4. CASE vic[a] # p /\ \E b \in Actors : Telling(b, p)
    <3>1. ~Telling(a, p)
      BY <1>4, <2>4 DEF Telling, Retire
    <3> QED BY <1>4, <2>4, <3>1, RetireLeaves
  <2> QED BY <2>1, <2>2, <2>3, <2>4 DEF Told
<1>5. ASSUME NEW a \in Actors, Notify(a) \/ Unpin(a)
      PROVE  Remains(p)' \/ \E b \in Actors : Telling(b, p)'
  <2>1. /\ state[p] = "zombie" /\ parent[p] = Shell
        /\ shell.waiting /\ shell.pc # "gone"
    BY <1>5, WakeLeaves DEF Waiting
  <2>2. Remains(p) \/ \E b \in Actors : Telling(b, p)
    BY <2>1 DEF Told
  <2> QED BY <1>5, <2>1, <2>2, WakeLeaves
<1> QED BY <1>1, <1>2, <1>3, <1>4, <1>5, StepIs

\* Together.
LEMMA HeardStep ==
  ASSUME ~ScanGap, Unbroken, HeardInv, [Next]_vars
  PROVE  HeardInv'
BY StepKeeps, OutlivedStep, ChildhoodStep, WaitingStep, ToldStep DEF HeardInv

LEMMA InitHeard == Init => HeardInv
<1> SUFFICES ASSUME Init PROVE HeardInv
  OBVIOUS
<1>1. /\ \A p \in Slots : state[p] = "unused"
      /\ shell.pc = "user" /\ ~shell.waiting
  BY DEF Init, All
<1> QED BY <1>1, InitKeeps DEF HeardInv, Outlived, Childhood, Waiting, Told

\* A parent that waits hears of every child it can reap, as long as no child
\* dies between its scan and its wait; so it does in scene "reuse".
THEOREM ParentIsHeard ==
  ASSUME Unbroken, ~ScanGap
  PROVE  /\ Spec => []ParentHears
         /\ MCSpec => []ParentHearsUnbroken
<1> DEFINE J == scene = "reuse" => HeardInv
<1>1. HeardInv => ParentHears
  <2> SUFFICES ASSUME HeardInv, Quiet, shell.pc = "asleep", NEW p \in ZombieChildren
               PROVE  FALSE
    BY DEF ParentHears
  <2>1. /\ p \in Slots /\ state[p] = "zombie" /\ parent[p] = Shell
        /\ ~GroupHasOtherLive(p) /\ shell.waiting
    BY DEF ZombieChildren, Reapable, HeardInv, Waiting
  <2>2. \A a \in Actors : ~Ending(a, p) /\ ~Telling(a, p)
    BY DEF Quiet, Ending, Telling, Last, Owing
  <2>3. Unmarked(p)
    BY <2>1, <2>2 DEF HeardInv, Told, Remains
  <2> QED BY <2>1, <2>3 DEF Unmarked, GroupHasOtherLive, Counted
<1>2. Spec => []HeardInv
  <2>1. HeardInv /\ [Next]_vars => HeardInv'
    BY HeardStep
  <2> QED BY <2>1, InitHeard, PTL DEF Spec
<1>3. MCInit => J
  BY InitHeard DEF MCInit
<1>4. J /\ [MCNext]_<<vars, scene>> => J'
  <2> SUFFICES ASSUME J, [MCNext]_<<vars, scene>>, scene' = "reuse"
               PROVE  HeardInv'
    OBVIOUS
  <2>1. scene = "reuse" /\ [Next]_vars
    BY DEF MCNext
  <2> QED BY <2>1, HeardStep
<1>5. J => ParentHearsUnbroken
  BY <1>1 DEF ParentHearsUnbroken
<1> HIDE DEF J
<1>6. MCSpec => []ParentHearsUnbroken
  BY <1>3, <1>4, <1>5, PTL DEF MCSpec
<1> QED BY <1>1, <1>2, <1>6, PTL
=============================================================================
