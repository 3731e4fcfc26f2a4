----------------------------- MODULE Lifecycle -----------------------------
(***************************************************************************)
(* The life of a process in src/src/proc/lifecycle.zig: slots handed out   *)
(* and rebuilt, threads that join a group, exits and kills, the teardown   *)
(* that frees the group's address space when its last member dies, the     *)
(* lead pinned as a zombie until then, and the parent in waitpid.          *)
(*                                                                         *)
(* One action per access another CPU can tell apart.  Abstracted: which    *)
(* CPU runs a task and the switch off it (module Sched), the locks a       *)
(* teardown gives back (modules RwMutex and Sched), the steps of waking    *)
(* (module Wait), exit statuses, and every resource of a group but its     *)
(* address space, which is freed with it.                                  *)
(***************************************************************************)
EXTENDS FiniteSets, Naturals

CONSTANTS
  NSlots,       \* MAX_PROCS
  MaxBorn,      \* how many processes the parent may create (bound)
  MaxKills,     \* how many kills come from outside (bound)
  Ext,          \* a killer that is no member of a group: desktop, cli
  Shell, Desktop, \* the parent process; INIT_PID, to which orphans go
  Nobody,
  ScanGap,      \* others may act between waitpid's scan and its wait (bound)
  MidKill,      \* others may act on a victim between its killer's .zombie and
                \* the end of the teardown (bound)
  SlowWorker,   \* a lead may overtake a worker that marked itself first (bound)
  KillersQuit   \* a killer may be evicted in its pass, or give up on a slow
                \* constructor (bound)

ASSUME NAssumption == NSlots \in Nat \ {0} /\ MaxBorn \in Nat /\ MaxKills \in Nat

ASSUME SwitchAssumption ==
  {ScanGap, MidKill, SlowWorker, KillersQuit} \subseteq BOOLEAN

Slots  == 1..NSlots
Actors == Slots \cup {Ext}

ASSUME DistinctAssumption ==
  Cardinality({Shell, Desktop, Nobody, Ext}) = 4 /\ {Shell, Desktop, Nobody, Ext} \cap Slots = {}

VARIABLES
  state,      \* PCB.state; live is .ready, .running or .sleeping
  onCpu,      \* slots whose task, live or dying, is on its kernel stack
  tgid,       \* PCB.tgid
  parent,     \* PCB.parent_pid of a lead
  pageDir,    \* PCB.page_directory: the address space, 0 when null
  exiting,    \* slots with exit_requested
  torn,       \* slots with teardown_marked
  groupExit,  \* slots with group_exiting
  stamped,    \* slots whose death_tick is of their present task
  spaces,     \* address spaces not freed
  born, kills,\* processes and outside kills so far
  at, vic, tg, last, idx, grp, \* each actor: its step and locals
  shell       \* the parent: its step, its wait fields, its wake_pending

pcbVars == <<state, onCpu, tgid, parent, pageDir, exiting, torn, groupExit, stamped>>
actVars == <<at, vic, tg, last, idx, grp>>
counts  == <<spaces, born, kills>>
vars    == <<pcbVars, counts, actVars, shell>>

Terminal == {"unused", "zombie"}
KillSteps == {"next", "claim", "await", "wait", "doom"}
TearSteps == {"mark", "free", "retire", "notify", "unpin", "end"}
CloneSteps == {"join", "check", "publish"}

TypeOK ==
  /\ state \in [Slots -> {"unused", "loading", "live", "zombie"}]
  /\ onCpu \subseteq {p \in Slots : state[p] # "loading"}
  /\ tgid \in [Slots -> Slots \cup {Nobody}]
  /\ parent \in [Slots -> {Shell, Desktop, Nobody}]
  /\ pageDir \in [Slots -> 0..MaxBorn]
  /\ exiting \subseteq Slots /\ torn \subseteq Slots
  /\ groupExit \subseteq Slots /\ stamped \subseteq Slots
  /\ spaces \subseteq 1..MaxBorn /\ born \in 0..MaxBorn /\ kills \in 0..MaxKills
  /\ at \in [Actors -> {"idle"} \cup KillSteps \cup TearSteps \cup CloneSteps]
  /\ vic \in [Actors -> Slots \cup {Nobody}]
  /\ tg \in [Actors -> Slots \cup {Nobody}]
  /\ last \in [Actors -> BOOLEAN]
  /\ idx \in [Actors -> 1..NSlots + 1]
  /\ grp \in [Actors -> Slots \cup {Nobody}]
  /\ shell \in [pc : {"user", "scan", "enrol", "sleep", "asleep", "gone"},
                waiting : BOOLEAN, wakePending : BOOLEAN]

All(S, x) == [s \in S |-> x]

Init ==
  /\ state = All(Slots, "unused") /\ onCpu = {}
  /\ tgid = All(Slots, Nobody) /\ parent = All(Slots, Nobody)
  /\ pageDir = All(Slots, 0)
  /\ exiting = {} /\ torn = {} /\ groupExit = {} /\ stamped = {}
  /\ spaces = {} /\ born = 0 /\ kills = 0
  /\ at = All(Actors, "idle") /\ vic = All(Actors, Nobody)
  /\ tg = All(Actors, Nobody) /\ last = All(Actors, FALSE)
  /\ idx = All(Actors, 1) /\ grp = All(Actors, Nobody)
  /\ shell = [pc |-> "user", waiting |-> FALSE, wakePending |-> FALSE]

-----------------------------------------------------------------------------
(* Slots, groups and the parent's wait fields. *)

Go(a, l) == at' = [at EXCEPT ![a] = l]

\* setState: out of a terminal state only reap and reuse.
SetState(p, new) ==
  state' = [state EXCEPT ![p] =
    IF @ \in Terminal /\ <<@, new>> \notin {<<"zombie", "unused">>, <<"unused", "loading">>}
      THEN @ ELSE new]

Counted(p) == state[p] = "live"

\* groupHasOtherLive: a marked member counts, a loading one does not.
GroupHasOtherLive(l) == \E k \in Slots \ {l} : Counted(k) /\ tgid[k] = l

ParentAlive(p) == parent[p] = Desktop \/ (parent[p] = Shell /\ shell.pc # "gone")

ParentIsWaiting(p) == parent[p] = Shell /\ shell.waiting

\* wake(parent).
Woken ==
  [shell EXCEPT !.wakePending = TRUE, !.waiting = FALSE,
                !.pc = IF @ = "asleep" THEN "scan" ELSE @]

Reapable(p) == state[p] = "zombie" /\ ~GroupHasOtherLive(p)

\* Whether `by` may take a zombie off a killer still at work on it.
Unattended(p, by) ==
  MidKill \/ \A a \in Actors \ {by} :
    at[a] \in TearSteps /\ vic[a] # a => p \notin {vic[a], tgid[vic[a]]}

\* Mutant of StackFree: an .unused slot is free.
StackFreeAlways(p) == TRUE

StackFree(p) == p \notin onCpu

\* resetPcbExceptState after allocSlot's claim of an .unused slot that no
\* task is on any more.  No killer still has the number in hand (bound): a
\* killer that is overtaken so far is in module Sched.
Alloc(p) ==
  /\ state[p] = "unused"
  /\ StackFree(p)
  /\ \A a \in Actors : at[a] \in KillSteps => vic[a] # p \/ at[a] = "next"
  /\ state' = [state EXCEPT ![p] = "loading"]
  /\ exiting' = exiting \ {p} /\ torn' = torn \ {p}
  /\ groupExit' = groupExit \ {p} /\ stamped' = stamped \ {p}

-----------------------------------------------------------------------------
(* The parent: execCommon, waitpid, its own exit.  The desktop launches too, *)
(* and its processes have no parent.                                         *)

Exec(p, by) ==
  /\ by = Shell => shell.pc = "user"
  /\ born < MaxBorn
  /\ Alloc(p)
  /\ born' = born + 1
  /\ spaces' = spaces \cup {born'}
  /\ pageDir' = [pageDir EXCEPT ![p] = born']
  /\ tgid' = [tgid EXCEPT ![p] = p]
  /\ parent' = [parent EXCEPT ![p] = by]
  /\ UNCHANGED <<onCpu, kills, actVars, shell>>

\* The held child is released.
Release(p) ==
  /\ state[p] = "loading"
  /\ tgid[p] = p
  /\ SetState(p, "live")
  /\ UNCHANGED <<onCpu, tgid, parent, pageDir, exiting, torn, groupExit, stamped,
                 counts, actVars, shell>>

\* waitpid is refused when there is no child.
WaitCall ==
  /\ shell.pc = "user"
  /\ \E p \in Slots : state[p] # "unused" /\ parent[p] = Shell
  /\ shell' = [shell EXCEPT !.pc = "scan"]
  /\ UNCHANGED <<pcbVars, counts, actVars>>

ZombieChildren == {p \in Slots : parent[p] = Shell /\ Reapable(p)}

\* test-and-clear of wake_pending, then the wait fields.
Enrolled ==
  IF shell.wakePending
    THEN [shell EXCEPT !.wakePending = FALSE, !.pc = "scan"]
    ELSE [shell EXCEPT !.waiting = TRUE, !.pc = "sleep"]

\* findZombieChild, and reapZombie of what it found.
Scan ==
  /\ shell.pc = "scan"
  /\ \A p \in ZombieChildren : Unattended(p, Shell)
  /\ IF ZombieChildren # {}
       THEN \E p \in ZombieChildren :
              /\ \A q \in ZombieChildren : p <= q
              /\ SetState(p, "unused")
              /\ shell' = [shell EXCEPT !.pc = "user"]
       ELSE /\ shell' = IF ScanGap THEN [shell EXCEPT !.pc = "enrol"] ELSE Enrolled
            /\ UNCHANGED state
  /\ UNCHANGED <<onCpu, tgid, parent, pageDir, exiting, torn, groupExit, stamped,
                 counts, actVars>>

Enrol ==
  /\ shell.pc = "enrol"
  /\ shell' = Enrolled
  /\ UNCHANGED <<pcbVars, counts, actVars>>

\* .sleeping, and back when wake_pending was set meanwhile.
Sleep ==
  /\ shell.pc = "sleep"
  /\ shell' = IF shell.wakePending THEN [shell EXCEPT !.pc = "scan", !.waiting = FALSE]
                                   ELSE [shell EXCEPT !.pc = "asleep"]
  /\ UNCHANGED <<pcbVars, counts, actVars>>

\* The parent exits: reparentChildren.
ShellExit ==
  /\ shell.pc = "user"
  /\ shell' = [shell EXCEPT !.pc = "gone"]
  /\ parent' = [p \in Slots |-> IF parent[p] = Shell /\ state[p] # "unused"
                                  THEN Desktop ELSE parent[p]]
  /\ UNCHANGED <<state, onCpu, tgid, pageDir, exiting, torn, groupExit, stamped,
                 counts, actVars>>

\* reapStaleZombies: the threshold outlasts a teardown when death_tick is
\* this task's.
Sweep(p) ==
  /\ Reapable(p) /\ Unattended(p, Nobody)
  /\ ~ParentIsWaiting(p)
  /\ ScanGap \/ shell.pc \in {"user", "gone"}
  /\ p \in stamped => \A a \in Actors : at[a] \notin TearSteps
  /\ SetState(p, "unused")
  /\ UNCHANGED <<onCpu, tgid, parent, pageDir, exiting, torn, groupExit, stamped,
                 counts, actVars, shell>>

-----------------------------------------------------------------------------
(* A thread: on and off its CPU, clone, exit. *)

Running(p) == p \in onCpu /\ at[p] = "idle"

Dispatch(p) ==
  /\ state[p] = "live"
  /\ p \notin onCpu \cup exiting
  /\ onCpu' = onCpu \cup {p}
  /\ UNCHANGED <<state, tgid, parent, pageDir, exiting, torn, groupExit, stamped,
                 counts, actVars, shell>>

\* Mutant of MustDie: schedule() does not look at exit_requested.
MustDieNot(p) == FALSE

MustDie(p) == p \in exiting

Yield(p) ==
  /\ Running(p)
  /\ ~MustDie(p)
  /\ onCpu' = onCpu \ {p}
  /\ UNCHANGED <<state, tgid, parent, pageDir, exiting, torn, groupExit, stamped,
                 counts, actVars, shell>>

\* cloneCurrent: a slot, ...
Clone(p, c) ==
  /\ Running(p)
  /\ Alloc(c)
  /\ pageDir' = [pageDir EXCEPT ![c] = 0]
  /\ tgid' = [tgid EXCEPT ![c] = Nobody]
  /\ parent' = [parent EXCEPT ![c] = Nobody]
  /\ vic' = [vic EXCEPT ![p] = c]
  /\ Go(p, "join")
  /\ UNCHANGED <<onCpu, counts, tg, last, idx, grp, shell>>

\* ... joinGroup (but a thread's parent_pid, its lead, is left out), ...
JoinGroup(p) ==
  LET c == vic[p] IN
  /\ at[p] = "join"
  /\ tgid' = [tgid EXCEPT ![c] = tgid[p]]
  /\ pageDir' = [pageDir EXCEPT ![c] = pageDir[tgid[p]]]
  /\ Go(p, "check")
  /\ UNCHANGED <<state, onCpu, parent, exiting, torn, groupExit, stamped, counts,
                 vic, tg, last, idx, grp, shell>>

\* Mutant of GroupExiting: the new thread's group may be dying.
GroupExitingNot(c) == FALSE

GroupExiting(c) == tgid[c] \in groupExit

\* ... groupExiting, read after the tgid is stored, ...
CheckGroup(p) ==
  LET c == vic[p] IN
  /\ at[p] = "check"
  /\ IF GroupExiting(c)
       THEN SetState(c, "unused") /\ Go(p, "idle") /\ vic' = [vic EXCEPT ![p] = Nobody]
       ELSE UNCHANGED <<state, vic>> /\ Go(p, "publish")
  /\ UNCHANGED <<onCpu, tgid, parent, pageDir, exiting, torn, groupExit, stamped, counts,
                 tg, last, idx, grp, shell>>

\* ... and the thread is .ready.
Publish(p) ==
  /\ at[p] = "publish"
  /\ SetState(vic[p], "live")
  /\ Go(p, "idle")
  /\ vic' = [vic EXCEPT ![p] = Nobody]
  /\ UNCHANGED <<onCpu, tgid, parent, pageDir, exiting, torn, groupExit, stamped, counts,
                 tg, last, idx, grp, shell>>

\* destroyCurrent: by its own exit, or at the entry of schedule().
Exit(p) ==
  /\ \/ Running(p) /\ p \notin torn
     \/ /\ KillersQuit
        /\ at[p] \in KillSteps \cup TearSteps /\ vic[p] # p
        /\ p \in exiting \ torn
  /\ vic' = [vic EXCEPT ![p] = p]
  /\ grp' = [grp EXCEPT ![p] = Nobody]
  /\ Go(p, "mark")
  /\ UNCHANGED <<pcbVars, counts, tg, last, idx, shell>>

-----------------------------------------------------------------------------
(* Kills: exitThreadGroup, killThreadGroup and killProcessWithStatus. *)

StartPass(a, g) ==
  /\ groupExit' = groupExit \cup {g}
  /\ grp' = [grp EXCEPT ![a] = g]
  /\ idx' = [idx EXCEPT ![a] = 1]
  /\ Go(a, "next")

ExitGroup(p) ==
  /\ Running(p)
  /\ p \notin torn
  /\ StartPass(p, tgid[p])
  /\ UNCHANGED <<state, onCpu, tgid, parent, pageDir, exiting, torn, stamped, counts,
                 vic, tg, last, shell>>

\* From outside: a whole group, or one pid.
KillGroup(g) ==
  /\ at[Ext] = "idle" /\ kills < MaxKills
  /\ state[g] # "unused" /\ tgid[g] = g
  /\ StartPass(Ext, g)
  /\ kills' = kills + 1
  /\ UNCHANGED <<state, onCpu, tgid, parent, pageDir, exiting, torn, stamped, spaces,
                 born, vic, tg, last, shell>>

Kill(p) ==
  /\ at[Ext] = "idle" /\ kills < MaxKills
  /\ state[p] \notin Terminal
  /\ kills' = kills + 1
  /\ vic' = [vic EXCEPT ![Ext] = p]
  /\ grp' = [grp EXCEPT ![Ext] = Nobody]
  /\ idx' = [idx EXCEPT ![Ext] = NSlots + 1]
  /\ Go(Ext, "claim")
  /\ UNCHANGED <<pcbVars, spaces, born, tg, last, shell>>

\* killPeers' walk; at its end a member of the group kills itself.
Peer(a, p) == p # a /\ tgid[p] = grp[a] /\ state[p] \notin Terminal

NextPeer(a) ==
  /\ at[a] = "next"
  /\ IF idx[a] <= NSlots
       THEN /\ idx' = [idx EXCEPT ![a] = @ + 1]
            /\ IF Peer(a, idx[a])
                 THEN vic' = [vic EXCEPT ![a] = idx[a]] /\ Go(a, "claim")
                 ELSE UNCHANGED <<vic, at>>
       ELSE /\ idx' = IF a = Ext THEN [idx EXCEPT ![a] = 1] ELSE idx
            /\ vic' = [vic EXCEPT ![a] = IF a = Ext THEN Nobody ELSE a]
            /\ Go(a, IF a = Ext THEN "idle" ELSE "mark")
  /\ UNCHANGED <<pcbVars, counts, tg, last, grp, shell>>

\* The exchange of exit_requested: the first killer owns the victim.
Claim(a) ==
  LET p == vic[a] IN
  /\ at[a] = "claim"
  /\ IF state[p] \in Terminal
       THEN Go(a, "next") /\ UNCHANGED exiting
       ELSE exiting' = exiting \cup {p} /\ Go(a, IF p \in exiting THEN "await" ELSE "wait")
  /\ UNCHANGED <<state, onCpu, tgid, parent, pageDir, torn, groupExit, stamped, counts,
                 vic, tg, last, idx, grp, shell>>

\* The other killers wait for the victim to be gone, but not for ever.
Await(a) ==
  /\ at[a] = "await"
  /\ Go(a, "next")
  /\ UNCHANGED <<pcbVars, counts, vic, tg, last, idx, grp, shell>>

\* stillOnCpu: its own CPU tears the victim down.
StillOnCpu(p) == p \in onCpu

\* The owner polls: gone; off its CPU; or given up after so many rounds.
Poll(a) ==
  LET p == vic[a] IN
  /\ at[a] = "wait"
  /\ \/ state[p] \in Terminal /\ Go(a, "next")
     \/ state[p] = "live" /\ ~StillOnCpu(p) /\ Go(a, "doom")
     \/ state[p] = "live" /\ StillOnCpu(p) /\ Go(a, "next")
     \/ state[p] = "loading" /\ KillersQuit /\ Go(a, "next")
  /\ UNCHANGED <<pcbVars, counts, vic, tg, last, idx, grp, shell>>

\* Case 3: .zombie first, then the teardown.
Doom(a) ==
  /\ at[a] = "doom"
  /\ SetState(vic[a], "zombie")
  /\ Go(a, "mark")
  /\ UNCHANGED <<onCpu, tgid, parent, pageDir, exiting, torn, groupExit, stamped, counts,
                 vic, tg, last, idx, grp, shell>>

-----------------------------------------------------------------------------
(* tearDownTask, by the task itself (vic[a] = a) or by its killer. *)

\* Mutant of OtherUnclaimed: countThreadsInGroup(tgid) <= 1, which a killed
\* victim, already .zombie, is not part of.
OtherUnclaimedCount(p, g) == Cardinality({k \in Slots : Counted(k) /\ tgid[k] = g}) > 1

\* Mutant of OtherUnclaimed: members that have begun to die still count.
OtherUnclaimedMarked(p, g) == \E k \in Slots \ {p} : Counted(k) /\ tgid[k] = g

\* Mutant of OtherUnclaimed: members that are off their CPU do not count.
OtherUnclaimedOnCpu(p, g) ==
  \E k \in (Slots \cap onCpu) \ ({p} \cup torn) : Counted(k) /\ tgid[k] = g

OtherUnclaimed(p, g) == \E k \in Slots \ ({p} \cup torn) : Counted(k) /\ tgid[k] = g

\* claimTeardown: only the last claimant of a group sees no other left.
Mark(a) ==
  LET p == vic[a]
  IN /\ at[a] = "mark"
     /\ MidKill \/ \A b \in Actors \ {a} :
          at[b] = "mark" /\ vic[b] # b => tgid[vic[b]] # tgid[p]
     /\ torn' = torn \cup {p}
     /\ tg' = [tg EXCEPT ![a] = tgid[p]]
     /\ last' = [last EXCEPT ![a] = ~OtherUnclaimed(p, tgid[p])]
     /\ Go(a, "free")
     /\ UNCHANGED <<state, onCpu, tgid, parent, pageDir, exiting, groupExit, stamped,
                    counts, vic, idx, grp, shell>>

\* Mutant of Strips: every dying thread loses its page directory.
StripLead(a) == TRUE

\* Not for a lead about to be pinned: the last worker frees through it.
Strips(a) == vic[a] # tg[a] \/ last[a]

\* The last one frees the group's address space through the lead's PCB, and
\* every one lets go of its own pointer to it.
FreeGroup(a) ==
  LET cleared == (IF last[a] THEN {tg[a]} ELSE {}) \cup (IF Strips(a) THEN {vic[a]} ELSE {})
  IN /\ at[a] = "free"
     /\ spaces' = IF last[a] THEN spaces \ {pageDir[tg[a]]} ELSE spaces
     /\ pageDir' = [p \in Slots |-> IF p \in cleared THEN 0 ELSE pageDir[p]]
     /\ Go(a, "retire")
     /\ UNCHANGED <<state, onCpu, tgid, parent, exiting, torn, groupExit, stamped,
                    born, kills, vic, tg, last, idx, grp, shell>>

\* Mutant of Pins: a lead goes when it dies.
PinsNever(a) == FALSE

\* A lead is pinned while other members are alive.
Pins(a) == vic[a] = tg[a] /\ ~last[a]

Retire(a) ==
  LET p      == vic[a]
      zombie == (p = tg[a] /\ ParentAlive(p)) \/ Pins(a)
  IN /\ at[a] = "retire"
     /\ SlowWorker \/ ~last[a] \/
          \A k \in Slots \ {p, tg[a]} : ~(Counted(k) /\ tgid[k] = tg[a])
     /\ IF zombie
          THEN SetState(p, "zombie") /\ stamped' = stamped \cup {p} /\ Go(a, "notify")
          ELSE SetState(p, "unused") /\ UNCHANGED stamped
               /\ Go(a, IF last[a] /\ p # tg[a] THEN "unpin" ELSE "end")
     /\ UNCHANGED <<onCpu, tgid, parent, pageDir, exiting, torn, groupExit, counts,
                    vic, tg, last, idx, grp, shell>>

\* Wake the parent if it waits for this child.  SIGCHLD is ignored by default.
Notify(a) ==
  /\ at[a] = "notify"
  /\ shell' = IF ParentAlive(vic[a]) /\ ParentIsWaiting(vic[a]) THEN Woken ELSE shell
  /\ Go(a, "end")
  /\ UNCHANGED <<pcbVars, counts, vic, tg, last, idx, grp>>

\* Mutant of Unpins: nobody looks at the lead again.
UnpinsNever(a) == FALSE

\* The last member was a worker: the lead it finds pinned may go.
Unpins(a) == state[tg[a]] = "zombie"

Unpin(a) ==
  LET l == tg[a] IN
  /\ at[a] = "unpin"
  /\ Unattended(l, a)
  /\ shell' = IF Unpins(a) /\ ParentAlive(l) /\ ParentIsWaiting(l) THEN Woken ELSE shell
  /\ IF Unpins(a) /\ ~ParentAlive(l) /\ ~GroupHasOtherLive(l)
       THEN SetState(l, "unused") ELSE UNCHANGED state
  /\ Go(a, "end")
  /\ UNCHANGED <<onCpu, tgid, parent, pageDir, exiting, torn, groupExit, stamped, counts,
                 vic, tg, last, idx, grp>>

\* The dying task leaves its stack; a killer goes on with its walk.
End(a) ==
  /\ at[a] = "end"
  /\ onCpu' = IF vic[a] = a THEN onCpu \ {a} ELSE onCpu
  /\ Go(a, IF vic[a] = a THEN "idle" ELSE "next")
  /\ vic' = [vic EXCEPT ![a] = Nobody]
  /\ tg' = [tg EXCEPT ![a] = Nobody]
  /\ last' = [last EXCEPT ![a] = FALSE]
  /\ idx' = IF vic[a] = a THEN [idx EXCEPT ![a] = 1] ELSE idx
  /\ grp' = IF vic[a] = a THEN [grp EXCEPT ![a] = Nobody] ELSE grp
  /\ UNCHANGED <<state, tgid, parent, pageDir, exiting, torn, groupExit, stamped, counts,
                 shell>>

-----------------------------------------------------------------------------
KillStep(a) == NextPeer(a) \/ Claim(a) \/ Await(a) \/ Poll(a) \/ Doom(a)

TearStep(a) ==
  \/ Mark(a) \/ FreeGroup(a) \/ Retire(a)
  \/ Notify(a) \/ Unpin(a) \/ End(a)

CloneStep(p) == JoinGroup(p) \/ CheckGroup(p) \/ Publish(p)

ShellStep == Scan \/ Enrol \/ Sleep

Next ==
  \/ \E p \in Slots :
       \/ Exec(p, Shell) \/ Exec(p, Nobody) \/ Release(p) \/ Sweep(p)
       \/ Dispatch(p) \/ Yield(p) \/ Exit(p) \/ ExitGroup(p)
       \/ Kill(p) \/ KillGroup(p)
       \/ CloneStep(p)
       \/ \E c \in Slots : Clone(p, c)
  \/ \E a \in Actors : KillStep(a) \/ TearStep(a)
  \/ WaitCall \/ ShellStep \/ ShellExit

Spec == Init /\ [][Next]_vars

-----------------------------------------------------------------------------
(* Properties. *)

\* No thread runs on a freed address space: until its own teardown begins, a
\* member finds its group's address space through the lead, and it is there.
GroupKeepsSpace ==
  \A p \in Slots \ torn : state[p] = "live" =>
    /\ pageDir[p] \in spaces
    /\ pageDir[tgid[p]] = pageDir[p]

\* "A marked worker is still mid-teardown and reads the lead PCB for the group
\* cleanup, so the lead must outlive it": a member's lead is live or pinned.
LeadPinned ==
  \A p \in Slots : state[p] = "live" => state[tgid[p]] \in {"live", "zombie"}

\* "Exactly the LAST claimant sees zero survivors."
OneLast ==
  \A a, b \in Actors :
    a # b /\ at[a] = "free" /\ at[b] = "free" /\ last[a] /\ last[b] => tg[a] # tg[b]

\* When nobody is at work, an address space that is not freed has a live
\* thread in it.
Quiet == \A a \in Actors : at[a] = "idle"

NoLeak ==
  Quiet => \A s \in spaces : \E p \in Slots : state[p] \in {"loading", "live"} /\ pageDir[p] = s

\* "No thread can slip in behind the pass": when every pass over a group that
\* must exit is over, its live members all have been asked to.
InPass(a, g) ==
  grp[a] = g /\ at[a] \in KillSteps \cup TearSteps

NoStraggler ==
  \A g \in groupExit : (\A a \in Actors : ~InPass(a, g)) =>
    \A p \in Slots : state[p] = "live" /\ tgid[p] = g => p \in exiting \cup torn

\* "A waitpid-pending parent always reaps instantly": it does not sleep on
\* while a child of it is to be reaped and nobody is left to wake it.
ParentHears ==
  Quiet /\ shell.pc = "asleep" => ZombieChildren = {}

\* "Make sure at least one child exists.  If no children exist at all, return
\* immediately rather than blocking forever."
WaiterHasChild ==
  shell.pc = "asleep" => \E p \in Slots : state[p] # "unused" /\ parent[p] = Shell

\* "At most one killer ever runs the teardown for a given pid; concurrent
\* killers just wait for the winning one": whoever is asked to exit off its
\* CPU has a killer at work on it.
VictimAttended ==
  \A p \in exiting \ torn :
    state[p] = "live" /\ p \notin onCpu => \E a \in Actors : vic[a] = p /\ at[a] # "idle"
=============================================================================
