------------------------------ MODULE RwMutex ------------------------------
(***************************************************************************)
(* The sleep-aware readers-writer lock of src/src/proc/spinlock.zig, as a  *)
(* process's threads use it for PCB.as_lock, with the death of a thread    *)
(* that holds the lock, waits for it, or is in the middle of a release.    *)
(*                                                                         *)
(* The lock's guard is a spinlock held for a few instructions, so each     *)
(* critical section of it is one action.  Everything after the guard is    *)
(* dropped (the blocking handshake, the waiter scan) is one action per     *)
(* memory access, from module Wait.                                        *)
(*                                                                         *)
(* `seq` is only ever compared with a value read earlier, so it is kept as *)
(* the relation "has not moved since p read it": seqSeen.  (Its u32 wraps  *)
(* after 2^32 releases; a wrap inside one wait is not modelled.)           *)
(***************************************************************************)
EXTENDS Wait, FiniteSets

CONSTANTS
  Readers,      \* pids that take the read side
  Writers,      \* pids that take the write side
  Killable,     \* pids somebody may ask to exit (bound)
  Preemptible   \* pids a device interrupt may preempt inside the lock's code (bound)

ASSUME PidSetsAssumption ==
  Readers \cup Writers \cup Killable \cup Preemptible \subseteq Pids

VARIABLES
  readers,         \* pids holding the read side
  writer,          \* pid holding the write side, or NoOwner
  writersWaiting,  \* pids waiting for the write side
  sleepers,        \* pids asleep, or about to be, in an acquire
  seqSeen,         \* pids whose `seen` still equals seq
  mode,            \* the side each pid's current acquire asks for
  exiting,         \* PCB.exit_requested
  torn,            \* PCB.teardown_marked
  victim           \* the pid the killer is tearing down

lockVars == <<readers, writer, writersWaiting, sleepers, seqSeen, mode>>
killVars == <<exiting, torn, victim>>
vars     == <<waitVars, lockVars, killVars>>

NoOwner == 0

Modes == {"read", "write"}

TaskPcs == BlockPcs \cup WakePcs
             \cup {"resume", "idle", "acquire", "cs", "teardown", "exit", "dead"}
KillerPcs == WakePcs \cup {"idle", "teardown"}

TypeOK ==
  /\ WaitTypeOK
  /\ pc \in [Actors -> TaskPcs]
  /\ pc[Killer] \in KillerPcs
  /\ readers \subseteq Pids
  /\ writer \in Pids \cup {NoOwner}
  /\ writersWaiting \subseteq Pids
  /\ sleepers \subseteq Pids
  /\ seqSeen \subseteq Pids
  /\ mode \in [Pids -> Modes]
  /\ exiting \subseteq Pids
  /\ torn \subseteq Pids
  /\ victim \in Pids \cup {NoOwner}

Init ==
  /\ WaitInit
  /\ pc = [a \in Actors |-> "idle"]
  /\ readers = {} /\ writer = NoOwner
  /\ writersWaiting = {} /\ sleepers = {} /\ seqSeen = {}
  /\ mode = [p \in Pids |-> "read"]
  /\ exiting = {} /\ torn = {} /\ victim = NoOwner

-----------------------------------------------------------------------------
(* acquireRead, acquire, tryAcquireRead, releaseRead, release. *)

Request(p, m) ==
  /\ At(p, "idle")
  /\ p \in IF m = "read" THEN Readers ELSE Writers
  /\ mode' = [mode EXCEPT ![p] = m]
  /\ Go(p, "acquire")
  /\ UNCHANGED <<taskVars, idx, readers, writer, writersWaiting, sleepers,
                 seqSeen, killVars>>

\* Mutants of ReadFree: the writer is not looked at; waiting writers are not.
ReadFreeWriterUnchecked  == writersWaiting = {}
ReadFreeWaitersUnchecked == writer = NoOwner

ReadFree  == writer = NoOwner /\ writersWaiting = {}
WriteFree == writer = NoOwner /\ readers = {}

\* One pass of acquireRead's loop, under guard.
AcquireRead(p) ==
  /\ At(p, "acquire")
  /\ mode[p] = "read"
  /\ IF ReadFree
       THEN /\ readers' = readers \cup {p}
            /\ sleepers' = sleepers \ {p}
            /\ Go(p, "cs")
            /\ UNCHANGED seqSeen
       ELSE /\ sleepers' = sleepers \cup {p}
            /\ seqSeen' = seqSeen \cup {p}
            /\ Go(p, "test")
            /\ UNCHANGED readers
  /\ UNCHANGED <<taskVars, idx, writer, writersWaiting, mode, killVars>>

\* One pass of acquire's loop, under guard.
AcquireWrite(p) ==
  /\ At(p, "acquire")
  /\ mode[p] = "write"
  /\ IF WriteFree
       THEN /\ writer' = p
            /\ writersWaiting' = writersWaiting \ {p}
            /\ sleepers' = sleepers \ {p}
            /\ Go(p, "cs")
            /\ UNCHANGED seqSeen
       ELSE /\ writersWaiting' = writersWaiting \cup {p}
            /\ sleepers' = sleepers \cup {p}
            /\ seqSeen' = seqSeen \cup {p}
            /\ Go(p, "test")
            /\ UNCHANGED writer
  /\ UNCHANGED <<taskVars, idx, readers, mode, killVars>>

\* tryAcquireRead; a refusal changes nothing.
TryAcquireRead(p) ==
  /\ At(p, "idle")
  /\ p \in Readers
  /\ ReadFree
  /\ readers' = readers \cup {p}
  /\ mode' = [mode EXCEPT ![p] = "read"]
  /\ Go(p, "cs")
  /\ UNCHANGED <<taskVars, idx, writer, writersWaiting, sleepers, seqSeen,
                 killVars>>

\* bumpLocked moves seq off every value seen so far.
Bump == seqSeen' = {}

\* Mutant of MustWake: only waiting writers are thought of.
MustWakeWritersOnly(asleep) == writersWaiting # {}

\* bumpLocked's answer: a sleeper must be woken.
MustWake(asleep) == asleep # {}

\* drop: give the side back, bump, and scan if the lock has sleepers.
Drop(p) ==
  /\ At(p, "cs")
  /\ IF mode[p] = "read"
       THEN readers' = readers \ {p} /\ UNCHANGED writer
       ELSE writer' = NoOwner /\ UNCHANGED readers
  /\ Bump
  /\ Go(p, IF MustWake(sleepers) THEN "scan" ELSE "idle")
  /\ UNCHANGED <<taskVars, idx, writersWaiting, sleepers, mode, killVars>>

ScanDone(a) ==
  /\ At(a, "scan")
  /\ idx[a] > N
  /\ Go(a, IF a \in torn THEN "exit" ELSE "idle")
  /\ EndScan(a)
  /\ victim' = IF a = Killer THEN NoOwner ELSE victim
  /\ UNCHANGED <<taskVars, lockVars, exiting, torn>>

-----------------------------------------------------------------------------
(* Death: killProcessWithStatus, schedule()'s escalation, tearDownTask. *)

RequestKill(p) ==
  /\ p \in Killable \ exiting
  /\ exiting' = exiting \cup {p}
  /\ UNCHANGED <<waitVars, lockVars, torn, victim>>

\* Case 3: the victim is queued or asleep, off every CPU.
KillOffCpu(p) ==
  /\ p \in exiting \ torn
  /\ pc[Killer] = "idle"
  /\ state[p] \in {"ready", "sleeping"}
  /\ ~onCpu[p]
  /\ state' = [state EXCEPT ![p] = "zombie"]
  /\ torn' = torn \cup {p}
  /\ victim' = p
  /\ Go(Killer, "teardown")
  /\ UNCHANGED <<onCpu, wakePending, wait, idx, lockVars, exiting>>

\* Where schedule() can be entered on p other than by its own yield: in user
\* mode, in the critical section (which may block on I/O), and, for a
\* preemptible p, wherever a device interrupt's epilogue agrees to preempt.
MaySchedule(p) ==
  /\ MayPreempt(p)
  /\ p \notin torn
  /\ pc[p] \in {"idle", "cs"} \/ p \in Preemptible

\* schedule() finds the exit request of the task it is called on.
SelfDestroy(p) ==
  /\ p \in exiting \ torn
  /\ onCpu[p]
  /\ pc[p] = "yield" \/ MaySchedule(p)
  /\ torn' = torn \cup {p}
  /\ Go(p, "teardown")
  /\ UNCHANGED <<taskVars, idx, lockVars, exiting, victim>>

Dying(a) == IF a = Killer THEN victim ELSE a

\* Mutant of Forget: the dead pid's wish to write is kept.
ForgetWaiterKept(p) ==
  /\ readers' = readers \ {p}
  /\ writersWaiting' = writersWaiting
  /\ sleepers' = sleepers \ {p}
  /\ writer' = IF writer = p THEN NoOwner ELSE writer

\* dropPid clears every trace of the pid ...
Forget(p) ==
  /\ readers' = readers \ {p}
  /\ writersWaiting' = writersWaiting \ {p}
  /\ sleepers' = sleepers \ {p}
  /\ writer' = IF writer = p THEN NoOwner ELSE writer

Had(p) == p \in readers \cup writersWaiting \cup sleepers \/ writer = p

\* Mutant of DropWakes: no wake for a pid that held and awaited nothing.
DropWakesIfHad(p) == Had(p) /\ sleepers \ {p} # {}

\* ... and wakes the sleepers even when the pid held nothing.
DropWakes(p) == sleepers \ {p} # {}

\* tearDownTask's dropPid on the lock; its scan starts over from slot 1.
DropPid(a) ==
  LET p == Dying(a)
  IN /\ At(a, "teardown")
     /\ Forget(p)
     /\ IF Had(p) \/ DropWakes(p) THEN Bump ELSE UNCHANGED seqSeen
     /\ Go(a, IF DropWakes(p) THEN "scan"
              ELSE IF a = Killer THEN "idle" ELSE "exit")
     /\ EndScan(a)
     /\ victim' = IF a = Killer /\ ~DropWakes(p) THEN NoOwner ELSE victim
     /\ UNCHANGED <<taskVars, mode, exiting, torn>>

\* The rest of a self-destroy, and the last schedule() off the kstack.
Exit(p) ==
  /\ At(p, "exit")
  /\ state' = [state EXCEPT ![p] = "zombie"]
  /\ onCpu' = [onCpu EXCEPT ![p] = FALSE]
  /\ Go(p, "dead")
  /\ UNCHANGED <<wakePending, wait, idx, lockVars, killVars>>

-----------------------------------------------------------------------------
Acquire(p) == AcquireRead(p) \/ AcquireWrite(p)

Blocking(p) ==
  /\ \/ BlockStep(p, p \notin seqSeen)
     \/ p \notin exiting /\ Yield(p)
  /\ UNCHANGED <<lockVars, killVars>>

Waking(a) == WakeStep(a) /\ UNCHANGED <<lockVars, killVars>>

\* What a task does with no choice of its own: code it runs to the end.
TaskStep(p) ==
  \/ Acquire(p)
  \/ Drop(p)
  \/ Blocking(p)
  \/ Waking(p)
  \/ ScanDone(p)
  \/ DropPid(p)
  \/ Exit(p)

KillerStep ==
  \/ Waking(Killer)
  \/ ScanDone(Killer)
  \/ DropPid(Killer)

DispatchTask(p) == Dispatch(p, exiting) /\ UNCHANGED <<lockVars, killVars>>

PreemptTask(p) ==
  /\ p \notin exiting
  /\ MaySchedule(p)
  /\ Preempt(p)
  /\ UNCHANGED <<lockVars, killVars>>

Next ==
  \/ \E p \in Pids :
       \/ \E m \in Modes : Request(p, m)
       \/ TryAcquireRead(p)
       \/ TaskStep(p)
       \/ DispatchTask(p)
       \/ PreemptTask(p)
       \/ RequestKill(p)
       \/ KillOffCpu(p)
       \/ SelfDestroy(p)
  \/ KillerStep

\* The code between two choices runs to its end; a queued task is eventually
\* picked (vruntime order) however often it is preempted; a requested kill is
\* carried out.
Fairness ==
  /\ \A p \in Pids : SF_vars(TaskStep(p)) /\ SF_vars(DispatchTask(p))
  /\ \A p \in Pids : WF_vars(SelfDestroy(p)) /\ SF_vars(KillOffCpu(p))
  /\ WF_vars(KillerStep)

Spec     == Init /\ [][Next]_vars
FairSpec == Spec /\ Fairness

-----------------------------------------------------------------------------
(* Properties. *)

\* A writer excludes everybody, and only a task in its critical section, or
\* one whose teardown has not reached the lock yet, is recorded as a holder:
\* a page fault never walks an address space that an munmap is editing.
Exclusion ==
  /\ writer # NoOwner => readers = {}
  /\ \A p \in Pids : pc[p] = "cs" /\ p \notin torn =>
        IF mode[p] = "read" THEN p \in readers ELSE writer = p
  /\ \A p \in readers \cup ({writer} \ {NoOwner}) : pc[p] = "cs" \/ p \in torn

\* Once a task's teardown has passed the lock, nothing names it any more: a
\* thread killed while it held or awaited as_lock cannot wedge its group.
Gone(p) == /\ p \in torn
           /\ pc[p] # "teardown"
           /\ ~(pc[Killer] = "teardown" /\ victim = p)

NoDeadHolder ==
  \A p \in Pids : Gone(p) =>
     /\ p \notin readers \cup writersWaiting \cup sleepers
     /\ writer # p

\* Somebody will still look at p: a scan that has not reached p, a wake of p
\* under way, or a teardown that has yet to drop its victim.
WillReach(a, p) ==
  \/ pc[a] = "teardown"
  \/ pc[a] \in WakePcs /\ idx[a] <= p

AliveActor(a) == a = Killer \/ state[a] # "zombie"

Rescued(p) == \E a \in Actors : AliveActor(a) /\ WillReach(a, p)

\* Off its CPU in the acquire, and not to be dispatched: asleep, or .ready with
\* its wait fields still set, which pickMinVruntime passes over.
Parked(p) == /\ pc[p] = "resume" /\ ~onCpu[p]
             /\ \/ state[p] = "sleeping"
                \/ state[p] = "ready" /\ wait[p] = "enrolled"

\* No sleeper outsleeps a release: if seq has moved since p read it, a waker is
\* still on its way to p.  "Either we see the new seq or the releaser sees us
\* asleep" (sched.zig, blockOnLockSeq).
NoLostWake ==
  \A p \in Pids : Parked(p) /\ p \notin seqSeen => Rescued(p)

\* Nobody sleeps on the lock for ever: every park is ended by a release, or
\* by the death of the sleeper.
NeverStranded == \A p \in Pids : Parked(p) ~> ~Parked(p)

\* "A stream of faults can't starve an munmap": a task that asks for the write
\* side gets it, or dies, though readers come and go for ever.
WriterNotStarved ==
  \A p \in Pids :
    (pc[p] = "acquire" /\ mode[p] = "write") ~> (writer = p \/ p \in torn)
=============================================================================
