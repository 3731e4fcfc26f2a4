------------------------------- MODULE Sched -------------------------------
(***************************************************************************)
(* The SMP dispatcher of src/src/proc/sched.zig: per-CPU run queues, the   *)
(* per-pid state lock, the claim of a task by schedule(), the kernel-stack *)
(* switch of sched_asm.zig with its on_cpu publication, migration and      *)
(* affinity, the external kill and the reuse of process slots.             *)
(*                                                                         *)
(* One action per access to memory another CPU can reach; a section under  *)
(* a run queue's spinlock is one action.  Abstracted: which eligible task  *)
(* a queue yields (bands, vruntime, the exclusion of the demoted task),    *)
(* the wait fields and job control (module Wait), and the body of a        *)
(* teardown (module Lifecycle).                                            *)
(***************************************************************************)
EXTENDS FiniteSets, Naturals

CONSTANTS
  Cpus,        \* CPUs
  Pids,        \* process slots other than the CPUs' idle tasks
  Movable,     \* pids the balancer may migrate (bound)
  Pinnable,    \* pids whose affinity may be set (bound)
  Killable,    \* pids somebody may kill (bound)
  Stallable,   \* CPUs others may overtake between a pick and its claim (bound)
  KillerStalls,\* the killer may be paused while its victim's slot is reused (bound)
  Idle,        \* a CPU's own idle task
  Nobody       \* no pid, no CPU

ASSUME SetsAssumption ==
  /\ Movable \subseteq Pids /\ Pinnable \subseteq Pids /\ Killable \subseteq Pids
  /\ Stallable \subseteq Cpus /\ KillerStalls \in BOOLEAN

Outside == "outside"   \* a context on no modelled CPU
Free    == "free"

ASSUME DistinctAssumption ==
  /\ Idle \notin Pids /\ Nobody \notin Pids \cup Cpus /\ Idle # Nobody
  /\ Outside \notin Cpus /\ Free \notin Cpus

VARIABLES
  state,     \* PCB.state
  onCpu,     \* PCB.on_cpu
  lastCpu,   \* PCB.last_cpu
  assigned,  \* PCB.assigned_cpu
  pinned,    \* PCB.pinned_cpu, Nobody when unpinned
  exiting,   \* pids with exit_requested
  torn,      \* pids with teardown_marked
  lock,      \* pids whose setstate_lock is held with an rq update to come,
             \* and by whom; Outside is a context on no modelled CPU
  snap,      \* the assigned_cpu the holder of p's lock has read
  queue,     \* Rq: the pids queued on each CPU
  cur,       \* CpuLocal.current_pid
  stack,     \* whose kernel stack each CPU executes on
  step,      \* where each CPU is in schedule()
  cand,      \* the candidate schedule() has picked
  prev,      \* the task whose on_cpu the switch will clear
  kill,      \* the killer's victim and step
  pin        \* a setAffinity call: pid, cpu and the state it read

pcbVars == <<state, onCpu, lastCpu, assigned, pinned, exiting, torn>>
cpuVars == <<cur, stack, step, cand, prev>>
rqVars  == <<lock, snap, queue>>
vars    == <<pcbVars, rqVars, cpuVars, kill, pin>>

States == {"unused", "loading", "ready", "running", "sleeping", "zombie"}
Steps  == {"run", "block", "unblock", "enter", "dying", "bury", "pick", "claim",
           "leave", "publish", "setcur", "swap", "clear"}
NoKill == [pid |-> Nobody, at |-> "idle"]
NoPin  == [pid |-> Nobody, cpu |-> Nobody, ready |-> FALSE]

TypeOK ==
  /\ state \in [Pids -> States]
  /\ onCpu \in [Pids -> BOOLEAN]
  /\ lastCpu \in [Pids -> Cpus \cup {Nobody}]
  /\ assigned \in [Pids -> Cpus \cup {Nobody}]
  /\ pinned \in [Pids -> Cpus \cup {Nobody}]
  /\ exiting \subseteq Pids /\ torn \subseteq Pids
  /\ lock \in [Pids -> Cpus \cup {Free, Outside}]
  /\ snap \in [Pids -> Cpus \cup {Nobody}]
  /\ queue \in [Cpus -> SUBSET Pids]
  /\ cur \in [Cpus -> Pids \cup {Idle, Nobody}]
  /\ stack \in [Cpus -> Pids \cup {Idle}]
  /\ step \in [Cpus -> Steps]
  /\ cand \in [Cpus -> Pids \cup {Idle, Nobody}]
  /\ prev \in [Cpus -> Pids \cup {Nobody}]
  /\ kill \in [pid : Pids \cup {Nobody}, at : {"idle", "check", "doom"}]
  /\ pin \in [pid : Pids \cup {Nobody}, cpu : Cpus \cup {Nobody}, ready : BOOLEAN]

Init ==
  /\ state = [p \in Pids |-> "unused"]
  /\ onCpu = [p \in Pids |-> FALSE]
  /\ lastCpu = [p \in Pids |-> Nobody]
  /\ assigned = [p \in Pids |-> Nobody]
  /\ pinned = [p \in Pids |-> Nobody]
  /\ exiting = {} /\ torn = {}
  /\ lock = [p \in Pids |-> Free]
  /\ snap = [p \in Pids |-> Nobody]
  /\ queue = [c \in Cpus |-> {}]
  /\ cur = [c \in Cpus |-> Idle]
  /\ stack = [c \in Cpus |-> Idle]
  /\ step = [c \in Cpus |-> "run"]
  /\ cand = [c \in Cpus |-> Nobody]
  /\ prev = [c \in Cpus |-> Nobody]
  /\ kill = NoKill /\ pin = NoPin

-----------------------------------------------------------------------------
(* setState: the transition under setstate_locks[p], then rqEnter/rqLeave. *)

Terminal == {"unused", "zombie"}

\* The transition, and the lock kept by `who` while p's queueing lags behind
\* it.  No transition out of a terminal state but reap and reuse.
SetState(p, new, who) ==
  /\ lock[p] = Free
  /\ IF state[p] \in Terminal /\ <<state[p], new>> \notin
          {<<"zombie", "unused">>, <<"unused", "loading">>}
       THEN UNCHANGED <<state, lock>>
       ELSE /\ state' = [state EXCEPT ![p] = new]
            /\ lock' = [lock EXCEPT ![p] =
                 IF (state[p] = "ready") # (new = "ready") THEN who ELSE Free]

\* Mutant of Settled: the queue is the one assigned when it was looked up.
SettledSnapshot(p) == snap[p] # Nobody

\* acquireOwnRq: the queue locked is still the one p is assigned to.
Settled(p) == snap[p] # Nobody /\ assigned[p] = snap[p]

\* Mutant of RqUpdate: a queue that is not p's any more is not looked up again.
RqUpdateOnce(p) ==
  /\ snap[p] # Nobody
  /\ snap' = [snap EXCEPT ![p] = Nobody]
  /\ lock' = [lock EXCEPT ![p] = Free]
  /\ queue' = IF ~Settled(p) THEN queue
              ELSE [queue EXCEPT ![snap[p]] =
                      IF state[p] = "ready" THEN @ \cup {p} ELSE @ \ {p}]

\* rqEnter or rqLeave on that queue, and unlock; or look the queue up again.
RqUpdate(p) ==
  /\ snap[p] # Nobody
  /\ snap' = [snap EXCEPT ![p] = Nobody]
  /\ IF Settled(p)
       THEN /\ queue' = [queue EXCEPT ![snap[p]] =
                           IF state[p] = "ready" THEN @ \cup {p} ELSE @ \ {p}]
            /\ lock' = [lock EXCEPT ![p] = Free]
       ELSE UNCHANGED <<queue, lock>>

Goto(c, l) == step' = [step EXCEPT ![c] = l]

\* Where CPU c goes: to (or on in) `busy` while it still has p's queueing to
\* update, else on to `done`.
GotoAfter(c, p, busy, done) == Goto(c, IF lock'[p] = c THEN busy ELSE done)

\* The holder of p's lock looks up the CPU p is assigned to.
LookUp(p) ==
  /\ lock[p] # Free
  /\ snap[p] = Nobody
  /\ snap' = [snap EXCEPT ![p] = assigned[p]]
  /\ UNCHANGED <<pcbVars, lock, queue, cpuVars, kill, pin>>

-----------------------------------------------------------------------------
(* A task on its CPU: blocking, and the entry of schedule(). *)

\* blockOn's setState(cur, .sleeping) ...
Block(c) ==
  /\ step[c] = "run"
  /\ cur[c] \in Pids
  /\ state[cur[c]] = "running"
  /\ SetState(cur[c], "sleeping", c)
  /\ Goto(c, "block")
  /\ UNCHANGED <<onCpu, lastCpu, assigned, pinned, exiting, torn, snap, queue, cur,
                 stack, cand, prev, kill, pin>>

\* ... and its rollback, for a sleeper or one a waker has queued already.
Unblock(c) ==
  /\ step[c] = "block"
  /\ SetState(cur[c], "running", c)
  /\ GotoAfter(c, cur[c], "unblock", "run")
  /\ UNCHANGED <<onCpu, lastCpu, assigned, pinned, exiting, torn, snap, queue, cur,
                 stack, cand, prev, kill, pin>>

\* The exit request of the current task is honoured before anything else.
MustDie(c) == cur[c] \in exiting \ torn

\* A running task is demoted to .ready; any other keeps its state.
Schedule(c) ==
  /\ step[c] \in {"run", "block"}
  /\ ~MustDie(c)
  /\ prev' = [prev EXCEPT ![c] = IF cur[c] = Idle THEN Nobody ELSE cur[c]]
  /\ IF cur[c] \in Pids /\ state[cur[c]] = "running"
       THEN /\ SetState(cur[c], "ready", c)
            /\ Goto(c, "enter")
       ELSE /\ Goto(c, "pick")
            /\ UNCHANGED <<state, lock>>
  /\ UNCHANGED <<onCpu, lastCpu, assigned, pinned, exiting, torn, snap, queue, cur,
                 stack, cand, kill, pin>>

\* destroyCurrentWithStatus: the task leaves current_pid (noteDying) ...
SelfDestroy(c) ==
  /\ step[c] \in {"run", "block"}
  /\ MustDie(c)
  /\ torn' = torn \cup {cur[c]}
  /\ prev' = [prev EXCEPT ![c] = cur[c]]
  /\ cur' = [cur EXCEPT ![c] = Nobody]
  /\ Goto(c, "dying")
  /\ UNCHANGED <<state, onCpu, lastCpu, assigned, pinned, exiting, rqVars,
                 stack, cand, kill, pin>>

\* ... and its slot becomes .zombie or .unused under its feet.
Die(c) ==
  /\ step[c] = "dying"
  /\ \E s \in Terminal : SetState(prev[c], s, c)
  /\ GotoAfter(c, prev[c], "bury", "pick")
  /\ UNCHANGED <<onCpu, lastCpu, assigned, pinned, exiting, torn, snap, queue, cur,
                 stack, cand, prev, kill, pin>>

\* The queueing a CPU's own SetState left to do.
Settle(c) ==
  LET p == IF step[c] = "bury" THEN prev[c] ELSE cur[c]
  IN /\ step[c] \in {"unblock", "enter", "bury"}
     /\ RqUpdate(p)
     /\ GotoAfter(c, p, step[c], IF step[c] = "unblock" THEN "run" ELSE "pick")
     /\ UNCHANGED <<pcbVars, cur, stack, cand, prev, kill, pin>>

-----------------------------------------------------------------------------
(* schedule(): pick, claim, publish, switch. *)

\* Mutant of Eligible: a task whose context is not saved yet is offered.
EligibleOnCpu(c) == {p \in queue[c] : p \notin exiting}

\* pickMinVruntime passes over the doomed and, on a CPU it did not last run
\* on, a task whose on_cpu is still set.
Eligible(c) ==
  {p \in queue[c] : p \notin exiting /\ ~(onCpu[p] /\ lastCpu[p] # c)}

\* Mutant of TakeClaim: the claimed task is not taken off its queue.
TakeClaimQueued(c, p) ==
  /\ lock[p] = Free
  /\ IF state[p] = "ready"
       THEN state' = [state EXCEPT ![p] = "running"] /\ Goto(c, "publish")
       ELSE Goto(c, "pick") /\ UNCHANGED state
  /\ UNCHANGED lock

\* The compare-and-swap .ready -> .running under setstate_locks[p]; a loser
\* picks again.
TakeClaim(c, p) ==
  /\ lock[p] = Free
  /\ IF state[p] = "ready"
       THEN /\ state' = [state EXCEPT ![p] = "running"]
            /\ lock' = [lock EXCEPT ![p] = c]
            /\ Goto(c, "leave")
       ELSE /\ Goto(c, "pick")
            /\ UNCHANGED <<state, lock>>

PickTask(c) ==
  /\ step[c] = "pick"
  /\ \E p \in Eligible(c) :
       /\ cand' = [cand EXCEPT ![c] = p]
       /\ IF c \in Stallable THEN Goto(c, "claim") /\ UNCHANGED <<state, lock>>
                             ELSE TakeClaim(c, p)
  /\ UNCHANGED <<onCpu, lastCpu, assigned, pinned, exiting, torn, snap, queue, cur,
                 stack, prev, kill, pin>>

\* Mutant of PickIdle: no idle task to fall back on.
PickIdleNone(c) ==
  /\ step[c] = "pick"
  /\ Eligible(c) = {}
  /\ cand' = [cand EXCEPT ![c] = Nobody]
  /\ Goto(c, "setcur")
  /\ UNCHANGED <<pcbVars, rqVars, cur, stack, prev, kill, pin>>

\* Nothing eligible: the CPU's own idle task, claimed by no one else.
PickIdle(c) ==
  /\ step[c] = "pick"
  /\ Eligible(c) = {}
  /\ cand' = [cand EXCEPT ![c] = Idle]
  /\ Goto(c, IF cur[c] = Idle THEN "run" ELSE "setcur")
  /\ UNCHANGED <<pcbVars, rqVars, cur, stack, prev, kill, pin>>

Claim(c) ==
  /\ step[c] = "claim"
  /\ TakeClaim(c, cand[c])
  /\ UNCHANGED <<onCpu, lastCpu, assigned, pinned, exiting, torn, snap, queue, cur,
                 stack, cand, prev, kill, pin>>

\* The claimed task leaves its queue; picked again, the current task just
\* goes on.
Leave(c) ==
  /\ step[c] = "leave"
  /\ RqUpdate(cand[c])
  /\ GotoAfter(c, cand[c], "leave", IF cand[c] = cur[c] THEN "run" ELSE "publish")
  /\ UNCHANGED <<pcbVars, cur, stack, cand, prev, kill, pin>>

Publish(c) ==
  /\ step[c] = "publish"
  /\ lastCpu' = [lastCpu EXCEPT ![cand[c]] = c]
  /\ onCpu' = [onCpu EXCEPT ![cand[c]] = TRUE]
  /\ Goto(c, "setcur")
  /\ UNCHANGED <<state, assigned, pinned, exiting, torn, rqVars, cur, stack,
                 cand, prev, kill, pin>>

SetCurrent(c) ==
  /\ step[c] = "setcur"
  /\ cur' = [cur EXCEPT ![c] = cand[c]]
  /\ Goto(c, "swap")
  /\ UNCHANGED <<pcbVars, rqVars, stack, cand, prev, kill, pin>>

\* switchTo: save the outgoing context and load the incoming stack pointer ...
Swap(c) ==
  /\ step[c] = "swap"
  /\ stack' = [stack EXCEPT ![c] = cand[c]]
  /\ Goto(c, "clear")
  /\ UNCHANGED <<pcbVars, rqVars, cur, cand, prev, kill, pin>>

\* ... and only then clear the outgoing task's on_cpu.
ClearOnCpu(c) ==
  /\ step[c] = "clear"
  /\ onCpu' = [p \in Pids |-> IF p = prev[c] THEN FALSE ELSE onCpu[p]]
  /\ Goto(c, "run")
  /\ UNCHANGED <<state, lastCpu, assigned, pinned, exiting, torn, rqVars,
                 cur, stack, cand, prev, kill, pin>>

-----------------------------------------------------------------------------
(* Contexts on no modelled CPU: wakers, constructors, reapers. *)

\* wake(): .sleeping -> .ready.
Wake(p) ==
  /\ state[p] = "sleeping"
  /\ SetState(p, "ready", Outside)
  /\ UNCHANGED <<onCpu, lastCpu, assigned, pinned, exiting, torn, snap, queue, cpuVars,
                 kill, pin>>

SettleOutside(p) ==
  /\ lock[p] = Outside
  /\ RqUpdate(p)
  /\ UNCHANGED <<pcbVars, cpuVars, kill, pin>>

\* Mutant of SlotFree: a slot still under its last task's feet is handed out.
SlotFreeByState(p) == state[p] = "unused"

SlotFree(p) == state[p] = "unused" /\ ~onCpu[p]

\* allocSlot and resetPcbExceptState.
AllocSlot(p) ==
  /\ SlotFree(p)
  /\ KillerStalls \/ kill.pid # p
  /\ SetState(p, "loading", Outside)
  /\ exiting' = exiting \ {p}
  /\ torn' = torn \ {p}
  /\ pinned' = [pinned EXCEPT ![p] = Nobody]
  /\ assigned' = [assigned EXCEPT ![p] = Nobody]
  /\ lastCpu' = [lastCpu EXCEPT ![p] = Nobody]
  /\ UNCHANGED <<onCpu, snap, queue, cpuVars, kill, pin>>

\* The constructor places the task on a CPU and makes it .ready.
Start(p, c) ==
  /\ state[p] = "loading"
  /\ assigned' = [assigned EXCEPT ![p] = c]
  /\ SetState(p, "ready", Outside)
  /\ UNCHANGED <<onCpu, lastCpu, pinned, exiting, torn, snap, queue, cpuVars, kill, pin>>

\* reapZombie.
Reap(p) ==
  /\ state[p] = "zombie"
  /\ SetState(p, "unused", Outside)
  /\ UNCHANGED <<onCpu, lastCpu, assigned, pinned, exiting, torn, snap, queue, cpuVars,
                 kill, pin>>

-----------------------------------------------------------------------------
(* Migration and affinity. *)

\* migrate() under both queues' locks: not the current task of any CPU.
MigrateAllowed(p, new) ==
  /\ assigned[p] \in Cpus \ {new}
  /\ state[p] \notin Terminal
  /\ \A c \in Cpus : cur[c] # p

MoveTo(p, new) ==
  /\ queue' = IF p \in queue[assigned[p]]
                THEN [queue EXCEPT ![assigned[p]] = @ \ {p}, ![new] = @ \cup {p}]
                ELSE queue
  /\ assigned' = [assigned EXCEPT ![p] = new]

\* loadBalance and tryStealWork leave pinned tasks alone.
Migrate(p, new) ==
  /\ p \in Movable
  /\ pinned[p] = Nobody
  /\ MigrateAllowed(p, new)
  /\ MoveTo(p, new)
  /\ UNCHANGED <<state, onCpu, lastCpu, pinned, exiting, torn, lock, snap, cpuVars,
                 kill, pin>>

\* setAffinity pins, then reads the state ...
SetAffinity(p, c) ==
  /\ pin = NoPin
  /\ p \in Pinnable
  /\ state[p] \notin Terminal
  /\ pinned' = [pinned EXCEPT ![p] = c]
  /\ pin' = [pid |-> p, cpu |-> c, ready |-> state[p] = "ready"]
  /\ UNCHANGED <<state, onCpu, lastCpu, assigned, exiting, torn, rqVars,
                 cpuVars, kill>>

\* ... and migrates what was .ready, or stores assigned_cpu of what was not.
SetAffinityEnd ==
  LET p == pin.pid
  IN /\ pin # NoPin
     /\ pin' = NoPin
     /\ IF ~pin.ready
          THEN assigned' = [assigned EXCEPT ![p] = pin.cpu] /\ UNCHANGED queue
          ELSE IF MigrateAllowed(p, pin.cpu)
                 THEN MoveTo(p, pin.cpu)
                 ELSE UNCHANGED <<assigned, queue>>
     /\ UNCHANGED <<state, onCpu, lastCpu, pinned, exiting, torn, lock, snap, cpuVars,
                    kill>>

-----------------------------------------------------------------------------
(* killProcessWithStatus from another context. *)

RequestKill(p) ==
  /\ kill = NoKill
  /\ p \in Killable \ exiting
  /\ state[p] \notin Terminal
  /\ exiting' = exiting \cup {p}
  /\ kill' = [pid |-> p, at |-> "check"]
  /\ UNCHANGED <<state, onCpu, lastCpu, assigned, pinned, torn, rqVars,
                 cpuVars, pin>>

\* Mutant of StillOnCpu: only the state is looked at.
StillOnCpuByState(p) == state[p] = "running"

StillOnCpu(p) == state[p] = "running" \/ onCpu[p]

\* The killer polls while the victim runs or is under construction ...
Busy(p) == state[p] = "loading" \/ StillOnCpu(p)

KillCheck ==
  /\ kill.at = "check"
  /\ ~Busy(kill.pid)
  /\ kill' = IF state[kill.pid] \in Terminal THEN NoKill
                                            ELSE [kill EXCEPT !.at = "doom"]
  /\ UNCHANGED <<pcbVars, rqVars, cpuVars, pin>>

\* ... and gives up after a bounded number of polls.
KillGiveUp ==
  /\ kill.at = "check"
  /\ Busy(kill.pid)
  /\ kill' = NoKill
  /\ UNCHANGED <<pcbVars, rqVars, cpuVars, pin>>

\* Case 3: the victim is on no CPU; it becomes a zombie and is torn down here.
KillDoom ==
  /\ kill.at = "doom"
  /\ SetState(kill.pid, "zombie", Outside)
  /\ torn' = torn \cup {kill.pid}
  /\ kill' = NoKill
  /\ UNCHANGED <<onCpu, lastCpu, assigned, pinned, exiting, snap, queue, cpuVars, pin>>

-----------------------------------------------------------------------------
Dispatch(c) ==
  \/ Die(c) \/ Settle(c)
  \/ PickTask(c) \/ PickIdle(c) \/ Claim(c) \/ Leave(c)
  \/ Publish(c) \/ SetCurrent(c) \/ Swap(c) \/ ClearOnCpu(c)

CpuStep(c) ==
  \/ Block(c) \/ Unblock(c)
  \/ Schedule(c) \/ SelfDestroy(c)
  \/ Dispatch(c)

PidStep(p) ==
  \/ Wake(p)
  \/ LookUp(p) \/ SettleOutside(p)
  \/ AllocSlot(p) \/ Reap(p)
  \/ \E c \in Cpus : Start(p, c) \/ Migrate(p, c) \/ SetAffinity(p, c)
  \/ RequestKill(p)

Next ==
  \/ \E c \in Cpus : CpuStep(c)
  \/ \E p \in Pids : PidStep(p)
  \/ SetAffinityEnd
  \/ KillCheck \/ KillGiveUp \/ KillDoom

Spec == Init /\ [][Next]_vars

-----------------------------------------------------------------------------
(* Properties. *)

\* "Dispatching it HERE would run two CPUs on one kernel stack": no two CPUs
\* ever execute on the kernel stack of one task.
OneStack ==
  \A c, d \in Cpus : c # d /\ stack[c] \in Pids => stack[c] # stack[d]

\* "CPU affinity is structural: a pid is in rq[pid.assigned_cpu] only"; and it
\* is there exactly while .ready, but for updates in flight under its lock.
Misplaced(p) == {c \in Cpus \ {assigned[p]} : p \in queue[c]}

QueuedWhereAssigned ==
  \A p \in Pids :
    /\ Misplaced(p) = {}
    /\ lock[p] = Free /\ assigned[p] # Nobody =>
         (state[p] = "ready") = (p \in queue[assigned[p]])

\* A .ready task is on some queue, where a CPU will find it, whatever overtakes
\* a pick, a migration or an affinity call: no runnable task is ever lost.
NoTaskLost ==
  \A p \in Pids : lock[p] = Free /\ state[p] = "ready" =>
    \E c \in Cpus : p \in queue[c]

\* The killer tears a victim down (and frees its address space) only when no
\* CPU is on the victim's stack, or about to be.
Heading(c, p) == stack[c] = p \/ (cand[c] = p /\ step[c] \in
                   {"leave", "publish", "setcur", "swap", "clear"})

DeadNeverRuns ==
  \A c \in Cpus, p \in torn :
    Heading(c, p) => prev[c] = p /\ cur[c] # p

\* "Killer owns pid via exit_requested xchg + pickNext skip": the task it tears
\* down is the one it asked to exit, which no CPU may dispatch any more.
KillerOwns == kill.at = "doom" => kill.pid \in exiting

\* A slot is rebuilt for a new task only when its last task is off the stack.
NoReuseUnderfoot ==
  \A p \in Pids : state[p] \in {"unused", "loading"} =>
    \A c \in Cpus : stack[c] = p => state[p] = "unused" /\ onCpu[p]
=============================================================================
