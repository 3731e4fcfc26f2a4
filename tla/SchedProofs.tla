---------------------------- MODULE SchedProofs ----------------------------
(***************************************************************************)
(* Theorems about module Sched, for any number of CPUs and of slots: no    *)
(* runnable task is lost, whatever overtakes what; queues agree with the   *)
(* state bytes; and, where nobody is overtaken between a pick and its      *)
(* claim, no kernel stack is on two CPUs, the dead are not dispatched and  *)
(* no slot is rebuilt under its last task's stack.                         *)
(***************************************************************************)
EXTENDS MCSched, TLAPS

\* What the CPUs' registers name in each step of schedule(), and what the
\* killer and an affinity call have in hand.
Shape ==
  /\ \A c \in Cpus :
       /\ step[c] \in {"block", "unblock", "enter"} => cur[c] \in Pids
       /\ step[c] \in {"dying", "bury"} => prev[c] \in Pids
       /\ step[c] \in {"claim", "leave", "publish"} => cand[c] \in Pids
       /\ step[c] \in {"setcur", "swap", "clear"} => cand[c] \in Pids \cup {Idle}
  /\ kill.at # "idle" => kill.pid \in Pids
  /\ pin # NoPin => pin.pid \in Pids /\ pin.cpu \in Cpus

Typed == TypeOK /\ Shape

\* Queues and state bytes when nobody sets an affinity.
QueueInv == QueuedWhereAssigned /\ pin = NoPin

\* The switch: which task's stack a CPU is on, and what it is to clear, from
\* its entry of schedule() to the end of switchTo.
SwitchInv ==
  \A c \in Cpus :
    /\ step[c] # "claim"
    /\ step[c] \in {"run", "block", "unblock", "enter"} => cur[c] = stack[c]
    /\ step[c] \in {"dying", "bury"} => cur[c] = Nobody
    /\ step[c] \in {"enter", "dying", "bury", "pick", "leave", "publish", "setcur",
                    "swap"} =>
         prev[c] = IF stack[c] \in Pids THEN stack[c] ELSE Nobody
    /\ step[c] \in {"pick", "leave", "publish", "setcur"} =>
         cur[c] = stack[c] \/ cur[c] = Nobody
    /\ step[c] \in {"publish", "setcur", "swap"} => cand[c] # stack[c]
    /\ step[c] \in {"swap", "clear"} => cur[c] = cand[c]
    /\ step[c] = "clear" => stack[c] = cand[c] /\ prev[c] # stack[c]
    /\ cur[c] = Nobody => step[c] \in {"dying", "bury", "pick", "leave", "publish", "setcur"}
    /\ cur[c] = Nobody => stack[c] \in Pids
    \* A task that has destroyed itself is on its stack until the switch.
    /\ cur[c] = Nobody /\ step[c] # "dying" => state[stack[c]] \in Terminal

\* CPU c has published that it is on p's stack, and has not yet left it.
On(c, p) == \/ stack[c] = p
            \/ step[c] \in {"setcur", "swap"} /\ cand[c] = p
            \/ step[c] = "clear" /\ prev[c] = p

\* CPU c has claimed p and is yet to publish it.
Claimed(c, p) == step[c] \in {"leave", "publish"} /\ cand[c] = p

\* Who is on a task's stack is what on_cpu and last_cpu say, and a claim is
\* one CPU's.
OwnerInv ==
  /\ \A c \in Cpus, p \in Pids : On(c, p) => onCpu[p] /\ lastCpu[p] = c
  /\ \A c \in Cpus, p \in Pids : Claimed(c, p) =>
       state[p] = "running" /\ (onCpu[p] => lastCpu[p] = c)
  /\ \A c, d \in Cpus, p \in Pids : Claimed(c, p) /\ Claimed(d, p) => c = d
  /\ \A p \in Pids : state[p] = "loading" => ~onCpu[p]

\* A killer's victim is asked to exit, and once it has been found off every
\* CPU it stays off; what is torn down is never picked again.
KillInv ==
  /\ kill.at # "idle" => kill.pid \in exiting
  /\ kill.at = "doom" => ~onCpu[kill.pid] /\ state[kill.pid] \notin {"running", "loading"}
  /\ torn \subseteq exiting
  /\ \A c \in Cpus :
       /\ step[c] \in {"leave", "publish", "setcur", "swap"} => cand[c] \notin torn
       /\ stack[c] \in torn => cur[c] # stack[c]

StackInv == SwitchInv /\ OwnerInv /\ KillInv

\* No CPU is overtaken between its pick and its claim, and the killer is not
\* paused for the life of its victim's slot.
Unstalled == Stallable = {} /\ ~KillerStalls
-----------------------------------------------------------------------------
\* Every action of the code stores what TypeOK says: schedule() switches to a task
\* or to the CPU's idle task, never to nothing, because a pick that finds nobody
\* falls back on it.
LEMMA TypedStep ==
  ASSUME Typed, [Next]_vars
  PROVE  Typed'
<1>1. ASSUME NEW c \in Cpus, Block(c)
      PROVE  Typed'
  BY <1>1, DistinctAssumption, SetsAssumption DEF Typed, TypeOK, Shape, States,
     Steps, Block, SetState, Goto, Terminal
<1>2. ASSUME NEW c \in Cpus, Unblock(c)
      PROVE  Typed'
  BY <1>2, DistinctAssumption, SetsAssumption DEF Typed, TypeOK, Shape, States,
     Steps, Unblock, SetState, GotoAfter, Goto, Terminal
<1>3. ASSUME NEW c \in Cpus, Schedule(c)
      PROVE  Typed'
  BY <1>3, DistinctAssumption, SetsAssumption DEF Typed, TypeOK, Shape, States,
     Steps, Schedule, SetState, Goto, Terminal
<1>4. ASSUME NEW c \in Cpus, SelfDestroy(c)
      PROVE  Typed'
  BY <1>4, DistinctAssumption, SetsAssumption DEF Typed, TypeOK, Shape, States,
     Steps, SelfDestroy, MustDie, Goto, rqVars
<1>5. ASSUME NEW c \in Cpus, Die(c)
      PROVE  Typed'
  BY <1>5, DistinctAssumption, SetsAssumption DEF Typed, TypeOK, Shape, States,
     Steps, Die, SetState, GotoAfter, Goto, Terminal
<1>6. ASSUME NEW c \in Cpus, Settle(c)
      PROVE  Typed'
  BY <1>6, DistinctAssumption, SetsAssumption DEF Typed, TypeOK, Shape, States,
     Steps, Settle, RqUpdate, Settled, GotoAfter, Goto, pcbVars
<1>7. ASSUME NEW c \in Cpus, PickTask(c)
      PROVE  Typed'
  BY <1>7, DistinctAssumption, SetsAssumption DEF Typed, TypeOK, Shape, States,
     Steps, PickTask, TakeClaim, Eligible, Goto
<1>8. ASSUME NEW c \in Cpus, PickIdle(c)
      PROVE  Typed'
  BY <1>8, DistinctAssumption, SetsAssumption DEF Typed, TypeOK, Shape, States,
     Steps, PickIdle, Goto, pcbVars, rqVars
<1>9. ASSUME NEW c \in Cpus, Claim(c)
      PROVE  Typed'
  BY <1>9, DistinctAssumption, SetsAssumption DEF Typed, TypeOK, Shape, States,
     Steps, Claim, TakeClaim, Goto
<1>10. ASSUME NEW c \in Cpus, Leave(c)
       PROVE  Typed'
  BY <1>10, DistinctAssumption, SetsAssumption DEF Typed, TypeOK, Shape,
     States, Steps, Leave, RqUpdate, Settled, GotoAfter, Goto, pcbVars
<1>11. ASSUME NEW c \in Cpus, Publish(c)
       PROVE  Typed'
  BY <1>11, DistinctAssumption, SetsAssumption DEF Typed, TypeOK, Shape,
     States, Steps, Publish, Goto, rqVars
<1>12. ASSUME NEW c \in Cpus, SetCurrent(c)
       PROVE  Typed'
  BY <1>12, DistinctAssumption, SetsAssumption DEF Typed, TypeOK, Shape,
     States, Steps, SetCurrent, Goto, pcbVars, rqVars
<1>13. ASSUME NEW c \in Cpus, Swap(c)
       PROVE  Typed'
  <2>1. /\ step[c] = "swap" /\ step' = [step EXCEPT ![c] = "clear"]
        /\ stack' = [stack EXCEPT ![c] = cand[c]]
        /\ UNCHANGED <<pcbVars, rqVars, cur, cand, prev, kill, pin>>
    BY <1>13 DEF Swap, Goto
  <2>2. cand[c] \in Pids \cup {Idle}
    BY <2>1 DEF Typed, Shape
  <2>3. TypeOK'
    BY <2>1, <2>2 DEF Typed, TypeOK, Steps, pcbVars, rqVars
  <2>4. Shape'
    BY <2>1, <2>2 DEF Typed, TypeOK, Shape
  <2> QED BY <2>3, <2>4 DEF Typed
<1>14. ASSUME NEW c \in Cpus, ClearOnCpu(c)
       PROVE  Typed'
  <2>1. /\ step[c] = "clear" /\ step' = [step EXCEPT ![c] = "run"]
        /\ onCpu' = [p \in Pids |-> IF p = prev[c] THEN FALSE ELSE onCpu[p]]
        /\ UNCHANGED <<state, lastCpu, assigned, pinned, exiting, torn, rqVars,
                       cur, stack, cand, prev, kill, pin>>
    BY <1>14 DEF ClearOnCpu, Goto
  <2>2. onCpu' \in [Pids -> BOOLEAN]
    BY <2>1 DEF Typed, TypeOK
  <2>3. TypeOK'
    BY <2>1, <2>2 DEF Typed, TypeOK, Steps, rqVars
  <2>4. Shape'
    BY <2>1 DEF Typed, TypeOK, Shape
  <2> QED BY <2>3, <2>4 DEF Typed
<1>15. ASSUME NEW p \in Pids, Wake(p)
       PROVE  Typed'
  BY <1>15, DistinctAssumption, SetsAssumption DEF Typed, TypeOK, Shape,
     States, Steps, Wake, SetState, cpuVars, Terminal
<1>16. ASSUME NEW p \in Pids, LookUp(p)
       PROVE  Typed'
  BY <1>16, DistinctAssumption, SetsAssumption DEF Typed, TypeOK, Shape,
     States, Steps, LookUp, pcbVars, cpuVars
<1>17. ASSUME NEW p \in Pids, SettleOutside(p)
       PROVE  Typed'
  BY <1>17, DistinctAssumption, SetsAssumption DEF Typed, TypeOK, Shape,
     States, Steps, SettleOutside, RqUpdate, Settled, pcbVars, cpuVars
<1>18. ASSUME NEW p \in Pids, AllocSlot(p)
       PROVE  Typed'
  BY <1>18, DistinctAssumption, SetsAssumption DEF Typed, TypeOK, Shape,
     States, Steps, AllocSlot, SlotFree, SetState, cpuVars, Terminal
<1>19. ASSUME NEW p \in Pids, Reap(p)
       PROVE  Typed'
  BY <1>19, DistinctAssumption, SetsAssumption DEF Typed, TypeOK, Shape,
     States, Steps, Reap, SetState, cpuVars, Terminal
<1>20. ASSUME NEW p \in Pids, NEW d \in Cpus, Start(p, d)
       PROVE  Typed'
  BY <1>20, DistinctAssumption, SetsAssumption DEF Typed, TypeOK, Shape,
     States, Steps, Start, SetState, cpuVars, Terminal
<1>21. ASSUME NEW p \in Pids, NEW d \in Cpus, Migrate(p, d)
       PROVE  Typed'
  BY <1>21, DistinctAssumption, SetsAssumption DEF Typed, TypeOK, Shape,
     States, Steps, Migrate, MigrateAllowed, MoveTo, cpuVars, Terminal
<1>22. ASSUME NEW p \in Pids, NEW d \in Cpus, SetAffinity(p, d)
       PROVE  Typed'
  BY <1>22, DistinctAssumption, SetsAssumption DEF Typed, TypeOK, Shape,
     States, Steps, SetAffinity, rqVars, cpuVars, Terminal, NoPin
<1>23. ASSUME NEW p \in Pids, RequestKill(p)
       PROVE  Typed'
  BY <1>23, DistinctAssumption, SetsAssumption DEF Typed, TypeOK, Shape,
     States, Steps, RequestKill, rqVars, cpuVars, Terminal, NoKill
<1>24. ASSUME SetAffinityEnd
       PROVE  Typed'
  BY <1>24, DistinctAssumption, SetsAssumption DEF Typed, TypeOK, Shape,
     States, Steps, SetAffinityEnd, MigrateAllowed, MoveTo, cpuVars, Terminal,
     NoPin
<1>25. ASSUME KillCheck
       PROVE  Typed'
  BY <1>25, DistinctAssumption, SetsAssumption DEF Typed, TypeOK, Shape,
     States, Steps, KillCheck, Busy, StillOnCpu, pcbVars, rqVars, cpuVars,
     Terminal, NoKill
<1>26. ASSUME KillGiveUp
       PROVE  Typed'
  BY <1>26, DistinctAssumption, SetsAssumption DEF Typed, TypeOK, Shape,
     States, Steps, KillGiveUp, pcbVars, rqVars, cpuVars, NoKill
<1>27. ASSUME KillDoom
       PROVE  Typed'
  BY <1>27, DistinctAssumption, SetsAssumption DEF Typed, TypeOK, Shape,
     States, Steps, KillDoom, SetState, cpuVars, Terminal, NoKill
<1>28. CASE UNCHANGED vars
  BY <1>28 DEF Typed, TypeOK, Shape, States, Steps, vars, pcbVars, rqVars,
     cpuVars
<1> QED BY <1>1, <1>2, <1>3, <1>4, <1>5, <1>6, <1>7, <1>8, <1>9, <1>10, <1>11,
           <1>12, <1>13, <1>14, <1>15, <1>16, <1>17, <1>18, <1>19, <1>20,
           <1>21, <1>22, <1>23, <1>24, <1>25, <1>26, <1>27, <1>28 DEF Next,
           CpuStep, Dispatch, PidStep

\* A task that becomes .ready keeps its lock until it is queued; queues are left
\* only by what is not .ready, or for another queue.
LEMMA LostStep ==
  ASSUME Typed, NoTaskLost, [Next]_vars
  PROVE  NoTaskLost'
<1>1. ASSUME NEW c \in Cpus, Block(c)
      PROVE  NoTaskLost'
  BY <1>1, DistinctAssumption, SetsAssumption DEF Typed, TypeOK, Shape,
     NoTaskLost, Free, Outside, Block, SetState, Goto, Terminal
<1>2. ASSUME NEW c \in Cpus, Unblock(c)
      PROVE  NoTaskLost'
  BY <1>2, DistinctAssumption, SetsAssumption DEF Typed, TypeOK, Shape,
     NoTaskLost, Free, Outside, Unblock, SetState, GotoAfter, Goto, Terminal
<1>3. ASSUME NEW c \in Cpus, Schedule(c)
      PROVE  NoTaskLost'
  BY <1>3, DistinctAssumption, SetsAssumption DEF Typed, TypeOK, Shape,
     NoTaskLost, Free, Outside, Schedule, SetState, Goto, Terminal
<1>4. ASSUME NEW c \in Cpus, SelfDestroy(c)
      PROVE  NoTaskLost'
  BY <1>4, DistinctAssumption, SetsAssumption DEF Typed, TypeOK, Shape,
     NoTaskLost, Free, Outside, SelfDestroy, MustDie, Goto, rqVars
<1>5. ASSUME NEW c \in Cpus, Die(c)
      PROVE  NoTaskLost'
  BY <1>5, DistinctAssumption, SetsAssumption DEF Typed, TypeOK, Shape,
     NoTaskLost, Free, Outside, Die, SetState, GotoAfter, Goto, Terminal
<1>6. ASSUME NEW c \in Cpus, Settle(c)
      PROVE  NoTaskLost'
  BY <1>6, DistinctAssumption, SetsAssumption DEF Typed, TypeOK, Shape,
     NoTaskLost, Free, Outside, Settle, RqUpdate, Settled, GotoAfter, Goto,
     pcbVars
<1>7. ASSUME NEW c \in Cpus, PickTask(c)
      PROVE  NoTaskLost'
  BY <1>7, DistinctAssumption, SetsAssumption DEF Typed, TypeOK, Shape,
     NoTaskLost, Free, Outside, PickTask, TakeClaim, Eligible, Goto
<1>8. ASSUME NEW c \in Cpus, PickIdle(c)
      PROVE  NoTaskLost'
  BY <1>8, DistinctAssumption, SetsAssumption DEF Typed, TypeOK, Shape,
     NoTaskLost, Free, Outside, PickIdle, Goto, pcbVars, rqVars
<1>9. ASSUME NEW c \in Cpus, Claim(c)
      PROVE  NoTaskLost'
  BY <1>9, DistinctAssumption, SetsAssumption DEF Typed, TypeOK, Shape,
     NoTaskLost, Free, Outside, Claim, TakeClaim, Goto
<1>10. ASSUME NEW c \in Cpus, Leave(c)
       PROVE  NoTaskLost'
  BY <1>10, DistinctAssumption, SetsAssumption DEF Typed, TypeOK, Shape,
     NoTaskLost, Free, Outside, Leave, RqUpdate, Settled, GotoAfter, Goto,
     pcbVars
<1>11. ASSUME NEW c \in Cpus, Publish(c)
       PROVE  NoTaskLost'
  BY <1>11, DistinctAssumption, SetsAssumption DEF Typed, TypeOK, Shape,
     NoTaskLost, Free, Outside, Publish, Goto, rqVars
<1>12. ASSUME NEW c \in Cpus, SetCurrent(c)
       PROVE  NoTaskLost'
  BY <1>12, DistinctAssumption, SetsAssumption DEF Typed, TypeOK, Shape,
     NoTaskLost, Free, Outside, SetCurrent, Goto, pcbVars, rqVars
<1>13. ASSUME NEW c \in Cpus, Swap(c)
       PROVE  NoTaskLost'
  BY <1>13, DistinctAssumption, SetsAssumption DEF Typed, TypeOK, Shape,
     NoTaskLost, Free, Outside, Swap, Goto, pcbVars, rqVars
<1>14. ASSUME NEW c \in Cpus, ClearOnCpu(c)
       PROVE  NoTaskLost'
  BY <1>14, DistinctAssumption, SetsAssumption DEF Typed, TypeOK, Shape,
     NoTaskLost, Free, Outside, ClearOnCpu, Goto, rqVars
<1>15. ASSUME NEW p \in Pids, Wake(p)
       PROVE  NoTaskLost'
  BY <1>15, DistinctAssumption, SetsAssumption DEF Typed, TypeOK, Shape,
     NoTaskLost, Free, Outside, Wake, SetState, cpuVars, Terminal
<1>16. ASSUME NEW p \in Pids, LookUp(p)
       PROVE  NoTaskLost'
  BY <1>16, DistinctAssumption, SetsAssumption DEF Typed, TypeOK, Shape,
     NoTaskLost, Free, Outside, LookUp, pcbVars, cpuVars
<1>17. ASSUME NEW p \in Pids, SettleOutside(p)
       PROVE  NoTaskLost'
  BY <1>17, DistinctAssumption, SetsAssumption DEF Typed, TypeOK, Shape,
     NoTaskLost, Free, Outside, SettleOutside, RqUpdate, Settled, pcbVars,
     cpuVars
<1>18. ASSUME NEW p \in Pids, AllocSlot(p)
       PROVE  NoTaskLost'
  BY <1>18, DistinctAssumption, SetsAssumption DEF Typed, TypeOK, Shape,
     NoTaskLost, Free, Outside, AllocSlot, SlotFree, SetState, cpuVars,
     Terminal
<1>19. ASSUME NEW p \in Pids, Reap(p)
       PROVE  NoTaskLost'
  BY <1>19, DistinctAssumption, SetsAssumption DEF Typed, TypeOK, Shape,
     NoTaskLost, Free, Outside, Reap, SetState, cpuVars, Terminal
<1>20. ASSUME NEW p \in Pids, NEW d \in Cpus, Start(p, d)
       PROVE  NoTaskLost'
  BY <1>20, DistinctAssumption, SetsAssumption DEF Typed, TypeOK, Shape,
     NoTaskLost, Free, Outside, Start, SetState, cpuVars, Terminal
<1>21. ASSUME NEW p \in Pids, NEW d \in Cpus, Migrate(p, d)
       PROVE  NoTaskLost'
  BY <1>21, DistinctAssumption, SetsAssumption DEF Typed, TypeOK, Shape,
     NoTaskLost, Free, Outside, Migrate, MigrateAllowed, MoveTo, cpuVars,
     Terminal
<1>22. ASSUME NEW p \in Pids, NEW d \in Cpus, SetAffinity(p, d)
       PROVE  NoTaskLost'
  BY <1>22, DistinctAssumption, SetsAssumption DEF Typed, TypeOK, Shape,
     NoTaskLost, Free, Outside, SetAffinity, rqVars, cpuVars, Terminal, NoPin
<1>23. ASSUME NEW p \in Pids, RequestKill(p)
       PROVE  NoTaskLost'
  BY <1>23, DistinctAssumption, SetsAssumption DEF Typed, TypeOK, Shape,
     NoTaskLost, Free, Outside, RequestKill, rqVars, cpuVars, Terminal, NoKill
<1>24. ASSUME SetAffinityEnd
       PROVE  NoTaskLost'
  BY <1>24, DistinctAssumption, SetsAssumption DEF Typed, TypeOK, Shape,
     NoTaskLost, Free, Outside, SetAffinityEnd, MigrateAllowed, MoveTo,
     cpuVars, Terminal, NoPin
<1>25. ASSUME KillCheck
       PROVE  NoTaskLost'
  BY <1>25, DistinctAssumption, SetsAssumption DEF Typed, TypeOK, Shape,
     NoTaskLost, Free, Outside, KillCheck, Busy, StillOnCpu, pcbVars, rqVars,
     cpuVars, Terminal, NoKill
<1>26. ASSUME KillGiveUp
       PROVE  NoTaskLost'
  BY <1>26, DistinctAssumption, SetsAssumption DEF Typed, TypeOK, Shape,
     NoTaskLost, Free, Outside, KillGiveUp, pcbVars, rqVars, cpuVars, NoKill
<1>27. ASSUME KillDoom
       PROVE  NoTaskLost'
  BY <1>27, DistinctAssumption, SetsAssumption DEF Typed, TypeOK, Shape,
     NoTaskLost, Free, Outside, KillDoom, SetState, cpuVars, Terminal, NoKill
<1>28. CASE UNCHANGED vars
  BY <1>28 DEF Typed, TypeOK, Shape, NoTaskLost, Free, Outside, vars, pcbVars,
     rqVars, cpuVars
<1> QED BY <1>1, <1>2, <1>3, <1>4, <1>5, <1>6, <1>7, <1>8, <1>9, <1>10, <1>11,
           <1>12, <1>13, <1>14, <1>15, <1>16, <1>17, <1>18, <1>19, <1>20,
           <1>21, <1>22, <1>23, <1>24, <1>25, <1>26, <1>27, <1>28 DEF Next,
           CpuStep, Dispatch, PidStep

\* The queue update works on the queue that the task is assigned to when the
\* update is made, and a migration moves assignment and entry together.
LEMMA QueueStep ==
  ASSUME Typed, QueueInv, Pinnable = {}, [Next]_vars
  PROVE  QueueInv'
<1>1. ASSUME NEW c \in Cpus, Block(c)
      PROVE  QueueInv'
  BY <1>1, DistinctAssumption, SetsAssumption DEF Typed, TypeOK, Shape,
     QueueInv, QueuedWhereAssigned, Misplaced, Free, Outside, Block, SetState,
     Goto, Terminal
<1>2. ASSUME NEW c \in Cpus, Unblock(c)
      PROVE  QueueInv'
  BY <1>2, DistinctAssumption, SetsAssumption DEF Typed, TypeOK, Shape,
     QueueInv, QueuedWhereAssigned, Misplaced, Free, Outside, Unblock,
     SetState, GotoAfter, Goto, Terminal
<1>3. ASSUME NEW c \in Cpus, Schedule(c)
      PROVE  QueueInv'
  BY <1>3, DistinctAssumption, SetsAssumption DEF Typed, TypeOK, Shape,
     QueueInv, QueuedWhereAssigned, Misplaced, Free, Outside, Schedule,
     SetState, Goto, Terminal
<1>4. ASSUME NEW c \in Cpus, SelfDestroy(c)
      PROVE  QueueInv'
  BY <1>4, DistinctAssumption, SetsAssumption DEF Typed, TypeOK, Shape,
     QueueInv, QueuedWhereAssigned, Misplaced, Free, Outside, SelfDestroy,
     MustDie, Goto, rqVars
<1>5. ASSUME NEW c \in Cpus, Die(c)
      PROVE  QueueInv'
  BY <1>5, DistinctAssumption, SetsAssumption DEF Typed, TypeOK, Shape,
     QueueInv, QueuedWhereAssigned, Misplaced, Free, Outside, Die, SetState,
     GotoAfter, Goto, Terminal
<1>6. ASSUME NEW c \in Cpus, Settle(c)
      PROVE  QueueInv'
  <2>1. PICK p \in Pids : p = IF step[c] = "bury" THEN prev[c] ELSE cur[c]
    BY <1>6 DEF Typed, Shape, Settle
  <2>2. UNCHANGED <<state, assigned, pin>>
    BY <1>6 DEF Settle, pcbVars
  <2>3. \/ UNCHANGED <<queue, lock>>
        \/ /\ assigned[p] \in Cpus /\ lock' = [lock EXCEPT ![p] = Free]
           /\ queue' = [queue EXCEPT ![assigned[p]] =
                          IF state[p] = "ready" THEN @ \cup {p} ELSE @ \ {p}]
    BY <1>6, <2>1 DEF Typed, TypeOK, Settle, RqUpdate, Settled
  <2> QED BY <2>2, <2>3, DistinctAssumption DEF Typed, TypeOK, QueueInv,
             QueuedWhereAssigned, Misplaced
<1>7. ASSUME NEW c \in Cpus, PickTask(c)
      PROVE  QueueInv'
  BY <1>7, DistinctAssumption, SetsAssumption DEF Typed, TypeOK, Shape,
     QueueInv, QueuedWhereAssigned, Misplaced, Free, Outside, PickTask,
     TakeClaim, Eligible, Goto
<1>8. ASSUME NEW c \in Cpus, PickIdle(c)
      PROVE  QueueInv'
  BY <1>8, DistinctAssumption, SetsAssumption DEF Typed, TypeOK, Shape,
     QueueInv, QueuedWhereAssigned, Misplaced, Free, Outside, PickIdle, Goto,
     pcbVars, rqVars
<1>9. ASSUME NEW c \in Cpus, Claim(c)
      PROVE  QueueInv'
  BY <1>9, DistinctAssumption, SetsAssumption DEF Typed, TypeOK, Shape,
     QueueInv, QueuedWhereAssigned, Misplaced, Free, Outside, Claim, TakeClaim,
     Goto
<1>10. ASSUME NEW c \in Cpus, Leave(c)
       PROVE  QueueInv'
  <2>1. PICK p \in Pids : p = cand[c]
    BY <1>10 DEF Typed, Shape, Leave
  <2>2. UNCHANGED <<state, assigned, pin>>
    BY <1>10 DEF Leave, pcbVars
  <2>3. \/ UNCHANGED <<queue, lock>>
        \/ /\ assigned[p] \in Cpus /\ lock' = [lock EXCEPT ![p] = Free]
           /\ queue' = [queue EXCEPT ![assigned[p]] =
                          IF state[p] = "ready" THEN @ \cup {p} ELSE @ \ {p}]
    BY <1>10, <2>1 DEF Typed, TypeOK, Leave, RqUpdate, Settled
  <2> QED BY <2>2, <2>3, DistinctAssumption DEF Typed, TypeOK, QueueInv,
             QueuedWhereAssigned, Misplaced
<1>11. ASSUME NEW c \in Cpus, Publish(c)
       PROVE  QueueInv'
  BY <1>11, DistinctAssumption, SetsAssumption DEF Typed, TypeOK, Shape,
     QueueInv, QueuedWhereAssigned, Misplaced, Free, Outside, Publish, Goto,
     rqVars
<1>12. ASSUME NEW c \in Cpus, SetCurrent(c)
       PROVE  QueueInv'
  BY <1>12, DistinctAssumption, SetsAssumption DEF Typed, TypeOK, Shape,
     QueueInv, QueuedWhereAssigned, Misplaced, Free, Outside, SetCurrent, Goto,
     pcbVars, rqVars
<1>13. ASSUME NEW c \in Cpus, Swap(c)
       PROVE  QueueInv'
  BY <1>13, DistinctAssumption, SetsAssumption DEF Typed, TypeOK, Shape,
     QueueInv, QueuedWhereAssigned, Misplaced, Free, Outside, Swap, Goto,
     pcbVars, rqVars
<1>14. ASSUME NEW c \in Cpus, ClearOnCpu(c)
       PROVE  QueueInv'
  BY <1>14, DistinctAssumption, SetsAssumption DEF Typed, TypeOK, Shape,
     QueueInv, QueuedWhereAssigned, Misplaced, Free, Outside, ClearOnCpu, Goto,
     rqVars
<1>15. ASSUME NEW p \in Pids, Wake(p)
       PROVE  QueueInv'
  BY <1>15, DistinctAssumption, SetsAssumption DEF Typed, TypeOK, Shape,
     QueueInv, QueuedWhereAssigned, Misplaced, Free, Outside, Wake, SetState,
     cpuVars, Terminal
<1>16. ASSUME NEW p \in Pids, LookUp(p)
       PROVE  QueueInv'
  BY <1>16, DistinctAssumption, SetsAssumption DEF Typed, TypeOK, Shape,
     QueueInv, QueuedWhereAssigned, Misplaced, Free, Outside, LookUp, pcbVars,
     cpuVars
<1>17. ASSUME NEW p \in Pids, SettleOutside(p)
       PROVE  QueueInv'
  BY <1>17, DistinctAssumption, SetsAssumption DEF Typed, TypeOK, Shape,
     QueueInv, QueuedWhereAssigned, Misplaced, Free, Outside, SettleOutside,
     RqUpdate, Settled, pcbVars, cpuVars
<1>18. ASSUME NEW p \in Pids, AllocSlot(p)
       PROVE  QueueInv'
  BY <1>18, DistinctAssumption, SetsAssumption DEF Typed, TypeOK, Shape,
     QueueInv, QueuedWhereAssigned, Misplaced, Free, Outside, AllocSlot,
     SlotFree, SetState, cpuVars, Terminal
<1>19. ASSUME NEW p \in Pids, Reap(p)
       PROVE  QueueInv'
  BY <1>19, DistinctAssumption, SetsAssumption DEF Typed, TypeOK, Shape,
     QueueInv, QueuedWhereAssigned, Misplaced, Free, Outside, Reap, SetState,
     cpuVars, Terminal
<1>20. ASSUME NEW p \in Pids, NEW d \in Cpus, Start(p, d)
       PROVE  QueueInv'
  BY <1>20, DistinctAssumption, SetsAssumption DEF Typed, TypeOK, Shape,
     QueueInv, QueuedWhereAssigned, Misplaced, Free, Outside, Start, SetState,
     cpuVars, Terminal
<1>21. ASSUME NEW p \in Pids, NEW d \in Cpus, Migrate(p, d)
       PROVE  QueueInv'
  BY <1>21, DistinctAssumption, SetsAssumption DEF Typed, TypeOK, Shape,
     QueueInv, QueuedWhereAssigned, Misplaced, Free, Outside, Migrate,
     MigrateAllowed, MoveTo, cpuVars, Terminal
<1>22. ASSUME NEW p \in Pids, NEW d \in Cpus, SetAffinity(p, d)
       PROVE  QueueInv'
  BY <1>22, DistinctAssumption, SetsAssumption DEF Typed, TypeOK, Shape,
     QueueInv, QueuedWhereAssigned, Misplaced, Free, Outside, SetAffinity,
     rqVars, cpuVars, Terminal, NoPin
<1>23. ASSUME NEW p \in Pids, RequestKill(p)
       PROVE  QueueInv'
  BY <1>23, DistinctAssumption, SetsAssumption DEF Typed, TypeOK, Shape,
     QueueInv, QueuedWhereAssigned, Misplaced, Free, Outside, RequestKill,
     rqVars, cpuVars, Terminal, NoKill
<1>24. ASSUME SetAffinityEnd
       PROVE  QueueInv'
  BY <1>24, DistinctAssumption, SetsAssumption DEF Typed, TypeOK, Shape,
     QueueInv, QueuedWhereAssigned, Misplaced, Free, Outside, SetAffinityEnd,
     MigrateAllowed, MoveTo, cpuVars, Terminal, NoPin
<1>25. ASSUME KillCheck
       PROVE  QueueInv'
  BY <1>25, DistinctAssumption, SetsAssumption DEF Typed, TypeOK, Shape,
     QueueInv, QueuedWhereAssigned, Misplaced, Free, Outside, KillCheck, Busy,
     StillOnCpu, pcbVars, rqVars, cpuVars, Terminal, NoKill
<1>26. ASSUME KillGiveUp
       PROVE  QueueInv'
  BY <1>26, DistinctAssumption, SetsAssumption DEF Typed, TypeOK, Shape,
     QueueInv, QueuedWhereAssigned, Misplaced, Free, Outside, KillGiveUp,
     pcbVars, rqVars, cpuVars, NoKill
<1>27. ASSUME KillDoom
       PROVE  QueueInv'
  BY <1>27, DistinctAssumption, SetsAssumption DEF Typed, TypeOK, Shape,
     QueueInv, QueuedWhereAssigned, Misplaced, Free, Outside, KillDoom,
     SetState, cpuVars, Terminal, NoKill
<1>28. CASE UNCHANGED vars
  BY <1>28 DEF Typed, TypeOK, Shape, QueueInv, QueuedWhereAssigned, Misplaced,
     Free, Outside, vars, pcbVars, rqVars, cpuVars
<1> QED BY <1>1, <1>2, <1>3, <1>4, <1>5, <1>6, <1>7, <1>8, <1>9, <1>10, <1>11,
           <1>12, <1>13, <1>14, <1>15, <1>16, <1>17, <1>18, <1>19, <1>20,
           <1>21, <1>22, <1>23, <1>24, <1>25, <1>26, <1>27, <1>28 DEF Next,
           CpuStep, Dispatch, PidStep

-----------------------------------------------------------------------------
\* schedule() and switchTo: the task left is the one that on_cpu is cleared of.
\* A task claimed again by its own CPU goes on without a switch, and one that has
\* destroyed itself is not claimed again.
LEMMA SwitchStep ==
  ASSUME Typed, Unstalled, SwitchInv, OwnerInv, [Next]_vars
  PROVE  SwitchInv'
<1>1. ASSUME NEW c \in Cpus, Block(c)
      PROVE  SwitchInv'
  BY <1>1, DistinctAssumption DEF Typed, TypeOK, Shape, Unstalled, SwitchInv,
     OwnerInv, On, Claimed, Terminal, Block, SetState, Goto
<1>2. ASSUME NEW c \in Cpus, Unblock(c)
      PROVE  SwitchInv'
  BY <1>2, DistinctAssumption DEF Typed, TypeOK, Shape, Unstalled, SwitchInv,
     OwnerInv, On, Claimed, Terminal, Unblock, SetState, GotoAfter, Goto
<1>3. ASSUME NEW c \in Cpus, Schedule(c)
      PROVE  SwitchInv'
  BY <1>3, DistinctAssumption DEF Typed, TypeOK, Shape, Unstalled, SwitchInv,
     OwnerInv, On, Claimed, Terminal, Schedule, SetState, Goto
<1>4. ASSUME NEW c \in Cpus, SelfDestroy(c)
      PROVE  SwitchInv'
  BY <1>4, DistinctAssumption DEF Typed, TypeOK, Shape, Unstalled, SwitchInv,
     OwnerInv, On, Claimed, Terminal, SelfDestroy, MustDie, Goto, rqVars
<1>5. ASSUME NEW c \in Cpus, Die(c)
      PROVE  SwitchInv'
  BY <1>5, DistinctAssumption DEF Typed, TypeOK, Shape, Unstalled, SwitchInv,
     OwnerInv, On, Claimed, Terminal, Die, SetState, GotoAfter, Goto
<1>6. ASSUME NEW c \in Cpus, Settle(c)
      PROVE  SwitchInv'
  BY <1>6, DistinctAssumption DEF Typed, TypeOK, Shape, Unstalled, SwitchInv,
     OwnerInv, On, Claimed, Terminal, Settle, RqUpdate, Settled, GotoAfter,
     Goto, pcbVars
<1>7. ASSUME NEW c \in Cpus, PickTask(c)
      PROVE  SwitchInv'
  BY <1>7, DistinctAssumption DEF Typed, TypeOK, Shape, Unstalled, SwitchInv,
     OwnerInv, On, Claimed, Terminal, PickTask, TakeClaim, Eligible, Goto
<1>8. ASSUME NEW c \in Cpus, PickIdle(c)
      PROVE  SwitchInv'
  BY <1>8, DistinctAssumption DEF Typed, TypeOK, Shape, Unstalled, SwitchInv,
     OwnerInv, On, Claimed, Terminal, PickIdle, Goto, pcbVars, rqVars
<1>9. ASSUME NEW c \in Cpus, Claim(c)
      PROVE  SwitchInv'
  BY <1>9, DistinctAssumption DEF Typed, TypeOK, Shape, Unstalled, SwitchInv,
     OwnerInv, On, Claimed, Terminal, Claim, TakeClaim, Goto
<1>10. ASSUME NEW c \in Cpus, Leave(c)
       PROVE  SwitchInv'
  BY <1>10, DistinctAssumption DEF Typed, TypeOK, Shape, Unstalled, SwitchInv,
     OwnerInv, On, Claimed, Terminal, Leave, RqUpdate, Settled, GotoAfter,
     Goto, pcbVars
<1>11. ASSUME NEW c \in Cpus, Publish(c)
       PROVE  SwitchInv'
  BY <1>11, DistinctAssumption DEF Typed, TypeOK, Shape, Unstalled, SwitchInv,
     OwnerInv, On, Claimed, Terminal, Publish, Goto, rqVars
<1>12. ASSUME NEW c \in Cpus, SetCurrent(c)
       PROVE  SwitchInv'
  BY <1>12, DistinctAssumption DEF Typed, TypeOK, Shape, Unstalled, SwitchInv,
     OwnerInv, On, Claimed, Terminal, SetCurrent, Goto, pcbVars, rqVars
<1>13. ASSUME NEW c \in Cpus, Swap(c)
       PROVE  SwitchInv'
  BY <1>13, DistinctAssumption DEF Typed, TypeOK, Shape, Unstalled, SwitchInv,
     OwnerInv, On, Claimed, Terminal, Swap, Goto, pcbVars, rqVars
<1>14. ASSUME NEW c \in Cpus, ClearOnCpu(c)
       PROVE  SwitchInv'
  BY <1>14, DistinctAssumption DEF Typed, TypeOK, Shape, Unstalled, SwitchInv,
     OwnerInv, On, Claimed, Terminal, ClearOnCpu, Goto, rqVars
<1>15. ASSUME NEW p \in Pids, Wake(p)
       PROVE  SwitchInv'
  BY <1>15, DistinctAssumption DEF Typed, TypeOK, Shape, Unstalled, SwitchInv,
     OwnerInv, On, Claimed, Terminal, Wake, SetState, cpuVars
<1>16. ASSUME NEW p \in Pids, LookUp(p)
       PROVE  SwitchInv'
  BY <1>16, DistinctAssumption DEF Typed, TypeOK, Shape, Unstalled, SwitchInv,
     OwnerInv, On, Claimed, Terminal, LookUp, pcbVars, cpuVars
<1>17. ASSUME NEW p \in Pids, SettleOutside(p)
       PROVE  SwitchInv'
  BY <1>17, DistinctAssumption DEF Typed, TypeOK, Shape, Unstalled, SwitchInv,
     OwnerInv, On, Claimed, Terminal, SettleOutside, RqUpdate, Settled,
     pcbVars, cpuVars
<1>18. ASSUME NEW p \in Pids, AllocSlot(p)
       PROVE  SwitchInv'
  BY <1>18, DistinctAssumption DEF Typed, TypeOK, Shape, Unstalled, SwitchInv,
     OwnerInv, On, Claimed, Terminal, AllocSlot, SlotFree, SetState, cpuVars
<1>19. ASSUME NEW p \in Pids, Reap(p)
       PROVE  SwitchInv'
  BY <1>19, DistinctAssumption DEF Typed, TypeOK, Shape, Unstalled, SwitchInv,
     OwnerInv, On, Claimed, Terminal, Reap, SetState, cpuVars
<1>20. ASSUME NEW p \in Pids, NEW d \in Cpus, Start(p, d)
       PROVE  SwitchInv'
  BY <1>20, DistinctAssumption DEF Typed, TypeOK, Shape, Unstalled, SwitchInv,
     OwnerInv, On, Claimed, Terminal, Start, SetState, cpuVars
<1>21. ASSUME NEW p \in Pids, NEW d \in Cpus, Migrate(p, d)
       PROVE  SwitchInv'
  BY <1>21, DistinctAssumption DEF Typed, TypeOK, Shape, Unstalled, SwitchInv,
     OwnerInv, On, Claimed, Terminal, Migrate, MigrateAllowed, MoveTo, cpuVars
<1>22. ASSUME NEW p \in Pids, NEW d \in Cpus, SetAffinity(p, d)
       PROVE  SwitchInv'
  BY <1>22, DistinctAssumption DEF Typed, TypeOK, Shape, Unstalled, SwitchInv,
     OwnerInv, On, Claimed, Terminal, SetAffinity, rqVars, cpuVars, NoPin
<1>23. ASSUME NEW p \in Pids, RequestKill(p)
       PROVE  SwitchInv'
  BY <1>23, DistinctAssumption DEF Typed, TypeOK, Shape, Unstalled, SwitchInv,
     OwnerInv, On, Claimed, Terminal, RequestKill, rqVars, cpuVars, NoKill
<1>24. ASSUME SetAffinityEnd
       PROVE  SwitchInv'
  BY <1>24, DistinctAssumption DEF Typed, TypeOK, Shape, Unstalled, SwitchInv,
     OwnerInv, On, Claimed, Terminal, SetAffinityEnd, MigrateAllowed, MoveTo,
     cpuVars, NoPin
<1>25. ASSUME KillCheck
       PROVE  SwitchInv'
  BY <1>25, DistinctAssumption DEF Typed, TypeOK, Shape, Unstalled, SwitchInv,
     OwnerInv, On, Claimed, Terminal, KillCheck, Busy, StillOnCpu, pcbVars,
     rqVars, cpuVars, NoKill
<1>26. ASSUME KillGiveUp
       PROVE  SwitchInv'
  BY <1>26, DistinctAssumption DEF Typed, TypeOK, Shape, Unstalled, SwitchInv,
     OwnerInv, On, Claimed, Terminal, KillGiveUp, pcbVars, rqVars, cpuVars,
     NoKill
<1>27. ASSUME KillDoom
       PROVE  SwitchInv'
  BY <1>27, DistinctAssumption DEF Typed, TypeOK, Shape, Unstalled, SwitchInv,
     OwnerInv, On, Claimed, Terminal, KillDoom, SetState, cpuVars, NoKill
<1>28. CASE UNCHANGED vars
  BY <1>28 DEF Typed, TypeOK, Shape, Unstalled, SwitchInv, OwnerInv, On,
     Claimed, Terminal, vars, pcbVars, rqVars, cpuVars
<1> QED BY <1>1, <1>2, <1>3, <1>4, <1>5, <1>6, <1>7, <1>8, <1>9, <1>10, <1>11,
           <1>12, <1>13, <1>14, <1>15, <1>16, <1>17, <1>18, <1>19, <1>20,
           <1>21, <1>22, <1>23, <1>24, <1>25, <1>26, <1>27, <1>28 DEF Next,
           CpuStep, Dispatch, PidStep

\* A pick passes over a task whose on_cpu is set for another CPU, the claim takes
\* it from .ready to .running, and nobody else moves a running task but the CPU it
\* is on: so a stack that is on a CPU is published as that CPU's until it has left.
LEMMA OwnerStep ==
  ASSUME Typed, Unstalled, SwitchInv, OwnerInv, KillInv, [Next]_vars
  PROVE  OwnerInv'
<1>1. ASSUME NEW c \in Cpus, Block(c)
      PROVE  OwnerInv'
  BY <1>1, DistinctAssumption DEF Typed, TypeOK, Shape, Unstalled, SwitchInv,
     OwnerInv, KillInv, On, Claimed, Terminal, Block, SetState, Goto
<1>2. ASSUME NEW c \in Cpus, Unblock(c)
      PROVE  OwnerInv'
  BY <1>2, DistinctAssumption DEF Typed, TypeOK, Shape, Unstalled, SwitchInv,
     OwnerInv, KillInv, On, Claimed, Terminal, Unblock, SetState, GotoAfter,
     Goto
<1>3. ASSUME NEW c \in Cpus, Schedule(c)
      PROVE  OwnerInv'
  <2>1. /\ step[c] \in {"run", "block"}
        /\ \E l \in {"enter", "pick"} : step' = [step EXCEPT ![c] = l]
        /\ \E q \in Pids \cup {Nobody} : prev' = [prev EXCEPT ![c] = q]
        /\ UNCHANGED <<onCpu, lastCpu, stack, cand>>
    BY <1>3 DEF Typed, TypeOK, Schedule, Goto
  <2>2. \/ state' = state
        \/ /\ cur[c] \in Pids /\ state[cur[c]] = "running"
           /\ state' = [state EXCEPT ![cur[c]] = "ready"]
    BY <1>3 DEF Schedule, SetState
  <2>3. /\ \A d \in Cpus, p \in Pids : On(d, p)' => On(d, p)
        /\ \A d \in Cpus, p \in Pids : Claimed(d, p)' => Claimed(d, p) /\ d # c
    BY <2>1 DEF Typed, TypeOK, On, Claimed
  <2> QED BY <2>1, <2>2, <2>3, DistinctAssumption DEF Typed, TypeOK, Shape,
             SwitchInv, OwnerInv, On, Claimed
<1>4. ASSUME NEW c \in Cpus, SelfDestroy(c)
      PROVE  OwnerInv'
  BY <1>4, DistinctAssumption DEF Typed, TypeOK, Shape, Unstalled, SwitchInv,
     OwnerInv, KillInv, On, Claimed, Terminal, SelfDestroy, MustDie, Goto,
     rqVars
<1>5. ASSUME NEW c \in Cpus, Die(c)
      PROVE  OwnerInv'
  BY <1>5, DistinctAssumption DEF Typed, TypeOK, Shape, Unstalled, SwitchInv,
     OwnerInv, KillInv, On, Claimed, Terminal, Die, SetState, GotoAfter, Goto
<1>6. ASSUME NEW c \in Cpus, Settle(c)
      PROVE  OwnerInv'
  BY <1>6, DistinctAssumption DEF Typed, TypeOK, Shape, Unstalled, SwitchInv,
     OwnerInv, KillInv, On, Claimed, Terminal, Settle, RqUpdate, Settled,
     GotoAfter, Goto, pcbVars
<1>7. ASSUME NEW c \in Cpus, PickTask(c)
      PROVE  OwnerInv'
  BY <1>7, DistinctAssumption DEF Typed, TypeOK, Shape, Unstalled, SwitchInv,
     OwnerInv, KillInv, On, Claimed, Terminal, PickTask, TakeClaim, Eligible,
     Goto
<1>8. ASSUME NEW c \in Cpus, PickIdle(c)
      PROVE  OwnerInv'
  BY <1>8, DistinctAssumption DEF Typed, TypeOK, Shape, Unstalled, SwitchInv,
     OwnerInv, KillInv, On, Claimed, Terminal, PickIdle, Goto, pcbVars, rqVars
<1>9. ASSUME NEW c \in Cpus, Claim(c)
      PROVE  OwnerInv'
  BY <1>9, DistinctAssumption DEF Typed, TypeOK, Shape, Unstalled, SwitchInv,
     OwnerInv, KillInv, On, Claimed, Terminal, Claim, TakeClaim, Goto
<1>10. ASSUME NEW c \in Cpus, Leave(c)
       PROVE  OwnerInv'
  BY <1>10, DistinctAssumption DEF Typed, TypeOK, Shape, Unstalled, SwitchInv,
     OwnerInv, KillInv, On, Claimed, Terminal, Leave, RqUpdate, Settled,
     GotoAfter, Goto, pcbVars
<1>11. ASSUME NEW c \in Cpus, Publish(c)
       PROVE  OwnerInv'
  BY <1>11, DistinctAssumption DEF Typed, TypeOK, Shape, Unstalled, SwitchInv,
     OwnerInv, KillInv, On, Claimed, Terminal, Publish, Goto, rqVars
<1>12. ASSUME NEW c \in Cpus, SetCurrent(c)
       PROVE  OwnerInv'
  BY <1>12, DistinctAssumption DEF Typed, TypeOK, Shape, Unstalled, SwitchInv,
     OwnerInv, KillInv, On, Claimed, Terminal, SetCurrent, Goto, pcbVars,
     rqVars
<1>13. ASSUME NEW c \in Cpus, Swap(c)
       PROVE  OwnerInv'
  BY <1>13, DistinctAssumption DEF Typed, TypeOK, Shape, Unstalled, SwitchInv,
     OwnerInv, KillInv, On, Claimed, Terminal, Swap, Goto, pcbVars, rqVars
<1>14. ASSUME NEW c \in Cpus, ClearOnCpu(c)
       PROVE  OwnerInv'
  BY <1>14, DistinctAssumption DEF Typed, TypeOK, Shape, Unstalled, SwitchInv,
     OwnerInv, KillInv, On, Claimed, Terminal, ClearOnCpu, Goto, rqVars
<1>15. ASSUME NEW p \in Pids, Wake(p)
       PROVE  OwnerInv'
  BY <1>15, DistinctAssumption DEF Typed, TypeOK, Shape, Unstalled, SwitchInv,
     OwnerInv, KillInv, On, Claimed, Terminal, Wake, SetState, cpuVars
<1>16. ASSUME NEW p \in Pids, LookUp(p)
       PROVE  OwnerInv'
  BY <1>16, DistinctAssumption DEF Typed, TypeOK, Shape, Unstalled, SwitchInv,
     OwnerInv, KillInv, On, Claimed, Terminal, LookUp, pcbVars, cpuVars
<1>17. ASSUME NEW p \in Pids, SettleOutside(p)
       PROVE  OwnerInv'
  BY <1>17, DistinctAssumption DEF Typed, TypeOK, Shape, Unstalled, SwitchInv,
     OwnerInv, KillInv, On, Claimed, Terminal, SettleOutside, RqUpdate,
     Settled, pcbVars, cpuVars
<1>18. ASSUME NEW p \in Pids, AllocSlot(p)
       PROVE  OwnerInv'
  BY <1>18, DistinctAssumption DEF Typed, TypeOK, Shape, Unstalled, SwitchInv,
     OwnerInv, KillInv, On, Claimed, Terminal, AllocSlot, SlotFree, SetState,
     cpuVars
<1>19. ASSUME NEW p \in Pids, Reap(p)
       PROVE  OwnerInv'
  BY <1>19, DistinctAssumption DEF Typed, TypeOK, Shape, Unstalled, SwitchInv,
     OwnerInv, KillInv, On, Claimed, Terminal, Reap, SetState, cpuVars
<1>20. ASSUME NEW p \in Pids, NEW d \in Cpus, Start(p, d)
       PROVE  OwnerInv'
  BY <1>20, DistinctAssumption DEF Typed, TypeOK, Shape, Unstalled, SwitchInv,
     OwnerInv, KillInv, On, Claimed, Terminal, Start, SetState, cpuVars
<1>21. ASSUME NEW p \in Pids, NEW d \in Cpus, Migrate(p, d)
       PROVE  OwnerInv'
  BY <1>21, DistinctAssumption DEF Typed, TypeOK, Shape, Unstalled, SwitchInv,
     OwnerInv, KillInv, On, Claimed, Terminal, Migrate, MigrateAllowed, MoveTo,
     cpuVars
<1>22. ASSUME NEW p \in Pids, NEW d \in Cpus, SetAffinity(p, d)
       PROVE  OwnerInv'
  BY <1>22, DistinctAssumption DEF Typed, TypeOK, Shape, Unstalled, SwitchInv,
     OwnerInv, KillInv, On, Claimed, Terminal, SetAffinity, rqVars, cpuVars,
     NoPin
<1>23. ASSUME NEW p \in Pids, RequestKill(p)
       PROVE  OwnerInv'
  BY <1>23, DistinctAssumption DEF Typed, TypeOK, Shape, Unstalled, SwitchInv,
     OwnerInv, KillInv, On, Claimed, Terminal, RequestKill, rqVars, cpuVars,
     NoKill
<1>24. ASSUME SetAffinityEnd
       PROVE  OwnerInv'
  BY <1>24, DistinctAssumption DEF Typed, TypeOK, Shape, Unstalled, SwitchInv,
     OwnerInv, KillInv, On, Claimed, Terminal, SetAffinityEnd, MigrateAllowed,
     MoveTo, cpuVars, NoPin
<1>25. ASSUME KillCheck
       PROVE  OwnerInv'
  BY <1>25, DistinctAssumption DEF Typed, TypeOK, Shape, Unstalled, SwitchInv,
     OwnerInv, KillInv, On, Claimed, Terminal, KillCheck, Busy, StillOnCpu,
     pcbVars, rqVars, cpuVars, NoKill
<1>26. ASSUME KillGiveUp
       PROVE  OwnerInv'
  BY <1>26, DistinctAssumption DEF Typed, TypeOK, Shape, Unstalled, SwitchInv,
     OwnerInv, KillInv, On, Claimed, Terminal, KillGiveUp, pcbVars, rqVars,
     cpuVars, NoKill
<1>27. ASSUME KillDoom
       PROVE  OwnerInv'
  BY <1>27, DistinctAssumption DEF Typed, TypeOK, Shape, Unstalled, SwitchInv,
     OwnerInv, KillInv, On, Claimed, Terminal, KillDoom, SetState, cpuVars,
     NoKill
<1>28. CASE UNCHANGED vars
  BY <1>28 DEF Typed, TypeOK, Shape, Unstalled, SwitchInv, OwnerInv, KillInv,
     On, Claimed, Terminal, vars, pcbVars, rqVars, cpuVars
<1> QED BY <1>1, <1>2, <1>3, <1>4, <1>5, <1>6, <1>7, <1>8, <1>9, <1>10, <1>11,
           <1>12, <1>13, <1>14, <1>15, <1>16, <1>17, <1>18, <1>19, <1>20,
           <1>21, <1>22, <1>23, <1>24, <1>25, <1>26, <1>27, <1>28 DEF Next,
           CpuStep, Dispatch, PidStep

\* The killer goes on only with a victim that is neither .running nor on_cpu, and
\* the pick passes over whoever is asked to exit: from then on nobody heads for it.
LEMMA KillStep ==
  ASSUME Typed, Unstalled, SwitchInv, OwnerInv, KillInv, [Next]_vars
  PROVE  KillInv'
<1>1. ASSUME NEW c \in Cpus, Block(c)
      PROVE  KillInv'
  BY <1>1, DistinctAssumption, SetsAssumption DEF Typed, TypeOK, Shape,
     Unstalled, SwitchInv, OwnerInv, KillInv, On, Claimed, Terminal, Block,
     SetState, Goto
<1>2. ASSUME NEW c \in Cpus, Unblock(c)
      PROVE  KillInv'
  BY <1>2, DistinctAssumption, SetsAssumption DEF Typed, TypeOK, Shape,
     Unstalled, SwitchInv, OwnerInv, KillInv, On, Claimed, Terminal, Unblock,
     SetState, GotoAfter, Goto
<1>3. ASSUME NEW c \in Cpus, Schedule(c)
      PROVE  KillInv'
  BY <1>3, DistinctAssumption, SetsAssumption DEF Typed, TypeOK, Shape,
     Unstalled, SwitchInv, OwnerInv, KillInv, On, Claimed, Terminal, Schedule,
     SetState, Goto
<1>4. ASSUME NEW c \in Cpus, SelfDestroy(c)
      PROVE  KillInv'
  BY <1>4, DistinctAssumption, SetsAssumption DEF Typed, TypeOK, Shape,
     Unstalled, SwitchInv, OwnerInv, KillInv, On, Claimed, Terminal,
     SelfDestroy, MustDie, Goto, rqVars
<1>5. ASSUME NEW c \in Cpus, Die(c)
      PROVE  KillInv'
  BY <1>5, DistinctAssumption, SetsAssumption DEF Typed, TypeOK, Shape,
     Unstalled, SwitchInv, OwnerInv, KillInv, On, Claimed, Terminal, Die,
     SetState, GotoAfter, Goto
<1>6. ASSUME NEW c \in Cpus, Settle(c)
      PROVE  KillInv'
  BY <1>6, DistinctAssumption, SetsAssumption DEF Typed, TypeOK, Shape,
     Unstalled, SwitchInv, OwnerInv, KillInv, On, Claimed, Terminal, Settle,
     RqUpdate, Settled, GotoAfter, Goto, pcbVars
<1>7. ASSUME NEW c \in Cpus, PickTask(c)
      PROVE  KillInv'
  BY <1>7, DistinctAssumption, SetsAssumption DEF Typed, TypeOK, Shape,
     Unstalled, SwitchInv, OwnerInv, KillInv, On, Claimed, Terminal, PickTask,
     TakeClaim, Eligible, Goto
<1>8. ASSUME NEW c \in Cpus, PickIdle(c)
      PROVE  KillInv'
  BY <1>8, DistinctAssumption, SetsAssumption DEF Typed, TypeOK, Shape,
     Unstalled, SwitchInv, OwnerInv, KillInv, On, Claimed, Terminal, PickIdle,
     Goto, pcbVars, rqVars
<1>9. ASSUME NEW c \in Cpus, Claim(c)
      PROVE  KillInv'
  BY <1>9, DistinctAssumption, SetsAssumption DEF Typed, TypeOK, Shape,
     Unstalled, SwitchInv, OwnerInv, KillInv, On, Claimed, Terminal, Claim,
     TakeClaim, Goto
<1>10. ASSUME NEW c \in Cpus, Leave(c)
       PROVE  KillInv'
  BY <1>10, DistinctAssumption, SetsAssumption DEF Typed, TypeOK, Shape,
     Unstalled, SwitchInv, OwnerInv, KillInv, On, Claimed, Terminal, Leave,
     RqUpdate, Settled, GotoAfter, Goto, pcbVars
<1>11. ASSUME NEW c \in Cpus, Publish(c)
       PROVE  KillInv'
  BY <1>11, DistinctAssumption, SetsAssumption DEF Typed, TypeOK, Shape,
     Unstalled, SwitchInv, OwnerInv, KillInv, On, Claimed, Terminal, Publish,
     Goto, rqVars
<1>12. ASSUME NEW c \in Cpus, SetCurrent(c)
       PROVE  KillInv'
  BY <1>12, DistinctAssumption, SetsAssumption DEF Typed, TypeOK, Shape,
     Unstalled, SwitchInv, OwnerInv, KillInv, On, Claimed, Terminal,
     SetCurrent, Goto, pcbVars, rqVars
<1>13. ASSUME NEW c \in Cpus, Swap(c)
       PROVE  KillInv'
  BY <1>13, DistinctAssumption, SetsAssumption DEF Typed, TypeOK, Shape,
     Unstalled, SwitchInv, OwnerInv, KillInv, On, Claimed, Terminal, Swap,
     Goto, pcbVars, rqVars
<1>14. ASSUME NEW c \in Cpus, ClearOnCpu(c)
       PROVE  KillInv'
  BY <1>14, DistinctAssumption, SetsAssumption DEF Typed, TypeOK, Shape,
     Unstalled, SwitchInv, OwnerInv, KillInv, On, Claimed, Terminal,
     ClearOnCpu, Goto, rqVars
<1>15. ASSUME NEW p \in Pids, Wake(p)
       PROVE  KillInv'
  BY <1>15, DistinctAssumption, SetsAssumption DEF Typed, TypeOK, Shape,
     Unstalled, SwitchInv, OwnerInv, KillInv, On, Claimed, Terminal, Wake,
     SetState, cpuVars
<1>16. ASSUME NEW p \in Pids, LookUp(p)
       PROVE  KillInv'
  BY <1>16, DistinctAssumption, SetsAssumption DEF Typed, TypeOK, Shape,
     Unstalled, SwitchInv, OwnerInv, KillInv, On, Claimed, Terminal, LookUp,
     pcbVars, cpuVars
<1>17. ASSUME NEW p \in Pids, SettleOutside(p)
       PROVE  KillInv'
  BY <1>17, DistinctAssumption, SetsAssumption DEF Typed, TypeOK, Shape,
     Unstalled, SwitchInv, OwnerInv, KillInv, On, Claimed, Terminal,
     SettleOutside, RqUpdate, Settled, pcbVars, cpuVars
<1>18. ASSUME NEW p \in Pids, AllocSlot(p)
       PROVE  KillInv'
  BY <1>18, DistinctAssumption, SetsAssumption DEF Typed, TypeOK, Shape,
     Unstalled, SwitchInv, OwnerInv, KillInv, On, Claimed, Terminal, AllocSlot,
     SlotFree, SetState, cpuVars
<1>19. ASSUME NEW p \in Pids, Reap(p)
       PROVE  KillInv'
  BY <1>19, DistinctAssumption, SetsAssumption DEF Typed, TypeOK, Shape,
     Unstalled, SwitchInv, OwnerInv, KillInv, On, Claimed, Terminal, Reap,
     SetState, cpuVars
<1>20. ASSUME NEW p \in Pids, NEW d \in Cpus, Start(p, d)
       PROVE  KillInv'
  BY <1>20, DistinctAssumption, SetsAssumption DEF Typed, TypeOK, Shape,
     Unstalled, SwitchInv, OwnerInv, KillInv, On, Claimed, Terminal, Start,
     SetState, cpuVars
<1>21. ASSUME NEW p \in Pids, NEW d \in Cpus, Migrate(p, d)
       PROVE  KillInv'
  BY <1>21, DistinctAssumption, SetsAssumption DEF Typed, TypeOK, Shape,
     Unstalled, SwitchInv, OwnerInv, KillInv, On, Claimed, Terminal, Migrate,
     MigrateAllowed, MoveTo, cpuVars
<1>22. ASSUME NEW p \in Pids, NEW d \in Cpus, SetAffinity(p, d)
       PROVE  KillInv'
  BY <1>22, DistinctAssumption, SetsAssumption DEF Typed, TypeOK, Shape,
     Unstalled, SwitchInv, OwnerInv, KillInv, On, Claimed, Terminal,
     SetAffinity, rqVars, cpuVars, NoPin
<1>23. ASSUME NEW p \in Pids, RequestKill(p)
       PROVE  KillInv'
  BY <1>23, DistinctAssumption, SetsAssumption DEF Typed, TypeOK, Shape,
     Unstalled, SwitchInv, OwnerInv, KillInv, On, Claimed, Terminal,
     RequestKill, rqVars, cpuVars, NoKill
<1>24. ASSUME SetAffinityEnd
       PROVE  KillInv'
  BY <1>24, DistinctAssumption, SetsAssumption DEF Typed, TypeOK, Shape,
     Unstalled, SwitchInv, OwnerInv, KillInv, On, Claimed, Terminal,
     SetAffinityEnd, MigrateAllowed, MoveTo, cpuVars, NoPin
<1>25. ASSUME KillCheck
       PROVE  KillInv'
  BY <1>25, DistinctAssumption, SetsAssumption DEF Typed, TypeOK, Shape,
     Unstalled, SwitchInv, OwnerInv, KillInv, On, Claimed, Terminal, KillCheck,
     Busy, StillOnCpu, pcbVars, rqVars, cpuVars, NoKill
<1>26. ASSUME KillGiveUp
       PROVE  KillInv'
  BY <1>26, DistinctAssumption, SetsAssumption DEF Typed, TypeOK, Shape,
     Unstalled, SwitchInv, OwnerInv, KillInv, On, Claimed, Terminal,
     KillGiveUp, pcbVars, rqVars, cpuVars, NoKill
<1>27. ASSUME KillDoom
       PROVE  KillInv'
  BY <1>27, DistinctAssumption, SetsAssumption DEF Typed, TypeOK, Shape,
     Unstalled, SwitchInv, OwnerInv, KillInv, On, Claimed, Terminal, KillDoom,
     SetState, cpuVars, NoKill
<1>28. CASE UNCHANGED vars
  BY <1>28 DEF Typed, TypeOK, Shape, Unstalled, SwitchInv, OwnerInv, KillInv,
     On, Claimed, Terminal, vars, pcbVars, rqVars, cpuVars
<1> QED BY <1>1, <1>2, <1>3, <1>4, <1>5, <1>6, <1>7, <1>8, <1>9, <1>10, <1>11,
           <1>12, <1>13, <1>14, <1>15, <1>16, <1>17, <1>18, <1>19, <1>20,
           <1>21, <1>22, <1>23, <1>24, <1>25, <1>26, <1>27, <1>28 DEF Next,
           CpuStep, Dispatch, PidStep

-----------------------------------------------------------------------------
\* At first every slot is unused and every CPU runs its idle task.
LEMMA AtFirst == Init => Typed /\ NoTaskLost /\ QueueInv /\ StackInv
<1> SUFFICES ASSUME Init
             PROVE  Typed /\ NoTaskLost /\ QueueInv /\ StackInv
  OBVIOUS
<1>1. Typed
  BY DistinctAssumption DEF Init, Typed, TypeOK, Shape, States, Steps, NoKill,
     NoPin
<1>2. NoTaskLost /\ QueueInv
  BY DEF Init, NoTaskLost, QueueInv, QueuedWhereAssigned, Misplaced, Free
<1>3. SwitchInv
  BY DistinctAssumption DEF Init, SwitchInv
<1>4. OwnerInv /\ KillInv
  BY DistinctAssumption DEF Init, OwnerInv, KillInv, On, Claimed, NoKill
<1> QED BY <1>1, <1>2, <1>3, <1>4 DEF StackInv

\* The part of the invariant about stacks is inductive where nobody is overtaken
\* between a pick and its claim.
LEMMA StackStep ==
  ASSUME Typed, StackInv, Unstalled, [Next]_vars
  PROVE  StackInv'
BY SwitchStep, OwnerStep, KillStep DEF StackInv

\* Every variable keeps its type, whatever overtakes what: among others, no CPU
\* switches to a stack that is nobody's.
THEOREM TypeCorrect == Spec => []TypeOK
<1>1. Init => Typed
  BY AtFirst
<1>2. Typed /\ [Next]_vars => Typed'
  BY TypedStep
<1>3. Typed => TypeOK
  BY DEF Typed
<1> QED BY <1>1, <1>2, <1>3, PTL DEF Spec

\* No runnable task is ever lost: one that is .ready, and not in the middle of
\* being queued, is in some CPU's queue, for every choice of who is moved, pinned,
\* killed or overtaken.
THEOREM NeverLost == Spec => []NoTaskLost
<1>1. Init => Typed /\ NoTaskLost
  BY AtFirst
<1>2. Typed /\ NoTaskLost /\ [Next]_vars => Typed' /\ NoTaskLost'
  BY TypedStep, LostStep
<1> QED BY <1>1, <1>2, PTL DEF Spec

\* Where no affinity is set, a pid is in the queue of the CPU it is assigned to,
\* there exactly while .ready, and in no other: for behaviours of Sched, and for
\* those of the run in scene "move".
THEOREM QueuesAgree ==
  ASSUME Pinnable = {}
  PROVE  /\ Spec => []QueuedWhereAssigned
         /\ MCSpec => []QueuedWhenUnpinned
<1> DEFINE I == Typed /\ QueueInv
           J == scene = "move" => I
<1>1. Init => I
  BY AtFirst
<1>2. I /\ [Next]_vars => I'
  BY TypedStep, QueueStep
<1>3. I => QueuedWhereAssigned
  BY DEF QueueInv
<1>4. MCInit => J
  BY <1>1 DEF MCInit
<1>5. J /\ [MCNext]_<<vars, scene>> => J'
  <2> SUFFICES ASSUME J, [MCNext]_<<vars, scene>>, scene' = "move"
               PROVE  I'
    OBVIOUS
  <2>1. scene = "move" /\ [Next]_vars
    BY DEF MCNext
  <2> HIDE DEF I
  <2> QED BY <1>2, <2>1
<1>6. J => QueuedWhenUnpinned
  BY <1>3 DEF QueuedWhenUnpinned
<1> HIDE DEF I, J
<1>7. Spec => []QueuedWhereAssigned
  BY <1>1, <1>2, <1>3, PTL DEF Spec
<1>8. MCSpec => []QueuedWhenUnpinned
  BY <1>4, <1>5, <1>6, PTL DEF MCSpec
<1> QED BY <1>7, <1>8

\* What follows from the invariant about stacks.
LEMMA StackFacts ==
  ASSUME Typed, StackInv
  PROVE  OneStack /\ DeadNeverRuns /\ NoReuseUnderfoot
<1> USE DEF StackInv
<1>1. OneStack
  BY DEF OneStack, OwnerInv, On
<1>2. DeadNeverRuns
  <2> SUFFICES ASSUME NEW c \in Cpus, NEW p \in torn, Heading(c, p)
               PROVE  prev[c] = p /\ cur[c] # p
    BY DEF DeadNeverRuns
  <2>1. p \in Pids /\ step[c] \in Steps
    BY DEF Typed, TypeOK
  <2>2. stack[c] = p
    BY <2>1 DEF Heading, KillInv, SwitchInv
  <2>3. cur[c] # p
    BY <2>2 DEF KillInv
  <2> QED BY <2>1, <2>2, <2>3 DEF SwitchInv, Steps
<1>3. NoReuseUnderfoot
  BY DEF NoReuseUnderfoot, OwnerInv, On
<1> QED BY <1>1, <1>2, <1>3

\* Both invariants, of Sched and of the run in scene "move".
LEMMA StacksHold ==
  ASSUME Unstalled
  PROVE  /\ Spec => [](Typed /\ StackInv)
         /\ MCSpec => [](scene = "move" => Typed /\ StackInv)
<1> DEFINE I == Typed /\ StackInv
           J == scene = "move" => I
<1>1. Init => I
  BY AtFirst
<1>2. I /\ [Next]_vars => I'
  BY TypedStep, StackStep
<1>3. MCInit => J
  BY <1>1 DEF MCInit
<1>4. J /\ [MCNext]_<<vars, scene>> => J'
  <2> SUFFICES ASSUME J, [MCNext]_<<vars, scene>>, scene' = "move"
               PROVE  I'
    OBVIOUS
  <2>1. scene = "move" /\ [Next]_vars
    BY DEF MCNext
  <2> HIDE DEF I
  <2> QED BY <1>2, <2>1
<1>5. Spec => []I
  BY <1>1, <1>2, PTL DEF Spec
<1>6. MCSpec => []J
  BY <1>3, <1>4, PTL DEF MCSpec
<1> QED BY <1>5, <1>6

\* No two CPUs ever execute on one kernel stack, as long as none is overtaken
\* between its pick and its claim, and the killer not for the life of a slot: for
\* every number of CPUs and tasks and whatever is woken, moved, pinned, killed.
THEOREM StacksApart ==
  ASSUME Unstalled
  PROVE  /\ Spec => []OneStack
         /\ MCSpec => []OneStackUnstalled
<1>1. Typed /\ StackInv => OneStack
  BY StackFacts
<1>2. (scene = "move" => Typed /\ StackInv) => OneStackUnstalled
  BY <1>1 DEF OneStackUnstalled
<1>3. Spec => []OneStack
  BY <1>1, StacksHold, PTL
<1>4. MCSpec => []OneStackUnstalled
  BY <1>2, StacksHold, PTL
<1> QED BY <1>3, <1>4

\* With the same proviso, what is torn down is on no CPU, and none heads for it,
\* but the one on which it tears itself down.
THEOREM DeadStayOff ==
  ASSUME Unstalled
  PROVE  /\ Spec => []DeadNeverRuns
         /\ MCSpec => []DeadNeverRunsUnstalled
<1>1. Typed /\ StackInv => DeadNeverRuns
  BY StackFacts
<1>2. (scene = "move" => Typed /\ StackInv) => DeadNeverRunsUnstalled
  BY <1>1 DEF DeadNeverRunsUnstalled
<1>3. Spec => []DeadNeverRuns
  BY <1>1, StacksHold, PTL
<1>4. MCSpec => []DeadNeverRunsUnstalled
  BY <1>2, StacksHold, PTL
<1> QED BY <1>3, <1>4

\* With the same proviso, no slot is rebuilt while a CPU is on the stack of the
\* task that had it.
THEOREM SlotsKeptWhole ==
  ASSUME Unstalled
  PROVE  /\ Spec => []NoReuseUnderfoot
         /\ MCSpec => []NoReuseUnstalled
<1>1. Typed /\ StackInv => NoReuseUnderfoot
  BY StackFacts
<1>2. (scene = "move" => Typed /\ StackInv) => NoReuseUnstalled
  BY <1>1 DEF NoReuseUnstalled
<1>3. Spec => []NoReuseUnderfoot
  BY <1>1, StacksHold, PTL
<1>4. MCSpec => []NoReuseUnstalled
  BY <1>2, StacksHold, PTL
<1> QED BY <1>3, <1>4
=============================================================================
