-------------------------------- MODULE Wait --------------------------------
(***************************************************************************)
(* The blocking handshake of src/src/proc/sched.zig, at the granularity of *)
(* one action per access to memory another CPU can reach.                  *)
(*                                                                         *)
(* A task that must wait runs blockOn, blockOnMutex or blockOnLockSeq: it  *)
(* tests and clears its wake_pending, enrols (setWait), goes .sleeping,    *)
(* rechecks its condition, and yields or rolls back.  A waker runs the     *)
(* scan of wakeAllWaitingOn and, for every enrolled sleeper, the three     *)
(* stores of wake().  Each primitive that blocks (RwMutex, Mutex, Pipe)    *)
(* extends this module with its own state and supplies the condition.      *)
(*                                                                         *)
(* A task on a CPU executes whatever its state byte says: a sleeper that   *)
(* has not reached its yield can be made .ready under its own feet.        *)
(* Dispatch abstracts the runqueues (module Sched) to "some CPU picks it". *)
(***************************************************************************)
EXTENDS Naturals

CONSTANT N          \* number of process slots in use

ASSUME NAssumption == N \in Nat \ {0}

Pids   == 1..N
Killer == 0         \* the context of a task, outside Pids, that kills others
Actors == 0..N

VARIABLES
  state,        \* PCB.state of each pid
  onCpu,        \* PCB.on_cpu: the pid executes on some CPU
  wakePending,  \* PCB.wake_pending
  wait,         \* PCB.wait_kind: "none", or enrolled on the modelled object
  pc,           \* where each actor is in the code
  idx           \* the pid an actor's waiter scan has reached, or that it wakes

taskVars == <<state, onCpu, wakePending, wait>>
waitVars == <<state, onCpu, wakePending, wait, pc, idx>>

States   == {"ready", "running", "sleeping", "zombie"}
BlockPcs == {"test", "enroll", "sleep", "recheck", "rollback", "rerun",
             "yield"}
WakePcs  == {"scan", "match", "pend", "clear", "makeReady"}

WaitTypeOK ==
  /\ state \in [Pids -> States]
  /\ onCpu \in [Pids -> BOOLEAN]
  /\ wakePending \in [Pids -> BOOLEAN]
  /\ wait \in [Pids -> {"none", "enrolled"}]
  /\ idx \in [Actors -> 1..N+1]

WaitInit ==
  /\ state = [p \in Pids |-> "ready"]
  /\ onCpu = [p \in Pids |-> FALSE]
  /\ wakePending = [p \in Pids |-> FALSE]
  /\ wait = [p \in Pids |-> "none"]
  /\ idx = [a \in Actors |-> 1]

\* An actor takes steps only while it is on a CPU.
Runs(a) == a = Killer \/ (a \in Pids /\ onCpu[a])

At(a, l) == pc[a] = l /\ Runs(a)
Go(a, l) == pc' = [pc EXCEPT ![a] = l]

-----------------------------------------------------------------------------
(* The sleeper: the body shared by blockOn, blockOnMutex, blockOnLockSeq. *)

\* Test-and-clear: a wake that came before the call is consumed here.
TestPending(p) ==
  /\ At(p, "test")
  /\ wakePending' = [wakePending EXCEPT ![p] = FALSE]
  /\ Go(p, IF wakePending[p] THEN "acquire" ELSE "enroll")
  /\ UNCHANGED <<state, onCpu, wait, idx>>

SetWait(p) ==
  /\ At(p, "enroll")
  /\ wait' = [wait EXCEPT ![p] = "enrolled"]
  /\ Go(p, "sleep")
  /\ UNCHANGED <<state, onCpu, wakePending, idx>>

\* setState(cur, .sleeping).
FallAsleep(p) ==
  /\ At(p, "sleep")
  /\ state' = [state EXCEPT ![p] = "sleeping"]
  /\ Go(p, "recheck")
  /\ UNCHANGED <<onCpu, wakePending, wait, idx>>

\* Mutant of Recheck: the caller's condition is not read again.
RecheckPendingOnly(p, settled) ==
  /\ At(p, "recheck")
  /\ Go(p, IF wakePending[p] THEN "rollback" ELSE "yield")
  /\ UNCHANGED <<taskVars, idx>>

\* The recheck after enrolment: `settled` is the caller's condition.
Recheck(p, settled) ==
  /\ At(p, "recheck")
  /\ Go(p, IF settled \/ wakePending[p] THEN "rollback" ELSE "yield")
  /\ UNCHANGED <<taskVars, idx>>

RollbackClear(p) ==
  /\ At(p, "rollback")
  /\ wait' = [wait EXCEPT ![p] = "none"]
  /\ Go(p, "rerun")
  /\ UNCHANGED <<state, onCpu, wakePending, idx>>

RollbackRun(p) ==
  /\ At(p, "rerun")
  /\ state' = [state EXCEPT ![p] = "running"]
  /\ Go(p, "acquire")
  /\ UNCHANGED <<onCpu, wakePending, wait, idx>>

\* softYield into schedule(): the CPU leaves the task.
Yield(p) ==
  /\ At(p, "yield")
  /\ state' = [state EXCEPT ![p] = IF @ = "running" THEN "ready" ELSE @]
  /\ onCpu' = [onCpu EXCEPT ![p] = FALSE]
  /\ Go(p, "resume")
  /\ UNCHANGED <<wakePending, wait, idx>>

\* The clearWait after the yield, and back to the caller's loop.
Resume(p) ==
  /\ At(p, "resume")
  /\ wait' = [wait EXCEPT ![p] = "none"]
  /\ Go(p, "acquire")
  /\ UNCHANGED <<state, onCpu, wakePending, idx>>

-----------------------------------------------------------------------------
(* The waker: wakeAllWaitingOn and wake(). *)

EndScan(a) == idx' = [idx EXCEPT ![a] = 1]

\* Mutant of NextSlot: the scan starts over, below the first slot.
NextSlotWraps(a) == idx' = [idx EXCEPT ![a] = (idx[a] + 1) % (N + 1)]

NextSlot(a) == idx' = [idx EXCEPT ![a] = idx[a] + 1]

\* The scan skips a slot that is not .sleeping ...
ScanState(a) ==
  /\ At(a, "scan")
  /\ idx[a] <= N
  /\ IF state[idx[a]] = "sleeping" THEN Go(a, "match") /\ UNCHANGED idx
                                   ELSE NextSlot(a) /\ UNCHANGED pc
  /\ UNCHANGED taskVars

\* ... or not enrolled on the object (waitsOn).
ScanMatch(a) ==
  /\ At(a, "match")
  /\ IF wait[idx[a]] = "enrolled"
       THEN Go(a, "pend") /\ UNCHANGED idx
       ELSE Go(a, "scan") /\ NextSlot(a)
  /\ UNCHANGED taskVars

\* wake(), of the pid in idx: exchange wake_pending, clear the wait fields,
\* then .sleeping -> .ready at the CAS of setStateFrom.
WakePend(a) ==
  /\ At(a, "pend")
  /\ wakePending' = [wakePending EXCEPT ![idx[a]] = TRUE]
  /\ Go(a, "clear")
  /\ UNCHANGED <<state, onCpu, wait, idx>>

WakeClear(a) ==
  /\ At(a, "clear")
  /\ wait' = [wait EXCEPT ![idx[a]] = "none"]
  /\ Go(a, "makeReady")
  /\ UNCHANGED <<state, onCpu, wakePending, idx>>

MakeReady(a) ==
  /\ At(a, "makeReady")
  /\ state' = [state EXCEPT ![idx[a]] = IF @ = "sleeping" THEN "ready" ELSE @]
  /\ UNCHANGED <<onCpu, wakePending, wait>>

WakeReady(a) ==
  /\ MakeReady(a)
  /\ Go(a, "scan")
  /\ NextSlot(a)

-----------------------------------------------------------------------------
(* The scheduler, as far as a blocked task can tell. *)

\* pickMinVruntime passes over a queued task whose wait_kind is set, whose
\* exit was requested (`doomed`), or whose context is still on a CPU.
Dispatch(p, doomed) ==
  /\ state[p] = "ready"
  /\ ~onCpu[p]
  /\ wait[p] = "none"
  /\ p \notin doomed
  /\ state' = [state EXCEPT ![p] = "running"]
  /\ onCpu' = [onCpu EXCEPT ![p] = TRUE]
  /\ UNCHANGED <<wakePending, wait, pc, idx>>

\* check_and_preempt_dynirq refuses a task that is enrolling or .sleeping.
MayPreempt(p) ==
  /\ onCpu[p]
  /\ wait[p] = "none"
  /\ state[p] # "sleeping"

Preempt(p) ==
  /\ MayPreempt(p)
  /\ state' = [state EXCEPT ![p] = IF @ = "running" THEN "ready" ELSE @]
  /\ onCpu' = [onCpu EXCEPT ![p] = FALSE]
  /\ UNCHANGED <<wakePending, wait, pc, idx>>

BlockStep(p, settled) ==
  \/ TestPending(p)
  \/ SetWait(p)
  \/ FallAsleep(p)
  \/ Recheck(p, settled)
  \/ RollbackClear(p)
  \/ RollbackRun(p)
  \/ Resume(p)

WakeStep(a) ==
  \/ ScanState(a)
  \/ ScanMatch(a)
  \/ WakePend(a)
  \/ WakeClear(a)
  \/ WakeReady(a)
=============================================================================
