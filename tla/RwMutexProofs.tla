--------------------------- MODULE RwMutexProofs ---------------------------
(***************************************************************************)
(* Proofs about RwMutex, for every number of threads and every choice of   *)
(* which of them read, write, are preempted and are killed.                *)
(*                                                                         *)
(* The inductive invariant IInv adds to TypeOK and Exclusion what the      *)
(* teardown protocol guarantees: a task being torn down never reaches the  *)
(* lock's code again.  A killed victim is off every CPU for good; a task   *)
(* that destroys itself only runs the rest of its teardown.                *)
(*                                                                         *)
(* The second part is about wake-ups.  RescueInv, which needs nothing of   *)
(* the constants, says that a sleeper which is still enrolled outsleeps no *)
(* release.  Of one whose wait fields a waker has cleared that holds only  *)
(* of two threads: RoleInv, ScanInv and HandInv say who the one waker then *)
(* is and how far its scan and its wake() have come.                       *)
(*                                                                         *)
(* The last part is an action property: who ends a hold.                   *)
(***************************************************************************)
EXTENDS RwMutex, TLAPS


\* Program counters and scans are typed; a scan with a slot in hand has a slot
\* of the process table.
PcTyped ==
  /\ pc \in [Actors -> TaskPcs]
  /\ pc[Killer] \in KillerPcs
  /\ idx \in [Actors -> 1..N+1]
  /\ \A a \in Actors : pc[a] \in WakePcs \ {"scan"} => idx[a] <= N

\* Everything else is typed.
DataTyped ==
  /\ state \in [Pids -> States]
  /\ onCpu \in [Pids -> BOOLEAN]
  /\ wakePending \in [Pids -> BOOLEAN]
  /\ wait \in [Pids -> {"none", "enrolled"}]
  /\ readers \subseteq Pids
  /\ writer \in Pids \cup {NoOwner}
  /\ writersWaiting \subseteq Pids
  /\ sleepers \subseteq Pids
  /\ seqSeen \subseteq Pids
  /\ mode \in [Pids -> Modes]
  /\ exiting \subseteq Pids
  /\ torn \subseteq Pids
  /\ victim \in Pids \cup {NoOwner}

TypeInv == PcTyped /\ DataTyped

\* A torn task that still runs is in its own teardown; a zombie never runs.
TornInv ==
  /\ torn \subseteq exiting
  /\ \A p \in Pids :
       /\ p \in torn /\ onCpu[p] => pc[p] \in WakePcs \cup {"teardown", "exit"}
       /\ pc[p] \in {"teardown", "exit", "dead"} => p \in torn
       /\ state[p] = "zombie" => ~onCpu[p]
       /\ p \in torn => onCpu[p] \/ state[p] = "zombie"

\* What the killer has in hand is torn.
VictimInv == victim \in torn \cup {NoOwner}

IInv == TypeInv /\ TornInv /\ VictimInv /\ Exclusion /\ NoDeadHolder
-----------------------------------------------------------------------------
\* The split type invariant is the one the runs check.
LEMMA TypeInvIsTypeOK == TypeInv => TypeOK
  BY DEF TypeInv, PcTyped, DataTyped, TypeOK, WaitTypeOK

\* The initial state satisfies the invariant.
LEMMA InitIInv == Init => IInv
  BY NAssumption
  DEF Init, WaitInit, IInv, TypeInv, PcTyped, DataTyped, TornInv, VictimInv,
      Exclusion, NoDeadHolder, Gone, States, TaskPcs, KillerPcs, BlockPcs,
      WakePcs, Modes, Pids, Actors, Killer, NoOwner

\* The killer is no process.
LEMMA ActorFacts ==
  Killer \in Actors /\ Killer \notin Pids /\ Pids \subseteq Actors
  BY NAssumption DEF Killer, Actors, Pids

\* An actor that moves to another place with its scan where it was.
LEMMA Move ==
  ASSUME PcTyped, NEW a \in Actors, NEW l \in TaskPcs, Go(a, l),
         a = Killer => l \in KillerPcs,
         l \in WakePcs \ {"scan"} => idx[a] <= N,
         UNCHANGED idx
  PROVE  PcTyped'
  BY ActorFacts DEF PcTyped, Go

\* An actor whose scan is over, or is about to begin at slot 1.
LEMMA StartOver ==
  ASSUME PcTyped, NEW a \in Actors, EndScan(a),
         NEW l \in TaskPcs \ (WakePcs \ {"scan"}), Go(a, l),
         a = Killer => l \in KillerPcs
  PROVE  PcTyped'
<1>1. idx' \in [Actors -> 1..N+1]
  BY NAssumption DEF PcTyped, EndScan
<1>2. pc' \in [Actors -> TaskPcs] /\ pc'[Killer] \in KillerPcs
  BY ActorFacts DEF Go, PcTyped
<1>3. ASSUME NEW b \in Actors, pc'[b] \in WakePcs \ {"scan"}
      PROVE  idx'[b] <= N
  <2>1. b # a  BY <1>3 DEF Go, PcTyped
  <2> QED BY <1>3, <2>1 DEF Go, PcTyped, EndScan
<1> QED BY <1>1, <1>2, <1>3 DEF PcTyped

\* A scan that leaves its slot behind.
LEMMA MoveOn ==
  ASSUME PcTyped, NEW a \in Actors, idx[a] <= N, NextSlot(a), Go(a, "scan")
  PROVE  PcTyped'
<1>1. idx' \in [Actors -> 1..N+1]
  BY NAssumption DEF PcTyped, NextSlot, Actors
<1>2. "scan" \in TaskPcs \cap KillerPcs
  BY DEF TaskPcs, KillerPcs, WakePcs
<1>3. pc' \in [Actors -> TaskPcs] /\ pc'[Killer] \in KillerPcs
  BY <1>2, ActorFacts DEF PcTyped, Go
<1>4. ASSUME NEW b \in Actors, pc'[b] \in WakePcs \ {"scan"}
      PROVE  idx'[b] <= N
  <2>1. b # a  BY <1>4 DEF Go, PcTyped
  <2> QED BY <1>4, <2>1 DEF Go, PcTyped, NextSlot
<1> QED BY <1>1, <1>3, <1>4 DEF PcTyped

\* Every step keeps the scans inside the process table.
LEMMA PcStep == TypeInv /\ [Next]_vars => PcTyped'
<1> SUFFICES ASSUME TypeInv, [Next]_vars PROVE PcTyped'
  OBVIOUS
<1>t. PcTyped
  BY DEF TypeInv
<1>l. TaskPcs \cap KillerPcs = WakePcs \cup {"idle", "teardown"}
  BY DEF TaskPcs, KillerPcs, WakePcs, BlockPcs
<1>m. ASSUME NEW a \in Actors, NEW l \in TaskPcs \ WakePcs, Go(a, l),
             a \in Pids, UNCHANGED idx
      PROVE  PcTyped'
  BY <1>m, <1>t, Move, ActorFacts
<1> USE <1>t, ActorFacts DEF At, taskVars, killVars, lockVars
<1>1. ASSUME NEW p \in Pids, NEW m \in Modes, Request(p, m) PROVE PcTyped'
  BY <1>1, <1>m DEF Request, TaskPcs, WakePcs
<1>2. ASSUME NEW p \in Pids, TryAcquireRead(p) PROVE PcTyped'
  BY <1>2, <1>m DEF TryAcquireRead, TaskPcs, WakePcs
<1>3. ASSUME NEW p \in Pids, Acquire(p) PROVE PcTyped'
  <2>1. (Go(p, "cs") \/ Go(p, "test")) /\ UNCHANGED idx
    BY <1>3 DEF Acquire, AcquireRead, AcquireWrite
  <2> QED BY <2>1, <1>m DEF TaskPcs, WakePcs, BlockPcs
<1>4. ASSUME NEW p \in Pids, Drop(p) PROVE PcTyped'
  <2>1. (Go(p, "scan") \/ Go(p, "idle")) /\ UNCHANGED idx
    BY <1>4 DEF Drop
  <2> QED BY <2>1, Move DEF TaskPcs, WakePcs
<1>5. ASSUME NEW p \in Pids, Blocking(p) PROVE PcTyped'
  <2>1. PICK l \in (BlockPcs \cup {"acquire", "resume"}) :
          Go(p, l) /\ UNCHANGED idx
    BY <1>5 DEF Blocking, BlockStep, TestPending, SetWait, FallAsleep, Recheck,
       RollbackClear, RollbackRun, Resume, Yield, BlockPcs
  <2>2. l \in TaskPcs \ WakePcs
    BY DEF TaskPcs, WakePcs, BlockPcs
  <2> QED BY <2>1, <2>2, <1>m
<1>6. ASSUME NEW a \in Actors, Waking(a) PROVE PcTyped'
  <2>1. CASE WakeReady(a) \/ (ScanMatch(a) /\ Go(a, "scan"))
    <3>1. idx[a] <= N
      BY <2>1 DEF WakeReady, MakeReady, ScanMatch, PcTyped, WakePcs
    <3>2. NextSlot(a) /\ Go(a, "scan")
      BY <2>1 DEF WakeReady, MakeReady, ScanMatch, Go, PcTyped
    <3> QED BY <3>1, <3>2, MoveOn
  <2>2. CASE ScanState(a) /\ state[idx[a]] # "sleeping"
    <3>1. pc' = [pc EXCEPT ![a] = "scan"]
      BY <2>2 DEF ScanState, PcTyped
    <3>2. idx[a] <= N /\ NextSlot(a)
      BY <2>2 DEF ScanState
    <3> QED BY <3>1, <3>2, MoveOn DEF Go
  <2>3. CASE /\ \/ ScanState(a) /\ state[idx[a]] = "sleeping"
                \/ ScanMatch(a) /\ wait[idx[a]] = "enrolled"
                \/ WakePend(a)
                \/ WakeClear(a)
    <3>1. idx[a] <= N /\ UNCHANGED idx
      BY <2>3 DEF ScanState, ScanMatch, WakePend, WakeClear, PcTyped, WakePcs
    <3>2. Go(a, "match") \/ Go(a, "pend") \/ Go(a, "clear") \/ Go(a, "makeReady")
      BY <2>3 DEF ScanState, ScanMatch, WakePend, WakeClear
    <3>3. {"match", "pend", "clear", "makeReady"} \subseteq TaskPcs \cap KillerPcs
      BY <1>l DEF WakePcs
    <3> QED BY <3>1, <3>2, <3>3, Move
  <2> QED BY <1>6, <2>1, <2>2, <2>3 DEF Waking, WakeStep, ScanMatch
<1>7. ASSUME NEW a \in Actors, ScanDone(a), Killer \notin torn PROVE PcTyped'
  <2>1. PICK l \in {"exit", "idle"} : Go(a, l) /\ (a = Killer => l = "idle")
    BY <1>7 DEF ScanDone
  <2>2. l \in TaskPcs \ (WakePcs \ {"scan"}) /\ (a = Killer => l \in KillerPcs)
    BY <2>1 DEF TaskPcs, WakePcs, KillerPcs
  <2> QED BY <1>7, <2>1, <2>2, StartOver DEF ScanDone
<1>8. ASSUME NEW a \in Actors, DropPid(a) PROVE PcTyped'
  <2>1. PICK l \in {"scan", "idle", "exit"} :
          Go(a, l) /\ (a = Killer => l # "exit")
    BY <1>8 DEF DropPid
  <2>2. /\ l \in TaskPcs \ (WakePcs \ {"scan"})
        /\ a = Killer => l \in KillerPcs
    BY <2>1 DEF TaskPcs, WakePcs, KillerPcs
  <2> QED BY <1>8, <2>1, <2>2, StartOver DEF DropPid
<1>9. ASSUME NEW p \in Pids, Exit(p) PROVE PcTyped'
  BY <1>9, <1>m DEF Exit, TaskPcs, WakePcs
<1>10. ASSUME NEW p \in Pids,
              DispatchTask(p) \/ PreemptTask(p) \/ RequestKill(p)
       PROVE  PcTyped'
  <2>1. UNCHANGED <<pc, idx>>
    BY <1>10 DEF DispatchTask, Dispatch, PreemptTask, Preempt, RequestKill,
       waitVars
  <2> QED BY <2>1 DEF PcTyped
<1>11. ASSUME NEW p \in Pids, KillOffCpu(p) PROVE PcTyped'
  <2>1. Go(Killer, "teardown") /\ UNCHANGED idx
    BY <1>11 DEF KillOffCpu
  <2>2. "teardown" \in (TaskPcs \cap KillerPcs) \ WakePcs
    BY <1>l DEF WakePcs
  <2> QED BY <2>1, <2>2, Move
<1>12. ASSUME NEW p \in Pids, SelfDestroy(p) PROVE PcTyped'
  BY <1>12, <1>m DEF SelfDestroy, TaskPcs, WakePcs
<1>13. CASE UNCHANGED vars
  BY <1>13 DEF vars, waitVars, PcTyped
<1>14. Killer \notin torn
  BY DEF TypeInv, DataTyped
<1> QED
  BY <1>1, <1>2, <1>3, <1>4, <1>5, <1>6, <1>7, <1>8, <1>9, <1>10, <1>11,
     <1>12, <1>13, <1>14
  DEF Next, TaskStep, KillerStep

\* Every step keeps the rest of the state typed.
LEMMA DataStep == TypeInv /\ [Next]_vars => DataTyped'
<1> SUFFICES ASSUME TypeInv, [Next]_vars PROVE DataTyped'
  OBVIOUS
<1> USE DEF TypeInv, DataTyped, taskVars, killVars, lockVars
<1>1. ASSUME NEW p \in Pids, NEW m \in Modes, Request(p, m) PROVE DataTyped'
  BY <1>1 DEF Request
<1>2. ASSUME NEW p \in Pids, TryAcquireRead(p) PROVE DataTyped'
  BY <1>2 DEF TryAcquireRead, Modes
<1>3. ASSUME NEW p \in Pids, Acquire(p) PROVE DataTyped'
  BY <1>3 DEF Acquire, AcquireRead, AcquireWrite
<1>4. ASSUME NEW p \in Pids, Drop(p) PROVE DataTyped'
  BY <1>4 DEF Drop, Bump
<1>5. ASSUME NEW p \in Pids, Blocking(p) PROVE DataTyped'
  <2>1. UNCHANGED <<lockVars, killVars>>
    BY <1>5 DEF Blocking
  <2>2. /\ state' \in [Pids -> States]
        /\ onCpu' \in [Pids -> BOOLEAN]
        /\ wakePending' \in [Pids -> BOOLEAN]
        /\ wait' \in [Pids -> {"none", "enrolled"}]
    BY <1>5 DEF Blocking, BlockStep, TestPending, SetWait, FallAsleep, Recheck,
       RollbackClear, RollbackRun, Resume, Yield, States
  <2> QED BY <2>1, <2>2
<1>6. ASSUME NEW a \in Actors, Waking(a) PROVE DataTyped'
  <2>1. UNCHANGED <<lockVars, killVars>>
    BY <1>6 DEF Waking
  <2>2. /\ state' \in [Pids -> States]
        /\ onCpu' \in [Pids -> BOOLEAN]
        /\ wakePending' \in [Pids -> BOOLEAN]
        /\ wait' \in [Pids -> {"none", "enrolled"}]
    BY <1>6 DEF Waking, WakeStep, ScanState, ScanMatch, WakePend, WakeClear,
       WakeReady, MakeReady, States
  <2> QED BY <2>1, <2>2
<1>7. ASSUME NEW a \in Actors, ScanDone(a) PROVE DataTyped'
  BY <1>7 DEF ScanDone
<1>8. ASSUME NEW a \in Actors, DropPid(a) PROVE DataTyped'
  BY <1>8 DEF DropPid, Forget, Bump
<1>9. ASSUME NEW p \in Pids, Exit(p) PROVE DataTyped'
  BY <1>9 DEF Exit, States
<1>10. ASSUME NEW p \in Pids, DispatchTask(p) \/ PreemptTask(p)
       PROVE  DataTyped'
  BY <1>10 DEF DispatchTask, Dispatch, PreemptTask, Preempt, States
<1>11. ASSUME NEW p \in Pids,
              RequestKill(p) \/ KillOffCpu(p) \/ SelfDestroy(p)
       PROVE  DataTyped'
  BY <1>11 DEF RequestKill, KillOffCpu, SelfDestroy, waitVars, States
<1>12. CASE UNCHANGED vars
  BY <1>12 DEF vars, waitVars
<1> QED
  BY <1>1, <1>2, <1>3, <1>4, <1>5, <1>6, <1>7, <1>8, <1>9, <1>10, <1>11,
     <1>12, ActorFacts
  DEF Next, TaskStep, KillerStep

\* A torn task does not move except through its own teardown.
LEMMA TornStep == TypeInv /\ TornInv /\ [Next]_vars => TornInv'
<1> SUFFICES ASSUME TypeInv, TornInv, [Next]_vars PROVE TornInv'
  OBVIOUS
<1>t. /\ pc \in [Actors -> TaskPcs]
      /\ state \in [Pids -> States]
      /\ onCpu \in [Pids -> BOOLEAN]
      /\ torn \subseteq Pids
  BY DEF TypeInv, PcTyped, DataTyped
\* A task outside its teardown that runs is not torn, and may go anywhere
\* else in the code.
<1>m. ASSUME NEW p \in Pids, NEW l, Go(p, l), onCpu[p], p \notin torn,
             l \notin {"teardown", "exit", "dead"},
             UNCHANGED <<state, onCpu, torn, exiting>>
      PROVE  TornInv'
  BY <1>m, <1>t, ActorFacts DEF TornInv, Go
<1>r. ASSUME NEW p \in Pids, Runs(p),
             pc[p] \notin WakePcs \cup {"teardown", "exit"}
      PROVE  p \notin torn /\ onCpu[p]
  BY <1>r, ActorFacts DEF TornInv, Runs
<1> USE ActorFacts DEF At, taskVars, killVars, lockVars
<1>1. ASSUME NEW p \in Pids, NEW m \in Modes, Request(p, m) PROVE TornInv'
  <2>1. p \notin torn /\ onCpu[p]  BY <1>1, <1>r DEF Request, WakePcs
  <2> QED BY <1>1, <2>1, <1>m DEF Request
<1>2. ASSUME NEW p \in Pids, TryAcquireRead(p) PROVE TornInv'
  <2>1. p \notin torn /\ onCpu[p]  BY <1>2, <1>r DEF TryAcquireRead, WakePcs
  <2> QED BY <1>2, <2>1, <1>m DEF TryAcquireRead
<1>3. ASSUME NEW p \in Pids, Acquire(p) PROVE TornInv'
  <2>1. p \notin torn /\ onCpu[p]
    BY <1>3, <1>r DEF Acquire, AcquireRead, AcquireWrite, WakePcs
  <2>2. Go(p, "cs") \/ Go(p, "test")
    BY <1>3 DEF Acquire, AcquireRead, AcquireWrite
  <2>3. UNCHANGED <<state, onCpu, torn, exiting>>
    BY <1>3 DEF Acquire, AcquireRead, AcquireWrite
  <2> QED BY <2>1, <2>2, <2>3, <1>m
<1>4. ASSUME NEW p \in Pids, Drop(p) PROVE TornInv'
  <2>1. p \notin torn /\ onCpu[p]  BY <1>4, <1>r DEF Drop, WakePcs
  <2>2. (Go(p, "scan") \/ Go(p, "idle")) /\ UNCHANGED <<state, onCpu, torn, exiting>>
    BY <1>4 DEF Drop
  <2> QED BY <2>1, <2>2, <1>m
<1>5. ASSUME NEW p \in Pids, Blocking(p) PROVE TornInv'
  <2>1. /\ pc[p] \in BlockPcs \cup {"resume"} /\ Runs(p)
        /\ UNCHANGED <<torn, exiting>>
    BY <1>5 DEF Blocking, BlockStep, TestPending, SetWait, FallAsleep, Recheck,
       RollbackClear, RollbackRun, Resume, Yield, BlockPcs
  <2>2. p \notin torn /\ onCpu[p]
    BY <2>1, <1>r DEF BlockPcs, WakePcs
  <2>3. PICK l \in BlockPcs \cup {"acquire", "resume"} : Go(p, l)
    BY <1>5 DEF Blocking, BlockStep, TestPending, SetWait, FallAsleep, Recheck,
       RollbackClear, RollbackRun, Resume, Yield, BlockPcs
  <2>4. state[p] # "zombie"
    BY <2>2 DEF TornInv
  <2>5. /\ \A q \in Pids \ {p} : state'[q] = state[q] /\ onCpu'[q] = onCpu[q]
        /\ state'[p] # "zombie"
    BY <1>5, <1>t, <2>4 DEF Blocking, BlockStep, TestPending, SetWait,
       FallAsleep, Recheck, RollbackClear, RollbackRun, Resume, Yield
  <2>6. l \notin {"teardown", "exit", "dead"}
    BY DEF BlockPcs
  <2> QED BY <2>1, <2>2, <2>3, <2>5, <2>6, <1>t DEF TornInv, Go
<1>6. ASSUME NEW a \in Actors, Waking(a) PROVE TornInv'
  <2>1. UNCHANGED <<onCpu, torn, exiting>>
    BY <1>6 DEF Waking, WakeStep, ScanState, ScanMatch, WakePend, WakeClear,
       WakeReady, MakeReady
  <2>2. \A q \in Pids : (state'[q] = "zombie") = (state[q] = "zombie")
    BY <1>6, <1>t DEF Waking, WakeStep, ScanState, ScanMatch, WakePend,
       WakeClear, WakeReady, MakeReady
  <2>3. pc[a] \in WakePcs /\ pc'[a] \in WakePcs
    BY <1>6, <1>t DEF Waking, WakeStep, ScanState, ScanMatch, WakePend,
       WakeClear, WakeReady, MakeReady, WakePcs, Go
  <2>4. \A q \in Pids \ {a} : pc'[q] = pc[q]
    BY <1>6, <1>t DEF Waking, WakeStep, ScanState, ScanMatch, WakePend,
       WakeClear, WakeReady, MakeReady, Go
  <2> QED BY <2>1, <2>2, <2>3, <2>4 DEF TornInv, WakePcs
<1>7. ASSUME NEW a \in Actors, ScanDone(a) PROVE TornInv'
  <2>1. UNCHANGED <<state, onCpu, torn, exiting>>
    BY <1>7 DEF ScanDone
  <2>2. pc'[a] = IF a \in torn THEN "exit" ELSE "idle"
    BY <1>7, <1>t DEF ScanDone, Go
  <2>3. \A q \in Pids \ {a} : pc'[q] = pc[q]
    BY <1>7, <1>t DEF ScanDone, Go
  <2> QED BY <2>1, <2>2, <2>3, <1>7 DEF TornInv
<1>8. ASSUME NEW a \in Actors, DropPid(a) PROVE TornInv'
  <2>1. UNCHANGED <<state, onCpu, torn, exiting>>
    BY <1>8 DEF DropPid
  <2>2. pc[a] = "teardown" /\ pc'[a] \in {"scan", "idle", "exit"}
        /\ (a # Killer => pc'[a] # "idle")
    BY <1>8, <1>t DEF DropPid, Go
  <2>3. \A q \in Pids \ {a} : pc'[q] = pc[q]
    BY <1>8, <1>t DEF DropPid, Go
  <2> QED BY <2>1, <2>2, <2>3 DEF TornInv, WakePcs
<1>9. ASSUME NEW p \in Pids, Exit(p) PROVE TornInv'
  <2>1. UNCHANGED <<torn, exiting>> /\ p \in torn
    BY <1>9 DEF Exit, TornInv
  <2>2. pc'[p] = "dead" /\ state'[p] = "zombie" /\ ~onCpu'[p]
    BY <1>9, <1>t DEF Exit, Go
  <2>3. \A q \in Pids \ {p} : pc'[q] = pc[q] /\ state'[q] = state[q]
                              /\ onCpu'[q] = onCpu[q]
    BY <1>9, <1>t DEF Exit, Go
  <2> QED BY <2>1, <2>2, <2>3 DEF TornInv
<1>10. ASSUME NEW p \in Pids, DispatchTask(p) PROVE TornInv'
  <2>1. state[p] = "ready" /\ p \notin torn /\ UNCHANGED <<pc, torn, exiting>>
    BY <1>10 DEF DispatchTask, Dispatch, TornInv
  <2>2. /\ \A q \in Pids \ {p} : state'[q] = state[q] /\ onCpu'[q] = onCpu[q]
        /\ state'[p] = "running"
    BY <1>10, <1>t DEF DispatchTask, Dispatch
  <2> QED BY <2>1, <2>2 DEF TornInv
<1>11. ASSUME NEW p \in Pids, PreemptTask(p) PROVE TornInv'
  <2>1. onCpu[p] /\ p \notin torn /\ UNCHANGED <<pc, torn, exiting>>
    BY <1>11 DEF PreemptTask, Preempt, MayPreempt, MaySchedule
  <2>2. /\ \A q \in Pids \ {p} : state'[q] = state[q] /\ onCpu'[q] = onCpu[q]
        /\ ~onCpu'[p]
    BY <1>11, <1>t DEF PreemptTask, Preempt
  <2> QED BY <2>1, <2>2 DEF TornInv
<1>12. ASSUME NEW p \in Pids, RequestKill(p) PROVE TornInv'
  BY <1>12 DEF RequestKill, waitVars, TornInv
<1>13. ASSUME NEW p \in Pids, KillOffCpu(p) PROVE TornInv'
  <2>1. p \in exiting /\ ~onCpu[p] /\ torn' = torn \cup {p}
        /\ UNCHANGED <<onCpu, exiting>>
    BY <1>13 DEF KillOffCpu
  <2>2. state' = [state EXCEPT ![p] = "zombie"] /\ \A q \in Pids : pc'[q] = pc[q]
    BY <1>13, <1>t DEF KillOffCpu, Go
  <2> QED BY <2>1, <2>2, <1>t DEF TornInv
<1>14. ASSUME NEW p \in Pids, SelfDestroy(p) PROVE TornInv'
  <2>1. p \in exiting /\ onCpu[p] /\ torn' = torn \cup {p}
        /\ UNCHANGED <<state, onCpu, exiting>>
    BY <1>14 DEF SelfDestroy
  <2>2. pc'[p] = "teardown" /\ \A q \in Pids \ {p} : pc'[q] = pc[q]
    BY <1>14, <1>t DEF SelfDestroy, Go
  <2> QED BY <2>1, <2>2 DEF TornInv
<1>15. CASE UNCHANGED vars
  BY <1>15 DEF vars, waitVars, TornInv
<1> QED
  BY <1>1, <1>2, <1>3, <1>4, <1>5, <1>6, <1>7, <1>8, <1>9, <1>10, <1>11,
     <1>12, <1>13, <1>14, <1>15
  DEF Next, TaskStep, KillerStep

\* The killer's victim changes only when a kill starts or a teardown ends.
LEMMA VictimStep == TypeInv /\ VictimInv /\ [Next]_vars => VictimInv'
  BY DEF VictimInv, Next, vars, waitVars, lockVars, killVars, TaskStep,
     KillerStep, Request, TryAcquireRead, Acquire, AcquireRead, AcquireWrite,
     Drop, Blocking, Waking, ScanDone, DropPid, Exit, DispatchTask,
     PreemptTask, RequestKill, KillOffCpu, SelfDestroy

-----------------------------------------------------------------------------
\* The blocking handshake never touches the lock, enters no critical section
\* and starts no teardown.
LEMMA HandshakeFrame ==
  ASSUME TypeInv, NEW a \in Actors, (a \in Pids /\ Blocking(a)) \/ Waking(a)
  PROVE  /\ UNCHANGED <<lockVars, killVars>>
         /\ pc[a] \notin {"cs", "teardown"} /\ pc'[a] \notin {"cs", "teardown"}
         /\ \A b \in Actors \ {a} : pc'[b] = pc[b]
<1>t. pc \in [Actors -> TaskPcs]
  BY DEF TypeInv, PcTyped
<1>1. UNCHANGED <<lockVars, killVars>>
  BY DEF Blocking, Waking
<1>2. PICK l \in BlockPcs \cup WakePcs \cup {"acquire", "resume"} :
        pc' = [pc EXCEPT ![a] = l]
  <2>1. CASE a \in Pids /\ Blocking(a)
    BY <2>1 DEF Blocking, BlockStep, TestPending, SetWait, FallAsleep, Recheck,
       RollbackClear, RollbackRun, Resume, Yield, BlockPcs, Go
  <2>2. CASE Waking(a) /\ pc' = pc
    <3>1. pc[a] \in WakePcs
      BY <2>2 DEF Waking, WakeStep, ScanState, ScanMatch, WakePend, WakeClear,
         WakeReady, MakeReady, WakePcs, At
    <3>2. pc' = [pc EXCEPT ![a] = pc[a]]
      BY <2>2, <1>t
    <3> QED BY <3>1, <3>2
  <2>3. CASE Waking(a) /\ pc' # pc
    BY <2>3 DEF Waking, WakeStep, ScanState, ScanMatch, WakePend, WakeClear,
       WakeReady, MakeReady, WakePcs, Go
  <2> QED BY <2>1, <2>2, <2>3
<1>3. l \notin {"cs", "teardown"}
  BY DEF BlockPcs, WakePcs
<1>4. pc[a] \notin {"cs", "teardown"}
  BY DEF Blocking, BlockStep, TestPending, SetWait, FallAsleep, Recheck,
     RollbackClear, RollbackRun, Resume, Yield, Waking, WakeStep, ScanState,
     ScanMatch, WakePend, WakeClear, WakeReady, MakeReady, WakePcs, At
<1> QED BY <1>t, <1>1, <1>2, <1>3, <1>4

\* A task of the lock's own code that runs is not being torn down.
LEMMA LiveRuns ==
  ASSUME TypeInv, TornInv, NEW p \in Pids, Runs(p),
         pc[p] \notin WakePcs \cup {"teardown", "exit"}
  PROVE  p \notin torn
  BY ActorFacts DEF TornInv, Runs

\* Every step keeps the lock exclusive.
LEMMA ExclusionStep ==
  TypeInv /\ TornInv /\ VictimInv /\ Exclusion /\ [Next]_vars => Exclusion'
<1> SUFFICES ASSUME TypeInv, TornInv, VictimInv, Exclusion, [Next]_vars
             PROVE  Exclusion'
  OBVIOUS
<1>t. /\ pc \in [Actors -> TaskPcs]
      /\ mode \in [Pids -> Modes]
      /\ readers \subseteq Pids /\ writer \in Pids \cup {NoOwner}
      /\ NoOwner \notin Pids
  BY DEF TypeInv, PcTyped, DataTyped, NoOwner, Pids
<1>f. ASSUME UNCHANGED <<readers, writer, mode>>, torn \subseteq torn',
             \A q \in Pids : (pc[q] = "cs") <=> (pc'[q] = "cs")
      PROVE  Exclusion'
  BY <1>f, <1>t DEF Exclusion
<1> USE ActorFacts DEF At, taskVars, killVars, lockVars
<1>1. ASSUME NEW p \in Pids, NEW m \in Modes, Request(p, m) PROVE Exclusion'
  BY <1>1, <1>t DEF Request, Exclusion, Go
<1>2. ASSUME NEW p \in Pids, AcquireRead(p) \/ TryAcquireRead(p)
      PROVE  Exclusion'
  <2>1. p \notin torn /\ pc[p] # "cs"
    BY <1>2, LiveRuns DEF AcquireRead, TryAcquireRead, WakePcs
  <2>2. CASE /\ writer = NoOwner
             /\ readers' = readers \cup {p}
             /\ UNCHANGED <<writer, torn>>
             /\ mode' = [mode EXCEPT ![p] = "read"]
             /\ Go(p, "cs")
    <3>1. pc'[p] = "cs" /\ mode'[p] = "read"
      BY <2>2, <1>t DEF Go
    <3>2. \A q \in Pids \ {p} : pc'[q] = pc[q] /\ mode'[q] = mode[q]
      BY <2>2, <1>t DEF Go
    <3> QED BY <2>2, <3>1, <3>2, <1>t DEF Exclusion
  <2>3. CASE UNCHANGED <<readers, writer, mode, torn>> /\ Go(p, "test")
    <3>1. \A q \in Pids : (pc[q] = "cs") <=> (pc'[q] = "cs")
      BY <2>1, <2>3, <1>t DEF Go
    <3> QED BY <3>1, <2>3, <1>f
  <2>4. CASE AcquireRead(p) /\ ReadFree
    <3>1. mode' = [mode EXCEPT ![p] = "read"]
      BY <2>4, <1>t DEF AcquireRead
    <3> QED BY <2>4, <3>1, <2>2 DEF AcquireRead, ReadFree
  <2> QED BY <1>2, <2>2, <2>3, <2>4 DEF AcquireRead, TryAcquireRead, ReadFree
<1>3. ASSUME NEW p \in Pids, AcquireWrite(p) PROVE Exclusion'
  <2>1. p \notin torn /\ pc[p] # "cs"
    BY <1>3, LiveRuns DEF AcquireWrite, WakePcs
  <2>2. mode[p] = "write" /\ UNCHANGED <<readers, mode, torn>>
    BY <1>3 DEF AcquireWrite
  <2>3. CASE WriteFree
    <3>1. writer = NoOwner /\ readers = {} /\ writer' = p /\ Go(p, "cs")
      BY <1>3, <2>3 DEF AcquireWrite, WriteFree
    <3>2. pc'[p] = "cs" /\ \A q \in Pids \ {p} : pc'[q] = pc[q]
      BY <3>1, <1>t DEF Go
    <3> QED BY <3>1, <3>2, <2>2, <1>t DEF Exclusion
  <2>4. CASE ~WriteFree
    <3>1. UNCHANGED writer /\ Go(p, "test")
      BY <1>3, <2>4 DEF AcquireWrite
    <3>2. \A q \in Pids : (pc[q] = "cs") <=> (pc'[q] = "cs")
      BY <2>1, <3>1, <1>t DEF Go
    <3> QED BY <3>1, <3>2, <2>2, <1>f
  <2> QED BY <2>3, <2>4
<1>4. ASSUME NEW p \in Pids, Drop(p) PROVE Exclusion'
  <2>1. p \notin torn /\ pc[p] = "cs" /\ UNCHANGED <<mode, torn>>
    BY <1>4, LiveRuns DEF Drop, WakePcs
  <2>2. pc'[p] # "cs" /\ \A q \in Pids \ {p} : pc'[q] = pc[q]
    BY <1>4, <1>t DEF Drop, Go
  <2>3. IF mode[p] = "read" THEN readers' = readers \ {p} /\ writer' = writer
                            ELSE writer' = NoOwner /\ readers' = readers
    BY <1>4 DEF Drop
  <2>4. IF mode[p] = "read" THEN p \in readers /\ writer = NoOwner
                            ELSE writer = p /\ readers = {}
    BY <2>1, <1>t DEF Exclusion
  <2> QED BY <2>1, <2>2, <2>3, <2>4, <1>t DEF Exclusion
<1>5. ASSUME NEW a \in Actors, (a \in Pids /\ Blocking(a)) \/ Waking(a)
      PROVE  Exclusion'
  BY <1>5, HandshakeFrame, <1>f
<1>6. ASSUME NEW a \in Actors, ScanDone(a) PROVE Exclusion'
  <2>1. \A q \in Pids : (pc[q] = "cs") <=> (pc'[q] = "cs")
    BY <1>6, <1>t DEF ScanDone, Go
  <2> QED BY <1>6, <2>1, <1>f DEF ScanDone
<1>7. ASSUME NEW a \in Actors, DropPid(a) PROVE Exclusion'
  <2>1. Dying(a) \in torn \cup {NoOwner}
    BY <1>7 DEF DropPid, Dying, TornInv, VictimInv, Actors, Pids, Killer
  <2>2. \A q \in Pids : (pc[q] = "cs") <=> (pc'[q] = "cs")
    BY <1>7, <1>t DEF DropPid, Go
  <2>3. /\ readers' = readers \ {Dying(a)}
        /\ writer' = IF writer = Dying(a) THEN NoOwner ELSE writer
        /\ UNCHANGED <<mode, torn>>
    BY <1>7 DEF DropPid, Forget
  <2> HIDE DEF Dying
  <2> QED BY <2>1, <2>2, <2>3, <1>t DEF Exclusion
<1>8. ASSUME NEW p \in Pids, Exit(p) PROVE Exclusion'
  <2>1. \A q \in Pids : (pc[q] = "cs") <=> (pc'[q] = "cs")
    BY <1>8, <1>t DEF Exit, Go
  <2> QED BY <1>8, <2>1, <1>f DEF Exit
<1>9. ASSUME NEW p \in Pids,
             DispatchTask(p) \/ PreemptTask(p) \/ RequestKill(p)
      PROVE  Exclusion'
  BY <1>9, <1>f DEF DispatchTask, Dispatch, PreemptTask, Preempt, RequestKill,
     waitVars
<1>10. ASSUME NEW p \in Pids, KillOffCpu(p) PROVE Exclusion'
  <2>1. \A q \in Pids : pc[q] = pc'[q]
    BY <1>10, <1>t DEF KillOffCpu, Go
  <2> QED BY <1>10, <2>1, <1>f DEF KillOffCpu
<1>11. ASSUME NEW p \in Pids, SelfDestroy(p) PROVE Exclusion'
  <2>1. p \in torn' /\ torn \subseteq torn' /\ UNCHANGED <<readers, writer, mode>>
    BY <1>11 DEF SelfDestroy
  <2>2. pc'[p] # "cs" /\ \A q \in Pids \ {p} : pc'[q] = pc[q]
    BY <1>11, <1>t DEF SelfDestroy, Go
  <2> QED BY <2>1, <2>2, <1>t DEF Exclusion
<1>12. CASE UNCHANGED vars
  BY <1>12, <1>f DEF vars, waitVars
<1> QED
  BY <1>1, <1>2, <1>3, <1>4, <1>5, <1>6, <1>7, <1>8, <1>9, <1>10, <1>11, <1>12
  DEF Next, TaskStep, KillerStep, Acquire

\* A task whose teardown has passed the lock is never named by it again.
LEMMA NoDeadStep ==
  /\ TypeInv /\ TornInv /\ VictimInv /\ NoDeadHolder /\ [Next]_vars
  => NoDeadHolder'
<1> SUFFICES ASSUME TypeInv, TornInv, VictimInv, NoDeadHolder, [Next]_vars
             PROVE  NoDeadHolder'
  OBVIOUS
<1>t. /\ pc \in [Actors -> TaskPcs]
      /\ writer \in Pids \cup {NoOwner} /\ NoOwner \notin Pids
      /\ victim \in Pids \cup {NoOwner}
      /\ torn \subseteq Pids
  BY DEF TypeInv, PcTyped, DataTyped, NoOwner, Pids
\* The lock may forget pids and name live ones, while nobody's teardown ends.
<1>f. ASSUME NEW q \in Pids, q \notin torn,
             readers' \subseteq readers \cup {q},
             writersWaiting' \subseteq writersWaiting \cup {q},
             sleepers' \subseteq sleepers \cup {q},
             writer' \in {writer, q, NoOwner},
             UNCHANGED torn,
             pc[Killer] = "teardown" =>
               pc'[Killer] = "teardown" /\ victim' = victim,
             \A p \in Pids : pc[p] = "teardown" => pc'[p] = "teardown"
      PROVE  NoDeadHolder'
  BY <1>f, <1>t DEF NoDeadHolder, Gone
<1>g. ASSUME UNCHANGED <<readers, writersWaiting, sleepers, writer, torn>>,
             pc[Killer] = "teardown" =>
               pc'[Killer] = "teardown" /\ victim' = victim,
             \A p \in Pids : pc[p] = "teardown" => pc'[p] = "teardown"
      PROVE  NoDeadHolder'
  BY <1>g, <1>t DEF NoDeadHolder, Gone
<1> USE ActorFacts DEF At, taskVars, killVars, lockVars
<1>1. ASSUME NEW p \in Pids,
             \/ \E m \in Modes : Request(p, m)
             \/ TryAcquireRead(p)
             \/ Acquire(p)
             \/ Drop(p)
      PROVE  NoDeadHolder'
  <2>1. pc[p] \in {"idle", "acquire", "cs"} /\ Runs(p)
    BY <1>1 DEF Request, TryAcquireRead, Acquire, AcquireRead, AcquireWrite, Drop
  <2>2. p \notin torn
    BY <2>1, LiveRuns DEF WakePcs
  <2>3. \A b \in Actors \ {p} : pc'[b] = pc[b]
    BY <1>1, <1>t DEF Request, TryAcquireRead, Acquire, AcquireRead,
       AcquireWrite, Drop, Go
  <2>4. UNCHANGED <<torn, victim>>
    BY <1>1 DEF Request, TryAcquireRead, Acquire, AcquireRead, AcquireWrite, Drop
  <2>5. /\ readers' \subseteq readers \cup {p}
        /\ writersWaiting' \subseteq writersWaiting \cup {p}
        /\ sleepers' \subseteq sleepers \cup {p}
        /\ writer' \in {writer, p, NoOwner}
    BY <1>1 DEF Request, TryAcquireRead, Acquire, AcquireRead, AcquireWrite, Drop
  <2> QED BY <2>1, <2>2, <2>3, <2>4, <2>5, <1>f
<1>2. ASSUME NEW a \in Actors, (a \in Pids /\ Blocking(a)) \/ Waking(a)
      PROVE  NoDeadHolder'
  BY <1>2, HandshakeFrame, <1>g
<1>3. ASSUME NEW a \in Actors, ScanDone(a) PROVE NoDeadHolder'
  <2>1. \A b \in Actors \ {a} : pc'[b] = pc[b]
    BY <1>3, <1>t DEF ScanDone, Go
  <2>2. a # Killer => victim' = victim
    BY <1>3 DEF ScanDone
  <2> QED BY <1>3, <2>1, <2>2, <1>g DEF ScanDone
<1>4. ASSUME NEW a \in Actors, DropPid(a) PROVE NoDeadHolder'
  <2>1. /\ readers' = readers \ {Dying(a)}
        /\ writersWaiting' = writersWaiting \ {Dying(a)}
        /\ sleepers' = sleepers \ {Dying(a)}
        /\ writer' = IF writer = Dying(a) THEN NoOwner ELSE writer
        /\ UNCHANGED torn
    BY <1>4 DEF DropPid, Forget
  <2>2. pc[a] = "teardown" /\ \A b \in Actors \ {a} : pc'[b] = pc[b]
    BY <1>4, <1>t DEF DropPid, Go
  <2>3. a # Killer => UNCHANGED victim
    BY <1>4 DEF DropPid
  <2>4. SUFFICES ASSUME NEW q \in Pids, Gone(q)'
                 PROVE  /\ q \notin readers' \cup writersWaiting' \cup sleepers'
                        /\ writer' # q
    BY DEF NoDeadHolder
  <2>5. CASE q = Dying(a)
    BY <2>5, <2>1, <1>t
  <2>6. CASE q # Dying(a)
    <3>1. q # a /\ (a = Killer => victim # q)
      BY <2>6 DEF Dying
    <3>2. Gone(q)
      BY <2>1, <2>2, <2>3, <2>4, <3>1 DEF Gone
    <3> QED BY <3>2, <2>1, <1>t DEF NoDeadHolder
  <2> QED BY <2>5, <2>6
<1>5. ASSUME NEW p \in Pids, Exit(p) PROVE NoDeadHolder'
  <2>1. pc[p] = "exit" /\ \A b \in Actors \ {p} : pc'[b] = pc[b]
    BY <1>5, <1>t DEF Exit, Go
  <2> QED BY <1>5, <2>1, <1>g DEF Exit
<1>6. ASSUME NEW p \in Pids,
             DispatchTask(p) \/ PreemptTask(p) \/ RequestKill(p)
      PROVE  NoDeadHolder'
  BY <1>6, <1>g DEF DispatchTask, Dispatch, PreemptTask, Preempt, RequestKill,
     waitVars
<1>7. ASSUME NEW p \in Pids, KillOffCpu(p) PROVE NoDeadHolder'
  <2>1. /\ pc[Killer] = "idle" /\ pc'[Killer] = "teardown" /\ victim' = p
        /\ torn' = torn \cup {p}
        /\ UNCHANGED <<readers, writersWaiting, sleepers, writer>>
    BY <1>7, <1>t DEF KillOffCpu, Go
  <2>2. \A q \in Pids : pc'[q] = pc[q]
    BY <1>7, <1>t DEF KillOffCpu, Go
  <2> QED BY <2>1, <2>2 DEF NoDeadHolder, Gone
<1>8. ASSUME NEW p \in Pids, SelfDestroy(p) PROVE NoDeadHolder'
  <2>1. /\ torn' = torn \cup {p}
        /\ UNCHANGED <<readers, writersWaiting, sleepers, writer, victim>>
    BY <1>8 DEF SelfDestroy
  <2>2. pc'[p] = "teardown" /\ \A b \in Actors \ {p} : pc'[b] = pc[b]
    BY <1>8, <1>t DEF SelfDestroy, Go
  <2> QED BY <2>1, <2>2 DEF NoDeadHolder, Gone
<1>9. CASE UNCHANGED vars
  BY <1>9, <1>g DEF vars, waitVars
<1> QED
  BY <1>1, <1>2, <1>3, <1>4, <1>5, <1>6, <1>7, <1>8, <1>9
  DEF Next, TaskStep, KillerStep

-----------------------------------------------------------------------------
\* The invariant is inductive.
LEMMA IInvStep == IInv /\ [Next]_vars => IInv'
  BY PcStep, DataStep, TornStep, VictimStep, ExclusionStep, NoDeadStep
  DEF IInv, TypeInv

\* Every behaviour of the lock satisfies the invariant.
THEOREM IInvHolds == Spec => []IInv
  BY InitIInv, IInvStep, PTL DEF Spec

\* Type correctness, for any number of threads.
THEOREM TypeCorrect == Spec => []TypeOK
<1>1. IInv => TypeOK
  BY TypeInvIsTypeOK DEF IInv
<1> QED BY <1>1, IInvHolds, PTL

\* A page fault never walks an address space that an munmap is editing: at
\* most one writer and then no reader, and every holder that is not being torn
\* down is in its critical section, for any number of threads, any of which may
\* be preempted and killed at any point of the lock's code.
THEOREM LockExcludes == Spec => []Exclusion
<1>1. IInv => Exclusion
  BY DEF IInv
<1> QED BY <1>1, IInvHolds, PTL

\* A thread whose teardown has passed dropPid is never again named by the lock:
\* killed while holding or awaiting as_lock, it cannot wedge its group.
THEOREM DeadHoldNothing == Spec => []NoDeadHolder
<1>1. IInv => NoDeadHolder
  BY DEF IInv
<1> QED BY <1>1, IInvHolds, PTL

-----------------------------------------------------------------------------
(* No sleeper outsleeps a release.  First what holds of any number of      *)
(* threads: one that is .sleeping and still enrolled, and whose seq has    *)
(* moved, is on the way of a waker.  A waker that dies half-way is no loss *)
(* here, because its teardown scans again from the first slot.             *)

\* A scan starts at the first slot; whoever waits for the lock is on its list
\* of sleepers.
WaitInv ==
  /\ \A a \in Actors : pc[a] \notin WakePcs \cup {"teardown"} => idx[a] = 1
  /\ \A p \in Pids \ torn : pc[p] \in BlockPcs \cup {"resume"} => p \in sleepers

\* Past its recheck, .sleeping, and enrolled.
Asleep(p) == /\ pc[p] \in {"yield", "resume"}
             /\ state[p] = "sleeping"
             /\ wait[p] = "enrolled"

RescueInv ==
  \A p \in Pids \ torn : Asleep(p) /\ p \notin seqSeen => Rescued(p)

\* What one step of the sleeper's handshake does: it is a live task on its CPU,
\* and it touches no other pid and no lock.
LEMMA BlockingEffect ==
  ASSUME TypeInv, TornInv, NEW p \in Pids, Blocking(p)
  PROVE  /\ p \notin torn /\ onCpu[p]
         /\ pc[p] \in BlockPcs \cup {"resume"}
         /\ pc'[p] \in BlockPcs \cup {"acquire", "resume"}
         /\ \A a \in Actors \ {p} : pc'[a] = pc[a]
         /\ \A q \in Pids \ {p} : /\ state'[q] = state[q]
                                  /\ wait'[q] = wait[q]
                                  /\ onCpu'[q] = onCpu[q]
         /\ UNCHANGED <<idx, lockVars, killVars>>
         /\ \/ pc'[p] \in {"acquire", "enroll", "rollback", "rerun"}
            \/ pc[p] = "enroll" /\ pc'[p] = "sleep" /\ wait'[p] = "enrolled"
            \/ /\ pc[p] = "sleep" /\ pc'[p] = "recheck"
               /\ state'[p] = "sleeping" /\ wait'[p] = wait[p]
            \/ /\ pc[p] = "recheck" /\ pc'[p] = "yield" /\ p \in seqSeen
               /\ state'[p] = state[p] /\ wait'[p] = wait[p]
            \/ /\ pc[p] = "yield" /\ pc'[p] = "resume" /\ wait'[p] = wait[p]
               /\ state'[p] = IF state[p] = "running" THEN "ready" ELSE state[p]
<1>t. /\ pc \in [Actors -> TaskPcs]
      /\ state \in [Pids -> States]
      /\ onCpu \in [Pids -> BOOLEAN]
      /\ wait \in [Pids -> {"none", "enrolled"}]
  BY DEF TypeInv, PcTyped, DataTyped
<1>1. pc[p] \in BlockPcs \cup {"resume"} /\ Runs(p)
  BY DEF Blocking, BlockStep, TestPending, SetWait, FallAsleep, Recheck,
     RollbackClear, RollbackRun, Resume, Yield, BlockPcs, At
<1>2. p \notin torn /\ onCpu[p]
  BY <1>1, LiveRuns, ActorFacts DEF Runs, BlockPcs, WakePcs
<1>3. UNCHANGED <<idx, lockVars, killVars>>
  BY DEF Blocking, BlockStep, TestPending, SetWait, FallAsleep, Recheck,
     RollbackClear, RollbackRun, Resume, Yield, taskVars
<1>4. \A a \in Actors \ {p} : pc'[a] = pc[a]
  BY HandshakeFrame, ActorFacts
<1>5. \A q \in Pids \ {p} : /\ state'[q] = state[q]
                            /\ wait'[q] = wait[q]
                            /\ onCpu'[q] = onCpu[q]
  BY <1>t DEF Blocking, BlockStep, TestPending, SetWait, FallAsleep, Recheck,
     RollbackClear, RollbackRun, Resume, Yield, taskVars
<1> USE <1>t, ActorFacts DEF At, Go, taskVars
<1>6. CASE TestPending(p) \/ RollbackClear(p) \/ RollbackRun(p) \/ Resume(p)
  <2>1. pc'[p] \in {"acquire", "enroll", "rerun"}
    BY <1>6 DEF TestPending, RollbackClear, RollbackRun, Resume
  <2> QED BY <1>1, <1>2, <1>3, <1>4, <1>5, <2>1 DEF BlockPcs
<1>7. CASE SetWait(p)
  <2>1. pc[p] = "enroll" /\ pc'[p] = "sleep" /\ wait'[p] = "enrolled"
    BY <1>7 DEF SetWait
  <2> QED BY <1>1, <1>2, <1>3, <1>4, <1>5, <2>1 DEF BlockPcs
<1>8. CASE FallAsleep(p)
  <2>1. /\ pc[p] = "sleep" /\ pc'[p] = "recheck"
        /\ state'[p] = "sleeping" /\ wait'[p] = wait[p]
    BY <1>8 DEF FallAsleep
  <2> QED BY <1>1, <1>2, <1>3, <1>4, <1>5, <2>1 DEF BlockPcs
<1>9. CASE Recheck(p, p \notin seqSeen)
  <2>1. /\ pc[p] = "recheck" /\ UNCHANGED <<state, wait>>
        /\ \/ pc'[p] = "rollback"
           \/ pc'[p] = "yield" /\ p \in seqSeen
    BY <1>9 DEF Recheck
  <2> QED BY <1>1, <1>2, <1>3, <1>4, <1>5, <2>1 DEF BlockPcs
<1>10. CASE Yield(p)
  <2>1. /\ pc[p] = "yield" /\ pc'[p] = "resume" /\ wait'[p] = wait[p]
        /\ state'[p] = IF state[p] = "running" THEN "ready" ELSE state[p]
    BY <1>10 DEF Yield
  <2> QED BY <1>1, <1>2, <1>3, <1>4, <1>5, <2>1 DEF BlockPcs
<1> QED BY <1>6, <1>7, <1>8, <1>9, <1>10 DEF Blocking, BlockStep

\* What one step of a scan does: it looks at the slot in idx, passes over a
\* task that is not asleep or not enrolled, and otherwise takes it through the
\* stores of wake().
LEMMA WakingEffect ==
  ASSUME TypeInv, NEW a \in Actors, Waking(a)
  PROVE  /\ pc[a] \in WakePcs /\ pc'[a] \in WakePcs /\ idx[a] \in Pids
         /\ \A b \in Actors \ {a} : pc'[b] = pc[b] /\ idx'[b] = idx[b]
         /\ UNCHANGED <<onCpu, lockVars, killVars>>
         /\ \A q \in Pids \ {idx[a]} : state'[q] = state[q] /\ wait'[q] = wait[q]
         /\ \/ /\ pc[a] = "scan" /\ state[idx[a]] # "sleeping"
               /\ idx'[a] = idx[a] + 1 /\ pc'[a] = "scan"
               /\ UNCHANGED <<state, wait>>
            \/ /\ pc[a] = "match" /\ wait[idx[a]] # "enrolled"
               /\ idx'[a] = idx[a] + 1 /\ pc'[a] = "scan"
               /\ UNCHANGED <<state, wait>>
            \/ /\ pc[a] # "makeReady" /\ pc'[a] \in {"match", "pend", "clear"}
               /\ idx'[a] = idx[a] /\ UNCHANGED <<state, wait>>
            \/ /\ pc[a] = "clear" /\ pc'[a] = "makeReady" /\ idx'[a] = idx[a]
               /\ state' = state /\ wait'[idx[a]] = "none"
            \/ /\ pc[a] = "makeReady" /\ pc'[a] = "scan" /\ idx'[a] = idx[a] + 1
               /\ state'[idx[a]] # "sleeping" /\ wait' = wait
               /\ (state'[idx[a]] = "zombie") = (state[idx[a]] = "zombie")
<1>t. /\ pc \in [Actors -> TaskPcs]
      /\ idx \in [Actors -> 1..N+1]
      /\ state \in [Pids -> States]
      /\ wait \in [Pids -> {"none", "enrolled"}]
  BY DEF TypeInv, PcTyped, DataTyped
<1>1. UNCHANGED <<onCpu, lockVars, killVars>>
  BY DEF Waking, WakeStep, ScanState, ScanMatch, WakePend, WakeClear,
     WakeReady, MakeReady, taskVars
<1>2. idx[a] \in 1..N+1 /\ (pc[a] \in WakePcs \ {"scan"} => idx[a] \in Pids)
  BY <1>t, NAssumption DEF TypeInv, PcTyped, Pids
<1>3. \A b \in Actors \ {a} : pc'[b] = pc[b] /\ idx'[b] = idx[b]
  BY <1>t DEF Waking, WakeStep, ScanState, ScanMatch, WakePend, WakeClear,
     WakeReady, MakeReady, Go, NextSlot
<1> USE <1>t DEF At, Go, taskVars
<1>4. CASE ScanState(a)
  <2>1. pc[a] = "scan" /\ idx[a] \in Pids /\ UNCHANGED <<state, wait>>
    BY <1>4, <1>2, NAssumption DEF ScanState, Pids
  <2>2. \/ /\ state[idx[a]] # "sleeping"
           /\ idx'[a] = idx[a] + 1 /\ pc'[a] = "scan"
        \/ pc'[a] = "match" /\ idx'[a] = idx[a]
    BY <1>4 DEF ScanState, NextSlot
  <2> QED BY <1>1, <1>3, <2>1, <2>2 DEF WakePcs
<1>5. CASE ScanMatch(a)
  <2>1. pc[a] = "match" /\ idx[a] \in Pids /\ UNCHANGED <<state, wait>>
    BY <1>5, <1>2 DEF ScanMatch, WakePcs
  <2>2. \/ /\ wait[idx[a]] # "enrolled"
           /\ idx'[a] = idx[a] + 1 /\ pc'[a] = "scan"
        \/ pc'[a] = "pend" /\ idx'[a] = idx[a]
    BY <1>5 DEF ScanMatch, NextSlot
  <2> QED BY <1>1, <1>3, <2>1, <2>2 DEF WakePcs
<1>6. CASE WakePend(a)
  <2>1. pc[a] = "pend" /\ idx[a] \in Pids /\ UNCHANGED <<state, wait>>
        /\ pc'[a] = "clear" /\ idx'[a] = idx[a]
    BY <1>6, <1>2 DEF WakePend, WakePcs
  <2> QED BY <1>1, <1>3, <2>1 DEF WakePcs
<1>7. CASE WakeClear(a)
  <2>1. /\ pc[a] = "clear" /\ idx[a] \in Pids /\ state' = state
        /\ pc'[a] = "makeReady" /\ idx'[a] = idx[a]
    BY <1>7, <1>2 DEF WakeClear, WakePcs
  <2>2. wait'[idx[a]] = "none" /\ \A q \in Pids \ {idx[a]} : wait'[q] = wait[q]
    BY <1>7, <2>1 DEF WakeClear
  <2> QED BY <1>1, <1>3, <2>1, <2>2 DEF WakePcs
<1>8. CASE WakeReady(a)
  <2>1. /\ pc[a] = "makeReady" /\ idx[a] \in Pids /\ wait' = wait
        /\ pc'[a] = "scan" /\ idx'[a] = idx[a] + 1
    BY <1>8, <1>2 DEF WakeReady, MakeReady, NextSlot, WakePcs
  <2>2. /\ state'[idx[a]] # "sleeping"
        /\ (state'[idx[a]] = "zombie") = (state[idx[a]] = "zombie")
        /\ \A q \in Pids \ {idx[a]} : state'[q] = state[q]
    BY <1>8, <2>1 DEF WakeReady, MakeReady
  <2> QED BY <1>1, <1>3, <2>1, <2>2 DEF WakePcs
<1> QED BY <1>4, <1>5, <1>6, <1>7, <1>8 DEF Waking, WakeStep

\* What a task does to the lock of its own accord: it is live, it moves no scan,
\* and once it waits it is listed among the sleepers with a fresh `seen`.  A
\* release outdates every `seen` and starts a scan if anybody sleeps.
LEMMA LockEffect ==
  ASSUME TypeInv, TornInv, NEW p \in Pids,
         \/ \E m \in Modes : Request(p, m)
         \/ TryAcquireRead(p)
         \/ Acquire(p)
         \/ Drop(p)
  PROVE  /\ p \notin torn /\ onCpu[p] /\ pc[p] \in {"idle", "acquire", "cs"}
         /\ \A a \in Actors \ {p} : pc'[a] = pc[a]
         /\ UNCHANGED <<taskVars, idx, killVars>>
         /\ sleepers \ {p} \subseteq sleepers' /\ sleepers' \subseteq sleepers \cup {p}
         /\ \/ pc'[p] \in {"acquire", "cs"} /\ UNCHANGED seqSeen
            \/ pc'[p] = "test" /\ p \in sleepers' /\ seqSeen' = seqSeen \cup {p}
            \/ pc'[p] = "scan" /\ sleepers' = sleepers /\ seqSeen' = {}
            \/ pc'[p] = "idle" /\ sleepers = {} /\ sleepers' = {} /\ seqSeen' = {}
<1>t. pc \in [Actors -> TaskPcs]
  BY DEF TypeInv, PcTyped
<1>1. pc[p] \in {"idle", "acquire", "cs"} /\ Runs(p)
  BY DEF Request, TryAcquireRead, Acquire, AcquireRead, AcquireWrite, Drop, At
<1>2. p \notin torn /\ onCpu[p]
  BY <1>1, LiveRuns, ActorFacts DEF Runs, WakePcs
<1>3. /\ \A a \in Actors \ {p} : pc'[a] = pc[a]
      /\ UNCHANGED <<taskVars, idx, killVars>>
  BY <1>t DEF Request, TryAcquireRead, Acquire, AcquireRead, AcquireWrite, Drop,
     Go, killVars
<1> USE <1>t, ActorFacts DEF Go
<1>4. CASE Drop(p)
  BY <1>1, <1>2, <1>3, <1>4 DEF Drop, MustWake, Bump
<1>5. CASE (\E m \in Modes : Request(p, m)) \/ TryAcquireRead(p)
  <2>1. pc'[p] \in {"acquire", "cs"} /\ UNCHANGED <<sleepers, seqSeen>>
    BY <1>5 DEF Request, TryAcquireRead
  <2> QED BY <1>1, <1>2, <1>3, <2>1
<1>6. CASE Acquire(p)
  <2>1. \/ pc'[p] = "cs" /\ sleepers' = sleepers \ {p} /\ UNCHANGED seqSeen
        \/ /\ pc'[p] = "test" /\ sleepers' = sleepers \cup {p}
           /\ seqSeen' = seqSeen \cup {p}
    BY <1>6 DEF Acquire, AcquireRead, AcquireWrite
  <2> QED BY <1>1, <1>2, <1>3, <2>1
<1> QED BY <1>4, <1>5, <1>6

\* What a teardown's dropPid does: the dying task leaves the list of sleepers,
\* every `seen` is outdated and a scan begins if anybody else sleeps.
LEMMA DropPidEffect ==
  ASSUME TypeInv, TornInv, VictimInv, NEW a \in Actors, DropPid(a)
  PROVE  /\ pc[a] = "teardown"
         /\ \A b \in Actors \ {a} : pc'[b] = pc[b] /\ idx'[b] = idx[b]
         /\ idx'[a] = 1
         /\ UNCHANGED <<taskVars, torn, exiting, mode>>
         /\ Dying(a) \in torn \cup {NoOwner}
         /\ sleepers' = sleepers \ {Dying(a)}
         /\ readers' \subseteq readers /\ writersWaiting' \subseteq writersWaiting
         /\ writer' \in {writer, NoOwner}
         /\ \/ pc'[a] = "scan" /\ seqSeen' = {} /\ UNCHANGED victim
            \/ /\ pc'[a] = IF a = Killer THEN "idle" ELSE "exit"
               /\ sleepers' = {} /\ seqSeen' \in {seqSeen, {}}
               /\ victim' = IF a = Killer THEN NoOwner ELSE victim
<1>1. /\ pc \in [Actors -> TaskPcs] /\ idx \in [Actors -> 1..N+1]
      /\ At(a, "teardown")
  BY DEF TypeInv, PcTyped, DropPid
<1>2. Dying(a) \in torn \cup {NoOwner}
  BY <1>1, ActorFacts DEF Dying, TornInv, VictimInv, Actors, Pids, Killer, At
<1>3. /\ readers' \subseteq readers /\ writersWaiting' \subseteq writersWaiting
      /\ writer' \in {writer, NoOwner}
      /\ sleepers' = sleepers \ {Dying(a)}
  BY DEF DropPid, Forget
<1>4. \/ pc'[a] = "scan" /\ seqSeen' = {} /\ UNCHANGED victim
      \/ /\ pc'[a] = IF a = Killer THEN "idle" ELSE "exit"
         /\ sleepers' = {} /\ seqSeen' \in {seqSeen, {}}
         /\ victim' = IF a = Killer THEN NoOwner ELSE victim
  BY <1>1, <1>3 DEF DropPid, DropWakes, Bump, Go
<1>5. /\ \A b \in Actors \ {a} : pc'[b] = pc[b] /\ idx'[b] = idx[b]
      /\ idx'[a] = 1
  BY <1>1 DEF DropPid, Go, EndScan
<1>6. pc[a] = "teardown" /\ UNCHANGED <<taskVars, torn, exiting, mode>>
  BY <1>1 DEF DropPid, At
<1> QED BY <1>2, <1>3, <1>4, <1>5, <1>6

\* What the rest of a death does: an exit request changes only itself, a victim
\* off its CPU becomes the killer's, a task that finds its own exit request
\* starts its teardown, and the last step leaves its CPU a zombie.
LEMMA DeathEffect ==
  ASSUME TypeInv, TornInv, NEW p \in Pids,
         KillOffCpu(p) \/ SelfDestroy(p) \/ Exit(p)
  PROVE  /\ UNCHANGED <<wait, idx, lockVars, exiting>>
         /\ \A q \in Pids \ {p} : /\ pc'[q] = pc[q] /\ state'[q] = state[q]
                                  /\ onCpu'[q] = onCpu[q]
         /\ \/ /\ pc'[Killer] = "teardown" /\ victim' = p /\ pc'[p] = pc[p]
               /\ p \in exiting \ torn /\ torn' = torn \cup {p} /\ ~onCpu[p]
            \/ /\ pc'[p] = "teardown" /\ UNCHANGED <<state, victim>>
               /\ p \in exiting \ torn /\ torn' = torn \cup {p} /\ onCpu[p]
               /\ pc[p] \in {"yield", "idle", "cs"} \/ p \in Preemptible
               /\ pc'[Killer] = pc[Killer]
            \/ /\ pc[p] = "exit" /\ pc'[p] = "dead" /\ UNCHANGED <<torn, victim>>
               /\ pc'[Killer] = pc[Killer]
<1>t. /\ pc \in [Actors -> TaskPcs] /\ state \in [Pids -> States]
      /\ onCpu \in [Pids -> BOOLEAN]
  BY DEF TypeInv, PcTyped, DataTyped
<1> USE <1>t, ActorFacts DEF Go, killVars, taskVars
<1>1. CASE KillOffCpu(p)
  BY <1>1 DEF KillOffCpu
<1>2. CASE SelfDestroy(p)
  BY <1>2 DEF SelfDestroy, MaySchedule
<1>3. CASE Exit(p)
  BY <1>3 DEF Exit, At
<1> QED BY <1>1, <1>2, <1>3

\* What a dispatch, a preemption or an exit request does: nobody moves in the
\* code.  A task is dispatched only from .ready and with its wait fields clear,
\* and preempted only if it neither sleeps nor is enrolled.
LEMMA SchedEffect ==
  ASSUME TypeInv, TornInv, NEW p \in Pids,
         DispatchTask(p) \/ PreemptTask(p) \/ RequestKill(p)
  PROVE  /\ UNCHANGED <<pc, idx, wait, lockVars, torn, victim>>
         /\ \A q \in Pids : (state'[q] = "zombie") = (state[q] = "zombie")
         /\ \A q \in Pids :
              \/ state'[q] = state[q] /\ onCpu'[q] = onCpu[q]
              \/ /\ wait[q] = "none" /\ state[q] # "sleeping"
                 /\ state'[q] # "sleeping"
                 /\ onCpu'[q] \/ pc[q] \in {"idle", "cs"} \/ q \in Preemptible
<1>t. /\ pc \in [Actors -> TaskPcs] /\ state \in [Pids -> States]
      /\ onCpu \in [Pids -> BOOLEAN]
  BY DEF TypeInv, PcTyped, DataTyped
<1>1. UNCHANGED <<pc, idx, wait, lockVars, torn, victim>>
  BY DEF DispatchTask, PreemptTask, RequestKill, Dispatch, Preempt, killVars,
     waitVars
<1>2. CASE RequestKill(p)
  BY <1>1, <1>2 DEF RequestKill, waitVars
<1>3. CASE DispatchTask(p)
  <2>1. /\ wait[p] = "none" /\ state[p] = "ready" /\ state'[p] = "running"
        /\ onCpu'[p]
        /\ \A q \in Pids \ {p} : state'[q] = state[q] /\ onCpu'[q] = onCpu[q]
    BY <1>3, <1>t DEF DispatchTask, Dispatch
  <2> QED BY <1>1, <2>1
<1>4. CASE PreemptTask(p)
  <2>1. /\ wait[p] = "none" /\ state[p] # "sleeping"
        /\ state'[p] \in {"ready", state[p]}
        /\ (state'[p] = "zombie") = (state[p] = "zombie")
        /\ pc[p] \in {"idle", "cs"} \/ p \in Preemptible
        /\ \A q \in Pids \ {p} : state'[q] = state[q] /\ onCpu'[q] = onCpu[q]
    BY <1>4, <1>t DEF PreemptTask, MaySchedule, Preempt, MayPreempt
  <2> QED BY <1>1, <2>1
<1> QED BY <1>2, <1>3, <1>4

\* Every step starts its scans at the first slot and lists whoever waits.
LEMMA WaitStep ==
  TypeInv /\ TornInv /\ VictimInv /\ WaitInv /\ [Next]_vars => WaitInv'
<1> SUFFICES ASSUME TypeInv, TornInv, VictimInv, WaitInv, [Next]_vars
             PROVE  WaitInv'
  OBVIOUS
<1>t. torn \subseteq Pids /\ sleepers \subseteq Pids /\ NoOwner \notin Pids
  BY DEF TypeInv, DataTyped, NoOwner, Pids
<1> USE ActorFacts DEF lockVars, killVars
<1>1. ASSUME NEW p \in Pids,
             \/ \E m \in Modes : Request(p, m)
             \/ TryAcquireRead(p)
             \/ Acquire(p)
             \/ Drop(p)
      PROVE  WaitInv'
  <2>1. idx[p] = 1
    BY <1>1, LockEffect DEF WaitInv, WakePcs
  <2> QED BY <1>1, <2>1, LockEffect DEF WaitInv, BlockPcs
<1>2. ASSUME NEW p \in Pids, Blocking(p) PROVE WaitInv'
  <2>1. idx[p] = 1 /\ p \in sleepers
    BY <1>2, BlockingEffect DEF WaitInv, WakePcs, BlockPcs
  <2> QED BY <1>2, <2>1, BlockingEffect DEF WaitInv
<1>3. ASSUME NEW a \in Actors, Waking(a) PROVE WaitInv'
  BY <1>3, WakingEffect DEF WaitInv, WakePcs, BlockPcs
<1>4. ASSUME NEW a \in Actors, ScanDone(a) PROVE WaitInv'
  <2>1. pc \in [Actors -> TaskPcs] /\ idx \in [Actors -> 1..N+1]
    BY DEF TypeInv, PcTyped
  <2>2. /\ pc'[a] \in {"exit", "idle"} /\ idx'[a] = 1
        /\ \A b \in Actors \ {a} : pc'[b] = pc[b] /\ idx'[b] = idx[b]
        /\ UNCHANGED <<torn, sleepers>>
    BY <1>4, <2>1 DEF ScanDone, Go, EndScan
  <2> QED BY <2>2 DEF WaitInv, BlockPcs
<1>5. ASSUME NEW a \in Actors, DropPid(a) PROVE WaitInv'
  <2> HIDE DEF Dying
  <2> QED BY <1>5, <1>t, DropPidEffect DEF WaitInv, BlockPcs
<1>6. ASSUME NEW p \in Pids, KillOffCpu(p) \/ SelfDestroy(p) \/ Exit(p)
      PROVE  WaitInv'
  BY <1>6, DeathEffect DEF WaitInv, BlockPcs, WakePcs, Actors, Pids, Killer
<1>7. ASSUME NEW p \in Pids,
             DispatchTask(p) \/ PreemptTask(p) \/ RequestKill(p)
      PROVE  WaitInv'
  BY <1>7, SchedEffect DEF WaitInv
<1>8. CASE UNCHANGED vars
  BY <1>8 DEF vars, waitVars, WaitInv
<1> QED
  BY <1>1, <1>2, <1>3, <1>4, <1>5, <1>6, <1>7, <1>8
  DEF Next, TaskStep, KillerStep

\* Every step leaves a waker on the way of every enrolled sleeper whose seq has
\* moved.
LEMMA RescueStep ==
  /\ TypeInv /\ TornInv /\ VictimInv /\ WaitInv /\ WaitInv'
  /\ RescueInv /\ [Next]_vars
  => RescueInv'
<1> SUFFICES ASSUME TypeInv, TornInv, VictimInv, WaitInv, WaitInv', RescueInv,
                    [Next]_vars,
                    NEW p \in Pids \ torn', Asleep(p)', p \notin seqSeen'
             PROVE  Rescued(p)'
  BY DEF RescueInv
<1>s. pc'[p] \in BlockPcs \cup {"resume"} /\ p \in sleepers'
  BY DEF Asleep, BlockPcs, WaitInv
<1>w. pc'[p] \in {"yield", "resume"} /\ state'[p] = "sleeping"
      /\ wait'[p] = "enrolled"
  BY DEF Asleep
<1>t. idx \in [Actors -> 1..N+1] /\ p \in 1..N
  BY DEF TypeInv, PcTyped, Pids
\* The same wakers are still on their way.
<1>k. ASSUME p \notin torn, Asleep(p), p \notin seqSeen,
             \A a \in Actors :
               AliveActor(a) /\ WillReach(a, p) => (AliveActor(a) /\ WillReach(a, p))'
      PROVE  Rescued(p)'
  BY <1>k DEF RescueInv, Rescued
\* A scan that begins, or a teardown, will reach everybody.
<1>n. ASSUME NEW a \in Actors, a = Killer \/ state'[a] # "zombie",
             pc'[a] = "teardown" \/ (pc'[a] = "scan" /\ idx'[a] = 1)
      PROVE  Rescued(p)'
  BY <1>n, <1>t DEF Rescued, AliveActor, WillReach, WakePcs
\* Who runs is no zombie.
<1>z. \A r \in Pids : onCpu[r] => state[r] # "zombie"
  BY DEF TornInv
<1> USE ActorFacts DEF lockVars, killVars, taskVars
<1>1. ASSUME NEW r \in Pids,
             \/ \E m \in Modes : Request(r, m)
             \/ TryAcquireRead(r)
             \/ Acquire(r)
             \/ Drop(r)
      PROVE  Rescued(p)'
  <2>1. /\ onCpu[r] /\ pc[r] \in {"idle", "acquire", "cs"}
        /\ \A a \in Actors \ {r} : pc'[a] = pc[a]
        /\ UNCHANGED <<taskVars, idx, killVars>>
    BY <1>1, LockEffect
  <2>2. CASE pc'[r] = "scan"
    <3>1. idx'[r] = 1 /\ state'[r] # "zombie"
      BY <2>1, <1>z DEF WaitInv, WakePcs
    <3> QED BY <3>1, <2>2, <1>n
  <2>3. CASE pc'[r] # "scan"
    <3>1. p # r /\ (seqSeen' = seqSeen \/ seqSeen' = seqSeen \cup {r})
      BY <1>1, <1>s, <1>w, <2>3, LockEffect
    <3>2. p \notin torn /\ Asleep(p) /\ p \notin seqSeen
      BY <3>1, <2>1, <1>w DEF Asleep
    <3>3. \A a \in Actors : AliveActor(a) /\ WillReach(a, p)
                              => (AliveActor(a) /\ WillReach(a, p))'
      BY <2>1 DEF AliveActor, WillReach, WakePcs
    <3> QED BY <3>2, <3>3, <1>k
  <2> QED BY <2>2, <2>3
<1>2. ASSUME NEW r \in Pids, Blocking(r) PROVE Rescued(p)'
  <2>1. /\ pc[r] \in BlockPcs \cup {"resume"}
        /\ \A a \in Actors \ {r} : pc'[a] = pc[a]
        /\ \A q \in Pids \ {r} : state'[q] = state[q] /\ wait'[q] = wait[q]
        /\ UNCHANGED <<idx, seqSeen, torn>>
    BY <1>2, BlockingEffect
  <2>2. Asleep(p)
    <3>1. CASE p = r
      BY <1>2, <1>w, <3>1, <2>1, BlockingEffect DEF Asleep
    <3>2. CASE p # r
      BY <1>w, <3>2, <2>1 DEF Asleep
    <3> QED BY <3>1, <3>2
  <2>3. \A a \in Actors : AliveActor(a) /\ WillReach(a, p)
                            => (AliveActor(a) /\ WillReach(a, p))'
    BY <2>1 DEF AliveActor, WillReach, WakePcs, BlockPcs, Actors, Pids, Killer
  <2> QED BY <2>1, <2>2, <2>3, <1>k
<1>3. ASSUME NEW a \in Actors, Waking(a) PROVE Rescued(p)'
  <2>1. /\ pc[a] \in WakePcs /\ pc'[a] \in WakePcs /\ idx[a] \in Pids
        /\ \A b \in Actors \ {a} : pc'[b] = pc[b] /\ idx'[b] = idx[b]
        /\ UNCHANGED <<seqSeen, torn>>
    BY <1>3, WakingEffect
  <2>2. Asleep(p)
    <3>1. p # a /\ pc[p] = pc'[p]
      BY <2>1, <1>w DEF WakePcs
    <3>2. state[p] = "sleeping" /\ wait[p] = "enrolled"
      BY <1>3, <1>w, WakingEffect
    <3> QED BY <3>1, <3>2, <1>w DEF Asleep
  <2>3. \A b \in Actors : (b = Killer \/ (b \in Pids /\ state[b] # "zombie"))
                        => (b = Killer \/ state'[b] # "zombie")
    BY <1>3, WakingEffect DEF WakePcs
  <2>4. WillReach(a, p) => WillReach(a, p)'
    <3>1. idx[a] <= p => idx'[a] <= p
      BY <1>3, <2>1, <2>2, <1>t, <1>w, WakingEffect DEF Asleep, Pids
    <3> QED BY <3>1, <2>1 DEF WillReach, WakePcs
  <2>5. \A b \in Actors : AliveActor(b) /\ WillReach(b, p)
                            => (AliveActor(b) /\ WillReach(b, p))'
    BY <2>1, <2>3, <2>4 DEF AliveActor, WillReach, Actors, Pids, Killer
  <2> QED BY <2>1, <2>2, <2>5, <1>k
<1>4. ASSUME NEW a \in Actors, ScanDone(a) PROVE Rescued(p)'
  <2>1. pc \in [Actors -> TaskPcs]
    BY DEF TypeInv, PcTyped
  <2>2. /\ pc[a] = "scan" /\ idx[a] > N /\ pc'[a] \in {"exit", "idle"}
        /\ \A b \in Actors \ {a} : pc'[b] = pc[b] /\ idx'[b] = idx[b]
        /\ UNCHANGED <<torn, state, wait, seqSeen>>
    BY <1>4, <2>1, <1>t DEF ScanDone, Go, EndScan, At
  <2>3. Asleep(p) /\ ~WillReach(a, p)
    BY <2>2, <1>w, <1>t, NAssumption DEF Asleep, WillReach, WakePcs
  <2>4. \A b \in Actors : AliveActor(b) /\ WillReach(b, p)
                            => (AliveActor(b) /\ WillReach(b, p))'
    BY <2>2, <2>3 DEF AliveActor, WillReach
  <2> QED BY <2>2, <2>3, <2>4, <1>k
<1>5. ASSUME NEW a \in Actors, DropPid(a) PROVE Rescued(p)'
  <2>1. a = Killer \/ state'[a] # "zombie"
    BY <1>5, <1>z DEF DropPid, At, Runs, Killer
  <2>2. pc'[a] = "scan" /\ idx'[a] = 1
    BY <1>5, <1>s, DropPidEffect
  <2> QED BY <2>1, <2>2, <1>n
<1>6. ASSUME NEW r \in Pids, KillOffCpu(r) \/ SelfDestroy(r) PROVE Rescued(p)'
  <2>1. CASE KillOffCpu(r)
    <3>1. pc'[Killer] = "teardown"
      BY <2>1, <1>6 DEF KillOffCpu, Go, TypeInv, PcTyped
    <3> QED BY <3>1, <1>n
  <2>2. CASE SelfDestroy(r)
    <3>1. pc'[r] = "teardown" /\ state'[r] # "zombie"
      BY <2>2, <1>z DEF SelfDestroy, Go, TypeInv, PcTyped
    <3> QED BY <3>1, <1>n
  <2> QED BY <1>6, <2>1, <2>2
<1>7. ASSUME NEW r \in Pids, Exit(r) PROVE Rescued(p)'
  <2>1. /\ pc[r] = "exit" /\ pc'[r] = "dead"
        /\ \A a \in Actors \ {r} : pc'[a] = pc[a]
        /\ \A q \in Pids \ {r} : state'[q] = state[q]
        /\ UNCHANGED <<wait, idx, seqSeen, torn>>
    BY <1>7 DEF Exit, At, Go, TypeInv, PcTyped, DataTyped
  <2>2. Asleep(p)
    BY <2>1, <1>w DEF Asleep
  <2>3. \A a \in Actors : AliveActor(a) /\ WillReach(a, p)
                            => (AliveActor(a) /\ WillReach(a, p))'
    BY <2>1 DEF AliveActor, WillReach, WakePcs, Actors, Pids, Killer
  <2> QED BY <2>1, <2>2, <2>3, <1>k
<1>8. ASSUME NEW r \in Pids,
             DispatchTask(r) \/ PreemptTask(r) \/ RequestKill(r)
      PROVE  Rescued(p)'
  <2>1. /\ UNCHANGED <<pc, idx, seqSeen, torn>>
        /\ \A q \in Pids : (state'[q] = "zombie") = (state[q] = "zombie")
        /\ wait[p] = "enrolled" /\ state[p] = "sleeping"
    BY <1>8, <1>w, SchedEffect
  <2>2. Asleep(p)
    BY <2>1, <1>w DEF Asleep
  <2>3. \A a \in Actors : AliveActor(a) /\ WillReach(a, p)
                            => (AliveActor(a) /\ WillReach(a, p))'
    BY <2>1 DEF AliveActor, WillReach, Actors, Pids, Killer
  <2> QED BY <2>1, <2>2, <2>3, <1>k
<1>9. CASE UNCHANGED vars
  <2>1. UNCHANGED <<pc, idx, seqSeen, torn, state, wait>>
    BY <1>9 DEF vars, waitVars
  <2>2. Asleep(p)
    BY <2>1, <1>w DEF Asleep
  <2> QED BY <2>1, <2>2, <1>k DEF AliveActor, WillReach
<1> QED
  BY <1>1, <1>2, <1>3, <1>4, <1>5, <1>6, <1>7, <1>8, <1>9
  DEF Next, TaskStep, KillerStep

\* The initial state has nobody waiting and no scan under way.
LEMMA InitWait == Init => WaitInv /\ RescueInv
  BY NAssumption, ActorFacts
  DEF Init, WaitInit, WaitInv, RescueInv, Asleep, BlockPcs

\* A release reaches every task that is asleep and enrolled: if seq has moved
\* since the task read it, a scan that has not passed it, a wake() of it or a
\* teardown that will scan is on its way.  Any number of threads may read,
\* write, be preempted inside the lock's code and be killed at any point of it,
\* wakers included.
THEOREM EnrolledAreWoken == Spec => []RescueInv
<1>1. Init => WaitInv /\ RescueInv
  BY InitWait
<1>2. IInv /\ WaitInv /\ [Next]_vars => WaitInv'
  BY WaitStep DEF IInv
<1>3. IInv /\ WaitInv /\ WaitInv' /\ RescueInv /\ [Next]_vars => RescueInv'
  BY RescueStep DEF IInv
<1> QED BY <1>1, <1>2, <1>3, IInvHolds, PTL DEF Spec

-----------------------------------------------------------------------------
(* Then what holds of two threads.  A task whose enrolment a stale wake() has  *)
(* half undone (.ready and enrolled, or .sleeping and not) is passed over by   *)
(* every later scan; three users of the lock reach that state and lose a wake  *)
(* in it.  Two cannot: while one of them scans, or while the killer scans for  *)
(* it, nobody holds the lock or waits to write, so the other never parks.      *)

Users == Readers \cup Writers \cup Killable

\* The lock's users, and the threads that may die with a dropPid on it, are at
\* most two, in a process table of any size.
TwoThreads == \E p, q \in Pids : Users \subseteq {p, q}

\* A wake(), once begun, is finished: who may be preempted in it is not killed.
WakersFinish == Preemptible \cap Killable = {}

\* Who is where: only users are in the lock's code; the killer's victim is torn
\* and off its CPU; a waiting writer that lives is in its acquire; a scan is
\* off its CPU only by preemption.
RoleInv ==
  /\ exiting \subseteq Killable
  /\ pc[Killer] # "idle" =>
       victim \in torn /\ ~onCpu[victim] /\ pc[victim] # "teardown"
  /\ \A p \in Pids : pc[p] # "idle" => p \in Users
  /\ \A p \in writersWaiting \ torn :
       mode[p] = "write" /\ pc[p] \in BlockPcs \cup {"acquire", "resume"}
  /\ \A p \in Pids : pc[p] \in WakePcs /\ ~onCpu[p] => p \in Preemptible

\* While anybody else scans, a task's `seen` is outdated.
ScanInv ==
  \A p \in Pids \ torn, a \in Actors :
    a # p /\ pc[a] \in WakePcs => p \notin seqSeen

\* a is about to make p .ready, its wait fields cleared.
Hits(a, p) == pc[a] = "makeReady" /\ idx[a] = p

\* p's enrolment is not half undone, unless the wake() that undoes it is on its
\* way.
Whole(p) ==
  /\ pc[p] = "sleep" /\ p \in seqSeen => wait[p] = "enrolled"
  /\ pc[p] = "recheck" /\ p \in seqSeen =>
       wait[p] = "enrolled" /\ state[p] = "sleeping"
  /\ pc[p] \in {"yield", "resume"} /\ wait[p] = "enrolled" =>
       state[p] = "sleeping" /\ \A a \in Actors : ~Hits(a, p)
  /\ pc[p] \in {"yield", "resume"} /\ wait[p] = "none" /\ state[p] = "sleeping"
       => \E a \in Actors : AliveActor(a) /\ Hits(a, p)

HandInv == \A p \in Pids \ torn : Whole(p)

\* Every step keeps everybody in his role.
LEMMA RoleStep ==
  TypeInv /\ TornInv /\ VictimInv /\ Exclusion /\ RoleInv /\ [Next]_vars => RoleInv'
<1> SUFFICES ASSUME TypeInv, TornInv, VictimInv, Exclusion, RoleInv, [Next]_vars
             PROVE  RoleInv'
  OBVIOUS
<1>t. /\ pc \in [Actors -> TaskPcs] /\ mode \in [Pids -> Modes]
      /\ torn \subseteq Pids /\ writersWaiting \subseteq Pids
      /\ victim \in Pids \cup {NoOwner} /\ NoOwner \notin Pids
  BY DEF TypeInv, PcTyped, DataTyped, NoOwner, Pids
<1>x. torn \subseteq exiting
  BY DEF TornInv
<1> USE ActorFacts DEF lockVars, killVars, taskVars
<1>1. ASSUME NEW p \in Pids,
             \/ \E m \in Modes : Request(p, m)
             \/ TryAcquireRead(p)
             \/ Acquire(p)
             \/ Drop(p)
      PROVE  RoleInv'
  <2>1. /\ p \notin torn /\ onCpu[p] /\ pc[p] \in {"idle", "acquire", "cs"}
        /\ \A a \in Actors \ {p} : pc'[a] = pc[a]
        /\ UNCHANGED <<taskVars, killVars>>
    BY <1>1, LockEffect
  <2>2. p \in Users
    BY <1>1 DEF RoleInv, Request, TryAcquireRead, Acquire, AcquireRead,
       AcquireWrite, Drop, At, Users
  <2>3. /\ \A q \in Pids \ {p} : mode'[q] = mode[q]
        /\ \/ p \notin writersWaiting' /\ writersWaiting' \subseteq writersWaiting
           \/ /\ writersWaiting' \subseteq writersWaiting \cup {p}
              /\ mode'[p] = "write" /\ pc'[p] = "test"
    <3>1. CASE (\E m \in Modes : Request(p, m)) \/ TryAcquireRead(p)
      <4>1. pc[p] = "idle" /\ writersWaiting' = writersWaiting
            /\ \A q \in Pids \ {p} : mode'[q] = mode[q]
        BY <3>1, <1>t DEF Request, TryAcquireRead, At
      <4> QED BY <4>1, <2>1 DEF RoleInv, BlockPcs
    <3>2. CASE AcquireRead(p)
      BY <3>2, <2>1 DEF AcquireRead, RoleInv
    <3>3. CASE AcquireWrite(p)
      BY <3>3, <1>t DEF AcquireWrite, Go
    <3>4. CASE Drop(p)
      <4>1. pc[p] = "cs" /\ UNCHANGED <<writersWaiting, mode>>
        BY <3>4 DEF Drop, At
      <4> QED BY <4>1, <2>1 DEF RoleInv, BlockPcs
    <3> QED BY <1>1, <3>1, <3>2, <3>3, <3>4 DEF Acquire
  <2>4. pc'[Killer] # "idle" =>
          (victim \in torn /\ ~onCpu[victim] /\ pc[victim] # "teardown")'
    BY <2>1, <1>t DEF RoleInv
  <2>5. \A q \in Pids : pc'[q] # "idle" => q \in Users
    BY <2>1, <2>2 DEF RoleInv
  <2>6. \A q \in writersWaiting' \ torn' :
          mode'[q] = "write" /\ pc'[q] \in BlockPcs \cup {"acquire", "resume"}
    BY <2>1, <2>3, <1>t DEF RoleInv, BlockPcs
  <2>7. \A q \in Pids : pc'[q] \in WakePcs /\ ~onCpu'[q] => q \in Preemptible
    BY <2>1 DEF RoleInv
  <2> QED BY <2>1, <2>4, <2>5, <2>6, <2>7 DEF RoleInv
<1>2. ASSUME NEW p \in Pids, Blocking(p) PROVE RoleInv'
  <2>1. /\ p \notin torn
        /\ pc[p] \in BlockPcs \cup {"resume"}
        /\ pc'[p] \in BlockPcs \cup {"acquire", "resume"}
        /\ \A a \in Actors \ {p} : pc'[a] = pc[a]
        /\ \A q \in Pids \ {p} : onCpu'[q] = onCpu[q]
        /\ UNCHANGED <<lockVars, killVars>>
    BY <1>2, BlockingEffect
  <2>2. p \in Users
    BY <2>1 DEF RoleInv, BlockPcs
  <2> QED BY <2>1, <2>2, <1>t DEF RoleInv, BlockPcs, WakePcs
<1>3. ASSUME NEW a \in Actors, Waking(a) PROVE RoleInv'
  <2>1. /\ pc[a] \in WakePcs /\ pc'[a] \in WakePcs
        /\ \A b \in Actors \ {a} : pc'[b] = pc[b]
        /\ UNCHANGED <<onCpu, lockVars, killVars>>
    BY <1>3, WakingEffect
  <2> QED BY <2>1, <1>t DEF RoleInv, WakePcs, BlockPcs
<1>4. ASSUME NEW a \in Actors, ScanDone(a) PROVE RoleInv'
  <2>1. /\ pc[a] = "scan"
        /\ pc'[a] = IF a \in torn THEN "exit" ELSE "idle"
        /\ \A b \in Actors \ {a} : pc'[b] = pc[b]
        /\ UNCHANGED <<onCpu, torn, exiting, lockVars>>
        /\ victim' = IF a = Killer THEN NoOwner ELSE victim
    BY <1>4, <1>t DEF ScanDone, Go, At
  <2>2. Killer \notin torn
    BY <1>t
  <2> QED BY <2>1, <2>2, <1>t DEF RoleInv, WakePcs, BlockPcs
<1>5. ASSUME NEW a \in Actors, DropPid(a) PROVE RoleInv'
  <2>1. /\ pc[a] = "teardown"
        /\ \A b \in Actors \ {a} : pc'[b] = pc[b]
        /\ UNCHANGED <<onCpu, torn, exiting, mode>>
        /\ writersWaiting' \subseteq writersWaiting
        /\ \/ pc'[a] = "scan" /\ UNCHANGED victim
           \/ /\ pc'[a] = IF a = Killer THEN "idle" ELSE "exit"
              /\ victim' = IF a = Killer THEN NoOwner ELSE victim
    BY <1>5, DropPidEffect
  <2>2. a \in Pids => onCpu[a]
    BY <1>5 DEF DropPid, At, Runs
  <2>3. (a \in Pids => a \in torn) /\ (a # Killer => a \in Pids)
    BY <2>1 DEF TornInv, Actors, Pids, Killer
  <2> QED BY <2>1, <2>2, <2>3, <1>t DEF RoleInv, WakePcs, BlockPcs
<1>6. ASSUME NEW p \in Pids, KillOffCpu(p) PROVE RoleInv'
  <2>1. /\ UNCHANGED <<onCpu, exiting, writersWaiting, mode>>
        /\ torn' = torn \cup {p} /\ victim' = p /\ ~onCpu[p] /\ p \notin torn
        /\ \A q \in Pids : pc'[q] = pc[q]
    BY <1>6, <1>t DEF KillOffCpu, Go
  <2>2. pc[p] # "teardown"
    BY <2>1 DEF TornInv
  <2> QED BY <2>1, <2>2, <1>t DEF RoleInv
<1>7. ASSUME NEW p \in Pids, SelfDestroy(p) PROVE RoleInv'
  <2>1. /\ UNCHANGED <<onCpu, exiting, writersWaiting, mode, victim>>
        /\ torn' = torn \cup {p} /\ onCpu[p] /\ p \in exiting
        /\ pc'[p] = "teardown" /\ \A a \in Actors \ {p} : pc'[a] = pc[a]
    BY <1>7, <1>t DEF SelfDestroy, Go
  <2> QED BY <2>1, <1>t DEF RoleInv, WakePcs, Users
<1>8. ASSUME NEW p \in Pids, Exit(p) PROVE RoleInv'
  <2>1. /\ UNCHANGED <<exiting, writersWaiting, mode, victim, torn>>
        /\ pc[p] = "exit" /\ onCpu[p] /\ ~onCpu'[p]
        /\ \A q \in Pids \ {p} : onCpu'[q] = onCpu[q]
        /\ pc'[p] = "dead" /\ \A a \in Actors \ {p} : pc'[a] = pc[a]
    BY <1>8, <1>t DEF Exit, Go, At, Runs, TypeInv, DataTyped
  <2>2. p \in torn
    BY <2>1 DEF TornInv
  <2> QED BY <2>1, <2>2, <1>t DEF RoleInv, WakePcs
<1>9. ASSUME NEW p \in Pids,
             DispatchTask(p) \/ PreemptTask(p) \/ RequestKill(p)
      PROVE  RoleInv'
  <2>1. /\ UNCHANGED <<pc, lockVars, torn, victim>>
        /\ \A q \in Pids : \/ onCpu'[q] = onCpu[q] \/ onCpu'[q]
                           \/ pc[q] \in {"idle", "cs"} \/ q \in Preemptible
    BY <1>9, SchedEffect
  <2>2. exiting' \subseteq Killable
    BY <1>9 DEF DispatchTask, PreemptTask, RequestKill, RoleInv
  <2>3. victim \in torn => onCpu'[victim] = onCpu[victim] \/ ~onCpu'[victim]
    BY <1>9, <1>t, <1>x DEF DispatchTask, PreemptTask, RequestKill, Dispatch,
       Preempt, waitVars, TypeInv, DataTyped
  <2> QED BY <2>1, <2>2, <2>3 DEF RoleInv, WakePcs
<1>10. CASE UNCHANGED vars
  BY <1>10 DEF vars, waitVars, RoleInv
<1> QED
  BY <1>1, <1>2, <1>3, <1>4, <1>5, <1>6, <1>7, <1>8, <1>9, <1>10
  DEF Next, TaskStep, KillerStep

\* The initial state has everybody outside the lock's code.
LEMMA InitRole == Init => RoleInv /\ ScanInv /\ HandInv
  BY ActorFacts
  DEF Init, WaitInit, RoleInv, ScanInv, HandInv, Whole, WakePcs

\* Of two threads, one that finds somebody else scanning gets the lock.
LEMMA NobodyElse ==
  ASSUME TwoThreads, WakersFinish, IInv, RoleInv,
         NEW p \in Pids \ torn, pc[p] = "acquire",
         NEW a \in Actors, a # p, pc[a] \in WakePcs
  PROVE  /\ readers = {} /\ writer = NoOwner
         /\ mode[p] = "read" => writersWaiting = {}
<1>t. /\ readers \subseteq Pids /\ writersWaiting \subseteq Pids
      /\ writer \in Pids \cup {NoOwner} /\ NoOwner \notin Pids
      /\ torn \subseteq Pids
  BY DEF IInv, TypeInv, DataTyped, NoOwner, Pids
<1>u. torn \subseteq Users
  BY DEF IInv, TornInv, RoleInv, Users
\* The other of the two is whoever scans, or whom the killer scans for.
<1>1. PICK d \in Pids : /\ d # p /\ Users \subseteq {p, d}
                        /\ d \in torn => Gone(d)
                        /\ d \notin torn => pc[d] \in WakePcs
  <2>1. p \in Users
    BY DEF RoleInv
  <2>2. CASE a = Killer
    <3>1. /\ victim \in torn /\ victim # p /\ pc[victim] # "teardown"
          /\ pc[Killer] # "teardown"
      BY <2>2 DEF RoleInv, WakePcs
    <3>2. Gone(victim) /\ victim \in Users
      BY <3>1, <1>u DEF Gone
    <3> QED BY <2>1, <3>1, <3>2, <1>t DEF TwoThreads
  <2>3. CASE a \in Pids
    <3>1. a \in Users
      BY <2>3 DEF RoleInv, WakePcs
    <3>2. a \in torn => onCpu[a]
      BY <2>3 DEF IInv, TornInv, RoleInv, WakersFinish
    <3>3. a \in torn => Gone(a)
      BY <3>2 DEF Gone, RoleInv, WakePcs
    <3> QED BY <2>1, <2>3, <3>1, <3>3 DEF TwoThreads
  <2> QED BY <2>2, <2>3 DEF Actors, Pids, Killer
<1>2. d \notin readers /\ writer # d /\ d \notin writersWaiting
  <2>1. CASE d \in torn
    BY <1>1, <2>1 DEF IInv, NoDeadHolder
  <2>2. CASE d \notin torn
    BY <1>1, <1>t, <2>2 DEF IInv, Exclusion, RoleInv, WakePcs, BlockPcs
  <2> QED BY <2>1, <2>2
<1>3. p \notin readers /\ writer # p
  BY <1>t DEF IInv, Exclusion
<1>4. readers \cup writersWaiting \cup ({writer} \ {NoOwner}) \subseteq Users
  <2>1. \A r \in readers \cup ({writer} \ {NoOwner}) : pc[r] = "cs" \/ r \in torn
    BY <1>t DEF IInv, Exclusion
  <2>2. \A r \in writersWaiting : pc[r] # "idle" \/ r \in torn
    BY DEF RoleInv, BlockPcs
  <2>3. \A r \in Pids : pc[r] # "idle" => r \in Users
    BY DEF RoleInv
  <2> QED BY <2>1, <2>2, <2>3, <1>t, <1>u
<1>5. mode[p] = "read" => p \notin writersWaiting
  BY DEF RoleInv
<1> QED BY <1>1, <1>2, <1>3, <1>4, <1>5, <1>t

\* Every step of two threads keeps whoever is not scanning from reading a fresh
\* seq while somebody else scans.
LEMMA ScanStep ==
  ASSUME TwoThreads, WakersFinish
  PROVE  IInv /\ RoleInv /\ ScanInv /\ [Next]_vars => ScanInv'
<1> SUFFICES ASSUME IInv, RoleInv, ScanInv, [Next]_vars,
                    NEW p \in Pids \ torn', NEW a \in Actors,
                    a # p, pc'[a] \in WakePcs
             PROVE  p \notin seqSeen'
  BY DEF ScanInv
<1>i. TypeInv /\ TornInv /\ VictimInv
  BY DEF IInv
<1>o. ASSUME torn \subseteq torn', pc[a] \in WakePcs, seqSeen' \subseteq seqSeen
      PROVE  p \notin seqSeen'
  BY <1>o DEF ScanInv
<1> USE <1>i, ActorFacts DEF lockVars, killVars, taskVars
<1>1. ASSUME NEW r \in Pids,
             \/ \E m \in Modes : Request(r, m)
             \/ TryAcquireRead(r)
             \/ Acquire(r)
             \/ Drop(r)
      PROVE  p \notin seqSeen'
  <2>1. /\ r \notin torn /\ \A b \in Actors \ {r} : pc'[b] = pc[b]
        /\ UNCHANGED torn
        /\ \/ pc'[r] \in {"acquire", "cs"} /\ UNCHANGED seqSeen
           \/ pc'[r] = "test" /\ seqSeen' = seqSeen \cup {r}
           \/ seqSeen' = {}
    BY <1>1, LockEffect
  <2>2. CASE pc'[r] \in {"acquire", "cs"} /\ UNCHANGED seqSeen
    <3>1. a # r
      BY <2>2 DEF WakePcs
    <3> QED BY <2>1, <2>2, <3>1, <1>o
  <2>3. CASE pc'[r] = "test" /\ seqSeen' = seqSeen \cup {r}
    <3>1. a # r /\ pc[a] \in WakePcs
      BY <2>1, <2>3 DEF WakePcs
    <3>2. r # p
      <4>1. SUFFICES ASSUME r = p PROVE FALSE
        OBVIOUS
      <4>2. ~(pc'[r] = "cs")
        BY <2>3
      <4>3. pc \in [Actors -> TaskPcs] /\ mode \in [Pids -> Modes]
        BY DEF TypeInv, PcTyped, DataTyped
      <4>4. Acquire(r) /\ pc[r] = "acquire"
        BY <1>1, <2>3, <4>3 DEF Request, TryAcquireRead, Drop, Go, Acquire,
           AcquireRead, AcquireWrite, At
      <4>5. /\ readers = {} /\ writer = NoOwner
            /\ mode[r] = "read" => writersWaiting = {}
        BY <4>1, <4>4, <3>1, <2>1, NobodyElse
      <4>6. pc'[r] = "cs"
        BY <4>3, <4>4, <4>5 DEF Acquire, AcquireRead, AcquireWrite, ReadFree,
           WriteFree, Go
      <4> QED BY <4>2, <4>6
    <3> QED BY <2>1, <2>3, <3>1, <3>2 DEF ScanInv
  <2>4. CASE seqSeen' = {}
    BY <2>4
  <2> QED BY <2>1, <2>2, <2>3, <2>4
<1>2. ASSUME NEW r \in Pids, Blocking(r) PROVE p \notin seqSeen'
  <2>1. /\ pc'[r] \in BlockPcs \cup {"acquire", "resume"}
        /\ \A b \in Actors \ {r} : pc'[b] = pc[b]
        /\ UNCHANGED <<torn, seqSeen>>
    BY <1>2, BlockingEffect
  <2>2. a # r
    BY <2>1 DEF WakePcs, BlockPcs
  <2> QED BY <2>1, <2>2, <1>o
<1>3. ASSUME NEW b \in Actors, Waking(b) PROVE p \notin seqSeen'
  <2>1. /\ pc[b] \in WakePcs /\ \A c \in Actors \ {b} : pc'[c] = pc[c]
        /\ UNCHANGED <<torn, seqSeen>>
    BY <1>3, WakingEffect
  <2> QED BY <2>1, <1>o
<1>4. ASSUME NEW b \in Actors, ScanDone(b) PROVE p \notin seqSeen'
  <2>1. /\ pc[b] = "scan" /\ \A c \in Actors \ {b} : pc'[c] = pc[c]
        /\ UNCHANGED <<torn, seqSeen>>
    BY <1>4 DEF ScanDone, At, Go, TypeInv, PcTyped
  <2> QED BY <2>1, <1>o DEF WakePcs
<1>5. ASSUME NEW b \in Actors, DropPid(b) PROVE p \notin seqSeen'
  <2>1. /\ \A c \in Actors \ {b} : pc'[c] = pc[c]
        /\ UNCHANGED torn
        /\ \/ seqSeen' = {}
           \/ pc'[b] \in {"idle", "exit"} /\ seqSeen' \subseteq seqSeen
    BY <1>5, DropPidEffect
  <2>2. seqSeen' = {} \/ a # b
    BY <2>1 DEF WakePcs
  <2> QED BY <2>1, <2>2, <1>o
<1>6. ASSUME NEW r \in Pids, KillOffCpu(r) \/ SelfDestroy(r) \/ Exit(r)
      PROVE  p \notin seqSeen'
  <2>1. torn \subseteq torn' /\ UNCHANGED seqSeen
    BY <1>6, DeathEffect
  <2>2. pc[a] \in WakePcs
    BY <1>6, DeathEffect DEF WakePcs, Actors, Pids, Killer
  <2> QED BY <2>1, <2>2, <1>o
<1>7. ASSUME NEW r \in Pids,
             DispatchTask(r) \/ PreemptTask(r) \/ RequestKill(r)
      PROVE  p \notin seqSeen'
  <2>1. UNCHANGED <<pc, seqSeen, torn>>
    BY <1>7, SchedEffect
  <2> QED BY <2>1, <1>o
<1>8. CASE UNCHANGED vars
  BY <1>8, <1>o DEF vars, waitVars
<1> QED
  BY <1>1, <1>2, <1>3, <1>4, <1>5, <1>6, <1>7, <1>8
  DEF Next, TaskStep, KillerStep

\* Every step of two threads keeps enrolments whole.
LEMMA HandStep ==
  ASSUME WakersFinish
  PROVE  /\ TypeInv /\ TornInv /\ VictimInv /\ RoleInv /\ ScanInv /\ HandInv
         /\ [Next]_vars
         => HandInv'
<1> SUFFICES ASSUME TypeInv, TornInv, VictimInv, RoleInv, ScanInv, HandInv,
                    [Next]_vars
             PROVE  HandInv'
  OBVIOUS
\* p stays where it is, and so does every wake() of it.
<1>k. ASSUME NEW p \in Pids \ torn,
             pc'[p] = pc[p], state'[p] = state[p], wait'[p] = wait[p],
             p \in seqSeen' => p \in seqSeen,
             \A a \in Actors : Hits(a, p)' = Hits(a, p),
             \A a \in Actors : AliveActor(a) /\ Hits(a, p) => AliveActor(a)'
      PROVE  Whole(p)'
  BY <1>k DEF HandInv, Whole
<1>t. /\ wait \in [Pids -> {"none", "enrolled"}]
      /\ wait' \in [Pids -> {"none", "enrolled"}]
  BY DataStep DEF TypeInv, DataTyped
<1>z. \A r \in Pids : onCpu[r] => state[r] # "zombie"
  BY DEF TornInv
<1> USE ActorFacts DEF lockVars, killVars, taskVars, Whole
<1>1. ASSUME NEW r \in Pids,
             \/ \E m \in Modes : Request(r, m)
             \/ TryAcquireRead(r)
             \/ Acquire(r)
             \/ Drop(r)
      PROVE  HandInv'
  <2>1. /\ r \notin torn /\ pc[r] \in {"idle", "acquire", "cs"}
        /\ pc'[r] \in {"acquire", "cs", "test", "scan", "idle"}
        /\ \A a \in Actors \ {r} : pc'[a] = pc[a]
        /\ UNCHANGED <<taskVars, idx, torn>>
        /\ seqSeen' \subseteq seqSeen \cup {r}
    BY <1>1, LockEffect
  <2>2. ASSUME NEW p \in Pids \ torn', p # r PROVE Whole(p)'
    <3>1. \A a \in Actors : /\ Hits(a, p)' = Hits(a, p)
                            /\ AliveActor(a) => AliveActor(a)'
      BY <2>1 DEF Hits, AliveActor
    <3> QED BY <2>1, <2>2, <3>1, <1>k
  <2>3. Whole(r)'
    BY <2>1
  <2> QED BY <2>1, <2>2, <2>3 DEF HandInv
<1>2. ASSUME NEW r \in Pids, Blocking(r) PROVE HandInv'
  <2>1. /\ r \notin torn
        /\ pc[r] \in BlockPcs \cup {"resume"}
        /\ pc'[r] \in BlockPcs \cup {"acquire", "resume"}
        /\ \A a \in Actors \ {r} : pc'[a] = pc[a]
        /\ \A q \in Pids \ {r} : state'[q] = state[q] /\ wait'[q] = wait[q]
        /\ UNCHANGED <<idx, lockVars, killVars>>
    BY <1>2, BlockingEffect
  <2>2. ~Hits(r, r) /\ \A p \in Pids : ~Hits(r, p) /\ ~Hits(r, p)'
    BY <2>1 DEF Hits, BlockPcs
  <2>3. \A p \in Pids, a \in Actors : Hits(a, p)' = Hits(a, p)
    BY <2>1, <2>2 DEF Hits
  <2>4. \A a \in Actors \ {r} : AliveActor(a)' = AliveActor(a)
    BY <2>1 DEF AliveActor, Actors, Pids, Killer
  <2>5. ASSUME NEW p \in Pids \ torn', p # r PROVE Whole(p)'
    BY <2>1, <2>2, <2>3, <2>4, <2>5, <1>k
  <2>6. Whole(r)'
    <3>1. CASE pc'[r] \in {"acquire", "enroll", "rollback", "rerun"}
      BY <3>1
    <3>2. CASE pc'[r] = "sleep" /\ wait'[r] = "enrolled"
      BY <3>2
    <3>3. CASE /\ pc[r] = "sleep" /\ pc'[r] = "recheck"
               /\ state'[r] = "sleeping" /\ wait'[r] = wait[r]
      BY <2>1, <3>3 DEF HandInv
    <3>4. CASE /\ pc[r] = "recheck" /\ pc'[r] = "yield" /\ r \in seqSeen
               /\ state'[r] = state[r] /\ wait'[r] = wait[r]
      <4>1. wait[r] = "enrolled" /\ state[r] = "sleeping"
        BY <2>1, <3>4 DEF HandInv
      <4>2. \A a \in Actors : ~Hits(a, r)
        BY <2>1, <2>2, <3>4 DEF ScanInv, Hits, WakePcs
      <4> QED BY <2>3, <3>4, <4>1, <4>2
    <3>5. CASE /\ pc[r] = "yield" /\ pc'[r] = "resume" /\ wait'[r] = wait[r]
               /\ state'[r] = IF state[r] = "running" THEN "ready" ELSE state[r]
      <4>1. wait[r] = "enrolled" =>
              state[r] = "sleeping" /\ \A a \in Actors : ~Hits(a, r)
        BY <2>1, <3>5 DEF HandInv
      <4>2. wait[r] = "none" /\ state[r] = "sleeping" =>
              \E a \in Actors : AliveActor(a) /\ Hits(a, r)
        BY <2>1, <3>5 DEF HandInv
      <4>3. \A a \in Actors : AliveActor(a) /\ Hits(a, r) => AliveActor(a)'
        BY <2>2, <2>4
      <4> QED BY <2>3, <3>5, <4>1, <4>2, <4>3
    <3> QED BY <1>2, BlockingEffect, <3>1, <3>2, <3>3, <3>4, <3>5
  <2> QED BY <2>1, <2>5, <2>6 DEF HandInv
<1>3. ASSUME NEW b \in Actors, Waking(b) PROVE HandInv'
  <2>1. /\ pc[b] \in WakePcs /\ pc'[b] \in WakePcs /\ idx[b] \in Pids
        /\ \A a \in Actors \ {b} : pc'[a] = pc[a] /\ idx'[a] = idx[a]
        /\ UNCHANGED <<onCpu, lockVars, killVars>>
        /\ \A q \in Pids \ {idx[b]} : state'[q] = state[q] /\ wait'[q] = wait[q]
    BY <1>3, WakingEffect
  <2>2. AliveActor(b)'
    <3>1. Runs(b)
      BY <1>3 DEF Waking, WakeStep, ScanState, ScanMatch, WakePend, WakeClear,
         WakeReady, MakeReady, At
    <3>2. b = Killer \/ (b \in Pids /\ state[b] # "zombie")
      BY <3>1, <1>z DEF Runs
    <3> QED BY <3>2, <1>3, WakingEffect DEF AliveActor
  <2>3. \A a \in Actors \ {b} : AliveActor(a) => AliveActor(a)'
    BY <1>3, WakingEffect DEF AliveActor, Actors, Pids, Killer
  <2>4. SUFFICES ASSUME NEW p \in Pids \ torn, p # b PROVE Whole(p)'
    BY <2>1 DEF HandInv, WakePcs
  <2>5. p \notin seqSeen' /\ pc'[p] = pc[p]
    BY <2>1, <2>4 DEF ScanInv
  <2>6. CASE pc[p] \notin {"yield", "resume"}
    BY <2>5, <2>6
  <2>7. CASE pc[p] \in {"yield", "resume"}
    <3>1. CASE wait'[p] = "enrolled"
      <4>1. wait[p] = "enrolled"
        BY <3>1, <2>1, <1>3, WakingEffect
      <4>2. state[p] = "sleeping" /\ \A a \in Actors : ~Hits(a, p)
        BY <4>1, <2>4, <2>7 DEF HandInv
      <4>3. state'[p] = "sleeping"
        BY <4>2, <2>1, <1>3, WakingEffect DEF Hits
      <4>4. ~Hits(b, p)'
        BY <3>1, <1>3, WakingEffect DEF Hits
      <4>5. \A a \in Actors : ~Hits(a, p)'
        BY <4>2, <4>4, <2>1 DEF Hits
      <4> QED BY <2>5, <3>1, <4>3, <4>5
    <3>2. CASE wait'[p] = "none" /\ state'[p] = "sleeping"
      <4>1. state[p] = "sleeping"
        BY <3>2, <2>1, <1>3, WakingEffect
      <4>2. CASE wait[p] = "enrolled"
        <5>1. Hits(b, p)'
          BY <4>2, <3>2, <2>1, <1>3, WakingEffect DEF Hits
        <5> QED BY <5>1, <2>2, <2>5, <3>2
      <4>3. CASE wait[p] = "none"
        <5>1. PICK a \in Actors : AliveActor(a) /\ Hits(a, p)
          BY <4>1, <4>3, <2>4, <2>7 DEF HandInv
        <5>2. a # b
          BY <5>1, <3>2, <1>3, WakingEffect DEF Hits
        <5>3. AliveActor(a)' /\ Hits(a, p)'
          BY <5>1, <5>2, <2>1, <2>3 DEF Hits
        <5> QED BY <5>3, <2>5, <3>2
      <4> QED BY <4>2, <4>3, <1>t
    <3>3. CASE wait'[p] = "none" /\ state'[p] # "sleeping"
      BY <3>3, <2>5
    <3> QED BY <3>1, <3>2, <3>3, <1>t
  <2> QED BY <2>6, <2>7
<1>4. ASSUME NEW b \in Actors, ScanDone(b) \/ DropPid(b) PROVE HandInv'
  <2>1. /\ pc[b] \in {"scan", "teardown"} /\ pc'[b] \in {"scan", "exit", "idle"}
        /\ \A a \in Actors \ {b} : pc'[a] = pc[a] /\ idx'[a] = idx[a]
        /\ UNCHANGED <<state, wait, torn>>
        /\ seqSeen' \subseteq seqSeen
    <3>1. CASE ScanDone(b)
      BY <3>1 DEF ScanDone, At, Go, EndScan, TypeInv, PcTyped
    <3>2. CASE DropPid(b)
      BY <3>2, DropPidEffect
    <3> QED BY <1>4, <3>1, <3>2
  <2>2. SUFFICES ASSUME NEW p \in Pids \ torn, p # b PROVE Whole(p)'
    BY <2>1 DEF HandInv
  <2>3. \A a \in Actors : /\ Hits(a, p)' = Hits(a, p)
                          /\ AliveActor(a) => AliveActor(a)'
    BY <2>1 DEF Hits, AliveActor
  <2> QED BY <2>1, <2>2, <2>3, <1>k
<1>5. ASSUME NEW r \in Pids, KillOffCpu(r) \/ SelfDestroy(r) \/ Exit(r)
      PROVE  HandInv'
  <2>1. /\ UNCHANGED <<wait, idx, seqSeen>> /\ torn \subseteq torn'
        /\ \A q \in Pids \ {r} : pc'[q] = pc[q] /\ state'[q] = state[q]
        /\ pc[r] = "exit" \/ r \in torn'
    BY <1>5, DeathEffect
  <2>2. pc[r] # "makeReady" /\ pc'[r] # "makeReady"
    <3>1. CASE KillOffCpu(r)
      <4>1. r \in exiting /\ ~onCpu[r] /\ pc'[r] = pc[r]
        BY <3>1, DeathEffect DEF KillOffCpu, Go, TypeInv, PcTyped
      <4> QED BY <4>1 DEF RoleInv, WakersFinish, WakePcs
    <3>2. CASE SelfDestroy(r)
      <4>1. /\ r \in exiting /\ pc'[r] = "teardown"
            /\ pc[r] \in {"yield", "idle", "cs"} \/ r \in Preemptible
        BY <3>2 DEF SelfDestroy, MaySchedule, Go, TypeInv, PcTyped
      <4> QED BY <4>1 DEF RoleInv, WakersFinish
    <3>3. CASE Exit(r)
      BY <3>3 DEF Exit, At, Go, TypeInv, PcTyped
    <3> QED BY <1>5, <3>1, <3>2, <3>3
  <2>3. pc[Killer] # "makeReady" <=> pc'[Killer] # "makeReady"
    BY <1>5 DEF KillOffCpu, SelfDestroy, Exit, Go, TypeInv, PcTyped, At
  <2>4. \A p \in Pids, a \in Actors :
          /\ Hits(a, p)' = Hits(a, p)
          /\ AliveActor(a) /\ Hits(a, p) => AliveActor(a)'
    BY <2>1, <2>2, <2>3 DEF Hits, AliveActor, Actors, Pids, Killer
  <2>5. r \in torn \/ r \in torn'
    BY <2>1 DEF TornInv
  <2>6. SUFFICES ASSUME NEW p \in Pids \ torn, p # r PROVE Whole(p)'
    BY <2>1, <2>5 DEF HandInv
  <2> QED BY <2>1, <2>4, <2>6, <1>k
<1>6. ASSUME NEW r \in Pids,
             DispatchTask(r) \/ PreemptTask(r) \/ RequestKill(r)
      PROVE  HandInv'
  <2>1. /\ UNCHANGED <<pc, idx, wait, seqSeen, torn>>
        /\ \A q \in Pids : (state'[q] = "zombie") = (state[q] = "zombie")
        /\ \A q \in Pids : \/ state'[q] = state[q]
                           \/ /\ wait[q] = "none" /\ state[q] # "sleeping"
                              /\ state'[q] # "sleeping"
    BY <1>6, SchedEffect
  <2>2. SUFFICES ASSUME NEW p \in Pids \ torn PROVE Whole(p)'
    BY <2>1 DEF HandInv
  <2>3. \A a \in Actors : /\ Hits(a, p)' = Hits(a, p)
                          /\ AliveActor(a) => AliveActor(a)'
    BY <2>1 DEF Hits, AliveActor, Actors, Pids, Killer
  <2>4. CASE state'[p] = state[p]
    BY <2>1, <2>2, <2>3, <2>4, <1>k
  <2>5. CASE /\ wait[p] = "none" /\ state[p] # "sleeping"
             /\ state'[p] # "sleeping"
    BY <2>1, <2>2, <2>5 DEF HandInv
  <2> QED BY <2>1, <2>4, <2>5
<1>7. CASE UNCHANGED vars
  BY <1>7 DEF vars, waitVars, HandInv, Hits, AliveActor
<1> QED
  BY <1>1, <1>2, <1>3, <1>4, <1>5, <1>6, <1>7
  DEF Next, TaskStep, KillerStep

\* A parked task whose seq has moved is enrolled and asleep, with a release on
\* its way, or half undone by a wake() that is about to make it .ready.
LEMMA WokenInTime ==
  TypeInv /\ TornInv /\ RescueInv /\ HandInv => NoLostWake
<1> SUFFICES ASSUME TypeInv, TornInv, RescueInv, HandInv,
                    NEW p \in Pids, Parked(p), p \notin seqSeen
             PROVE  Rescued(p)
  BY DEF NoLostWake
<1>1. p \notin torn
  BY DEF TornInv, Parked
<1>2. wait[p] \in {"none", "enrolled"}
  BY DEF TypeInv, DataTyped
<1>3. CASE wait[p] = "enrolled"
  <2>1. Asleep(p)
    BY <1>1, <1>3 DEF HandInv, Whole, Parked, Asleep
  <2> QED BY <2>1, <1>1 DEF RescueInv
<1>4. CASE wait[p] = "none"
  <2>1. PICK a \in Actors : AliveActor(a) /\ Hits(a, p)
    BY <1>1, <1>4 DEF HandInv, Whole, Parked
  <2>2. WillReach(a, p)
    BY <2>1 DEF Hits, WillReach, WakePcs, Pids
  <2> QED BY <2>1, <2>2 DEF Rescued
<1> QED BY <1>2, <1>3, <1>4

\* "Either we see the new seq or the releaser sees us asleep": of two threads,
\* in a process table of any size, none is left parked after a release it was
\* waiting for, whichever of them reads or writes and whenever the other is
\* killed, provided a thread that may be preempted inside wake() is not killed.
THEOREM TwoLoseNoWake ==
  ASSUME TwoThreads, WakersFinish
  PROVE  Spec => []NoLostWake
<1>1. Init => RoleInv /\ ScanInv /\ HandInv
  BY InitRole
<1>2. IInv /\ RoleInv /\ [Next]_vars => RoleInv'
  BY RoleStep DEF IInv
<1>3. IInv /\ RoleInv /\ ScanInv /\ [Next]_vars => ScanInv'
  BY ScanStep, TwoThreads, WakersFinish
<1>4. IInv /\ RoleInv /\ ScanInv /\ HandInv /\ [Next]_vars => HandInv'
  BY HandStep, WakersFinish DEF IInv
<1>5. IInv /\ RescueInv /\ HandInv => NoLostWake
  BY WokenInTime DEF IInv
<1> QED BY <1>1, <1>2, <1>3, <1>4, <1>5, IInvHolds, EnrolledAreWoken, PTL DEF Spec
-----------------------------------------------------------------------------
(* Who ends a hold, and when one is granted. *)

\* Whoever loses its hold in this step gave it back, or is torn down.
GivesUp(p) == (pc[p] = "cs" /\ pc'[p] # "cs") \/ p \in torn

\* What a step may do to the holds: it ends one only for its holder, who gives it
\* back or is dead, and grants one only to a live task; to a reader only while no
\* writer holds or waits, and to a writer only while nobody holds.
HoldsMove ==
  /\ \A p \in readers \ readers' : GivesUp(p)
  /\ writer \notin {writer', NoOwner} => writer' = NoOwner /\ GivesUp(writer)
  /\ \A p \in readers' \ readers : p \notin torn /\ writer = NoOwner /\ writersWaiting = {}
  /\ writer' \notin {writer, NoOwner} =>
       writer' \notin torn /\ writer = NoOwner /\ readers = {}

\* A task's own step at the lock.
LEMMA LockMovesHolds ==
  ASSUME IInv, NEW p \in Pids,
         \/ \E m \in Modes : Request(p, m)
         \/ TryAcquireRead(p)
         \/ Acquire(p)
         \/ Drop(p)
  PROVE  HoldsMove
<1>1. p \notin torn /\ p # NoOwner
  BY LockEffect, NAssumption DEF IInv, Pids, NoOwner
<1>2. CASE Drop(p)
  <2>1. pc[p] = "cs" /\ pc'[p] # "cs"
    BY <1>2, ActorFacts DEF Drop, At, Go, IInv, TypeInv, PcTyped
  <2>2. IF mode[p] = "read" THEN readers' = readers \ {p} /\ writer' = writer
                            ELSE writer' = NoOwner /\ readers' = readers /\ writer = p
    BY <1>1, <1>2, <2>1 DEF Drop, IInv, Exclusion
  <2>3. \A q \in {p} : GivesUp(q)
    BY <2>1 DEF GivesUp
  <2>4. readers \ readers' \subseteq {p} /\ readers' \subseteq readers
    BY <2>2
  <2>5. writer' = writer \/ (writer' = NoOwner /\ writer = p)
    BY <2>2
  <2> QED BY <2>3, <2>4, <2>5 DEF HoldsMove
<1>3. CASE Acquire(p)
  <2>1. \/ UNCHANGED <<readers, writer>>
        \/ readers' = readers \cup {p} /\ UNCHANGED writer /\ ReadFree
        \/ writer' = p /\ UNCHANGED readers /\ WriteFree
    BY <1>3 DEF Acquire, AcquireRead, AcquireWrite
  <2> QED BY <1>1, <2>1 DEF HoldsMove, ReadFree, WriteFree
<1>4. CASE (\E m \in Modes : Request(p, m)) \/ TryAcquireRead(p)
  <2>1. \/ UNCHANGED <<readers, writer>>
        \/ readers' = readers \cup {p} /\ UNCHANGED writer /\ ReadFree
    BY <1>4 DEF Request, TryAcquireRead, lockVars
  <2> QED BY <1>1, <2>1 DEF HoldsMove, ReadFree
<1> QED BY <1>2, <1>3, <1>4

\* A teardown's dropPid ends the holds of the dead, and of nobody else.
LEMMA DropPidMovesHolds ==
  ASSUME IInv, NEW a \in Actors, DropPid(a)
  PROVE  HoldsMove
<1>1. Dying(a) \in torn \cup {NoOwner}
  BY DropPidEffect DEF IInv
<1>2. /\ readers' = readers \ {Dying(a)}
      /\ writer' = IF writer = Dying(a) THEN NoOwner ELSE writer
  BY DEF DropPid, Forget
<1>3. readers \subseteq Pids /\ NoOwner \notin Pids
  BY NAssumption DEF IInv, TypeInv, DataTyped, Pids, NoOwner
<1> QED BY <1>1, <1>2, <1>3 DEF HoldsMove, GivesUp

\* Every other step leaves the holds alone.
LEMMA NextMovesHolds == IInv /\ [Next]_vars => HoldsMove
<1> SUFFICES ASSUME IInv, [Next]_vars PROVE HoldsMove
  OBVIOUS
<1>1. CASE UNCHANGED lockVars
  BY <1>1 DEF lockVars, HoldsMove
<1>2. ASSUME NEW p \in Pids,
             \/ \E m \in Modes : Request(p, m)
             \/ TryAcquireRead(p)
             \/ Acquire(p)
             \/ Drop(p)
      PROVE  HoldsMove
  BY <1>2, LockMovesHolds
<1>3. ASSUME NEW a \in Actors, Waking(a) \/ ScanDone(a) PROVE UNCHANGED lockVars
  BY <1>3 DEF Waking, ScanDone
<1>4. ASSUME NEW p \in Pids,
             \/ Blocking(p) \/ Exit(p) \/ DispatchTask(p) \/ PreemptTask(p)
             \/ RequestKill(p) \/ KillOffCpu(p) \/ SelfDestroy(p)
      PROVE  UNCHANGED lockVars
  BY <1>4 DEF Blocking, Exit, DispatchTask, PreemptTask, RequestKill, KillOffCpu,
     SelfDestroy
<1>5. CASE UNCHANGED vars
  BY <1>5, <1>1 DEF vars
<1>6. ASSUME NEW p \in Pids, TaskStep(p) PROVE HoldsMove
  BY <1>1, <1>2, <1>3, <1>4, <1>6, ActorFacts, DropPidMovesHolds DEF TaskStep
<1>7. CASE KillerStep
  BY <1>1, <1>3, <1>7, ActorFacts, DropPidMovesHolds DEF KillerStep
<1> QED BY <1>1, <1>2, <1>4, <1>5, <1>6, <1>7 DEF Next

\* drop() clears `writer` without looking whose it is, and dropPid clears bits of
\* another pid than the caller's: still nobody's hold is ended but one that its holder
\* gives back or died with.  A reader is let in only when no writer holds or waits.
THEOREM OnlyHoldersLetGo == Spec => [][HoldsMove]_vars
<1>1. IInv /\ [Next]_vars => HoldsMove
  BY NextMovesHolds
<1> QED BY <1>1, IInvHolds, PTL DEF Spec
=============================================================================
