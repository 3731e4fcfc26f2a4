------------------------------- MODULE MCSched -------------------------------
(***************************************************************************)
(* Module Sched for TLC, in one of two scenes that a behaviour chooses and *)
(* keeps: "move", as the constants have it, tasks that are balanced and    *)
(* killed; "loose", one task that is also pinned, on CPUs that others may  *)
(* overtake anywhere.                                                      *)
(***************************************************************************)
EXTENDS Sched, TLC

VARIABLE scene

Lone == CHOOSE p \in Pids : TRUE

Loose == INSTANCE Sched WITH Movable <- {Lone}, Pinnable <- {Lone},
                             Killable <- {Lone}, Stallable <- Cpus

MCInit == Init /\ scene \in {"move", "loose"}

MCNext == /\ UNCHANGED scene
          /\ \/ scene = "move" /\ Next
             \/ /\ scene = "loose" /\ Loose!Next
                /\ \A p \in Pids \ {Lone} : state'[p] = "unused"

\* The CPUs are interchangeable.
Symmetry == Permutations(Cpus)

MCSpec == MCInit /\ [][MCNext]_<<vars, scene>>

-----------------------------------------------------------------------------
\* A pid is in the queue of the CPU it is assigned to, and there exactly while
\* .ready, as long as nobody sets an affinity: setAffinity moves a queued task
\* on the state it read before.
QueuedWhenUnpinned == scene = "move" => QueuedWhereAssigned

\* Two CPUs never run on one kernel stack, as long as none is overtaken between
\* its pick and its claim: the claim does not look again at what the pick saw.
OneStackUnstalled == scene = "move" => OneStack

\* With the same proviso, the killer never tears down a task that a CPU is on
\* or heads for, ...
DeadNeverRunsUnstalled == scene = "move" => DeadNeverRuns

\* ... and no slot is rebuilt under its last task's stack.
NoReuseUnstalled == scene = "move" => NoReuseUnderfoot
=============================================================================
