---------------------------- MODULE MCLifecycle ----------------------------
(***************************************************************************)
(* Module Lifecycle for TLC, in one of two scenes that a behaviour chooses *)
(* and keeps: "group", one process of up to NSlots threads that exits by   *)
(* itself, with the window of waitpid open; "reuse", as the constants have *)
(* it, processes of up to two threads that come and go in the same slots,  *)
(* under kills from outside.                                               *)
(***************************************************************************)
EXTENDS Lifecycle

VARIABLE scene

Group == INSTANCE Lifecycle WITH MaxBorn <- 1, MaxKills <- 0, ScanGap <- TRUE

MCInit == Init /\ scene \in {"group", "reuse"}

MCNext == /\ UNCHANGED scene
          /\ \/ scene = "group" /\ Group!Next
             \/ /\ scene = "reuse" /\ Next
                /\ \A p \in Slots \ {1, 2} : state'[p] = "unused"

MCSpec == MCInit /\ [][MCNext]_<<vars, scene>>

-----------------------------------------------------------------------------
\* The parent never sleeps on a child it could reap, as long as no child dies
\* between waitpid's scan and its wait.
ParentHearsUnbroken == scene = "reuse" => ParentHears
=============================================================================
