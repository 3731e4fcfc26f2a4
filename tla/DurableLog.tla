----------------------------- MODULE DurableLog -----------------------------
(***************************************************************************)
(* What mm/pmem_log.zig promises: a log to which each boot may add one     *)
(* record, and which a loss of power at any instant leaves either with     *)
(* that record or without it, every earlier one in its place.              *)
(***************************************************************************)
EXTENDS Naturals, Sequences, SequencesExt

VARIABLES
  log,     \* the committed records: each says which boot it is of
  boot,    \* the boot counter
  up,      \* whether this boot has recovered the log
  count    \* how many records it then knows of

logVars == <<log, boot, up, count>>

Init == log = <<>> /\ boot = 0 /\ up = FALSE /\ count = 0

Boot == /\ ~up
        /\ boot' = boot + 1
        /\ UNCHANGED <<log, up, count>>

Recover == /\ ~up
           /\ up' = TRUE /\ count' = Len(log)
           /\ boot' \in {boot, boot + 1}
           /\ UNCHANGED log

\* This boot's record, once.
Grown == /\ boot \notin ToSet(log)
         /\ log' = Append(log, boot)

Commit == /\ up /\ Grown
          /\ count' = Len(log')
          /\ UNCHANGED <<boot, up>>

\* The record under way may have made it.
Crash == /\ UNCHANGED log \/ (up /\ Grown)
         /\ up' = FALSE /\ count' = 0
         /\ UNCHANGED boot

Next == Boot \/ Recover \/ Commit \/ Crash

Spec == Init /\ [][Next]_logVars
=============================================================================
