---------------------------- MODULE MCShootdown ----------------------------
(***************************************************************************)
(* Module Shootdown for TLC: the processors are interchangeable, and so    *)
(* are the pages.                                                          *)
(***************************************************************************)
EXTENDS Shootdown, TLC

Symmetry == Permutations(Cpus) \cup Permutations(Pages)
=============================================================================
