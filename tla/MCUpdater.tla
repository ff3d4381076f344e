----------------------------- MODULE MCUpdater -----------------------------
(***************************************************************************)
(* Two processes, which are alike; the cfgs bound versions and crashes.    *)
(***************************************************************************)
EXTENDS Updater, TLC

CONSTANTS p1, p2

MCProcs == {p1, p2}
Symmetry == Permutations(MCProcs)
=============================================================================
