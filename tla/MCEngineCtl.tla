----------------------------- MODULE MCEngineCtl -----------------------------
(***************************************************************************)
(* The engine controller in two views: the calls down to their locks       *)
(* (EngineCtl), and the settings the calls compute and the editor shows    *)
(* (Tuning).  A behaviour runs one part; the other stands in its initial   *)
(* state.  Two plugin instances, the second with larger blocks than the    *)
(* first; two devices, and two calls under way at once.                    *)
(***************************************************************************)
EXTENDS EngineCtl, Tuning, TLC

CONSTANTS small, large, Parts

Blocks     == small :> 2 @@ large :> 3
HostBlocks == small :> 1 @@ large :> 2
Symmetry   == Permutations(Devices) \cup Permutations(Threads)

VARIABLE part

-----------------------------------------------------------------------------
CtlInit == part \in Parts /\ Init /\ TuningInit

CtlNext ==
    /\ UNCHANGED part
    /\ \/ part = "wiring" /\ Next /\ UNCHANGED tuning_vars
       \/ part = "tuning" /\ TuningNext /\ UNCHANGED vars

CtlSpec == CtlInit /\ [][CtlNext]_<<part, vars, tuning_vars>>

-----------------------------------------------------------------------------
=============================================================================
