------------------------------ MODULE FrameFifo ------------------------------
(***************************************************************************)
(* What the bridge promises: a bounded queue of whole frames.              *)
(*                                                                         *)
(* Each push appends, at one instant, the first frames of its block and    *)
(* loses the rest; each pull removes, at one instant, the oldest frames    *)
(* and hands over exactly those; a discard removes the oldest frames and   *)
(* hands over nothing.                                                     *)
(***************************************************************************)
EXTENDS Integers, Sequences

CONSTANTS Channels, CapacityFrames

VARIABLES queue,   \* the samples accepted and not yet removed, oldest first
          next,    \* number of the next frame the host will offer
          got      \* what the pull that is returning hands over

vars == <<queue, next, got>>

(* n whole frames, the first of them numbered f.                           *)
Frames(f, n) == [i \in 1 .. n * Channels |->
    [frame |-> f + ((i - 1) \div Channels), chan |-> (i - 1) % Channels]]

Init == queue = <<>> /\ next = 0 /\ got = <<>>

Accept(n) ==
    /\ Len(queue) + n * Channels <= CapacityFrames * Channels
    /\ queue' = queue \o Frames(next, n)
    /\ next' \in Nat /\ next' >= next + n
    /\ UNCHANGED got

Hand(n) ==
    /\ got = <<>>
    /\ n * Channels <= Len(queue)
    /\ got' = SubSeq(queue, 1, n * Channels)
    /\ queue' = SubSeq(queue, n * Channels + 1, Len(queue))
    /\ UNCHANGED next

Return == got' = <<>> /\ UNCHANGED <<queue, next>>

Drop(n) ==
    /\ got = <<>>
    /\ n * Channels <= Len(queue)
    /\ queue' = SubSeq(queue, n * Channels + 1, Len(queue))
    /\ UNCHANGED <<next, got>>

Next == \/ \E n \in 0 .. CapacityFrames : Accept(n) \/ Hand(n) \/ Drop(n)
        \/ Return

Spec == Init /\ [][Next]_vars
=============================================================================
