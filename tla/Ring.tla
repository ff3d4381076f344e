-------------------------------- MODULE Ring --------------------------------
(***************************************************************************)
(* The single-producer single-consumer bridge between the DAW's audio      *)
(* callback and the engine thread (crates/deviceout-core/src/ring.rs).     *)
(*                                                                         *)
(* The producer pushes interleaved blocks of any length, the consumer      *)
(* pulls or discards.  Neither side ever blocks the other: a call looks at *)
(* the other side's index ONCE, then works on the slots it found, then     *)
(* publishes its own index.  Those are separate steps here, so the two     *)
(* calls interleave at every point where they touch shared memory.         *)
(*                                                                         *)
(* The storage is the rtrb crate (external): a circular buffer of Slots *)
(* slots whose two indices run over 0 .. 2*Slots-1, so that a full and  *)
(* an empty buffer differ.                                                 *)
(***************************************************************************)
EXTENDS Integers, Sequences

CONSTANTS
    Channels,       \* samples in a frame
    CapacityFrames, \* the capacity_frames argument of ring()
    PushLens,       \* lengths, in samples, of the blocks the host offers
    PullLens,       \* lengths, in samples, of the buffers the engine fills
    DiscardLens,    \* frames the engine asks to discard
    MaxPushes,      \* bound: push calls in a behaviour
    MaxUnderruns    \* bound: pull calls that come up short

\* What ring() asserts of its arguments, and the types of the others.
RingParameters ==
    /\ Channels \in Nat \ {0}           \* assert!(channels > 0)
    /\ CapacityFrames \in Nat \ {0}     \* assert!(capacity_frames > 0)
    /\ PushLens \subseteq Nat
    /\ PullLens \subseteq Nat
    /\ DiscardLens \subseteq Nat
    /\ MaxPushes \in Nat
    /\ MaxUnderruns \in Nat

ASSUME RingAssumption == RingParameters

Slots  == CapacityFrames * Channels
Positions == 0 .. 2 * Slots - 1

(* How far index q is ahead of index p, index p moved n slots on, and the  *)
(* slot an index stands for.                                               *)
Distance(p, q) == IF p <= q THEN q - p ELSE 2 * Slots - p + q
Advance(p, n)  == IF p + n < 2 * Slots THEN p + n ELSE p + n - 2 * Slots
SlotOf(p)      == IF p < Slots THEN p ELSE p - Slots

Lesser(a, b) == IF a <= b THEN a ELSE b

whole_frames(n) == n - (n % Channels)

(* A sample is known by the frame the host put it in and by its channel;   *)
(* Unwritten stands for memory no push has initialised.                    *)
Samples   == [frame : Nat, chan : 0 .. Channels - 1]
Unwritten == [frame |-> -1, chan |-> -1]

VARIABLES
    slot,      \* the storage
    head,      \* index of the oldest unread sample, written by the consumer
    tail,      \* index past the newest sample, written by the producer
    pPc,       \* where the push call stands
    block,     \* length of the block being pushed
    room,      \* whole-frame room the push call found
    written,   \* samples it has copied so far
    nextFrame, \* number of the first frame of the current or next block
    cPc,       \* where the pull or discard call stands
    want,      \* length of the buffer being filled
    take,      \* samples the pull or discard call found
    out,       \* samples copied to the caller's buffer
    bridge_stats,     \* BridgeStats
    discarded  \* frames discarded so far: discard() counts them nowhere

prodVars == <<tail, pPc, block, room, written, nextFrame>>
consVars == <<head, cPc, want, take, out, discarded>>
ring_vars     == <<slot, prodVars, consVars, bridge_stats>>

Fill == Distance(head, tail)        \* Consumer::slots()
FreeSlots == Slots - Fill             \* Producer::slots()

FramesIn(len) == (len + Channels - 1) \div Channels

(* Sample i (counted from 0) of the block being pushed.                    *)
SampleAt(i) == [frame |-> nextFrame + (i \div Channels), chan |-> i % Channels]

NoBridgeCounts == [frames_pushed |-> 0, push_events |-> 0, frames_pulled |-> 0,
             overrun_events |-> 0, underrun_events |-> 0,
             samples_dropped |-> 0, samples_zero_filled |-> 0]

RingInit ==
    /\ slot = [i \in 0 .. Slots - 1 |-> Unwritten]
    /\ head = 0 /\ tail = 0
    /\ pPc = "idle" /\ block = 0 /\ room = 0 /\ written = 0 /\ nextFrame = 0
    /\ cPc = "idle" /\ want = 0 /\ take = 0 /\ out = <<>>
    /\ bridge_stats = NoBridgeCounts
    /\ discarded = 0

-----------------------------------------------------------------------------
(* RingProducer::push, in the order its body runs.                         *)

PushMeasureAll(len) ==      \* a slip: the room is not looked at
    /\ pPc = "idle"
    /\ bridge_stats.push_events < MaxPushes
    /\ block' = len
    /\ room' = whole_frames(len)
    /\ written' = 0
    /\ pPc' = "fill"
    /\ UNCHANGED <<slot, tail, nextFrame, consVars, bridge_stats>>

PushMeasure(len) ==
    /\ pPc = "idle"
    /\ bridge_stats.push_events < MaxPushes
    /\ block' = len
    /\ room' = whole_frames(Lesser(len, FreeSlots))
    /\ written' = 0
    /\ pPc' = "fill"
    /\ UNCHANGED <<slot, tail, nextFrame, consVars, bridge_stats>>

PushFill ==
    /\ pPc = "fill"
    /\ written < room
    /\ slot' = [slot EXCEPT ![SlotOf(Advance(tail, written))] = SampleAt(written)]
    /\ written' = written + 1
    /\ UNCHANGED <<tail, pPc, block, room, nextFrame, consVars, bridge_stats>>

PushCommit ==
    /\ pPc = "fill"
    /\ written = room
    /\ tail' = Advance(tail, written)
    /\ nextFrame' = nextFrame + FramesIn(block)
    /\ pPc' = "record"
    /\ UNCHANGED <<slot, block, room, written, consVars, bridge_stats>>

PushRecord ==
    /\ pPc = "record"
    /\ LET dropped == block - written IN
       bridge_stats' = [bridge_stats EXCEPT
           !.frames_pushed   = @ + (written \div Channels),
           !.push_events     = @ + 1,
           !.overrun_events  = IF dropped > 0 THEN @ + 1 ELSE @,
           !.samples_dropped = @ + dropped]
    /\ pPc' = "idle"
    /\ UNCHANGED <<slot, tail, block, room, written, nextFrame, consVars>>

-----------------------------------------------------------------------------
(* RingConsumer::pull, in the order its body runs.                         *)

PullMeasure(len) ==
    /\ cPc = "idle"
    /\ bridge_stats.underrun_events < MaxUnderruns
    /\ want' = len
    /\ take' = whole_frames(Lesser(Fill, len))
    /\ out' = <<>>
    /\ cPc' = "copy"
    /\ UNCHANGED <<slot, head, discarded, prodVars, bridge_stats>>

PullCopy ==
    /\ cPc = "copy"
    /\ Len(out) < take
    /\ out' = Append(out, slot[SlotOf(Advance(head, Len(out)))])
    /\ UNCHANGED <<slot, head, cPc, want, take, discarded, prodVars, bridge_stats>>

PullCommitEarly ==          \* a slip: the slots are given back before the copy
    /\ cPc = "copy"
    /\ head' = Advance(head, take)
    /\ cPc' = "record"
    /\ UNCHANGED <<slot, want, take, out, discarded, prodVars, bridge_stats>>

PullCommit ==
    /\ cPc = "copy"
    /\ Len(out) = take
    /\ head' = Advance(head, take)
    /\ cPc' = "record"
    /\ UNCHANGED <<slot, want, take, out, discarded, prodVars, bridge_stats>>

PullRecord ==
    /\ cPc = "record"
    /\ LET filled == want - take IN
       bridge_stats' = [bridge_stats EXCEPT
           !.frames_pulled       = @ + (take \div Channels),
           !.underrun_events     = IF filled > 0 THEN @ + 1 ELSE @,
           !.samples_zero_filled = @ + filled]
    /\ cPc' = "idle"
    /\ UNCHANGED <<slot, head, want, take, out, discarded, prodVars>>

(* RingConsumer::discard: drops what it finds without recording a pull.    *)

DiscardMeasure(frames) ==
    /\ cPc = "idle"
    /\ take' = Lesser(frames * Channels, Fill)
    /\ out' = <<>>
    /\ cPc' = IF take' = 0 THEN "idle" ELSE "discard"
    /\ UNCHANGED <<slot, head, want, discarded, prodVars, bridge_stats>>

DiscardCommit ==
    /\ cPc = "discard"
    /\ head' = Advance(head, take)
    /\ discarded' = discarded + (take \div Channels)
    /\ cPc' = "idle"
    /\ UNCHANGED <<slot, want, take, out, prodVars, bridge_stats>>

-----------------------------------------------------------------------------
PushCall    == \/ \E len \in PushLens : PushMeasure(len)
           \/ PushFill \/ PushCommit \/ PushRecord
PullCall    == \/ \E len \in PullLens : PullMeasure(len)
           \/ PullCopy \/ PullCommit \/ PullRecord
DiscardCall == \/ \E frames \in DiscardLens : DiscardMeasure(frames)
           \/ DiscardCommit

RingNext == PushCall \/ PullCall \/ DiscardCall

RingSpec == RingInit /\ [][RingNext]_ring_vars

-----------------------------------------------------------------------------
(* The unread samples, oldest first.                                       *)
Unread == [i \in 1 .. Fill |-> slot[SlotOf(Advance(head, i - 1))]]

(* s is whole frames: all the channels of a frame, in order, and each      *)
(* frame newer than the one before it.                                     *)
IsFrames(s) ==
    /\ Len(s) % Channels = 0
    /\ \A i \in 1 .. Len(s) : s[i].chan = (i - 1) % Channels
    /\ \A i \in 2 .. Len(s) : IF s[i].chan = 0 THEN s[i].frame > s[i - 1].frame
                                            ELSE s[i].frame = s[i - 1].frame

RingTypeOK ==
    /\ slot \in [0 .. Slots - 1 -> Samples \cup {Unwritten}]
    /\ head \in Positions /\ tail \in Positions
    /\ pPc \in {"idle", "fill", "record"}
    /\ block \in Nat /\ room \in Nat /\ written \in Nat /\ nextFrame \in Nat
    /\ cPc \in {"idle", "copy", "record", "discard"}
    /\ want \in Nat /\ take \in Nat /\ discarded \in Nat
    /\ out \in Seq(Samples)
    /\ bridge_stats \in [DOMAIN NoBridgeCounts -> Nat]

(* The two windows stay apart: what a push call measured before the        *)
(* consumer moved on, and what a pull call measured before the producer    *)
(* moved on, is still theirs when they use it.  A measure taken once is    *)
(* stale by the time it is used, but only ever too small.                  *)
WindowsApart ==
    /\ Fill <= Slots
    /\ pPc = "fill" => room <= FreeSlots
    /\ cPc \in {"copy", "discard"} => take <= Fill

(* No push, pull, partial block, overrun or discard, in any order, ever    *)
(* lets half a frame in or out: left and right never swap.                 *)
NoChannelSlip ==
    /\ IsFrames(Unread)
    /\ cPc \in {"record", "idle"} => IsFrames(out)

(* What is reported is what happened: the frames pushed are exactly the    *)
(* ones pulled, discarded or still unread, once each call has recorded.    *)
Conservation ==
    LET pushing == IF pPc = "record" THEN written ELSE 0
        pulling == IF cPc = "record" THEN take ELSE 0
    IN  bridge_stats.frames_pushed * Channels + pushing
        = bridge_stats.frames_pulled * Channels + pulling + discarded * Channels + Fill

(* The bridge: whatever pushes, pulls, partial blocks, overruns and        *)
(* discards meet, left and right never swap and no frame is miscounted;    *)
(* what a call measured is still its own when it uses it.                  *)
BridgeSound == RingTypeOK /\ WindowsApart /\ NoChannelSlip /\ Conservation

(* The ring does what FrameFifo promises: the queue is the unread samples, *)
(* a push takes effect when it publishes its index, a pull and a discard   *)
(* when they publish theirs.                                               *)
Handed == IF cPc = "record" THEN out ELSE <<>>

Fifo == INSTANCE FrameFifo WITH queue <- Unread, next <- nextFrame, got <- Handed

ImplementsFifo == Fifo!Spec
=============================================================================
