-------------------------------- MODULE Combo --------------------------------
(***************************************************************************)
(* The number field of the settings (editor/widgets.rs, number_combo): its *)
(* value is dragged or picked from a menu, while the engine or another     *)
(* editor of the device may change the value and the least one allowed.    *)
(* With it, the steps of the device buffer, shown in milliseconds and      *)
(* asked for in periods (editor/mod.rs, queue_row).                        *)
(***************************************************************************)
EXTENDS Integers, FiniteSetsExt

CONSTANTS
    Floors, Values, \* what the engine may come to
    ceiling, steps,
    Deltas,         \* pixels of one frame's movement
    MaxMoved,       \* pixels of a drag, to either side
    Periods         \* of the device, in tenths of a millisecond

\* One step is the largest; a period is longer than a millisecond.
ASSUME ComboAssumption ==
    /\ Floors \subseteq Nat /\ Values \subseteq Nat /\ ceiling \in Nat
    /\ steps \subseteq Nat \ {0} /\ \E most \in steps : \A s \in steps : most >= s
    /\ Deltas \subseteq Int
    /\ \A p \in Periods : p \in Nat /\ p > 10

VARIABLES
    value, floor,   \* as the engine has them
    drag,           \* the number shown during a drag, or NO_NUMBER
    acc,            \* pixels that have not made a step
    dragging,
    picked,         \* what the frame returned
    under,          \* the floor of the frame in which its number was set
    panicked,
    total,          \* pixels since the drag began
    start,          \* the value the drag's first step was taken from
    stopped         \* the drag has run into an end

combo_vars == <<value, floor, drag, acc, dragging, picked, under, panicked, total, start, stopped>>
dragged == <<drag, acc, dragging, total, start, stopped>>

PX_PER_STEP == 4
NO_NUMBER == 0

Trunc(a, b) == IF a >= 0 THEN a \div b ELSE -((-a) \div b)

-----------------------------------------------------------------------------
(***************************************************************************)
(* The device buffer's menu, and where a menu opens.                       *)
(***************************************************************************)
RoundDiv(a, b) == (2 * a + b) \div (2 * b)
queue_ms(periods, period) == Max({RoundDiv(periods * period, 10), 1})
queue_row(ms, period) == RoundDiv(ms * 10, period)

placement(room, wanted) ==
    IF room.below >= wanted \/ room.below >= room.above THEN "below" ELSE "above"
menu_height(room, wanted) ==
    LET given == IF placement(room, wanted) = "below" THEN room.below ELSE room.above
    IN  Min({Max({given - 14, 1}), 280})

-----------------------------------------------------------------------------
ComboInit ==
    /\ value \in Values /\ floor \in Floors /\ value >= floor
    /\ drag = NO_NUMBER /\ acc = 0 /\ dragging = FALSE
    /\ picked = NO_NUMBER /\ under = floor /\ panicked = FALSE
    /\ total = 0 /\ start = NO_NUMBER /\ stopped = FALSE

number_shown == IF drag = NO_NUMBER THEN value ELSE drag

\* A frame in which the pointer drags: whole steps are taken out of acc. The
\* clamp panics when the floor is above the ceiling.
DragFrame(delta) ==
    LET moved == Trunc(acc + delta, PX_PER_STEP)
        next == Max({number_shown + moved, 0})
        low == Max({floor, 1})
        high == Max({ceiling, 1})
    IN  /\ dragging' = TRUE /\ total' = total + delta
        /\ acc' = acc + delta - moved * PX_PER_STEP
        /\ picked' = NO_NUMBER
        /\ IF moved = 0 THEN UNCHANGED <<drag, start, stopped, panicked, under>>
           ELSE /\ under' = floor
                /\ panicked' = (low > high)
                /\ drag' = IF low > high THEN drag ELSE Max({low, Min({next, high})})
                /\ start' = IF drag = NO_NUMBER THEN value ELSE start
                /\ stopped' = (stopped \/ drag' # number_shown + moved)
        /\ UNCHANGED <<value, floor>>

\* picked.filter(|v| v != value).
Pick(v) == picked' = IF v = value THEN NO_NUMBER ELSE v

\* A slip: keeps the pixels in hand.
EndDragKeepsAcc == drag' = NO_NUMBER /\ dragging' = FALSE /\ UNCHANGED acc
                   /\ total' = 0 /\ start' = NO_NUMBER /\ stopped' = FALSE

EndDrag == drag' = NO_NUMBER /\ acc' = 0 /\ dragging' = FALSE
           /\ total' = 0 /\ start' = NO_NUMBER /\ stopped' = FALSE

\* The frame after the button is let go; one without a drag does the same to
\* acc and drag.
DragStops ==
    /\ dragging
    /\ EndDrag /\ Pick(drag)
    /\ UNCHANGED <<value, floor, panicked, under>>

\* The pointer is taken away in mid-drag (the window is hidden): no step is asked.
DragLost ==
    /\ dragging
    /\ EndDrag /\ picked' = NO_NUMBER
    /\ UNCHANGED <<value, floor, panicked, under>>

\* A click on a step of the open menu; a step under the floor is only shown.
combo_option(step) ==
    /\ ~dragging /\ step >= floor
    /\ Pick(step) /\ under' = floor
    /\ UNCHANGED <<value, floor, dragged, panicked>>

\* The engine comes to another value or floor, or takes what was picked: what
\* it keeps is never under the floor.
Retuned ==
    /\ value' \in Values /\ floor' \in Floors /\ value' >= floor'
    /\ picked' = NO_NUMBER
    /\ UNCHANGED <<dragged, panicked, under>>

number_combo ==
    \/ \E d \in Deltas : total + d \in -MaxMoved..MaxMoved /\ DragFrame(d)
    \/ DragStops \/ DragLost
    \/ \E step \in steps : combo_option(step)

ComboNext == ~panicked /\ (number_combo \/ Retuned)

ComboSpec == ComboInit /\ [][ComboNext]_combo_vars

-----------------------------------------------------------------------------
ComboTypeOK ==
    /\ value \in Values /\ floor \in Floors /\ dragging \in BOOLEAN
    /\ drag \in Nat /\ picked \in Nat /\ acc \in (1 - PX_PER_STEP)..(PX_PER_STEP - 1)

(***************************************************************************)
(* The number follows the pointer: however the movement is cut into        *)
(* frames, the steps taken and the pixels in hand add up to what the       *)
(* pointer has moved, so that a drag back to its start changes nothing,    *)
(* until the number has run into an end. A new value from elsewhere does   *)
(* not shift a drag that is under way.                                     *)
(***************************************************************************)
FollowsThePointer ==
    /\ dragging /\ drag # NO_NUMBER /\ ~stopped /\ ~panicked => (drag - start) * PX_PER_STEP + acc = total
    /\ dragging /\ drag = NO_NUMBER /\ ~panicked => acc = total

(***************************************************************************)
(* What is asked of the engine is a change, and within the bounds of the   *)
(* frame that set the number: only a floor that rises under a drag makes   *)
(* it ask for less. The field panics only under a floor above the ceiling, *)
(* which a block of about a second brings.                                 *)
(***************************************************************************)
AsksWithinBounds ==
    /\ picked # NO_NUMBER => picked # value /\ picked \in Max({under, 1})..Max({ceiling, Max(steps)})
    /\ panicked => floor > ceiling

\* Choosing a step of the device buffer asks for that number of periods, for
\* every period of more than a millisecond.
StepsComeBack ==
    \A n \in 1..4, p \in Periods : queue_row(queue_ms(n, p), p) = n

\* A menu stays on the screen, on the side with room for it.
MenuFits ==
    \A below, above \in {0, 20, 130, 300, 600}, n \in {4, 9} :
        LET room == [below |-> below, above |-> above]
            wanted == n * 32 + 12
            given == room[placement(room, wanted)]
        IN  /\ menu_height(room, wanted) <= Max({given, 1})
            /\ wanted <= Max({below, above}) => given >= wanted
=============================================================================
