------------------------------- MODULE About -------------------------------
(***************************************************************************)
(* The About tab of the editor (editor/mod.rs): the row that asks for an   *)
(* update and installs it, and the watch over a report on its way.  It     *)
(* learns what the updater processes did from their files alone: from a    *)
(* copy of state.json and the pending installer that is up to a second     *)
(* old, and from the directory a report is moved to.                       *)
(* state.json keeps whole seconds; a tick here is half of one.             *)
(***************************************************************************)
EXTENDS Integers

CONSTANTS
    UPDATE_VIEW_INTERVAL, BUSY_MIN, BUSY_MAX,   \* 1 s, 400 ms, 60 s
    INSTALL_BUTTON_COOLDOWN, SEND_PATIENCE,     \* 30 s, 25 s
    WAIT,                                       \* a forced check waits this long for the mutex
    MaxHalves, MaxPresses                       \* bounds: half seconds, buttons pressed

NONE == -1
Seconds(t) == t \div 2

VARIABLES
    tab_now,
    disk,       \* state.json and the pending installer
    view,       \* update_view: what of them was read, and when
    ui,         \* check_busy_since, check_mark_attempt, install_started
    asked,      \* the forced check of the last click: none, waits, runs, done
    other,      \* a check on its own: none, runs
    item,       \* the report watched: none, outbox, sent, failed, pruned
    watch, note,    \* send_watch, and what is told of it
    fresh,      \* a check begun since the last click has ended
    begun,      \* which of the running checks began since then
    stale,      \* the copy was behind when the button was pressed, or a check
                \* began in the second the last one ended in
    presses

about_vars ==
    <<tab_now, disk, view, ui, asked, other, item, watch, note, fresh, begun, stale, presses>>

AboutInit ==
    /\ tab_now = 0
    /\ disk = [ attempt |-> NONE, check |-> NONE, error |-> FALSE, pending |-> FALSE ]
    /\ view = [ at |-> NONE ]
    /\ ui = [ busy |-> NONE, mark |-> NONE, install |-> NONE ]
    /\ asked = [ at |-> "none", since |-> 0 ]
    /\ other = "none"
    /\ item = "none" /\ watch = NONE /\ note = "none"
    /\ fresh = FALSE /\ begun = {} /\ stale = FALSE
    /\ presses = 0

-----------------------------------------------------------------------------
(* The updater processes (Updater.tla has them in full). *)
Updaters == <<tab_now, view, ui, item, watch, note, presses>>
Begins ==
    /\ disk' = [disk EXCEPT !.attempt = Seconds(tab_now), !.error = FALSE]
    /\ stale' = (stale \/ (ui.busy # NONE /\ disk.check = Seconds(tab_now)))

\* It ends with a check, perhaps with an installer, or with an error; a bundle
\* without its binary is an error before anything was written down.
Ends(who) ==
    /\ \/ \E found \in BOOLEAN :
             disk' = [disk EXCEPT !.check = Seconds(tab_now), !.error = FALSE, !.pending = @ \/ found]
       \/ disk' = [disk EXCEPT !.error = TRUE]
    /\ fresh' = (fresh \/ who \in begun)
    /\ begun' = begun \ {who}

OtherBegins ==
    /\ other = "none" /\ asked.at \in {"none", "done"}
    /\ other' = "runs" /\ Begins
    /\ begun' = (IF ui.busy = NONE THEN {} ELSE begun \union {"other"})
    /\ UNCHANGED <<asked, fresh, Updaters>>

OtherEnds ==
    /\ other = "runs" /\ other' = "none"
    /\ Ends("other")
    /\ UNCHANGED <<asked, stale, Updaters>>

AskedBegins ==
    /\ asked.at = "waits" /\ other = "none"
    /\ asked' = [asked EXCEPT !.at = "runs"] /\ Begins
    /\ begun' = (IF ui.busy = NONE THEN {} ELSE begun \union {"asked"})
    /\ UNCHANGED <<other, fresh, Updaters>>

AskedGivesUp ==
    /\ asked.at = "waits"
    /\ \/ other = "runs" /\ tab_now - asked.since >= WAIT /\ UNCHANGED disk
       \/ other = "none" /\ disk' = [disk EXCEPT !.error = TRUE]
    /\ asked' = [asked EXCEPT !.at = "done"]
    /\ UNCHANGED <<other, fresh, begun, stale, Updaters>>

AskedEnds ==
    /\ asked.at = "runs"
    /\ asked' = [asked EXCEPT !.at = "done"]
    /\ Ends("asked")
    /\ UNCHANGED <<other, stale, Updaters>>

Installed ==
    /\ disk.pending /\ other = "none" /\ asked.at # "runs"
    /\ disk' = [disk EXCEPT !.pending = FALSE]
    /\ UNCHANGED <<asked, other, fresh, begun, stale, Updaters>>

\* The report is sent, given up, or stays; sent and failed ones are pruned.
Moves ==
    /\ \/ item = "outbox" /\ item' \in {"sent", "failed"}
       \/ item \in {"sent", "failed"} /\ item' = "pruned"
    /\ UNCHANGED <<tab_now, disk, view, ui, asked, other, watch, note, fresh, begun, stale, presses>>

-----------------------------------------------------------------------------
(* A frame with the tab open. *)

refresh_update_view ==
    IF view.at = NONE THEN [at |-> tab_now, disk |-> disk]
    ELSE IF tab_now - view.at >= UPDATE_VIEW_INTERVAL THEN [at |-> tab_now, disk |-> disk] ELSE view

\* A slip: takes the last check for the one asked for.
ran_ever(st) == st.attempt # NONE

ran(st) == st.attempt # NONE /\ st.attempt # ui.mark
finished(st) == st.pending \/ (ran(st) /\ (st.error \/ st.check >= st.attempt))

\* Why the wait is over, if it is.
poll_check_busy(st) ==
    CASE ui.busy = NONE -> "idle"
      [] ui.busy # NONE /\ finished(st) /\ tab_now - ui.busy >= BUSY_MIN ->
            IF st.pending THEN "pending" ELSE "ran"
      [] ui.busy # NONE /\ ~finished(st) /\ tab_now - ui.busy >= BUSY_MAX -> "patience"
      [] OTHER -> "waits"

poll_watch ==
    IF watch = NONE THEN UNCHANGED <<watch, note>>
    ELSE /\ note' = (IF item \in {"sent", "failed"} THEN item
                     ELSE IF tab_now - watch >= SEND_PATIENCE THEN "retry" ELSE note)
         /\ watch' = (IF note' = "sending" THEN watch ELSE NONE)

Frame ==
    LET v == refresh_update_view
        why == poll_check_busy(v.disk)
        over == why \in {"pending", "ran", "patience"}
        rested == ui.install # NONE /\ tab_now - ui.install >= INSTALL_BUTTON_COOLDOWN
    IN  /\ view' = v
        /\ ui' = [ui EXCEPT !.busy = IF over THEN NONE ELSE @,
                            !.install = IF ~v.disk.pending \/ rested THEN NONE ELSE @]
        /\ fresh' = (fresh /\ ~over) /\ stale' = (stale /\ ~over)
        /\ begun' = (IF over THEN {} ELSE begun)
        /\ poll_watch
        /\ UNCHANGED <<tab_now, disk, asked, other, item, presses>>

Click == presses < MaxPresses /\ presses' = presses + 1 /\ view.at # NONE

\* "Check for updates" compares with what the copy says.
CheckNow ==
    /\ Click /\ ui.busy = NONE
    /\ asked.at \in {"none", "done"}
    /\ ui' = [ui EXCEPT !.busy = tab_now, !.mark = view.disk.attempt]
    /\ view' = [at |-> NONE]
    /\ asked' = [at |-> "waits", since |-> tab_now]
    /\ fresh' = FALSE /\ begun' = {}
    /\ stale' = (disk.attempt # view.disk.attempt)
    /\ UNCHANGED <<tab_now, disk, other, item, watch, note>>

Install ==
    /\ Click /\ view.disk.pending /\ ui.install = NONE
    /\ ui' = [ui EXCEPT !.install = tab_now]
    /\ view' = [at |-> NONE]
    /\ UNCHANGED <<tab_now, disk, asked, other, item, watch, note, fresh, begun, stale>>

\* A report was queued: a sender is started and the watch begins.
ReportQueued ==
    /\ Click /\ item \in {"none", "pruned"} /\ watch = NONE
    /\ item' = "outbox" /\ watch' = tab_now /\ note' = "sending"
    /\ UNCHANGED <<tab_now, disk, view, ui, asked, other, fresh, begun, stale>>

HalfSecond ==
    /\ tab_now < MaxHalves /\ tab_now' = tab_now + 1
    /\ UNCHANGED <<disk, view, ui, asked, other, item, watch, note, fresh, begun, stale, presses>>

AboutNext ==
    \/ OtherBegins \/ OtherEnds \/ AskedBegins \/ AskedGivesUp \/ AskedEnds \/ Installed \/ Moves
    \/ Frame \/ CheckNow \/ Install \/ ReportQueued \/ HalfSecond

AboutSpec == AboutInit /\ [][AboutNext]_about_vars

-----------------------------------------------------------------------------
\* The wait for a check ends on what a check begun since the click has left,
\* and not on one before it, unless the copy the click was compared with was
\* behind, or the whole seconds of state.json do not tell the two checks apart.
\* (An installer that is there already ends it at once.)
AnswersTheClick ==
    [][ui.busy # NONE /\ ui'.busy = NONE /\ poll_check_busy(view'.disk) = "ran"
        => fresh \/ stale]_about_vars

\* A report is said to be sent, or to have failed, when it was; and it is left
\* to a later try only when its time was up.
ReportsTruly ==
    /\ note = "sent" => item \in {"sent", "pruned"}
    /\ note = "failed" => item \in {"failed", "pruned"}
    /\ watch # NONE <=> note = "sending"
=============================================================================
