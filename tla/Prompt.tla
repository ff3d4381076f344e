------------------------------- MODULE Prompt -------------------------------
(***************************************************************************)
(* The feedback prompt (editor/win_prompt.rs and the rows of editor/mod.rs *)
(* that open it and take its answer).  Each editor shows it on a thread of *)
(* its own, with a message loop; the editors of a process share the window *)
(* class.  The answer comes back through a slot the editor polls; an       *)
(* editor that is dropped closes the window and joins the thread.          *)
(***************************************************************************)
EXTENDS Integers, FiniteSets

CONSTANTS
    PromptEditors,  \* of one process
    MaxOpens        \* prompts opened

ASSUME PromptAssumption == MaxOpens \in Nat

Blank == 0          \* a report of blanks only
Texts == {Blank, 1}
NoReport == -1       \* no report: cancelled

VARIABLES
    class,          \* is the window class registered?
    pr_editor,      \* per editor: open, dropping (joins the thread), gone
    waiting,        \* prompt_wait is there
    early,          \* it was dropped before its window was there to close
    prompt,         \* per editor: its prompt's thread and window
    submitted,      \* reports the user sent
    queued, told,   \* reports in the outbox, reports whose failure was told
    opens

prompt_vars == <<class, pr_editor, waiting, early, prompt, submitted, queued, told, opens>>

NoPrompt ==
  [ at |-> "none",          \* where the thread is
    gdi |-> {},             \* the brushes and fonts it has made and not deleted
    window |-> "none",      \* none, shown, gone
    typed |-> Blank,        \* what the fields hold
    result |-> NoReport,    \* feedback.result
    closing |-> FALSE,      \* a WM_CLOSE is posted to the window
    slot |-> FALSE,         \* PromptWindow names the window
    done |-> "empty",       \* the answer left for the editor
    crossed |-> FALSE,      \* another's end took the class away in between
    refused |-> FALSE ]     \* Windows refused a class or a window

PromptInit ==
    /\ class = FALSE
    /\ pr_editor = [e \in PromptEditors |-> "open"]
    /\ waiting = [e \in PromptEditors |-> FALSE]
    /\ early = [e \in PromptEditors |-> FALSE]
    /\ prompt = [e \in PromptEditors |-> NoPrompt]
    /\ submitted = [e \in PromptEditors |-> 0]
    /\ queued = [e \in PromptEditors |-> 0]
    /\ told = [e \in PromptEditors |-> 0]
    /\ opens = 0

Brushes == {"bg_brush", "field_brush"}
Fonts == {"font_title", "font_lbl", "font_edit", "font_btn"}

-----------------------------------------------------------------------------
(* The editor: the buttons, and the answer. *)

\* open_feedback; the buttons are disabled while a prompt is waited for.
open_feedback(e) ==
    /\ pr_editor[e] = "open" /\ ~waiting[e]
    /\ opens < MaxOpens
    /\ opens' = opens + 1
    /\ prompt' = [prompt EXCEPT ![e] = [NoPrompt EXCEPT !.at = "started"]]
    /\ waiting' = [waiting EXCEPT ![e] = TRUE]
    /\ UNCHANGED <<class, pr_editor, early, submitted, queued, told>>

\* The outbox may be full, or the item not saved.
queue_report(e) ==
    \/ queued' = [queued EXCEPT ![e] = @ + 1] /\ UNCHANGED told
    \/ told' = [told EXCEPT ![e] = @ + 1] /\ UNCHANGED queued

poll_prompt(e) ==
    /\ pr_editor[e] = "open" /\ waiting[e]
    /\ prompt[e].done # "empty"
    /\ prompt' = [prompt EXCEPT ![e].done = "empty"]
    /\ waiting' = [waiting EXCEPT ![e] = FALSE]
    /\ IF prompt[e].done = "report" /\ prompt[e].result # Blank
       THEN queue_report(e)
       ELSE UNCHANGED <<queued, told>>
    /\ UNCHANGED <<class, pr_editor, early, submitted, opens>>

\* Drop for PromptWait: close_prompt posts to the window the slot names, if any.
drop(e) ==
    /\ pr_editor[e] = "open"
    /\ pr_editor' = [pr_editor EXCEPT ![e] = IF waiting[e] THEN "dropping" ELSE "gone"]
    /\ prompt' = [prompt EXCEPT ![e].closing = waiting[e] /\ prompt[e].slot /\ prompt[e].window = "shown"]
    /\ early' = [early EXCEPT ![e] = waiting[e] /\ prompt[e].at \in {"started", "registered", "created"}]
    /\ UNCHANGED <<class, waiting, submitted, queued, told, opens>>

joined(e) ==
    /\ pr_editor[e] = "dropping" /\ prompt[e].at = "none"
    /\ pr_editor' = [pr_editor EXCEPT ![e] = "gone"]
    /\ UNCHANGED <<class, waiting, early, prompt, submitted, queued, told, opens>>

-----------------------------------------------------------------------------
(* The thread. *)
Rest == <<pr_editor, waiting, early, queued, told, opens>>

PromptEnds(e, answer) == [prompt[e] EXCEPT !.at = "none", !.gdi = @ \ (Fonts \union Brushes), !.done = answer]

\* UnregisterClassW: refused while a window of the class is there.
Unregisters(e) == class /\ ~\E f \in PromptEditors : prompt[f].window = "shown"
CrossedBy(e) ==
    [f \in PromptEditors |-> [prompt[f] EXCEPT !.crossed = @ \/ (Unregisters(e) /\ prompt[f].at = "registered")]]

\* RegisterClassW; a class another prompt registered will do.
Register(e) ==
    /\ prompt[e].at = "started"
    /\ \/ /\ class' = TRUE
          /\ prompt' = [prompt EXCEPT ![e].at = "registered", ![e].gdi = Brushes]
       \/ /\ ~class
          /\ prompt' = [prompt EXCEPT ![e] = [PromptEnds(e, "cancelled") EXCEPT !.refused = TRUE]]
          /\ UNCHANGED class
    /\ UNCHANGED <<submitted, Rest>>

\* Fonts, as many as GDI has.
create_fonts(e, before) == { (before \ Fonts) \union made : made \in {Fonts, Fonts \ {"font_btn"}} }

\* CreateWindowExW: WM_CREATE builds the fields and their fonts.
build_controls(e) ==
    /\ prompt[e].at = "registered"
    /\ class
    /\ \E gdi \in create_fonts(e, prompt[e].gdi) :
          prompt' = [prompt EXCEPT ![e].at = "created", ![e].window = "shown", ![e].gdi = gdi]
    /\ UNCHANGED <<class, submitted, Rest>>

\* No window: refused, or no class any more.
CreateFails(e) ==
    /\ prompt[e].at = "registered"
    /\ prompt' = [CrossedBy(e) EXCEPT ![e] = [PromptEnds(e, "cancelled") EXCEPT !.refused = class]]
    /\ class' = (class /\ ~Unregisters(e))
    /\ UNCHANGED <<submitted, Rest>>

\* A slip: does not name its window.
ShowUnnamed(e) ==
    /\ prompt[e].at = "created"
    /\ prompt' = [prompt EXCEPT ![e].at = "loop"]
    /\ UNCHANGED <<class, submitted, Rest>>

Show(e) ==
    /\ prompt[e].at = "created"
    /\ prompt' = [prompt EXCEPT ![e].at = "loop", ![e].slot = TRUE]
    /\ UNCHANGED <<class, submitted, Rest>>

\* The messages of the loop, and wndproc's answers to them.
Type(e) ==
    /\ prompt[e].at = "loop"
    /\ \E t \in Texts : prompt' = [prompt EXCEPT ![e].typed = t]
    /\ UNCHANGED <<class, submitted, Rest>>

\* WM_DESTROY posts the quit the loop ends on.
DestroyWindow(e, result) ==
    prompt' = [prompt EXCEPT ![e] = [@ EXCEPT !.window = "gone", !.closing = FALSE, !.at = "quit", !.result = result]]

\* OK, or Ctrl+Enter in a field.
Submit(e) ==
    /\ prompt[e].at = "loop"
    /\ DestroyWindow(e, prompt[e].typed)
    /\ submitted' = [submitted EXCEPT ![e] = @ + (IF prompt[e].typed = Blank THEN 0 ELSE 1)]
    /\ UNCHANGED <<class, Rest>>

\* Escape, Cancel, or the user's close.
Cancel(e) ==
    /\ prompt[e].at = "loop"
    /\ DestroyWindow(e, NoReport)
    /\ UNCHANGED <<class, submitted, Rest>>

\* The WM_CLOSE close_prompt posted.
WmClose(e) == prompt[e].closing /\ Cancel(e)

\* WM_DPICHANGED: the old fonts are deleted and new ones made.
apply_fonts(e) ==
    /\ prompt[e].at = "loop"
    /\ \E gdi \in create_fonts(e, prompt[e].gdi) : prompt' = [prompt EXCEPT ![e].gdi = gdi]
    /\ UNCHANGED <<class, submitted, Rest>>

LoopEnds(e) ==
    /\ prompt[e].at = "quit"
    /\ prompt' = [prompt EXCEPT ![e].at = "freeing", ![e].slot = FALSE]
    /\ UNCHANGED <<class, submitted, Rest>>

\* The fonts and brushes are deleted, the class goes, the answer is left.
Free(e) ==
    /\ prompt[e].at = "freeing"
    /\ prompt' = [CrossedBy(e) EXCEPT ![e] = PromptEnds(e, IF prompt[e].result = NoReport THEN "cancelled" ELSE "report")]
    /\ class' = (class /\ ~Unregisters(e))
    /\ UNCHANGED <<submitted, Rest>>

run_feedback(e) ==
    Register(e) \/ build_controls(e) \/ CreateFails(e) \/ Show(e) \/ WmClose(e) \/ LoopEnds(e) \/ Free(e)

User(e) == Type(e) \/ Submit(e) \/ Cancel(e) \/ apply_fonts(e)

PromptNext == \E e \in PromptEditors :
    open_feedback(e) \/ poll_prompt(e) \/ drop(e) \/ joined(e) \/ run_feedback(e) \/ User(e)

PromptSpec == PromptInit /\ [][PromptNext]_prompt_vars

\* A thread goes on and a join returns; nobody has to close a window by hand.
PromptFairness == \A e \in PromptEditors : WF_prompt_vars(run_feedback(e)) /\ WF_prompt_vars(joined(e))
PromptLiveSpec == PromptSpec /\ PromptFairness

-----------------------------------------------------------------------------
PromptTypeOK ==
    /\ \A e \in PromptEditors : prompt[e].gdi \subseteq Brushes \union Fonts /\ prompt[e].typed \in Texts
    /\ opens \in 0..MaxOpens

\* A prompt that has ended has deleted every brush and font it made, whatever
\* way it ended, and the last one has taken the class with it.
NothingLeaks ==
    /\ \A e \in PromptEditors : prompt[e].at = "none" => prompt[e].gdi = {}
    /\ (\A e \in PromptEditors : prompt[e].at = "none") => ~class

\* What the user sent is put in the outbox once, or its failure told, unless
\* the editor went before it had looked.
ReportsOnce ==
    \A e \in PromptEditors :
        /\ queued[e] + told[e] <= submitted[e]
        /\ pr_editor[e] = "open" /\ ~waiting[e] => queued[e] + told[e] = submitted[e]

\* A prompt that was not shown was refused by Windows, or met the end of
\* another's between its class and its window.
ShownUnlessCrossed ==
    \A e \in PromptEditors :
        prompt[e].done = "cancelled" /\ prompt[e].window = "none" => prompt[e].refused \/ prompt[e].crossed

\* An editor dropped when its prompt's window is there to close does not wait
\* for the user: the window is closed and the join returns.
DropEnds ==
    \A e \in PromptEditors : (pr_editor[e] = "dropping" /\ ~early[e]) ~> (pr_editor[e] = "gone")
=============================================================================
