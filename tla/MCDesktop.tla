------------------------------ MODULE MCDesktop ------------------------------
(***************************************************************************)
(* The parts of the desktop side that share files and windows rather than  *)
(* memory: the outbox, the view of the pending directory, ui.json, the     *)
(* editor's prompt, panels, fields and language, the setup's job, and the  *)
(* tools that install and release.  A behaviour runs one part; the others  *)
(* stand in one initial state.                                             *)
(***************************************************************************)
EXTENDS Outbox, PendingView, UiFile, About, Prompt, Layout, Lang, Combo, Job, Install, Release, TLC

CONSTANTS e1, e2, m1, m2

MCEditors == {e1, e2}
MCMsgs == {m1, m2}

\* A screen smaller than the prompt too; the window in front may be off it.
MCScreens == {[w |-> 1920, h |-> 1080], [w |-> 800, h |-> 480]}
MCCentres == {-400, 300, 1900}
MCChrome == [w |-> 16, h |-> 39]

MCLocales == {<<"zh", "mo">>, <<"fr", "ca">>, <<"xx">>}
MCNoLocale == <<"no locale">>

MCDeltas == {-5, -1, 3, 9}

VARIABLE part

outbox_vars == <<editor, accepted, outbox, cooling, sent, failed, sender, shown, tickets, posts, refused, faults, lost>>

-----------------------------------------------------------------------------
\* A part that does not run stands in one initial state.
DesktopInit ==
    /\ part \in {"outbox", "view", "ui", "prompt", "layout", "about", "lang", "combo", "job",
                 "install", "release"}
    /\ Init /\ ViewInit /\ UiInit /\ PromptInit /\ AboutInit /\ JobInit /\ ReleaseInit
    /\ LayoutInit /\ (part # "layout" => dpi = 96)
    /\ LangInit /\ (part # "lang" => locale = <<"xx">> /\ lang_file = NoLangFile)
    /\ ComboInit /\ (part # "combo" => value = 3 /\ floor = 2)
    /\ InstallInit /\ (part # "install" => ~admin /\ ~\E s \in Scopes : Exists(s))

DesktopNext ==
    /\ UNCHANGED part
    /\ \/ /\ part = "outbox" /\ Next
          /\ UNCHANGED <<view_vars, ui_vars, prompt_vars, layout_vars, about_vars, lang_vars,
                         combo_vars, job_vars, install_vars, release_vars>>
       \/ /\ part = "view" /\ ViewNext
          /\ UNCHANGED <<outbox_vars, ui_vars, prompt_vars, layout_vars, about_vars, lang_vars,
                         combo_vars, job_vars, install_vars, release_vars>>
       \/ /\ part = "ui" /\ UiNext
          /\ UNCHANGED <<outbox_vars, view_vars, prompt_vars, layout_vars, about_vars, lang_vars,
                         combo_vars, job_vars, install_vars, release_vars>>
       \/ /\ part = "prompt" /\ PromptNext
          /\ UNCHANGED <<outbox_vars, view_vars, ui_vars, layout_vars, about_vars, lang_vars,
                         combo_vars, job_vars, install_vars, release_vars>>
       \/ /\ part = "layout" /\ LayoutNext
          /\ UNCHANGED <<outbox_vars, view_vars, ui_vars, prompt_vars, about_vars, lang_vars,
                         combo_vars, job_vars, install_vars, release_vars>>
       \/ /\ part = "about" /\ AboutNext
          /\ UNCHANGED <<outbox_vars, view_vars, ui_vars, prompt_vars, layout_vars, lang_vars,
                         combo_vars, job_vars, install_vars, release_vars>>
       \/ /\ part = "lang" /\ LangNext
          /\ UNCHANGED <<outbox_vars, view_vars, ui_vars, prompt_vars, layout_vars, about_vars,
                         combo_vars, job_vars, install_vars, release_vars>>
       \/ /\ part = "combo" /\ ComboNext
          /\ UNCHANGED <<outbox_vars, view_vars, ui_vars, prompt_vars, layout_vars, about_vars,
                         lang_vars, job_vars, install_vars, release_vars>>
       \/ /\ part = "job" /\ JobNext
          /\ UNCHANGED <<outbox_vars, view_vars, ui_vars, prompt_vars, layout_vars, about_vars,
                         lang_vars, combo_vars, install_vars, release_vars>>
       \/ /\ part = "install" /\ InstallNext
          /\ UNCHANGED <<outbox_vars, view_vars, ui_vars, prompt_vars, layout_vars, about_vars,
                         lang_vars, combo_vars, job_vars, release_vars>>
       \/ /\ part = "release" /\ ReleaseNext
          /\ UNCHANGED <<outbox_vars, view_vars, ui_vars, prompt_vars, layout_vars, about_vars,
                         lang_vars, combo_vars, job_vars, install_vars>>

desktop_vars == <<part, outbox_vars, view_vars, ui_vars, prompt_vars, layout_vars, about_vars,
                  lang_vars, combo_vars, job_vars, install_vars, release_vars>>

DesktopSpec == DesktopInit /\ [][DesktopNext]_desktop_vars

-----------------------------------------------------------------------------
\* FeedbackSound is Outbox's own, CacheHonest PendingView's, SettingsFileHolds
\* UiFile's, AnswersTheClick About's, ArgumentsReach Job's.  The others' are
\* looked at while their part runs, and those of pure functions once.

\* The prompt frees what it made and its report reaches the outbox once; its
\* controls fit and so do menus; a dragged number follows the pointer and asks
\* within bounds; the language shown is the one chosen (win_prompt.rs,
\* widgets.rs, deviceout-i18n).
EditorSound ==
    /\ part = "prompt" => PromptTypeOK /\ NothingLeaks /\ ReportsOnce /\ ShownUnlessCrossed
    /\ part = "layout" => LayoutFits /\ OpensOnScreen
    /\ part = "combo" => ComboTypeOK /\ FollowsThePointer /\ AsksWithinBounds
    /\ part = "combo" /\ total = 0 /\ value = 3 => StepsComeBack /\ MenuFits
    /\ part = "lang" => ShownAsChosen
    /\ part = "lang" /\ cached = 0 => PreferencesComeBack
    /\ part = "about" => ReportsTruly

\* The setup leaves nothing running; an install, an uninstall and a release
\* leave what they report (job.rs, install.rs, package.rs, publish.rs).
InstallSound ==
    /\ part = "job" => TreeEnds /\ OutcomeTold
    /\ part = "install" => DoneAsReported /\ OpenBundlesAreLeft
    /\ part = "release" => UploadedWhole /\ FeedNamesItsSetup

\* Whatever the setup is called with reaches it as it was given (job.rs).
ArgumentsReach == part = "job" /\ job_at = "start" => ArgumentsArrive
=============================================================================
