-------------------------- MODULE MCDesktop_proofs --------------------------
(***************************************************************************)
(* Proofs about the desktop side's windows and errands: the feedback prompt*)
(* for any number of editors and openings, its layout at any density, size *)
(* and screen, the number field for any bounds and drags, the language for *)
(* any locales and readers; the setup's job for any patience; installs and *)
(* releases for any scopes, builds and number of commands; and the side as *)
(* a whole, which runs one of these or one of Desktop_proofs' parts.       *)
(***************************************************************************)
EXTENDS MCDesktop, Desktop_proofs

-----------------------------------------------------------------------------
(* Two integers                                                            *)

LEMMA LargerOfTwo == ASSUME NEW a \in Int, NEW b \in Int PROVE Max({a, b}) = IF a >= b THEN a ELSE b
<1>1. \E x \in {a, b} : \A y \in {a, b} : x >= y
  OBVIOUS
<1>2. Max({a, b}) \in {a, b} /\ \A y \in {a, b} : Max({a, b}) >= y
  BY <1>1 DEF Max
<1>3. QED
  BY <1>2

LEMMA SmallerOfThem == ASSUME NEW a \in Int, NEW b \in Int PROVE Min({a, b}) = IF a <= b THEN a ELSE b
<1>1. \E x \in {a, b} : \A y \in {a, b} : x <= y
  OBVIOUS
<1>2. Min({a, b}) \in {a, b} /\ \A y \in {a, b} : Min({a, b}) <= y
  BY <1>1 DEF Min
<1>3. QED
  BY <1>2

-----------------------------------------------------------------------------
(* The feedback prompt                                                     *)

PromptStages == {"none", "started", "registered", "created", "loop", "quit", "freeing"}
Prompts ==
    [ at : PromptStages, gdi : SUBSET (Brushes \union Fonts), window : {"none", "shown", "gone"},
      typed : Texts, result : Texts \union {NoReport}, closing : BOOLEAN, slot : BOOLEAN,
      done : {"empty", "cancelled", "report"}, crossed : BOOLEAN, refused : BOOLEAN ]

PromptTypes ==
    /\ class \in BOOLEAN /\ opens \in 0..MaxOpens
    /\ pr_editor \in [PromptEditors -> {"open", "dropping", "gone"}]
    /\ waiting \in [PromptEditors -> BOOLEAN]
    /\ prompt \in [PromptEditors -> Prompts]
    /\ submitted \in [PromptEditors -> Nat]
    /\ queued \in [PromptEditors -> Nat] /\ told \in [PromptEditors -> Nat]

(* A thread has a window between its making and its end, frees what it has *)
(* made before it leaves its answer, and knows why it showed nothing.      *)
Orderly(q) ==
    /\ q.at = "none" => q.gdi = {}
    /\ q.window = "shown" <=> q.at \in {"created", "loop"}
    /\ q.at \in {"quit", "freeing"} => q.window = "gone"
    /\ q.done # "empty" => q.at = "none"
    /\ q.done = "report" => q.result # NoReport
    /\ q.done = "cancelled" /\ q.window = "none" => q.refused \/ q.crossed

(* The user has sent a report that the editor has not looked at.           *)
Owed(q) ==
    /\ q.result \notin {NoReport, Blank}
    /\ q.at \in {"quit", "freeing"} \/ (q.at = "none" /\ q.done = "report")

(* A registered class has a thread that will unregister it, and a thread   *)
(* without its class was crossed.                                          *)
ClassHeld ==
    /\ class => \E e \in PromptEditors : prompt[e].at \notin {"none", "started"}
    /\ \A e \in PromptEditors : prompt[e].at = "registered" => class \/ prompt[e].crossed

Accounted(e) ==
    /\ submitted[e] = queued[e] + told[e] + (IF Owed(prompt[e]) THEN 1 ELSE 0)
    /\ pr_editor[e] = "open" /\ ~waiting[e] => prompt[e].at = "none" /\ prompt[e].done = "empty"

PromptInv ==
    /\ PromptTypes
    /\ ClassHeld
    /\ \A e \in PromptEditors : Orderly(prompt[e]) /\ Accounted(e)

LEMMA PromptInit_Inv == PromptInit => PromptInv
<1> SUFFICES ASSUME PromptInit PROVE PromptInv
  OBVIOUS
<1>1. NoPrompt \in Prompts /\ Orderly(NoPrompt) /\ ~Owed(NoPrompt)
  BY DEF NoPrompt, Prompts, PromptStages, Texts, Orderly, Owed, Blank, NoReport
<1>2. PromptTypes
  <2>1. prompt \in [PromptEditors -> Prompts]
    BY <1>1 DEF PromptInit
  <2>2. opens \in 0..MaxOpens
    BY PromptAssumption DEF PromptInit
  <2>3. QED
    BY <2>1, <2>2 DEF PromptInit, PromptTypes
<1>3. \A e \in PromptEditors : prompt[e] = NoPrompt
  BY DEF PromptInit
<1>4. ClassHeld
  BY <1>3 DEF ClassHeld, PromptInit, NoPrompt
<1>5. ASSUME NEW e \in PromptEditors PROVE Orderly(prompt[e]) /\ Accounted(e)
  BY <1>1, <1>3 DEF Accounted, PromptInit, NoPrompt
<1>6. QED
  BY <1>2, <1>4, <1>5 DEF PromptInv

(* A step that touches one prompt at most.                                 *)
LEMMA OnePrompt ==
    ASSUME PromptInv, NEW e \in PromptEditors, NEW q \in Prompts,
           prompt' = [prompt EXCEPT ![e] = q], Orderly(q),
           class' \in BOOLEAN, opens' \in 0..MaxOpens,
           pr_editor' \in [PromptEditors -> {"open", "dropping", "gone"}],
           waiting' \in [PromptEditors -> BOOLEAN],
           submitted' \in [PromptEditors -> Nat],
           queued' \in [PromptEditors -> Nat], told' \in [PromptEditors -> Nat],
           class' => class \/ q.at \notin {"none", "started"},
           class => class',
           class /\ prompt[e].at \notin {"none", "started"} => q.at \notin {"none", "started"},
           q.at = "registered" => class' \/ q.crossed,
           \A f \in PromptEditors \ {e} :
              UNCHANGED <<submitted[f], queued[f], told[f], pr_editor[f], waiting[f]>>,
           Accounted(e)'
    PROVE  PromptInv'
<1>1. prompt'[e] = q /\ \A f \in PromptEditors \ {e} : prompt'[f] = prompt[f]
  BY DEF PromptInv, PromptTypes
<1>2. PromptTypes'
  BY DEF PromptInv, PromptTypes
<1>3. ClassHeld'
  BY <1>1 DEF PromptInv, ClassHeld
<1>4. ASSUME NEW f \in PromptEditors PROVE Orderly(prompt[f])' /\ Accounted(f)'
  BY <1>1 DEF PromptInv, Orderly, Accounted, Owed
<1>5. QED
  BY <1>2, <1>3, <1>4 DEF PromptInv
(* Each step of an editor or of its thread.                                *)
LEMMA OpenKeeps == ASSUME PromptInv, NEW e \in PromptEditors, open_feedback(e) PROVE PromptInv'
<1> DEFINE q == [NoPrompt EXCEPT !.at = "started"]
<1>1. /\ PromptTypes /\ ClassHeld /\ Orderly(prompt[e]) /\ Accounted(e)
      /\ prompt[e].at = "none" /\ prompt[e].done = "empty"
  BY DEF PromptInv, open_feedback, Accounted
<1>2. q \in Prompts /\ Orderly(q) /\ ~Owed(q) /\ q.at = "started"
  BY DEF NoPrompt, Prompts, PromptStages, Texts, Orderly, Owed, Blank, NoReport
<1>3. prompt' = [prompt EXCEPT ![e] = q] /\ prompt'[e] = q
  BY <1>1 DEF open_feedback, PromptTypes
<1>4. Accounted(e)'
  BY <1>1, <1>2, <1>3 DEF Accounted, open_feedback, PromptTypes, Owed
<1> HIDE DEF q
<1>5. /\ opens' \in 0..MaxOpens /\ waiting' \in [PromptEditors -> BOOLEAN]
      /\ \A f \in PromptEditors \ {e} : UNCHANGED waiting[f]
      /\ UNCHANGED <<class, pr_editor, submitted, queued, told>>
  BY <1>1, PromptAssumption DEF open_feedback, PromptTypes
<1>6. QED
  BY <1>1, <1>2, <1>3, <1>4, <1>5, OnePrompt DEF PromptTypes

LEMMA PollKeeps == ASSUME PromptInv, NEW e \in PromptEditors, poll_prompt(e) PROVE PromptInv'
<1> DEFINE q == [prompt[e] EXCEPT !.done = "empty"]
<1>1. /\ PromptTypes /\ ClassHeld /\ Orderly(prompt[e]) /\ Accounted(e)
      /\ prompt[e].at = "none" /\ prompt[e] \in Prompts
  BY DEF PromptInv, poll_prompt, Orderly, PromptTypes
<1>2. q \in Prompts /\ Orderly(q) /\ ~Owed(q) /\ q.at = "none" /\ q.done = "empty"
  BY <1>1 DEF Prompts, Orderly, Owed
<1>3. prompt' = [prompt EXCEPT ![e] = q] /\ prompt'[e] = q
  BY <1>1 DEF poll_prompt, PromptTypes
<1>4. /\ queued' \in [PromptEditors -> Nat] /\ told' \in [PromptEditors -> Nat]
      /\ \A f \in PromptEditors \ {e} : UNCHANGED <<queued[f], told[f]>>
      /\ queued'[e] + told'[e] = queued[e] + told[e] + (IF Owed(prompt[e]) THEN 1 ELSE 0)
  <2>1. CASE prompt[e].done = "report" /\ prompt[e].result # Blank
    <3>1. Owed(prompt[e])
      BY <1>1, <2>1 DEF Orderly, Owed
    <3>2. CASE queued' = [queued EXCEPT ![e] = @ + 1] /\ UNCHANGED told
      BY <1>1, <3>1, <3>2 DEF PromptTypes
    <3>3. CASE told' = [told EXCEPT ![e] = @ + 1] /\ UNCHANGED queued
      BY <1>1, <3>1, <3>3 DEF PromptTypes
    <3>4. QED
      BY <2>1, <3>2, <3>3 DEF poll_prompt, queue_report
  <2>2. CASE ~(prompt[e].done = "report" /\ prompt[e].result # Blank)
    BY <1>1, <2>2 DEF poll_prompt, PromptTypes, Owed
  <2>3. QED
    BY <2>1, <2>2
<1>5. submitted' = submitted /\ waiting' = [waiting EXCEPT ![e] = FALSE]
      /\ UNCHANGED <<class, pr_editor, opens>>
  BY DEF poll_prompt
<1>6. Accounted(e)'
  BY <1>1, <1>2, <1>3, <1>4, <1>5 DEF Accounted, PromptTypes
<1> HIDE DEF q
<1>7. QED
  BY <1>1, <1>2, <1>3, <1>4, <1>5, <1>6, OnePrompt DEF PromptTypes

LEMMA DropKeeps == ASSUME PromptInv, NEW e \in PromptEditors, drop(e) PROVE PromptInv'
<1> DEFINE posted == waiting[e] /\ prompt[e].slot /\ prompt[e].window = "shown"
           q == [prompt[e] EXCEPT !.closing = posted]
<1>1. /\ PromptTypes /\ ClassHeld /\ Orderly(prompt[e]) /\ Accounted(e) /\ prompt[e] \in Prompts
      /\ posted \in BOOLEAN
  BY DEF PromptInv, PromptTypes, Prompts
<1>2. prompt' = [prompt EXCEPT ![e] = q]
  BY DEF drop
<1> HIDE DEF posted
<1>3. /\ q \in Prompts /\ Orderly(q) /\ (Owed(q) <=> Owed(prompt[e])) /\ q.at = prompt[e].at
      /\ q.crossed = prompt[e].crossed
  BY <1>1 DEF Prompts, Orderly, Owed
<1>4. prompt'[e] = q
  BY <1>1, <1>2 DEF PromptTypes
<1>5. /\ UNCHANGED <<class, waiting, submitted, queued, told, opens>>
      /\ pr_editor' = [pr_editor EXCEPT ![e] = IF waiting[e] THEN "dropping" ELSE "gone"]
  BY DEF drop
<1>6. Accounted(e)'
  BY <1>1, <1>3, <1>4, <1>5 DEF Accounted, PromptTypes
<1> HIDE DEF q
<1>7. QED
  BY <1>1, <1>2, <1>3, <1>5, <1>6, OnePrompt DEF PromptTypes, ClassHeld

LEMMA JoinedKeeps == ASSUME PromptInv, NEW e \in PromptEditors, joined(e) PROVE PromptInv'
BY DEF PromptInv, joined, PromptTypes, ClassHeld, Accounted

-----------------------------------------------------------------------------
(* The thread's own steps leave the editor's side alone, and report what   *)
(* the user sent.                                                          *)
LEMMA ThreadStep ==
    ASSUME PromptInv, NEW e \in PromptEditors, NEW q \in Prompts,
           prompt' = [prompt EXCEPT ![e] = q], Orderly(q), prompt[e].at # "none",
           UNCHANGED Rest,
           class' \in BOOLEAN, class => class', class' => class \/ q.at \notin {"none", "started"},
           class /\ prompt[e].at \notin {"none", "started"} => q.at \notin {"none", "started"},
           q.at = "registered" => class' \/ q.crossed,
           submitted' = [submitted EXCEPT ![e] =
               @ + (IF Owed(q) /\ ~Owed(prompt[e]) THEN 1 ELSE 0)],
           Owed(prompt[e]) => Owed(q)
    PROVE  PromptInv'
<1>1. PromptTypes /\ Accounted(e) /\ prompt'[e] = q
  BY DEF PromptInv, PromptTypes
<1>2. Accounted(e)'
  BY <1>1 DEF Accounted, Rest, PromptTypes
<1>3. submitted' \in [PromptEditors -> Nat]
  BY <1>1 DEF PromptTypes
<1>4. QED
  BY <1>1, <1>2, <1>3, OnePrompt DEF PromptTypes, Rest

(* A step that only goes on within the thread.                             *)
LEMMA RegisterKeeps == ASSUME PromptInv, NEW e \in PromptEditors, Register(e) PROVE PromptInv'
<1>1. /\ PromptTypes /\ Orderly(prompt[e]) /\ prompt[e] \in Prompts /\ prompt[e].at = "started"
      /\ UNCHANGED submitted /\ UNCHANGED Rest
  BY DEF PromptInv, PromptTypes, Register
<1>2. submitted = [submitted EXCEPT ![e] = @ + 0]
  BY <1>1 DEF PromptTypes
<1>3. CASE class' = TRUE /\ prompt' = [prompt EXCEPT ![e].at = "registered", ![e].gdi = Brushes]
  <2> DEFINE q == [prompt[e] EXCEPT !.at = "registered", !.gdi = Brushes]
  <2>1. prompt' = [prompt EXCEPT ![e] = q]
    BY <1>1, <1>3 DEF PromptTypes, Prompts
  <2>2. /\ q \in Prompts /\ Orderly(q) /\ ~Owed(q) /\ ~Owed(prompt[e]) /\ q.at = "registered"
    BY <1>1 DEF Prompts, Orderly, Owed, PromptStages, Brushes
  <2> HIDE DEF q
  <2>3. QED
    BY <1>1, <1>2, <1>3, <2>1, <2>2, ThreadStep DEF PromptTypes
<1>4. CASE ~class /\ UNCHANGED class /\ prompt' = [prompt EXCEPT ![e] = [PromptEnds(e, "cancelled") EXCEPT !.refused = TRUE]]
  <2> DEFINE q == [PromptEnds(e, "cancelled") EXCEPT !.refused = TRUE]
  <2>1. /\ q \in Prompts /\ q.at = "none" /\ q.gdi = {} /\ q.done = "cancelled" /\ q.refused
        /\ q.window = prompt[e].window
    BY <1>1 DEF Prompts, PromptEnds, PromptStages
  <2>2. Orderly(q) /\ ~Owed(q) /\ ~Owed(prompt[e])
    BY <1>1, <2>1 DEF Orderly, Owed
  <2> HIDE DEF q
  <2>3. QED
    BY <1>1, <1>2, <1>4, <2>1, <2>2, ThreadStep DEF PromptTypes, q
<1>5. QED
  BY <1>3, <1>4 DEF Register

LEMMA BuildControlsKeeps == ASSUME PromptInv, NEW e \in PromptEditors, build_controls(e) PROVE PromptInv'
<1>1. PICK gdi \in create_fonts(e, prompt[e].gdi) :
          prompt' = [prompt EXCEPT ![e].at = "created", ![e].window = "shown", ![e].gdi = gdi]
  BY DEF build_controls
<1> DEFINE q == [prompt[e] EXCEPT !.at = "created", !.window = "shown", !.gdi = gdi]
<1>2. /\ PromptTypes /\ Orderly(prompt[e]) /\ prompt[e] \in Prompts /\ prompt[e].at = "registered"
      /\ UNCHANGED <<class, submitted>> /\ UNCHANGED Rest
  BY DEF PromptInv, PromptTypes, build_controls
<1>3. gdi \in SUBSET (Brushes \union Fonts)
  BY <1>2 DEF create_fonts, Prompts
<1>4. prompt' = [prompt EXCEPT ![e] = q]
  BY <1>1, <1>2 DEF PromptTypes, Prompts
<1>5. q \in Prompts /\ Orderly(q) /\ ~Owed(q) /\ ~Owed(prompt[e]) /\ q.at = "created"
  BY <1>2, <1>3 DEF Prompts, Orderly, Owed, PromptStages
<1>6. submitted = [submitted EXCEPT ![e] = @ + 0]
  BY <1>2 DEF PromptTypes
<1> HIDE DEF q
<1>7. QED
  BY <1>2, <1>4, <1>5, <1>6, ThreadStep DEF PromptTypes

(* The window's messages, and the steps around the loop.                   *)
LEMMA ShowKeeps == ASSUME PromptInv, NEW e \in PromptEditors, Show(e) PROVE PromptInv'
<1> DEFINE q == [prompt[e] EXCEPT !.at = "loop", !.slot = TRUE]
<1>1. /\ PromptTypes /\ Orderly(prompt[e]) /\ prompt[e] \in Prompts /\ prompt[e].at = "created"
      /\ UNCHANGED <<class, submitted>> /\ UNCHANGED Rest
  BY DEF PromptInv, PromptTypes, Show
<1>2. prompt' = [prompt EXCEPT ![e] = q]
  BY <1>1 DEF PromptTypes, Prompts, Show
<1>3. q \in Prompts /\ Orderly(q) /\ ~Owed(q) /\ ~Owed(prompt[e]) /\ q.at = "loop"
  BY <1>1 DEF Prompts, Orderly, Owed, PromptStages
<1>4. submitted = [submitted EXCEPT ![e] = @ + 0]
  BY <1>1 DEF PromptTypes
<1> HIDE DEF q
<1>5. QED
  BY <1>1, <1>2, <1>3, <1>4, ThreadStep DEF PromptTypes

LEMMA TypeKeeps == ASSUME PromptInv, NEW e \in PromptEditors, Type(e) PROVE PromptInv'
<1>1. PICK t \in Texts : prompt' = [prompt EXCEPT ![e].typed = t]
  BY DEF Type
<1> DEFINE q == [prompt[e] EXCEPT !.typed = t]
<1>2. /\ PromptTypes /\ Orderly(prompt[e]) /\ prompt[e] \in Prompts /\ prompt[e].at = "loop"
      /\ UNCHANGED <<class, submitted>> /\ UNCHANGED Rest
  BY DEF PromptInv, PromptTypes, Type
<1>3. prompt' = [prompt EXCEPT ![e] = q]
  BY <1>1, <1>2 DEF PromptTypes, Prompts
<1>4. q \in Prompts /\ Orderly(q) /\ ~Owed(q) /\ ~Owed(prompt[e]) /\ q.at = "loop"
  BY <1>2 DEF Prompts, Orderly, Owed
<1>5. submitted = [submitted EXCEPT ![e] = @ + 0]
  BY <1>2 DEF PromptTypes
<1> HIDE DEF q
<1>6. QED
  BY <1>2, <1>3, <1>4, <1>5, ThreadStep DEF PromptTypes

LEMMA FontsKeep == ASSUME PromptInv, NEW e \in PromptEditors, apply_fonts(e) PROVE PromptInv'
<1>1. PICK gdi \in create_fonts(e, prompt[e].gdi) : prompt' = [prompt EXCEPT ![e].gdi = gdi]
  BY DEF apply_fonts
<1> DEFINE q == [prompt[e] EXCEPT !.gdi = gdi]
<1>2. /\ PromptTypes /\ Orderly(prompt[e]) /\ prompt[e] \in Prompts /\ prompt[e].at = "loop"
      /\ UNCHANGED <<class, submitted>> /\ UNCHANGED Rest
  BY DEF PromptInv, PromptTypes, apply_fonts
<1>3. gdi \in SUBSET (Brushes \union Fonts)
  BY <1>2 DEF create_fonts, Prompts
<1>4. prompt' = [prompt EXCEPT ![e] = q]
  BY <1>1, <1>2 DEF PromptTypes, Prompts
<1>5. q \in Prompts /\ Orderly(q) /\ ~Owed(q) /\ ~Owed(prompt[e]) /\ q.at = "loop"
  BY <1>2, <1>3 DEF Prompts, Orderly, Owed
<1>6. submitted = [submitted EXCEPT ![e] = @ + 0]
  BY <1>2 DEF PromptTypes
<1> HIDE DEF q
<1>7. QED
  BY <1>2, <1>4, <1>5, <1>6, ThreadStep DEF PromptTypes

(* The window is destroyed with a result, which is what the user has sent. *)
LEMMA DestroyKeeps ==
    ASSUME PromptInv, NEW e \in PromptEditors, prompt[e].at = "loop",
           NEW result \in Texts \union {NoReport}, DestroyWindow(e, result),
           submitted' = [submitted EXCEPT ![e] = @ + (IF result \in {NoReport, Blank} THEN 0 ELSE 1)],
           UNCHANGED class, UNCHANGED Rest
    PROVE  PromptInv'
<1> DEFINE q == [prompt[e] EXCEPT !.window = "gone", !.closing = FALSE, !.at = "quit", !.result = result]
<1>1. PromptTypes /\ Orderly(prompt[e]) /\ prompt[e] \in Prompts
  BY DEF PromptInv, PromptTypes
<1>2. prompt' = [prompt EXCEPT ![e] = q]
  BY <1>1 DEF PromptTypes, Prompts, DestroyWindow
<1>3. /\ q \in Prompts /\ Orderly(q) /\ ~Owed(prompt[e]) /\ q.at = "quit"
      /\ Owed(q) <=> result \notin {NoReport, Blank}
  BY <1>1 DEF Prompts, Orderly, Owed, PromptStages
<1>4. submitted' = [submitted EXCEPT ![e] = @ + (IF Owed(q) /\ ~Owed(prompt[e]) THEN 1 ELSE 0)]
  BY <1>3
<1> HIDE DEF q
<1>5. QED
  BY <1>1, <1>2, <1>3, <1>4, ThreadStep DEF PromptTypes

LEMMA SubmitKeeps == ASSUME PromptInv, NEW e \in PromptEditors, Submit(e) PROVE PromptInv'
<1>1. prompt[e].typed \in Texts /\ prompt[e].typed # NoReport
  BY DEF PromptInv, PromptTypes, Prompts, Texts, Blank, NoReport
<1>2. QED
  BY <1>1, DestroyKeeps DEF Submit

LEMMA CancelKeeps == ASSUME PromptInv, NEW e \in PromptEditors, Cancel(e) PROVE PromptInv'
<1>1. submitted' = [submitted EXCEPT ![e] = @ + 0]
  BY DEF Cancel, PromptInv, PromptTypes
<1>2. QED
  BY <1>1, DestroyKeeps DEF Cancel

LEMMA LoopEndsKeeps == ASSUME PromptInv, NEW e \in PromptEditors, LoopEnds(e) PROVE PromptInv'
<1> DEFINE q == [prompt[e] EXCEPT !.at = "freeing", !.slot = FALSE]
<1>1. /\ PromptTypes /\ Orderly(prompt[e]) /\ prompt[e] \in Prompts /\ prompt[e].at = "quit"
      /\ UNCHANGED <<class, submitted>> /\ UNCHANGED Rest
  BY DEF PromptInv, PromptTypes, LoopEnds
<1>2. prompt' = [prompt EXCEPT ![e] = q]
  BY <1>1 DEF PromptTypes, Prompts, LoopEnds
<1>3. q \in Prompts /\ Orderly(q) /\ (Owed(q) <=> Owed(prompt[e])) /\ q.at = "freeing"
  BY <1>1 DEF Prompts, Orderly, Owed, PromptStages
<1>4. submitted = [submitted EXCEPT ![e] = @ + (IF Owed(q) /\ ~Owed(prompt[e]) THEN 1 ELSE 0)]
  BY <1>1, <1>3 DEF PromptTypes
<1> HIDE DEF q
<1>5. QED
  BY <1>1, <1>2, <1>3, <1>4, ThreadStep DEF PromptTypes

-----------------------------------------------------------------------------
(* A thread that ends takes the class away, if no window is left, from     *)
(* whoever has registered it and not made a window yet.                    *)
LEMMA LeavingKeeps ==
    ASSUME PromptInv, NEW e \in PromptEditors, NEW q \in Prompts, Orderly(q), q.at = "none",
           prompt' = [CrossedBy(e) EXCEPT ![e] = q], class' = (class /\ ~Unregisters(e)),
           prompt[e].at \in {"registered", "freeing"}, Owed(q) <=> Owed(prompt[e]),
           UNCHANGED submitted, UNCHANGED Rest
    PROVE  PromptInv'
<1>1. PromptTypes /\ ClassHeld /\ Accounted(e) /\ \A f \in PromptEditors : Orderly(prompt[f]) /\ Accounted(f)
  BY DEF PromptInv
<1>2. prompt'[e] = q
  BY DEF CrossedBy
<1>3. ASSUME NEW f \in PromptEditors \ {e}
      PROVE  /\ prompt'[f] \in Prompts /\ Orderly(prompt'[f]) /\ (Owed(prompt'[f]) <=> Owed(prompt[f]))
             /\ prompt'[f].at = prompt[f].at /\ prompt'[f].done = prompt[f].done
             /\ prompt[f].at = "registered" => class' \/ prompt'[f].crossed
  <2> DEFINE gone == Unregisters(e) /\ prompt[f].at = "registered"
             r == [prompt[f] EXCEPT !.crossed = @ \/ gone]
  <2>1. prompt'[f] = r
    BY DEF CrossedBy
  <2>2. prompt[f] \in Prompts /\ Orderly(prompt[f]) /\ class \in BOOLEAN
    BY <1>1 DEF PromptTypes
  <2>3. r = [prompt[f] EXCEPT !.crossed = prompt[f].crossed \/ gone]
    OBVIOUS
  <2>4. gone \in BOOLEAN /\ (prompt[f].crossed \/ gone) \in BOOLEAN
    OBVIOUS
  <2>5. PICK b \in BOOLEAN : b = (prompt[f].crossed \/ gone)
    BY <2>4
  <2>6. r = [prompt[f] EXCEPT !.crossed = b]
    BY <2>3, <2>5
  <2> HIDE DEF r
  <2>7. r \in Prompts /\ r.at = prompt[f].at /\ r.done = prompt[f].done /\ r.window = prompt[f].window
        /\ r.gdi = prompt[f].gdi /\ r.result = prompt[f].result /\ r.refused = prompt[f].refused /\ r.crossed = b
    BY <2>2, <2>6 DEF Prompts
  <2> HIDE DEF gone
  <2>8. Orderly(r) /\ (Owed(r) <=> Owed(prompt[f]))
    BY <2>2, <2>5, <2>7 DEF Orderly, Owed
  <2>9. prompt[f].at = "registered" => class' \/ r.crossed
    <3>1. prompt[f].at = "registered" => class \/ prompt[f].crossed
      BY <1>1 DEF ClassHeld
    <3>2. QED
      BY <3>1, <2>5, <2>7 DEF gone
  <2>10. QED
    BY <2>1, <2>7, <2>8, <2>9
<1>4. PromptTypes'
  <2>1. prompt' \in [PromptEditors -> Prompts]
    <3>1. prompt' = [f \in PromptEditors |-> prompt'[f]]
      BY DEF CrossedBy
    <3>2. QED
      BY <1>2, <1>3, <3>1
  <2>2. class' \in BOOLEAN
    BY <1>1 DEF PromptTypes
  <2>3. QED
    BY <1>1, <2>1, <2>2 DEF PromptTypes, Rest
<1>5. ClassHeld'
  <2>1. ASSUME class' PROVE \E f \in PromptEditors : prompt'[f].at \notin {"none", "started"}
    <3>1. PICK f \in PromptEditors : prompt[f].window = "shown"
      BY <2>1 DEF Unregisters
    <3>2. prompt[f].at \in {"created", "loop"}
      BY <1>1, <3>1 DEF Orderly
    <3>3. QED
      BY <1>3, <3>2
  <2>2. QED
    BY <1>2, <1>3, <2>1 DEF ClassHeld
<1>6. ASSUME NEW f \in PromptEditors PROVE Orderly(prompt[f])' /\ Accounted(f)'
  <2>1. Accounted(f)
    BY <1>1
  <2>2. UNCHANGED <<submitted, queued, told, pr_editor, waiting>>
    BY DEF Rest
  <2>3. CASE f = e
    <3>1. prompt[e].at # "none"
      OBVIOUS
    <3>2. QED
      BY <1>2, <2>1, <2>2, <2>3, <3>1 DEF Accounted, Orderly
  <2>4. CASE f # e
    <3>1. /\ Orderly(prompt'[f]) /\ (Owed(prompt'[f]) <=> Owed(prompt[f]))
          /\ prompt'[f].at = prompt[f].at /\ prompt'[f].done = prompt[f].done
      BY <1>3, <2>4
    <3>2. QED
      BY <2>1, <2>2, <3>1 DEF Accounted, Orderly
  <2>5. QED
    BY <2>3, <2>4
<1>7. QED
  BY <1>4, <1>5, <1>6 DEF PromptInv

LEMMA CreateFailsKeeps == ASSUME PromptInv, NEW e \in PromptEditors, CreateFails(e) PROVE PromptInv'
<1> DEFINE q == [PromptEnds(e, "cancelled") EXCEPT !.refused = class]
<1>1. /\ class \in BOOLEAN /\ prompt[e] \in Prompts /\ Orderly(prompt[e]) /\ prompt[e].at = "registered"
      /\ class \/ prompt[e].crossed
  BY DEF PromptInv, PromptTypes, ClassHeld, CreateFails
<1>2. PICK b \in BOOLEAN : b = class
  BY <1>1
<1>3. /\ q \in Prompts /\ q.at = "none" /\ q.gdi = {} /\ q.window = prompt[e].window
      /\ q.done = "cancelled" /\ q.refused = b /\ q.crossed = prompt[e].crossed
  BY <1>1, <1>2 DEF Prompts, PromptEnds, PromptStages
<1>4. prompt' = [CrossedBy(e) EXCEPT ![e] = q] /\ class' = (class /\ ~Unregisters(e))
      /\ UNCHANGED submitted /\ UNCHANGED Rest
  BY DEF CreateFails
<1> HIDE DEF q
<1>5. Orderly(q) /\ ~Owed(q) /\ ~Owed(prompt[e])
  BY <1>1, <1>2, <1>3 DEF Orderly, Owed
<1>6. QED
  BY <1>1, <1>3, <1>4, <1>5, LeavingKeeps

LEMMA FreeKeeps == ASSUME PromptInv, NEW e \in PromptEditors, Free(e) PROVE PromptInv'
<1> DEFINE answer == IF prompt[e].result = NoReport THEN "cancelled" ELSE "report"
           q == PromptEnds(e, answer)
<1>1. prompt[e] \in Prompts /\ Orderly(prompt[e]) /\ prompt[e].at = "freeing"
  BY DEF PromptInv, PromptTypes, Free
<1>2. /\ q \in Prompts /\ q.at = "none" /\ q.gdi = {} /\ q.window = prompt[e].window
      /\ q.result = prompt[e].result /\ q.done = answer
  BY <1>1 DEF Prompts, PromptEnds, PromptStages
<1>3. prompt' = [CrossedBy(e) EXCEPT ![e] = q] /\ class' = (class /\ ~Unregisters(e))
      /\ UNCHANGED submitted /\ UNCHANGED Rest
  BY DEF Free
<1> HIDE DEF q
<1>4. Orderly(q) /\ (Owed(q) <=> Owed(prompt[e]))
  BY <1>1, <1>2 DEF Orderly, Owed
<1>5. QED
  BY <1>1, <1>2, <1>3, <1>4, LeavingKeeps

LEMMA PromptStep == PromptInv /\ [PromptNext]_prompt_vars => PromptInv'
<1> SUFFICES ASSUME PromptInv, [PromptNext]_prompt_vars PROVE PromptInv'
  OBVIOUS
<1>1. CASE UNCHANGED prompt_vars
  BY <1>1 DEF prompt_vars, PromptInv, PromptTypes, ClassHeld, Accounted
<1>2. CASE PromptNext
  <2>1. PICK e \in PromptEditors :
            open_feedback(e) \/ poll_prompt(e) \/ drop(e) \/ joined(e) \/ run_feedback(e) \/ User(e)
    BY <1>2 DEF PromptNext
  <2>2. CASE open_feedback(e) \/ poll_prompt(e) \/ drop(e) \/ joined(e)
    BY <2>2, OpenKeeps, PollKeeps, DropKeeps, JoinedKeeps
  <2>3. CASE run_feedback(e)
    BY <2>3, RegisterKeeps, BuildControlsKeeps, CreateFailsKeeps, ShowKeeps, CancelKeeps, LoopEndsKeeps, FreeKeeps
       DEF run_feedback, WmClose
  <2>4. CASE User(e)
    BY <2>4, TypeKeeps, SubmitKeeps, CancelKeeps, FontsKeep DEF User
  <2>5. QED
    BY <2>1, <2>2, <2>3, <2>4
<1>3. QED
  BY <1>1, <1>2

\* The feedback prompts of a process: a thread that has ended has deleted what
\* it made and the last takes the class; what the user sent is queued once, or
\* its failure told, and nothing else is; a prompt not shown was refused, or
\* crossed by another's end.
THEOREM PromptsAreSound == PromptSpec => [](PromptTypeOK /\ NothingLeaks /\ ReportsOnce /\ ShownUnlessCrossed)
<1>1. PromptInv => PromptTypeOK /\ NothingLeaks /\ ReportsOnce /\ ShownUnlessCrossed
  <2> SUFFICES ASSUME PromptInv PROVE PromptTypeOK /\ NothingLeaks /\ ReportsOnce /\ ShownUnlessCrossed
    OBVIOUS
  <2>1. PromptTypeOK
    BY DEF PromptInv, PromptTypes, Prompts, PromptTypeOK
  <2>2. NothingLeaks
    BY DEF PromptInv, Orderly, ClassHeld, NothingLeaks
  <2>3. ASSUME NEW e \in PromptEditors
        PROVE  /\ queued[e] + told[e] <= submitted[e]
               /\ pr_editor[e] = "open" /\ ~waiting[e] => queued[e] + told[e] = submitted[e]
    <3>1. submitted[e] \in Nat /\ queued[e] \in Nat /\ told[e] \in Nat /\ Accounted(e)
      BY DEF PromptInv, PromptTypes
    <3>2. pr_editor[e] = "open" /\ ~waiting[e] => ~Owed(prompt[e])
      BY <3>1 DEF Accounted, Owed
    <3>3. QED
      BY <3>1, <3>2 DEF Accounted
  <2>4. ShownUnlessCrossed
    BY DEF PromptInv, Orderly, ShownUnlessCrossed
  <2>5. QED
    BY <2>1, <2>2, <2>3, <2>4 DEF ReportsOnce
<1>2. QED
  BY <1>1, PromptInit_Inv, PromptStep, PTL DEF PromptSpec

-----------------------------------------------------------------------------
(* The prompt's measures at a density.                                     *)
LEMMA Scaled ==
    ASSUME NEW v \in Int, NEW d \in Int
    PROVE  dp(v, d) \in Int /\ 96 * dp(v, d) <= v * d + 48 /\ v * d < 96 * dp(v, d) + 48
<1>1. PICK n \in Int : n = v * d
  OBVIOUS
<1>2. (n + 48) \div 96 \in Int /\ 96 * ((n + 48) \div 96) <= n + 48 /\ n + 48 < 96 * ((n + 48) \div 96) + 96
  OBVIOUS
<1>3. QED
  BY <1>1, <1>2 DEF dp

LEMMA ScaledGrows ==
    ASSUME NEW v \in Int, NEW u \in Int, v <= u, NEW d \in Nat
    PROVE  dp(v, d) <= dp(u, d)
<1>1. v * d <= u * d
  OBVIOUS
<1>2. PICK m \in Int, n \in Int : m = v * d /\ n = u * d /\ m <= n
  BY <1>1
<1>3. (m + 48) \div 96 <= (n + 48) \div 96
  BY <1>2
<1>4. QED
  BY <1>2, <1>3 DEF dp

(* A client area no smaller than the least one, at a density.              *)
Roomy(c, d) ==
    /\ c.w \in Int /\ c.h \in Int
    /\ c.w >= dp(420, d) - dp(100, d)
    /\ c.h >= dp(360, d) - dp(60, d)

LEMMA SizesAreRoomy == ASSUME NEW d \in Dpis, NEW c \in Sizes(d) PROVE Roomy(c, d)
<1>1. PICK e \in Extra, f \in Extra : c = [w |-> MinTrack(d).w + dp(e, d), h |-> MinTrack(d).h + dp(f, d)]
  BY DEF Sizes
<1>2. d \in Nat /\ d >= 96 /\ e \in Nat /\ f \in Nat /\ Chrome.w \in 0..100 /\ Chrome.h \in 0..60
  BY LayoutAssumption
<1>3. /\ dp(e, d) \in Int /\ dp(f, d) \in Int /\ dp(Chrome.w, d) \in Int /\ dp(Chrome.h, d) \in Int
      /\ dp(420, d) \in Int /\ dp(360, d) \in Int /\ dp(100, d) \in Int /\ dp(60, d) \in Int /\ dp(0, d) = 0
  BY <1>2, Scaled DEF dp
<1>4. dp(e, d) >= dp(0, d) /\ dp(f, d) >= dp(0, d) /\ dp(Chrome.w, d) <= dp(100, d) /\ dp(Chrome.h, d) <= dp(60, d)
  <2>1. dp(0, d) <= dp(e, d) /\ dp(0, d) <= dp(f, d)
    BY <1>2, ScaledGrows
  <2>5. Chrome.w \in Int /\ Chrome.w <= 100 /\ Chrome.h \in Int /\ Chrome.h <= 60
    BY <1>2
  <2>2. dp(Chrome.w, d) <= dp(100, d)
    BY <1>2, <2>5, ScaledGrows
  <2>3. dp(Chrome.h, d) <= dp(60, d)
    BY <1>2, <2>5, ScaledGrows
  <2>4. QED
    BY <1>3, <2>1, <2>2, <2>3
<1>5. QED
  BY <1>1, <1>3, <1>4 DEF MinTrack, FrameOf, Roomy

LEMMA FirstIsRoomy == ASSUME NEW d \in Dpis PROVE Roomy([w |-> dp(560, d), h |-> dp(430, d)], d)
<1>1. d \in Nat /\ d >= 96
  BY LayoutAssumption
<1>2. /\ dp(560, d) \in Int /\ dp(430, d) \in Int
      /\ dp(420, d) \in Int /\ dp(360, d) \in Int /\ dp(100, d) \in Int /\ dp(60, d) \in Int
      /\ 96 * dp(560, d) + 48 > 560 * d /\ 96 * dp(430, d) + 48 > 430 * d
      /\ 96 * dp(420, d) <= 420 * d + 48 /\ 96 * dp(360, d) <= 360 * d + 48
      /\ 96 * dp(100, d) + 48 > 100 * d /\ 96 * dp(60, d) + 48 > 60 * d
  <2>1. dp(560, d) \in Int /\ dp(430, d) \in Int /\ 96 * dp(560, d) + 48 > 560 * d /\ 96 * dp(430, d) + 48 > 430 * d
    BY <1>1 DEF dp
  <2>2. dp(420, d) \in Int /\ dp(360, d) \in Int /\ 96 * dp(420, d) <= 420 * d + 48 /\ 96 * dp(360, d) <= 360 * d + 48
    BY <1>1 DEF dp
  <2>3. dp(100, d) \in Int /\ dp(60, d) \in Int /\ 96 * dp(100, d) + 48 > 100 * d /\ 96 * dp(60, d) + 48 > 60 * d
    BY <1>1 DEF dp
  <2>4. QED
    BY <2>1, <2>2, <2>3
<1>3. QED
  BY <1>1, <1>2 DEF Roomy

-----------------------------------------------------------------------------
ControlNames == {"title_lbl", "desc_lbl", "desc_edit", "contact_lbl", "contact_edit", "cancel_btn", "ok_btn"}
Edits == {"desc_edit", "contact_edit"}
Shown(f, name, d) == IF name \in Edits THEN paint_fields(f[name], d) ELSE f[name]
Within(r, c) == r.x >= 0 /\ r.y >= 0 /\ r.x + r.w <= c.w /\ r.y + r.h <= c.h

Fits(f, c, d) ==
    /\ \A a \in DOMAIN f : Within(Shown(f, a, d), c) /\ f[a].w > 0 /\ f[a].h > 0
    /\ \A a, b \in DOMAIN f : a # b => Apart(Shown(f, a, d), Shown(f, b, d))
    /\ \A a \in Edits, b \in DOMAIN f : a # b => Apart(invalidate_ring(f[a], d), f[b])

(* What layout gives, at a size that is roomy: the rows are in order, and   *)
(* the buttons side by side.                                               *)
LEMMA RoomyFits == ASSUME NEW d \in Nat, d >= 96, NEW c, Roomy(c, d) PROVE Fits(layout(c, d), c, d)
<1> DEFINE f == layout(c, d)
           m == dp(20, d)   title_h == dp(22, d)   ten == dp(10, d)
           lbl == dp(16, d)   space == dp(8, d)   group == dp(14, d)
           bw == dp(92, d)   bh == dp(32, d)   field_h == dp(36, d)   pad == dp(5, d)
           btn_y == c.h - m - bh
           contact_y == btn_y - lbl - field_h
           contact_lbl_y == contact_y - space - lbl
           desc_lbl_y == m + title_h + ten
           desc_y == desc_lbl_y + lbl + space
           desc_h == contact_lbl_y - group - desc_y
           across == c.w - 2 * m
<1>1. /\ m \in Int /\ 96 * m <= 20 * d + 48 /\ 20 * d < 96 * m + 48
      /\ title_h \in Int /\ 96 * title_h <= 22 * d + 48 /\ 22 * d < 96 * title_h + 48
      /\ ten \in Int /\ 96 * ten <= 10 * d + 48 /\ 10 * d < 96 * ten + 48
  BY DEF dp
<1>2. /\ lbl \in Int /\ 96 * lbl <= 16 * d + 48 /\ 16 * d < 96 * lbl + 48
      /\ space \in Int /\ 96 * space <= 8 * d + 48 /\ 8 * d < 96 * space + 48
      /\ group \in Int /\ 96 * group <= 14 * d + 48 /\ 14 * d < 96 * group + 48
  BY DEF dp
<1>3. /\ bw \in Int /\ 96 * bw <= 92 * d + 48 /\ 92 * d < 96 * bw + 48
      /\ bh \in Int /\ 96 * bh <= 32 * d + 48 /\ 32 * d < 96 * bh + 48
      /\ field_h \in Int /\ 96 * field_h <= 36 * d + 48 /\ 36 * d < 96 * field_h + 48
      /\ pad \in Int /\ 96 * pad <= 5 * d + 48 /\ 5 * d < 96 * pad + 48
  BY DEF dp
<1>4. /\ c.w \in Int /\ c.h \in Int /\ 96 * c.w >= 320 * d - 96 /\ 96 * c.h >= 300 * d - 96
      /\ dp(60, d) \in Int /\ 96 * dp(60, d) <= 60 * d + 48
  <2>1. /\ dp(420, d) \in Int /\ 420 * d < 96 * dp(420, d) + 48
        /\ dp(360, d) \in Int /\ 360 * d < 96 * dp(360, d) + 48
    BY DEF dp
  <2>2. /\ dp(100, d) \in Int /\ 96 * dp(100, d) <= 100 * d + 48
        /\ dp(60, d) \in Int /\ 96 * dp(60, d) <= 60 * d + 48
    BY DEF dp
  <2>3. QED
    BY <2>1, <2>2 DEF Roomy
<1>5. f = [ title_lbl |-> Rect(m, m, across, title_h),
            desc_lbl |-> Rect(m, desc_lbl_y, across, lbl),
            desc_edit |-> Rect(m + pad, desc_y + pad, across - 2 * pad, Max({desc_h, dp(60, d)}) - 2 * pad),
            contact_lbl |-> Rect(m, contact_lbl_y, across, lbl),
            contact_edit |-> Rect(m + pad, contact_y + pad, across - 2 * pad, field_h - 2 * pad),
            cancel_btn |-> Rect(c.w - m - bw, btn_y, bw, bh),
            ok_btn |-> Rect(c.w - m - 2 * bw - space, btn_y, bw, bh) ]
  BY DEF layout, MARGIN, TITLE_H, LBL_H, LBL_FIELD_GAP, GROUP_GAP, BTN_W, BTN_H, BTN_GAP, CONTACT_FIELD_H, FIELD_PAD
<1> HIDE DEF m, title_h, ten, lbl, space, group, bw, bh, field_h, pad, f
<1>6. /\ btn_y \in Int /\ contact_y \in Int /\ contact_lbl_y \in Int /\ desc_lbl_y \in Int
      /\ desc_y \in Int /\ desc_h \in Int /\ across \in Int
  BY <1>1, <1>2, <1>3, <1>4
<1>7. /\ m > 0 /\ title_h > 0 /\ lbl > 2 /\ bw > 0 /\ bh > 0 /\ space > 3 /\ group > 3 /\ pad > 0 /\ ten > 0
      /\ field_h > 2 * pad /\ c.w - m - 2 * bw - space >= 0 /\ across > 2 * pad
  BY <1>1, <1>2, <1>3, <1>4
<1>8. desc_h > dp(60, d) /\ desc_h > 2 * pad
  BY <1>1, <1>2, <1>3, <1>4
<1>9. Max({desc_h, dp(60, d)}) = desc_h
  BY <1>4, <1>6, <1>8, LargerOfTwo
<1>10. /\ m + title_h <= desc_lbl_y /\ desc_lbl_y + lbl + 3 < desc_y
       /\ desc_y + desc_h + 3 < contact_lbl_y /\ contact_lbl_y + lbl + 3 < contact_y
       /\ contact_y + field_h + 2 < btn_y /\ btn_y + bh < c.h
       /\ c.w - m - 2 * bw - space + bw < c.w - m - bw
  BY <1>1, <1>2, <1>3, <1>4, <1>6, <1>7
<1>11. across = c.w - 2 * m /\ pad = dp(FIELD_PAD, d)
  BY DEF pad, FIELD_PAD
<1> HIDE DEF btn_y, contact_y, contact_lbl_y, desc_lbl_y, desc_y, desc_h, across
<1>12. /\ DOMAIN f = ControlNames
       /\ f["title_lbl"] = [x |-> m, y |-> m, w |-> across, h |-> title_h]
       /\ f["desc_lbl"] = [x |-> m, y |-> desc_lbl_y, w |-> across, h |-> lbl]
       /\ f["desc_edit"] = [x |-> m + pad, y |-> desc_y + pad, w |-> across - 2 * pad, h |-> desc_h - 2 * pad]
       /\ f["contact_lbl"] = [x |-> m, y |-> contact_lbl_y, w |-> across, h |-> lbl]
       /\ f["contact_edit"] = [x |-> m + pad, y |-> contact_y + pad, w |-> across - 2 * pad, h |-> field_h - 2 * pad]
       /\ f["cancel_btn"] = [x |-> c.w - m - bw, y |-> btn_y, w |-> bw, h |-> bh]
       /\ f["ok_btn"] = [x |-> c.w - m - 2 * bw - space, y |-> btn_y, w |-> bw, h |-> bh]
  BY <1>5, <1>9 DEF Rect, ControlNames
<1> DEFINE S(n) == Shown(f, n, d)
<1>13. /\ S("title_lbl") = [x |-> m, y |-> m, w |-> across, h |-> title_h]
       /\ S("desc_lbl") = [x |-> m, y |-> desc_lbl_y, w |-> across, h |-> lbl]
       /\ S("contact_lbl") = [x |-> m, y |-> contact_lbl_y, w |-> across, h |-> lbl]
       /\ S("cancel_btn") = [x |-> c.w - m - bw, y |-> btn_y, w |-> bw, h |-> bh]
       /\ S("ok_btn") = [x |-> c.w - m - 2 * bw - space, y |-> btn_y, w |-> bw, h |-> bh]
  BY <1>12 DEF Shown, Edits
<1>14. /\ S("desc_edit") = [x |-> m, y |-> desc_y, w |-> across, h |-> desc_h]
       /\ S("contact_edit") = [x |-> m, y |-> contact_y, w |-> across, h |-> field_h]
  BY <1>1, <1>2, <1>3, <1>6, <1>11, <1>12 DEF Shown, Edits, paint_fields, Grown, Rect
<1>15. /\ invalidate_ring(f["desc_edit"], d) = [x |-> m - 2, y |-> desc_y - 2, w |-> across + 4, h |-> desc_h + 4]
       /\ invalidate_ring(f["contact_edit"], d) = [x |-> m - 2, y |-> contact_y - 2, w |-> across + 4, h |-> field_h + 4]
  BY <1>1, <1>2, <1>3, <1>6, <1>11, <1>12 DEF invalidate_ring, Grown, Rect
<1> HIDE DEF S
<1>16. ASSUME NEW a \in ControlNames PROVE Within(S(a), c) /\ f[a].w > 0 /\ f[a].h > 0
  BY <1>1, <1>2, <1>3, <1>4, <1>6, <1>7, <1>8, <1>10, <1>11, <1>12, <1>13, <1>14 DEF Within, ControlNames
<1>20. /\ m \in Int /\ title_h \in Int /\ lbl \in Int /\ space \in Int /\ bw \in Int /\ bh \in Int /\ field_h \in Int
        /\ pad \in Int /\ c.w \in Int /\ btn_y \in Int /\ contact_y \in Int /\ contact_lbl_y \in Int
        /\ desc_lbl_y \in Int /\ desc_y \in Int /\ desc_h \in Int /\ across \in Int
        /\ m > 0 /\ title_h > 0 /\ lbl > 2 /\ bw > 0 /\ bh > 0 /\ pad > 0 /\ desc_h > 2 * pad /\ field_h > 2 * pad
  BY <1>1, <1>2, <1>3, <1>4, <1>6, <1>7, <1>8
<1>21. \A n \in ControlNames : S(n).y \in Int /\ S(n).h \in Int /\ S(n).h > 0
  BY <1>13, <1>14, <1>20 DEF ControlNames
<1>22. /\ S("title_lbl").y + S("title_lbl").h <= S("desc_lbl").y
       /\ S("desc_lbl").y + S("desc_lbl").h + 2 <= S("desc_edit").y
       /\ S("desc_edit").y + S("desc_edit").h + 2 <= S("contact_lbl").y
       /\ S("contact_lbl").y + S("contact_lbl").h + 2 <= S("contact_edit").y
       /\ S("contact_edit").y + S("contact_edit").h + 2 <= S("ok_btn").y
       /\ S("ok_btn").y = S("cancel_btn").y
       /\ S("ok_btn").x + S("ok_btn").w <= S("cancel_btn").x
  BY <1>10, <1>13, <1>14, <1>20
<1>17. ASSUME NEW a \in ControlNames, NEW b \in ControlNames, a # b PROVE Apart(S(a), S(b))
  BY <1>17, <1>21, <1>22 DEF Apart, ControlNames
<1>18. ASSUME NEW a \in Edits, NEW b \in ControlNames, a # b PROVE Apart(invalidate_ring(f[a], d), f[b])
  <2>1. CASE a = "desc_edit"
    BY <1>18, <1>10, <1>12, <1>15, <1>20, <2>1 DEF Apart, ControlNames
  <2>2. CASE a = "contact_edit"
    BY <1>18, <1>10, <1>12, <1>15, <1>20, <2>2 DEF Apart, ControlNames
  <2>3. QED
    BY <2>1, <2>2 DEF Edits
<1>19. QED
  BY <1>12, <1>16, <1>17, <1>18 DEF Fits, S, f

-----------------------------------------------------------------------------
(* The prompt's window.                                                    *)
LayoutInv ==
    /\ dpi \in Dpis
    /\ place # NotPlaced =>
        /\ Roomy(client, dpi) /\ fields = layout(client, dpi)
        /\ OpensOnScreen

LEMMA LayoutInit_Inv == LayoutInit => LayoutInv
BY DEF LayoutInit, LayoutInv

LEMMA KeptOnScreen ==
    ASSUME NEW x \in Int, NEW w \in Int, NEW room \in Nat
    PROVE  LET corner == Between(x, 0, Max({room - w, 0}))
           IN  corner \in Int /\ corner >= 0 /\ (w <= room => corner + w <= room)
<1>1. Max({room - w, 0}) = IF room - w >= 0 THEN room - w ELSE 0
  BY LargerOfTwo
<1> DEFINE most == Max({room - w, 0})
<1>2. most \in Int /\ most >= 0 /\ (w <= room => most = room - w)
  BY <1>1
<1> HIDE DEF most
<1>3. Min({x, most}) \in Int /\ Min({x, most}) <= most
  BY <1>2, SmallerOfThem
<1> DEFINE least == Min({x, most})
<1> HIDE DEF least
<1>4. least \in Int /\ least <= most
  BY <1>3 DEF least
<1>5. Max({0, least}) = IF 0 >= least THEN 0 ELSE least
  BY <1>4, LargerOfTwo
<1>6. Between(x, 0, most) = Max({0, least})
  BY DEF Between, least
<1>7. QED
  BY <1>2, <1>4, <1>5, <1>6 DEF most

LEMMA PlaceKeeps == ASSUME LayoutInv, place_window PROVE LayoutInv'
<1>1. PICK s \in Screens, cx \in Centres, cy \in Centres :
        LET w == dp(560, dpi) + FrameOf(dpi).w
            h == dp(430, dpi) + FrameOf(dpi).h
        IN  place' = [ x |-> Between(cx - w \div 2, 0, Max({s.w - w, 0})),
                       y |-> Between(cy - h \div 2, 0, Max({s.h - h, 0})),
                       w |-> w, h |-> h, screen |-> s ]
  BY DEF place_window
<1>2. dpi \in Dpis /\ dpi \in Nat /\ s.w \in Nat /\ s.h \in Nat /\ cx \in Int /\ cy \in Int
  BY LayoutAssumption DEF LayoutInv
<1>3. /\ dp(560, dpi) + FrameOf(dpi).w \in Int /\ dp(430, dpi) + FrameOf(dpi).h \in Int
  <2>1. Chrome.w \in Int /\ Chrome.h \in Int
    BY LayoutAssumption
  <2>2. QED
    <3>1. \A v \in {560, 430, Chrome.w, Chrome.h} : dp(v, dpi) \in Int
      BY <1>2, <2>1, Scaled
    <3>2. QED
      BY <3>1 DEF FrameOf
<1> DEFINE w == dp(560, dpi) + FrameOf(dpi).w
           h == dp(430, dpi) + FrameOf(dpi).h
<1>4. w \in Int /\ h \in Int /\ cx - w \div 2 \in Int /\ cy - h \div 2 \in Int
  BY <1>2, <1>3
<1> HIDE DEF w, h
<1>5. place' = [ x |-> Between(cx - w \div 2, 0, Max({s.w - w, 0})),
                 y |-> Between(cy - h \div 2, 0, Max({s.h - h, 0})),
                 w |-> w, h |-> h, screen |-> s ]
  BY <1>1 DEF w, h
<1>6. OpensOnScreen'
  <2>1. LET corner == Between(cx - w \div 2, 0, Max({s.w - w, 0}))
        IN  corner >= 0 /\ (w <= s.w => corner + w <= s.w)
    BY <1>2, <1>4, KeptOnScreen
  <2>2. LET corner == Between(cy - h \div 2, 0, Max({s.h - h, 0}))
        IN  corner >= 0 /\ (h <= s.h => corner + h <= s.h)
    BY <1>2, <1>4, KeptOnScreen
  <2>3. QED
    BY <1>5, <2>1, <2>2 DEF OpensOnScreen
<1>7. QED
  BY <1>2, <1>6, FirstIsRoomy DEF LayoutInv, place_window, Sized

LEMMA SizingKeeps == ASSUME LayoutInv, Resize \/ DpiChanged PROVE LayoutInv'
BY SizesAreRoomy DEF LayoutInv, Resize, DpiChanged, Sized, OpensOnScreen

LEMMA LayoutStep == LayoutInv /\ [LayoutNext]_layout_vars => LayoutInv'
<1> SUFFICES ASSUME LayoutInv, [LayoutNext]_layout_vars PROVE LayoutInv'
  OBVIOUS
<1>1. CASE UNCHANGED layout_vars
  BY <1>1 DEF layout_vars, LayoutInv, OpensOnScreen
<1>2. QED
  BY <1>1, PlaceKeeps, SizingKeeps DEF LayoutNext

\* The prompt's window at every size and density: its controls fit and keep
\* apart, and it opens on the screen.
THEOREM PromptFits == LayoutSpec => [](LayoutFits /\ OpensOnScreen)
<1>1. ASSUME LayoutInv PROVE LayoutFits /\ OpensOnScreen
  <2>1. OpensOnScreen
    BY <1>1 DEF LayoutInv, OpensOnScreen
  <2>2. place # NotPlaced => Fits(fields, client, dpi)
    <3>1. dpi \in Nat /\ dpi >= 96
      BY <1>1, LayoutAssumption DEF LayoutInv
    <3>2. QED
      BY <1>1, <3>1, RoomyFits DEF LayoutInv
  <2>3. LayoutFits
    BY <2>2 DEF LayoutFits, Fits, Drawn, Shown, Edits, Inside, Within
  <2>4. QED
    BY <2>1, <2>3
<1>2. QED
  BY <1>1, LayoutInit_Inv, LayoutStep, PTL DEF LayoutSpec

-----------------------------------------------------------------------------
(* A number field and its menus                                            *)

LEMMA MostSteps == Max(steps) \in Nat /\ Max(steps) >= 1 /\ \A s \in steps : s <= Max(steps)
<1>1. \E x \in steps : \A y \in steps : x >= y
  BY ComboAssumption
<1>2. Max(steps) \in steps /\ \A y \in steps : Max(steps) >= y
  BY <1>1 DEF Max
<1>3. steps \subseteq Nat \ {0}
  BY ComboAssumption
<1> DEFINE most == Max(steps)
<1>4. most \in Nat \ {0} /\ \A y \in steps : most >= y
  BY <1>2, <1>3
<1> HIDE DEF most
<1>5. most \in Nat /\ most >= 1 /\ \A y \in steps : y <= most
  BY <1>3, <1>4
<1>6. QED
  BY <1>5 DEF most

-----------------------------------------------------------------------------
(* Whole steps are taken out of the pixels in hand.                        *)
LEMMA Steps == ASSUME NEW x \in Int PROVE Trunc(x, PX_PER_STEP) \in Int /\ x - Trunc(x, PX_PER_STEP) * PX_PER_STEP \in (1 - PX_PER_STEP)..(PX_PER_STEP - 1)
BY DEF Trunc, PX_PER_STEP

LEMMA Quotient ==
    ASSUME NEW a \in Int, NEW b \in Int, NEW q \in Int, b > 0, q * b <= a, a < q * b + b
    PROVE  a \div b = q
<1>1. PICK d \in Int : d = a \div b
  OBVIOUS
<1>2. b * d <= a /\ a < b * d + b
  BY <1>1
<1>3. QED
  BY <1>1, <1>2

LEMMA StepBack == ASSUME NEW n \in 1..4, NEW p \in Nat, p > 10 PROVE queue_row(queue_ms(n, p), p) = n
<1> DEFINE ms == queue_ms(n, p)
<1>1. ms \in Nat /\ 20 * ms <= 2 * n * p + 10 /\ 2 * n * p < 20 * ms + 10
  <2>1. (2 * (n * p) + 10) \div 20 \in Int /\ (2 * (n * p) + 10) \div 20 >= 1
        /\ 20 * ((2 * (n * p) + 10) \div 20) <= 2 * (n * p) + 10
        /\ 2 * (n * p) + 10 < 20 * ((2 * (n * p) + 10) \div 20) + 20
    OBVIOUS
  <2>2. ms = (2 * (n * p) + 10) \div 20
    BY <2>1, LargerOfTwo DEF queue_ms, RoundDiv
  <2>3. QED
    BY <2>1, <2>2
<1> HIDE DEF ms
<1>2. n * (2 * p) <= 2 * (ms * 10) + p /\ 2 * (ms * 10) + p < n * (2 * p) + 2 * p
  BY <1>1
<1>3. queue_row(ms, p) = n
  BY <1>1, <1>2, Quotient DEF queue_row, RoundDiv
<1>4. QED
  BY <1>3 DEF ms

LEMMA StepsDo == StepsComeBack
BY StepBack, ComboAssumption DEF StepsComeBack

LEMMA MenusDo == MenuFits
<1> SUFFICES ASSUME NEW below \in {0, 20, 130, 300, 600}, NEW above \in {0, 20, 130, 300, 600}, NEW n \in {4, 9}
    PROVE LET room == [below |-> below, above |-> above]
              wanted == n * 32 + 12
              given == room[placement(room, wanted)]
          IN  /\ menu_height(room, wanted) <= Max({given, 1})
              /\ wanted <= Max({below, above}) => given >= wanted
  BY DEF MenuFits
<1> DEFINE room == [below |-> below, above |-> above]
           wanted == n * 32 + 12
           given == room[placement(room, wanted)]
<1>1. /\ given = (IF placement(room, wanted) = "below" THEN room.below ELSE room.above)
      /\ given \in Int /\ room.below = below /\ room.above = above
  BY DEF placement
<1>2. wanted <= Max({below, above}) => given >= wanted
  BY <1>1, LargerOfTwo DEF placement
<1>3. menu_height(room, wanted) = Min({Max({given - 14, 1}), 280})
  BY <1>1 DEF menu_height
<1> HIDE DEF given, room, wanted
<1>4. Max({given - 14, 1}) \in Int /\ Max({given - 14, 1}) <= Max({given, 1})
  BY <1>1, LargerOfTwo
<1>5. Min({Max({given - 14, 1}), 280}) <= Max({given - 14, 1})
  BY <1>4, SmallerOfThem
<1>6. Max({given, 1}) \in Int /\ Min({Max({given - 14, 1}), 280}) \in Int
  BY <1>1, <1>4, LargerOfTwo, SmallerOfThem
<1>7. QED
  BY <1>2, <1>3, <1>4, <1>5, <1>6 DEF given, room, wanted

-----------------------------------------------------------------------------
ComboTypes ==
    /\ ComboTypeOK
    /\ under \in Floors /\ panicked \in BOOLEAN /\ stopped \in BOOLEAN
    /\ total \in Int /\ start \in Nat

Highest == IF ceiling >= 1 THEN ceiling ELSE 1
Lowest(f) == IF f >= 1 THEN f ELSE 1

(* A number shown during a drag lies within the bounds of the frame that   *)
(* set it, and no drag leaves a number or pixels behind.                   *)
ComboInv ==
    /\ ComboTypes
    /\ FollowsThePointer
    /\ ~dragging => drag = NO_NUMBER /\ acc = 0 /\ total = 0
    /\ drag # NO_NUMBER /\ ~panicked => drag \in Lowest(under)..Highest
    /\ picked # NO_NUMBER => picked # value /\ picked >= Lowest(under) /\ (picked <= Highest \/ picked \in steps)
    /\ panicked => floor > ceiling

LEMMA ComboInit_Inv == ComboInit => ComboInv
<1> SUFFICES ASSUME ComboInit PROVE ComboInv
  OBVIOUS
<1>1. ComboTypes
  <2>1. drag \in Nat /\ picked \in Nat /\ start \in Nat /\ total \in Int /\ acc \in (1 - PX_PER_STEP)..(PX_PER_STEP - 1)
    BY DEF ComboInit, NO_NUMBER, PX_PER_STEP
  <2>2. dragging \in BOOLEAN /\ panicked \in BOOLEAN /\ stopped \in BOOLEAN
        /\ value \in Values /\ floor \in Floors /\ under \in Floors
    BY Zenon DEF ComboInit
  <2>3. QED
    BY <2>1, <2>2 DEF ComboTypes, ComboTypeOK
<1>2. QED
  BY <1>1 DEF ComboInit, ComboInv, FollowsThePointer

LEMMA DragKeeps == ASSUME ComboInv, ~panicked, NEW delta \in Deltas, DragFrame(delta) PROVE ComboInv'
<1> DEFINE x == acc + delta
           moved == Trunc(x, PX_PER_STEP)
           next == Max({number_shown + moved, 0})
           low == Max({floor, 1})
           high == Max({ceiling, 1})
<1>1. /\ ComboTypes /\ delta \in Int /\ Values \subseteq Nat /\ Floors \subseteq Nat /\ ceiling \in Nat
      /\ value \in Nat /\ floor \in Nat /\ drag \in Nat /\ acc \in Int /\ total \in Int /\ start \in Nat
  BY ComboAssumption DEF ComboInv, ComboTypes, ComboTypeOK, PX_PER_STEP
<1>2. x \in Int /\ number_shown \in Nat
  BY <1>1 DEF number_shown
<1>3. moved \in Int /\ x - moved * 4 \in -3..3
  BY <1>2, Steps DEF PX_PER_STEP
<1>4. /\ dragging' = TRUE /\ total' = total + delta /\ acc' = x - moved * 4
      /\ picked' = NO_NUMBER /\ UNCHANGED <<value, floor>>
  BY <1>1, <1>3 DEF DragFrame, PX_PER_STEP
<1>5. CASE moved = 0
  <2>1. UNCHANGED <<drag, start, stopped, panicked, under>>
    BY <1>5 DEF DragFrame
  <2>2. acc' = x
    BY <1>2, <1>4, <1>5
  <2> HIDE DEF moved
  <2>3. QED
    BY <1>1, <1>3, <1>4, <1>5, <2>1, <2>2
       DEF ComboInv, ComboTypes, ComboTypeOK, FollowsThePointer, PX_PER_STEP, NO_NUMBER
<1>6. CASE moved # 0
  <2>1. /\ under' = floor /\ panicked' = (low > high)
        /\ drag' = IF low > high THEN drag ELSE Max({low, Min({next, high})})
        /\ start' = IF drag = NO_NUMBER THEN value ELSE start
        /\ stopped' = (stopped \/ drag' # number_shown + moved)
    BY <1>6 DEF DragFrame
  <2>2. /\ low = Lowest(floor) /\ high = Highest /\ low \in Nat /\ high \in Nat /\ low >= 1
        /\ next \in Int
    BY <1>1, <1>2, <1>3, LargerOfTwo DEF Lowest, Highest
  <2> HIDE DEF next, low, high, moved
  <2>3. Min({next, high}) \in Int /\ Min({next, high}) <= high
    BY <2>2, SmallerOfThem
  <2>4. ~(low > high) => drag' \in Lowest(floor)..Highest /\ drag' # NO_NUMBER
    <3> DEFINE least == Min({next, high})
    <3> HIDE DEF least
    <3>1. least \in Int /\ least <= high
      BY <2>3 DEF least
    <3>2. ~(low > high) => drag' = (IF low >= least THEN low ELSE least)
      BY <2>1, <2>2, <3>1, LargerOfTwo DEF least
    <3>3. QED
      BY <2>2, <3>1, <3>2 DEF NO_NUMBER
  <2>5. panicked' => floor > ceiling
    <3>1. panicked' => low > high
      BY <2>1
    <3>2. low > high => floor > ceiling
      BY <1>1, <2>2 DEF Lowest, Highest
    <3>3. QED
      BY <3>1, <3>2
  <2>6. drag' \in Nat /\ start' \in Nat /\ panicked' \in BOOLEAN /\ stopped' \in BOOLEAN /\ under' \in Floors
    <3>1. drag' \in Nat
      BY <1>1, <2>1, <2>2, <2>4
    <3>2. floor \in Floors
      BY DEF ComboInv, ComboTypes, ComboTypeOK
    <3>3. QED
      BY <1>1, <2>1, <3>1, <3>2
  <2>7. FollowsThePointer'
    <3>1. ~panicked' => drag' # NO_NUMBER
      BY <2>1, <2>4
    <3>2. ASSUME ~stopped', ~panicked' PROVE (drag' - start') * 4 + acc' = total'
      <4>1. ~stopped /\ drag' = number_shown + moved
        BY <2>1, <3>2
      <4>2. CASE drag = NO_NUMBER
        <5>1. acc = total /\ start' = value /\ number_shown = value
          BY <2>1, <4>2 DEF ComboInv, FollowsThePointer, number_shown, NO_NUMBER
        <5>2. QED
          BY <1>1, <1>3, <1>4, <4>1, <5>1
      <4>3. CASE drag # NO_NUMBER
        <5>1. (drag - start) * 4 + acc = total /\ start' = start /\ number_shown = drag
          BY <2>1, <4>1, <4>3 DEF ComboInv, FollowsThePointer, number_shown, PX_PER_STEP
        <5>2. QED
          BY <1>1, <1>3, <1>4, <4>1, <5>1
      <4>4. QED
        BY <4>2, <4>3
    <3>3. QED
      BY <3>1, <3>2 DEF FollowsThePointer, PX_PER_STEP
  <2>8. ComboTypes'
    BY <1>1, <1>3, <1>4, <2>6 DEF ComboTypes, ComboTypeOK, PX_PER_STEP, NO_NUMBER
  <2>9. QED
    BY <1>4, <2>1, <2>4, <2>5, <2>7, <2>8 DEF ComboInv, NO_NUMBER
<1>7. QED
  BY <1>5, <1>6

LEMMA DragEndKeeps == ASSUME ComboInv, ~panicked, DragStops \/ DragLost PROVE ComboInv'
<1>1. EndDrag /\ UNCHANGED <<value, floor, panicked, under>> /\ (picked' = NO_NUMBER \/ (picked' = drag /\ drag # value))
  BY DEF DragStops, DragLost, Pick
<1>2. ComboTypes /\ ceiling \in Nat /\ under \in Nat
  BY ComboAssumption DEF ComboInv, ComboTypes, ComboTypeOK
<1>3. ComboTypes'
  <2>1. drag' \in Nat /\ picked' \in Nat /\ start' \in Nat /\ total' \in Int /\ acc' \in (1 - PX_PER_STEP)..(PX_PER_STEP - 1)
    BY <1>1, <1>2 DEF EndDrag, ComboTypes, ComboTypeOK, NO_NUMBER, PX_PER_STEP
  <2>2. dragging' \in BOOLEAN /\ panicked' \in BOOLEAN /\ stopped' \in BOOLEAN
        /\ value' \in Values /\ floor' \in Floors /\ under' \in Floors
    BY <1>1, <1>2, Zenon DEF EndDrag, ComboTypes, ComboTypeOK
  <2>3. QED
    BY <2>1, <2>2 DEF ComboTypes, ComboTypeOK
<1>4. drag # NO_NUMBER => drag >= Lowest(under) /\ drag <= Highest
  BY <1>2 DEF ComboInv, Lowest, Highest
<1>5. QED
  BY <1>1, <1>3, <1>4 DEF EndDrag, ComboInv, FollowsThePointer

LEMMA OptionKeeps == ASSUME ComboInv, ~panicked, NEW step \in steps, combo_option(step) PROVE ComboInv'
BY ComboAssumption DEF combo_option, dragged, Pick, ComboInv, ComboTypes, ComboTypeOK, FollowsThePointer,
   NO_NUMBER, PX_PER_STEP, Lowest

LEMMA RetunedKeeps == ASSUME ComboInv, ~panicked, Retuned PROVE ComboInv'
BY DEF Retuned, dragged, ComboInv, ComboTypes, ComboTypeOK, FollowsThePointer, NO_NUMBER, PX_PER_STEP

LEMMA ComboStep == ComboInv /\ [ComboNext]_combo_vars => ComboInv'
<1> SUFFICES ASSUME ComboInv, [ComboNext]_combo_vars PROVE ComboInv'
  OBVIOUS
<1>1. CASE UNCHANGED combo_vars
  BY <1>1 DEF combo_vars, ComboInv, ComboTypes, ComboTypeOK, FollowsThePointer
<1>2. CASE ComboNext
  BY <1>2, DragKeeps, DragEndKeeps, OptionKeeps, RetunedKeeps DEF ComboNext, number_combo
<1>3. QED
  BY <1>1, <1>2

LEMMA ComboBounds == ComboInv => AsksWithinBounds
<1> SUFFICES ASSUME ComboInv PROVE AsksWithinBounds
  OBVIOUS
<1> DEFINE most == Max(steps)
<1>1. /\ ComboTypes /\ ceiling \in Nat /\ under \in Nat /\ floor \in Nat /\ picked \in Nat
      /\ most \in Nat /\ most >= 1 /\ (picked \in steps => picked <= most)
  BY ComboAssumption, MostSteps DEF ComboInv, ComboTypes, ComboTypeOK
<1> HIDE DEF most
<1>2. Max({under, 1}) = Lowest(under) /\ Max({ceiling, most}) = (IF ceiling >= most THEN ceiling ELSE most)
  BY <1>1, LargerOfTwo DEF Lowest
<1>3. picked # NO_NUMBER => picked # value /\ picked \in Max({under, 1})..Max({ceiling, most})
  BY <1>1, <1>2 DEF ComboInv, Lowest, Highest
<1>4. QED
  BY <1>3 DEF AsksWithinBounds, ComboInv, most

\* The number field, whatever the pointer does and whatever the engine comes
\* to: the number follows the pointer, and what is asked is a change within
\* the bounds the frame had.
THEOREM NumberFieldIsSound == ComboSpec => [](ComboTypeOK /\ FollowsThePointer /\ AsksWithinBounds)
<1>1. ComboInv => ComboTypeOK /\ FollowsThePointer /\ AsksWithinBounds
  BY ComboBounds DEF ComboInv, ComboTypes
<1>2. QED
  BY <1>1, ComboInit_Inv, ComboStep, PTL DEF ComboSpec

-----------------------------------------------------------------------------
(* A language preference                                                   *)

LEMMA TheLangs ==
    /\ Langs = {<<"en">>, <<"zh", "hans">>, <<"zh", "hant">>, <<"ja">>, <<"ko">>, <<"de">>,
                <<"fr">>, <<"es">>, <<"pt", "br">>, <<"ru">>, <<"th">>}
    /\ DOMAIN Tags = 1..11
<1>1. DOMAIN Tags = 1..11
  BY DEF Tags
<1>2. Langs = {Tags[i] : i \in 1..11}
  BY <1>1 DEF Langs, ToSet
<1>3. 1..11 = {1, 2, 3, 4, 5, 6, 7, 8, 9, 10, 11}
  OBVIOUS
<1>4. Langs = {Tags[1], Tags[2], Tags[3], Tags[4], Tags[5], Tags[6], Tags[7], Tags[8], Tags[9], Tags[10], Tags[11]}
  BY <1>2, <1>3, Zenon
<1>5. QED
  BY <1>1, <1>4 DEF Tags

LEMMA Codes == \A l \in Langs : code(l) \in 1..11 /\ Tags[code(l)] = l
<1> SUFFICES ASSUME NEW l \in Langs PROVE code(l) \in 1..11 /\ Tags[code(l)] = l
  OBVIOUS
<1>1. \E i \in DOMAIN Tags : Tags[i] = l
  BY DEF Langs, ToSet
<1>2. code(l) \in DOMAIN Tags /\ Tags[code(l)] = l
  BY <1>1 DEF code
<1>3. QED
  BY <1>2, TheLangs

LEMMA LocaleGives == ASSUME NEW text PROVE from_locale(text) \in Langs \union {NoLang}
<1>1. <<"zh", "hant">> \in Langs /\ <<"zh", "hans">> \in Langs /\ <<"pt", "br">> \in Langs
  BY TheLangs
<1>2. QED
  BY <1>1, Zenon DEF from_locale

LEMMA OwnTag == ASSUME NEW l \in Langs PROVE from_locale(l) = l
<1>1. CASE l = <<"zh", "hans">>
  <2>1. Head(l) = "zh" /\ ToSet(Tail(l)) = {"hans"} /\ l # <<>>
    BY <1>1 DEF ToSet
  <2>2. QED
    BY <1>1, <2>1 DEF from_locale, Traditional
<1>2. CASE l = <<"zh", "hant">>
  <2>1. Head(l) = "zh" /\ ToSet(Tail(l)) = {"hant"} /\ l # <<>>
    BY <1>2 DEF ToSet
  <2>2. QED
    BY <1>2, <2>1 DEF from_locale, Traditional
<1>3. CASE l = <<"pt", "br">>
  <2>1. Head(l) = "pt" /\ l # <<>>
    BY <1>3
  <2>2. QED
    BY <1>3, <2>1 DEF from_locale
<1>4. CASE l \in {<<"en">>, <<"ja">>, <<"ko">>, <<"de">>, <<"fr">>, <<"es">>, <<"ru">>, <<"th">>}
  <2>1. l # <<>> /\ Head(l) \notin {"zh", "pt"} /\ <<Head(l)>> = l
    BY <1>4
  <2>2. QED
    BY <2>1 DEF from_locale
<1>5. QED
  BY <1>1, <1>2, <1>3, <1>4, TheLangs

LEMMA TextsDiffer ==
    /\ System # NoLang /\ System # NoLangFile /\ System # <<>>
    /\ \A l \in Langs : l # System /\ l # NoLang /\ l # NoLangFile /\ l # <<>>
<1>1. ASSUME NEW l \in Langs PROVE Head(l) \notin {"system", "none", "no file"} /\ l # <<>>
  <2>1. CASE l \in {<<"zh", "hans">>, <<"zh", "hant">>, <<"pt", "br">>}
    <3>1. Head(l) \in {"zh", "pt"} /\ l # <<>>
      BY <2>1
    <3>2. QED
      BY <3>1
  <2>2. CASE l \in {<<"en">>, <<"ja">>, <<"ko">>, <<"de">>, <<"fr">>, <<"es">>, <<"ru">>, <<"th">>}
    <3>1. Head(l) \in {"en", "ja", "ko", "de", "fr", "es", "ru", "th"} /\ l # <<>>
      BY <2>2
    <3>2. QED
      BY <3>1
  <2>3. QED
    BY <2>1, <2>2, TheLangs
<1>2. Head(System) = "system" /\ Head(NoLang) = "none" /\ Head(NoLangFile) = "no file" /\ System # <<>>
  BY DEF System, NoLang, NoLangFile
<1>3. System # NoLang /\ System # NoLangFile
  BY <1>2
<1>4. ASSUME NEW l \in Langs PROVE l # System /\ l # NoLang /\ l # NoLangFile /\ l # <<>>
  BY <1>1, <1>2
<1>5. QED
  BY <1>2, <1>3, <1>4

LEMMA OwnText == ASSUME NEW pref \in Preferences PROVE parse_preference(Text(pref)) = pref
<1>1. CASE pref = System
  <2>1. Text(pref) = System
    BY <1>1 DEF Text
  <2>2. System \notin Langs
    BY TextsDiffer
  <2>3. from_tag(System) = NoLang
    BY <2>2 DEF from_tag
  <2>4. from_locale(System) = NoLang
    <3>1. Head(System) = "system" /\ System # <<>> /\ <<Head(System)>> = System
      BY DEF System
    <3>2. QED
      BY <2>2, <3>1 DEF from_locale
  <2>5. QED
    BY <1>1, <2>1, <2>3, <2>4, Zenon DEF parse_preference
<1>2. CASE pref \in Langs
  <2>1. pref \notin {<<>>, System} /\ from_tag(pref) = pref /\ pref # NoLang
    BY <1>2, TextsDiffer DEF from_tag
  <2>2. from_locale(pref) = pref
    BY <1>2, OwnTag
  <2>4. parse_preference(pref) = pref
    BY <2>1, <2>2, Zenon DEF parse_preference
  <2>3. QED
    BY <2>4 DEF Text
<1>3. QED
  BY <1>1, <1>2 DEF Preferences

LEMMA PreferencesDo == PreferencesComeBack
<1>1. ASSUME NEW l \in Langs PROVE from_code(code(l)) = l /\ code(l) # 0 /\ from_locale(l) = l
  BY Codes, OwnTag DEF from_code
<1>2. QED
  BY <1>1, OwnText DEF PreferencesComeBack

-----------------------------------------------------------------------------
(* The language shown                                                      *)

(* What the setter is about to store is what was chosen last, and a byte   *)
(* that no reader has overtaken is what it stored.                         *)
LangInv ==
    /\ setter.at \in {"idle", "store"}
    /\ here => chosen \in Preferences /\ (~lang_lost => preference = chosen)
    /\ setter.at = "store" => here /\ setter.lang = resolve(chosen)
    /\ here /\ ~overtaken /\ setter.at = "idle" => cached = code(resolve(chosen))

LEMMA ResolvedPref == ASSUME NEW pref \in Preferences PROVE resolve(pref) \in Langs /\ code(resolve(pref)) # 0
<1>1. system_lang \in Langs
  <2>1. En \in Langs
    BY TheLangs DEF En
  <2>2. QED
    BY <2>1, LocaleGives DEF system_lang
<1>2. resolve(pref) \in Langs
  BY <1>1 DEF resolve, Preferences
<1>3. QED
  BY <1>2, Codes

LEMMA LangInit_Inv == LangInit => LangInv
BY DEF LangInit, LangInv, NoCall

LEMMA StoreKeeps == ASSUME LangInv, NEW r \in Readers, Store(r) PROVE LangInv'
<1>1. UNCHANGED <<locale, setter, chosen, here, lang_lost, lang_file>>
  BY DEF Store, LangOthers
<1>2. preference' = preference /\ resolve(chosen)' = resolve(chosen)
  BY <1>1 DEF preference, resolve, system_lang
<1>3. ASSUME here, ~overtaken', setter.at = "idle" PROVE cached' = code(resolve(chosen))
  <2>1. cached = code(resolve(chosen)) /\ cached # 0 /\ cached' = code(lang_reader[r].lang)
        /\ cached \in {0, code(lang_reader[r].lang)}
    BY <1>3, ResolvedPref DEF Store, LangInv
  <2>2. QED
    BY <2>1
<1>4. QED
  BY <1>1, <1>2, <1>3 DEF LangInv

LEMMA ChoiceKeeps == ASSUME LangInv, NEW pref \in {System, <<"ja">>}, set_preference(pref) PROVE LangInv'
<1>1. pref \in Preferences /\ pref # NoLangFile
  <2>1. <<"ja">> \in Langs
    BY TheLangs
  <2>2. QED
    BY <2>1, TextsDiffer DEF Preferences
<1>2. UNCHANGED locale /\ chosen' = pref /\ here' = TRUE /\ setter' = [at |-> "store", lang |-> resolve(pref)]
  BY DEF set_preference
<1>3. resolve(chosen)' = resolve(pref)
  BY <1>2 DEF resolve, system_lang
<1>4. ~lang_lost' => preference' = pref
  <2>1. ~lang_lost' => lang_file' = Text(pref)
    BY DEF set_preference
  <2>2. QED
    BY <1>1, <2>1, OwnText DEF preference, Text
<1>5. QED
  BY <1>1, <1>2, <1>3, <1>4 DEF LangInv

LEMMA LangStep == LangInv /\ [LangNext]_lang_vars => LangInv'
<1> SUFFICES ASSUME LangInv, [LangNext]_lang_vars PROVE LangInv'
  OBVIOUS
<1>1. ASSUME UNCHANGED <<locale, lang_file, cached, setter, chosen, here, overtaken, lang_lost>> PROVE LangInv'
  BY <1>1 DEF LangInv, preference, resolve, system_lang
<1>2. CASE UNCHANGED lang_vars
  BY <1>1, <1>2 DEF lang_vars
<1>3. ASSUME NEW r \in Readers, Current(r) \/ Resolve(r) \/ Store(r) \/ NextFrame(r) PROVE LangInv'
  BY <1>1, <1>3, StoreKeeps DEF Current, Resolve, NextFrame, LangOthers
<1>4. CASE SetterStores
  <2>1. UNCHANGED <<locale, lang_file, chosen, here, lang_lost>> /\ cached' = code(setter.lang)
        /\ setter' = NoCall /\ setter.at = "store"
    BY <1>4 DEF SetterStores
  <2>2. preference' = preference /\ resolve(chosen)' = resolve(chosen)
    BY <2>1 DEF preference, resolve, system_lang
  <2>3. QED
    BY <2>1, <2>2 DEF LangInv, NoCall
<1>5. CASE OtherProcess(<<"pt", "br">>)
  BY <1>5 DEF OtherProcess, LangInv
<1>6. QED
  BY <1>2, <1>3, <1>4, <1>5, ChoiceKeeps DEF LangNext

\* The language of a process, whatever its threads and other processes do:
\* unless a reader was overtaken, what is shown is what was chosen, and what
\* was written is read back as it.
THEOREM LanguageIsTheChosen == LangSpec => []ShownAsChosen
<1>1. LangInv => ShownAsChosen
  BY DEF LangInv, ShownAsChosen
<1>2. QED
  BY <1>1, LangInit_Inv, LangStep, PTL DEF LangSpec

-----------------------------------------------------------------------------
(* The setup's job                                                         *)

(* From the moment the setup may run, every process of its tree is in the  *)
(* job, and a setup that is gone from it has ended and left its code.      *)
JobInv ==
    /\ job_at \in {"start", "prepared", "created", "assigned", "waiting", "returned"}
    /\ tree \subseteq {"setup", "child"} /\ members \subseteq tree
    /\ job_at \in {"start", "prepared"} => tree = {}
    /\ job_at \in {"created", "assigned"} => suspended /\ tree = {"setup"}
    /\ job_at \in {"assigned", "waiting"} => members = tree
    /\ job_at = "waiting" => ~suspended /\ ("setup" \notin tree => by_itself /\ exit_code # NoCode)
    /\ by_itself \in BOOLEAN
    /\ job_at # "returned" => outcome = "none"
    /\ TreeEnds
    /\ OutcomeTold

LEMMA JobInit_Inv == JobInit => JobInv
BY DEF JobInit, JobInv, TreeEnds, OutcomeTold

(* Closing the job leaves nothing that runs.                               *)
LEMMA CloseKeeps ==
    ASSUME JobInv, NEW result, NEW ending, job_at # "returned", Close(result, ending),
           result = "exited" => job_at = "waiting" /\ "setup" \notin tree,
           result = "timed out" => waited = timeout_ms
    PROVE  JobInv'
<1>1. TreeEnds'
  BY DEF JobInv, Close, TreeEnds
<1>2. OutcomeTold'
  BY DEF JobInv, Close, OutcomeTold
<1>3. QED
  BY <1>1, <1>2 DEF JobInv, Close

LEMMA RunKeeps == ASSUME JobInv, run_tree PROVE JobInv'
<1>1. CASE Bail /\ job_at # "returned"
  BY <1>1, CloseKeeps DEF Bail
<1>2. CASE PrepareJob
  BY <1>1, <1>2 DEF PrepareJob, JobInv, TreeEnds, OutcomeTold
<1>3. CASE CreateProcess
  BY <1>1, <1>3 DEF CreateProcess, JobInv, TreeEnds, OutcomeTold
<1>4. CASE AssignProcess
  BY <1>1, <1>4 DEF AssignProcess, JobInv, TreeEnds, OutcomeTold
<1>5. CASE Resume
  BY <1>1, <1>5 DEF Resume, JobInv, TreeEnds, OutcomeTold
<1>6. CASE Exited
  BY <1>1, <1>6, CloseKeeps DEF Exited
<1>7. CASE TimedOut
  BY <1>7, CloseKeeps DEF TimedOut
<1>8. CASE WaitFails
  BY <1>1, <1>8 DEF WaitFails
<1>9. QED
  BY <1>2, <1>3, <1>4, <1>5, <1>6, <1>7, <1>8 DEF run_tree

LEMMA JobStep == JobInv /\ [JobNext]_job_vars => JobInv'
<1> SUFFICES ASSUME JobInv, [JobNext]_job_vars PROVE JobInv'
  OBVIOUS
<1>1. CASE UNCHANGED job_vars
  BY <1>1 DEF job_vars, JobInv, TreeEnds, OutcomeTold
<1>2. CASE Killed
  BY <1>2, CloseKeeps DEF Killed
<1>3. CASE Forks
  BY <1>3 DEF Forks, JobInv, TreeEnds, OutcomeTold
<1>4. CASE JobTick
  BY <1>4 DEF JobTick, JobInv, TreeEnds, OutcomeTold
<1>5. ASSUME NEW p \in {"setup", "child"}, ProcessEnds(p) PROVE JobInv'
  <2>1. p \in tree /\ ~suspended /\ job_at = "waiting" /\ members = tree
    BY <1>5 DEF ProcessEnds, JobInv, TreeEnds
  <2>2. tree' = tree \ {p} /\ members' = members \ {p} /\ UNCHANGED <<job_at, suspended, waited, outcome>>
    BY <1>5 DEF ProcessEnds
  <2>3. by_itself' \in BOOLEAN /\ ("setup" \notin tree' => by_itself' /\ exit_code' # NoCode)
    <3>1. CASE p = "setup"
      <4>1. exit_code' \in {0, KILLED, 7} /\ by_itself' = TRUE
        BY <1>5, <3>1, Zenon DEF ProcessEnds
      <4>2. exit_code' # NoCode
        BY <4>1 DEF NoCode, KILLED
      <4>3. QED
        BY <4>1, <4>2, Zenon
    <3>2. CASE p # "setup"
      <4>1. exit_code' = exit_code /\ by_itself' = by_itself
        BY <1>5, <3>2, Zenon DEF ProcessEnds
      <4>2. "setup" \notin tree' => "setup" \notin tree
        BY <2>2, <3>2
      <4>3. QED
        BY <2>1, <4>1, <4>2, Zenon DEF JobInv
    <3>3. QED
      BY <3>1, <3>2
  <2>4. QED
    BY <2>1, <2>2, <2>3 DEF JobInv, TreeEnds, OutcomeTold
<1>6. QED
  BY <1>1, <1>2, <1>3, <1>4, <1>5, RunKeeps DEF JobNext

\* The setup's tree of processes, whatever fails and whenever the updater is
\* killed: once run_tree is over nothing of it runs, and a setup is reported to
\* have ended only when it has, of its own accord.
THEOREM SetupsTreeEnds == JobSpec => [](TreeEnds /\ OutcomeTold)
<1>1. JobInv => TreeEnds /\ OutcomeTold
  BY DEF JobInv
<1>2. QED
  BY <1>1, JobInit_Inv, JobStep, PTL DEF JobSpec

-----------------------------------------------------------------------------
(* An install, and an uninstall                                            *)

KnownFiles == (UNION {WholeBundle(b) : b \in Builds \union {ITSELF, VERSION}}) \union {Marker(s) : s \in Scopes}
Dirs == [is : {"dir"}, files : SUBSET KnownFiles]
InstallSteps == {"idle", "check", "remove", "copy", "marker", "updater"}
CommandSet ==
    [ op : {"none", "install", "uninstall", "uninstall all"}, at : InstallSteps, todo : SUBSET Scopes,
      scope : Scopes, build : Builds \union {ITSELF, VERSION},
      result : {"none", "ok", "error", "in use", "interrupted"} ]

InstallTypes ==
    /\ bundle \in [Scopes -> {Absent} \union Dirs]
    /\ undisturbed \in [Scopes -> {Absent} \union Dirs]
    /\ loaded \subseteq Scopes
    /\ cmd \in CommandSet

(* A bundle that a host has open has its binary; what was seen of it when   *)
(* the command began is there still, and no command is past its check of it.*)
HostsHold ==
    /\ \A s \in loaded : HasBinary(s)
    /\ \A s \in Scopes : undisturbed[s] = Absent \/ (s \in loaded /\ undisturbed[s] = bundle[s])
    /\ cmd.at \notin {"idle", "check"} => undisturbed[cmd.scope] = Absent

Handled(s) == ~Exists(s) \/ s \in blocked

InstallStage ==
    cmd.op = "install" =>
        /\ cmd.at = "copy" => BundleFiles(cmd.scope) \subseteq WholeBundle(cmd.build)
        /\ cmd.at = "marker" => Exists(cmd.scope) /\ BundleFiles(cmd.scope) = WholeBundle(cmd.build)
        /\ cmd.at = "updater" => BundleFiles(cmd.scope) = WholeBundle(cmd.build) \union {Marker(cmd.scope)}

UninstallStage ==
    /\ cmd.at # "idle" => cmd.scope \in cmd.todo
    /\ cmd.op = "uninstall" /\ cmd.at # "idle" => cmd.todo = {cmd.scope}
    /\ cmd.op = "uninstall all" /\ cmd.at # "idle" => \A s \in Scopes \ cmd.todo : Handled(s)

InstallInv == InstallTypes /\ HostsHold /\ InstallStage /\ UninstallStage /\ DoneAsReported

LEMMA BundleKinds ==
    /\ Absent \notin Dirs /\ Absent.is = "absent"
    /\ \A d \in Dirs : d.is = "dir" /\ d = Dir(d.files)
    /\ \A f \in SUBSET KnownFiles : Dir(f) \in Dirs /\ Dir(f).files = f /\ Dir(f).is = "dir"
    /\ \A b \in Builds \union {ITSELF, VERSION} : WholeBundle(b) \subseteq KnownFiles
    /\ \A s \in Scopes : Marker(s) \in KnownFiles
BY DEF Absent, Dirs, Dir, KnownFiles

LEMMA NoCommandIs ==
    /\ NoCommand \in CommandSet /\ NoCommand.at = "idle" /\ NoCommand.op = "none"
BY InstallAssumption DEF NoCommand, CommandSet, InstallSteps

LEMMA EndedIs ==
    ASSUME cmd \in CommandSet, NEW result \in {"ok", "error", "in use", "interrupted"}
    PROVE  /\ Ended(result) \in CommandSet /\ Ended(result).at = "idle" /\ Ended(result).result = result
           /\ Ended(result).op = cmd.op /\ Ended(result).scope = cmd.scope /\ Ended(result).build = cmd.build
BY DEF Ended, NoCommand, CommandSet, InstallSteps

LEMMA InstallInit_Inv == InstallInit => InstallInv
<1> SUFFICES ASSUME InstallInit PROVE InstallInv
  OBVIOUS
<1>1. InstallTypes
  BY BundleKinds, NoCommandIs DEF InstallInit, InstallTypes
<1>2. QED
  BY <1>1, NoCommandIs DEF InstallInit, InstallInv, HostsHold, InstallStage, UninstallStage, DoneAsReported, Delivered

(* A step that leaves every bundle as it is, and ends the command or takes *)
(* it to its next step.                                                    *)
LEMMA InstallEndKeeps ==
    ASSUME InstallInv, NEW result \in {"error", "in use", "interrupted"}, Step(Ended(result)),
           UNCHANGED bundle
    PROVE  InstallInv'
<1>1. cmd \in CommandSet /\ InstallTypes
  BY DEF InstallInv, InstallTypes
<1>2. cmd' = Ended(result) /\ UNCHANGED <<bundle, loaded, undisturbed>>
  BY DEF Step
<1>3. cmd' \in CommandSet /\ cmd'.at = "idle" /\ cmd'.result # "ok"
  BY <1>1, <1>2, EndedIs
<1>4. QED
  BY <1>1, <1>2, <1>3
     DEF InstallInv, InstallTypes, HostsHold, HasBinary, BundleFiles, Exists, InstallStage, UninstallStage,
         DoneAsReported, Delivered

(* The beginning of a command, of one bundle or of all.                    *)
LEMMA BeginsKeep ==
    ASSUME InstallInv, NEW c \in CommandSet, Begin(c), c.at = "check", c.scope \in c.todo,
           c.op = "uninstall" => c.todo = {c.scope}, c.op = "uninstall all" => c.todo = Scopes
    PROVE  InstallInv'
<1>1. /\ InstallTypes /\ HostsHold /\ cmd' = c
      /\ undisturbed' = [s \in Scopes |-> IF s \in loaded THEN bundle[s] ELSE Absent]
      /\ UNCHANGED <<bundle, loaded>>
  BY DEF InstallInv, Begin
<1>2. InstallTypes'
  BY <1>1 DEF InstallTypes
<1>3. HostsHold'
  BY <1>1 DEF HostsHold, HasBinary, BundleFiles, Exists
<1>4. QED
  BY <1>1, <1>2, <1>3 DEF InstallInv, InstallStage, UninstallStage, DoneAsReported

LEMMA BeginKeeps == ASSUME InstallInv, BeginInstall \/ BeginUninstall PROVE InstallInv'
<1>1. ASSUME NEW s \in Scopes, NEW b \in Builds \union {ITSELF},
             Begin([NoCommand EXCEPT !.op = "install", !.at = "check", !.scope = s, !.build = b, !.todo = {s}])
      PROVE  InstallInv'
  <2> DEFINE c == [NoCommand EXCEPT !.op = "install", !.at = "check", !.scope = s, !.build = b, !.todo = {s}]
  <2>1. c \in CommandSet /\ c.at = "check" /\ c.scope \in c.todo /\ c.op = "install"
    BY NoCommandIs DEF CommandSet, InstallSteps
  <2> HIDE DEF c
  <2>2. Begin(c)
    BY <1>1 DEF c
  <2>3. QED
    BY <2>1, <2>2, BeginsKeep
<1>2. ASSUME NEW op \in {"uninstall", "uninstall all"}, NEW s \in Scopes,
             Begin([NoCommand EXCEPT !.op = op, !.at = "check", !.scope = IF op = "uninstall" THEN s ELSE "user",
                                     !.todo = IF op = "uninstall" THEN {s} ELSE Scopes])
      PROVE  InstallInv'
  <2> DEFINE c == [NoCommand EXCEPT !.op = op, !.at = "check", !.scope = IF op = "uninstall" THEN s ELSE "user",
                                    !.todo = IF op = "uninstall" THEN {s} ELSE Scopes]
  <2>1. /\ c \in CommandSet /\ c.at = "check" /\ c.op = op
        /\ c.scope = (IF op = "uninstall" THEN s ELSE "user")
        /\ c.todo = (IF op = "uninstall" THEN {s} ELSE Scopes)
    BY NoCommandIs, InstallAssumption DEF CommandSet, InstallSteps
  <2> HIDE DEF c
  <2>2. Begin(c)
    BY <1>2 DEF c
  <2>3. /\ c.scope \in c.todo /\ (c.op = "uninstall" => c.todo = {c.scope})
        /\ (c.op = "uninstall all" => c.todo = Scopes)
    <3>1. CASE op = "uninstall"
      BY <2>1, <3>1
    <3>2. CASE op = "uninstall all"
      <4>1. op # "uninstall"
        BY <3>2
      <4>2. c.scope = "user" /\ c.todo = Scopes
        BY <2>1, <4>1, Zenon
      <4>3. QED
        BY <2>1, <4>1, <4>2, InstallAssumption
    <3>3. QED
      BY <3>1, <3>2
  <2>4. QED
    BY <2>1, <2>2, <2>3, BeginsKeep
<1>3. QED
  BY <1>1, <1>2 DEF BeginInstall, BeginUninstall

(* A command that has found its bundle not in use is free to change it.    *)
LEMMA NotInUse == ASSUME InstallInv, ~is_locked(cmd.scope) PROVE undisturbed[cmd.scope] = Absent
BY DEF InstallInv, InstallTypes, CommandSet, HostsHold, is_locked

LEMMA AtIs ==
    ASSUME cmd \in CommandSet, NEW stage \in InstallSteps
    PROVE  LET c == [cmd EXCEPT !.at = stage]
           IN  /\ c \in CommandSet /\ c.at = stage /\ c.op = cmd.op /\ c.todo = cmd.todo /\ c.scope = cmd.scope
               /\ c.build = cmd.build /\ c.result = cmd.result
BY DEF CommandSet

LEMMA CheckKeeps == ASSUME InstallInv, CheckTarget PROVE InstallInv'
<1>1. CASE is_locked(cmd.scope)
  BY <1>1, InstallEndKeeps DEF CheckTarget
<1>2. CASE ~is_locked(cmd.scope)
  <2>1. InstallTypes /\ cmd \in CommandSet /\ cmd.op = "install" /\ cmd.at = "check" /\ "remove" \in InstallSteps
    BY DEF InstallInv, InstallTypes, CheckTarget, InstallSteps
  <2>2. cmd' = [cmd EXCEPT !.at = "remove"] /\ UNCHANGED <<bundle, loaded, undisturbed>>
    BY <1>2 DEF CheckTarget, Step
  <2>3. cmd' \in CommandSet /\ cmd'.at = "remove" /\ cmd'.op = "install" /\ cmd'.todo = cmd.todo /\ cmd'.scope = cmd.scope
    BY <2>1, <2>2, AtIs
  <2>4. undisturbed[cmd.scope] = Absent
    BY <1>2, NotInUse
  <2>5. QED
    BY <2>1, <2>2, <2>3, <2>4
       DEF InstallInv, InstallTypes, HostsHold, HasBinary, BundleFiles, Exists, InstallStage, UninstallStage, DoneAsReported
<1>3. QED
  BY <1>1, <1>2

(* A bundle that the command may change, and no other, is given new files  *)
(* or goes; a binary that a host has open stays.                           *)
LEMMA ChangeKeeps ==
    ASSUME InstallInv, cmd.at \notin {"idle", "check"}, NEW d \in {Absent} \union Dirs,
           bundle' = [bundle EXCEPT ![cmd.scope] = d], cmd' \in CommandSet, cmd'.scope = cmd.scope \/ cmd'.at \in {"idle", "check"},
           UNCHANGED <<loaded, undisturbed>>,
           cmd.scope \in loaded => d.is = "dir" /\ \E f \in d.files : f.part = "binary"
    PROVE  InstallTypes' /\ HostsHold'
<1>1. /\ InstallTypes /\ HostsHold /\ cmd \in CommandSet /\ cmd.scope \in Scopes
  BY DEF InstallInv, InstallTypes, CommandSet
<1>2. bundle'[cmd.scope] = d /\ \A s \in Scopes : s # cmd.scope => bundle'[s] = bundle[s]
  BY <1>1 DEF InstallTypes
<1>3. InstallTypes'
  BY <1>1 DEF InstallTypes
<1>4. \A s \in loaded : HasBinary(s)'
  BY <1>1, <1>2 DEF InstallTypes, HostsHold, HasBinary, BundleFiles, Exists
<1>5. \A s \in Scopes : undisturbed[s] = Absent \/ (s \in loaded /\ undisturbed[s] = bundle'[s])
  BY <1>1, <1>2 DEF HostsHold
<1>6. QED
  BY <1>1, <1>3, <1>4, <1>5 DEF HostsHold

(* What the removal of a file leaves of a bundle.                          *)
LEMMA RemovalIs ==
    ASSUME InstallInv, RemoveBundleFile(cmd.scope)
    PROVE  \E f \in BundleFiles(cmd.scope) :
              LET d == Dir(BundleFiles(cmd.scope) \ {f})
              IN  /\ d \in Dirs /\ bundle' = [bundle EXCEPT ![cmd.scope] = d]
                  /\ cmd.scope \in loaded => \E g \in d.files : g.part = "binary"
<1>1. PICK f \in BundleFiles(cmd.scope) :
          Removable(f, cmd.scope) /\ bundle' = [bundle EXCEPT ![cmd.scope].files = @ \ {f}]
  BY DEF RemoveBundleFile
<1>2. /\ cmd.scope \in Scopes /\ bundle[cmd.scope] \in {Absent} \union Dirs /\ HostsHold
  BY DEF InstallInv, InstallTypes, CommandSet
<1>3. /\ Exists(cmd.scope) /\ bundle[cmd.scope] \in Dirs /\ BundleFiles(cmd.scope) = bundle[cmd.scope].files
  BY <1>2, BundleKinds DEF BundleFiles, Exists
<1> DEFINE d == Dir(BundleFiles(cmd.scope) \ {f})
<1>4. BundleFiles(cmd.scope) \ {f} \in SUBSET KnownFiles
  BY <1>3 DEF Dirs
<1>5. d \in Dirs /\ d.files = BundleFiles(cmd.scope) \ {f}
  BY <1>4, BundleKinds
<1>6. [bundle[cmd.scope] EXCEPT !.files = @ \ {f}] = d
  BY <1>3 DEF Dir, Dirs
<1>7. bundle' = [bundle EXCEPT ![cmd.scope] = d]
  BY <1>1, <1>6 DEF InstallInv, InstallTypes
<1>8. cmd.scope \in loaded => \E g \in d.files : g.part = "binary"
  BY <1>1, <1>2, <1>5 DEF HostsHold, HasBinary, Removable
<1>9. QED
  BY <1>5, <1>7, <1>8

(* What a step of an install within its stage has to show.                 *)
LEMMA InstallingKeeps ==
    ASSUME InstallInv, InstallTypes', HostsHold', InstallStage', cmd.op = "install", cmd.at # "idle",
           cmd'.op = "install", cmd'.at # "idle", cmd'.todo = cmd.todo, cmd'.scope = cmd.scope
    PROVE  InstallInv'
BY DEF InstallInv, UninstallStage, DoneAsReported

LEMMA RemoveOldKeeps == ASSUME InstallInv, RemoveOld PROVE InstallInv'
<1>0. /\ InstallTypes /\ HostsHold /\ cmd \in CommandSet /\ cmd.op = "install" /\ cmd.at = "remove"
      /\ "copy" \in InstallSteps
  BY DEF InstallInv, InstallTypes, RemoveOld, InstallSteps
<1>1. CASE RemoveBundleFile(cmd.scope) /\ Step(cmd)
  <2>1. cmd' = cmd /\ UNCHANGED <<loaded, undisturbed>>
    BY <1>1 DEF Step
  <2>2. InstallTypes' /\ HostsHold'
    BY <1>0, <1>1, <2>1, RemovalIs, ChangeKeeps, BundleKinds
  <2>3. QED
    BY <1>0, <2>1, <2>2, InstallingKeeps DEF InstallStage
<1>2. CASE RemoveDir(cmd.scope) /\ Step(cmd)
  <2>1. cmd' = cmd /\ UNCHANGED <<loaded, undisturbed>> /\ bundle' = [bundle EXCEPT ![cmd.scope] = Absent]
        /\ cmd.scope \notin loaded
    BY <1>0, <1>2 DEF Step, RemoveDir, HostsHold, HasBinary
  <2>2. InstallTypes' /\ HostsHold'
    BY <1>0, <2>1, ChangeKeeps
  <2>3. QED
    BY <1>0, <2>1, <2>2, InstallingKeeps DEF InstallStage
<1>3. CASE Step(Ended("error")) /\ UNCHANGED bundle
  BY <1>3, InstallEndKeeps
<1>4. CASE ~Exists(cmd.scope) /\ Step([cmd EXCEPT !.at = "copy"]) /\ UNCHANGED bundle
  <2>1. cmd' = [cmd EXCEPT !.at = "copy"] /\ UNCHANGED <<bundle, loaded, undisturbed>>
    BY <1>4 DEF Step
  <2>2. /\ cmd' \in CommandSet /\ cmd'.at = "copy" /\ cmd'.op = "install" /\ cmd'.todo = cmd.todo
        /\ cmd'.scope = cmd.scope
    BY <1>0, <2>1, AtIs
  <2>3. InstallTypes' /\ HostsHold'
    BY <1>0, <2>1, <2>2 DEF InstallTypes, HostsHold, HasBinary, BundleFiles, Exists
  <2>4. InstallStage'
    BY <1>4, <2>1, <2>2 DEF InstallStage, BundleFiles, Exists
  <2>5. QED
    BY <1>0, <2>2, <2>3, <2>4, InstallingKeeps
<1>5. QED
  BY <1>1, <1>2, <1>3, <1>4 DEF RemoveOld

LEMMA CopyKeeps == ASSUME InstallInv, CopyNew PROVE InstallInv'
<1>0. /\ InstallTypes /\ HostsHold /\ cmd \in CommandSet /\ cmd.op = "install" /\ cmd.at = "copy"
      /\ "marker" \in InstallSteps /\ cmd.scope \in Scopes /\ cmd.build \in Builds \union {ITSELF, VERSION}
      /\ BundleFiles(cmd.scope) \subseteq WholeBundle(cmd.build)
      /\ bundle[cmd.scope] \in {Absent} \union Dirs
  BY DEF InstallInv, InstallTypes, InstallStage, CopyNew, InstallSteps, CommandSet
<1>1. CASE ~Exists(cmd.scope) /\ bundle' = [bundle EXCEPT ![cmd.scope] = Dir({})] /\ Step(cmd)
  <2>1. cmd' = cmd /\ UNCHANGED <<loaded, undisturbed>> /\ cmd.scope \notin loaded
    BY <1>0, <1>1 DEF Step, HostsHold, HasBinary, BundleFiles
  <2>2. Dir({}) \in Dirs /\ Dir({}).files = {}
    BY BundleKinds
  <2>3. InstallTypes' /\ HostsHold'
    BY <1>0, <1>1, <2>1, <2>2, ChangeKeeps
  <2>4. bundle'[cmd.scope] = Dir({})
    BY <1>0, <1>1 DEF InstallTypes
  <2>5. InstallStage'
    BY <1>0, <2>1, <2>2, <2>4 DEF InstallStage, BundleFiles
  <2>6. QED
    BY <1>0, <2>1, <2>3, <2>5, InstallingKeeps
<1>2. ASSUME NEW f \in WholeBundle(cmd.build), Exists(cmd.scope),
             bundle' = [bundle EXCEPT ![cmd.scope].files = @ \union {f}], Step(cmd)
      PROVE  InstallInv'
  <2> DEFINE d == Dir(BundleFiles(cmd.scope) \union {f})
  <2>1. cmd' = cmd /\ UNCHANGED <<loaded, undisturbed>>
    BY <1>2 DEF Step
  <2>2. bundle[cmd.scope] \in Dirs /\ BundleFiles(cmd.scope) = bundle[cmd.scope].files
    BY <1>0, <1>2, BundleKinds DEF BundleFiles, Exists
  <2>3. BundleFiles(cmd.scope) \union {f} \in SUBSET KnownFiles
    BY <1>0, <1>2, BundleKinds
  <2>4. d \in Dirs /\ d.files = BundleFiles(cmd.scope) \union {f} /\ d.is = "dir"
    BY <2>3, BundleKinds
  <2>5. [bundle[cmd.scope] EXCEPT !.files = @ \union {f}] = d
    BY <2>2 DEF Dir, Dirs
  <2>6. bundle' = [bundle EXCEPT ![cmd.scope] = d] /\ bundle'[cmd.scope] = d
    BY <1>0, <1>2, <2>5 DEF InstallTypes
  <2> HIDE DEF d
  <2>7. cmd.scope \in loaded => \E g \in d.files : g.part = "binary"
    BY <1>0, <2>4 DEF HostsHold, HasBinary
  <2>8. InstallTypes' /\ HostsHold'
    BY <1>0, <2>1, <2>4, <2>6, <2>7, ChangeKeeps
  <2>9. InstallStage'
    BY <1>0, <1>2, <2>1, <2>4, <2>6 DEF InstallStage, BundleFiles
  <2>10. QED
    BY <1>0, <2>1, <2>8, <2>9, InstallingKeeps
<1>3. CASE Exists(cmd.scope) /\ WholeBundle(cmd.build) \ BundleFiles(cmd.scope) = {}
           /\ Step([cmd EXCEPT !.at = "marker"]) /\ UNCHANGED bundle
  <2>1. cmd' = [cmd EXCEPT !.at = "marker"] /\ UNCHANGED <<bundle, loaded, undisturbed>>
    BY <1>3 DEF Step
  <2>2. /\ cmd' \in CommandSet /\ cmd'.at = "marker" /\ cmd'.op = "install" /\ cmd'.todo = cmd.todo
        /\ cmd'.scope = cmd.scope /\ cmd'.build = cmd.build
    BY <1>0, <2>1, AtIs
  <2>3. InstallTypes' /\ HostsHold'
    BY <1>0, <2>1, <2>2 DEF InstallTypes, HostsHold, HasBinary, BundleFiles, Exists
  <2>6. BundleFiles(cmd.scope) = WholeBundle(cmd.build)
    BY <1>0, <1>3
  <2>4. InstallStage'
    BY <1>0, <1>3, <2>1, <2>2, <2>6 DEF InstallStage, BundleFiles, Exists
  <2>5. QED
    BY <1>0, <2>2, <2>3, <2>4, InstallingKeeps
<1>4. CASE Step(Ended("error")) /\ UNCHANGED bundle
  BY <1>4, InstallEndKeeps
<1>5. QED
  BY <1>1, <1>2, <1>3, <1>4 DEF CopyNew

LEMMA MarkerKeeps == ASSUME InstallInv, write_marker PROVE InstallInv'
<1>0. /\ InstallTypes /\ HostsHold /\ cmd \in CommandSet /\ cmd.op = "install" /\ cmd.at = "marker"
      /\ "updater" \in InstallSteps /\ cmd.scope \in Scopes /\ cmd.build \in Builds \union {ITSELF, VERSION}
      /\ Exists(cmd.scope) /\ BundleFiles(cmd.scope) = WholeBundle(cmd.build)
      /\ bundle[cmd.scope] \in {Absent} \union Dirs
  BY DEF InstallInv, InstallTypes, InstallStage, write_marker, InstallSteps, CommandSet
<1>1. CASE bundle' = [bundle EXCEPT ![cmd.scope].files = @ \union {Marker(cmd.scope)}]
           /\ Step([cmd EXCEPT !.at = "updater"])
  <2> DEFINE d == Dir(BundleFiles(cmd.scope) \union {Marker(cmd.scope)})
  <2>1. cmd' = [cmd EXCEPT !.at = "updater"] /\ UNCHANGED <<loaded, undisturbed>>
    BY <1>1 DEF Step
  <2>2. bundle[cmd.scope] \in Dirs /\ BundleFiles(cmd.scope) = bundle[cmd.scope].files
    BY <1>0, BundleKinds DEF BundleFiles, Exists
  <2>3. BundleFiles(cmd.scope) \union {Marker(cmd.scope)} \in SUBSET KnownFiles
    BY <1>0, BundleKinds
  <2>4. d \in Dirs /\ d.files = BundleFiles(cmd.scope) \union {Marker(cmd.scope)} /\ d.is = "dir"
    BY <2>3, BundleKinds
  <2>5. [bundle[cmd.scope] EXCEPT !.files = @ \union {Marker(cmd.scope)}] = d
    BY <2>2 DEF Dir, Dirs
  <2>6. bundle' = [bundle EXCEPT ![cmd.scope] = d] /\ bundle'[cmd.scope] = d
    BY <1>0, <1>1, <2>5 DEF InstallTypes
  <2> HIDE DEF d
  <2>7. cmd.scope \in loaded => \E g \in d.files : g.part = "binary"
    BY <1>0, <2>4 DEF HostsHold, HasBinary
  <2>8. /\ cmd' \in CommandSet /\ cmd'.at = "updater" /\ cmd'.op = "install" /\ cmd'.todo = cmd.todo
        /\ cmd'.scope = cmd.scope /\ cmd'.build = cmd.build
    BY <1>0, <2>1, AtIs
  <2>9. InstallTypes' /\ HostsHold'
    BY <1>0, <2>1, <2>4, <2>6, <2>7, <2>8, ChangeKeeps
  <2>10. InstallStage'
    BY <1>0, <2>4, <2>6, <2>8 DEF InstallStage, BundleFiles, Exists
  <2>11. QED
    BY <1>0, <2>8, <2>9, <2>10, InstallingKeeps
<1>2. CASE Step(Ended("error")) /\ UNCHANGED bundle
  BY <1>2, InstallEndKeeps
<1>3. QED
  BY <1>1, <1>2 DEF write_marker

LEMMA UpdaterKeeps == ASSUME InstallInv, install_updater PROVE InstallInv'
<1>0. /\ InstallTypes /\ HostsHold /\ cmd \in CommandSet /\ cmd.op = "install" /\ cmd.at = "updater"
      /\ BundleFiles(cmd.scope) = WholeBundle(cmd.build) \union {Marker(cmd.scope)}
  BY DEF InstallInv, InstallTypes, InstallStage, install_updater
<1>1. CASE Step(Ended("error"))
  BY <1>1, InstallEndKeeps DEF install_updater
<1>2. CASE Step(Ended("ok"))
  <2>1. cmd' = Ended("ok") /\ UNCHANGED <<bundle, loaded, undisturbed, blocked>>
    BY <1>2 DEF Step, install_updater
  <2>2. /\ cmd' \in CommandSet /\ cmd'.at = "idle" /\ cmd'.op = "install" /\ cmd'.scope = cmd.scope
        /\ cmd'.build = cmd.build
    BY <1>0, <2>1, EndedIs
  <2>3. DoneAsReported'
    BY <1>0, <2>1, <2>2 DEF DoneAsReported, Delivered, BundleFiles, Exists
  <2>4. QED
    BY <1>0, <2>1, <2>2, <2>3
       DEF InstallInv, InstallTypes, HostsHold, HasBinary, BundleFiles, Exists, InstallStage, UninstallStage
<1>3. QED
  BY <1>1, <1>2 DEF install_updater

-----------------------------------------------------------------------------
(* What NextScope makes of an uninstall whose bundle has been dealt with.  *)
LEMMA NextKeeps ==
    ASSUME InstallInv, Uninstalling, cmd.at # "idle", cmd' = NextScope,
           NEW done \in Scopes, done = cmd.scope, Handled(done)',
           InstallTypes', \A s \in Scopes : s # done /\ Handled(s) => Handled(s)',
           \A s \in loaded : HasBinary(s)', UNCHANGED <<loaded, undisturbed>>,
           \A s \in Scopes : undisturbed[s] # Absent => bundle'[s] = bundle[s]
    PROVE  InstallInv'
<1>0. /\ cmd \in CommandSet /\ cmd.scope \in cmd.todo /\ cmd.todo \subseteq Scopes /\ cmd.scope \in Scopes
      /\ cmd.op \in {"uninstall", "uninstall all"}
      /\ cmd.op = "uninstall" => cmd.todo = {cmd.scope}
      /\ cmd.op = "uninstall all" => \A s \in Scopes \ cmd.todo : Handled(s)
  BY DEF InstallInv, InstallTypes, UninstallStage, CommandSet, Uninstalling
<1>1. CASE cmd.todo = {cmd.scope}
  <2>1. cmd' = Ended("ok")
    BY <1>1 DEF NextScope
  <2>2. cmd'.at = "idle" /\ cmd'.op = cmd.op /\ cmd'.scope = cmd.scope
    BY <1>0, <2>1, EndedIs
  <2>3. cmd.op = "uninstall all" => \A s \in Scopes : Handled(s)'
    BY <1>0, <1>1 DEF Handled
  <2>4. DoneAsReported'
    BY <1>0, <2>2, <2>3 DEF DoneAsReported, Delivered, Handled
  <2>5. HostsHold'
    BY <2>2 DEF InstallInv, HostsHold
  <2>6. QED
    BY <1>0, <2>2, <2>4, <2>5 DEF InstallInv, InstallStage, UninstallStage
<1>2. CASE cmd.todo # {cmd.scope}
  <2> DEFINE next == CHOOSE s \in cmd.todo : s # cmd.scope
  <2>1. \E s \in cmd.todo : s # cmd.scope
    BY <1>0, <1>2
  <2>2. next \in cmd.todo /\ next # cmd.scope
    BY <2>1
  <2>3. cmd' = [cmd EXCEPT !.at = "check", !.todo = @ \ {cmd.scope}, !.scope = next]
    BY <1>2 DEF NextScope
  <2> HIDE DEF next
  <2>4. /\ cmd'.at = "check" /\ cmd'.op = cmd.op /\ cmd'.scope = next /\ cmd'.todo = cmd.todo \ {cmd.scope}
    BY <1>0, <2>3 DEF CommandSet
  <2>5. cmd.op = "uninstall all"
    BY <1>0, <1>2
  <2>6. \A s \in Scopes \ cmd'.todo : Handled(s)'
    BY <1>0, <2>4, <2>5 DEF Handled
  <2>7. HostsHold'
    BY <2>4 DEF InstallInv, HostsHold
  <2>8. QED
    BY <2>2, <2>4, <2>5, <2>6, <2>7 DEF InstallInv, InstallStage, UninstallStage, DoneAsReported
<1>3. QED
  BY <1>1, <1>2

LEMMA NextIs == ASSUME InstallInv, Uninstalling, cmd.at # "idle" PROVE NextScope \in CommandSet
<1>1. cmd \in CommandSet
  BY DEF InstallInv, InstallTypes
<1>2. CASE cmd.todo = {cmd.scope}
  BY <1>1, <1>2, EndedIs DEF NextScope
<1>3. CASE cmd.todo # {cmd.scope}
  <2>1. \E s \in cmd.todo : s # cmd.scope
    BY <1>3 DEF InstallInv, UninstallStage
  <2>2. (CHOOSE s \in cmd.todo : s # cmd.scope) \in cmd.todo
    BY <2>1
  <2>3. QED
    BY <1>1, <1>3, <2>2 DEF NextScope, CommandSet, InstallSteps
<1>4. QED
  BY <1>2, <1>3

LEMMA CheckScopeKeeps == ASSUME InstallInv, CheckScope PROVE InstallInv'
<1>0. /\ InstallTypes /\ HostsHold /\ cmd \in CommandSet /\ Uninstalling /\ cmd.at = "check"
      /\ UNCHANGED bundle /\ cmd.scope \in Scopes /\ "remove" \in InstallSteps
  BY DEF InstallInv, InstallTypes, CheckScope, CommandSet, InstallSteps
<1>1. CASE Exists(cmd.scope) /\ ~is_locked(cmd.scope)
  <2>1. cmd' = [cmd EXCEPT !.at = "remove"] /\ UNCHANGED <<bundle, loaded, undisturbed, blocked>>
    BY <1>1 DEF CheckScope, Step
  <2>2. /\ cmd' \in CommandSet /\ cmd'.at = "remove" /\ cmd'.op = cmd.op /\ cmd'.todo = cmd.todo
        /\ cmd'.scope = cmd.scope
    BY <1>0, <2>1, AtIs
  <2>3. undisturbed[cmd.scope] = Absent
    BY <1>1, NotInUse
  <2>4. InstallTypes' /\ HostsHold'
    BY <1>0, <2>1, <2>2, <2>3 DEF InstallTypes, HostsHold, HasBinary, BundleFiles, Exists
  <2>5. QED
    BY <1>0, <2>1, <2>2, <2>4
       DEF InstallInv, InstallStage, UninstallStage, DoneAsReported, Uninstalling, Handled, Exists
<1>2. CASE ~(Exists(cmd.scope) /\ ~is_locked(cmd.scope))
  <2>1. /\ cmd' = NextScope /\ UNCHANGED <<loaded, undisturbed>>
        /\ blocked' = IF Exists(cmd.scope) THEN blocked \union {cmd.scope} ELSE blocked
    BY <1>2 DEF CheckScope, Step
  <2>2. InstallTypes'
    BY <1>0, <2>1, NextIs DEF InstallTypes
  <2>3. PICK done \in Scopes : done = cmd.scope
    BY <1>0
  <2>4. Handled(done)' /\ \A s \in Scopes : s # done /\ Handled(s) => Handled(s)'
    BY <1>0, <2>1, <2>3 DEF Handled, Exists
  <2>5. \A s \in loaded : HasBinary(s)'
    BY <1>0 DEF HostsHold, HasBinary, BundleFiles, Exists
  <2>6. QED
    BY <1>0, <2>1, <2>2, <2>3, <2>4, <2>5, NextKeeps
<1>3. QED
  BY <1>1, <1>2

LEMMA RemoveScopeKeeps == ASSUME InstallInv, RemoveScope PROVE InstallInv'
<1>0. /\ InstallTypes /\ HostsHold /\ cmd \in CommandSet /\ Uninstalling /\ cmd.at = "remove"
      /\ cmd.scope \in Scopes /\ cmd.scope \in cmd.todo /\ undisturbed[cmd.scope] = Absent
  BY DEF InstallInv, InstallTypes, RemoveScope, CommandSet, HostsHold, UninstallStage
<1>1. PICK done \in Scopes : done = cmd.scope
  BY <1>0
<1>2. CASE RemoveBundleFile(cmd.scope) /\ Step(cmd) /\ UNCHANGED blocked
  <2>1. cmd' = cmd /\ UNCHANGED <<loaded, undisturbed, blocked>>
    BY <1>2 DEF Step
  <2>2. InstallTypes' /\ HostsHold'
    BY <1>0, <1>2, <2>1, RemovalIs, ChangeKeeps, BundleKinds
  <2>3. \A s \in Scopes \ cmd.todo : Handled(s) => Handled(s)'
    BY <1>0, <1>2, <2>1, RemovalIs DEF Handled, Exists, InstallTypes
  <2>4. QED
    BY <1>0, <2>1, <2>2, <2>3 DEF InstallInv, InstallStage, UninstallStage, DoneAsReported, Uninstalling
<1>3. CASE RemoveDir(cmd.scope) /\ Step(NextScope) /\ UNCHANGED blocked
  <2>1. /\ cmd' = NextScope /\ UNCHANGED <<loaded, undisturbed, blocked>>
        /\ bundle' = [bundle EXCEPT ![cmd.scope] = Absent] /\ cmd.scope \notin loaded
    BY <1>0, <1>3 DEF Step, RemoveDir, HostsHold, HasBinary
  <2>2. bundle'[done] = Absent /\ \A s \in Scopes : s # done => bundle'[s] = bundle[s]
    BY <1>0, <1>1, <2>1 DEF InstallTypes
  <2>3. InstallTypes'
    BY <1>0, <2>1, NextIs DEF InstallTypes
  <2>4. Handled(done)' /\ \A s \in Scopes : s # done /\ Handled(s) => Handled(s)'
    BY <2>1, <2>2, BundleKinds DEF Handled, Exists, Absent
  <2>5. \A s \in loaded : HasBinary(s)'
    BY <1>0, <1>1, <2>1, <2>2 DEF InstallTypes, HostsHold, HasBinary, BundleFiles, Exists
  <2>6. QED
    BY <1>0, <1>1, <2>1, <2>2, <2>3, <2>4, <2>5, NextKeeps
<1>4. CASE Step(NextScope) /\ blocked' = blocked \union {cmd.scope} /\ UNCHANGED bundle
  <2>1. cmd' = NextScope /\ UNCHANGED <<loaded, undisturbed>>
    BY <1>4 DEF Step
  <2>2. InstallTypes'
    BY <1>0, <1>4, <2>1, NextIs DEF InstallTypes
  <2>3. Handled(done)' /\ \A s \in Scopes : s # done /\ Handled(s) => Handled(s)'
    BY <1>1, <1>4 DEF Handled, Exists
  <2>4. \A s \in loaded : HasBinary(s)'
    BY <1>0, <1>4 DEF HostsHold, HasBinary, BundleFiles, Exists
  <2>5. QED
    BY <1>0, <1>1, <1>4, <2>1, <2>2, <2>3, <2>4, NextKeeps
<1>5. CASE Step(Ended("error")) /\ UNCHANGED bundle
  BY <1>5, InstallEndKeeps
<1>6. QED
  BY <1>2, <1>3, <1>4, <1>5, Zenon DEF RemoveScope

LEMMA HostsKeep == ASSUME InstallInv, NEW s \in Scopes, HostOpens(s) \/ HostCloses(s) PROVE InstallInv'
<1>1. InstallTypes'
  BY DEF InstallInv, InstallTypes, HostOpens, HostCloses
<1>2. HostsHold'
  <2>1. InstallTypes /\ HostsHold /\ UNCHANGED <<bundle, cmd>>
    BY DEF InstallInv, HostOpens, HostCloses
  <2>2. CASE HostOpens(s)
    BY <2>1, <2>2 DEF HostsHold, HostOpens, HasBinary, BundleFiles, Exists
  <2>3. CASE HostCloses(s)
    <3>1. loaded' = loaded \ {s} /\ undisturbed' = [undisturbed EXCEPT ![s] = Absent]
      BY <2>3 DEF HostCloses
    <3>2. /\ \A t \in Scopes : undisturbed'[t] = (IF t = s THEN Absent ELSE undisturbed[t])
          /\ cmd.scope \in Scopes
      BY <2>1, <3>1 DEF InstallTypes, CommandSet
    <3>3. \A t \in loaded' : HasBinary(t)'
      BY <2>1, <3>1 DEF HostsHold, HasBinary, BundleFiles, Exists
    <3>4. QED
      BY <2>1, <3>1, <3>2, <3>3 DEF HostsHold
  <2>4. QED
    BY <2>2, <2>3
<1>3. UNCHANGED <<bundle, cmd, blocked>>
  BY DEF HostOpens, HostCloses
<1>4. QED
  BY <1>1, <1>2, <1>3
     DEF InstallInv, InstallStage, UninstallStage, DoneAsReported, Delivered, Handled, BundleFiles, Exists

LEMMA InstallStep == InstallInv /\ [InstallNext]_install_vars => InstallInv'
<1> SUFFICES ASSUME InstallInv, [InstallNext]_install_vars PROVE InstallInv'
  OBVIOUS
<1>1. CASE UNCHANGED install_vars
  BY <1>1
     DEF install_vars, InstallInv, InstallTypes, HostsHold, InstallStage, UninstallStage, DoneAsReported, Delivered,
         Handled, HasBinary, BundleFiles, Exists
<1>2. CASE Interrupted
  BY <1>2, InstallEndKeeps DEF Interrupted
<1>3. CASE install
  BY <1>3, CheckKeeps, RemoveOldKeeps, CopyKeeps, MarkerKeeps, UpdaterKeeps DEF install
<1>4. CASE uninstall
  BY <1>4, CheckScopeKeeps, RemoveScopeKeeps DEF uninstall
<1>5. QED
  BY <1>1, <1>2, <1>3, <1>4, BeginKeeps, HostsKeep DEF InstallNext

\* The installs and uninstalls, wherever they fail, are interrupted or meet a
\* host: one that reports success has done what it reports, and a bundle that a
\* host has had open since the command began is as it was.
THEOREM InstallsAreWhole == InstallSpec => [](DoneAsReported /\ OpenBundlesAreLeft)
<1>1. InstallInv => DoneAsReported /\ OpenBundlesAreLeft
  BY BundleKinds DEF InstallInv, InstallTypes, HostsHold, OpenBundlesAreLeft
<1>2. QED
  BY <1>1, InstallInit_Inv, InstallStep, PTL DEF InstallSpec

-----------------------------------------------------------------------------
(* A release                                                               *)

Made == {Missing} \union [is : {"build"}, version : Releases, edit : Releases]
Setups == {Missing} \union [is : {"setup"}, bundle : Made, updater : Made]
Feeds == {Missing} \union [is : {"feed"}, version : Releases, sha256 : Setups]
Sigs == {Missing} \union [is : {"sig"}, of : Feeds]
ReleaseOuts == [setup : [Releases -> Setups], json : Feeds, sig : Sigs]
Puts == {"put setup", "put sig", "put json"}

ReleaseStages == {"idle", "bundle", "updater", "check", "iscc", "json", "sig"} \union Puts
Commands == [at : ReleaseStages, no_build : BOOLEAN, upload : BOOLEAN, result : {"none", "ok", "error", "elsewhere"}]

ReleaseTypes ==
    /\ source \in [version : Releases, edit : Releases] /\ source.version <= source.edit
    /\ built \in [bundle : Made, updater : Made]
    /\ rel_out \in ReleaseOuts /\ server \in ReleaseOuts /\ redone \in BOOLEAN
    /\ rel_cmd \in Commands

Version == source.version
Packed == rel_out.setup[Version]

(* What the steps up to this one have left, and that the feed on the       *)
(* server names the setup it was signed for unless that was put again.     *)
ReleaseInv ==
    /\ ReleaseTypes
    /\ ~rel_cmd.no_build =>
        /\ rel_cmd.at = "updater" => built.bundle = Source(source)
        /\ rel_cmd.at \in {"check", "iscc"} => built.bundle = Source(source) /\ built.updater = Source(source)
        /\ rel_cmd.at \in {"json", "sig"} \union Puts => Packed = Setup(Source(source), Source(source))
    /\ rel_cmd.at \in {"sig"} \union Puts => rel_out.json = Feed(Version, Packed)
    /\ rel_cmd.at \in Puts => rel_out.sig = Sign(rel_out.json)
    /\ rel_cmd.at \in {"put sig", "put json"} => server.setup[Version] = Packed
    /\ rel_cmd.at = "put json" => server.sig = rel_out.sig
    /\ UploadedWhole
    /\ server.json # Missing => Intact(server) \/ redone

LEMMA Kinds ==
    /\ \A t \in [version : Releases, edit : Releases] : Source(t) \in Made
    /\ \A b, u \in Made : Setup(b, u) \in Setups
    /\ \A v \in Releases, s \in Setups : Feed(v, s) \in Feeds /\ Feed(v, s) # Missing
    /\ \A f \in Feeds : Sign(f) \in Sigs
BY DEF Source, Made, Setup, Setups, Feed, Feeds, Sign, Sigs, Missing

LEMMA ReleaseInit_Inv == ReleaseInit => ReleaseInv
<1> SUFFICES ASSUME ReleaseInit PROVE ReleaseInv
  OBVIOUS
<1>1. 1 \in Releases
  BY ReleaseAssumption DEF Releases
<1>2. NothingOut \in ReleaseOuts
  BY DEF NothingOut, ReleaseOuts, Setups, Feeds, Sigs
<1>3. ReleaseTypes
  <2>1. rel_cmd \in Commands
    BY DEF ReleaseInit, NoRelease, Commands, ReleaseStages
  <2>2. built \in [bundle : Made, updater : Made]
    BY DEF ReleaseInit, Made
  <2>3. source \in [version : Releases, edit : Releases] /\ source.version <= source.edit
    BY <1>1 DEF ReleaseInit
  <2>4. redone \in BOOLEAN
    BY DEF ReleaseInit
  <2>5. QED
    BY <1>2, <2>1, <2>2, <2>3, <2>4 DEF ReleaseInit, ReleaseTypes
<1>4. QED
  BY <1>3 DEF ReleaseInit, ReleaseInv, NoRelease, Puts, UploadedWhole, NothingOut

(* A command that ends without success leaves the server as it was.        *)
LEMMA ReleaseEndKeeps ==
    ASSUME ReleaseInv, NEW result \in {"error", "elsewhere"}, ReleaseEnds(result),
           UNCHANGED <<source, built, rel_out, server, redone>>
    PROVE  ReleaseInv'
<1>1. ReleaseTypes /\ rel_cmd \in Commands
  BY DEF ReleaseInv, ReleaseTypes
<1>2. rel_cmd' \in Commands /\ rel_cmd'.at = "idle" /\ rel_cmd'.result = result
  BY <1>1 DEF ReleaseEnds, Commands, ReleaseStages
<1>3. QED
  BY <1>1, <1>2 DEF ReleaseInv, ReleaseTypes, UploadedWhole, Puts, Intact

LEMMA EditKeeps == ASSUME ReleaseInv, EditSource PROVE ReleaseInv'
<1>1. PICK v \in {source.version, source.version + 1} : source' = [version |-> v, edit |-> source.edit + 1]
  BY DEF EditSource
<1>2. /\ source.version \in Releases /\ source.edit \in Releases /\ source.version <= source.edit
      /\ source.edit <= MaxEdits /\ MaxEdits \in Nat
  BY ReleaseAssumption DEF ReleaseInv, ReleaseTypes, EditSource
<1>3. v \in Releases /\ source.edit + 1 \in Releases /\ v <= source.edit + 1
  BY <1>2 DEF Releases
<1>4. rel_cmd.at = "idle" /\ UNCHANGED <<built, rel_out, server, rel_cmd, redone>>
  BY DEF EditSource
<1>5. QED
  BY <1>1, <1>3, <1>4 DEF ReleaseInv, ReleaseTypes, UploadedWhole, Puts, Intact

LEMMA ReleaseGoesOn ==
    ASSUME rel_cmd \in Commands, NEW stage \in ReleaseStages, Goes(stage)
    PROVE  /\ rel_cmd' \in Commands /\ rel_cmd'.at = stage
           /\ rel_cmd'.no_build = rel_cmd.no_build /\ rel_cmd'.upload = rel_cmd.upload
BY DEF Commands, Goes

LEMMA ReleaseStops ==
    ASSUME rel_cmd \in Commands, NEW result \in {"ok", "error"}, ReleaseEnds(result)
    PROVE  /\ rel_cmd' \in Commands /\ rel_cmd'.at = "idle" /\ rel_cmd'.result = result
           /\ rel_cmd'.no_build = rel_cmd.no_build /\ rel_cmd'.upload = rel_cmd.upload
BY DEF Commands, ReleaseEnds, ReleaseStages

LEMMA BuildingKeeps == ASSUME ReleaseInv, package \/ BuildBundle \/ BuildUpdater \/ FindBuilt PROVE ReleaseInv'
<1>0. /\ ReleaseTypes /\ rel_cmd \in Commands /\ Source(source) \in Made
      /\ {"updater", "check", "iscc"} \subseteq ReleaseStages
  BY Kinds DEF ReleaseInv, ReleaseTypes, ReleaseStages
<1>1. CASE package
  <2>1. PICK skip \in BOOLEAN, up \in BOOLEAN :
            rel_cmd' = [at |-> IF skip THEN "check" ELSE "bundle", no_build |-> skip, upload |-> up, result |-> "none"]
    BY <1>1 DEF package
  <2>2. rel_cmd' \in Commands
    BY <2>1 DEF Commands, ReleaseStages
  <2>3. rel_cmd'.at \in {"check", "bundle"} /\ (~rel_cmd'.no_build => rel_cmd'.at = "bundle")
    BY <2>1
  <2>4. UNCHANGED <<source, built, rel_out, server, redone>>
    BY <1>1 DEF package
  <2>5. QED
    BY <1>0, <2>2, <2>3, <2>4 DEF ReleaseInv, ReleaseTypes, UploadedWhole, Puts, Intact
<1>2. CASE Fails
  BY <1>2, ReleaseEndKeeps DEF Fails
<1>3. CASE BuildBundle /\ ~Fails
  <2>1. built' = [built EXCEPT !.bundle = Source(source)] /\ Goes("updater")
        /\ UNCHANGED <<source, rel_out, server, redone>>
    BY <1>3 DEF BuildBundle
  <2>2. built' \in [bundle : Made, updater : Made] /\ built'.bundle = Source(source)
    BY <1>0, <2>1 DEF ReleaseTypes
  <2>3. QED
    BY <1>0, <2>1, <2>2, ReleaseGoesOn DEF ReleaseInv, ReleaseTypes, UploadedWhole, Puts, Intact
<1>4. CASE BuildUpdater /\ ~Fails
  <2>1. built' = [built EXCEPT !.updater = Source(source)] /\ Goes("check")
        /\ UNCHANGED <<source, rel_out, server, redone>> /\ rel_cmd.at = "updater"
    BY <1>4 DEF BuildUpdater
  <2>2. /\ built' \in [bundle : Made, updater : Made] /\ built'.updater = Source(source)
        /\ built'.bundle = built.bundle
    BY <1>0, <2>1 DEF ReleaseTypes
  <2>3. QED
    BY <1>0, <2>1, <2>2, ReleaseGoesOn DEF ReleaseInv, ReleaseTypes, UploadedWhole, Puts, Intact
<1>5. CASE FindBuilt /\ ~Fails
  <2>1. Goes("iscc") /\ UNCHANGED <<source, built, rel_out, server, redone>> /\ rel_cmd.at = "check"
    BY <1>5 DEF FindBuilt
  <2>2. QED
    BY <1>0, <2>1, ReleaseGoesOn DEF ReleaseInv, ReleaseTypes, UploadedWhole, Puts, Intact
<1>6. QED
  BY <1>1, <1>2, <1>3, <1>4, <1>5

LEMMA PackKeeps == ASSUME ReleaseInv, Pack PROVE ReleaseInv'
<1>0. /\ ReleaseTypes /\ rel_cmd \in Commands /\ rel_cmd.at = "iscc" /\ "json" \in ReleaseStages
  BY DEF ReleaseInv, ReleaseTypes, ReleaseStages, Pack
<1>1. CASE Fails
  BY <1>1, ReleaseEndKeeps DEF Fails
<1>2. CASE /\ rel_out.setup[source.version] = Missing /\ ReleaseEnds("elsewhere")
           /\ UNCHANGED <<source, built, rel_out, server, redone, rel_runs>>
  BY <1>2, ReleaseEndKeeps
<1>3. CASE rel_out' = [rel_out EXCEPT !.setup[source.version] = Setup(built.bundle, built.updater)]
           /\ Goes("json") /\ UNCHANGED <<source, built, server, redone, rel_runs>>
  <2>1. Setup(built.bundle, built.updater) \in Setups /\ source.version \in Releases /\ rel_out \in ReleaseOuts
    BY <1>0, Kinds DEF ReleaseTypes
  <2>2. rel_out' \in ReleaseOuts /\ rel_out'.setup[Version] = Setup(built.bundle, built.updater)
    BY <1>3, <2>1 DEF ReleaseOuts, Version
  <2>3. ~rel_cmd.no_build => Packed' = Setup(Source(source), Source(source))
    BY <1>0, <1>3, <2>2 DEF ReleaseInv, Packed, Version
  <2>4. QED
    BY <1>0, <1>3, <2>2, <2>3, ReleaseGoesOn DEF ReleaseInv, ReleaseTypes, UploadedWhole, Puts, Intact
<1>4. QED
  BY <1>1, <1>2, <1>3 DEF Pack

LEMMA JsonKeeps == ASSUME ReleaseInv, WriteJson PROVE ReleaseInv'
<1>0. /\ ReleaseTypes /\ rel_cmd \in Commands /\ rel_cmd.at = "json" /\ "sig" \in ReleaseStages
  BY DEF ReleaseInv, ReleaseTypes, ReleaseStages, WriteJson
<1>1. CASE Fails
  BY <1>1, ReleaseEndKeeps DEF Fails
<1>2. CASE rel_out' = [rel_out EXCEPT !.json = Feed(source.version, rel_out.setup[source.version])]
           /\ Goes("sig") /\ UNCHANGED <<source, built, server, redone, rel_runs>>
  <2>1. source.version \in Releases /\ rel_out \in ReleaseOuts /\ Feed(Version, Packed) \in Feeds
    BY <1>0, Kinds DEF ReleaseTypes, ReleaseOuts, Version, Packed
  <2>2. rel_out' \in ReleaseOuts /\ rel_out'.setup = rel_out.setup /\ rel_out'.json = Feed(Version, Packed)
    BY <1>2, <2>1 DEF ReleaseOuts, Version, Packed
  <2>3. Packed' = Packed /\ Version' = Version
    BY <1>2, <2>2 DEF Packed, Version
  <2>4. QED
    BY <1>0, <1>2, <2>2, <2>3, ReleaseGoesOn DEF ReleaseInv, ReleaseTypes, UploadedWhole, Puts, Intact
<1>3. QED
  BY <1>1, <1>2 DEF WriteJson

LEMMA SigKeeps == ASSUME ReleaseInv, WriteSig PROVE ReleaseInv'
<1>0. /\ ReleaseTypes /\ rel_cmd \in Commands /\ rel_cmd.at = "sig" /\ "put setup" \in ReleaseStages
  BY DEF ReleaseInv, ReleaseTypes, ReleaseStages, WriteSig, Puts
<1>1. CASE Fails
  BY <1>1, ReleaseEndKeeps DEF Fails
<1>2. CASE /\ rel_out' = [rel_out EXCEPT !.sig = Sign(rel_out.json)]
           /\ IF rel_cmd.upload THEN Goes("put setup") ELSE ReleaseEnds("ok")
           /\ UNCHANGED <<source, built, server, redone, rel_runs>>
  <2>1. rel_out \in ReleaseOuts /\ Sign(rel_out.json) \in Sigs
    BY <1>0, Kinds DEF ReleaseTypes, ReleaseOuts
  <2>2. rel_out' \in ReleaseOuts /\ rel_out'.setup = rel_out.setup /\ rel_out'.json = rel_out.json
        /\ rel_out'.sig = Sign(rel_out.json)
    BY <1>2, <2>1 DEF ReleaseOuts
  <2>3. Packed' = Packed /\ Version' = Version
    BY <1>2, <2>2 DEF Packed, Version
  <2>4. CASE rel_cmd.upload
    BY <1>0, <1>2, <2>2, <2>3, <2>4, ReleaseGoesOn DEF ReleaseInv, ReleaseTypes, UploadedWhole, Puts, Intact
  <2>5. CASE ~rel_cmd.upload
    <3>1. /\ rel_cmd' \in Commands /\ rel_cmd'.at = "idle"
          /\ rel_cmd'.no_build = rel_cmd.no_build /\ ~rel_cmd'.upload
      BY <1>0, <1>2, <2>5 DEF Commands, ReleaseEnds, ReleaseStages
    <3>2. QED
      BY <1>0, <1>2, <2>2, <2>3, <3>1 DEF ReleaseInv, ReleaseTypes, UploadedWhole, Puts, Intact
  <2>6. QED
    BY <2>4, <2>5
<1>3. QED
  BY <1>1, <1>2 DEF WriteSig

(* The upload, whose last file makes the others the ones to be had.        *)
LEMMA PutSetupKeeps ==
    ASSUME ReleaseInv, put("put setup", [server EXCEPT !.setup[source.version] = rel_out.setup[source.version]], Goes("put sig"))
    PROVE  ReleaseInv'
<1>0. /\ ReleaseTypes /\ rel_cmd \in Commands /\ rel_cmd.at = "put setup" /\ "put sig" \in ReleaseStages
  BY DEF ReleaseInv, ReleaseTypes, ReleaseStages, put, Puts
<1>1. CASE Fails
  BY <1>1, ReleaseEndKeeps DEF Fails
<1>2. CASE ~Fails
  <2>1. /\ server' = [server EXCEPT !.setup[source.version] = rel_out.setup[source.version]] /\ (Goes("put sig") \/ ReleaseEnds("error"))
        /\ redone' = (redone \/ Names(server.json, source.version))
        /\ UNCHANGED <<source, built, rel_out>>
    BY <1>2, Zenon DEF put
  <2>2. source.version \in Releases /\ server \in ReleaseOuts /\ rel_out \in ReleaseOuts /\ Packed \in Setups /\ redone \in BOOLEAN
    BY <1>0 DEF ReleaseTypes, ReleaseOuts, Packed, Version
  <2>3. /\ server' \in ReleaseOuts /\ server'.json = server.json /\ server'.sig = server.sig
        /\ server'.setup[Version] = Packed
        /\ \A v \in Releases : v # Version => server'.setup[v] = server.setup[v]
    BY <2>1, <2>2 DEF ReleaseOuts, Packed, Version
  <2>4. server'.json # Missing => Intact(server)' \/ redone'
    <3>1. SUFFICES ASSUME server.json # Missing, ~redone' PROVE Intact(server)'
      BY <2>3
    <3>2. ~redone /\ server.json.version # Version
      BY <2>1, <3>1 DEF Names, Version
    <3>3. server.json.version \in Releases
      BY <2>2, <3>1 DEF ReleaseOuts, Feeds
    <3>4. server.setup[server.json.version] = server.json.sha256
      BY <3>1, <3>2 DEF ReleaseInv, Intact
    <3>5. QED
      BY <2>3, <3>2, <3>3, <3>4 DEF Intact
  <2>5. redone' \in BOOLEAN
    BY <2>1, <2>2
  <2>6. Packed' = Packed /\ Version' = Version
    BY <2>1 DEF Packed, Version
  <2>7. CASE Goes("put sig")
    BY <1>0, <2>1, <2>3, <2>4, <2>5, <2>6, <2>7, ReleaseGoesOn DEF ReleaseInv, ReleaseTypes, UploadedWhole, Puts
  <2>8. CASE ReleaseEnds("error")
    <3>1. rel_cmd' \in Commands /\ rel_cmd'.at = "idle" /\ rel_cmd'.result = "error"
      BY <1>0, <2>8, ReleaseStops
    <3>2. QED
      BY <1>0, <2>1, <2>3, <2>4, <2>5, <3>1 DEF ReleaseInv, ReleaseTypes, UploadedWhole, Puts
  <2>9. QED
    BY <2>1, <2>7, <2>8
<1>3. QED
  BY <1>1, <1>2

LEMMA PutSigKeeps ==
    ASSUME ReleaseInv, put("put sig", [server EXCEPT !.sig = rel_out.sig], Goes("put json"))
    PROVE  ReleaseInv'
<1>0. /\ ReleaseTypes /\ rel_cmd \in Commands /\ rel_cmd.at = "put sig" /\ "put json" \in ReleaseStages
  BY DEF ReleaseInv, ReleaseTypes, ReleaseStages, put, Puts
<1>1. CASE Fails
  BY <1>1, ReleaseEndKeeps DEF Fails
<1>2. CASE ~Fails
  <2>1. /\ server' = [server EXCEPT !.sig = rel_out.sig] /\ (Goes("put json") \/ ReleaseEnds("error")) /\ redone' = redone
        /\ UNCHANGED <<source, built, rel_out>>
    BY <1>2, Zenon DEF put
  <2>2. server \in ReleaseOuts /\ rel_out \in ReleaseOuts
    BY <1>0 DEF ReleaseTypes
  <2>3. /\ server' \in ReleaseOuts /\ server'.json = server.json /\ server'.setup = server.setup /\ server'.sig = rel_out.sig
    BY <2>1, <2>2 DEF ReleaseOuts
  <2>4. Packed' = Packed /\ Version' = Version
    BY <2>1 DEF Packed, Version
  <2>5. CASE Goes("put json")
    BY <1>0, <2>1, <2>3, <2>4, <2>5, ReleaseGoesOn DEF ReleaseInv, ReleaseTypes, UploadedWhole, Puts, Intact
  <2>6. CASE ReleaseEnds("error")
    <3>1. rel_cmd' \in Commands /\ rel_cmd'.at = "idle" /\ rel_cmd'.result = "error"
      BY <1>0, <2>6, ReleaseStops
    <3>2. QED
      BY <1>0, <2>1, <2>3, <3>1 DEF ReleaseInv, ReleaseTypes, UploadedWhole, Puts, Intact
  <2>7. QED
    BY <2>1, <2>5, <2>6
<1>3. QED
  BY <1>1, <1>2

LEMMA PutJsonKeeps ==
    ASSUME ReleaseInv, put("put json", [server EXCEPT !.json = rel_out.json], ReleaseEnds("ok"))
    PROVE  ReleaseInv'
<1>0. /\ ReleaseTypes /\ rel_cmd \in Commands /\ rel_cmd.at = "put json"
  BY DEF ReleaseInv, ReleaseTypes, put
<1>1. CASE Fails
  BY <1>1, ReleaseEndKeeps DEF Fails
<1>2. CASE ~Fails
  <2>1. /\ server' = [server EXCEPT !.json = rel_out.json] /\ (ReleaseEnds("ok") \/ ReleaseEnds("error")) /\ redone' = FALSE
        /\ UNCHANGED <<source, built, rel_out>>
    BY <1>2, Zenon DEF put
  <2>2. server \in ReleaseOuts /\ rel_out \in ReleaseOuts
    BY <1>0 DEF ReleaseTypes
  <2>3. /\ server' \in ReleaseOuts /\ server'.json = rel_out.json /\ server'.setup = server.setup /\ server'.sig = server.sig
    BY <2>1, <2>2 DEF ReleaseOuts
  <2>4. /\ rel_cmd' \in Commands /\ rel_cmd'.at = "idle" /\ rel_cmd'.no_build = rel_cmd.no_build
    BY <1>0, <2>1, ReleaseStops
  <2>5. /\ rel_out.json = Feed(Version, Packed) /\ rel_out.sig = Sign(rel_out.json)
        /\ server.setup[Version] = Packed /\ server.sig = rel_out.sig
        /\ ~rel_cmd.no_build => Packed = Setup(Source(source), Source(source))
    BY <1>0 DEF ReleaseInv, Puts
  <2>6. /\ server'.json.version = Version /\ server'.json.sha256 = Packed /\ server'.json # Missing
    <3>1. /\ Feed(Version, Packed).version = Version /\ Feed(Version, Packed).sha256 = Packed
      BY DEF Feed
    <3>2. Version \in Releases /\ Packed \in Setups
      BY <1>0, <2>2 DEF ReleaseTypes, ReleaseOuts, Packed, Version
    <3>3. QED
      BY <2>3, <2>5, <3>1, <3>2, Kinds
  <2>7. Intact(server)' /\ Installable(server)'
    BY <2>3, <2>5, <2>6 DEF Intact, Installable
  <2>8. ~rel_cmd.no_build => Packed.bundle = Packed.updater /\ Packed.bundle.version = Version
    <3>1. /\ Setup(Source(source), Source(source)).bundle = Source(source)
          /\ Setup(Source(source), Source(source)).updater = Source(source)
          /\ Source(source).version = Version
      BY DEF Setup, Source, Version
    <3>2. QED
      BY <2>5, <3>1
  <2>9. UploadedWhole'
    BY <2>4, <2>6, <2>7, <2>8 DEF UploadedWhole
  <2>10. QED
    BY <1>0, <2>1, <2>3, <2>4, <2>7, <2>9 DEF ReleaseInv, ReleaseTypes, Puts
<1>3. QED
  BY <1>1, <1>2

LEMMA ReleaseStep == ReleaseInv /\ [ReleaseNext]_release_vars => ReleaseInv'
<1> SUFFICES ASSUME ReleaseInv, [ReleaseNext]_release_vars PROVE ReleaseInv'
  OBVIOUS
<1>1. CASE UNCHANGED release_vars
  BY <1>1 DEF release_vars, ReleaseInv, ReleaseTypes, UploadedWhole, Intact, Packed, Version, Installable
<1>2. CASE ReleaseNext
  BY <1>2, EditKeeps, BuildingKeeps, PackKeeps, JsonKeeps, SigKeeps, PutSetupKeeps, PutSigKeeps, PutJsonKeeps
     DEF ReleaseNext, upload
<1>3. QED
  BY <1>1, <1>2

\* The releases, whichever steps fail and however often one is begun again: an
\* upload that reports success has left a feed, its signature and the setup it
\* names; and a feed that holds names the setup beside it unless that was put
\* again.
THEOREM ReleasesAreWhole == ReleaseSpec => [](UploadedWhole /\ FeedNamesItsSetup)
<1>1. ReleaseInv => UploadedWhole /\ FeedNamesItsSetup
  BY DEF ReleaseInv, FeedNamesItsSetup, Installable
<1>2. QED
  BY <1>1, ReleaseInit_Inv, ReleaseStep, PTL DEF ReleaseSpec

-----------------------------------------------------------------------------
(* The desktop side                                                        *)

(* A step of the desktop side is one of the part that runs; to every other *)
(* part it is a stutter.                                                   *)
LEMMA DesktopSteps ==
    ASSUME [DesktopNext]_desktop_vars
    PROVE  /\ part' = part
           /\ [Next]_vars /\ [ViewNext]_view_vars /\ [UiNext]_ui_vars /\ [AboutNext]_about_vars
           /\ [PromptNext]_prompt_vars /\ [LayoutNext]_layout_vars /\ [ComboNext]_combo_vars
           /\ [LangNext]_lang_vars /\ [JobNext]_job_vars /\ [InstallNext]_install_vars
           /\ [ReleaseNext]_release_vars
<1>1. UNCHANGED outbox_vars => UNCHANGED vars
  BY DEF outbox_vars, vars, world_vars, dirs
<1>2. CASE UNCHANGED desktop_vars
  BY <1>1, <1>2 DEF desktop_vars
<1>3. CASE DesktopNext
  BY <1>1, <1>3 DEF DesktopNext
<1>4. QED
  BY <1>2, <1>3

\* The desktop side is each of its parts: whatever part runs, the side behaves
\* as that part's own specification says.
THEOREM PartsRun ==
    DesktopSpec => /\ Spec /\ ViewSpec /\ UiSpec /\ AboutSpec
                   /\ PromptSpec /\ LayoutSpec /\ ComboSpec /\ LangSpec
                   /\ JobSpec /\ InstallSpec /\ ReleaseSpec
<1>1. DesktopInit => /\ Init /\ ViewInit /\ UiInit /\ AboutInit
                     /\ PromptInit /\ LayoutInit /\ ComboInit /\ LangInit
                     /\ JobInit /\ InstallInit /\ ReleaseInit
  BY DEF DesktopInit
<1>2. [DesktopNext]_desktop_vars =>
           /\ [Next]_vars /\ [ViewNext]_view_vars /\ [UiNext]_ui_vars /\ [AboutNext]_about_vars
           /\ [PromptNext]_prompt_vars /\ [LayoutNext]_layout_vars /\ [ComboNext]_combo_vars
           /\ [LangNext]_lang_vars /\ [JobNext]_job_vars /\ [InstallNext]_install_vars
           /\ [ReleaseNext]_release_vars
  BY DesktopSteps
<1>3. QED
  BY <1>1, <1>2, PTL
     DEF DesktopSpec, Spec, ViewSpec, UiSpec, AboutSpec, PromptSpec, LayoutSpec, ComboSpec,
         LangSpec, JobSpec, InstallSpec, ReleaseSpec

\* What the editor shows and asks for: its prompt, its fields and menus, its
\* language and what its About tab says.
THEOREM EditorIsSound == DesktopSpec => []EditorSound
<1>1. ASSUME PromptTypeOK /\ NothingLeaks /\ ReportsOnce /\ ShownUnlessCrossed,
             LayoutFits /\ OpensOnScreen,
             ComboTypeOK /\ FollowsThePointer /\ AsksWithinBounds,
             ShownAsChosen, ReportsTruly
      PROVE  EditorSound
  BY <1>1, StepsDo, MenusDo, PreferencesDo DEF EditorSound
<1>2. QED
  BY <1>1, PartsRun, PromptsAreSound, PromptFits, NumberFieldIsSound, LanguageIsTheChosen,
     NotesAreTrue, PTL

\* What runs outside the host: the setup's tree of processes, installs and
\* uninstalls, and releases.
THEOREM InstallIsSound == DesktopSpec => []InstallSound
<1>1. ASSUME TreeEnds /\ OutcomeTold, DoneAsReported /\ OpenBundlesAreLeft,
             UploadedWhole /\ FeedNamesItsSetup
      PROVE  InstallSound
  BY <1>1 DEF InstallSound
<1>2. QED
  BY <1>1, PartsRun, SetupsTreeEnds, InstallsAreWhole, ReleasesAreWhole, PTL
=============================================================================
