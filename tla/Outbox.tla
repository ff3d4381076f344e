------------------------------- MODULE Outbox -------------------------------
(***************************************************************************)
(* Feedback on its way to the server (deviceout-update/src/outbox.rs,      *)
(* deviceout-updater/src/outbox_send.rs, the feedback window of the        *)
(* editor).  A message is a file in one of three directories: the outbox,  *)
(* sent or failed.  Editors in several processes put it into the first; a  *)
(* sender, one at a time by the mutex Local\DeviceOut.Outbox and often     *)
(* killed, posts it and moves it on.                                       *)
(*                                                                         *)
(* A fault is a kill, a file that cannot be written or one that cannot be  *)
(* removed.  A failed write leaves the file as it was (atomic_write).      *)
(***************************************************************************)
EXTENDS Integers, FiniteSets

CONSTANTS
    Editors,               \* open editors, of any process
    Msgs,                  \* messages that may be written, each with its id
    NoMsg,
    MAX_ATTEMPTS, OUTBOX_CAP, SENT_CAP, FAILED_CAP,
    MaxFaults,             \* bound: faults
    MaxLost                \* bound: replies lost after the server has stored the message

ASSUME OutboxAssumption ==
    /\ Editors # {} /\ IsFiniteSet(Editors)
    /\ IsFiniteSet(Msgs) /\ NoMsg \notin Msgs
    /\ {MAX_ATTEMPTS, OUTBOX_CAP, SENT_CAP, FAILED_CAP} \subseteq Nat \ {0}
    /\ MaxFaults \in Nat /\ MaxLost \in Nat

NoFile == -1

VARIABLES
    editor,         \* each editor: its step and its message
    accepted,       \* messages an editor has saved and said so
    outbox,         \* each message: the attempts written in its file, or NoFile
    cooling,        \* messages whose file has a last_attempt_ms within the back-off
    sent, failed,   \* messages with a file in these directories
    sender,         \* the process that sends
    shown,          \* what an editor said became of a message
    tickets,        \* tickets the server has made of a message
    posts,          \* times a message was posted
    refused,        \* messages the server refused for good
    faults, lost

dirs == <<outbox, cooling, sent, failed>>
world_vars == <<tickets, posts, refused>>
vars == <<editor, accepted, dirs, sender, shown, world_vars, faults, lost>>

Off == [pc |-> "off", todo |-> {}, msg |-> NoMsg, attempts |-> 0, dest |-> "outbox"]

Init ==
    /\ editor = [e \in Editors |-> [pc |-> "idle", msg |-> NoMsg]]
    /\ accepted = {} /\ outbox = [m \in Msgs |-> NoFile] /\ cooling = {}
    /\ sent = {} /\ failed = {}
    /\ sender = Off
    /\ shown = [m \in Msgs |-> "nothing"]
    /\ tickets = [m \in Msgs |-> 0] /\ posts = [m \in Msgs |-> 0] /\ refused = {}
    /\ faults = 0 /\ lost = 0

\* list_json(outbox_dir())
Queued == {m \in Msgs : outbox[m] # NoFile}

-----------------------------------------------------------------------------
(* The editor *)

\* A message has its id from the clock and at random: nobody had it before.
Fresh(m) == m \notin accepted /\ \A e \in Editors : editor[e].msg # m

Busy(e) == editor[e].pc = "save"

\* poll_prompt, queue_feedback: the files are counted, and a full outbox
\* refuses the message.  What the editor was watching for is forgotten.
queue_feedback(e, m) ==
    /\ ~Busy(e) /\ Fresh(m)
    /\ editor' = [editor EXCEPT ![e] = IF Cardinality(Queued) >= OUTBOX_CAP
                                       THEN [pc |-> "idle", msg |-> NoMsg] ELSE [pc |-> "save", msg |-> m]]
    /\ UNCHANGED <<accepted, dirs, sender, shown, world_vars, faults, lost>>

save_item(e) ==
    LET m == editor[e].msg IN
    /\ Busy(e)
    /\ \/ /\ editor' = [editor EXCEPT ![e].pc = "watch"]
          /\ outbox' = [outbox EXCEPT ![m] = 0] /\ accepted' = accepted \cup {m}
          /\ UNCHANGED faults
       \/ /\ faults < MaxFaults /\ faults' = faults + 1
          /\ editor' = [editor EXCEPT ![e] = [pc |-> "idle", msg |-> NoMsg]]
          /\ UNCHANGED <<outbox, accepted>>
    /\ UNCHANGED <<cooling, sent, failed, sender, shown, world_vars, lost>>

\* poll_send, or its 25 seconds are over.
poll_send(e) ==
    LET m == editor[e].msg IN
    /\ editor[e].pc = "watch"
    /\ editor' = [editor EXCEPT ![e] = [pc |-> "idle", msg |-> NoMsg]]
    /\ shown' = [shown EXCEPT ![m] = IF m \in sent THEN "sent" ELSE IF m \in failed THEN "failed" ELSE "later"]
    /\ UNCHANGED <<accepted, dirs, sender, world_vars, faults, lost>>

-----------------------------------------------------------------------------
(* The sender, send_all *)

\* cleanup_capped_dir: the oldest files go; the one just written is not among them.
Capped(dir, cap, newest) ==
    {kept \in SUBSET dir : newest \cap dir \subseteq kept
                           /\ Cardinality(kept) = IF Cardinality(dir) <= cap THEN Cardinality(dir) ELSE cap}

\* The editor starts one after saving, a plugin that is loaded when the outbox
\* is not empty another; one that finds the mutex taken is gone at once.
StartSender ==
    /\ sender.pc = "off" /\ Queued # {}
    /\ sender' = [Off EXCEPT !.pc = "next", !.todo = Queued]
    /\ sent' \in Capped(sent, SENT_CAP, {})
    /\ failed' \in Capped(failed, FAILED_CAP, {})
    /\ UNCHANGED <<editor, accepted, outbox, cooling, shown, world_vars, faults, lost>>

Take(m) ==
    /\ sender.pc = "next" /\ m \in sender.todo
    /\ sender' = IF m \in cooling
                 THEN [sender EXCEPT !.todo = @ \ {m}]
                 ELSE [sender EXCEPT !.todo = @ \ {m}, !.pc = "post", !.msg = m, !.attempts = outbox[m] + 1]
    /\ UNCHANGED <<editor, accepted, dirs, shown, world_vars, faults, lost>>

\* Where a message goes that may be tried again.
Retry == IF sender.attempts >= MAX_ATTEMPTS THEN "failed" ELSE "outbox"

Answered(dest) == sender' = [sender EXCEPT !.pc = "save", !.dest = dest]

\* A bound that a message in order never reaches.
Count(n) == IF n <= MAX_ATTEMPTS + MaxFaults THEN n + 1 ELSE n

PostTrusting ==                \* a slip: an answer of any kind is taken for a ticket
    LET m == sender.msg IN
    /\ sender.pc = "post"
    /\ posts' = [posts EXCEPT ![m] = Count(@)]
    /\ \/ /\ tickets' = [tickets EXCEPT ![m] = Count(@)]
          /\ Answered("sent")
          /\ UNCHANGED <<refused, lost>>
       \/ /\ refused' \in {refused, refused \cup {m}}
          /\ Answered("sent")
          /\ UNCHANGED <<tickets, lost>>
    /\ UNCHANGED <<editor, accepted, dirs, shown, faults>>

\* post_item: the server stores the message and says so (whether or not the
\* ticket can be read), or its reply is lost; it refuses for good; or it
\* cannot be reached, or cannot take the message now.
Post ==
    LET m == sender.msg IN
    /\ sender.pc = "post"
    /\ posts' = [posts EXCEPT ![m] = Count(@)]
    /\ \/ /\ tickets' = [tickets EXCEPT ![m] = Count(@)]
          /\ \/ Answered("sent") /\ UNCHANGED lost
             \/ lost < MaxLost /\ lost' = lost + 1 /\ Answered(Retry)
          /\ UNCHANGED refused
       \/ refused' = refused \cup {m} /\ Answered("failed") /\ UNCHANGED <<tickets, lost>>
       \/ Answered(Retry) /\ UNCHANGED <<tickets, refused, lost>>
    /\ UNCHANGED <<editor, accepted, dirs, shown, faults>>

SaveUncounted ==               \* a slip: the file keeps its old count
    LET m == sender.msg IN
    /\ sender.pc = "save"
    /\ \/ /\ sender.dest = "outbox"
          /\ cooling' = cooling \cup {m} /\ UNCHANGED <<outbox, sent, failed>>
          /\ sender' = [sender EXCEPT !.pc = "next"]
       \/ /\ sender.dest # "outbox"
          /\ sent' = IF sender.dest = "sent" THEN sent \cup {m} ELSE sent
          /\ failed' = IF sender.dest = "failed" THEN failed \cup {m} ELSE failed
          /\ sender' = [sender EXCEPT !.pc = "remove"]
          /\ UNCHANGED <<outbox, cooling>>
    /\ UNCHANGED <<editor, accepted, shown, world_vars, faults, lost>>

\* The file is written to its next place, the first half of move_item, or
\* written back.
Save ==
    LET m == sender.msg IN
    /\ sender.pc = "save"
    /\ \/ /\ sender.dest = "outbox"
          /\ outbox' = [outbox EXCEPT ![m] = sender.attempts] /\ cooling' = cooling \cup {m}
          /\ sender' = [sender EXCEPT !.pc = "next"]
          /\ UNCHANGED <<sent, failed>>
       \/ /\ sender.dest # "outbox"
          /\ sent' = IF sender.dest = "sent" THEN sent \cup {m} ELSE sent
          /\ failed' = IF sender.dest = "failed" THEN failed \cup {m} ELSE failed
          /\ sender' = [sender EXCEPT !.pc = "remove"]
          /\ UNCHANGED <<outbox, cooling>>
    /\ UNCHANGED <<editor, accepted, shown, world_vars, faults, lost>>

SaveFailsTorn ==               \* a slip: a write that fails leaves no file (no atomic_write)
    /\ sender.pc = "save" /\ faults < MaxFaults
    /\ faults' = faults + 1
    /\ outbox' = IF sender.dest = "outbox" THEN [outbox EXCEPT ![sender.msg] = NoFile] ELSE outbox
    /\ cooling' = IF sender.dest = "outbox" THEN cooling \ {sender.msg} ELSE cooling
    /\ sender' = [sender EXCEPT !.pc = "next"]
    /\ UNCHANGED <<editor, accepted, sent, failed, shown, world_vars, lost>>

\* What could not be written is passed over.
SaveFails ==
    /\ sender.pc = "save" /\ faults < MaxFaults
    /\ faults' = faults + 1
    /\ sender' = [sender EXCEPT !.pc = "next"]
    /\ UNCHANGED <<editor, accepted, dirs, shown, world_vars, lost>>

\* The other half of move_item; then the directory is capped.
RemoveEntry ==
    LET m == sender.msg IN
    /\ sender.pc = "remove"
    /\ \/ outbox' = [outbox EXCEPT ![m] = NoFile] /\ cooling' = cooling \ {m} /\ UNCHANGED faults
       \/ faults < MaxFaults /\ faults' = faults + 1 /\ UNCHANGED <<outbox, cooling>>
    /\ IF sender.dest = "sent"
       THEN sent' \in Capped(sent, SENT_CAP, {m}) /\ UNCHANGED failed
       ELSE failed' \in Capped(failed, FAILED_CAP, {m}) /\ UNCHANGED sent
    /\ sender' = [sender EXCEPT !.pc = "next"]
    /\ UNCHANGED <<editor, accepted, shown, world_vars, lost>>

EndSender ==
    /\ sender.pc = "next" /\ sender.todo = {}
    /\ sender' = Off
    /\ UNCHANGED <<editor, accepted, dirs, shown, world_vars, faults, lost>>

Crash ==
    /\ sender.pc # "off" /\ faults < MaxFaults
    /\ sender' = Off /\ faults' = faults + 1
    /\ UNCHANGED <<editor, accepted, dirs, shown, world_vars, lost>>

\* backoff_ms has passed for a message.
BackoffEnds(m) ==
    /\ m \in cooling /\ cooling' = cooling \ {m}
    /\ UNCHANGED <<editor, accepted, outbox, sent, failed, sender, shown, world_vars, faults, lost>>

-----------------------------------------------------------------------------
Edit(e) == (\E m \in Msgs : queue_feedback(e, m)) \/ save_item(e) \/ poll_send(e)

SenderStep == (\E m \in Msgs : Take(m)) \/ Post \/ Save \/ SaveFails \/ RemoveEntry \/ EndSender

Next ==
    \/ \E e \in Editors : Edit(e)
    \/ StartSender \/ SenderStep \/ Crash
    \/ \E m \in Msgs : BackoffEnds(m)

Spec == Init /\ [][Next]_vars

-----------------------------------------------------------------------------
(* Properties *)

\* Every variable has its type.
TypeOK ==
    /\ editor \in [Editors -> [pc : {"idle", "save", "watch"}, msg : Msgs \cup {NoMsg}]]
    /\ accepted \subseteq Msgs /\ outbox \in [Msgs -> {NoFile} \cup 0..(MAX_ATTEMPTS - 1)]
    /\ {cooling, sent, failed, refused} \subseteq SUBSET Msgs
    /\ sender \in [pc : {"off", "next", "post", "save", "remove"}, todo : SUBSET Msgs, msg : Msgs \cup {NoMsg},
                   attempts : 0..MAX_ATTEMPTS, dest : {"outbox", "sent", "failed"}]
    /\ shown \in [Msgs -> {"nothing", "sent", "failed", "later"}]
    /\ tickets \in [Msgs -> Nat] /\ posts \in [Msgs -> Nat]
    /\ faults \in 0..MaxFaults /\ lost \in 0..MaxLost

\* The ends a message may come to.
Stored(m) == tickets[m] > 0
GivenUp(m) == m \in refused \/ posts[m] >= MAX_ATTEMPTS

\* A message an editor has taken (move_item, send_all) is in the outbox until
\* the server has it, refused it, or was asked often enough: no kill, no
\* failed write and no cap on the directories loses it in between.
NothingLost == \A m \in accepted : m \in Queued \/ Stored(m) \/ GivenUp(m)

\* What the directories and the editor say (poll_send) is so: sent is on the
\* server, failed was refused or tried to the end.
VerdictsAreTrue ==
    \A m \in Msgs :
        /\ m \in sent \/ shown[m] = "sent" => Stored(m)
        /\ m \in failed \/ shown[m] = "failed" => GivenUp(m)

\* Delivery is at least once.  MAX_ATTEMPTS bounds the posts of a message,
\* though attempts are only written after an answer: each fault may cost one
\* more.  A second ticket needs a reply lost or a fault after it, since the
\* server does not know a message again.
RepeatsBounded ==
    \A m \in Msgs : /\ posts[m] <= MAX_ATTEMPTS + faults
                    /\ tickets[m] <= 1 + lost + faults

\* A message taken comes to an end, what the user is told of it is true, and
\* it is posted a bounded number of times (outbox.rs, outbox_send.rs).
FeedbackSound == NothingLost /\ VerdictsAreTrue /\ RepeatsBounded

\* Fairness: a sender that runs goes on, back-offs pass, and plugins are
\* loaded again; a sender the editor starts may well find the mutex taken.
Fairness ==
    /\ WF_vars(SenderStep) /\ WF_vars(StartSender)
    /\ \A m \in Msgs : WF_vars(BackoffEnds(m))

LiveSpec == Spec /\ Fairness

\* No message stays in the outbox for ever, whatever the server answers.
Resolved == \A m \in Msgs : m \in Queued ~> m \notin Queued
=============================================================================
