------------------------------ MODULE MCDelivery ------------------------------
(***************************************************************************)
(* What is delivered in the end: a published version to the user, and a    *)
(* message to the server.  A behaviour runs one part under that part's     *)
(* fairness; the other stands in an initial state.                         *)
(***************************************************************************)
EXTENDS Updater

CONSTANTS p1, p2

MCProcs == {p1, p2}

VARIABLES
    running,
    editor, accepted, outbox, cooling, sent, failed, sender, shown, tickets, posts, refused, faults, lost

outbox_vars == <<editor, accepted, outbox, cooling, sent, failed, sender, shown, tickets, posts, refused, faults, lost>>

\* One editor and two messages, one kill or failed write.
O == INSTANCE Outbox WITH
    Editors <- {"e1"}, Msgs <- {"m1", "m2"}, NoMsg <- "none", MAX_ATTEMPTS <- 2,
    OUTBOX_CAP <- 2, SENT_CAP <- 1, FAILED_CAP <- 1, MaxFaults <- 1, MaxLost <- 0

-----------------------------------------------------------------------------
DeliveryInit ==
    /\ running \in {"updater", "outbox"}
    /\ Init /\ O!Init
    /\ running # "updater" => server.feed = 1

DeliveryNext ==
    /\ UNCHANGED running
    /\ \/ running = "updater" /\ Next /\ UNCHANGED outbox_vars
       \/ running = "outbox" /\ O!Next /\ UNCHANGED vars

\* The fairness of each part, as its module states and justifies it.
DeliveryFairness ==
    /\ []<>(\A p \in Procs : At(p, "off"))
    /\ WF_vars(running = "updater" /\ WindowsPass)
    /\ WF_vars(running = "updater" /\ Outside /\ Publish)
    /\ \A p \in Procs : WF_vars(running = "updater" /\ Step(p))
    /\ SF_vars(running = "updater" /\ \E p \in Procs : FetchFeed(p))
    /\ SF_vars(running = "updater" /\ \E p \in Procs : FetchSignature(p))
    /\ SF_vars(running = "updater" /\ \E p \in Procs : Download(p, proc[p].version))
    /\ SF_vars(running = "updater" /\ \E p \in Procs : StartCheck(p) /\ due)
    /\ WF_outbox_vars(running = "outbox" /\ O!SenderStep)
    /\ WF_outbox_vars(running = "outbox" /\ O!StartSender)
    /\ \A m \in {"m1", "m2"} : WF_outbox_vars(running = "outbox" /\ O!BackoffEnds(m))

DeliverySpec == DeliveryInit /\ [][DeliveryNext]_<<running, vars, outbox_vars>> /\ DeliveryFairness

-----------------------------------------------------------------------------
\* No message stays in the outbox for ever, whatever the server answers and
\* whenever the sender is killed (feedback.rs).
Resolved == O!Resolved
=============================================================================
