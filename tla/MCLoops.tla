------------------------------- MODULE MCLoops -------------------------------
(***************************************************************************)
(* What must come to an end although others have a say in it: a track's    *)
(* joining and leaving, the feedback prompt, the wait for a setup, a       *)
(* connection to the server.                                               *)
(* A behaviour runs one part under that part's fairness; the others stand  *)
(* in their initial states.                                                *)
(*                                                                         *)
(* The mixer has one track here, which may overrun its ring, and loses its *)
(* device once; and, without fairness, two of which one has another channel*)
(* count than the device's.                                                *)
(***************************************************************************)
EXTENDS Mixer

VARIABLES
    part,
    class, pr_editor, waiting, early, prompt, submitted, queued, told, opens,
    job_at, suspended, tree, members, exit_code, by_itself, waited, outcome,
    request, conn, answer, queue, acceptor, worker, panics

prompt_vars == <<class, pr_editor, waiting, early, prompt, submitted, queued, told, opens>>
job_vars == <<job_at, suspended, tree, members, exit_code, by_itself, waited, outcome>>
http_vars == <<request, conn, answer, queue, acceptor, worker, panics>>

-----------------------------------------------------------------------------
F == INSTANCE Mixer WITH MaxId <- 2, Foreign <- {1}, MaxPushed <- 2, MaxOverruns <- 0

P == INSTANCE Prompt WITH PromptEditors <- {"a", "b"}, MaxOpens <- 2

\* A setup that may fork for ever, and is given two ticks.
J == INSTANCE Job WITH Chars <- {"plain"}, MaxArg <- 0, timeout_ms <- 2

\* Heads of up to three bytes and a chunk of two, bodies of up to two: every
\* limit is met, missed by one and broken.
R(line, headers, bad, chunked, length, head, total) ==
    [ line |-> line, headers |-> headers, bad |-> bad, chunked |-> chunked,
      length |-> length, head |-> head, total |-> total ]
Plain == R(TRUE, 1, 0, FALSE, 1, 2, 3)
Odd == { R(TRUE, 1, 0, FALSE, 2, 3, 5), R(TRUE, 0, 0, FALSE, -1, 4, 5),
         R(TRUE, 2, 2, FALSE, 1, 3, 4), R(FALSE, 0, 0, FALSE, -1, 2, 2),
         R(TRUE, 1, 0, TRUE, -1, 2, 4), R(TRUE, 1, 0, FALSE, 3, 2, 5),
         R(TRUE, 1, 0, FALSE, -2, 2, 5) }

H == INSTANCE Http WITH
    Conns <- {1, 2, 3}, Workers <- {"w1", "w2"}, QUEUE <- 1,
    HEADER_BYTES <- 3, HEADER_COUNT <- 1, BODY_BYTES <- 2, CHUNK <- 2,
    Requests <- [c \in {1, 2, 3} |-> IF c = 1 THEN Odd ELSE {Plain}],
    NoConn <- 0, NoRequest <- [line |-> FALSE], MaxPanics <- 2

-----------------------------------------------------------------------------
LoopsInit ==
    /\ part \in {"mixer", "foreign", "prompt", "job", "http"}
    /\ IF part = "foreign" THEN F!Init ELSE Init
    /\ P!PromptInit /\ J!JobInit /\ H!Init

\* Prompts and connections are bounded, and a setup is run once.
Over == part \in {"prompt", "job", "http"} /\ UNCHANGED <<vars, prompt_vars, job_vars, http_vars>>

LoopsNext ==
    /\ UNCHANGED part
    /\ \/ part = "mixer" /\ Next /\ UNCHANGED <<prompt_vars, job_vars, http_vars>>
       \/ part = "foreign" /\ F!Next /\ UNCHANGED <<prompt_vars, job_vars, http_vars>>
       \/ part = "prompt" /\ P!PromptNext /\ UNCHANGED <<vars, job_vars, http_vars>>
       \/ part = "job" /\ J!JobNext /\ UNCHANGED <<vars, prompt_vars, http_vars>>
       \/ part = "http" /\ H!Next /\ UNCHANGED <<vars, prompt_vars, job_vars>>
       \/ Over

\* The fairness of each part, as its module states and justifies it.
LoopsFairness ==
    /\ \A id \in Ids : /\ WF_vars(part = "mixer" /\ Post(id))
                       /\ SF_vars(part = "mixer" /\ Lock(id))
                       /\ WF_vars(part = "mixer" /\ record_push(id))
    /\ SF_vars(part = "mixer" /\ SyncBegin(TRUE)) /\ SF_vars(part = "mixer" /\ Trim)
    /\ WF_vars(part = "mixer" /\ Drain) /\ WF_vars(part = "mixer" /\ Visit)
    /\ \A e \in {"a", "b"} : /\ WF_prompt_vars(part = "prompt" /\ P!run_feedback(e))
                             /\ WF_prompt_vars(part = "prompt" /\ P!joined(e))
    /\ WF_job_vars(part = "job" /\ J!run_tree) /\ WF_job_vars(part = "job" /\ J!JobTick)
    /\ WF_http_vars(part = "http" /\ H!TurnAway)
    /\ \A w \in {"w1", "w2"} : /\ WF_http_vars(part = "http" /\ H!Recv(w))
                               /\ WF_http_vars(part = "http" /\ H!handle_connection(w))

LoopsSpec == LoopsInit /\ [][LoopsNext]_<<part, vars, prompt_vars, job_vars, http_vars>> /\ LoopsFairness

-----------------------------------------------------------------------------
\* A track that has left is taken out of the mix, and one whose ring holds a
\* target is mixed unless it leaves first; a track the mixer cannot take
\* (Source::new) is left out for good, and its orders are worked off like any
\* other's (mixer.rs).
TracksAreServed ==
    /\ part = "mixer" => LeavingEnds /\ Heard
    /\ [](part = "foreign" => F!OrdersTakeEffectOnce)

\* An editor that is closed does not hang on its prompt, nor the updater on the
\* setup it runs (win_prompt.rs, job.rs).
WaitsEnd == P!DropEnds /\ (part = "job" => J!RunEnds)

\* Every connection accepted ends, and with the answer its request earns
\* (feedback-ingest http.rs).
HttpServes == H!ConnectionsEnd /\ [](part = "http" => H!AnswersFitTheRequest)
=============================================================================
