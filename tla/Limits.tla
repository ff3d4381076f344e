------------------------------- MODULE Limits -------------------------------
(***************************************************************************)
(* Whom the feedback server lets through (tools/feedback-ingest/src:       *)
(* over_limit and prune of util.rs, the first halves of handle_post and    *)
(* handle_ping of api.rs, admin_gate of admin.rs).  The hits of all        *)
(* senders are behind one mutex, taken for each look and each entry, and   *)
(* are kept nowhere else: a restarted server begins with none.             *)
(***************************************************************************)
EXTENDS Integers, FiniteSets

CONSTANTS
    Threads, Senders,
    Most,               \* of each map: the hits it allows (Config)
    Span,               \* of each map: how long a hit counts, an hour or a day
    MaxTime             \* bound: the clock

Maps == {"by_ip", "by_id", "admin_fail_ip", "ping_by_ip"}

\* A limit of zero is not taken from the environment (env_u32, config.rs).
ASSUME LimitsAssumption ==
    /\ IsFiniteSet(Threads) /\ Threads # {} /\ MaxTime \in Nat
    /\ Most \in [Maps -> Nat \ {0}] /\ Span \in [Maps -> Nat]

VARIABLES
    now,
    hits,           \* of each map and sender: its hits, numbered as they were entered
    thread,
    passed          \* history: the hits entered since the server's start, never pruned

limit_vars == <<now, hits, thread, passed>>

Away == [pc |-> "idle", who |-> "nobody"]

NoHits == [m \in Maps |-> [s \in Senders |-> {}]]

LimitsInit ==
    /\ now = 0
    /\ hits = NoHits /\ passed = NoHits
    /\ thread = [w \in Threads |-> Away]

prune == [m \in Maps |-> [s \in Senders |-> {h \in hits[m][s] : now - h.at < Span[m]}]]

\* A slip: lets one more through.
over_limit_late(m, s) == Cardinality(prune[m][s]) > Most[m]

over_limit(m, s) == Cardinality(prune[m][s]) >= Most[m]

Push(m, s) ==
    LET hit == [n |-> Cardinality(passed[m][s]) + 1, at |-> now] IN
    /\ hits' = [prune EXCEPT ![m][s] = @ \cup {hit}]
    /\ passed' = [passed EXCEPT ![m][s] = @ \cup {hit}]

At(w, pc) == thread[w].pc = pc
GoesOn(w, pc) == thread' = [thread EXCEPT ![w].pc = pc]
Leaves(w) == thread' = [thread EXCEPT ![w] = Away]

\* Look and enter under one lock; who is over the limit gets 429.
Take(w, m, next) ==
    /\ IF over_limit(m, thread[w].who)
       THEN hits' = prune /\ UNCHANGED passed /\ Leaves(w)
       ELSE Push(m, thread[w].who) /\ IF next = "done" THEN Leaves(w) ELSE GoesOn(w, next)
    /\ UNCHANGED now

Request(w, s, pc) ==
    /\ At(w, "idle")
    /\ thread' = [thread EXCEPT ![w] = [pc |-> pc, who |-> s]]
    /\ UNCHANGED <<now, hits, passed>>

\* A post counts for its address before its token is looked at, a ping after.
handle_post(w) ==
    \/ At(w, "post") /\ Take(w, "by_ip", "checks")
    \/ /\ At(w, "checks") /\ (GoesOn(w, "post_id") \/ Leaves(w)) /\ UNCHANGED <<now, hits, passed>>
    \/ At(w, "post_id") /\ Take(w, "by_id", "done")

handle_ping(w) ==
    \/ /\ At(w, "ping") /\ (GoesOn(w, "ping_ip") \/ Leaves(w)) /\ UNCHANGED <<now, hits, passed>>
    \/ At(w, "ping_ip") /\ Take(w, "ping_by_ip", "done")

\* The lock is given back while the password is compared.
admin_gate(w) ==
    \/ /\ At(w, "admin") /\ hits' = prune
       /\ IF over_limit("admin_fail_ip", thread[w].who) THEN Leaves(w) ELSE GoesOn(w, "auth")
       /\ UNCHANGED <<now, passed>>
    \/ /\ At(w, "auth") /\ (GoesOn(w, "wrong") \/ Leaves(w)) /\ UNCHANGED <<now, hits, passed>>
    \/ At(w, "wrong") /\ Push("admin_fail_ip", thread[w].who) /\ Leaves(w) /\ UNCHANGED now

Tick == now < MaxTime /\ now' = now + 1 /\ UNCHANGED <<hits, thread, passed>>

\* The process ends, whatever its threads are at, and another starts: main
\* makes four empty maps.  The clock and the senders go on.
Restart ==
    /\ hits' = NoHits /\ passed' = NoHits
    /\ thread' = [w \in Threads |-> Away]
    /\ UNCHANGED now

LimitsNext ==
    \/ \E w \in Threads, s \in Senders, pc \in {"post", "ping", "admin"} : Request(w, s, pc)
    \/ \E w \in Threads : handle_post(w) \/ handle_ping(w) \/ admin_gate(w)
    \/ Restart \/ Tick

LimitsSpec == LimitsInit /\ [][LimitsNext]_limit_vars

-----------------------------------------------------------------------------
Hits == [n : Nat, at : 0..MaxTime]

LimitsTypeOK ==
    /\ now \in 0..MaxTime
    /\ {hits, passed} \subseteq [Maps -> [Senders -> SUBSET Hits]]
    /\ thread \in [Threads ->
          [pc : {"idle", "post", "checks", "post_id", "ping", "ping_ip", "admin", "auth", "wrong"},
           who : Senders \cup {"nobody"}]]

\* Of one process, in no hour, wherever it begins, do more of a sender's posts
\* or pings pass than the limit says, and in no day more of one id; of wrong
\* passwords each thread may add one, for it looks and enters apart (over_limit,
\* prune).  Each restart allows a window that spans it as much again (main).
NoneOverTheLimit ==
    \A m \in Maps, s \in Senders, from \in 0..now :
        Cardinality({h \in passed[m][s] : h.at \in from..(from + Span[m] - 1)})
            < Most[m] + (IF m = "admin_fail_ip" THEN Cardinality(Threads) ELSE 1)

\* From one start of the server to the next a sender gets no more through than
\* its window allows (handle_post, handle_ping, admin_gate).
RatesHold == LimitsTypeOK /\ NoneOverTheLimit
=============================================================================
