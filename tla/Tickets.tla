------------------------------ MODULE Tickets -------------------------------
(***************************************************************************)
(* The feedback server's tickets (tools/feedback-ingest/src: handle_post   *)
(* of api.rs, the admin's handle and delete of admin.rs, forward,          *)
(* set_handled and write_replace of store.rs).  Worker threads handle      *)
(* requests side by side; the last ticket number is under a lock, the      *)
(* directory is not.  Whom the limits and the passwords let through is     *)
(* module Limits'.                                                         *)
(*                                                                         *)
(* A ticket is the file <ticket>.json, written through <ticket>.json.tmp;  *)
(* a handle that a thread holds follows the file through a rename.  The    *)
(* server runs on a POSIX file system.  A fault is a file operation that   *)
(* fails; a crash ends every thread where it is.                           *)
(***************************************************************************)
EXTENDS Integers, FiniteSets

CONSTANTS
    Workers, Msgs, NoMsg,
    MaxTicket,          \* bound: ticket numbers, the clock's milliseconds
    MAX_FILES,          \* Config
    MaxTrouble          \* bound: failing file operations and restarts, together

ASSUME TicketsAssumption ==
    /\ IsFiniteSet(Workers) /\ Workers # {} /\ NoMsg \notin Msgs
    /\ MaxTicket \in Nat /\ MAX_FILES \in Nat \ {0} /\ MaxTrouble \in Nat

Ids == 1..MaxTicket

\* What a file may hold.  Garbled: the end of a longer text is left behind a shorter one.
None == [is |-> "none"]
Empty == [is |-> "empty"]
Garbled == [is |-> "garbled"]
Records == [is : {"record"}, msg : Msgs, handled : BOOLEAN]

VARIABLES
    file, tmp,          \* each ticket: what its two files hold
    last,               \* LAST_TICKET_MS
    worker,
    posted,             \* messages that have been posted
    told,               \* history: the message a ticket was given out for
    deleted,            \* history: tickets deleted since they were given out
    overlapped,         \* history: tickets two admin requests have written at a time
    unremoved,          \* history: tickets whose removal failed
    faults, crashes

files == <<file, tmp>>
history == <<told, deleted, overlapped, unremoved>>
bounds == <<faults, crashes>>
ticket_vars == <<files, last, worker, posted, history, bounds>>

\* at: where the file is now that the thread has open, "gone" when it has no name.
Idle == [pc |-> "idle", post |-> FALSE, ticket |-> 0, rec |-> [is |-> "record", msg |-> NoMsg, handled |-> FALSE], at |-> "gone"]

TicketsInit ==
    /\ file = [t \in Ids |-> None] /\ tmp = [t \in Ids |-> None]
    /\ last = 0
    /\ worker = [w \in Workers |-> Idle] /\ posted = {}
    /\ told = [t \in Ids |-> NoMsg]
    /\ deleted = {} /\ overlapped = {} /\ unremoved = {}
    /\ faults = 0 /\ crashes = 0

list_tickets == {t \in Ids : file[t] # None}
load_ticket(t) == IF file[t] \in Records THEN file[t] ELSE None

\* What the dashboard shows; it counts list_tickets.
ticket_rows == {t \in list_tickets : load_ticket(t) # None}

Go(w, pc) == worker' = [worker EXCEPT ![w].pc = pc]
Done(w) == worker' = [worker EXCEPT ![w] = Idle]
Trouble == faults + crashes < MaxTrouble
Fail == Trouble /\ faults' = faults + 1 /\ UNCHANGED crashes

-----------------------------------------------------------------------------
(* handle_post *)

Post(w, m) ==
    /\ worker[w].pc = "idle" /\ m \notin posted
    /\ posted' = posted \cup {m}
    /\ worker' = [worker EXCEPT ![w] = [Idle EXCEPT !.pc = "count", !.post = TRUE, !.rec.msg = m]]
    /\ UNCHANGED <<files, last, history, bounds>>

\* What the token or the text gets refused for is decided here as well.
CountTickets(w) ==
    /\ worker[w].pc = "count"
    /\ \/ Cardinality(list_tickets) < MAX_FILES /\ Go(w, "id")
       \/ Done(w)
    /\ UNCHANGED <<files, last, posted, history, bounds>>

\* Under its own lock: the clock may say anything, the number only grows.
ticket_id(w) ==
    /\ worker[w].pc = "id"
    /\ \E clock \in 0..MaxTicket :
          /\ last' = IF clock > last THEN clock ELSE last + 1
          /\ last' \in Ids
          /\ worker' = [worker EXCEPT ![w].pc = "create_new", ![w].ticket = last']
    /\ UNCHANGED <<files, posted, history, bounds>>

Writing(w) == worker[w].pc \in {"create", "write", "rename"}

\* Another thread is between its reading and its rename of this ticket.
WrittenByOther(w, t) == \E v \in Workers \ {w} : worker[v].ticket = t /\ Writing(v)

\* A slip: creates the file over the one that is there.
ExistsNever(t) == FALSE

Exists(t) == file[t] # None

\* forward: the name is taken first; one that exists is an error.
create_new(w) ==
    LET t == worker[w].ticket IN
    /\ worker[w].pc = "create_new"
    /\ \/ /\ ~Exists(t)
          /\ file' = [file EXCEPT ![t] = Empty]
          /\ overlapped' = IF WrittenByOther(w, t) THEN overlapped \cup {t} ELSE overlapped
          /\ Go(w, "create") /\ UNCHANGED bounds
       \/ /\ IF Exists(t) THEN UNCHANGED bounds ELSE Fail
          /\ Done(w) /\ UNCHANGED <<file, overlapped>>
    /\ UNCHANGED <<tmp, last, posted, told, deleted, unremoved>>

\* A removed file is still there for who has it open, without a name.
Unnamed(w, t) ==
    [v \in Workers |->
        IF v = w THEN Idle
        ELSE IF worker[v].ticket = t /\ worker[v].at = "file" THEN [worker[v] EXCEPT !.at = "gone"]
        ELSE worker[v]]

\* forward, when write_replace has failed.
remove_file(w) ==
    LET t == worker[w].ticket IN
    /\ worker[w].pc = "remove"
    /\ \/ /\ file' = [file EXCEPT ![t] = None] /\ worker' = Unnamed(w, t)
          /\ UNCHANGED <<unremoved, bounds>>
       \/ /\ Fail /\ unremoved' = unremoved \cup {t}
          /\ Done(w) /\ UNCHANGED file
    /\ UNCHANGED <<tmp, last, posted, told, deleted, overlapped>>

-----------------------------------------------------------------------------
(* write_replace, for a new ticket and for set_handled *)

\* A slip: leaves the name of a ticket that was not written.
GiveUpTheName(w) == Done(w)

\* What follows an error: a new ticket's name is given back.
GiveUp(w) == IF worker[w].post THEN Go(w, "remove") ELSE Done(w)

\* File::create: the same temporary name for every writer of a ticket, and
\* whatever is there is emptied.
CreateTmp(w) ==
    LET t == worker[w].ticket IN
    /\ worker[w].pc = "create"
    /\ \/ /\ tmp' = [tmp EXCEPT ![t] = Empty]
          /\ worker' = [worker EXCEPT ![w].pc = "write", ![w].at = "tmp"]
          /\ UNCHANGED bounds
       \/ Fail /\ GiveUp(w) /\ UNCHANGED tmp
    /\ UNCHANGED <<file, last, posted, history>>

\* Written from the start of the file: an unhandled record is the shorter one.
Over(old, rec) ==
    IF old = Empty \/ rec.handled \/ (old \in Records /\ ~old.handled) THEN rec ELSE Garbled

\* write_all and sync_all.
WriteTmp(w) ==
    LET t == worker[w].ticket IN
    /\ worker[w].pc = "write"
    /\ \/ /\ tmp' = IF worker[w].at = "tmp" THEN [tmp EXCEPT ![t] = Over(@, worker[w].rec)] ELSE tmp
          /\ file' = IF worker[w].at = "file" THEN [file EXCEPT ![t] = Over(@, worker[w].rec)] ELSE file
          /\ Go(w, "rename") /\ UNCHANGED bounds
       \/ Fail /\ GiveUp(w) /\ UNCHANGED files
    /\ UNCHANGED <<last, posted, history>>

\* Handles follow their file: those on the temporary one are now on the
\* ticket's, those on the ticket's have lost their name.
Renamed(t) ==
    [v \in Workers |->
        IF worker[v].ticket # t THEN worker[v]
        ELSE [worker[v] EXCEPT !.at = IF @ = "tmp" THEN "file" ELSE "gone"]]

\* The rename finds no temporary file when another writer has moved it away.
Rename(w) ==
    LET t == worker[w].ticket IN
    /\ worker[w].pc = "rename"
    /\ \/ /\ tmp[t] # None
          /\ file' = [file EXCEPT ![t] = tmp[t]] /\ tmp' = [tmp EXCEPT ![t] = None]
          /\ worker' = [Renamed(t) EXCEPT ![w] = Idle]
          /\ told' = IF worker[w].post THEN [told EXCEPT ![t] = worker[w].rec.msg] ELSE told
          /\ deleted' = IF worker[w].post THEN deleted \ {t} ELSE deleted
          /\ UNCHANGED bounds
       \/ /\ IF tmp[t] = None THEN UNCHANGED bounds ELSE Fail
          /\ GiveUp(w) /\ UNCHANGED <<files, told, deleted>>
    /\ UNCHANGED <<last, posted, overlapped, unremoved>>

-----------------------------------------------------------------------------
(* The admin's requests *)

\* The page the admin clicks on may be old: any ticket that was given out.
Known(t) == told[t] # NoMsg

Begin(w, pc, t) ==
    /\ worker[w].pc = "idle" /\ Known(t)
    /\ worker' = [worker EXCEPT ![w] = [Idle EXCEPT !.pc = pc, !.ticket = t]]
    /\ UNCHANGED <<files, last, posted, history, bounds>>

handle_admin_handle(w, t) == Begin(w, "read", t)
handle_admin_delete(w, t) == Begin(w, "delete", t)

\* set_handled reads and changes the record; what cannot be read is "not found".
set_handled(w) ==
    LET t == worker[w].ticket  old == load_ticket(t) IN
    /\ worker[w].pc = "read"
    /\ IF old = None
       THEN Done(w) /\ UNCHANGED overlapped
       ELSE /\ \E handled \in BOOLEAN :
                 worker' = [worker EXCEPT ![w].pc = "create", ![w].rec = [old EXCEPT !.handled = handled]]
            /\ overlapped' = IF WrittenByOther(w, t) THEN overlapped \cup {t} ELSE overlapped
    /\ UNCHANGED <<files, last, posted, told, deleted, unremoved, bounds>>

delete(w) ==
    LET t == worker[w].ticket IN
    /\ worker[w].pc = "delete"
    /\ \/ /\ file[t] # None
          /\ file' = [file EXCEPT ![t] = None] /\ deleted' = deleted \cup {t}
          /\ worker' = Unnamed(w, t) /\ UNCHANGED bounds
       \/ /\ IF file[t] = None THEN UNCHANGED bounds ELSE Fail
          /\ Done(w) /\ UNCHANGED <<file, deleted>>
    /\ UNCHANGED <<tmp, last, posted, told, overlapped, unremoved>>

-----------------------------------------------------------------------------
\* The server goes down and is started again: the last number is
\* forgotten, and a write under way may have got half through.
Crash ==
    /\ Trouble /\ crashes' = crashes + 1
    /\ LET half(where) == {t \in Ids : \E w \in Workers :
             worker[w].pc = "write" /\ worker[w].ticket = t /\ worker[w].at = where} IN
       \E torn \in SUBSET (half("tmp") \cup half("file")) :
         /\ tmp' = [t \in Ids |-> IF t \in torn \cap half("tmp") THEN Garbled ELSE tmp[t]]
         /\ file' = [t \in Ids |-> IF t \in torn \cap half("file") THEN Garbled ELSE file[t]]
    /\ worker' = [w \in Workers |-> Idle]
    /\ last' = 0
    /\ UNCHANGED <<posted, history, faults>>

Step(w) ==
    \/ CountTickets(w) \/ ticket_id(w) \/ create_new(w) \/ remove_file(w)
    \/ CreateTmp(w) \/ WriteTmp(w) \/ Rename(w)
    \/ set_handled(w) \/ delete(w)

TicketsNext ==
    \/ \E w \in Workers, m \in Msgs : Post(w, m)
    \/ \E w \in Workers, t \in Ids : handle_admin_handle(w, t) \/ handle_admin_delete(w, t)
    \/ \E w \in Workers : Step(w)
    \/ Crash

TicketsSpec == TicketsInit /\ [][TicketsNext]_ticket_vars

-----------------------------------------------------------------------------
Contents == {None, Empty, Garbled} \cup Records

WorkerStates ==
    [ pc : {"idle", "count", "id", "create_new", "create", "write", "rename", "remove", "read", "delete"},
      post : BOOLEAN, ticket : 0..MaxTicket, at : {"tmp", "file", "gone"},
      rec : [is : {"record"}, msg : Msgs \cup {NoMsg}, handled : BOOLEAN] ]

TicketsTypeOK ==
    /\ file \in [Ids -> Contents] /\ tmp \in [Ids -> Contents]
    /\ last \in 0..MaxTicket
    /\ worker \in [Workers -> WorkerStates]
    /\ posted \subseteq Msgs /\ told \in [Ids -> Msgs \cup {NoMsg}]
    /\ UNION {deleted, overlapped, unremoved} \subseteq Ids
    /\ {faults, crashes} \subseteq Nat

\* A ticket that was given out and not deleted can be read at every moment,
\* also between the steps of a write and after a crash, and holds the message
\* it was given out for; unless two requests wrote it at a time, who share
\* one temporary file (forward, set_handled, write_replace).
TicketsKept ==
    \A t \in Ids \ (deleted \cup overlapped) :
        told[t] # NoMsg => load_ticket(t) # None /\ file[t].msg = told[t]

\* A number is given out a second time only when its ticket was deleted, also
\* when the clock has gone back over a restart (ticket_id, create_new).
TicketsAreNotReused ==
    [][\A t \in Ids : told'[t] # told[t] => told[t] = NoMsg \/ t \in deleted]_ticket_vars

\* Without a crash every file the directory counts can also be read once the
\* threads are idle: a post that fails leaves nothing behind (forward).
NoGhosts ==
    crashes = 0 /\ (\A w \in Workers : worker[w].pc = "idle") =>
        list_tickets \ ticket_rows \subseteq overlapped \cup unremoved

\* The tickets are counted before they are made and one that is deleted may be
\* written again by a request that had read it: each thread may add one to a
\* full directory, and no more (handle_post, set_handled).
DirectoryBounded == Cardinality(list_tickets) < MAX_FILES + Cardinality(Workers)

\* A ticket that was answered with its number is there until it is deleted, is
\* listed once, and the directory stays within its cap (store.rs).
TicketsSound == TicketsTypeOK /\ TicketsKept /\ NoGhosts /\ DirectoryBounded
=============================================================================
