-------------------------------- MODULE Http --------------------------------
(***************************************************************************)
(* The feedback server's HTTP front (tools/feedback-ingest/src/http.rs):   *)
(* one thread accepts connections and puts them into a bounded queue,      *)
(* worker threads take them out, read one request each, call the handler,  *)
(* answer and close.                                                       *)
(*                                                                         *)
(* A request is what the reader's decisions depend on; bytes are counted,  *)
(* not spelled.  How the network cuts a request into reads is free.        *)
(***************************************************************************)
EXTENDS Integers, Sequences, FiniteSets, SequencesExt

CONSTANTS
    Conns,                      \* connections, each made once
    Workers,
    QUEUE,                      \* serve: workers * 4
    HEADER_BYTES, HEADER_COUNT, BODY_BYTES,    \* Limits
    CHUNK,                      \* the reader's buffer, 1024 bytes
    Requests,                   \* what the client of each connection may send
    NoConn, NoRequest,
    MaxPanics                   \* bound: handlers that panic

\* A request: whether its first line is right, the number of its headers and
\* the first that is not a header (0: none), Transfer-Encoding, its
\* Content-Length, the bytes of the head with the empty line and the bytes the
\* client sends in all.
Absent == -1
Garbled == -2
Request == [line : BOOLEAN, headers : Nat, bad : Nat, chunked : BOOLEAN,
            length : Nat \cup {Absent, Garbled}, head : Nat \ {0}, total : Nat]

VARIABLES
    request,        \* what each connection's client sends
    conn,           \* where each connection is
    answer,         \* the status written to it, "handled" for the handler's, or "none"
    queue,          \* the sync_channel
    acceptor,       \* the connection the accepting thread is turning away
    worker,         \* each worker: its step, its connection, the bytes read, the status to write
    panics

vars == <<request, conn, answer, queue, acceptor, worker, panics>>

Idle == [pc |-> "recv", conn |-> NoConn, got |-> 0, status |-> "none"]

Init ==
    /\ request = [c \in Conns |-> NoRequest]
    /\ conn = [c \in Conns |-> "new"] /\ answer = [c \in Conns |-> "none"]
    /\ queue = <<>> /\ acceptor = NoConn
    /\ worker = [w \in Workers |-> Idle]
    /\ panics = 0

Alive == {w \in Workers : worker[w].pc # "dead"}

-----------------------------------------------------------------------------
(* What read_request decides *)

\* A slip: allows one header less.
parse_head_strict(r) ==
    CASE ~r.line \/ r.bad \in 1..HEADER_COUNT -> "400"
      [] r.headers >= HEADER_COUNT -> "431"
      [] OTHER -> "ok"

\* parse_head: the first line, then each header in turn; too many are noticed
\* before the one too many is looked at.
parse_head(r) ==
    CASE ~r.line \/ r.bad \in 1..HEADER_COUNT -> "400"
      [] r.headers > HEADER_COUNT -> "431"
      [] OTHER -> "ok"

content_length(r) == IF r.length = Absent THEN 0 ELSE r.length

\* The head is whole, got bytes have been read.
admit(r, got) ==
    CASE parse_head(r) # "ok" -> parse_head(r)
      [] r.chunked -> "411"
      [] r.length = Garbled -> "400"
      [] content_length(r) > BODY_BYTES -> "413"
      [] got - r.head > content_length(r) -> "400"
      [] OTHER -> "ok"

-----------------------------------------------------------------------------
(* The accepting thread *)

Connect(c) ==
    /\ acceptor = NoConn /\ conn[c] = "new"
    /\ \E r \in Requests[c] : request' = [request EXCEPT ![c] = r]
    /\ IF Alive # {} /\ Len(queue) < QUEUE
       THEN /\ queue' = Append(queue, c) /\ conn' = [conn EXCEPT ![c] = "queued"]
            /\ UNCHANGED acceptor
       ELSE acceptor' = c /\ conn' = [conn EXCEPT ![c] = "held"] /\ UNCHANGED queue
    /\ UNCHANGED <<answer, worker, panics>>

\* The answer may not get through, by an error or by the write timeout.
TurnAway ==
    /\ acceptor # NoConn
    /\ \E a \in {"busy", "none"} : answer' = [answer EXCEPT ![acceptor] = a]
    /\ conn' = [conn EXCEPT ![acceptor] = "closed"] /\ acceptor' = NoConn
    /\ UNCHANGED <<request, queue, worker, panics>>

-----------------------------------------------------------------------------
(* A worker *)

Recv(w) ==
    /\ worker[w].pc = "recv" /\ queue # <<>>
    /\ worker' = [worker EXCEPT ![w] = [Idle EXCEPT !.pc = "head", !.conn = Head(queue)]]
    /\ conn' = [conn EXCEPT ![Head(queue)] = "held"]
    /\ queue' = Tail(queue)
    /\ UNCHANGED <<request, answer, acceptor, panics>>

Req(w) == request[worker[w].conn]
Reject(w, status) == worker' = [worker EXCEPT ![w].pc = "write", ![w].status = status]

\* timed_read with a buffer of so many bytes: some of what is under way.
timed_read(w, room) ==
    \E n \in 1..room :
        /\ worker[w].got + n <= Req(w).total
        /\ worker' = [worker EXCEPT ![w].got = @ + n]

\* The end of the head is looked for before the limit is; the limit is
\* checked between reads only.
ReadHead(w) ==
    LET r == Req(w) IN
    /\ worker[w].pc = "head"
    /\ \/ /\ worker[w].got >= r.head
          /\ LET verdict == admit(r, worker[w].got) IN
             IF verdict = "ok" THEN worker' = [worker EXCEPT ![w].pc = "body"]
                               ELSE Reject(w, verdict)
       \/ worker[w].got < r.head /\ worker[w].got >= HEADER_BYTES /\ Reject(w, "431")
       \/ worker[w].got < r.head /\ worker[w].got < HEADER_BYTES /\ timed_read(w, CHUNK)
    /\ UNCHANGED <<request, conn, answer, queue, acceptor, panics>>

ReadBody(w) ==
    LET missing == content_length(Req(w)) - (worker[w].got - Req(w).head) IN
    /\ worker[w].pc = "body"
    /\ IF missing = 0 THEN worker' = [worker EXCEPT ![w].pc = "handler"]
                      ELSE timed_read(w, IF missing < CHUNK THEN missing ELSE CHUNK)
    /\ UNCHANGED <<request, conn, answer, queue, acceptor, panics>>

\* The end of the stream, an error, or the deadline, which counts from the
\* first byte: nothing is answered.
ReadFails(w) ==
    /\ \/ worker[w].pc = "head" /\ worker[w].got < Req(w).head /\ worker[w].got < HEADER_BYTES
       \/ worker[w].pc = "body" /\ worker[w].got - Req(w).head < content_length(Req(w))
    /\ conn' = [conn EXCEPT ![worker[w].conn] = "closed"]
    /\ worker' = [worker EXCEPT ![w] = Idle]
    /\ UNCHANGED <<request, answer, queue, acceptor, panics>>

Handle(w) ==
    /\ worker[w].pc = "handler"
    /\ Reject(w, "handled")
    /\ UNCHANGED <<request, conn, answer, queue, acceptor, panics>>

\* A handler that panics ends its thread; its stream is dropped.  With the
\* last thread the receiving end goes, and the connections that wait in it.
Panic(w) ==
    /\ worker[w].pc = "handler" /\ panics < MaxPanics
    /\ panics' = panics + 1
    /\ worker' = [worker EXCEPT ![w] = [Idle EXCEPT !.pc = "dead"]]
    /\ LET gone == {worker[w].conn} \cup (IF Alive = {w} THEN ToSet(queue) ELSE {}) IN
       conn' = [c \in Conns |-> IF c \in gone THEN "closed" ELSE conn[c]]
    /\ queue' = IF Alive = {w} THEN <<>> ELSE queue
    /\ UNCHANGED <<request, answer, acceptor>>

\* write_response and shutdown; the write may fail.
WriteResponse(w) ==
    /\ worker[w].pc = "write"
    /\ \E a \in {worker[w].status, "none"} : answer' = [answer EXCEPT ![worker[w].conn] = a]
    /\ conn' = [conn EXCEPT ![worker[w].conn] = "closed"]
    /\ worker' = [worker EXCEPT ![w] = Idle]
    /\ UNCHANGED <<request, queue, acceptor, panics>>

handle_connection(w) ==
    ReadHead(w) \/ ReadBody(w) \/ ReadFails(w) \/ Handle(w) \/ Panic(w) \/ WriteResponse(w)

Next ==
    \/ \E c \in Conns : Connect(c)
    \/ TurnAway
    \/ \E w \in Workers : Recv(w) \/ handle_connection(w)

\* Threads run; a read ends by its deadline, a write by its timeout and a
\* handler in the end.  Clients owe nothing.
Fairness == WF_vars(TurnAway) /\ \A w \in Workers : WF_vars(Recv(w)) /\ WF_vars(handle_connection(w))

Spec == Init /\ [][Next]_vars
LiveSpec == Spec /\ Fairness

-----------------------------------------------------------------------------
TypeOK ==
    /\ \A c \in Conns : request[c] \in Requests[c] \cup {NoRequest}
    /\ conn \in [Conns -> {"new", "queued", "held", "closed"}]
    /\ answer \in [Conns -> {"none", "busy", "handled", "400", "411", "413", "431"}]
    /\ ToSet(queue) \subseteq Conns /\ Len(queue) <= QUEUE
    /\ acceptor \in Conns \cup {NoConn}
    /\ \A w \in Workers :
         /\ worker[w].pc \in {"recv", "head", "body", "handler", "write", "dead"}
         /\ worker[w].conn \in Conns \cup {NoConn} /\ worker[w].got \in Nat

\* A request the limits allow, with exactly the body it declares.
WithinLimits(r) ==
    /\ parse_head(r) = "ok" /\ ~r.chunked /\ content_length(r) \in 0..BODY_BYTES
    /\ r.head <= HEADER_BYTES /\ r.total = r.head + content_length(r)

\* However the network cuts a request up, the status it gets is one its own
\* text earns: a request within the limits is never refused, and the handler
\* sees none whose head is a chunk or more over the limit, none with another
\* body than the declared one, and no body over the limit (read_request).
AnswersFitTheRequest ==
    \A c \in {c \in Conns : conn[c] # "new"} :
        LET r == request[c] IN
        /\ WithinLimits(r) => answer[c] \in {"none", "busy", "handled"}
        /\ answer[c] = "handled" =>
             /\ parse_head(r) = "ok" /\ ~r.chunked
             /\ content_length(r) \in 0..BODY_BYTES
             /\ r.head < HEADER_BYTES + CHUNK /\ r.total >= r.head + content_length(r)
        /\ answer[c] = "431" => r.head > HEADER_BYTES \/ r.headers > HEADER_COUNT
        /\ answer[c] = "413" => r.length > BODY_BYTES

\* A connection that has been accepted is closed in the end: answered, turned
\* away or dropped, also when its client stalls, when handlers panic and when
\* the last worker is gone (serve, handle_connection).
ConnectionsEnd == \A c \in Conns : conn[c] \in {"queued", "held"} ~> conn[c] = "closed"
=============================================================================
