------------------------------ MODULE AlertLink ------------------------------
(***************************************************************************)
(* The Unix socket between the loader (loader.c, the server) and the Flask *)
(* backends (backend_flask/app.py, xdp_socket_client_loop): the slots of   *)
(* client_fds, the broadcast of JSON lines, reconnecting, and the handling *)
(* of lines in the backend.                                                *)
(*                                                                         *)
(* A line is an alert, by its number, or Flow, a flow_rate line.  Lines    *)
(* are shorter than 512 bytes and AF_UNIX takes such a write whole or not  *)
(* at all, so a socket holds whole lines; what recv cuts, the backend's    *)
(* buffer joins again before anything is parsed.                           *)
(* How a loader starts and stops is the module Loader.                     *)
(***************************************************************************)
EXTENDS Naturals, Sequences, FiniteSets

CONSTANTS
    Backend,        \* Flask processes
    Conn,           \* bound: connections that exist at a time
    None,
    MAX_CLIENTS,    \* slots of client_fds
    SockBuf,        \* bound: lines a socket buffer holds
    MaxAlerts,      \* bound: alerts raised
    MaxFaults,      \* bound: failing accepts, exceptions in a handler, crashes of a backend
    MaxStops        \* bound: times the loader goes down

ASSUME LinkAssumption ==
    /\ None \notin Conn
    /\ MAX_CLIENTS \in Nat \ {0} /\ SockBuf \in Nat \ {0}
    /\ MaxAlerts \in Nat /\ MaxFaults \in Nat /\ MaxStops \in Nat

Alert == 1..MaxAlerts
Flow == 0
Line == Alert \cup {Flow}
Slot == 1..MAX_CLIENTS

VARIABLES
    raised,     \* alerts the data plane has put into alert_rb
    taken,      \* alerts ring_buffer__poll has handed out
    lpc,        \* the loader: "down", or where its main loop is
    line, cursor,           \* broadcast_json_line: the line, and i
    file,       \* the socket file exists
    backlog,    \* connections waiting for accept
    client_fds, \* [Slot -> connection or None]
    queue,      \* [Conn -> lines sent and not yet received]
    bpc,        \* per backend: where xdp_socket_client_loop is
    client,     \*   its connection or None
    buffer,     \*   lines received and not yet handled
    stored,     \*   alerts written to the database, in order
    faults, stops

\* Histories: alerts whose broadcast began while the backend's connection was in
\* a slot, and lines that met its full socket buffer.
VARIABLES offered, skipped

server == <<lpc, line, cursor, file, backlog, client_fds>>
thread == <<bpc, client, buffer>>
hist == <<offered, skipped>>
vars == <<raised, taken, server, queue, thread, stored, faults, stops, hist>>

Init ==
    /\ raised = 0 /\ taken = 0
    /\ lpc = "down" /\ line = Flow /\ cursor = 1 /\ file = FALSE
    /\ backlog = <<>> /\ client_fds = [i \in Slot |-> None]
    /\ queue = [k \in Conn |-> <<>>]
    /\ bpc = [b \in Backend |-> "check"] /\ client = [b \in Backend |-> None]
    /\ buffer = [b \in Backend |-> <<>>] /\ stored = [b \in Backend |-> <<>>]
    /\ faults = 0 /\ stops = 0
    /\ offered = [b \in Backend |-> {}] /\ skipped = [b \in Backend |-> {}]

Held == {client_fds[i] : i \in Slot} \ {None}
Waiting == {backlog[i] : i \in DOMAIN backlog}
ServerOpen(k) == k \in Held \cup Waiting
ClientOpen(k) == \E b \in Backend : client[b] = k

(***************************************************************************)
(* The loader.                                                             *)
(***************************************************************************)
\* Startup: the slots are empty, the socket listens, alert_rb is a new map.
StartLoader ==
    /\ lpc = "down" /\ lpc' = "accept"
    /\ file' = TRUE /\ taken' = raised
    /\ UNCHANGED <<raised, line, cursor, backlog, client_fds, queue, thread, stored, faults,
                   stops, hist>>

\* accept_clients: every waiting connection gets the first free slot, or is
\* closed when there is none.
FirstFree(fds) == {i \in Slot : fds[i] = None /\ \A j \in 1..(i-1) : fds[j] # None}

PlacedEverywhere(fds, k) == [i \in Slot |-> IF fds[i] = None THEN k ELSE fds[i]]
Placed(fds, k) == [i \in Slot |-> IF i \in FirstFree(fds) THEN k ELSE fds[i]]

Accept ==
    /\ lpc = "accept" /\ backlog # <<>>
    /\ client_fds' = Placed(client_fds, Head(backlog))
    /\ backlog' = Tail(backlog)
    /\ UNCHANGED <<raised, taken, lpc, line, cursor, file, queue, thread, stored, faults, stops,
                   hist>>

\* EAGAIN ends accept_clients.
AcceptDone ==
    /\ lpc = "accept" /\ backlog = <<>> /\ lpc' = "poll"
    /\ UNCHANGED <<raised, taken, line, cursor, file, backlog, client_fds, queue, thread, stored,
                   faults, stops, hist>>

\* Any other error ends it, too: who waits is accepted in a later round.
AcceptFails ==
    /\ lpc = "accept" /\ backlog # <<>> /\ lpc' = "poll"
    /\ faults < MaxFaults /\ faults' = faults + 1
    /\ UNCHANGED <<raised, taken, line, cursor, file, backlog, client_fds, queue, thread, stored,
                   stops, hist>>

Broadcast(l) == lpc' = "send" /\ line' = l /\ cursor' = 1

\* ring_buffer__poll: handle_alert for every record there is.
PollRing ==
    /\ lpc = "poll"
    /\ IF taken < raised
       THEN /\ taken' = taken + 1 /\ Broadcast(taken + 1)
            /\ offered' = [b \in Backend |-> IF client[b] \in Held
                                             THEN offered[b] \cup {taken + 1} ELSE offered[b]]
       ELSE lpc' = "report" /\ UNCHANGED <<taken, line, cursor, offered>>
    /\ UNCHANGED <<raised, file, backlog, client_fds, queue, thread, stored, faults, stops,
                   skipped>>

\* read_and_report_stats, when the interval is over and there is traffic.
Report ==
    /\ lpc = "report" /\ Broadcast(Flow)
    /\ UNCHANGED <<raised, taken, file, backlog, client_fds, queue, thread, stored, faults,
                   stops, hist>>

NoReport ==
    /\ lpc = "report" /\ lpc' = "accept"
    /\ UNCHANGED <<raised, taken, line, cursor, file, backlog, client_fds, queue, thread,
                   stored, faults, stops, hist>>

\* One turn of the loop in broadcast_json_line.  A full buffer (EAGAIN) loses
\* the line for this client; any other error closes the client's slot.
KeptOpen(fds, i) == fds
Closed(fds, i) == [fds EXCEPT ![i] = None]

AfterFailureBreak == MAX_CLIENTS + 1
AfterFailure == cursor + 1

Send ==
    /\ lpc = "send" /\ cursor \in Slot
    /\ LET k == client_fds[cursor] IN
       \/ /\ k = None
          /\ cursor' = cursor + 1 /\ UNCHANGED <<client_fds, queue, skipped>>
       \/ /\ k # None /\ ~ClientOpen(k)
          /\ client_fds' = Closed(client_fds, cursor)
          /\ cursor' = AfterFailure /\ UNCHANGED <<queue, skipped>>
       \/ /\ k # None /\ ClientOpen(k) /\ Len(queue[k]) < SockBuf
          /\ queue' = [queue EXCEPT ![k] = Append(@, line)]
          /\ cursor' = cursor + 1 /\ UNCHANGED <<client_fds, skipped>>
       \/ /\ k # None /\ ClientOpen(k) /\ Len(queue[k]) >= SockBuf
          /\ skipped' = [b \in Backend |-> IF client[b] = k THEN skipped[b] \cup {line}
                                           ELSE skipped[b]]
          /\ cursor' = AfterFailure /\ UNCHANGED <<client_fds, queue>>
    /\ UNCHANGED <<raised, taken, lpc, line, file, backlog, thread, stored, faults, stops,
                   offered>>

Sent ==
    /\ lpc = "send" /\ cursor \notin Slot
    /\ lpc' = IF line = Flow THEN "accept" ELSE "poll"
    /\ cursor' = 1 /\ line' = Flow
    /\ UNCHANGED <<raised, taken, file, backlog, client_fds, queue, thread, stored, faults,
                   stops, hist>>

LoaderStep == Accept \/ AcceptDone \/ PollRing \/ NoReport \/ Send \/ Sent

\* The loader ends - by cleanup, which removes the file, or killed - and every
\* descriptor of its side is closed.
Down(removed) ==
    /\ lpc # "down" /\ stops < MaxStops /\ stops' = stops + 1
    /\ removed => lpc = "accept"
    /\ lpc' = "down" /\ line' = Flow /\ cursor' = 1
    /\ file' = (file /\ ~removed)
    /\ backlog' = <<>> /\ client_fds' = [i \in Slot |-> None]
    /\ UNCHANGED <<raised, taken, queue, thread, stored, faults, hist>>

(***************************************************************************)
(* The data plane raises an alert while its program is loaded.             *)
(***************************************************************************)
Raise ==
    /\ lpc # "down" /\ raised < MaxAlerts
    /\ raised' = raised + 1
    /\ UNCHANGED <<taken, server, queue, thread, stored, faults, stops, hist>>

(***************************************************************************)
(* xdp_socket_client_loop.  Every failure closes the connection, drops     *)
(* what was received and not handled, and starts over.                     *)
(***************************************************************************)
BackendAt(b, label) ==
    /\ bpc[b] = label
    /\ UNCHANGED <<raised, taken, server, stops>>

Exists(b) ==
    /\ BackendAt(b, "check") /\ file
    /\ bpc' = [bpc EXCEPT ![b] = "connect"]
    /\ UNCHANGED <<queue, client, buffer, stored, faults, hist>>

\* A new connection; which unused name it gets makes no difference.
Unused == {k \in Conn : ~ServerOpen(k) /\ ~ClientOpen(k)}

Connect(b) ==
    /\ bpc[b] = "connect" /\ lpc # "down" /\ Unused # {}
    /\ LET k == CHOOSE u \in Unused : TRUE IN
        /\ client' = [client EXCEPT ![b] = k]
        /\ backlog' = Append(backlog, k)
    /\ bpc' = [bpc EXCEPT ![b] = "recv"]
    /\ UNCHANGED <<raised, taken, lpc, line, cursor, file, client_fds, queue, buffer, stored,
                   faults, stops, hist>>

\* No file any more, or one that nobody listens on: wait and start over.
Refused(b) ==
    /\ BackendAt(b, "connect") /\ lpc = "down"
    /\ bpc' = [bpc EXCEPT ![b] = "check"]
    /\ UNCHANGED <<queue, client, buffer, stored, faults, hist>>

\* sock.close(): what is in the socket and in the buffer is lost.
StartOver(b) ==
    /\ client' = [client EXCEPT ![b] = None]
    /\ queue' = [k \in Conn |-> IF k = client[b] THEN <<>> ELSE queue[k]]
    /\ buffer' = [buffer EXCEPT ![b] = <<>>]
    /\ bpc' = [bpc EXCEPT ![b] = "check"]
    /\ offered' = [offered EXCEPT ![b] = {}] /\ skipped' = [skipped EXCEPT ![b] = {}]

Recv(b) ==
    /\ BackendAt(b, "recv")
    /\ LET k == client[b] IN
       \/ /\ \E n \in 1..Len(queue[k]) :
              /\ buffer' = [buffer EXCEPT ![b] = SubSeq(queue[k], 1, n)]
              /\ queue' = [queue EXCEPT ![k] = SubSeq(@, n + 1, Len(@))]
          /\ bpc' = [bpc EXCEPT ![b] = "handle"] /\ UNCHANGED <<client, hist>>
       \/ /\ queue[k] = <<>> /\ ~ServerOpen(k)
          /\ StartOver(b)
    /\ UNCHANGED <<stored, faults>>

\* handle_xdp_msg: save_alert commits the row; save_flow_rate has a table of
\* its own.
Saved(b) ==
    IF Head(buffer[b]) = Flow THEN stored
    ELSE [stored EXCEPT ![b] = Append(@, Head(buffer[b]))]

Handle(b) ==
    /\ BackendAt(b, "handle")
    /\ stored' = Saved(b)
    /\ buffer' = [buffer EXCEPT ![b] = Tail(@)]
    /\ bpc' = [bpc EXCEPT ![b] = IF Len(buffer[b]) = 1 THEN "recv" ELSE "handle"]
    /\ UNCHANGED <<queue, client, faults, hist>>

\* An exception before the commit (a locked database) or after it (the emit),
\* or the end of the process: it is started again.
HandleFails(b) ==
    /\ BackendAt(b, "handle") /\ faults < MaxFaults /\ faults' = faults + 1
    /\ stored' \in {stored, Saved(b)}
    /\ StartOver(b)

Crash(b) ==
    /\ faults < MaxFaults /\ faults' = faults + 1
    /\ StartOver(b)
    /\ UNCHANGED <<raised, taken, server, stored, stops>>

BackendStep(b) == Exists(b) \/ Connect(b) \/ Refused(b) \/ Recv(b) \/ Handle(b)

Next ==
    \/ StartLoader \/ LoaderStep \/ AcceptFails \/ Report \/ \E removed \in BOOLEAN : Down(removed)
    \/ Raise
    \/ \E b \in Backend : BackendStep(b) \/ HandleFails(b) \/ Crash(b)

Spec == Init /\ [][Next]_vars

\* Processes are scheduled, and with traffic on the interface the interval
\* for a report is over again and again.  accept_clients loops for as long as
\* connections wait, and a client that is turned away comes back at once: it
\* is assumed that the loader's next accept is, now and then, the faster one.
FairSpec ==
    /\ Spec
    /\ WF_vars(LoaderStep) /\ SF_vars(AcceptDone) /\ SF_vars(Report)
    /\ \A b \in Backend : WF_vars(BackendStep(b))

-----------------------------------------------------------------------------
\* A connection is in one place only, of the server's side and of the clients'.
TypeOK ==
    /\ raised \in 0..MaxAlerts /\ taken \in 0..raised
    /\ lpc \in {"down", "accept", "poll", "send", "report"}
    /\ line \in Line /\ cursor \in 1..(MAX_CLIENTS + 1) /\ file \in BOOLEAN
    /\ backlog \in Seq(Conn) /\ client_fds \in [Slot -> Conn \cup {None}]
    /\ \A i, j \in Slot : client_fds[i] = client_fds[j] => i = j \/ client_fds[i] = None
    /\ Held \cap Waiting = {}
    /\ \A k \in Conn : queue[k] \in Seq(Line) /\ Len(queue[k]) <= SockBuf
    /\ offered \in [Backend -> SUBSET Alert] /\ skipped \in [Backend -> SUBSET Line]
    /\ bpc \in [Backend -> {"check", "connect", "recv", "handle"}]
    /\ client \in [Backend -> Conn \cup {None}]
    /\ \A b \in Backend : /\ buffer[b] \in Seq(Line) /\ stored[b] \in Seq(Alert)
                          /\ bpc[b] \in {"recv", "handle"} <=> client[b] # None
                          /\ bpc[b] = "handle" <=> buffer[b] # <<>>
    /\ faults \in 0..MaxFaults /\ stops \in 0..MaxStops

\* The refinement mapping: the alerts of the data plane and the rows of the
\* databases are what the abstract path has; the socket between them is hidden.
Delivery == INSTANCE AlertDelivery WITH Backend <- Backend, MaxAlerts <- MaxAlerts,
                                        raised <- raised, stored <- stored

(***************************************************************************)
(* What a backend's database holds are the alerts in their order, each at  *)
(* most once, across reconnects, restarts and failing handlers: the link   *)
(* implements AlertDelivery.  (broadcast_json_line, loader.c:348;          *)
(* xdp_socket_client_loop, app.py:340.)                                    *)
(***************************************************************************)
InOrderOnce == Delivery!Spec

Elems(s) == {s[i] : i \in DOMAIN s}

(***************************************************************************)
(* A connected backend misses an alert for one reason only: its own socket *)
(* buffer was full.  Whatever happens to other clients - a dead one in an  *)
(* earlier slot, one that is slow - every alert broadcast since it was     *)
(* accepted is stored, or under way to it, or met its full buffer.         *)
(***************************************************************************)
Accounted ==
    \A b \in Backend : client[b] \in Held =>
        offered[b] \ (IF lpc = "send" THEN {line} ELSE {})
            \subseteq Elems(stored[b]) \cup Elems(buffer[b]) \cup Elems(queue[client[b]])
                      \cup skipped[b]

(***************************************************************************)
(* While a loader runs, every backend gets one of its slots, though slots  *)
(* are only freed when a send fails: dead clients cannot use them up.      *)
(* (It takes as many slots as backends, and traffic.)                      *)
(***************************************************************************)
Attached(b) == client[b] \in Held

BackendsAttach == \A b \in Backend : lpc # "down" ~> (Attached(b) \/ lpc = "down")
=============================================================================
