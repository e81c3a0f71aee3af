----------------------------- MODULE InputReplay -----------------------------
(* The client half of acknowledged input: the journal that carries a paste   *)
(* across reconnects under one operation id, with the attach driver's glue   *)
(* that puts each frame it builds on the wire at once.                       *)
(*                                                                           *)
(* Source: crates/phux-client/src/attach/input_replay.rs, called from        *)
(* crates/phux-tui/src/attach/driver/loop_state.rs (adopt_input_replay,      *)
(* resolve_input_replay), input_dispatch/dispatch.rs (a paste) and           *)
(* crates/phux/src/commands/attach.rs (the reconnect loop).  The journal is  *)
(* synchronous and lives on one task, so every method is one step.           *)
EXTENDS Integers, Sequences, FiniteSets

CONSTANTS
    Operations,     \* operation ids the journal mints
    Horizon,        \* INPUT_RETRY_HORIZON
    NoLink          \* "no live, negotiated socket"

VARIABLES
    now,            \* the monotonic clock
    queue,          \* ops: unresolved operations, oldest first
    connection,     \* ConnectionContext, or NoLink
    nextRequest,    \* the attach session's next_request_id
    verdict,        \* operation -> the report the user has had of it
    wire            \* APPLY_INPUT frames sent and not yet taken by a server

Dispositions == {"Delivered", "Unknown", "Refused"}

\* Request id 0 stands for "nothing in flight", incarnation 0 for "not bound".
NoRequest == 0
NoServer == 0

PendingOp(o, r, d) ==
    [op |-> o, to |-> r, payload |-> d, server |-> NoServer, created |-> now, attempted |-> FALSE]

\* Mutant of PastHorizon: the last instant of the horizon still counts.
PastHorizonLate(p) == now - p.created > Horizon

\* sweep's and next_frame's `duration_since(created) >= INPUT_RETRY_HORIZON`.
PastHorizon(p) == now - p.created >= Horizon

\* Mutant of StrandReport: whether the operation was ever sent is forgotten.
StrandReportRefuses(p) == "Refused"

\* strand_report: an attempted operation may be in the pane, a never-sent one
\* cannot be.
StrandReport(p) == IF p.attempted THEN "Unknown" ELSE "Refused"

\* The reports once the operations of S are stranded.
Strand(v, S) ==
    [o \in Operations |->
        IF \E p \in S : p.op = o THEN StrandReport(CHOOSE p \in S : p.op = o) ELSE v[o]]

\* next_frame, from queue q, link and reports v: nothing while an attempt is
\* outstanding; else strand what is past the horizon at the front and put the
\* first survivor on the wire, bound to the incarnation of its first attempt.
NextFrame(q, link, rid, v, frames) ==
    IF link = NoLink \/ link.inFlight # NoRequest
    THEN /\ queue' = q /\ connection' = link /\ nextRequest' = rid
         /\ verdict' = v /\ wire' = frames
    ELSE \E n \in 0..Len(q) :
         /\ \A i \in 1..n : PastHorizon(q[i])
         /\ verdict' = Strand(v, {q[i] : i \in 1..n})
         /\ \/ /\ n = Len(q)
               /\ queue' = << >> /\ connection' = link /\ nextRequest' = rid /\ wire' = frames
            \/ /\ n < Len(q) /\ ~PastHorizon(q[n + 1])
               /\ LET p == q[n + 1]
                      bound == IF p.server = NoServer THEN link.server ELSE p.server
                  IN  /\ queue' = <<[p EXCEPT !.attempted = TRUE, !.server = bound]>>
                                     \o SubSeq(q, n + 2, Len(q))
                      /\ wire' = frames \cup
                            {[conn |-> link.conn, server |-> link.server, rid |-> rid,
                              op |-> p.op, to |-> p.to, payload |-> p.payload,
                              created |-> p.created, sent |-> now]}
               /\ connection' = [link EXCEPT !.inFlight = rid]
               /\ nextRequest' = rid + 1

-----------------------------------------------------------------------------
JournalInit ==
    /\ queue = << >>
    /\ connection = NoLink
    /\ nextRequest = 1
    /\ verdict = [o \in Operations |-> "New"]
    /\ wire = {}

\* Mutant of Submit: the new operation goes to the front of the queue.
SubmitAtFront(o, r, d) ==
    /\ connection # NoLink
    /\ verdict[o] = "New"
    /\ NextFrame(<<PendingOp(o, r, d)>> \o queue, connection, nextRequest,
                 [verdict EXCEPT ![o] = "Queued"], wire)

\* submit, from the paste path of the input dispatcher.
Submit(o, r, d) ==
    /\ connection # NoLink
    /\ verdict[o] = "New"
    /\ NextFrame(Append(queue, PendingOp(o, r, d)), connection, nextRequest,
                 [verdict EXCEPT ![o] = "Queued"], wire)

\* Mutant of Keeps: the incarnation an operation is bound to is not compared.
KeepsAnyServer(s, p) == ~PastHorizon(p)

\* sweep keeps what may be replayed against incarnation s.
Keeps(s, p) == ~PastHorizon(p) /\ p.server \in {NoServer, s}

\* The positions of the operations sweep keeps, and the one way to list them
\* in queue order.
Survivors(s) == {i \in 1..Len(queue) : Keeps(s, queue[i])}
Listings(K) == {at \in [1..Cardinality(K) -> K] : \A i, j \in DOMAIN at : i < j => at[i] < at[j]}

\* The operations sweep strands.
Swept(s) == {queue[i] : i \in 1..Len(queue) \ Survivors(s)}

\* begin_connection's context for connection conn to incarnation s.
Link(conn, s) == [conn |-> conn, server |-> s, inFlight |-> NoRequest]

\* Mutant of Adopt: the survivors come back in the wrong order.
AdoptReversed(conn, s) ==
    \E at \in Listings(Survivors(s)) :
        NextFrame([i \in DOMAIN at |-> queue[at[Len(at) + 1 - i]]], Link(conn, s), 1,
                  Strand(verdict, Swept(s)), wire)

\* Mutant of Adopt: the connection is recorded and nothing is resent on it.
AdoptSilently(conn, s) ==
    /\ \E at \in Listings(Survivors(s)) : queue' = [i \in DOMAIN at |-> queue[at[i]]]
    /\ connection' = Link(conn, s)
    /\ nextRequest' = 1
    /\ verdict' = Strand(verdict, Swept(s))
    /\ UNCHANGED wire

\* adopt_input_replay on entering the main loop: begin_connection, then
\* next_frame under a fresh request counter.
Adopt(conn, s) ==
    \E at \in Listings(Survivors(s)) :
        NextFrame([i \in DOMAIN at |-> queue[at[i]]], Link(conn, s), 1,
                  Strand(verdict, Swept(s)), wire)

\* strand_all with no connection left: begin_connection against a peer with no
\* usable incarnation identity or no ACKNOWLEDGED_INPUT, and drain_unresolved
\* when the reconnect loop gives up.
StrandAll ==
    /\ queue' = << >> /\ connection' = NoLink
    /\ verdict' = Strand(verdict, {queue[i] : i \in 1..Len(queue)})
    /\ UNCHANGED <<nextRequest, wire>>

\* Mutant of Disposition: an unclassified code is handed on as it came.
DispositionRaw(code) ==
    CASE code = "Ok" -> "Delivered"
      [] code = "InputDeliveryUnknown" -> "Unknown"
      [] OTHER -> code

\* resolve's classification of a COMMAND_RESULT.
Disposition(code) ==
    CASE code = "Ok" -> "Delivered"
      [] code = "InputDeliveryUnknown" -> "Unknown"
      [] OTHER -> "Refused"

Owns(conn, rid) == connection # NoLink /\ connection.conn = conn /\ connection.inFlight = rid

\* resolve_input_replay: fold the reply in and send the next operation behind it.
Resolve(conn, rid, code) ==
    IF Owns(conn, rid)
    THEN NextFrame(Tail(queue), [connection EXCEPT !.inFlight = NoRequest], nextRequest,
                   [verdict EXCEPT ![Head(queue).op] = Disposition(code)], wire)
    ELSE UNCHANGED <<queue, connection, nextRequest, verdict, wire>>

\* connection_lost: the correlation dies, the operations stay.
ConnectionLost ==
    /\ connection' = NoLink
    /\ UNCHANGED <<queue, nextRequest, verdict, wire>>
=============================================================================
