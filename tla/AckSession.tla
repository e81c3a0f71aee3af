----------------------------- MODULE AckSession -----------------------------
(* Acknowledged input end to end: the client's replay journal, the network,  *)
(* and the server's input pipeline, through dropped connections, frames that *)
(* arrive after their connection was given up, session switches, and server  *)
(* restarts that keep the panes and lose the dedupe record.                  *)
(*                                                                           *)
(* One user, one journal.  A connection is one of the server's clients; they *)
(* are numbered in the order they are dialled.  A server task answers one    *)
(* command at a time and writes the reply to the connection it came from.    *)
EXTENDS InputLane

CONSTANTS
    Horizon,            \* INPUT_RETRY_HORIZON, in clock units
    MaxTransit,         \* longest a frame may travel and still be taken
    NoLink,             \* the journal's "no connection"
    MaxConnections,     \* bound: connections a run may dial
    MaxSwitches,        \* bound: session switches of a run
    MaxIncarnations     \* bound: server processes of a run

ASSUME SessionAssumption ==
    /\ Horizon \in Nat \ {0} /\ Horizon =< Retention    \* equal in the code
    /\ MaxTransit \in Nat
    /\ MaxSwitches \in Nat /\ MaxConnections \in Nat \ {0} /\ MaxIncarnations \in Nat \ {0}
    /\ Clients = 1..MaxConnections
    /\ Operations \subseteq Nat
    /\ NoLink \notin [conn : Clients, server : Nat, inFlight : Nat]

VARIABLES
    queue, connection, nextRequest, verdict, wire,      \* InputReplay's
    calls,          \* APPLY_INPUT calls whose reply the client may still read
    incarnation,    \* the server process; HELLO_OK.server_id
    dialed,         \* connections dialled so far
    switches,       \* session switches so far
    attach,         \* how the attach command stands: Running, GaveUp, Detached
    late            \* history: operations of which a server took a frame that
                    \* the horizon had overtaken on its way

INSTANCE InputReplay

journalVars == <<queue, connection, nextRequest, verdict, wire>>
linkVars == <<calls, incarnation, dialed, switches, attach, late>>
sessionVars == <<vars, journalVars, linkVars>>

running == attach = "Running"

Connection == [conn : Clients, server : Nat, inFlight : Nat]

PendingOps ==
    [op : Operations, to : Resources, payload : Payloads, server : Nat, created : Nat,
     attempted : BOOLEAN]

Frame ==
    [conn : Clients, server : Nat, rid : Nat, op : Operations, to : Resources,
     payload : Payloads, created : Nat, sent : Nat]

SessionTypeOK ==
    /\ TypeOK
    /\ queue \in Seq(PendingOps)
    /\ connection \in Connection \cup {NoLink}
    /\ nextRequest \in Nat
    /\ verdict \in [Operations -> Dispositions \cup {"New", "Queued"}]
    /\ wire \subseteq Frame
    /\ calls \subseteq [conn : Clients, rid : Nat, id : Nat]
    /\ incarnation \in 1..MaxIncarnations
    /\ dialed \in 0..MaxConnections
    /\ switches \in 0..MaxSwitches
    /\ attach \in {"Running", "GaveUp", "Detached"}
    /\ late \subseteq Operations

SessionInit ==
    /\ Init
    /\ JournalInit
    /\ calls = {} /\ incarnation = 1 /\ dialed = 0 /\ switches = 0
    /\ attach = "Running" /\ late = {}

-----------------------------------------------------------------------------
(* The client.                                                               *)

\* The user pastes into a pane.  Ids are minted at random; here they are named
\* 1, 2, ... in the order they are minted.
Paste(o, r, d) ==
    /\ running
    /\ \A p \in Operations : p < o => verdict[p] # "New"
    /\ Submit(o, r, d)
    /\ UNCHANGED <<vars, linkVars>>

\* A dial of the reconnect loop succeeds.
Dial ==
    /\ running /\ connection = NoLink
    /\ dialed < MaxConnections
    /\ dialed' = dialed + 1
    /\ \/ Adopt(dialed + 1, incarnation)
       \/ StrandAll
    /\ UNCHANGED <<vars, calls, incarnation, switches, attach, late>>

\* The socket is gone; replies still on it are never read.
Disconnect ==
    /\ running /\ connection # NoLink
    /\ ConnectionLost
    /\ calls' = {}
    /\ UNCHANGED <<vars, incarnation, dialed, switches, attach, late>>

Answered(call) == attempts[call.id].result # "Waiting"

\* switch_session: DETACH is answered after every command before it, so the
\* drain discards the outstanding attempt's reply; then the main loop is
\* entered again on the same connection.
SwitchSession ==
    /\ running /\ connection # NoLink /\ connection.server = incarnation
    /\ \A f \in wire : f.conn # connection.conn
    /\ \A call \in calls : Answered(call)
    /\ Adopt(connection.conn, connection.server)
    /\ switches < MaxSwitches /\ switches' = switches + 1
    /\ calls' = {}
    /\ UNCHANGED <<vars, incarnation, dialed, attach, late>>

\* A COMMAND_RESULT arrives on the live connection.
ReceiveReply ==
    \E call \in calls :
        /\ running /\ Answered(call)
        /\ Resolve(call.conn, call.rid, attempts[call.id].result)
        /\ calls' = calls \ {call}
        /\ UNCHANGED <<vars, incarnation, dialed, switches, attach, late>>

\* The reconnect window closes, or the attach fails: drain_unresolved.
GiveUp ==
    /\ running
    /\ attach' = "GaveUp"
    /\ StrandAll
    /\ calls' = {}
    /\ UNCHANGED <<vars, incarnation, dialed, switches, late>>

\* The session ends with DETACHED: exit_after_detach leaves the process from
\* inside the driver, past the reconnect loop's drain.
ExitAfterDetach ==
    /\ running /\ connection # NoLink
    /\ attach' = "Detached"
    /\ ConnectionLost
    /\ calls' = {}
    /\ UNCHANGED <<vars, incarnation, dialed, switches, late>>

-----------------------------------------------------------------------------
(* The network and the server.                                               *)

\* The retry horizon of a frame's operation passed while the frame was on its
\* way: next_frame compares the clock when it sends, nobody when it is taken.
Overtaken(f) == f.sent < f.created + Horizon /\ f.created + Horizon =< now

\* A server task takes a frame off its socket, within MaxTransit or never.  A
\* frame of a connection the client has given up may still be in the server's
\* buffers.
TakeFrame(f) ==
    /\ f.server = incarnation
    /\ now =< f.sent + MaxTransit
    /\ ApplyInput(f.conn, f.to, f.op, f.payload)
    /\ wire' = wire \ {f}
    /\ calls' = IF connection # NoLink /\ connection.conn = f.conn
                THEN calls \cup {[conn |-> f.conn, rid |-> f.rid, id |-> NewId]} ELSE calls
    /\ late' = IF Overtaken(f) THEN late \cup {f.op} ELSE late
    /\ UNCHANGED <<queue, connection, nextRequest, verdict, incarnation, dialed, switches, attach>>

\* What an old frame is to a new server process: it may have bytes in a pane,
\* and it has no record, no slot, and no answer to come.
Forgotten(a) == [a EXCEPT !.kind = "Attached", !.bound = -1, !.result = "Sent"]

\* A new server process takes over the panes (upgrade).  Queues, the dedupe
\* record, leases and sockets were the old process's; the PTYs live on under
\* new actors and writers.
ServerRestart ==
    /\ incarnation < MaxIncarnations
    /\ incarnation' = incarnation + 1
    /\ attempts' = [x \in Ids |-> Forgotten(attempts[x])]
    /\ admission' = {} /\ lane' = << >> /\ lanePc' = "Recv" /\ item' = 0 /\ ticket' = 0
    /\ waitq' = << >> /\ pending' = {} /\ closing' = {}
    /\ mailbox' = [r \in Resources |-> << >>] /\ writerq' = [r \in Resources |-> << >>]
    /\ entries' = [o \in Operations |-> NoEntry] /\ expiry' = << >>
    /\ subscribers' = [r \in Resources |-> {}] /\ holder' = [r \in Resources |-> NoOne]
    /\ actor' = [r \in Resources |-> IF r \in live THEN "Running" ELSE "Gone"]
    /\ writer' = [r \in Resources |-> IF r \in live THEN "Running" ELSE "Stopped"]
    /\ calls' = {}
    /\ UNCHANGED <<now, pty, live, journalVars, dialed, switches, attach, late>>

ServerStep ==
    /\ Tick \/ LaneStep \/ WaiterStep \/ \E r \in Resources : PaneStep(r)
    /\ UNCHANGED <<journalVars, linkVars>>

SessionNext ==
    \/ \E o \in Operations, r \in Resources, d \in Payloads : Paste(o, r, d)
    \/ Dial \/ Disconnect \/ SwitchSession \/ ReceiveReply \/ GiveUp \/ ExitAfterDetach
    \/ \E f \in wire : TakeFrame(f)
    \/ ServerRestart
    \/ ServerStep

SessionSpec == SessionInit /\ [][SessionNext]_sessionVars

\* The transport notices a dead link: the server it led to is gone, or a frame
\* it should have carried is overdue.
LinkDies ==
    /\ Disconnect
    /\ \/ connection.server # incarnation
       \/ \E f \in wire : f.conn = connection.conn /\ now > f.sent + MaxTransit

\* The server's threads run, a live link carries what is on it or is found
\* dead, and the reconnect window is bounded.
FairSession ==
    /\ SessionSpec
    /\ WF_sessionVars(LaneStep /\ UNCHANGED <<journalVars, linkVars>>)
    /\ WF_sessionVars(WaiterStep /\ UNCHANGED <<journalVars, linkVars>>)
    /\ WF_sessionVars(\E f \in wire : TakeFrame(f) /\ connection # NoLink /\ f.conn = connection.conn)
    /\ WF_sessionVars(LinkDies)
    /\ WF_sessionVars(ReceiveReply)
    /\ WF_sessionVars(connection = NoLink /\ (Dial \/ GiveUp))

-----------------------------------------------------------------------------
(* Properties.                                                               *)

\* Where the bytes of operation o are in the panes.
Landings(o) ==
    UNION {{<<r, i>> : i \in {j \in 1..Len(pty[r]) : attempts[pty[r][j].id].op = o}} : r \in Resources}

AtMostOne(S) == \A l, m \in S : l = m

written ==
    [o \in Operations |->
        IF Landings(o) = {} THEN "Nothing"
        ELSE IF ~AtMostOne(Landings(o)) THEN "Twice"
        ELSE IF \A l \in Landings(o) : pty[l[1]][l[2]].whole THEN "Whole" ELSE "Part"]

(* The whole path keeps the contract: across every resend, reconnect and     *)
(* restart a paste is written once, or again only if its horizon passed with *)
(* a frame of it under way, and Delivered means it is there.                 *)
\* One id per user action, the dedupe record, the incarnation check and the
\* retry horizon together (input_replay.rs and acknowledged.rs).
Contract == INSTANCE AckContract WITH verdict <- verdict, written <- written, late <- late
KeepsContract == Contract!CSpec

\* The frames of operation o that a server took.
Attempted(o) == {x \in Ids : attempts[x].op = o}

(* A paste that was refused and never resent is nowhere in its pane, and     *)
(* cannot get there any more.                                                *)
\* resolve's Refused arm against the first attempt's verdict.
RefusedAtOnceMeansNothingWritten ==
    \A o \in Operations :
        verdict[o] = "Refused" /\ Cardinality(Attempted(o)) =< 1 /\ (\A f \in wire : f.op # o)
            => \A x \in Attempted(o) : ~Handed(x)

(* Pastes reported Delivered are in their pane in the order they were made,  *)
(* however often the connection changed under them; only one whose horizon   *)
(* passed with a frame under way can turn up again behind a newer one.       *)
\* At most one operation in flight, and begin_connection's sweep keeps order.
DeliveredInOrder ==
    \A r \in Resources : \A i, j \in 1..Len(pty[r]) :
        LET x == attempts[pty[r][i].id].op
            y == attempts[pty[r][j].id].op
        IN  i < j /\ verdict[x] = "Delivered" /\ verdict[y] = "Delivered" /\ y \notin late => x =< y

(* The journal's reading of Refused: nothing was written, whatever happened  *)
(* before.                                                                   *)
\* ReplayDisposition::Refused, "retyping the input is safe".
RefusedMeansNothingWritten ==
    \A o \in Operations : verdict[o] = "Refused" => \A x \in Attempted(o) : ~Handed(x)

(* The horizon keeps resends inside the server's memory of the operation, so *)
(* nothing is written twice.                                                 *)
\* INPUT_RETRY_HORIZON's doc comment.
WrittenAtMostOnce == \A o \in Operations : AtMostOne(Landings(o))

(* What the code does keep: nothing is written twice unless the horizon of   *)
(* its operation passed while a frame of it was under way.                   *)
\* next_frame's check at the send, prune_expired's at the receipt.
OnlyLateIsWrittenTwice == \A o \in Operations \ late : AtMostOne(Landings(o))

(* The attach exits by DETACHED only with an empty journal.                  *)
\* attach_with_reconnect: the comment on the final drain.
ExitsWithEmptyJournal == attach = "Detached" => queue = << >>

(* Every paste the journal takes is reported to its user, one way or         *)
(* another, unless the attach ends by DETACHED, which reports nothing: the   *)
(* reply, the bounded reconnect and the give-up's drain each see to it.      *)
\* One operation in flight, the server's deadline, drain_unresolved.
EveryPasteIsReported ==
    \A o \in Operations : verdict[o] = "Queued" ~> verdict[o] # "Queued" \/ attach = "Detached"
=============================================================================
