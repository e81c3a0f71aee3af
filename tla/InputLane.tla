------------------------------ MODULE InputLane ------------------------------
(* The server's input pipeline, from the client task that takes a frame off  *)
(* the wire to the bytes in the PTY.                                         *)
(*                                                                           *)
(*   client task -> lane queue -> lane thread -> pane mailbox -> pane actor  *)
(*               -> writer queue -> PTY writer thread -> PTY                 *)
(*                                                                           *)
(* and, for an acknowledged batch (APPLY_INPUT), the way back: a completion  *)
(* sink travels with the bytes, every verdict goes through the queue of the  *)
(* completion-waiter thread, and the waiter answers the client task.         *)
(*                                                                           *)
(* Source: crates/phux-server/src/runtime/input_lane/{mod,acknowledged}.rs   *)
(* and crates/phux-server/src/resource/terminal/{io,requests,run_loop,       *)
(* spawn}.rs.  Client tasks and pane actors share the main thread, the lane, *)
(* the waiter and one writer per pane are OS threads: a step below is what   *)
(* one of them does under one lock or with one channel operation.            *)
EXTENDS OperationCache, InputAuthority

CONSTANTS
    Kinds,              \* the wire surfaces in use: subset of InputKinds
    Payloads,           \* event batches
    Malformed,          \* payloads refused before the dedupe record is bound
    Unencodable,        \* payloads refused when they are encoded for the pane
    NoOp,               \* the operation id and payload of unacknowledged input
    LaneCapacity,       \* INPUT_LANE_CAPACITY
    MailboxCapacity,    \* DEFAULT_INPUT_MAILBOX, the pane actor's queue
    WriterCapacity,     \* DEFAULT_INPUT_MAILBOX, the writer thread's queue
    MaxAttempts,        \* bound: frames a run may take off the wire
    MaxTime             \* bound: last instant of the clock

InputKinds == {"Attached", "Headless", "Apply"}
Modes == {"Cooperative", "Seize"}

ASSUME LaneAssumption ==
    /\ Kinds \subseteq InputKinds
    /\ Digests = Resources \X Payloads
    /\ Malformed \subseteq Payloads /\ Unencodable \subseteq Payloads
    /\ NoOp \notin Operations /\ NoOp \notin Payloads
    /\ LaneCapacity \in Nat \ {0} /\ MailboxCapacity \in Nat \ {0} /\ WriterCapacity \in Nat \ {0}
    /\ MaxAttempts \in Nat /\ MaxTime \in Nat

VARIABLES
    now,            \* the monotonic clock
    attempts,       \* every frame taken off the wire, in order; index = its id
    admission,      \* AcknowledgedAdmission: resources with an unresolved batch
    lane,           \* the lane's inbound queue, of attempt ids
    lanePc,         \* what the lane thread does next with `item`
    item,           \* the attempt it holds, 0 when none
    ticket,         \* TicketSource
    waitq,          \* the completion waiter's queue
    pending,        \* PendingSet: registered batches awaiting a verdict
    closing,        \* batches the waiter took out of `pending` to answer
    mailbox,        \* resource -> encoded requests queued at its actor
    writerq,        \* resource -> requests queued at its PTY writer thread
    actor,          \* resource -> its actor's life cycle
    writer,         \* resource -> its writer thread
    pty             \* resource -> requests whose bytes reached the PTY

laneVars == <<lane, lanePc, item, ticket>>
waiterVars == <<waitq, pending, closing>>
paneVars == <<mailbox, writerq, actor, writer, pty>>
vars == <<now, attempts, admission, laneVars, waiterVars, paneVars, cacheVars, authorityVars>>

Ids == 1..Len(attempts)
Codes == FinalResults \cup
         {"ResourceExhausted", "InvalidCommand", "UnsafePaste", "TerminalNotFound",
          "InputLeaseHeld", "WrongResourceKind", "InternalError"}
WriteOutcomes == {"Delivered", "Failed", "CanonicalLimitExceeded", "NotWritten"}

Attempt ==
    [kind : InputKinds, client : Clients, to : Resources,
     op : Operations \cup {NoOp}, payload : Payloads \cup {NoOp},
     admitted : Nat,            \* AcknowledgedReservation::admitted_at
     bound : Int,               \* insertion instant of its dedupe record, -1 before
     result : Codes \cup {"Waiting", "Sent"}]

\* A request carries its completion sink as the ticket it reports under; 0 is
\* the fire-and-forget request that carries none.
Request == [id : Nat, ticket : Nat]

WaiterMessage ==
    [type : {"Registered"}, ticket : Nat, id : Nat]
    \cup [type : {"Completed"}, ticket : Nat, outcome : WriteOutcomes]
    \cup [type : {"Abandoned"}, ticket : Nat, result : Codes]

Closing == [id : Nat, how : {"Finalize", "Recorded", "Resolve"}, result : Codes]

TypeOK ==
    /\ now \in Nat
    /\ attempts \in Seq(Attempt)
    /\ admission \subseteq Resources
    /\ lane \in Seq(Nat)
    /\ lanePc \in {"Recv", "Register", "Handoff"}
    /\ item \in Nat
    /\ ticket \in Nat
    /\ waitq \in Seq(WaiterMessage)
    /\ pending \subseteq Request
    /\ closing \subseteq Closing
    /\ mailbox \in [Resources -> Seq(Request)]
    /\ writerq \in [Resources -> Seq(Request)]
    /\ actor \in [Resources -> {"Running", "Stopping", "Gone"}]
    /\ writer \in [Resources -> {"Running", "Stopped"}]
    /\ pty \in [Resources -> Seq([id : Nat, whole : BOOLEAN])]
    /\ CacheTypeOK
    /\ AuthorityTypeOK

Init ==
    /\ now = 0
    /\ attempts = << >>
    /\ admission = {}
    /\ lane = << >> /\ lanePc = "Recv" /\ item = 0 /\ ticket = 0
    /\ waitq = << >> /\ pending = {} /\ closing = {}
    /\ mailbox = [r \in Resources |-> << >>]
    /\ writerq = [r \in Resources |-> << >>]
    /\ actor = [r \in Resources |-> "Running"]
    /\ writer = [r \in Resources |-> "Running"]
    /\ pty = [r \in Resources |-> << >>]
    /\ CacheInit
    /\ AuthorityInit

Tick ==
    /\ now < MaxTime
    /\ now' = now + 1
    /\ UNCHANGED <<attempts, admission, laneVars, waiterVars, paneVars, cacheVars, authorityVars>>

-----------------------------------------------------------------------------
(* Client tasks.                                                             *)

Arrives(kind, c, r, o, d, result) ==
    /\ kind \in Kinds
    /\ Len(attempts) < MaxAttempts
    /\ attempts' = Append(attempts,
           [kind |-> kind, client |-> c, to |-> r, op |-> o, payload |-> d,
            admitted |-> now, bound |-> -1, result |-> result])

NewId == Len(attempts) + 1
LaneFull == Len(lane) >= LaneCapacity

\* InputLaneHandle::route: a full lane drops the event.
RouteAttached(c, r) ==
    /\ Arrives("Attached", c, r, NoOp, NoOp, "Sent")
    /\ lane' = IF LaneFull THEN lane ELSE Append(lane, NewId)
    /\ UNCHANGED <<now, admission, lanePc, item, ticket, waiterVars, paneVars, cacheVars, authorityVars>>

\* Mutant of RouteCommand: a command overtakes the events queued before it.
RouteCommandOvertakes(c, r) ==
    /\ ~LaneFull
    /\ Arrives("Headless", c, r, NoOp, NoOp, "Waiting")
    /\ lane' = <<NewId>> \o lane
    /\ UNCHANGED <<now, admission, lanePc, item, ticket, waiterVars, paneVars, cacheVars, authorityVars>>

\* InputLaneHandle::route_command waits for room in the lane.
RouteCommand(c, r) ==
    /\ ~LaneFull
    /\ Arrives("Headless", c, r, NoOp, NoOp, "Waiting")
    /\ lane' = Append(lane, NewId)
    /\ UNCHANGED <<now, admission, lanePc, item, ticket, waiterVars, paneVars, cacheVars, authorityVars>>

\* Mutant of ApplyInput: a batch the full lane refused keeps its reservation.
ApplyInputLeaks(c, r, o, d) ==
    LET admitted == r \notin admission /\ ~LaneFull
    IN  /\ Arrives("Apply", c, r, o, d, IF admitted THEN "Waiting" ELSE "ResourceExhausted")
        /\ admission' = admission \cup {r}
        /\ lane' = IF admitted THEN Append(lane, NewId) ELSE lane
        /\ UNCHANGED <<now, lanePc, item, ticket, waiterVars, paneVars, cacheVars, authorityVars>>

\* InputLaneHandle::apply_input: reserve the Terminal, then try the lane.  A
\* full lane drops the reservation again on the way out.
ApplyInput(c, r, o, d) ==
    LET admitted == r \notin admission /\ ~LaneFull
    IN  /\ Arrives("Apply", c, r, o, d, IF admitted THEN "Waiting" ELSE "ResourceExhausted")
        /\ admission' = IF admitted THEN admission \cup {r} ELSE admission
        /\ lane' = IF admitted THEN Append(lane, NewId) ELSE lane
        /\ UNCHANGED <<now, lanePc, item, ticket, waiterVars, paneVars, cacheVars, authorityVars>>

-----------------------------------------------------------------------------
(* The lane thread.                                                          *)

\* What the lane thread sends on a command's reply channel.
Answer(id, code) == attempts' = [attempts EXCEPT ![id].result = code]

\* Mutant of Refuse: the answer goes out and the reservation stays.
RefuseKeepsSlot(id, code) ==
    /\ attempts' = [attempts EXCEPT ![id].result = code]
    /\ UNCHANGED admission

\* Answer an acknowledged batch that is not registered with the waiter: the
\* reservation goes, the dedupe record keeps its binding and gets no result.
Refuse(id, code) ==
    /\ attempts' = [attempts EXCEPT ![id].result = code]
    /\ admission' = admission \ {attempts[id].to}

\* operation_digest: the id is bound to the target and the events together.
OperationDigest(a) == <<a.to, a.payload>>

\* prepare_acknowledged_batch up to the dedupe record.
LaneBind ==
    /\ lanePc = "Recv" /\ lane # << >>
    /\ LET id == Head(lane)
           a == attempts[id]
       IN  /\ a.kind = "Apply"
           /\ lane' = Tail(lane)
           /\ ticket' = ticket + 1
           /\ \/ /\ a.payload \in Malformed
                 /\ Refuse(id, "InvalidCommand")
                 /\ UNCHANGED <<lanePc, item, cacheVars>>
              \/ /\ a.payload \notin Malformed
                 /\ \E binding \in {"New", "Pending", "Final", "Conflict", "Full"} :
                      /\ BindAt(a.op, OperationDigest(a), a.admitted, binding)
                      /\ \/ /\ binding \in {"New", "Pending"}
                            /\ attempts' = [attempts EXCEPT ![id].bound = entries'[a.op].inserted]
                            /\ lanePc' = "Register" /\ item' = id
                            /\ UNCHANGED admission
                         \/ /\ binding = "Final"
                            /\ Refuse(id, entries'[a.op].result)
                            /\ UNCHANGED <<lanePc, item>>
                         \/ /\ binding = "Conflict"
                            /\ Refuse(id, "InvalidCommand")
                            /\ UNCHANGED <<lanePc, item>>
                         \/ /\ binding = "Full"
                            /\ Refuse(id, "ResourceExhausted")
                            /\ UNCHANGED <<lanePc, item>>
    /\ UNCHANGED <<now, waiterVars, paneVars, authorityVars>>

\* The rest of prepare_acknowledged_batch (authority, encoding), then
\* CompletionWaiterHandle::register: from here the waiter owns the answer.
LaneRegister ==
    /\ lanePc = "Register"
    /\ LET a == attempts[item]
           gate == RouteGate(a.client, a.to)
       IN  \/ /\ gate # "Pass"
              /\ Refuse(item, gate)
              /\ lanePc' = "Recv" /\ item' = 0
              /\ UNCHANGED waitq
           \/ /\ gate = "Pass" /\ a.payload \in Unencodable
              /\ Refuse(item, "UnsafePaste")
              /\ lanePc' = "Recv" /\ item' = 0
              /\ UNCHANGED waitq
           \/ /\ gate = "Pass" /\ a.payload \notin Unencodable
              /\ waitq' = Append(waitq, [type |-> "Registered", ticket |-> ticket, id |-> item])
              /\ lanePc' = "Handoff"
              /\ UNCHANGED <<item, attempts, admission>>
    /\ UNCHANGED <<now, lane, ticket, pending, closing, paneVars, cacheVars, authorityVars>>

Abandoned(code) == [type |-> "Abandoned", ticket |-> ticket, result |-> code]
Completed(k, outcome) == [type |-> "Completed", ticket |-> k, outcome |-> outcome]

\* A mailbox is refused with the batch still in hand: the ticket is abandoned
\* before the request is dropped, because the drop reports Failed.
RefusedHandoff(code) == <<Abandoned(code), Completed(ticket, "Failed"), Abandoned(code)>>

MailboxFull(r) == Len(mailbox[r]) >= MailboxCapacity

\* Mutant of LaneHandoff: the lease is not looked at again.
LaneHandoffUngated ==
    /\ lanePc = "Handoff"
    /\ attempts[item].kind = "Apply"
    /\ LET r == attempts[item].to
       IN  IF actor[r] # "Gone" /\ ~MailboxFull(r)
           THEN /\ mailbox' = [mailbox EXCEPT ![r] = Append(@, [id |-> item, ticket |-> ticket])]
                /\ UNCHANGED waitq
           ELSE /\ waitq' = waitq \o RefusedHandoff("ResourceExhausted")
                /\ UNCHANGED mailbox
    /\ lanePc' = "Recv" /\ item' = 0
    /\ UNCHANGED <<now, attempts, admission, lane, ticket, pending, closing,
                   writerq, actor, writer, pty, cacheVars, authorityVars>>

\* process_apply_input's handoff: the gate again, and the try_send, under the
\* one state lock.
LaneHandoff ==
    /\ lanePc = "Handoff"
    /\ attempts[item].kind = "Apply"
    /\ LET r == attempts[item].to
           gate == RouteGate(attempts[item].client, r)
       IN  \/ /\ gate # "Pass"
              /\ waitq' = Append(waitq, Abandoned(gate))
              /\ UNCHANGED mailbox
           \/ /\ gate = "Pass" /\ actor[r] = "Gone"
              /\ waitq' = waitq \o RefusedHandoff("InputNotWritten")
              /\ UNCHANGED mailbox
           \/ /\ gate = "Pass" /\ actor[r] # "Gone" /\ MailboxFull(r)
              /\ waitq' = waitq \o RefusedHandoff("ResourceExhausted")
              /\ UNCHANGED mailbox
           \/ /\ gate = "Pass" /\ actor[r] # "Gone" /\ ~MailboxFull(r)
              /\ mailbox' = [mailbox EXCEPT ![r] = Append(@, [id |-> item, ticket |-> ticket])]
              /\ UNCHANGED waitq
    /\ lanePc' = "Recv" /\ item' = 0
    /\ UNCHANGED <<now, attempts, admission, lane, ticket, pending, closing,
                   writerq, actor, writer, pty, cacheVars, authorityVars>>

\* Mutant of UnackedGate: ROUTE_INPUT goes through the attached gate.
UnackedGateAttached(a) == AttachedGate(a.client, a.to)

UnackedGate(a) == IF a.kind = "Attached" THEN AttachedGate(a.client, a.to)
                                         ELSE RouteGate(a.client, a.to)

\* An unacknowledged event's answer: only ROUTE_INPUT has one.
AnswerUnacked(id, code) ==
    IF attempts[id].kind = "Headless" THEN Answer(id, code) ELSE UNCHANGED attempts

\* process_attached / process_headless up to the encoding, which runs off-lock.
\* terminal_input_from_event takes all four kinds of event there are, its error
\* arm waits for a kind a later protocol adds.
LaneGate ==
    /\ lanePc = "Recv" /\ lane # << >>
    /\ LET id == Head(lane)
           gate == UnackedGate(attempts[id])
       IN  /\ attempts[id].kind # "Apply"
           /\ lane' = Tail(lane)
           /\ \/ /\ gate = "Pass"
                 /\ lanePc' = "Handoff" /\ item' = id
                 /\ UNCHANGED attempts
              \/ /\ gate # "Pass"
                 /\ AnswerUnacked(id, gate)
                 /\ UNCHANGED <<lanePc, item>>
    /\ UNCHANGED <<now, admission, ticket, waiterVars, paneVars, cacheVars, authorityVars>>

\* handoff_encoded: a full mailbox drops the event and still answers Ok.
LaneHandoffUnacked ==
    /\ lanePc = "Handoff"
    /\ attempts[item].kind # "Apply"
    /\ LET r == attempts[item].to
           gate == UnackedGate(attempts[item])
       IN  \/ /\ gate # "Pass"
              /\ AnswerUnacked(item, gate)
              /\ UNCHANGED mailbox
           \/ /\ gate = "Pass"             \* the event encoded to no bytes
              /\ AnswerUnacked(item, "Ok")
              /\ UNCHANGED mailbox
           \/ /\ gate = "Pass" /\ actor[r] = "Gone"
              /\ AnswerUnacked(item, "InternalError")
              /\ UNCHANGED mailbox
           \/ /\ gate = "Pass" /\ actor[r] # "Gone"
              /\ AnswerUnacked(item, "Ok")
              /\ mailbox' = IF MailboxFull(r) THEN mailbox
                            ELSE [mailbox EXCEPT ![r] = Append(@, [id |-> item, ticket |-> 0])]
    /\ lanePc' = "Recv" /\ item' = 0
    /\ UNCHANGED <<now, admission, lane, ticket, waiterVars,
                   writerq, actor, writer, pty, cacheVars, authorityVars>>

-----------------------------------------------------------------------------
(* The completion waiter.  Deadlines follow ticket order (one thread mints   *)
(* both), and the five-second wait is far below the clock's unit, so "past   *)
(* its deadline" is a choice: every ticket up to some k may have expired     *)
(* whenever the waiter looks.                                                *)

Expired(k) == {p \in pending : p.ticket =< k}

\* Mutant of TimedOut: a batch past its deadline is reported as not written.
TimedOutAsRefusal(k) ==
    {[id |-> p.id, how |-> "Finalize", result |-> "InputNotWritten"] : p \in Expired(k)}

\* finalize(delivery_unknown()) for whatever take_expired returned.
TimedOut(k) == {[id |-> p.id, how |-> "Finalize", result |-> "InputDeliveryUnknown"] : p \in Expired(k)}

\* Mutant of CompletionResult: a failed write is reported as no write.
CompletionResultOptimist(outcome) ==
    CASE outcome = "Delivered" -> "Ok"
      [] outcome = "CanonicalLimitExceeded" -> "CanonicalLimitExceeded"
      [] outcome \in {"Failed", "NotWritten"} -> "InputNotWritten"

CompletionResult(outcome) ==
    CASE outcome = "Delivered" -> "Ok"
      [] outcome = "CanonicalLimitExceeded" -> "CanonicalLimitExceeded"
      [] outcome = "Failed" -> "InputDeliveryUnknown"
      [] outcome = "NotWritten" -> "InputNotWritten"

\* What a message does to the batch it names, if that batch is still pending.
Verdict(m, p) ==
    IF m.type = "Completed"
    THEN [id |-> p.id, how |-> "Finalize", result |-> CompletionResult(m.outcome)]
    ELSE [id |-> p.id, how |-> "Resolve", result |-> m.result]

\* Mutant of WaiterReceive: a completion is not matched by its ticket.
WaiterReceiveUnmatched ==
    /\ closing = {} /\ waitq # << >>
    /\ waitq' = Tail(waitq)
    /\ LET m == Head(waitq)
       IN  \/ /\ m.type = "Registered"
              /\ pending' = pending \cup {[id |-> m.id, ticket |-> m.ticket]}
              /\ closing' = {}
           \/ /\ m.type \in {"Completed", "Abandoned"}
              /\ pending' = {}
              /\ closing' = {Verdict(m, p) : p \in pending}
    /\ UNCHANGED <<now, attempts, admission, laneVars, paneVars, cacheVars, authorityVars>>

\* run_waiter on a message: expired batches are taken out first, then the
\* message is applied.  A ticket nobody waits for is discarded.
WaiterReceive ==
    /\ closing = {} /\ waitq # << >>
    /\ waitq' = Tail(waitq)
    /\ \E k \in {0} \cup {p.ticket : p \in pending} :
         LET m == Head(waitq)
             kept == pending \ Expired(k)
             named == {p \in kept : p.ticket = m.ticket}
         IN  \/ /\ m.type = "Registered"
                /\ pending' = kept \cup {[id |-> m.id, ticket |-> m.ticket]}
                /\ closing' = TimedOut(k)
             \/ /\ m.type \in {"Completed", "Abandoned"}
                /\ pending' = kept \ named
                /\ closing' = TimedOut(k) \cup {Verdict(m, p) : p \in named}
    /\ UNCHANGED <<now, attempts, admission, laneVars, paneVars, cacheVars, authorityVars>>

\* Mutant of WaiterTimeout: the waiter wakes and takes nothing out.
WaiterTimeoutIdle ==
    /\ closing = {} /\ waitq = << >> /\ pending # {}
    /\ UNCHANGED vars

\* run_waiter on recv_timeout's Timeout.
WaiterTimeout ==
    /\ closing = {} /\ waitq = << >>
    /\ \E p \in pending :
         /\ pending' = pending \ Expired(p.ticket)
         /\ closing' = TimedOut(p.ticket)
    /\ UNCHANGED <<now, attempts, admission, laneVars, waitq, paneVars, cacheVars, authorityVars>>

\* PendingCompletion::finalize, first half: the result enters the dedupe record.
RecordFinal ==
    \E f \in closing :
        /\ f.how = "Finalize"
        /\ SetFinal(attempts[f.id].op, f.result)
        /\ closing' = (closing \ {f}) \cup {[f EXCEPT !.how = "Recorded"]}
        /\ UNCHANGED <<now, attempts, admission, laneVars, waitq, pending, paneVars, authorityVars>>

\* Mutant of ReleaseAndReply: the slot is freed and the client answered before
\* the result is in the dedupe record.
ReleaseBeforeRecord ==
    \E f \in closing :
        /\ \/ /\ f.how = "Finalize" /\ attempts[f.id].result = "Waiting"
              /\ Refuse(f.id, f.result)
              /\ UNCHANGED closing
           \/ /\ f.how = "Recorded"
              /\ closing' = closing \ {f}
              /\ UNCHANGED <<attempts, admission>>
           \/ /\ f.how = "Resolve"
              /\ Refuse(f.id, f.result)
              /\ closing' = closing \ {f}
        /\ UNCHANGED <<now, laneVars, waitq, pending, paneVars, cacheVars, authorityVars>>

\* PendingCompletion::finalize, second half, and resolve_without_writer: the
\* reservation is dropped and the client task answered.  A frame that takes the
\* slot between the two cannot tell: only the client reads the answer, and the
\* one thread that runs both lines does nothing else meanwhile.
ReleaseAndReply ==
    \E f \in closing :
        /\ f.how \in {"Recorded", "Resolve"}
        /\ Refuse(f.id, f.result)
        /\ closing' = closing \ {f}
        /\ UNCHANGED <<now, laneVars, waitq, pending, paneVars, cacheVars, authorityVars>>

-----------------------------------------------------------------------------
(* Pane actors and PTY writer threads.                                       *)

\* WriteCompletionSink: a request that carries one reports under its ticket.
Report(x, outcome) ==
    waitq' = IF x.ticket = 0 THEN waitq ELSE Append(waitq, Completed(x.ticket, outcome))

\* service_encoded_input: hand the request to the writer, or report that no
\* writer will ever see it.
ServiceEncodedInput(r) ==
    /\ actor[r] = "Running" /\ mailbox[r] # << >>
    /\ mailbox' = [mailbox EXCEPT ![r] = Tail(@)]
    /\ IF writer[r] = "Running" /\ Len(writerq[r]) < WriterCapacity
       THEN /\ writerq' = [writerq EXCEPT ![r] = Append(@, Head(mailbox[r]))]
            /\ UNCHANGED waitq
       ELSE /\ Report(Head(mailbox[r]), "NotWritten")
            /\ UNCHANGED writerq
    /\ UNCHANGED <<now, attempts, admission, laneVars, pending, closing, actor, writer, pty,
                   cacheVars, authorityVars>>

\* The actor's token is cancelled (a kill, the reap below, the server going
\* down): it leaves its loop and tears the PTY down.  Its mailbox is still open
\* and nobody reads it any more.
ActorStops(r) ==
    /\ actor[r] = "Running"
    /\ actor' = [actor EXCEPT ![r] = "Stopping"]
    /\ UNCHANGED <<now, attempts, admission, laneVars, waiterVars, mailbox, writerq, writer, pty,
                   cacheVars, authorityVars>>

\* `run` returns: the mailbox is closed, then dropped request by request.
ActorExits(r) ==
    /\ actor[r] = "Stopping"
    /\ actor' = [actor EXCEPT ![r] = "Gone"]
    /\ UNCHANGED <<now, attempts, admission, laneVars, waiterVars, mailbox, writerq, writer, pty,
                   cacheVars, authorityVars>>

MailboxDrop(r) ==
    /\ actor[r] = "Gone" /\ mailbox[r] # << >>
    /\ mailbox' = [mailbox EXCEPT ![r] = Tail(@)]
    /\ Report(Head(mailbox[r]), "Failed")
    /\ UNCHANGED <<now, attempts, admission, laneVars, pending, closing, writerq, actor, writer, pty,
                   cacheVars, authorityVars>>

\* spawn_terminal_exit_watcher: the resource goes at the PTY's end of file, with
\* the actor alive and serving its mailbox until the token forget_resource
\* cancels reaches it, or after a killed actor dropped its exit notification.
ReapResource(r) ==
    /\ Reap(r)
    /\ UNCHANGED <<now, attempts, admission, laneVars, waiterVars, paneVars, cacheVars>>

Lands(r, whole) == pty' = [pty EXCEPT ![r] = Append(@, [id |-> Head(writerq[r]).id, whole |-> whole])]

\* service_write_request, write and flush succeeded.
WriteDelivers(r) ==
    /\ writer[r] = "Running" /\ writerq[r] # << >>
    /\ Lands(r, TRUE)
    /\ writerq' = [writerq EXCEPT ![r] = Tail(@)]
    /\ Report(Head(writerq[r]), "Delivered")
    /\ UNCHANGED <<now, attempts, admission, laneVars, pending, closing, mailbox, actor, writer,
                   cacheVars, authorityVars>>

\* service_write_request, canonical_refusal: nothing is written, the writer
\* goes on.
WriteRefused(r) ==
    /\ writer[r] = "Running" /\ writerq[r] # << >>
    /\ writerq' = [writerq EXCEPT ![r] = Tail(@)]
    /\ Report(Head(writerq[r]), "CanonicalLimitExceeded")
    /\ UNCHANGED <<now, attempts, admission, laneVars, pending, closing, mailbox, actor, writer, pty,
                   cacheVars, authorityVars>>

\* service_write_request, PaneGone or Fatal: a prefix may have landed, and the
\* writer thread ends.
WriteFails(r) ==
    /\ writer[r] = "Running" /\ writerq[r] # << >>
    /\ \/ Lands(r, FALSE)
       \/ UNCHANGED pty
    /\ writer' = [writer EXCEPT ![r] = "Stopped"]
    /\ writerq' = [writerq EXCEPT ![r] = Tail(@)]
    /\ Report(Head(writerq[r]), "Failed")
    /\ UNCHANGED <<now, attempts, admission, laneVars, pending, closing, mailbox, actor,
                   cacheVars, authorityVars>>

\* The requests still queued are dropped with the writer's receiver.
WriterQueueDrop(r) ==
    /\ writer[r] = "Stopped" /\ writerq[r] # << >>
    /\ writerq' = [writerq EXCEPT ![r] = Tail(@)]
    /\ Report(Head(writerq[r]), "Failed")
    /\ UNCHANGED <<now, attempts, admission, laneVars, pending, closing, mailbox, actor, writer, pty,
                   cacheVars, authorityVars>>

-----------------------------------------------------------------------------
\* What moves an input once it is off the wire.
LaneStep == LaneBind \/ LaneRegister \/ LaneHandoff \/ LaneGate \/ LaneHandoffUnacked
WaiterStep == WaiterReceive \/ WaiterTimeout \/ RecordFinal \/ ReleaseAndReply
PaneStep(r) ==
    \/ ServiceEncodedInput(r)
    \/ ActorStops(r) \/ ActorExits(r) \/ MailboxDrop(r) \/ ReapResource(r)
    \/ WriteDelivers(r) \/ WriteRefused(r) \/ WriteFails(r) \/ WriterQueueDrop(r)

ClientStep(c, r) ==
    \/ RouteAttached(c, r)
    \/ RouteCommand(c, r)
    \/ \E o \in Operations, d \in Payloads : ApplyInput(c, r, o, d)

AuthorityStep(c) ==
    /\ \/ \E r \in Resources : Subscribe(c, r) \/ Unsubscribe(c, r) \/ ReleaseInput(c, r)
       \/ \E r \in Resources, mode \in Modes : AcquireInput(c, r, mode)
       \/ Detach(c)
    /\ UNCHANGED <<now, attempts, admission, laneVars, waiterVars, paneVars, cacheVars>>

Next ==
    \/ Tick
    \/ \E c \in Clients, r \in Resources : ClientStep(c, r)
    \/ LaneStep
    \/ WaiterStep
    \/ \E r \in Resources : PaneStep(r)
    \/ \E c \in Clients : AuthorityStep(c)

Spec == Init /\ [][Next]_vars

\* Every thread of the pipeline keeps running: the lane parks only on an empty
\* queue, the waiter only until the next deadline.  No pane, writer or client
\* is assumed to make progress.
FairSpec == Spec /\ WF_vars(LaneStep) /\ WF_vars(WaiterStep)

-----------------------------------------------------------------------------
(* Properties.                                                               *)

IsApply(id) == attempts[id].kind = "Apply"
Waiting(id) == id \in Ids /\ attempts[id].result = "Waiting"

\* The requests that were handed to a pane and may still reach its PTY.
Underway(id) ==
    \E r \in Resources :
        \/ \E i \in 1..Len(mailbox[r]) : mailbox[r][i].id = id
        \/ \E i \in 1..Len(writerq[r]) : writerq[r][i].id = id

Landed(id) == \E r \in Resources : \E i \in 1..Len(pty[r]) : pty[r][i].id = id

Handed(id) == Underway(id) \/ Landed(id)

(* APPLY_INPUT is idempotent: two batches handed to a pane under one         *)
(* operation id were taken at least a full retention apart, the later one    *)
(* counted from the instant the earlier one's record was made.               *)
\* OperationCache::bind_at, AcknowledgedReservation, PendingCompletion::finalize.
HandedOncePerRetention ==
    \A x \in Ids, y \in Ids :
        /\ x < y
        /\ IsApply(x) /\ IsApply(y) /\ attempts[x].op = attempts[y].op
        /\ Handed(x) /\ Handed(y)
        => attempts[y].admitted >= attempts[x].bound + Retention

(* A batch on the lane thread that passed the dedupe record has no copy      *)
(* handed to a pane under the same record: `Pending` is never read while a   *)
(* write is in flight.                                                       *)
\* prepare_acknowledged_batch's claim about CacheBinding::Pending.
PendingMeansNotHanded ==
    lanePc \in {"Register", "Handoff"} /\ IsApply(item) =>
        \A x \in Ids :
            (IsApply(x) /\ attempts[x].op = attempts[item].op /\ attempts[x].bound = attempts[item].bound)
                => ~Handed(x)

(* OK means the batch, with this payload, is in the PTY in full.             *)
\* completion_result, and the ticket match in run_waiter.
OkMeansWritten ==
    \A x \in Ids : IsApply(x) /\ attempts[x].result = "Ok" =>
        \E i \in 1..Len(pty[attempts[x].to]) :
            LET w == pty[attempts[x].to][i]
            IN  w.whole /\ attempts[w.id].op = attempts[x].op /\ attempts[w.id].payload = attempts[x].payload

(* A Terminal's acknowledged slot is taken exactly while one batch for it is *)
(* unanswered: two never overlap, and a slot never outlives its batch.       *)
\* AcknowledgedReservation's try_acquire and Drop.
SlotHeldWhileUnanswered ==
    /\ admission = {attempts[x].to : x \in {y \in Ids : IsApply(y) /\ Waiting(y)}}
    /\ \A x, y \in Ids : IsApply(x) /\ IsApply(y) /\ Waiting(x) /\ Waiting(y)
                            /\ attempts[x].to = attempts[y].to => x = y

(* A client's events reach a pane in the order it sent them, whichever of    *)
(* INPUT_*, ROUTE_INPUT and APPLY_INPUT carried them.                        *)
\* The single lane queue (RoutedInput) and the FIFO queues below it.
WireOrder ==
    \A r \in Resources : \A i, j \in 1..Len(pty[r]) :
        i < j /\ attempts[pty[r][i].id].client = attempts[pty[r][j].id].client
            => pty[r][i].id < pty[r][j].id

(* INPUT_NOT_WRITTEN, INPUT_LEASE_HELD and the other refusals are proofs: an *)
(* attempt is told "nothing was written" only when no copy handed out under  *)
(* its dedupe record has reached the pane or still can.                      *)
\* acknowledged_not_written, WriteCompletion::NotWritten, canonical_refusal.
RefusalIsProof ==
    [][ \A x \in Ids :
          (IsApply(x) /\ Waiting(x) /\ attempts[x].bound # -1
             /\ attempts'[x].result \notin {"Waiting", "Ok", "InputDeliveryUnknown"}) =>
               \A y \in Ids : (attempts[y].op = attempts[x].op /\ attempts[y].bound = attempts[x].bound)
                                => ~Handed(y)' ]_vars

(* Nothing enters a pane's mailbox while another client holds its input      *)
(* lease, however late the lease changed hands.                              *)
\* The second gate, under the lock of the try_send.
LeaseExcludes ==
    [][ \A r \in Resources : Len(mailbox'[r]) > Len(mailbox[r]) =>
          holder[r] \in {NoOne, attempts[mailbox'[r][Len(mailbox'[r])].id].client} ]_vars

(* Every correlated input is answered, even when its pane never services it. *)
\* Registration before handoff, and the waiter's deadline.
EveryInputIsAnswered == \A x \in 1..MaxAttempts : Waiting(x) ~> ~Waiting(x)

(* The published reading of INPUT_DELIVERY_UNKNOWN: it is given only once a  *)
(* writer thread has taken the job.                                          *)
\* docs/spec/L1.md section 6.2.1; the deadline in run_waiter does not ask.
UnknownOnlyAfterWriterTookJob ==
    \A r \in Resources : \A i \in 1..Len(mailbox[r]) :
        attempts[mailbox[r][i].id].result # "InputDeliveryUnknown"
=============================================================================
