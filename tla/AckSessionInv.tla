---------------------------- MODULE AckSessionInv ----------------------------
(* The inductive strengthening of what acknowledged input promises from end  *)
(* to end: what the journal knows of an operation, what the frames and the   *)
(* attempts of that operation have in common, and which reply belongs to     *)
(* which operation.  State predicates only; the server's half is that of     *)
(* InputLaneInv and InputHandedInv.                                          *)
(*                                                                           *)
(* The journal's half is stated of a queue q, a link, a request counter rid, *)
(* reports v, frames, calls cs and d dialled connections, because next_frame *)
(* starts from values that its caller has changed already.                   *)
EXTENDS AckSession, InputHandedInv

\* A frame of the operation is on its way, or a server took one.
OpSent(o, frames) == (\E f \in frames : f.op = o) \/ (\E x \in Ids : OpOf(x) = o)

\* Unresolved operations are in the order they were made, and nobody has been
\* told anything about them.
QueueOK(q, v) ==
    /\ \A i \in 1..Len(q) : v[q[i].op] = "Queued" /\ q[i].created =< now
    /\ \A i, j \in 1..Len(q) : i < j => q[i].op < q[j].op

\* Operations are made in order.
MintOK(v) == \A o, p \in Operations : o < p /\ v[o] = "New" => v[p] = "New"

\* One operation at a time: what was ever sent is no newer than what is queued.
FrontOK(q, v, frames) ==
    \A o \in Operations : OpSent(o, frames) =>
        v[o] # "New" /\ \A i \in 1..Len(q) : o =< q[i].op

\* A reply that carries the live attempt's request id answers the operation at
\* the front.
LinkOK(q, link, rid, frames, cs, d) ==
    /\ rid # NoRequest
    /\ \A f \in frames : f.conn =< d /\ f.rid # NoRequest
    /\ link = NoLink => cs = {}
    /\ link # NoLink =>
        /\ link.conn =< d /\ link.server \in 1..incarnation
        /\ \A i \in 1..Len(q) : q[i].server \in {NoServer, link.server}
        /\ link.inFlight # NoRequest => q # << >> /\ link.inFlight < rid
        /\ \A f \in frames : f.conn = link.conn =>
              f.rid < rid /\ (f.rid = link.inFlight => f.op = q[1].op)
        /\ \A call \in cs :
              /\ call.id \in Ids /\ IsApply(call.id)
              /\ call.rid # NoRequest /\ call.rid < rid
              /\ call.rid = link.inFlight => OpOf(call.id) = q[1].op

\* Operation o was made at instant c and is bound to server process s: it is
\* sent only within the horizon and only to that process, and taken within the
\* horizon unless it is late.
Bounded(o, c, s, q, frames) ==
    /\ \A f \in frames : f.op = o =>
          f.created = c /\ f.server = s /\ c =< f.sent /\ f.sent < c + Horizon /\ f.sent =< now
    /\ \A x \in Ids : OpOf(x) = o =>
          /\ c =< attempts[x].admitted /\ (attempts[x].admitted < c + Horizon \/ o \in late)
          /\ IF IsApply(x) THEN s = incarnation ELSE s < incarnation
          /\ Bound(x) => c =< attempts[x].bound
    /\ entries[o] # NoEntry => c =< entries[o].inserted /\ \E x \in Ids : OpOf(x) = o
    /\ \A i \in 1..Len(q) : q[i].op = o =>
          /\ q[i].created = c
          /\ IF q[i].attempted THEN q[i].server = s ELSE q[i].server = NoServer /\ ~OpSent(o, frames)

BoundedOK(q, frames) ==
    \A o \in Operations : \E c \in 0..now, s \in 1..incarnation : Bounded(o, c, s, q, frames)

\* Answered, or never admitted, and not in a pane nor on the way to one.
Settled(x) == ~ApplyWaiting(x) /\ ~May(x)

\* What the user was told is so.
ToldOK(v, frames) ==
    \A o \in Operations :
        /\ v[o] = "Delivered" => \E x \in Ids : OpOf(x) = o /\ Whole(x)
        /\ v[o] = "Refused" => ~OpSent(o, frames) \/ \E x \in Ids : OpOf(x) = o /\ Settled(x)

JournalOK(q, v, frames) ==
    /\ QueueOK(q, v) /\ MintOK(v) /\ FrontOK(q, v, frames)
    /\ BoundedOK(q, frames) /\ ToldOK(v, frames)

-----------------------------------------------------------------------------
\* Every frame of the session is an APPLY_INPUT; one of a process that is gone
\* is nowhere but in a PTY.
AllApply ==
    /\ \A x \in Ids : OpOf(x) \in Operations
    /\ \A i \in 1..Len(lane) : IsApply(lane[i])
    /\ lanePc # "Recv" => IsApply(item)

\* A refusal is final: the attempt never reaches the pane.
RefusalsOK ==
    \A x \in Ids : IsApply(x) /\ attempts[x].result \notin {"Waiting", "Ok", "InputDeliveryUnknown"}
        => ~May(x)

ServerOK == Inv /\ HandedInv /\ OkIsWritten /\ AllApply /\ RefusalsOK

SessionInv ==
    /\ SessionTypeOK /\ ServerOK
    /\ JournalOK(queue, verdict, wire)
    /\ LinkOK(queue, connection, nextRequest, wire, calls, dialed)

\* No operation is handed to a pane twice, and one that was delivered before a
\* later operation was sent is ahead of it; but for late ones.
OnceOK ==
    \A x, y \in Ids :
        OpOf(x) = OpOf(y) /\ OpOf(x) \notin late /\ Handed(x) /\ Handed(y) => x = y

AheadOK ==
    \A x, y \in Ids :
        /\ OpOf(y) < OpOf(x) /\ OpOf(y) \notin late
        /\ verdict[OpOf(y)] = "Delivered" /\ Handed(y)
        => y < x
=============================================================================
