--------------------------- MODULE InputHandedInv ---------------------------
(* The inductive strengthening of what is promised about bytes handed to a   *)
(* pane: the order of the queues, who still reports on a batch and whether   *)
(* the report is true, and what the dedupe record says of a batch that may   *)
(* be written.  State predicates only.                                       *)
EXTENDS InputLaneInv

Members(q) == {q[i] : i \in 1..Len(q)}
IdsOf(q) == {q[i].id : i \in 1..Len(q)}

Bound(x) == attempts[x].bound # -1
OnHand(x) == lanePc # "Recv" /\ item = x /\ IsApply(x)

\* Handed to its pane, or the lane thread may still hand it over.
May(x) == Handed(x) \/ OnHand(x)

-----------------------------------------------------------------------------
(* Order.  One lane, one thread and the FIFO queues of a pane: what is ahead *)
(* came off the wire earlier.                                                *)

Ascending(q) == \A i, j \in 1..Len(q) : i < j => q[i].id < q[j].id
Before(S, T) == \A a \in S, b \in T : a < b

Chain(p, w, m) ==
    /\ Ascending(p) /\ Ascending(w) /\ Ascending(m)
    /\ Before(IdsOf(p), IdsOf(w)) /\ Before(IdsOf(p), IdsOf(m)) /\ Before(IdsOf(w), IdsOf(m))

InPane(r) == IdsOf(pty[r]) \cup IdsOf(writerq[r]) \cup IdsOf(mailbox[r])

PaneOrderOK ==
    \A r \in Resources :
        /\ Chain(pty[r], writerq[r], mailbox[r])
        /\ \A x \in InPane(r) :
              /\ x \in Ids /\ attempts[x].to = r /\ (IsApply(x) => Bound(x))
              /\ lanePc # "Recv" => x < item
              /\ \A y \in Members(lane) : x < y

LaneOrderOK ==
    /\ \A i, j \in 1..Len(lane) : i < j => lane[i] < lane[j]
    /\ lanePc # "Recv" => (\A y \in Members(lane) : item < y) /\ (IsApply(item) => Bound(item))
    /\ \A x \in Ids : Bound(x) => IsApply(x) /\ \A y \in Members(lane) : x < y

ClockOK ==
    \A x \in Ids :
        /\ attempts[x].admitted =< now
        /\ \A y \in Ids : x < y => attempts[x].admitted =< attempts[y].admitted

-----------------------------------------------------------------------------
(* Tickets.  The completion sink of a batch and the batch that waits for it  *)
(* share a ticket that nobody else has.                                      *)

Sinks ==
    {e \in {[id |-> item, ticket |-> ticket]} : OnHand(e.id)}
    \cup UNION {Members(mailbox[r]) \cup Members(writerq[r]) : r \in Resources}

Awaits ==
    pending \cup
    {[id |-> m.id, ticket |-> m.ticket] : m \in {w \in Members(waitq) : w.type = "Registered"}}

TicketsOK ==
    /\ \A e \in Sinks : e.ticket = 0 <=> ~IsApply(e.id)
    /\ \A e \in Awaits : e.ticket # 0
    /\ \A e \in Sinks \cup Awaits : e.ticket =< ticket
    /\ \A d, e \in Sinks \cup Awaits :
          d.ticket # 0 /\ e.ticket # 0 => (d.ticket = e.ticket <=> d.id = e.id)

Refuses(m) ==
    \/ m.type = "Abandoned"
    \/ m.type = "Completed" /\ m.outcome \in {"NotWritten", "CanonicalLimitExceeded"}

Delivers(m) == m.type = "Completed" /\ m.outcome = "Delivered"

Whole(x) == \E r \in Resources : [id |-> x, whole |-> TRUE] \in Members(pty[r])

\* A report is the last word under its ticket, and what it says of the batch
\* that waits for it is so.
ReportsOK ==
    \A m \in Members(waitq) : m.type # "Registered" =>
        /\ m.ticket \in 1..ticket
        /\ m.type = "Abandoned" => m.result # "Ok"
        /\ \A e \in Sinks : e.ticket # m.ticket
        /\ \A e \in Awaits : e.ticket = m.ticket =>
              /\ Refuses(m) => ~Handed(e.id)
              /\ Delivers(m) => Whole(e.id)

VerdictsOK ==
    \A f \in closing :
        /\ f.how = "Resolve" \/ f.result \notin {"Ok", "InputDeliveryUnknown"} => ~May(f.id)
        /\ f.result = "Ok" => f.how # "Resolve" /\ Whole(f.id)

-----------------------------------------------------------------------------
(* Records.                                                                  *)

OpOf(x) == attempts[x].op
SameRecord(x, y) == OpOf(x) = OpOf(y) /\ attempts[x].bound = attempts[y].bound

\* The record x was bound to is still in the cache.
Kept(x) == entries[OpOf(x)] # NoEntry /\ entries[OpOf(x)].inserted = attempts[x].bound

\* Instant t is a whole retention after the record of x was made.
Past(x, t) == attempts[x].bound + Retention =< t

BoundOK ==
    \A x \in Ids : Bound(x) =>
        /\ attempts[x].bound \in Nat
        /\ Kept(x) => entries[OpOf(x)].digest = OperationDigest(attempts[x])
        /\ ~Kept(x) => /\ Past(x, now)
                       /\ \A y \in Members(lane) : Past(x, attempts[y].admitted)

\* A batch that is answered and may be in the pane has left its result.
ResultKept ==
    /\ \A x \in Ids : Bound(x) /\ Kept(x) /\ May(x) /\ ~ApplyWaiting(x) => entries[OpOf(x)].result # "None"
    /\ \A f \in closing :
          f.how = "Recorded" /\ Bound(f.id) /\ Kept(f.id) => entries[OpOf(f.id)].result # "None"

\* Under one record at most one batch may be in the pane, and while one waits
\* for its answer no other is; two records of one id are a retention apart.
OneCopy ==
    /\ \A x, y \in Ids :
          Bound(x) /\ Bound(y) /\ SameRecord(x, y) /\ May(x) /\ (May(y) \/ ApplyWaiting(y)) => x = y
    /\ \A x, y \in Ids :
          Bound(x) /\ Bound(y) /\ x < y /\ OpOf(x) = OpOf(y) /\ ~SameRecord(x, y)
             => Past(x, attempts[y].admitted)

OrderOK == PaneOrderOK /\ LaneOrderOK /\ ClockOK
FatesOK == TicketsOK /\ ReportsOK /\ VerdictsOK
RecordsOK == BoundOK /\ ResultKept /\ OneCopy

HandedInv == OrderOK /\ FatesOK /\ RecordsOK

-----------------------------------------------------------------------------
(* OK.                                                                       *)

\* A batch sent under operation id o is in the PTY in full.
Written(o) == \E y \in Ids : IsApply(y) /\ OpOf(y) = o /\ Whole(y)

\* The record and the reply say OK only of an operation that is written.
OkIsWritten ==
    /\ \A o \in Operations : entries[o] # NoEntry /\ entries[o].result = "Ok" => Written(o)
    /\ \A x \in Ids : IsApply(x) /\ attempts[x].result = "Ok" => Written(OpOf(x))

\* What the protocol asks of a client: an operation id names one batch, the
\* same events for the same Terminal, for ever.
OneDigestPerId ==
    \A x, y \in Ids : IsApply(x) /\ IsApply(y) /\ OpOf(x) = OpOf(y) =>
        OperationDigest(attempts[x]) = OperationDigest(attempts[y])
=============================================================================
