---------------------------- MODULE InputLaneInv ----------------------------
(* The inductive strengthening of SlotHeldWhileUnanswered: where the one     *)
(* thing that answers a batch, and gives its Terminal's slot back, can be.   *)
(*                                                                           *)
(* PendingCompletion (the reservation and the reply channel) is moved, never *)
(* copied: lane queue, lane thread, the Registered message, the pending set, *)
(* and the waiter's hands.  Rust's ownership gives this inside one thread;   *)
(* here it is shown across the threads.                                      *)
EXTENDS InputLane

ApplyWaiting(x) == x \in Ids /\ IsApply(x) /\ attempts[x].result = "Waiting"

InLane(x) == \E i \in 1..Len(lane) : lane[i] = x
OnThread(x) == lanePc = "Register" /\ item = x
Announced(x) == \E i \in 1..Len(waitq) : waitq[i].type = "Registered" /\ waitq[i].id = x
IsPending(x) == \E p \in pending : p.id = x
InClosing(x) == \E f \in closing : f.id = x

AttemptsOK ==
    \A x \in Ids : IsApply(x) => attempts[x].op \in Operations /\ attempts[x].payload \in Payloads

LaneOK ==
    /\ \A i \in 1..Len(lane) : lane[i] \in Ids /\ (IsApply(lane[i]) => ApplyWaiting(lane[i]))
    /\ \A i, j \in 1..Len(lane) : lane[i] = lane[j] => i = j

ThreadOK ==
    /\ lanePc # "Recv" => item \in Ids
    /\ lanePc = "Register" => ApplyWaiting(item) /\ ~InLane(item)

AnnouncedOK ==
    /\ \A i \in 1..Len(waitq) : waitq[i].type = "Registered" =>
          ApplyWaiting(waitq[i].id) /\ ~InLane(waitq[i].id) /\ ~OnThread(waitq[i].id)
    /\ \A i, j \in 1..Len(waitq) :
          waitq[i].type = "Registered" /\ waitq[j].type = "Registered" /\ waitq[i].id = waitq[j].id
            => i = j

PendingOK ==
    /\ \A p \in pending :
          ApplyWaiting(p.id) /\ ~InLane(p.id) /\ ~OnThread(p.id) /\ ~Announced(p.id)
    /\ \A p, q \in pending : p.id = q.id => p = q

ClosingOK ==
    /\ \A f \in closing :
          /\ ApplyWaiting(f.id) /\ ~InLane(f.id) /\ ~OnThread(f.id) /\ ~Announced(f.id)
          /\ ~IsPending(f.id)
          /\ f.how # "Resolve" => f.result \in FinalResults
    /\ \A f, g \in closing : f.id = g.id => f = g

(* The answer to a batch is in one place at a time, whatever the lane, the   *)
(* waiter, the pane actors and the writers do, and the slot of a Terminal is *)
(* taken exactly while such an answer is outstanding.                        *)
\* PendingCompletion and AcknowledgedReservation, from try_acquire to Drop.
OneAnswerOneSlot ==
    /\ AttemptsOK
    /\ LaneOK /\ ThreadOK /\ AnnouncedOK /\ PendingOK /\ ClosingOK
    /\ SlotHeldWhileUnanswered

Inv == TypeOK /\ OneAnswerOneSlot
=============================================================================
