--------------------------- MODULE InputLaneProofs ---------------------------
(* Proofs about the input pipeline: its type invariant, and that the slot of *)
(* a Terminal is held exactly while one batch for it is unanswered.          *)
EXTENDS InputLaneInv, OperationCacheProofs

Results == Codes \cup {"Waiting", "Sent"}

(* Changing the result of one attempt leaves the rest of the history alone.  *)
\* Answer and Refuse.
LEMMA ResultChange ==
    ASSUME NEW s \in Seq(Attempt), NEW id \in 1..Len(s), NEW c \in Results,
           NEW t, t = [s EXCEPT ![id].result = c]
    PROVE  /\ t \in Seq(Attempt) /\ Len(t) = Len(s)
           /\ \A x \in 1..Len(s) :
                 /\ t[x].kind = s[x].kind /\ t[x].client = s[x].client /\ t[x].to = s[x].to
                 /\ t[x].op = s[x].op /\ t[x].payload = s[x].payload
                 /\ t[x].admitted = s[x].admitted /\ t[x].bound = s[x].bound
           /\ \A x \in 1..Len(s) : x # id => t[x] = s[x]
           /\ t[id].result = c
<1>1. \A x \in 1..Len(s) : s[x] \in Attempt
  OBVIOUS
<1>2. [s[id] EXCEPT !.result = c] \in Attempt
  BY <1>1 DEF Attempt, Results
<1>3. t = [s EXCEPT ![id] = [s[id] EXCEPT !.result = c]]
  OBVIOUS
<1>4. t \in Seq(Attempt) /\ Len(t) = Len(s)
  BY <1>2, <1>3
<1>5. \A x \in 1..Len(s) : t[x] = IF x = id THEN [s[id] EXCEPT !.result = c] ELSE s[x]
  BY <1>3
<1>6. s[id] \in Attempt
  BY <1>1
<1> QED
  BY <1>4, <1>5, <1>6 DEF Attempt

\* waitq' is waitq with messages behind it, none of them a registration.
OnlyReportsAdded ==
    /\ waitq' \in Seq(WaiterMessage) /\ Len(waitq') >= Len(waitq)
    /\ \A i \in 1..Len(waitq) : waitq'[i] = waitq[i]
    /\ \A i \in 1..Len(waitq') : i > Len(waitq) => waitq'[i].type # "Registered"

(* A request reports at most one completion.                                 *)
\* WriteCompletionSink.
LEMMA ReportAdds ==
    ASSUME waitq \in Seq(WaiterMessage), NEW x \in Request, NEW outcome \in WriteOutcomes,
           Report(x, outcome)
    PROVE  OnlyReportsAdded
<1>1. Completed(x.ticket, outcome) \in WaiterMessage /\ Completed(x.ticket, outcome).type = "Completed"
  BY DEF Completed, WaiterMessage, Request
<1>2. CASE x.ticket = 0
  BY <1>2 DEF Report, OnlyReportsAdded
<1>3. CASE x.ticket # 0
  <2>1. waitq' = Append(waitq, Completed(x.ticket, outcome))
    BY <1>3 DEF Report
  <2> QED
    BY <2>1, <1>1, AppendProperties DEF OnlyReportsAdded
<1> QED
  BY <1>2, <1>3

(* Reports in the waiter's queue move no batch.                              *)
\* WriteCompletionSink, CompletionWaiterHandle::abandon.
LEMMA ReportsMoveNothing ==
    ASSUME Inv, OnlyReportsAdded,
           UNCHANGED <<attempts, admission, lane, pending, closing>>,
           lanePc' # "Recv" => UNCHANGED <<lanePc, item>>
    PROVE  OneAnswerOneSlot'
<1> USE DEF Inv
<1>3. \A i \in 1..Len(waitq') : waitq'[i].type = "Registered" => i \in 1..Len(waitq) /\ waitq'[i] = waitq[i]
  <2>1. Len(waitq) \in Nat /\ Len(waitq') \in Nat
    BY DEF OnlyReportsAdded, TypeOK
  <2>2. \A i \in 1..Len(waitq') : i > Len(waitq) \/ i \in 1..Len(waitq)
    BY <2>1
  <2> QED
    BY <2>2 DEF OnlyReportsAdded
<1>4. \A x : Announced(x)' => Announced(x)
  BY <1>3 DEF Announced
<1>5. \A x : /\ ApplyWaiting(x)' <=> ApplyWaiting(x)
             /\ InLane(x)' <=> InLane(x)
             /\ OnThread(x)' => OnThread(x)
             /\ IsPending(x)' <=> IsPending(x)
  BY DEF ApplyWaiting, InLane, OnThread, IsPending, IsApply, Ids
<1>6. AttemptsOK' /\ LaneOK' /\ ThreadOK' /\ SlotHeldWhileUnanswered'
  BY <1>5 DEF OneAnswerOneSlot, AttemptsOK, LaneOK, ThreadOK, SlotHeldWhileUnanswered, IsApply, Waiting, Ids
<1>7. AnnouncedOK'
  BY <1>3, <1>5 DEF OneAnswerOneSlot, AnnouncedOK
<1>8. PendingOK' /\ ClosingOK'
  BY <1>4, <1>5 DEF OneAnswerOneSlot, PendingOK, ClosingOK
<1> QED
  BY <1>6, <1>7, <1>8 DEF OneAnswerOneSlot

-----------------------------------------------------------------------------
(* Pane actors and PTY writers.                                              *)

(* A pane's actor, its writer and the reaper move no batch.                  *)
\* resource/terminal/{io,spawn,run_loop}.rs.
LEMMA PaneKeepsInv ==
    ASSUME Inv, NEW r \in Resources, PaneStep(r)
    PROVE  Inv'
<1> USE DEF Inv
<1> DEFINE Same == UNCHANGED <<attempts, admission, lane, lanePc, item, pending, closing>>
<1>1. waitq \in Seq(WaiterMessage) /\ mailbox[r] \in Seq(Request) /\ writerq[r] \in Seq(Request)
  BY DEF TypeOK
<1>2. /\ mailbox[r] # << >> => Head(mailbox[r]) \in Request /\ Tail(mailbox[r]) \in Seq(Request)
      /\ writerq[r] # << >> => Head(writerq[r]) \in Request /\ Tail(writerq[r]) \in Seq(Request)
  BY <1>1
<1>3. waitq' = waitq => OnlyReportsAdded
  BY <1>1 DEF OnlyReportsAdded
<1>4. CASE ServiceEncodedInput(r)
  <2>1. OnlyReportsAdded
    BY <1>1, <1>2, <1>3, <1>4, ReportAdds DEF ServiceEncodedInput, WriteOutcomes
  <2>2. mailbox' \in [Resources -> Seq(Request)] /\ writerq' \in [Resources -> Seq(Request)]
    <3>1. /\ mailbox' = [mailbox EXCEPT ![r] = Tail(mailbox[r])] /\ Tail(mailbox[r]) \in Seq(Request)
          /\ Head(mailbox[r]) \in Request
      BY <1>2, <1>4 DEF ServiceEncodedInput
    <3>2. writerq' = writerq \/ writerq' = [writerq EXCEPT ![r] = Append(writerq[r], Head(mailbox[r]))]
      BY <1>4 DEF ServiceEncodedInput
    <3>3. Append(writerq[r], Head(mailbox[r])) \in Seq(Request)
      BY <1>1, <3>1, AppendProperties
    <3> QED
      BY <3>1, <3>2, <3>3 DEF TypeOK
  <2>3. TypeOK'
    BY <2>1, <2>2, <1>4 DEF ServiceEncodedInput, OnlyReportsAdded, TypeOK, laneVars, cacheVars, authorityVars,
       CacheTypeOK, AuthorityTypeOK
  <2> QED
    BY <2>1, <2>3, <1>4, ReportsMoveNothing DEF ServiceEncodedInput, laneVars
<1>5. CASE ActorStops(r) \/ ActorExits(r)
  <2>1. TypeOK'
    BY <1>5 DEF ActorStops, ActorExits, TypeOK, laneVars, waiterVars, cacheVars, authorityVars,
       CacheTypeOK, AuthorityTypeOK
  <2> QED
    BY <2>1, <1>3, <1>5, ReportsMoveNothing DEF ActorStops, ActorExits, laneVars, waiterVars
<1>6. CASE MailboxDrop(r)
  <2>1. OnlyReportsAdded
    BY <1>1, <1>2, <1>6, ReportAdds DEF MailboxDrop, WriteOutcomes
  <2>2. mailbox' \in [Resources -> Seq(Request)]
    BY <1>1, <1>2, <1>6 DEF MailboxDrop, TypeOK
  <2>3. TypeOK'
    BY <2>1, <2>2, <1>6 DEF MailboxDrop, OnlyReportsAdded, TypeOK, laneVars, cacheVars, authorityVars,
       CacheTypeOK, AuthorityTypeOK
  <2> QED
    BY <2>1, <2>3, <1>6, ReportsMoveNothing DEF MailboxDrop, laneVars
<1>7. CASE ReapResource(r)
  <2>1. AuthorityTypeOK'
    BY <1>7 DEF ReapResource, Reap, TypeOK, AuthorityTypeOK
  <2>2. TypeOK'
    BY <2>1, <1>7 DEF ReapResource, TypeOK, laneVars, waiterVars, paneVars, cacheVars, CacheTypeOK
  <2> QED
    BY <2>2, <1>3, <1>7, ReportsMoveNothing DEF ReapResource, laneVars, waiterVars
<1>8. ASSUME NEW outcome \in WriteOutcomes, writerq[r] # << >>, Report(Head(writerq[r]), outcome),
             writerq' = [writerq EXCEPT ![r] = Tail(@)],
             pty' = pty \/ \E whole \in BOOLEAN : Lands(r, whole),
             writer' \in [Resources -> {"Running", "Stopped"}],
             UNCHANGED <<now, attempts, admission, laneVars, pending, closing, mailbox, actor,
                         cacheVars, authorityVars>>
      PROVE  Inv'
  <2>1. OnlyReportsAdded
    BY <1>1, <1>2, <1>8, ReportAdds
  <2>2. writerq' \in [Resources -> Seq(Request)]
    BY <1>1, <1>2, <1>8 DEF TypeOK
  <2>3. pty' \in [Resources -> Seq([id : Nat, whole : BOOLEAN])]
    <3>1. CASE pty' = pty
      BY <3>1 DEF TypeOK
    <3>2. ASSUME NEW whole \in BOOLEAN, Lands(r, whole)
          PROVE  pty' \in [Resources -> Seq([id : Nat, whole : BOOLEAN])]
      <4>1. [id |-> Head(writerq[r]).id, whole |-> whole] \in [id : Nat, whole : BOOLEAN]
        BY <1>2, <1>8 DEF Request
      <4>2. Append(pty[r], [id |-> Head(writerq[r]).id, whole |-> whole]) \in Seq([id : Nat, whole : BOOLEAN])
        BY <4>1 DEF TypeOK
      <4> QED
        BY <4>2, <3>2 DEF Lands, TypeOK
    <3> QED
      BY <3>1, <3>2, <1>8
  <2>4. TypeOK'
    BY <2>1, <2>2, <2>3, <1>8 DEF OnlyReportsAdded, TypeOK, laneVars, cacheVars, authorityVars,
       CacheTypeOK, AuthorityTypeOK
  <2> QED
    BY <2>1, <2>4, <1>8, ReportsMoveNothing DEF laneVars
<1>9. writer \in [Resources -> {"Running", "Stopped"}]
  BY DEF TypeOK
<1>10. CASE WriteDelivers(r)
  BY <1>8, <1>9, <1>10 DEF WriteDelivers, WriteOutcomes
<1>11. CASE WriteRefused(r)
  BY <1>8, <1>9, <1>11 DEF WriteRefused, WriteOutcomes
<1>12. CASE WriteFails(r)
  BY <1>8, <1>9, <1>12 DEF WriteFails, WriteOutcomes
<1>13. CASE WriterQueueDrop(r)
  BY <1>8, <1>9, <1>13 DEF WriterQueueDrop, WriteOutcomes
<1> QED
  BY <1>4, <1>5, <1>6, <1>7, <1>10, <1>11, <1>12, <1>13 DEF PaneStep

-----------------------------------------------------------------------------
(* Client tasks.                                                             *)

(* A frame off the wire starts a batch nobody holds yet; an acknowledged one *)
(* is let in only by taking its Terminal's free slot.                        *)
\* InputLaneHandle::{route, route_command, apply_input}.
LEMMA ArrivalKeepsSlots ==
    ASSUME Inv, NEW a \in Attempt, attempts' = Append(attempts, a),
           a.kind = "Apply" => a.op \in Operations /\ a.payload \in Payloads,
           lane' = lane \/ (lane' = Append(lane, NewId) /\ (a.kind = "Apply" => a.result = "Waiting")),
           IF a.kind = "Apply" /\ a.result = "Waiting"
           THEN a.to \notin admission /\ admission' = admission \cup {a.to}
           ELSE admission' = admission,
           UNCHANGED <<lanePc, item, waitq, pending, closing>>
    PROVE  OneAnswerOneSlot' /\ lane' \in Seq(Nat) /\ attempts' \in Seq(Attempt)
<1> USE DEF Inv
<1>1. attempts \in Seq(Attempt) /\ lane \in Seq(Nat)
  BY DEF TypeOK
<1>2. /\ attempts' \in Seq(Attempt) /\ Len(attempts') = Len(attempts) + 1
      /\ \A x \in 1..Len(attempts) : attempts'[x] = attempts[x]
      /\ attempts'[Len(attempts) + 1] = a
  BY <1>1, AppendProperties
<1>3. /\ \A x \in Ids : x \in Ids' /\ attempts'[x] = attempts[x]
      /\ NewId \in Ids' /\ NewId \notin Ids /\ attempts'[NewId] = a /\ NewId \in Nat
      /\ \A x \in Ids' : x \in Ids \/ x = NewId
  <2>1. Len(attempts) \in Nat
    BY <1>1
  <2> QED
    BY <1>2, <2>1 DEF Ids, NewId
<1>4. /\ lane' \in Seq(Nat)
      /\ \A i \in 1..Len(lane') :
            \/ i \in 1..Len(lane) /\ lane'[i] = lane[i]
            \/ i = Len(lane) + 1 /\ lane'[i] = NewId /\ (a.kind = "Apply" => a.result = "Waiting")
      /\ Len(lane) \in Nat
  <2>1. CASE lane' = lane
    BY <2>1, <1>1
  <2>2. CASE lane' = Append(lane, NewId) /\ (a.kind = "Apply" => a.result = "Waiting")
    <3>1. /\ lane' \in Seq(Nat) /\ Len(lane') = Len(lane) + 1 /\ Len(lane) \in Nat
          /\ \A i \in 1..Len(lane) : lane'[i] = lane[i]
          /\ lane'[Len(lane) + 1] = NewId
      BY <2>2, <1>1, <1>3, AppendProperties
    <3>2. \A i \in 1..Len(lane') : i \in 1..Len(lane) \/ i = Len(lane) + 1
      BY <3>1
    <3> QED
      BY <3>1, <3>2, <2>2
  <2> QED
    BY <2>1, <2>2
<1>5. \A i \in 1..Len(lane) : lane[i] \in Ids
  BY DEF OneAnswerOneSlot, LaneOK
<1>6. \A x \in Ids : ApplyWaiting(x)' <=> ApplyWaiting(x)
  BY <1>3 DEF ApplyWaiting, IsApply
<1>7. \A x \in Ids : InLane(x)' => InLane(x)
  BY <1>3, <1>4 DEF InLane
<1>8. \A x : /\ OnThread(x)' <=> OnThread(x)
             /\ Announced(x)' <=> Announced(x)
             /\ IsPending(x)' <=> IsPending(x)
  BY DEF OnThread, Announced, IsPending
<1>9. AttemptsOK'
  BY <1>3 DEF OneAnswerOneSlot, AttemptsOK, IsApply
<1>10. LaneOK'
  <2>1. ASSUME NEW i \in 1..Len(lane')
        PROVE  lane'[i] \in Ids' /\ (IsApply(lane[i])' => ApplyWaiting(lane[i])')
    <3>1. CASE i \in 1..Len(lane) /\ lane'[i] = lane[i]
      BY <3>1, <1>3, <1>5, <1>6 DEF OneAnswerOneSlot, LaneOK, IsApply
    <3>2. CASE lane'[i] = NewId /\ (a.kind = "Apply" => a.result = "Waiting")
      BY <3>2, <1>3 DEF IsApply, ApplyWaiting
    <3> QED
      BY <3>1, <3>2, <1>4
  <2>2. ASSUME NEW i \in 1..Len(lane'), NEW j \in 1..Len(lane'), lane'[i] = lane'[j]
        PROVE  i = j
    <3>1. \A k \in 1..Len(lane') :
            \/ k \in 1..Len(lane) /\ lane'[k] = lane[k] /\ lane'[k] \in Ids
            \/ k = Len(lane) + 1 /\ lane'[k] = NewId
      BY <1>4, <1>5
    <3>2. CASE i \in 1..Len(lane) /\ lane'[i] = lane[i] /\ j \in 1..Len(lane) /\ lane'[j] = lane[j]
      BY <2>2, <3>2 DEF OneAnswerOneSlot, LaneOK
    <3>3. CASE ~(i \in 1..Len(lane) /\ lane'[i] = lane[i] /\ j \in 1..Len(lane) /\ lane'[j] = lane[j])
      BY <2>2, <3>1, <3>3, <1>3
    <3> QED
      BY <3>2, <3>3
  <2> QED
    BY <2>1, <2>2 DEF LaneOK
<1>11. ThreadOK'
  BY <1>3, <1>6, <1>7 DEF OneAnswerOneSlot, ThreadOK, ApplyWaiting
<1>12. AnnouncedOK'
  BY <1>6, <1>7, <1>8 DEF OneAnswerOneSlot, AnnouncedOK, ApplyWaiting
<1>13. PendingOK' /\ ClosingOK'
  BY <1>6, <1>7, <1>8 DEF OneAnswerOneSlot, PendingOK, ClosingOK, ApplyWaiting
<1>14. SlotHeldWhileUnanswered'
  <2>1. \A x : (IsApply(x) /\ Waiting(x)) <=> ApplyWaiting(x)
    BY DEF Waiting, ApplyWaiting
  <2>2. \A x : (IsApply(x) /\ Waiting(x))' <=> ApplyWaiting(x)'
    BY DEF Waiting, ApplyWaiting
  <2>3. admission = {attempts[x].to : x \in {y \in Ids : ApplyWaiting(y)}}
    BY <2>1 DEF OneAnswerOneSlot, SlotHeldWhileUnanswered
  <2>4. \A x, y \in Ids : ApplyWaiting(x) /\ ApplyWaiting(y) /\ attempts[x].to = attempts[y].to => x = y
    BY <2>1 DEF OneAnswerOneSlot, SlotHeldWhileUnanswered
  <2>5. \A x : x = NewId => (ApplyWaiting(x)' <=> a.kind = "Apply" /\ a.result = "Waiting")
    BY <1>3 DEF ApplyWaiting, IsApply
  <2>6. admission' = {attempts'[x].to : x \in {y \in Ids' : ApplyWaiting(y)'}}
    <3>1. \A x \in Ids : attempts'[x].to = attempts[x].to
      BY <1>3
    <3>2. CASE a.kind = "Apply" /\ a.result = "Waiting"
      <4>1. {y \in Ids' : ApplyWaiting(y)'} = {y \in Ids : ApplyWaiting(y)} \cup {NewId}
        BY <2>5, <3>2, <1>3, <1>6
      <4>2. attempts'[NewId].to = a.to /\ admission' = admission \cup {a.to}
        BY <3>2, <1>3
      <4>3. \A t : t \in {attempts'[x].to : x \in {y \in Ids' : ApplyWaiting(y)'}}
                  <=> t \in admission \/ t = a.to
        BY <2>3, <3>1, <4>1, <4>2, Zenon
      <4> QED
        BY <4>2, <4>3, Zenon
    <3>3. CASE ~(a.kind = "Apply" /\ a.result = "Waiting")
      <4>1. {y \in Ids' : ApplyWaiting(y)'} = {y \in Ids : ApplyWaiting(y)}
        BY <2>5, <3>3, <1>3, <1>6
      <4>2. admission' = admission
        BY <3>3
      <4> QED
        BY <2>3, <3>1, <4>1, <4>2
    <3> QED
      BY <3>2, <3>3
  <2>7. \A x, y \in Ids' : ApplyWaiting(x)' /\ ApplyWaiting(y)' /\ attempts'[x].to = attempts'[y].to => x = y
    <3>1. ASSUME NEW x \in Ids, ApplyWaiting(x) PROVE attempts[x].to \in admission
      BY <3>1, <2>3
    <3> QED
      BY <2>4, <2>5, <3>1, <1>3, <1>6
  <2> QED
    BY <2>2, <2>6, <2>7 DEF SlotHeldWhileUnanswered
<1> QED
  BY <1>2, <1>4, <1>9, <1>10, <1>11, <1>12, <1>13, <1>14 DEF OneAnswerOneSlot

(* Every frame a client task takes keeps the invariant.                      *)
\* InputLaneHandle::{route, route_command, apply_input}.
LEMMA ClientKeepsInv ==
    ASSUME Inv, NEW c \in Clients, NEW r \in Resources, ClientStep(c, r)
    PROVE  Inv'
<1> USE DEF Inv
<1>1. now \in Nat /\ -1 \in Int
  BY DEF TypeOK
<1>2. CASE RouteAttached(c, r)
  <2> DEFINE a == [kind |-> "Attached", client |-> c, to |-> r, op |-> NoOp, payload |-> NoOp,
                   admitted |-> now, bound |-> -1, result |-> "Sent"]
  <2>1. a \in Attempt /\ a.kind # "Apply"
    BY <1>1 DEF Attempt, InputKinds
  <2>2. attempts' = Append(attempts, a)
    BY <1>2 DEF RouteAttached, Arrives
  <2>3. /\ lane' = lane \/ lane' = Append(lane, NewId)
        /\ admission' = admission /\ UNCHANGED <<lanePc, item, waitq, pending, closing>>
    BY <1>2 DEF RouteAttached, waiterVars
  <2> HIDE DEF a
  <2>4. OneAnswerOneSlot' /\ lane' \in Seq(Nat) /\ attempts' \in Seq(Attempt)
    BY <2>1, <2>2, <2>3, ArrivalKeepsSlots
  <2> QED
    BY <2>4, <1>2 DEF RouteAttached, TypeOK, waiterVars, paneVars, cacheVars, authorityVars,
       CacheTypeOK, AuthorityTypeOK
<1>3. CASE RouteCommand(c, r)
  <2> DEFINE a == [kind |-> "Headless", client |-> c, to |-> r, op |-> NoOp, payload |-> NoOp,
                   admitted |-> now, bound |-> -1, result |-> "Waiting"]
  <2>1. a \in Attempt /\ a.kind # "Apply"
    BY <1>1 DEF Attempt, InputKinds
  <2>2. attempts' = Append(attempts, a)
    BY <1>3 DEF RouteCommand, Arrives
  <2>3. /\ lane' = Append(lane, NewId)
        /\ admission' = admission /\ UNCHANGED <<lanePc, item, waitq, pending, closing>>
    BY <1>3 DEF RouteCommand, waiterVars
  <2> HIDE DEF a
  <2>4. OneAnswerOneSlot' /\ lane' \in Seq(Nat) /\ attempts' \in Seq(Attempt)
    BY <2>1, <2>2, <2>3, ArrivalKeepsSlots
  <2> QED
    BY <2>4, <1>3 DEF RouteCommand, TypeOK, waiterVars, paneVars, cacheVars, authorityVars,
       CacheTypeOK, AuthorityTypeOK
<1>4. ASSUME NEW o \in Operations, NEW d \in Payloads, ApplyInput(c, r, o, d)
      PROVE  Inv'
  <2> DEFINE admitted == r \notin admission /\ ~LaneFull
             a == [kind |-> "Apply", client |-> c, to |-> r, op |-> o, payload |-> d,
                   admitted |-> now, bound |-> -1,
                   result |-> IF admitted THEN "Waiting" ELSE "ResourceExhausted"]
  <2>1. /\ a \in Attempt /\ a.kind = "Apply" /\ a.op = o /\ a.payload = d /\ a.to = r
        /\ a.result = "Waiting" <=> admitted
    BY <1>1 DEF Attempt, InputKinds, Codes
  <2>2. attempts' = Append(attempts, a)
    BY <1>4 DEF ApplyInput, Arrives
  <2>3. /\ lane' = IF admitted THEN Append(lane, NewId) ELSE lane
        /\ admission' = IF admitted THEN admission \cup {r} ELSE admission
        /\ UNCHANGED <<lanePc, item, waitq, pending, closing>>
    BY <1>4 DEF ApplyInput, waiterVars
  <2>4. admitted => r \notin admission
    OBVIOUS
  <2> HIDE DEF a, admitted
  <2>5. OneAnswerOneSlot' /\ lane' \in Seq(Nat) /\ attempts' \in Seq(Attempt)
    BY <2>1, <2>2, <2>3, <2>4, ArrivalKeepsSlots
  <2>6. admission' \subseteq Resources
    BY <2>3 DEF TypeOK
  <2> QED
    BY <2>5, <2>6, <1>4 DEF ApplyInput, TypeOK, waiterVars, paneVars, cacheVars, authorityVars,
       CacheTypeOK, AuthorityTypeOK
<1> QED
  BY <1>2, <1>3, <1>4 DEF ClientStep

-----------------------------------------------------------------------------
(* Answering a batch.                                                        *)

(* Answering a waiting batch gives back its slot and no other.               *)
\* AcknowledgedReservation::drop with the reply.
LEMMA AnswerFreesSlot ==
    ASSUME Inv, NEW id \in Ids, ApplyWaiting(id), NEW code \in Codes, Refuse(id, code)
    PROVE  /\ attempts' \in Seq(Attempt) /\ Ids' = Ids /\ admission' \subseteq Resources
           /\ AttemptsOK' /\ SlotHeldWhileUnanswered'
           /\ \A x \in Ids : IsApply(x)' <=> IsApply(x)
           /\ \A x : ApplyWaiting(x)' <=> ApplyWaiting(x) /\ x # id
<1> USE DEF Inv
<1>1. attempts \in Seq(Attempt) /\ id \in 1..Len(attempts) /\ code \in Results /\ code # "Waiting"
  BY DEF TypeOK, Ids, Results, Codes, FinalResults
<1>2. attempts' = [attempts EXCEPT ![id].result = code] /\ admission' = admission \ {attempts[id].to}
  BY DEF Refuse
<1>3. /\ attempts' \in Seq(Attempt) /\ Len(attempts') = Len(attempts)
      /\ \A x \in 1..Len(attempts) :
            /\ attempts'[x].kind = attempts[x].kind /\ attempts'[x].to = attempts[x].to
            /\ attempts'[x].op = attempts[x].op /\ attempts'[x].payload = attempts[x].payload
      /\ \A x \in 1..Len(attempts) : x # id => attempts'[x] = attempts[x]
      /\ attempts'[id].result = code
  BY <1>1, <1>2, ResultChange
<1>4. Ids' = Ids /\ \A x \in Ids : IsApply(x)' <=> IsApply(x)
  BY <1>3 DEF Ids, IsApply
<1>5. AttemptsOK'
  BY <1>3, <1>4 DEF OneAnswerOneSlot, AttemptsOK, Ids
<1>6. \A x : ApplyWaiting(x)' <=> ApplyWaiting(x) /\ x # id
  BY <1>1, <1>3, <1>4 DEF ApplyWaiting, Ids
<1>7. SlotHeldWhileUnanswered'
  <2>1. /\ \A x : (IsApply(x) /\ Waiting(x)) <=> ApplyWaiting(x)
        /\ \A x : (IsApply(x) /\ Waiting(x))' <=> ApplyWaiting(x)'
    BY DEF Waiting, ApplyWaiting
  <2>2. /\ admission = {attempts[x].to : x \in {y \in Ids : ApplyWaiting(y)}}
        /\ \A x, y \in Ids : ApplyWaiting(x) /\ ApplyWaiting(y) /\ attempts[x].to = attempts[y].to => x = y
    BY <2>1 DEF OneAnswerOneSlot, SlotHeldWhileUnanswered
  <2>3. \A x \in Ids : attempts'[x].to = attempts[x].to
    BY <1>3 DEF Ids
  <2>4. admission' = {attempts'[x].to : x \in {y \in Ids' : ApplyWaiting(y)'}}
    BY <2>2, <2>3, <1>2, <1>4, <1>6
  <2>5. \A x, y \in Ids' : ApplyWaiting(x)' /\ ApplyWaiting(y)' /\ attempts'[x].to = attempts'[y].to => x = y
    BY <2>2, <2>3, <1>4, <1>6
  <2> QED
    BY <2>1, <2>4, <2>5 DEF SlotHeldWhileUnanswered
<1>8. admission' \subseteq Resources
  BY <1>2 DEF TypeOK
<1> QED
  BY <1>3, <1>4, <1>5, <1>6, <1>7, <1>8

(* Places only ever lose the batch that is answered: the rest of the         *)
(* invariant follows.                                                        *)
\* The reply ends a batch wherever it is held.
LEMMA AnsweredLeaves ==
    ASSUME Inv, NEW id,
           Ids' = Ids, AttemptsOK', SlotHeldWhileUnanswered',
           \A x \in Ids : IsApply(x)' <=> IsApply(x),
           \A x : ApplyWaiting(x)' <=> ApplyWaiting(x) /\ x # id,
           \A x : InLane(x)' => InLane(x) /\ x # id,
           \A i, j \in 1..Len(lane') : lane'[i] = lane'[j] => i = j,
           waitq' = waitq, ~Announced(id),
           pending' = pending, ~IsPending(id),
           closing' \subseteq closing, ~InClosing(id)',
           lanePc' \in {"Recv", "Register", "Handoff"},
           lanePc' = "Register" => lanePc = "Register" /\ item' = item /\ item # id,
           lanePc' = "Handoff" => item' \in Ids
    PROVE  OneAnswerOneSlot'
<1> USE DEF Inv
<1>1. /\ \A x : OnThread(x)' => OnThread(x) /\ x # id
      /\ \A x : Announced(x)' <=> Announced(x)
      /\ \A x : IsPending(x)' <=> IsPending(x)
  BY DEF OnThread, Announced, IsPending
<1>2. LaneOK'
  <2>1. ASSUME NEW i \in 1..Len(lane')
        PROVE  lane'[i] \in Ids' /\ (IsApply(lane[i])' => ApplyWaiting(lane[i])')
    <3>1. InLane(lane'[i]) /\ lane'[i] # id
      BY DEF InLane
    <3>2. lane'[i] \in Ids /\ (IsApply(lane'[i]) => ApplyWaiting(lane'[i]))
      BY <3>1 DEF OneAnswerOneSlot, LaneOK, InLane
    <3> QED
      BY <3>1, <3>2
  <2> QED
    BY <2>1 DEF LaneOK
<1>3. ThreadOK'
  BY DEF OneAnswerOneSlot, ThreadOK
<1>4. AnnouncedOK'
  <2>1. ASSUME NEW i \in 1..Len(waitq), waitq[i].type = "Registered" PROVE waitq[i].id # id
    BY <2>1 DEF Announced
  <2> QED
    BY <1>1, <2>1 DEF OneAnswerOneSlot, AnnouncedOK
<1>5. PendingOK'
  BY <1>1 DEF OneAnswerOneSlot, PendingOK, IsPending
<1>6. ClosingOK'
  BY <1>1 DEF OneAnswerOneSlot, ClosingOK, InClosing
<1> QED
  BY <1>2, <1>3, <1>4, <1>5, <1>6 DEF OneAnswerOneSlot

-----------------------------------------------------------------------------
(* The lane thread.                                                          *)

(* Taking the front of the lane takes that attempt out of it for good.       *)
\* spawn_input_lane's receive.
LEMMA LanePop ==
    ASSUME Inv, lane # << >>, lane' = Tail(lane)
    PROVE  /\ Head(lane) \in Ids /\ InLane(Head(lane))
           /\ lane' \in Seq(Nat)
           /\ \A x : InLane(x)' => InLane(x) /\ x # Head(lane)
           /\ \A i, j \in 1..Len(lane') : lane'[i] = lane'[j] => i = j
<1> USE DEF Inv
<1>1. lane \in Seq(Nat) /\ Len(lane) \in Nat /\ Len(lane) > 0
  BY DEF TypeOK
<1>2. /\ lane' \in Seq(Nat) /\ Len(lane') = Len(lane) - 1
      /\ \A i \in 1..Len(lane') : lane'[i] = lane[i + 1]
  BY <1>1, HeadTailProperties
<1>3. Head(lane) = lane[1] /\ 1 \in 1..Len(lane)
  BY <1>1
<1>4. \A i \in 1..Len(lane') : i + 1 \in 1..Len(lane) /\ i + 1 # 1
  BY <1>1, <1>2
<1>5. /\ \A i \in 1..Len(lane) : lane[i] \in Ids
      /\ \A i, j \in 1..Len(lane) : lane[i] = lane[j] => i = j
  BY DEF OneAnswerOneSlot, LaneOK
<1>6. \A x : InLane(x)' => InLane(x) /\ x # Head(lane)
  BY <1>2, <1>3, <1>4, <1>5 DEF InLane
<1>7. \A i, j \in 1..Len(lane') : lane'[i] = lane'[j] => i = j
  <2>1. ASSUME NEW i \in 1..Len(lane'), NEW j \in 1..Len(lane'), lane'[i] = lane'[j] PROVE i = j
    <3>1. i + 1 = j + 1
      BY <2>1, <1>2, <1>4, <1>5
    <3> QED
      BY <3>1
  <2> QED
    BY <2>1
<1> QED
  BY <1>2, <1>3, <1>5, <1>6, <1>7 DEF InLane

(* An attempt in the lane is in no place further down the pipeline.          *)
\* PendingCompletion is moved, never copied.
LEMMA LaneIsExclusive ==
    ASSUME Inv, NEW id, InLane(id)
    PROVE  ~OnThread(id) /\ ~Announced(id) /\ ~IsPending(id) /\ ~InClosing(id)
  BY DEF Inv, OneAnswerOneSlot, ThreadOK, AnnouncedOK, PendingOK, ClosingOK, OnThread, Announced,
         IsPending, InClosing

(* A batch bound to its dedupe record moves from the lane to the thread.     *)
\* prepare_acknowledged_batch, CacheBinding::New and Pending.
LEMMA BoundMovesToThread ==
    ASSUME Inv, NEW id \in Ids, ApplyWaiting(id), NEW t \in Int,
           attempts' = [attempts EXCEPT ![id].bound = t],
           lanePc' = "Register", item' = id, admission' = admission,
           \A x : InLane(x)' => InLane(x) /\ x # id,
           \A i, j \in 1..Len(lane') : lane'[i] = lane'[j] => i = j,
           waitq' = waitq, pending' = pending, closing' = closing,
           ~Announced(id), ~IsPending(id), ~InClosing(id), lanePc = "Recv"
    PROVE  OneAnswerOneSlot' /\ attempts' \in Seq(Attempt)
<1> USE DEF Inv
<1>1. attempts \in Seq(Attempt) /\ id \in 1..Len(attempts) /\ attempts[id] \in Attempt
  BY DEF TypeOK, Ids
<1> DEFINE b == [attempts[id] EXCEPT !.bound = t]
<1>2. /\ b \in Attempt /\ b.kind = attempts[id].kind /\ b.to = attempts[id].to /\ b.op = attempts[id].op
      /\ b.payload = attempts[id].payload /\ b.result = attempts[id].result
  BY <1>1 DEF Attempt
<1>3. attempts' = [attempts EXCEPT ![id] = b]
  OBVIOUS
<1> HIDE DEF b
<1>4. /\ attempts' \in Seq(Attempt) /\ Ids' = Ids
      /\ \A x \in Ids : attempts'[x] = IF x = id THEN b ELSE attempts[x]
  <2>1. attempts' \in Seq(Attempt) /\ Len(attempts') = Len(attempts)
    BY <1>1, <1>2, <1>3
  <2>2. DOMAIN attempts = 1..Len(attempts)
    BY <1>1
  <2>3. \A x \in 1..Len(attempts) : attempts'[x] = IF x = id THEN b ELSE attempts[x]
    BY <1>3, <2>2
  <2> QED
    BY <2>1, <2>3 DEF Ids
<1>5. \A x \in Ids : /\ attempts'[x].kind = attempts[x].kind /\ attempts'[x].to = attempts[x].to
                     /\ attempts'[x].op = attempts[x].op /\ attempts'[x].payload = attempts[x].payload
                     /\ attempts'[x].result = attempts[x].result
  BY <1>2, <1>4
<1>6. /\ \A x \in Ids : IsApply(x)' <=> IsApply(x)
      /\ \A x : ApplyWaiting(x)' <=> ApplyWaiting(x)
  BY <1>4, <1>5 DEF ApplyWaiting, IsApply
<1>7. AttemptsOK' /\ SlotHeldWhileUnanswered'
  <2>1. /\ \A x : (IsApply(x) /\ Waiting(x)) <=> ApplyWaiting(x)
        /\ \A x : (IsApply(x) /\ Waiting(x))' <=> ApplyWaiting(x)'
    BY DEF Waiting, ApplyWaiting
  <2>2. SlotHeldWhileUnanswered'
    BY <2>1, <1>4, <1>5, <1>6 DEF OneAnswerOneSlot, SlotHeldWhileUnanswered
  <2> QED
    BY <2>2, <1>4, <1>5, <1>6 DEF OneAnswerOneSlot, AttemptsOK
<1>8. LaneOK'
  <2>1. ASSUME NEW i \in 1..Len(lane')
        PROVE  lane'[i] \in Ids' /\ (IsApply(lane[i])' => ApplyWaiting(lane[i])')
    <3>1. InLane(lane'[i])
      BY DEF InLane
    <3>2. lane'[i] \in Ids /\ (IsApply(lane'[i]) => ApplyWaiting(lane'[i]))
      BY <3>1 DEF OneAnswerOneSlot, LaneOK, InLane
    <3> QED
      BY <3>2, <1>4, <1>6
  <2> QED
    BY <2>1 DEF LaneOK
<1>9. ThreadOK'
  BY <1>4, <1>6 DEF ThreadOK
<1>10. /\ \A x : OnThread(x)' => x = id
       /\ \A x : Announced(x)' <=> Announced(x)
       /\ \A x : IsPending(x)' <=> IsPending(x)
  BY DEF OnThread, Announced, IsPending
<1>11. AnnouncedOK'
  <2>1. ASSUME NEW i \in 1..Len(waitq), waitq[i].type = "Registered" PROVE waitq[i].id # id
    BY <2>1 DEF Announced
  <2> QED
    BY <2>1, <1>6, <1>10 DEF OneAnswerOneSlot, AnnouncedOK
<1>12. PendingOK'
  BY <1>6, <1>10 DEF OneAnswerOneSlot, PendingOK, IsPending
<1>13. ClosingOK'
  BY <1>6, <1>10 DEF OneAnswerOneSlot, ClosingOK, InClosing
<1> QED
  BY <1>4, <1>7, <1>8, <1>9, <1>11, <1>12, <1>13 DEF OneAnswerOneSlot

(* LaneBind keeps the invariant: the batch is answered, or moves to the      *)
(* thread with its dedupe record.                                            *)
\* prepare_acknowledged_batch up to the dedupe record.
LEMMA BindKeepsInv ==
    ASSUME Inv, LaneBind
    PROVE  Inv'
<1> USE DEF Inv
<1> DEFINE id == Head(lane)
           a == attempts[id]
<1>1. /\ lanePc = "Recv" /\ lane # << >> /\ lane' = Tail(lane) /\ a.kind = "Apply"
      /\ ticket' = ticket + 1 /\ UNCHANGED <<now, waiterVars, paneVars, authorityVars>>
  BY DEF LaneBind
<1>2. /\ id \in Ids /\ InLane(id) /\ lane' \in Seq(Nat)
      /\ \A x : InLane(x)' => InLane(x) /\ x # id
      /\ \A i, j \in 1..Len(lane') : lane'[i] = lane'[j] => i = j
  BY <1>1, LanePop
<1>3. ApplyWaiting(id) /\ a \in Attempt /\ a.op \in Operations /\ a.payload \in Payloads
  <2>1. IsApply(id)
    BY <1>1 DEF IsApply
  <2> QED
    BY <1>2, <2>1 DEF OneAnswerOneSlot, LaneOK, InLane, AttemptsOK, TypeOK, Ids
<1>4. ~OnThread(id) /\ ~Announced(id) /\ ~IsPending(id) /\ ~InClosing(id)
  BY <1>2, LaneIsExclusive
<1>5. /\ waitq' = waitq /\ pending' = pending /\ closing' = closing
      /\ \A x : InClosing(x)' <=> InClosing(x)
  BY <1>1 DEF waiterVars, InClosing
<1>6. OperationDigest(a) \in Digests /\ a.admitted \in Nat
  BY <1>3, LaneAssumption DEF OperationDigest, Attempt
<1>7. ASSUME attempts' \in Seq(Attempt), admission' \subseteq Resources, CacheTypeOK',
             lanePc' \in {"Recv", "Register", "Handoff"}, item' \in Nat
      PROVE  TypeOK'
  BY <1>1, <1>2, <1>7 DEF TypeOK, waiterVars, paneVars, authorityVars, AuthorityTypeOK
<1>8. ASSUME NEW code \in Codes, Refuse(id, code), CacheTypeOK', UNCHANGED <<lanePc, item>>
      PROVE  Inv'
  <2>1. /\ attempts' \in Seq(Attempt) /\ Ids' = Ids /\ admission' \subseteq Resources
        /\ AttemptsOK' /\ SlotHeldWhileUnanswered'
        /\ \A x \in Ids : IsApply(x)' <=> IsApply(x)
        /\ \A x : ApplyWaiting(x)' <=> ApplyWaiting(x) /\ x # id
    BY <1>2, <1>3, <1>8, AnswerFreesSlot
  <2>2. OneAnswerOneSlot'
    BY <1>1, <1>2, <1>4, <1>5, <1>8, <2>1, AnsweredLeaves
  <2>3. TypeOK'
    BY <2>1, <1>7, <1>8 DEF TypeOK
  <2> QED
    BY <2>2, <2>3
<1> HIDE DEF id
<1>9. ASSUME NEW b, BindAt(a.op, OperationDigest(a), a.admitted, b)
      PROVE  /\ CacheTypeOK'
             /\ b \in {"New", "Pending", "Final"} => entries'[a.op] \in Entry
             /\ b = "Final" => entries'[a.op].result \in FinalResults
  BY <1>3, <1>6, <1>9, BindTyped DEF TypeOK
<1>10. CASE a.payload \in Malformed
  <2>1. Refuse(id, "InvalidCommand") /\ UNCHANGED <<lanePc, item, cacheVars>>
    BY <1>10 DEF LaneBind, id
  <2>2. CacheTypeOK'
    BY <2>1 DEF TypeOK, CacheTypeOK, cacheVars
  <2> QED
    BY <2>1, <2>2, <1>8 DEF Codes
<1>11. CASE a.payload \notin Malformed
  <2>1. PICK b \in {"New", "Pending", "Final", "Conflict", "Full"} :
          /\ BindAt(a.op, OperationDigest(a), a.admitted, b)
          /\ \/ /\ b \in {"New", "Pending"}
                /\ attempts' = [attempts EXCEPT ![id].bound = entries'[a.op].inserted]
                /\ lanePc' = "Register" /\ item' = id
                /\ UNCHANGED admission
             \/ /\ b = "Final"
                /\ Refuse(id, entries'[a.op].result)
                /\ UNCHANGED <<lanePc, item>>
             \/ /\ b = "Conflict"
                /\ Refuse(id, "InvalidCommand")
                /\ UNCHANGED <<lanePc, item>>
             \/ /\ b = "Full"
                /\ Refuse(id, "ResourceExhausted")
                /\ UNCHANGED <<lanePc, item>>
    BY <1>11 DEF LaneBind, id
  <2>2. /\ CacheTypeOK'
        /\ b \in {"New", "Pending", "Final"} => entries'[a.op] \in Entry
        /\ b = "Final" => entries'[a.op].result \in FinalResults
    BY <2>1, <1>9
  <2>3. CASE b \in {"Final", "Conflict", "Full"}
    BY <2>1, <2>2, <2>3, <1>8 DEF Codes
  <2>4. CASE b \in {"New", "Pending"}
    <3>1. /\ attempts' = [attempts EXCEPT ![id].bound = entries'[a.op].inserted]
          /\ lanePc' = "Register" /\ item' = id /\ admission' = admission
          /\ entries'[a.op].inserted \in Int
      BY <2>1, <2>2, <2>4 DEF Entry
    <3>2. OneAnswerOneSlot' /\ attempts' \in Seq(Attempt)
      BY <3>1, <1>1, <1>2, <1>3, <1>4, <1>5, BoundMovesToThread
    <3> QED
      BY <3>1, <3>2, <2>2, <1>2, <1>7 DEF TypeOK, Ids
  <2> QED
    BY <2>3, <2>4
<1> QED
  BY <1>10, <1>11

(* LaneRegister keeps the invariant: the batch is refused, or the waiter is  *)
(* told of it before anyone else can report on it.                           *)
\* prepare_acknowledged_batch's gate and encoding, CompletionWaiterHandle::register.
LEMMA RegisterKeepsInv ==
    ASSUME Inv, LaneRegister
    PROVE  Inv'
<1> USE DEF Inv
<1>1. /\ lanePc = "Register"
      /\ UNCHANGED <<now, lane, ticket, pending, closing, paneVars, cacheVars, authorityVars>>
  BY DEF LaneRegister
<1>2. item \in Ids /\ ApplyWaiting(item) /\ ~InLane(item) /\ OnThread(item)
  BY <1>1 DEF OneAnswerOneSlot, ThreadOK, OnThread
<1>3. ~Announced(item) /\ ~IsPending(item) /\ ~InClosing(item)
  BY <1>2 DEF OneAnswerOneSlot, AnnouncedOK, PendingOK, ClosingOK, Announced, IsPending, InClosing
<1>4. /\ \A x : InLane(x)' <=> InLane(x)
      /\ \A x : InClosing(x)' <=> InClosing(x)
      /\ \A x : IsPending(x)' <=> IsPending(x)
  BY <1>1 DEF InLane, InClosing, IsPending
<1>5. CASE \E code \in Codes : Refuse(item, code) /\ lanePc' = "Recv" /\ item' = 0 /\ UNCHANGED waitq
  <2>1. PICK code \in Codes : Refuse(item, code)
    BY <1>5
  <2>2. lanePc' = "Recv" /\ item' = 0 /\ waitq' = waitq
    BY <1>5
  <2>3. /\ attempts' \in Seq(Attempt) /\ Ids' = Ids /\ admission' \subseteq Resources
        /\ AttemptsOK' /\ SlotHeldWhileUnanswered'
        /\ \A x \in Ids : IsApply(x)' <=> IsApply(x)
        /\ \A x : ApplyWaiting(x)' <=> ApplyWaiting(x) /\ x # item
    BY <1>2, <2>1, AnswerFreesSlot
  <2>4. /\ \A x : InLane(x)' => InLane(x) /\ x # item
        /\ \A i, j \in 1..Len(lane') : lane'[i] = lane'[j] => i = j
    BY <1>1, <1>2, <1>4 DEF OneAnswerOneSlot, LaneOK
  <2>5. \E id : id = item
    OBVIOUS
  <2>6. PICK id : id = item
    BY <2>5
  <2>7. OneAnswerOneSlot'
    BY <1>1, <1>3, <1>4, <2>2, <2>3, <2>4, <2>6, AnsweredLeaves
  <2>8. TypeOK'
    BY <1>1, <2>2, <2>3 DEF TypeOK, paneVars, cacheVars, authorityVars, CacheTypeOK, AuthorityTypeOK
  <2> QED
    BY <2>7, <2>8
<1>6. CASE /\ waitq' = Append(waitq, [type |-> "Registered", ticket |-> ticket, id |-> item])
           /\ lanePc' = "Handoff" /\ UNCHANGED <<item, attempts, admission>>
  <2> DEFINE m == [type |-> "Registered", ticket |-> ticket, id |-> item]
  <2>1. m \in WaiterMessage /\ m.type = "Registered" /\ m.id = item /\ waitq \in Seq(WaiterMessage)
    BY DEF TypeOK, WaiterMessage
  <2>2. waitq' = Append(waitq, m)
    BY <1>6
  <2> HIDE DEF m
  <2>3. /\ waitq' \in Seq(WaiterMessage) /\ Len(waitq') = Len(waitq) + 1 /\ Len(waitq) \in Nat
        /\ \A i \in 1..Len(waitq) : waitq'[i] = waitq[i]
        /\ waitq'[Len(waitq) + 1] = m
    BY <2>1, <2>2, AppendProperties
  <2>4. \A i \in 1..Len(waitq') : \/ i \in 1..Len(waitq) /\ waitq'[i] = waitq[i]
                                  \/ i = Len(waitq) + 1 /\ waitq'[i] = m
    BY <2>3
  <2>5. \A x : /\ ApplyWaiting(x)' <=> ApplyWaiting(x)
               /\ IsApply(x)' <=> IsApply(x)
               /\ ~OnThread(x)'
    BY <1>6 DEF ApplyWaiting, IsApply, Ids, OnThread
  <2>6. \A x : Announced(x)' => Announced(x) \/ x = item
    BY <2>1, <2>4 DEF Announced
  <2>7. AttemptsOK' /\ LaneOK' /\ SlotHeldWhileUnanswered'
    BY <1>1, <1>6, <2>5, SMTT(20) DEF OneAnswerOneSlot, AttemptsOK, LaneOK, SlotHeldWhileUnanswered, Waiting, Ids, IsApply
  <2>8. ThreadOK'
    BY <1>2, <1>6 DEF ThreadOK, Ids
  <2>9. AnnouncedOK'
    <3>1. ASSUME NEW i \in 1..Len(waitq'), waitq'[i].type = "Registered"
          PROVE  ApplyWaiting(waitq[i].id)' /\ ~InLane(waitq[i].id)' /\ ~OnThread(waitq[i].id)'
      <4>1. ApplyWaiting(waitq'[i].id) /\ ~InLane(waitq'[i].id)
        BY <3>1, <2>1, <2>4, <1>2 DEF OneAnswerOneSlot, AnnouncedOK
      <4> QED
        BY <4>1, <2>5, <1>4
    <3>2. ASSUME NEW i \in 1..Len(waitq'), NEW j \in 1..Len(waitq'), waitq'[i].type = "Registered",
                 waitq'[j].type = "Registered", waitq'[i].id = waitq'[j].id
          PROVE  i = j
      <4>1. \A k \in 1..Len(waitq) : waitq[k].type = "Registered" => waitq[k].id # item
        BY <1>3 DEF Announced
      <4> QED
        BY <4>1, <3>2, <2>1, <2>4 DEF OneAnswerOneSlot, AnnouncedOK
    <3> QED
      BY <3>1, <3>2 DEF AnnouncedOK
  <2>10. PendingOK'
    <3>1. \A p \in pending : p.id # item
      BY <1>3 DEF IsPending
    <3> QED
      BY <1>1, <1>4, <2>5, <2>6, <3>1 DEF OneAnswerOneSlot, PendingOK
  <2>11. ClosingOK'
    <3>1. \A f \in closing : f.id # item
      BY <1>3 DEF InClosing
    <3> QED
      BY <1>1, <1>4, <2>5, <2>6, <3>1 DEF OneAnswerOneSlot, ClosingOK
  <2>12. TypeOK'
    BY <1>1, <1>6, <2>3 DEF TypeOK, paneVars, cacheVars, authorityVars, CacheTypeOK, AuthorityTypeOK
  <2> QED
    BY <2>7, <2>8, <2>9, <2>10, <2>11, <2>12 DEF OneAnswerOneSlot
<1>7. \A c, r : RouteGate(c, r) # "Pass" => RouteGate(c, r) \in Codes
  BY DEF RouteGate, Codes
<1> QED
  BY <1>5, <1>6, <1>7 DEF LaneRegister, Codes

(* The handoff moves no batch: the waiter already has it.                    *)
\* process_apply_input's handoff.
LEMMA HandoffKeepsInv ==
    ASSUME Inv, LaneHandoff
    PROVE  Inv'
<1> USE DEF Inv
<1>1. /\ lanePc = "Handoff" /\ lanePc' = "Recv" /\ item' = 0
      /\ UNCHANGED <<now, attempts, admission, lane, ticket, pending, closing,
                     writerq, actor, writer, pty, cacheVars, authorityVars>>
  BY DEF LaneHandoff
<1> DEFINE r == attempts[item].to
<1>2. item \in Ids /\ item \in Nat /\ ticket \in Nat /\ attempts[item] \in Attempt /\ r \in Resources
  <2>1. item \in Ids /\ item \in Nat /\ ticket \in Nat
    BY <1>1 DEF OneAnswerOneSlot, ThreadOK, TypeOK
  <2>2. attempts[item] \in Attempt
    BY <2>1 DEF TypeOK, Ids
  <2> QED
    BY <2>1, <2>2 DEF Attempt
<1>3. \A c, q : RouteGate(c, q) # "Pass" => RouteGate(c, q) \in Codes
  BY DEF RouteGate, Codes
<1>4. ASSUME NEW code \in Codes
      PROVE  /\ Abandoned(code) \in WaiterMessage /\ Abandoned(code).type # "Registered"
             /\ RefusedHandoff(code) \in Seq(WaiterMessage)
             /\ Len(RefusedHandoff(code)) = 3
             /\ \A i \in 1..3 : RefusedHandoff(code)[i].type # "Registered"
  <2>1. Abandoned(code) \in WaiterMessage /\ Abandoned(code).type # "Registered"
    BY <1>2 DEF Abandoned, WaiterMessage
  <2>2. Completed(ticket, "Failed") \in WaiterMessage /\ Completed(ticket, "Failed").type # "Registered"
    BY <1>2 DEF Completed, WaiterMessage, WriteOutcomes
  <2>3. \A u, v \in WaiterMessage : /\ <<u, v, u>> \in Seq(WaiterMessage) /\ Len(<<u, v, u>>) = 3
                                    /\ <<u, v, u>>[1] = u /\ <<u, v, u>>[2] = v /\ <<u, v, u>>[3] = u
    OBVIOUS
  <2> QED
    BY <2>1, <2>2, <2>3 DEF RefusedHandoff
<1>5. waitq \in Seq(WaiterMessage)
  BY DEF TypeOK
<1>6. ASSUME NEW code \in Codes, waitq' = Append(waitq, Abandoned(code)) PROVE OnlyReportsAdded
  <2> DEFINE m == Abandoned(code)
  <2>1. m \in WaiterMessage /\ m.type # "Registered" /\ waitq' = Append(waitq, m)
    BY <1>4, <1>6
  <2> HIDE DEF m
  <2> QED
    BY <2>1, <1>5, AppendProperties DEF OnlyReportsAdded
<1>7. ASSUME NEW code \in Codes, waitq' = waitq \o RefusedHandoff(code) PROVE OnlyReportsAdded
  <2> DEFINE ms == RefusedHandoff(code)
  <2>1. /\ ms \in Seq(WaiterMessage) /\ Len(ms) = 3 /\ \A i \in 1..3 : ms[i].type # "Registered"
        /\ waitq' = waitq \o ms
    BY <1>4, <1>7
  <2> HIDE DEF ms
  <2>2. /\ waitq' \in Seq(WaiterMessage) /\ Len(waitq') = Len(waitq) + 3 /\ Len(waitq) \in Nat
        /\ \A i \in 1..(Len(waitq) + 3) : waitq'[i] = IF i =< Len(waitq) THEN waitq[i] ELSE ms[i - Len(waitq)]
    <3>1. /\ waitq \o ms \in Seq(WaiterMessage) /\ Len(waitq \o ms) = Len(waitq) + Len(ms)
          /\ \A i \in 1..(Len(waitq) + Len(ms)) :
                (waitq \o ms)[i] = IF i =< Len(waitq) THEN waitq[i] ELSE ms[i - Len(waitq)]
      BY <2>1, <1>5, ConcatProperties
    <3>2. Len(waitq) \in Nat
      BY <1>5
    <3> QED
      BY <2>1, <3>1, <3>2
  <2> QED
    BY <2>1, <2>2 DEF OnlyReportsAdded
<1>8. OnlyReportsAdded
  <2>1. waitq' = waitq => OnlyReportsAdded
    BY <1>5 DEF OnlyReportsAdded
  <2> QED
    BY <1>3, <1>6, <1>7, <2>1 DEF LaneHandoff, Codes, FinalResults
<1>9. mailbox' \in [Resources -> Seq(Request)]
  <2> DEFINE x == [id |-> item, ticket |-> ticket]
  <2>1. x \in Request /\ mailbox[r] \in Seq(Request)
    BY <1>2 DEF Request, TypeOK
  <2>2. mailbox' = mailbox \/ mailbox' = [mailbox EXCEPT ![r] = Append(mailbox[r], x)]
    BY DEF LaneHandoff
  <2>3. Append(mailbox[r], x) \in Seq(Request)
    BY <2>1, AppendProperties
  <2> QED
    BY <2>2, <2>3 DEF TypeOK
<1>10. TypeOK'
  BY <1>1, <1>8, <1>9 DEF OnlyReportsAdded, TypeOK, cacheVars, authorityVars, CacheTypeOK, AuthorityTypeOK
<1>11. OneAnswerOneSlot'
  BY <1>1, <1>8, ReportsMoveNothing
<1> QED
  BY <1>10, <1>11

(* Answering an unacknowledged event touches no batch and no slot.           *)
\* process_attached, process_headless.
LEMMA UnackedAnswer ==
    ASSUME Inv, NEW id \in Ids, ~IsApply(id), NEW code, attempts[id].kind = "Headless" => code \in Codes,
           AnswerUnacked(id, code), admission' = admission
    PROVE  /\ attempts' \in Seq(Attempt) /\ Ids' = Ids /\ AttemptsOK' /\ SlotHeldWhileUnanswered'
           /\ \A x \in Ids : IsApply(x)' <=> IsApply(x)
           /\ \A x : ApplyWaiting(x)' <=> ApplyWaiting(x) /\ x # 0
<1> USE DEF Inv
<1>1. attempts \in Seq(Attempt) /\ id \in 1..Len(attempts)
  BY DEF TypeOK, Ids
<1>2. /\ attempts' \in Seq(Attempt) /\ Len(attempts') = Len(attempts)
      /\ \A x \in 1..Len(attempts) :
            /\ attempts'[x].kind = attempts[x].kind /\ attempts'[x].to = attempts[x].to
            /\ attempts'[x].op = attempts[x].op /\ attempts'[x].payload = attempts[x].payload
      /\ \A x \in 1..Len(attempts) : x # id => attempts'[x] = attempts[x]
  <2>1. CASE attempts[id].kind = "Headless"
    <3>1. code \in Results /\ attempts' = [attempts EXCEPT ![id].result = code]
      BY <2>1 DEF AnswerUnacked, Answer, Results
    <3> QED
      BY <1>1, <3>1, ResultChange
  <2>2. CASE attempts[id].kind # "Headless"
    BY <1>1, <2>2 DEF AnswerUnacked
  <2> QED
    BY <2>1, <2>2
<1>3. Ids' = Ids /\ \A x \in Ids : IsApply(x)' <=> IsApply(x)
  BY <1>2 DEF Ids, IsApply
<1>4. \A x : ApplyWaiting(x)' <=> ApplyWaiting(x)
  BY <1>2, <1>3 DEF ApplyWaiting, Ids
<1>5. \A x : ApplyWaiting(x) => x # 0
  BY DEF ApplyWaiting, Ids
<1>6. AttemptsOK'
  BY <1>2, <1>3 DEF OneAnswerOneSlot, AttemptsOK, Ids
<1>7. SlotHeldWhileUnanswered'
  <2>1. /\ \A x : (IsApply(x) /\ Waiting(x)) <=> ApplyWaiting(x)
        /\ \A x : (IsApply(x) /\ Waiting(x))' <=> ApplyWaiting(x)'
    BY DEF Waiting, ApplyWaiting
  <2>2. \A x \in Ids : attempts'[x].to = attempts[x].to
    BY <1>2 DEF Ids
  <2> QED
    BY <2>1, <2>2, <1>3, <1>4 DEF OneAnswerOneSlot, SlotHeldWhileUnanswered
<1> QED
  BY <1>2, <1>3, <1>4, <1>5, <1>6, <1>7

(* Nothing is ever held under id 0.                                          *)
\* Attempt ids start at 1.
LEMMA ZeroIsNowhere ==
    ASSUME Inv
    PROVE  ~InLane(0) /\ ~Announced(0) /\ ~IsPending(0) /\ ~InClosing(0)
<1>1. \A x \in Ids : x # 0
  BY DEF Ids
<1> QED
  BY <1>1 DEF Inv, OneAnswerOneSlot, LaneOK, AnnouncedOK, PendingOK, ClosingOK, ApplyWaiting,
         InLane, Announced, IsPending, InClosing

(* Gating an unacknowledged event keeps the invariant.                       *)
\* process_attached and process_headless, first half.
LEMMA GateKeepsInv ==
    ASSUME Inv, LaneGate
    PROVE  Inv'
<1> USE DEF Inv
<1> DEFINE id == Head(lane)
           gate == UnackedGate(attempts[id])
<1>1. /\ lanePc = "Recv" /\ lane # << >> /\ lane' = Tail(lane) /\ ~IsApply(id)
      /\ \/ lanePc' = "Handoff" /\ item' = id /\ UNCHANGED attempts
         \/ gate # "Pass" /\ AnswerUnacked(id, gate) /\ UNCHANGED <<lanePc, item>>
      /\ UNCHANGED <<now, admission, ticket, waiterVars, paneVars, cacheVars, authorityVars>>
  BY DEF LaneGate, IsApply
<1>2. /\ id \in Ids /\ lane' \in Seq(Nat)
      /\ \A x : InLane(x)' => InLane(x)
      /\ \A i, j \in 1..Len(lane') : lane'[i] = lane'[j] => i = j
  BY <1>1, LanePop
<1>3. attempts[id].kind = "Headless" /\ gate # "Pass" => gate \in Codes
  BY DEF UnackedGate, RouteGate, Codes
<1>4. ~InLane(0) /\ ~Announced(0) /\ ~IsPending(0) /\ ~InClosing(0)
  BY ZeroIsNowhere
<1> HIDE DEF id, gate
<1>5. /\ attempts' \in Seq(Attempt) /\ Ids' = Ids /\ AttemptsOK' /\ SlotHeldWhileUnanswered'
      /\ \A x \in Ids : IsApply(x)' <=> IsApply(x)
      /\ \A x : ApplyWaiting(x)' <=> ApplyWaiting(x) /\ x # 0
  <2>1. CASE UNCHANGED attempts
    <3>1. Ids' = Ids /\ AttemptsOK' /\ SlotHeldWhileUnanswered' /\ \A x \in Ids : IsApply(x)' <=> IsApply(x)
      BY <1>1, <2>1 DEF OneAnswerOneSlot, AttemptsOK, SlotHeldWhileUnanswered, IsApply, Waiting, Ids
    <3>2. \A x : ApplyWaiting(x)' <=> ApplyWaiting(x) /\ x # 0
      BY <2>1 DEF ApplyWaiting, IsApply, Ids
    <3> QED
      BY <2>1, <3>1, <3>2 DEF TypeOK
  <2>2. CASE gate # "Pass" /\ AnswerUnacked(id, gate)
    BY <1>1, <1>2, <1>3, <2>2, UnackedAnswer
  <2> QED
    BY <1>1, <2>1, <2>2
<1>6. /\ waitq' = waitq /\ pending' = pending /\ closing' = closing /\ ~InClosing(0)'
      /\ \A x : InLane(x)' => InLane(x) /\ x # 0
      /\ lanePc' \in {"Recv", "Handoff"} /\ (lanePc' = "Handoff" => item' \in Ids) /\ item' \in Nat
  BY <1>1, <1>2, <1>4 DEF waiterVars, InClosing, TypeOK, Ids
<1>7. OneAnswerOneSlot'
  BY <1>2, <1>4, <1>5, <1>6, AnsweredLeaves
<1>8. TypeOK'
  BY <1>1, <1>2, <1>5, <1>6 DEF TypeOK, waiterVars, paneVars, cacheVars, authorityVars,
     CacheTypeOK, AuthorityTypeOK
<1> QED
  BY <1>7, <1>8

(* Handing an unacknowledged event to its pane keeps the invariant.          *)
\* handoff_encoded.
LEMMA UnackedHandoffKeepsInv ==
    ASSUME Inv, LaneHandoffUnacked
    PROVE  Inv'
<1> USE DEF Inv
<1> DEFINE r == attempts[item].to
           gate == UnackedGate(attempts[item])
<1>1. /\ lanePc = "Handoff" /\ ~IsApply(item) /\ lanePc' = "Recv" /\ item' = 0
      /\ UNCHANGED <<now, admission, lane, ticket, waiterVars,
                     writerq, actor, writer, pty, cacheVars, authorityVars>>
  BY DEF LaneHandoffUnacked, IsApply
<1>2. item \in Ids /\ item \in Nat /\ attempts[item] \in Attempt /\ r \in Resources
  <2>1. item \in Ids /\ item \in Nat
    BY <1>1 DEF OneAnswerOneSlot, ThreadOK, TypeOK
  <2>2. attempts[item] \in Attempt
    BY <2>1 DEF TypeOK, Ids
  <2> QED
    BY <2>1, <2>2 DEF Attempt
<1>3. \E code : AnswerUnacked(item, code) /\ (attempts[item].kind = "Headless" => code \in Codes)
  <2>1. attempts[item].kind = "Headless" /\ gate # "Pass" => gate \in Codes
    BY DEF UnackedGate, RouteGate, Codes
  <2>2. "InternalError" \in Codes /\ "Ok" \in Codes
    BY DEF Codes, FinalResults
  <2> QED
    BY <2>1, <2>2 DEF LaneHandoffUnacked
<1>4. /\ attempts' \in Seq(Attempt) /\ Ids' = Ids /\ AttemptsOK' /\ SlotHeldWhileUnanswered'
      /\ \A x \in Ids : IsApply(x)' <=> IsApply(x)
      /\ \A x : ApplyWaiting(x)' <=> ApplyWaiting(x) /\ x # 0
  BY <1>1, <1>2, <1>3, UnackedAnswer
<1>5. ~InLane(0) /\ ~Announced(0) /\ ~IsPending(0) /\ ~InClosing(0)
  BY ZeroIsNowhere
<1>6. /\ waitq' = waitq /\ pending' = pending /\ closing' = closing /\ ~InClosing(0)'
      /\ \A x : InLane(x)' => InLane(x) /\ x # 0
      /\ \A i, j \in 1..Len(lane') : lane'[i] = lane'[j] => i = j
  BY <1>1, <1>5 DEF waiterVars, InClosing, InLane, OneAnswerOneSlot, LaneOK
<1>7. OneAnswerOneSlot'
  BY <1>1, <1>4, <1>5, <1>6, AnsweredLeaves
<1>8. mailbox' \in [Resources -> Seq(Request)]
  <2> DEFINE x == [id |-> item, ticket |-> 0]
  <2>1. x \in Request /\ mailbox[r] \in Seq(Request)
    BY <1>2 DEF Request, TypeOK
  <2>2. mailbox' = mailbox \/ mailbox' = [mailbox EXCEPT ![r] = Append(mailbox[r], x)]
    BY DEF LaneHandoffUnacked
  <2>3. Append(mailbox[r], x) \in Seq(Request)
    BY <2>1, AppendProperties
  <2> QED
    BY <2>2, <2>3 DEF TypeOK
<1>9. TypeOK'
  BY <1>1, <1>4, <1>6, <1>8 DEF TypeOK, waiterVars, cacheVars, authorityVars, CacheTypeOK, AuthorityTypeOK
<1> QED
  BY <1>7, <1>9

-----------------------------------------------------------------------------
(* The completion waiter.                                                    *)

(* The waiter takes batches from the queue into its pending set, and out of  *)
(* it to close them: none is dropped on the way or closed twice.             *)
\* run_waiter's receive and timeout arms.
LEMMA WaiterMoves ==
    ASSUME Inv, closing = {},
           \A p \in pending' : p \in pending \/ (p \in Request /\ Announced(p.id) /\ ~Announced(p.id)'),
           \A p, q \in pending' \ pending : p = q,
           closing' \subseteq Closing,
           \A f \in closing' : \E p \in pending \ pending' : p.id = f.id,
           \A f, g \in closing' : f.id = g.id => f = g,
           \A f \in closing' : f.how # "Resolve" => f.result \in FinalResults,
           waitq' \in Seq(WaiterMessage),
           \A x : Announced(x)' => Announced(x),
           \A i, j \in 1..Len(waitq') :
               waitq'[i].type = "Registered" /\ waitq'[j].type = "Registered" /\ waitq'[i].id = waitq'[j].id
                 => i = j,
           UNCHANGED <<attempts, admission, lane, lanePc, item>>
    PROVE  OneAnswerOneSlot' /\ pending' \subseteq Request
<1> USE DEF Inv
<1>1. \A x : /\ ApplyWaiting(x)' <=> ApplyWaiting(x)
             /\ InLane(x)' <=> InLane(x)
             /\ OnThread(x)' <=> OnThread(x)
  BY DEF ApplyWaiting, InLane, OnThread, IsApply, Ids
<1>2. AttemptsOK' /\ LaneOK' /\ ThreadOK' /\ SlotHeldWhileUnanswered'
  BY <1>1 DEF OneAnswerOneSlot, AttemptsOK, LaneOK, ThreadOK, SlotHeldWhileUnanswered, IsApply, Waiting, Ids
<1>3. \A x : Announced(x) => ApplyWaiting(x) /\ ~InLane(x) /\ ~OnThread(x)
  BY DEF OneAnswerOneSlot, AnnouncedOK, Announced
<1>4. AnnouncedOK'
  <2>1. ASSUME NEW i \in 1..Len(waitq'), waitq'[i].type = "Registered"
        PROVE  ApplyWaiting(waitq[i].id)' /\ ~InLane(waitq[i].id)' /\ ~OnThread(waitq[i].id)'
    <3>1. Announced(waitq'[i].id)
      <4>1. \A x : x = waitq'[i].id => Announced(x)'
        BY <2>1 DEF Announced
      <4> QED
        BY <4>1
    <3> QED
      BY <3>1, <1>1, <1>3
  <2> QED
    BY <2>1 DEF AnnouncedOK
<1>5. /\ \A p \in pending : ApplyWaiting(p.id) /\ ~InLane(p.id) /\ ~OnThread(p.id) /\ ~Announced(p.id)
      /\ \A p, q \in pending : p.id = q.id => p = q
  BY DEF OneAnswerOneSlot, PendingOK
<1>6. PendingOK'
  <2>1. ASSUME NEW p \in pending'
        PROVE  ApplyWaiting(p.id)' /\ ~InLane(p.id)' /\ ~OnThread(p.id)' /\ ~Announced(p.id)'
    BY <2>1, <1>1, <1>3, <1>5
  <2>2. ASSUME NEW p \in pending', NEW q \in pending', p.id = q.id PROVE p = q
    BY <2>2, <1>5
  <2> QED
    BY <2>1, <2>2 DEF PendingOK
<1>7. ClosingOK'
  <2>1. ASSUME NEW f \in closing'
        PROVE  /\ ApplyWaiting(f.id)' /\ ~InLane(f.id)' /\ ~OnThread(f.id)' /\ ~Announced(f.id)'
               /\ ~IsPending(f.id)'
    <3>1. PICK p \in pending \ pending' : p.id = f.id
      BY <2>1
    <3>2. \A q \in pending' : q.id # f.id
      BY <3>1, <1>5
    <3> QED
      BY <3>1, <3>2, <1>1, <1>5 DEF IsPending
  <2> QED
    BY <2>1 DEF ClosingOK
<1> QED
  BY <1>2, <1>4, <1>6, <1>7 DEF OneAnswerOneSlot, TypeOK

(* Reading one message keeps the invariant.                                  *)
\* run_waiter on Registered, Completed and Abandoned.
LEMMA ReceiveKeepsInv ==
    ASSUME Inv, WaiterReceive
    PROVE  Inv'
<1> USE DEF Inv
<1> DEFINE m == Head(waitq)
<1>1. /\ closing = {} /\ waitq # << >> /\ waitq' = Tail(waitq)
      /\ UNCHANGED <<now, attempts, admission, laneVars, paneVars, cacheVars, authorityVars>>
  BY DEF WaiterReceive
<1>2. waitq \in Seq(WaiterMessage) /\ Len(waitq) \in Nat /\ Len(waitq) > 0 /\ pending \subseteq Request
  BY <1>1 DEF TypeOK
<1>3. /\ m \in WaiterMessage /\ m = waitq[1] /\ 1 \in 1..Len(waitq)
      /\ waitq' \in Seq(WaiterMessage) /\ Len(waitq') = Len(waitq) - 1
      /\ \A i \in 1..Len(waitq') : waitq'[i] = waitq[i + 1]
  BY <1>1, <1>2, HeadTailProperties
<1>4. \A i \in 1..Len(waitq') : i + 1 \in 1..Len(waitq) /\ i + 1 # 1
  BY <1>2, <1>3
<1>5. \A i, j \in 1..Len(waitq) :
         waitq[i].type = "Registered" /\ waitq[j].type = "Registered" /\ waitq[i].id = waitq[j].id => i = j
  BY DEF OneAnswerOneSlot, AnnouncedOK
<1> HIDE DEF m
<1>6. /\ \A x : Announced(x)' => Announced(x)
      /\ m.type = "Registered" => Announced(m.id)
      /\ \A x : m.type = "Registered" /\ x = m.id => ~Announced(x)'
  BY <1>3, <1>4, <1>5 DEF Announced
<1>7. ASSUME NEW i \in 1..Len(waitq'), NEW j \in 1..Len(waitq'), waitq'[i].type = "Registered",
             waitq'[j].type = "Registered", waitq'[i].id = waitq'[j].id
      PROVE  i = j
  <2>1. i + 1 = j + 1
    BY <1>3, <1>4, <1>5, <1>7
  <2> QED
    BY <2>1
<1>8. PICK k \in {0} \cup {p.ticket : p \in pending} :
         LET kept == pending \ Expired(k)
             named == {p \in kept : p.ticket = m.ticket}
         IN  \/ /\ m.type = "Registered"
                /\ pending' = kept \cup {[id |-> m.id, ticket |-> m.ticket]}
                /\ closing' = TimedOut(k)
             \/ /\ m.type \in {"Completed", "Abandoned"}
                /\ pending' = kept \ named
                /\ closing' = TimedOut(k) \cup {Verdict(m, p) : p \in named}
  BY DEF WaiterReceive, m
<1> DEFINE kept == pending \ Expired(k)
           named == {p \in kept : p.ticket = m.ticket}
           Moved ==
             /\ \A p \in pending' : p \in pending \/ (p \in Request /\ Announced(p.id) /\ ~Announced(p.id)')
             /\ \A p, q \in pending' \ pending : p = q
             /\ closing' \subseteq Closing
             /\ \A f \in closing' : \E p \in pending \ pending' : p.id = f.id
             /\ \A f, g \in closing' : f.id = g.id => f = g
             /\ \A f \in closing' : f.how # "Resolve" => f.result \in FinalResults
<1>9. /\ TimedOut(k) \subseteq Closing
      /\ \A f \in TimedOut(k) : /\ f.how = "Finalize" /\ f.result \in FinalResults
                                /\ \E p \in Expired(k) : p.id = f.id
      /\ \A f, g \in TimedOut(k) : f.id = g.id => f = g
  BY <1>2 DEF TimedOut, Expired, Closing, Request, Codes, FinalResults
<1>10. \A p, q \in pending : p.id = q.id => p = q
  BY DEF OneAnswerOneSlot, PendingOK
<1>11. lanePc' = lanePc /\ item' = item /\ lane' = lane
  BY <1>1 DEF laneVars
<1>12. pending \ kept = Expired(k) /\ Expired(k) \subseteq pending
  BY DEF Expired
<1>13. ASSUME m.type = "Registered" PROVE Moved
  <2> DEFINE new == [id |-> m.id, ticket |-> m.ticket]
  <2>1. pending' = kept \cup {new} /\ closing' = TimedOut(k)
    BY <1>8, <1>13
  <2>2. new \in Request /\ new.id = m.id
    BY <1>3, <1>13 DEF WaiterMessage, Request
  <2>3. Announced(new.id) /\ \A p : p = new => ~Announced(p.id)'
    BY <2>2, <1>6, <1>13
  <2>4. new \notin pending
    BY <2>3 DEF OneAnswerOneSlot, PendingOK
  <2> HIDE DEF new
  <2>5. \A p \in pending' : p \in pending \/ (p \in Request /\ Announced(p.id) /\ ~Announced(p.id)')
    BY <2>1, <2>2, <2>3
  <2>6. \A p, q \in pending' \ pending : p = q
    BY <2>1
  <2>7. \A f \in closing' : \E p \in pending \ pending' : p.id = f.id
    BY <2>1, <2>4, <1>9, <1>12
  <2>8. /\ closing' \subseteq Closing
        /\ \A f, g \in closing' : f.id = g.id => f = g
        /\ \A f \in closing' : f.how # "Resolve" => f.result \in FinalResults
    BY <1>9, <2>1
  <2> QED
    BY <2>5, <2>6, <2>7, <2>8, Zenon
<1>14. ASSUME m.type \in {"Completed", "Abandoned"} PROVE Moved
  <2> DEFINE verdicts == {Verdict(m, p) : p \in named}
  <2>1. pending' = kept \ named /\ closing' = TimedOut(k) \cup verdicts
    BY <1>8, <1>14
  <2>2. /\ m.type = "Completed" => CompletionResult(m.outcome) \in FinalResults
        /\ m.type = "Abandoned" => m.result \in Codes
    BY <1>3 DEF WaiterMessage, CompletionResult, WriteOutcomes, FinalResults
  <2>3. \A p \in pending : /\ Verdict(m, p) \in Closing /\ Verdict(m, p).id = p.id
                           /\ Verdict(m, p).how # "Resolve" => Verdict(m, p).result \in FinalResults
    BY <1>2, <1>14, <2>2 DEF Verdict, Closing, Request, Codes
  <2>4. named \subseteq kept /\ kept \subseteq pending /\ kept \cap Expired(k) = {}
    OBVIOUS
  <2>5. \A f \in verdicts : /\ f \in Closing /\ (f.how # "Resolve" => f.result \in FinalResults)
                            /\ \E p \in named : f = Verdict(m, p) /\ f.id = p.id
    BY <2>3
  <2> HIDE DEF verdicts, kept, named
  <2>6. \A f \in closing' : \E p \in pending \ pending' : p.id = f.id
    BY <1>9, <1>12, <2>1, <2>4, <2>5
  <2>7. \A f, g \in closing' : f.id = g.id => f = g
    BY <1>9, <1>10, <1>12, <2>1, <2>4, <2>5
  <2>8. /\ closing' \subseteq Closing
        /\ \A f \in closing' : f.how # "Resolve" => f.result \in FinalResults
    BY <1>9, <2>1, <2>5
  <2>9. pending' \subseteq pending
    BY <2>1, <2>4
  <2>10. \A p \in pending' : p \in pending
    BY <2>9
  <2>11. \A p, q \in pending' \ pending : p = q
    BY <2>9
  <2> QED
    BY <2>6, <2>7, <2>8, <2>10, <2>11, Zenon
<1>15. Moved
  BY <1>8, <1>13, <1>14
<1> HIDE DEF kept, named
<1>16. OneAnswerOneSlot' /\ pending' \subseteq Request
  BY <1>1, <1>3, <1>6, <1>7, <1>11, <1>15, WaiterMoves
<1> QED
  BY <1>1, <1>3, <1>11, <1>15, <1>16
     DEF TypeOK, laneVars, paneVars, cacheVars, authorityVars, CacheTypeOK, AuthorityTypeOK

(* Giving up on the batches past their deadline keeps the invariant.         *)
\* run_waiter's Timeout arm.
LEMMA TimeoutKeepsInv ==
    ASSUME Inv, WaiterTimeout
    PROVE  Inv'
<1> USE DEF Inv
<1>1. /\ closing = {}
      /\ UNCHANGED <<now, attempts, admission, laneVars, waitq, paneVars, cacheVars, authorityVars>>
  BY DEF WaiterTimeout
<1>2. PICK p \in pending : pending' = pending \ Expired(p.ticket) /\ closing' = TimedOut(p.ticket)
  BY DEF WaiterTimeout
<1>3. pending \subseteq Request
  BY DEF TypeOK
<1>4. /\ TimedOut(p.ticket) \subseteq Closing
      /\ \A f \in TimedOut(p.ticket) : f.how = "Finalize" /\ f.result \in FinalResults
      /\ \A f, g \in TimedOut(p.ticket) : f.id = g.id => f = g
  BY <1>3 DEF TimedOut, Expired, Closing, Request, Codes, FinalResults
<1>5. \A f \in closing' : \E q \in pending \ pending' : q.id = f.id
  BY <1>2 DEF TimedOut, Expired
<1>6. /\ pending' \subseteq pending
      /\ waitq' \in Seq(WaiterMessage) /\ \A x : Announced(x)' => Announced(x)
      /\ lanePc' = lanePc /\ item' = item /\ lane' = lane
  BY <1>1, <1>2 DEF laneVars, Announced, TypeOK
<1>7. \A i, j \in 1..Len(waitq') :
         waitq'[i].type = "Registered" /\ waitq'[j].type = "Registered" /\ waitq'[i].id = waitq'[j].id => i = j
  BY <1>1 DEF OneAnswerOneSlot, AnnouncedOK
<1>8. OneAnswerOneSlot' /\ pending' \subseteq Request
  BY <1>1, <1>2, <1>4, <1>5, <1>6, <1>7, WaiterMoves
<1>9. closing' \subseteq Closing
  BY <1>2, <1>4
<1> QED
  BY <1>1, <1>6, <1>8, <1>9 DEF TypeOK, laneVars, paneVars, cacheVars, authorityVars, CacheTypeOK, AuthorityTypeOK

(* Writing the result into the dedupe record moves no batch.                 *)
\* PendingCompletion::finalize, first half.
LEMMA RecordKeepsInv ==
    ASSUME Inv, RecordFinal
    PROVE  Inv'
<1> USE DEF Inv
<1>1. PICK f \in closing :
        /\ f.how = "Finalize"
        /\ SetFinal(attempts[f.id].op, f.result)
        /\ closing' = (closing \ {f}) \cup {[f EXCEPT !.how = "Recorded"]}
        /\ UNCHANGED <<now, attempts, admission, laneVars, waitq, pending, paneVars, authorityVars>>
  BY DEF RecordFinal
<1> DEFINE g == [f EXCEPT !.how = "Recorded"]
<1>2. f \in Closing /\ g \in Closing /\ g.id = f.id /\ g.how = "Recorded" /\ g.result = f.result
  BY DEF TypeOK, Closing
<1>3. /\ ApplyWaiting(f.id) /\ f.result \in FinalResults
      /\ \A h \in closing : h.id = f.id => h = f
  BY <1>1 DEF OneAnswerOneSlot, ClosingOK
<1>4. attempts[f.id].op \in Operations
  BY <1>3 DEF OneAnswerOneSlot, AttemptsOK, ApplyWaiting
<1>5. CacheTypeOK'
  BY <1>1, <1>3, <1>4, SetFinalTyped DEF TypeOK
<1> HIDE DEF g
<1>6. closing' = (closing \ {f}) \cup {g} /\ closing' \subseteq Closing
  BY <1>1, <1>2 DEF g, TypeOK
<1>7. /\ UNCHANGED <<attempts, admission, lane, lanePc, item, waitq, pending>>
  BY <1>1 DEF laneVars
<1>8. \A x : /\ ApplyWaiting(x)' <=> ApplyWaiting(x)
             /\ InLane(x)' <=> InLane(x)
             /\ OnThread(x)' <=> OnThread(x)
             /\ Announced(x)' <=> Announced(x)
             /\ IsPending(x)' <=> IsPending(x)
  BY <1>7 DEF ApplyWaiting, InLane, OnThread, Announced, IsPending, IsApply, Ids
<1>9. AttemptsOK' /\ LaneOK' /\ ThreadOK' /\ SlotHeldWhileUnanswered'
  BY <1>7, <1>8 DEF OneAnswerOneSlot, AttemptsOK, LaneOK, ThreadOK, SlotHeldWhileUnanswered, IsApply, Waiting, Ids
<1>10. AnnouncedOK' /\ PendingOK'
  BY <1>7, <1>8 DEF OneAnswerOneSlot, AnnouncedOK, PendingOK
<1>11. ClosingOK'
  <2>1. ASSUME NEW h \in closing'
        PROVE  /\ ApplyWaiting(h.id) /\ ~InLane(h.id) /\ ~OnThread(h.id) /\ ~Announced(h.id)
               /\ ~IsPending(h.id)
               /\ h.how # "Resolve" => h.result \in FinalResults
    BY <1>2, <1>3, <1>6, <2>1 DEF OneAnswerOneSlot, ClosingOK
  <2>2. \A h, j \in closing' : h.id = j.id => h = j
    BY <1>2, <1>3, <1>6 DEF OneAnswerOneSlot, ClosingOK
  <2> QED
    BY <1>8, <2>1, <2>2 DEF ClosingOK
<1>12. OneAnswerOneSlot'
  BY <1>9, <1>10, <1>11 DEF OneAnswerOneSlot
<1>13. TypeOK'
  BY <1>1, <1>5, <1>6 DEF TypeOK, laneVars, paneVars, authorityVars, AuthorityTypeOK
<1> QED
  BY <1>12, <1>13

(* The reply gives the slot back, and nothing else held the batch.           *)
\* PendingCompletion::finalize, second half; resolve_without_writer.
LEMMA ReplyKeepsInv ==
    ASSUME Inv, ReleaseAndReply
    PROVE  Inv'
<1> USE DEF Inv
<1>1. PICK f \in closing :
        /\ Refuse(f.id, f.result)
        /\ closing' = closing \ {f}
        /\ UNCHANGED <<now, laneVars, waitq, pending, paneVars, cacheVars, authorityVars>>
  BY DEF ReleaseAndReply
<1> DEFINE id == f.id
<1>2. f.result \in Codes
  BY DEF TypeOK, Closing
<1>3. /\ ApplyWaiting(id) /\ ~InLane(id) /\ ~OnThread(id) /\ ~Announced(id) /\ ~IsPending(id)
      /\ \A h \in closing : h.id = id => h = f
  BY <1>1 DEF OneAnswerOneSlot, ClosingOK
<1>4. id \in Ids
  BY <1>3 DEF ApplyWaiting
<1>5. /\ attempts' \in Seq(Attempt) /\ Ids' = Ids /\ admission' \subseteq Resources
      /\ AttemptsOK' /\ SlotHeldWhileUnanswered'
      /\ \A x \in Ids : IsApply(x)' <=> IsApply(x)
      /\ \A x : ApplyWaiting(x)' <=> ApplyWaiting(x) /\ x # id
  BY <1>1, <1>2, <1>3, <1>4, AnswerFreesSlot
<1>6. /\ closing' \subseteq closing /\ \A x : x = id => ~InClosing(x)'
      /\ waitq' = waitq /\ pending' = pending /\ lane' = lane /\ lanePc' = lanePc /\ item' = item
  BY <1>1, <1>3 DEF InClosing, laneVars
<1>7. /\ \A x : InLane(x)' => InLane(x) /\ x # id
      /\ \A i, j \in 1..Len(lane') : lane'[i] = lane'[j] => i = j
  BY <1>3, <1>6 DEF InLane, OneAnswerOneSlot, LaneOK
<1>8. /\ lanePc' \in {"Recv", "Register", "Handoff"}
      /\ lanePc' = "Register" => lanePc = "Register" /\ item' = item /\ item # id
      /\ lanePc' = "Handoff" => item' \in Ids
  BY <1>3, <1>6 DEF TypeOK, OnThread, OneAnswerOneSlot, ThreadOK
<1>9. PICK y \in Ids : y = id
  BY <1>4
<1> HIDE DEF id
<1>10. OneAnswerOneSlot'
  BY <1>3, <1>5, <1>6, <1>7, <1>8, <1>9, AnsweredLeaves
<1>11. TypeOK'
  BY <1>1, <1>5, <1>6 DEF TypeOK, laneVars, paneVars, cacheVars, authorityVars, CacheTypeOK, AuthorityTypeOK
<1> QED
  BY <1>10, <1>11

-----------------------------------------------------------------------------
(* The remaining steps, and the theorems.                                    *)

(* Leases, subscriptions and the clock move no batch.                        *)
\* state/{lease_table,resource_table,client}.rs.
LEMMA AuthorityKeepsInv ==
    ASSUME Inv, Tick \/ \E c \in Clients : AuthorityStep(c)
    PROVE  Inv'
<1> USE DEF Inv
<1>1. UNCHANGED <<attempts, admission, laneVars, waiterVars, paneVars, cacheVars>>
  BY DEF Tick, AuthorityStep
<1>2. OnlyReportsAdded
  BY <1>1 DEF OnlyReportsAdded, waiterVars, TypeOK
<1>3. OneAnswerOneSlot'
  BY <1>1, <1>2, ReportsMoveNothing DEF laneVars, waiterVars
<1>4. now' \in Nat
  BY DEF Tick, AuthorityStep, TypeOK
<1>5. AuthorityTypeOK'
  <2>1. CASE Tick
    BY <2>1 DEF Tick, TypeOK, authorityVars, AuthorityTypeOK
  <2>2. ASSUME NEW c \in Clients, AuthorityStep(c) PROVE AuthorityTypeOK'
    <3>1. AuthorityTypeOK
      BY DEF TypeOK
    <3>2. ASSUME NEW r \in Resources, Subscribe(c, r) \/ Unsubscribe(c, r) PROVE AuthorityTypeOK'
      BY <3>1, <3>2 DEF Subscribe, Unsubscribe, AuthorityTypeOK
    <3>3. ASSUME NEW r \in Resources,
                 ReleaseInput(c, r) \/ \E mode \in Modes : AcquireInput(c, r, mode)
          PROVE  AuthorityTypeOK'
      BY <3>1, <3>3 DEF ReleaseInput, AcquireInput, AuthorityTypeOK
    <3>4. CASE Detach(c)
      BY <3>1, <3>4 DEF Detach, AuthorityTypeOK
    <3> QED
      BY <2>2, <3>2, <3>3, <3>4 DEF AuthorityStep
  <2> QED
    BY <2>1, <2>2
<1>6. TypeOK'
  BY <1>1, <1>4, <1>5 DEF TypeOK, laneVars, waiterVars, paneVars, cacheVars, CacheTypeOK
<1> QED
  BY <1>3, <1>6

(* The invariant holds initially.                                            *)
\* spawn_input_lane, InputLane::new.
LEMMA InitInv == Init => Inv
<1> SUFFICES ASSUME Init PROVE Inv
  OBVIOUS
<1>1. TypeOK
  BY DEF Init, TypeOK, CacheInit, CacheTypeOK, AuthorityInit, AuthorityTypeOK
<1>2. OneAnswerOneSlot
  BY DEF Init, OneAnswerOneSlot, AttemptsOK, LaneOK, ThreadOK, AnnouncedOK, PendingOK, ClosingOK,
     SlotHeldWhileUnanswered, Ids
<1> QED
  BY <1>1, <1>2 DEF Inv

(* Every step of every thread keeps the invariant.                           *)
\* The whole pipeline.
LEMMA NextInv == Inv /\ [Next]_vars => Inv'
<1> SUFFICES ASSUME Inv, [Next]_vars PROVE Inv'
  OBVIOUS
<1>1. CASE Tick \/ \E c \in Clients : AuthorityStep(c)
  BY <1>1, AuthorityKeepsInv
<1>2. CASE \E c \in Clients, r \in Resources : ClientStep(c, r)
  BY <1>2, ClientKeepsInv
<1>3. CASE LaneStep
  BY <1>3, BindKeepsInv, RegisterKeepsInv, HandoffKeepsInv, GateKeepsInv, UnackedHandoffKeepsInv DEF LaneStep
<1>4. CASE WaiterStep
  BY <1>4, ReceiveKeepsInv, TimeoutKeepsInv, RecordKeepsInv, ReplyKeepsInv DEF WaiterStep
<1>5. CASE \E r \in Resources : PaneStep(r)
  BY <1>5, PaneKeepsInv
<1>6. CASE UNCHANGED vars
  <2>1. UNCHANGED <<now, attempts, admission, laneVars, waiterVars, paneVars, cacheVars, authorityVars>>
    BY <1>6 DEF vars
  <2>2. OnlyReportsAdded
    BY <2>1 DEF OnlyReportsAdded, waiterVars, Inv, TypeOK
  <2>3. OneAnswerOneSlot'
    BY <2>1, <2>2, ReportsMoveNothing DEF laneVars, waiterVars
  <2>4. TypeOK'
    BY <2>1 DEF Inv, TypeOK, laneVars, waiterVars, paneVars, cacheVars, authorityVars,
       CacheTypeOK, AuthorityTypeOK
  <2> QED
    BY <2>3, <2>4 DEF Inv
<1> QED
  BY <1>1, <1>2, <1>3, <1>4, <1>5, <1>6 DEF Next

(* The inductive invariant of the pipeline, for any number of clients,       *)
(* Terminals and frames and any queue capacities.                            *)
\* PendingCompletion has one owner from apply_input to its reply.
THEOREM InvHolds == Spec => []Inv
  BY InitInv, NextInv, PTL DEF Spec

(* Every variable of the pipeline keeps its type.                            *)
\* The whole pipeline.
THEOREM TypeCorrect == Spec => []TypeOK
<1>1. Inv => TypeOK
  BY DEF Inv
<1> QED
  BY <1>1, InvHolds, PTL

(* The answer to a batch is in exactly one place.                            *)
\* PendingCompletion.
THEOREM AnswerHasOneOwner == Spec => []OneAnswerOneSlot
<1>1. Inv => OneAnswerOneSlot
  BY DEF Inv
<1> QED
  BY <1>1, InvHolds, PTL

(* A Terminal's acknowledged slot is held exactly while one batch for it is  *)
(* unanswered: never two at once, and never leaked.                          *)
\* AcknowledgedReservation's try_acquire and Drop.
THEOREM SlotSafety == Spec => []SlotHeldWhileUnanswered
<1>1. Inv => SlotHeldWhileUnanswered
  BY DEF Inv, OneAnswerOneSlot
<1> QED
  BY <1>1, InvHolds, PTL

(* Every dedupe record will be pruned, and the record never outgrows its     *)
(* capacity.                                                                 *)
\* OperationCache::{bind_at, prune_expired, set_final}.
THEOREM RecordsExpire == Spec => []EveryRecordExpires
<1>1. Init => EveryRecordExpires
  <2> SUFFICES ASSUME Init PROVE EveryRecordExpires
    OBVIOUS
  <2>1. Recorded(entries) = {}
    BY DEF Init, CacheInit, Recorded
  <2> QED
    BY <2>1, FS_EmptySet, CacheAssumption DEF EveryRecordExpires
<1>2. Inv /\ EveryRecordExpires /\ [Next]_vars => EveryRecordExpires'
  <2> SUFFICES ASSUME Inv, EveryRecordExpires, [Next]_vars PROVE EveryRecordExpires'
    OBVIOUS
  <2>1. CASE UNCHANGED cacheVars
    BY <2>1 DEF cacheVars, EveryRecordExpires, Recorded
  <2>2. CASE LaneBind
    <3> DEFINE a == attempts[Head(lane)]
    <3>1. lane # << >> /\ lane' = Tail(lane) /\ a.kind = "Apply"
      BY <2>2 DEF LaneBind
    <3>2. Head(lane) \in Ids
      BY <3>1, LanePop
    <3>3. a \in Attempt /\ a.op \in Operations /\ a.payload \in Payloads
      BY <3>1, <3>2 DEF Inv, TypeOK, Ids, OneAnswerOneSlot, AttemptsOK, IsApply
    <3>4. OperationDigest(a) \in Digests /\ a.admitted \in Nat
      BY <3>3, LaneAssumption DEF OperationDigest, Attempt
    <3>5. UNCHANGED cacheVars \/ \E b : BindAt(a.op, OperationDigest(a), a.admitted, b)
      BY <2>2 DEF LaneBind
    <3> HIDE DEF a
    <3> QED
      BY <2>1, <3>3, <3>4, <3>5, BindKeepsExpiry DEF Inv, TypeOK
  <2>3. CASE RecordFinal
    <3>1. PICK f \in closing : f.how = "Finalize" /\ SetFinal(attempts[f.id].op, f.result)
      BY <2>3 DEF RecordFinal
    <3>2. ApplyWaiting(f.id) /\ f.result \in FinalResults
      BY <3>1 DEF Inv, OneAnswerOneSlot, ClosingOK
    <3>3. attempts[f.id].op \in Operations
      BY <3>2 DEF Inv, OneAnswerOneSlot, AttemptsOK, ApplyWaiting
    <3> QED
      BY <3>1, <3>2, <3>3, SetFinalKeepsExpiry DEF Inv, TypeOK
  <2>4. UNCHANGED cacheVars \/ LaneBind \/ RecordFinal
    <3>1. ASSUME NEW c \in Clients, NEW r \in Resources, ClientStep(c, r) PROVE UNCHANGED cacheVars
      BY <3>1 DEF ClientStep, RouteAttached, RouteCommand, ApplyInput
    <3>2. ASSUME NEW r \in Resources, PaneStep(r) PROVE UNCHANGED cacheVars
      BY <3>2 DEF PaneStep, ServiceEncodedInput, ActorStops, ActorExits, MailboxDrop, ReapResource,
         WriteDelivers, WriteRefused, WriteFails, WriterQueueDrop
    <3>3. LaneStep => UNCHANGED cacheVars \/ LaneBind
      BY DEF LaneStep, LaneRegister, LaneHandoff, LaneGate, LaneHandoffUnacked
    <3>4. WaiterStep => UNCHANGED cacheVars \/ RecordFinal
      BY DEF WaiterStep, WaiterReceive, WaiterTimeout, ReleaseAndReply
    <3>5. Tick \/ (\E c \in Clients : AuthorityStep(c)) \/ UNCHANGED vars => UNCHANGED cacheVars
      BY DEF Tick, AuthorityStep, vars
    <3> QED
      BY <3>1, <3>2, <3>3, <3>4, <3>5 DEF Next
  <2> QED
    BY <2>1, <2>2, <2>3, <2>4
<1> QED
  BY <1>1, <1>2, InvHolds, PTL DEF Spec

(* Nothing enters a pane's mailbox while another client holds its lease.     *)
\* with_route_input_destination and with_attached_input_destination, taken
\* under the lock of the try_send.
THEOREM LeaseSafety == Spec => LeaseExcludes
<1> DEFINE Grew(r) == Len(mailbox'[r]) > Len(mailbox[r])
           Entitled(r) == holder[r] \in {NoOne, attempts[mailbox'[r][Len(mailbox'[r])].id].client}
<1>1. Inv /\ Next => \A r \in Resources : Grew(r) => Entitled(r)
  <2> SUFFICES ASSUME Inv, Next, NEW r \in Resources, Grew(r) PROVE Entitled(r)
    OBVIOUS
  <2>1. mailbox \in [Resources -> Seq(Request)] /\ item \in Nat /\ ticket \in Nat
    BY DEF Inv, TypeOK
  <2>2. mailbox' # mailbox
    BY <2>1
  <2>3. ~(\E q \in Resources : PaneStep(q))
    <3> SUFFICES ASSUME NEW q \in Resources, PaneStep(q) PROVE FALSE
      OBVIOUS
    <3>1. mailbox' = mailbox \/ (mailbox[q] # << >> /\ mailbox' = [mailbox EXCEPT ![q] = Tail(mailbox[q])])
      BY DEF PaneStep, ServiceEncodedInput, ActorStops, ActorExits, MailboxDrop, ReapResource,
         WriteDelivers, WriteRefused, WriteFails, WriterQueueDrop, paneVars
    <3>2. mailbox[q] # << >> => Len(Tail(mailbox[q])) = Len(mailbox[q]) - 1 /\ Len(mailbox[q]) \in Nat
      BY <2>1, HeadTailProperties
    <3>3. mailbox[q] # << >> /\ mailbox' = [mailbox EXCEPT ![q] = Tail(mailbox[q])]
      BY <2>2, <3>1
    <3>4. Len(mailbox[r]) \in Nat /\ Len(mailbox'[q]) = Len(mailbox[q]) - 1
      BY <2>1, <3>2, <3>3
    <3>5. r # q => mailbox'[r] = mailbox[r]
      BY <2>1, <3>3
    <3> QED
      BY <3>2, <3>3, <3>4, <3>5
  <2>4. LaneHandoff \/ LaneHandoffUnacked
    <3>1. ASSUME NEW c \in Clients, NEW q \in Resources, ClientStep(c, q) PROVE mailbox' = mailbox
      BY <3>1 DEF ClientStep, RouteAttached, RouteCommand, ApplyInput, paneVars
    <3>2. LaneStep => mailbox' = mailbox \/ LaneHandoff \/ LaneHandoffUnacked
      BY DEF LaneStep, LaneBind, LaneRegister, LaneGate, paneVars
    <3>3. WaiterStep => mailbox' = mailbox
      BY DEF WaiterStep, WaiterReceive, WaiterTimeout, RecordFinal, ReleaseAndReply, paneVars
    <3>4. Tick \/ (\E c \in Clients : AuthorityStep(c)) => mailbox' = mailbox
      BY DEF Tick, AuthorityStep, paneVars
    <3> QED
      BY <2>2, <2>3, <3>1, <3>2, <3>3, <3>4 DEF Next
  <2> DEFINE to == attempts[item].to
  <2>5. /\ \E k : mailbox' = [mailbox EXCEPT ![to] = Append(mailbox[to], [id |-> item, ticket |-> k])]
        /\ ~InputBlocked(attempts[item].client, to)
    <3>1. CASE LaneHandoff
      BY <2>2, <3>1 DEF LaneHandoff, RouteGate
    <3>2. CASE LaneHandoffUnacked
      <4>1. UnackedGate(attempts[item]) = "Pass" => ~InputBlocked(attempts[item].client, to)
        BY DEF UnackedGate, RouteGate, AttachedGate
      <4>2. /\ UnackedGate(attempts[item]) = "Pass"
            /\ mailbox' = [mailbox EXCEPT ![to] = Append(mailbox[to], [id |-> item, ticket |-> 0])]
        BY <2>2, <3>2 DEF LaneHandoffUnacked
      <4> QED
        BY <4>1, <4>2
    <3> QED
      BY <2>4, <3>1, <3>2
  <2>6. PICK k : mailbox' = [mailbox EXCEPT ![to] = Append(mailbox[to], [id |-> item, ticket |-> k])]
    BY <2>5
  <2> HIDE DEF to
  <2>7. r = to
    BY <2>1, <2>6
  <2>8. mailbox'[r] = Append(mailbox[r], [id |-> item, ticket |-> k])
    BY <2>1, <2>6, <2>7
  <2>9. mailbox'[r][Len(mailbox'[r])].id = item
    BY <2>1, <2>8
  <2> QED
    BY <2>5, <2>7, <2>9 DEF InputBlocked
<1>2. Inv /\ [Next]_vars => [\A r \in Resources : Grew(r) => Entitled(r)]_vars
  BY <1>1
<1> QED
  BY <1>2, InvHolds, PTL DEF Spec, LeaseExcludes
=============================================================================
