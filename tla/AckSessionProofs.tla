-------------------------- MODULE AckSessionProofs --------------------------
(* Proofs about acknowledged input from end to end: what the user is told of *)
(* a paste is so, only a late paste is written twice, delivered pastes are   *)
(* in order, and the session implements the contract of AckContract.         *)
(*                                                                           *)
(* The server's half reuses the invariants and the step lemmas of            *)
(* InputLaneProofs and InputHandedProofs; a restart, which those modules do  *)
(* not have, is shown to keep them.  The journal's half follows next_frame,  *)
(* sweep and resolve.                                                        *)
EXTENDS AckSessionInv, InputHandedProofs, FiniteSetTheorems

-----------------------------------------------------------------------------
(* The server.  Its threads, a frame taken off the socket, and a restart     *)
(* keep the server's half of the invariant; what the journal may rely on is  *)
(* how they move the history.                                                *)

\* What a step of the server's threads may do to the history.
ServerMoves ==
    /\ Ids' = Ids /\ now =< now'
    /\ \A x \in Ids :
          /\ attempts'[x].kind = attempts[x].kind /\ attempts'[x].op = attempts[x].op
          /\ attempts'[x].admitted = attempts[x].admitted
          /\ \/ attempts'[x].bound = attempts[x].bound
             \/ /\ attempts'[x].result = attempts[x].result /\ entries'[OpOf(x)] # NoEntry
                /\ attempts'[x].bound = entries'[OpOf(x)].inserted
    /\ \A o \in Operations : entries'[o] # NoEntry =>
          \/ entries[o] # NoEntry /\ entries'[o].inserted = entries[o].inserted
          \/ \E x \in Ids : OpOf(x) = o /\ entries'[o].inserted = attempts[x].admitted
    /\ \A x \in Ids : ApplyWaiting(x)' => ApplyWaiting(x)
    /\ \A x \in Ids : May(x)' => May(x) \/ InLane(x)
    /\ \A x : InLane(x)' => InLane(x)
    /\ lanePc' # "Recv" => (lanePc # "Recv" /\ item' = item) \/ InLane(item')
    /\ \A x : Whole(x) => Whole(x)'

(* Looking an operation up binds the frame to the record that is there, or   *)
(* to the one it makes, and hands nothing over.                              *)
\* prepare_acknowledged_batch, OperationCache::bind_at.
LEMMA BindMoves ==
    ASSUME Inv, HandedInv, LaneBind
    PROVE  ServerMoves
<1>1. PICK id : id = Head(lane)
  OBVIOUS
<1>2. lanePc = "Recv" /\ lane # << >> /\ lane' = Tail(lane) /\ attempts[id].kind = "Apply" /\ now' = now
      /\ UNCHANGED <<mailbox, writerq, pty>>
  BY <1>1 DEF LaneBind, paneVars
<1>3. id \in Ids /\ InLane(id) /\ \A x : InLane(x)' => InLane(x)
  BY <1>1, <1>2, LanePop
<1>4. IsApply(id) /\ ApplyWaiting(id) /\ OpOf(id) \in Operations /\ attempts[id].admitted \in Nat
      /\ OperationDigest(attempts[id]) \in Digests
  <2>1. IsApply(id) /\ ApplyWaiting(id) /\ OpOf(id) \in Operations /\ attempts[id].payload \in Payloads
    BY <1>2, <1>3 DEF IsApply, OpOf, InLane, Inv, OneAnswerOneSlot, LaneOK, AttemptsOK
  <2>2. attempts[id].to \in Resources /\ attempts[id].admitted \in Nat
    BY <1>3, AttemptTyped DEF Inv, TypeOK, Ids
  <2> QED
    BY <2>1, <2>2, LaneAssumption DEF OperationDigest
<1>5. \A x : (Handed(x)' <=> Handed(x)) /\ (Whole(x)' <=> Whole(x))
  BY <1>2, PanesStill DEF HandedInv
<1>6. now =< now'
  BY <1>2 DEF Inv, TypeOK
<1>7. ASSUME NEW code \in Codes, Refuse(id, code), lanePc' = lanePc,
             \A o \in Operations : entries'[o] # NoEntry => entries'[o] = entries[o]
      PROVE  ServerMoves
  <2>1. AnswersOnly
    BY <1>3, <1>7, RefusalAnswers
  <2>2. \A x : ~OnHand(x)'
    BY <1>2, <1>7 DEF OnHand
  <2> QED
    BY <2>1, <2>2, <1>2, <1>3, <1>5, <1>6, <1>7 DEF ServerMoves, AnswersOnly, May
<1>8. CASE attempts[id].payload \in Malformed
  <2>1. Refuse(id, "InvalidCommand") /\ entries' = entries /\ lanePc' = lanePc
    BY <1>1, <1>8 DEF LaneBind, cacheVars
  <2> QED
    BY <2>1, <1>7 DEF Codes
<1>9. CASE attempts[id].payload \notin Malformed
  <2>1. PICK b \in {"New", "Pending", "Final", "Conflict", "Full"} :
          /\ BindAt(OpOf(id), OperationDigest(attempts[id]), attempts[id].admitted, b)
          /\ \/ /\ b \in {"New", "Pending"} /\ lanePc' = "Register" /\ item' = id
                /\ attempts' = [attempts EXCEPT ![id].bound = entries'[OpOf(id)].inserted]
             \/ /\ b = "Final" /\ Refuse(id, entries'[OpOf(id)].result) /\ lanePc' = lanePc
             \/ /\ b = "Conflict" /\ Refuse(id, "InvalidCommand") /\ lanePc' = lanePc
             \/ /\ b = "Full" /\ Refuse(id, "ResourceExhausted") /\ lanePc' = lanePc
    BY <1>1, <1>9 DEF LaneBind, OpOf
  <2>2. PICK o, d, t : o = OpOf(id) /\ d = OperationDigest(attempts[id]) /\ t = attempts[id].admitted
    OBVIOUS
  <2>3. BindAt(o, d, t, b) /\ o \in Operations /\ d \in Digests /\ t \in Nat /\ CacheTypeOK
    BY <2>1, <2>2, <1>4 DEF Inv, TypeOK
  <2>4. /\ \A p \in Operations : entries'[p] # NoEntry => entries'[p] = entries[p] \/ (p = o /\ b = "New")
        /\ b = "New" => entries'[o] = [digest |-> d, result |-> "None", inserted |-> t]
        /\ b = "Pending" => entries'[o] = entries[o] /\ entries[o] # NoEntry
    BY <2>3, BindEffect
  <2>5. /\ b \in {"New", "Pending", "Final"} => entries'[o] \in Entry
        /\ b = "Final" => entries'[o].result \in FinalResults
    BY <2>3, BindTyped
  <2>6. CASE b \in {"Final", "Conflict", "Full"}
    <3>1. \A p \in Operations : entries'[p] # NoEntry => entries'[p] = entries[p]
      BY <2>4, <2>6
    <3>2. b = "Final" => entries'[o].result \in Codes
      BY <2>5 DEF Codes
    <3> QED
      BY <3>1, <3>2, <2>1, <2>2, <2>6, <1>7 DEF Codes
  <2>7. CASE b \in {"New", "Pending"}
    <3>1. PICK k : k = entries'[o].inserted
      OBVIOUS
    <3>2. attempts' = [attempts EXCEPT ![id].bound = k]
      BY <3>1, <2>1, <2>2, <2>7
    <3>3. PICK a : a = [attempts[id] EXCEPT !.bound = k]
      OBVIOUS
    <3>4. attempts \in Seq(Attempt) /\ attempts[id] \in Attempt /\ id \in 1..Len(attempts)
      BY <1>3, AttemptTyped DEF Inv, TypeOK, Ids
    <3>5. /\ a.kind = attempts[id].kind /\ a.op = attempts[id].op /\ a.result = attempts[id].result
          /\ a.admitted = attempts[id].admitted /\ a.bound = k
      BY <3>3, <3>4 DEF Attempt
    <3>6. attempts' = [attempts EXCEPT ![id] = a]
      BY <3>2, <3>3
    <3>7. Ids' = Ids /\ \A x \in Ids : attempts'[x] = IF x = id THEN a ELSE attempts[x]
      BY <3>4, <3>6 DEF Ids
    <3>8. \A x \in Ids : /\ attempts'[x].kind = attempts[x].kind /\ attempts'[x].op = attempts[x].op
                         /\ attempts'[x].result = attempts[x].result
                         /\ attempts'[x].admitted = attempts[x].admitted
                         /\ attempts'[x].bound = IF x = id THEN k ELSE attempts[x].bound
      BY <3>5, <3>7
    <3>9. \A x \in Ids : ApplyWaiting(x)' => ApplyWaiting(x)
      BY <3>8 DEF ApplyWaiting, IsApply
    <3>10. \A x \in Ids : May(x)' => May(x) \/ InLane(x)
      BY <1>3, <1>5, <2>1, <2>7 DEF May, OnHand
    <3>11. entries'[o] # NoEntry
      BY <2>4, <2>5, <2>7, CacheAssumption
    <3>12. \A p \in Operations : entries'[p] # NoEntry =>
             \/ entries[p] # NoEntry /\ entries'[p].inserted = entries[p].inserted
             \/ \E x \in Ids : OpOf(x) = p /\ entries'[p].inserted = attempts[x].admitted
      <4>1. b = "New" => entries'[o].inserted = t
        BY <2>4
      <4> QED
        BY <4>1, <2>2, <2>4, <1>3
    <3>13. \A x \in Ids : \/ attempts'[x].bound = attempts[x].bound
             \/ /\ attempts'[x].result = attempts[x].result /\ entries'[OpOf(x)] # NoEntry
                /\ attempts'[x].bound = entries'[OpOf(x)].inserted
      BY <3>1, <3>8, <3>11, <2>2
    <3>14. lanePc' # "Recv" => InLane(item')
      BY <1>3, <2>1, <2>7
    <3> QED
      BY <3>7, <3>8, <3>9, <3>10, <3>12, <3>13, <3>14, <1>3, <1>5, <1>6 DEF ServerMoves
  <2> QED
    BY <2>6, <2>7
<1> QED
  BY <1>8, <1>9

(* Answering a frame takes it off the waiting ones and changes nothing else  *)
(* of it.                                                                    *)
\* PendingCompletion::resolve, the failed handoff.
LEMMA AnswerMoves ==
    ASSUME Inv, HandedInv, LaneRegister \/ ReleaseAndReply
    PROVE  ServerMoves
<1>1. /\ UNCHANGED <<now, lane, mailbox, writerq, pty, entries>>
      /\ (lanePc' = lanePc /\ item' = item) \/ lanePc' = "Recv" \/ (lanePc # "Recv" /\ item' = item)
  BY DEF LaneRegister, ReleaseAndReply, laneVars, paneVars, cacheVars
<1>2. AnswersOnly
  <2>1. CASE LaneRegister
    <3>1. item \in Ids
      BY <2>1 DEF LaneRegister, Inv, OneAnswerOneSlot, ThreadOK
    <3>2. RouteGate(attempts[item].client, attempts[item].to) \in Codes \cup {"Pass"}
      BY DEF RouteGate, Codes
    <3>3. attempts' = attempts \/ \E code \in Codes : Refuse(item, code)
      BY <3>2, <2>1 DEF LaneRegister, Codes
    <3>4. attempts' = attempts => AnswersOnly
      BY DEF AnswersOnly, ApplyWaiting, IsApply, Ids
    <3> QED
      BY <3>1, <3>3, <3>4, RefusalAnswers
  <2>2. CASE ReleaseAndReply
    <3>1. PICK f \in closing : Refuse(f.id, f.result)
      BY <2>2 DEF ReleaseAndReply
    <3>2. PICK id, code : id = f.id /\ code = f.result
      OBVIOUS
    <3>3. id \in Ids /\ code \in Codes /\ Refuse(id, code)
      BY <3>1, <3>2, SinkTyped DEF Inv, TypeOK, Closing, HandedInv
    <3> QED
      BY <3>3, RefusalAnswers
  <2> QED
    BY <2>1, <2>2
<1>3. \A x : (Handed(x)' <=> Handed(x)) /\ (Whole(x)' <=> Whole(x))
  BY <1>1, PanesStill DEF HandedInv
<1>4. \A x \in Ids : OnHand(x)' => OnHand(x)
  BY <1>1, <1>2 DEF OnHand, IsApply, AnswersOnly
<1>5. now =< now' /\ \A x : InLane(x)' => InLane(x)
  BY <1>1 DEF Inv, TypeOK, InLane
<1> QED
  BY <1>1, <1>2, <1>3, <1>4, <1>5 DEF ServerMoves, AnswersOnly, May

(* Handing a batch over hands over the one on the lane thread.               *)
\* handoff_encoded.
LEMMA HandoffMoves ==
    ASSUME Inv, HandedInv, LaneHandoff
    PROVE  ServerMoves
<1>1. /\ lanePc = "Handoff" /\ lanePc' = "Recv" /\ attempts[item].kind = "Apply"
      /\ UNCHANGED <<now, attempts, lane, writerq, pty, entries>>
  BY DEF LaneHandoff, cacheVars
<1>2. item \in Ids /\ OrderOK
  BY <1>1 DEF Inv, OneAnswerOneSlot, ThreadOK, HandedInv
<1>3. (\A x : Handed(x)' => Handed(x) \/ x = item) /\ (\A x : Whole(x) => Whole(x)')
  <2>1. CASE mailbox' = mailbox
    BY <1>1, <1>2, <2>1, PanesStill
  <2>2. CASE mailbox' # mailbox
    <3>1. PICK r, e : r = attempts[item].to /\ e = [id |-> item, ticket |-> ticket]
      OBVIOUS
    <3>2. mailbox' = [mailbox EXCEPT ![r] = Append(@, e)]
      BY <2>2, <3>1 DEF LaneHandoff
    <3>3. r \in Resources /\ e \in Request /\ e.id = item
      BY <1>2, <3>1, AttemptTyped DEF Inv, TypeOK, Ids, Request
    <3> QED
      BY <3>1, <3>2, <3>3, <1>1, <1>2, MailboxTaken
  <2> QED
    BY <2>1, <2>2
<1>4. \A x : ~OnHand(x)'
  BY <1>1 DEF OnHand
<1>5. OnHand(item)
  BY <1>1 DEF OnHand, IsApply
<1>6. now =< now' /\ Ids' = Ids /\ \A x : InLane(x)' <=> InLane(x)
  BY <1>1 DEF Inv, TypeOK, InLane, Ids
<1>7. \A x : ApplyWaiting(x)' <=> ApplyWaiting(x)
  BY <1>1 DEF ApplyWaiting, IsApply, Ids
<1> QED
  BY <1>1, <1>3, <1>4, <1>5, <1>6, <1>7 DEF ServerMoves, May

(* Recording a result keeps the instant the record was made.                 *)
\* PendingCompletion::finalize, OperationCache::set_final.
LEMMA RecordMoves ==
    ASSUME Inv, HandedInv, RecordFinal
    PROVE  ServerMoves
<1>1. UNCHANGED <<now, attempts, lane, lanePc, item, mailbox, writerq, pty>>
  BY DEF RecordFinal, laneVars, paneVars
<1>2. \A x : (Handed(x)' <=> Handed(x)) /\ (Whole(x)' <=> Whole(x))
  BY <1>1, PanesStill DEF HandedInv
<1>3. PICK f \in closing : f.how = "Finalize" /\ SetFinal(attempts[f.id].op, f.result)
  BY DEF RecordFinal
<1>4. PICK o, r : o = attempts[f.id].op /\ r = f.result
  OBVIOUS
<1>5. o \in Operations /\ r \in FinalResults /\ SetFinal(o, r) /\ CacheTypeOK
  BY <1>3, <1>4 DEF Inv, TypeOK, OneAnswerOneSlot, ClosingOK, AttemptsOK, ApplyWaiting
<1>6. \A p \in Operations : entries'[p] # NoEntry => entries[p] # NoEntry /\ entries'[p].inserted = entries[p].inserted
  BY <1>5, SetFinalEffect
<1>7. now =< now' /\ Ids' = Ids
  BY <1>1 DEF Inv, TypeOK, Ids
<1>8. \A x : (InLane(x)' <=> InLane(x)) /\ (OnHand(x)' <=> OnHand(x)) /\ (ApplyWaiting(x)' <=> ApplyWaiting(x))
  BY <1>1 DEF InLane, OnHand, ApplyWaiting, IsApply, Ids
<1> QED
  BY <1>1, <1>2, <1>6, <1>7, <1>8 DEF ServerMoves, May

(* A step that touches no frame, no record and not the lane moves nothing    *)
(* the journal depends on.                                                   *)
\* The clock, the waiter's queue and the pane's threads.
LEMMA QuietMoves ==
    ASSUME Inv, now =< now', UNCHANGED <<attempts, lane, lanePc, item, entries>>,
           \A x : Handed(x)' => Handed(x), \A x : Whole(x) => Whole(x)'
    PROVE  ServerMoves
<1>1. Ids' = Ids
  BY DEF Ids
<1>2. \A x : (InLane(x)' <=> InLane(x)) /\ (OnHand(x)' <=> OnHand(x)) /\ (ApplyWaiting(x)' <=> ApplyWaiting(x))
  BY DEF InLane, OnHand, ApplyWaiting, IsApply, Ids
<1> QED
  BY <1>1, <1>2 DEF ServerMoves, May

(* The threads of a pane hand on what was handed to the pane, and nothing    *)
(* else.                                                                     *)
\* service_encoded_input, service_write_request.
LEMMA PaneOnlyMoves ==
    ASSUME Inv, NEW r \in Resources, PaneStep(r), NEW x, Handed(x)'
    PROVE  Handed(x)
<1>1. \A q \in Resources : mailbox[q] \in Seq(Request) /\ writerq[q] \in Seq(Request) /\ pty[q] \in Seq(Landing)
  BY DEF Inv, TypeOK, Landing
<1>2. CASE UNCHANGED <<mailbox, writerq, pty>>
  BY <1>2, HandedInPane DEF InPane, IdsOf
<1>3. PICK q \in Resources : x \in InPane(q)'
  BY HandedInPane
<1>4. SUFFICES ASSUME x \in InPane(q)', ~UNCHANGED <<mailbox, writerq, pty>> PROVE x \in InPane(q)
  BY <1>2, <1>3, HandedInPane
<1>5. CASE q # r
  <2>1. mailbox'[q] = mailbox[q] /\ writerq'[q] = writerq[q] /\ pty'[q] = pty[q]
    BY <1>4, <1>5 DEF PaneStep, ServiceEncodedInput, ActorStops, ActorExits, MailboxDrop, ReapResource,
       WriteDelivers, WriteRefused, WriteFails, WriterQueueDrop, Lands, paneVars, Inv, TypeOK
  <2> QED
    BY <2>1, <1>4 DEF InPane, IdsOf
<1>6. ASSUME NEW m \in Seq(Request), m # << >> PROVE Head(m) \in Request /\ Head(m).id \in IdsOf(m) /\ IdsOf(Tail(m)) \subseteq IdsOf(m)
  BY <1>6, TailIds, TailMembers
<1>7. CASE q = r
  <2>1. CASE ServiceEncodedInput(r) \/ MailboxDrop(r)
    <3>1. /\ mailbox[r] # << >> /\ mailbox'[r] = Tail(mailbox[r]) /\ pty' = pty
          /\ writerq'[r] = writerq[r] \/ writerq'[r] = Append(writerq[r], Head(mailbox[r]))
      BY <2>1 DEF ServiceEncodedInput, MailboxDrop, Inv, TypeOK
    <3>2. PICK m, w, h : m = mailbox[r] /\ w = writerq[r] /\ h = Head(mailbox[r])
      OBVIOUS
    <3>3. IdsOf(Append(w, h)) = IdsOf(w) \cup {h.id}
      BY <3>1, <3>2, <1>1, <1>6, AppendIds
    <3>4. h.id \in IdsOf(m) /\ IdsOf(Tail(m)) \subseteq IdsOf(m)
      BY <3>1, <3>2, <1>1, <1>6
    <3> QED
      BY <3>1, <3>2, <3>3, <3>4, <1>4, <1>7 DEF InPane
  <2>2. CASE WriteDelivers(r) \/ WriteRefused(r) \/ WriteFails(r) \/ WriterQueueDrop(r)
    <3>1. /\ writerq[r] # << >> /\ writerq'[r] = Tail(writerq[r]) /\ mailbox' = mailbox
          /\ \/ pty'[r] = pty[r]
             \/ \E b \in BOOLEAN : pty'[r] = Append(pty[r], [id |-> Head(writerq[r]).id, whole |-> b])
      BY <2>2 DEF WriteDelivers, WriteRefused, WriteFails, WriterQueueDrop, Lands, Inv, TypeOK
    <3>2. PICK w, h : w = writerq[r] /\ h = Head(writerq[r]).id
      OBVIOUS
    <3>3. h \in IdsOf(w) /\ IdsOf(Tail(w)) \subseteq IdsOf(w) /\ h \in Nat
      BY <3>1, <3>2, <1>1, <1>6 DEF Request
    <3>4. IdsOf(pty'[r]) \subseteq IdsOf(pty[r]) \cup {h}
      <4>1. CASE pty'[r] = pty[r]
        BY <4>1
      <4>2. ASSUME NEW b \in BOOLEAN, pty'[r] = Append(pty[r], [id |-> h, whole |-> b])
            PROVE  IdsOf(pty'[r]) \subseteq IdsOf(pty[r]) \cup {h}
        <5>1. PICK p, e : p = pty[r] /\ e = [id |-> h, whole |-> b]
          OBVIOUS
        <5>2. e \in Landing /\ e.id = h /\ p \in Seq(Landing)
          BY <5>1, <3>3, <1>1 DEF Landing
        <5>3. IdsOf(Append(p, e)) = IdsOf(p) \cup {e.id}
          BY <5>2, AppendIds
        <5> QED
          BY <5>1, <5>2, <5>3, <4>2
      <4> QED
        BY <3>1, <3>2, <4>1, <4>2
    <3> QED
      BY <3>1, <3>2, <3>3, <3>4, <1>4, <1>7 DEF InPane
  <2>3. CASE ActorStops(r) \/ ActorExits(r) \/ ReapResource(r)
    BY <2>3, <1>4 DEF ActorStops, ActorExits, ReapResource, paneVars
  <2> QED
    BY <2>1, <2>2, <2>3 DEF PaneStep
<1> QED
  BY <1>5, <1>7

(* A step of the server's threads is a step of the input pipeline.           *)
\* The lane, the waiter, the panes and the clock.
LEMMA ServerNext == ServerStep => [Next]_vars
  BY DEF ServerStep, Next

(* Every step of the server's threads moves the history only as ServerMoves  *)
(* says.                                                                     *)
\* The whole input pipeline behind the socket.
LEMMA StepMoves ==
    ASSUME Inv, HandedInv, AllApply, ServerStep
    PROVE  ServerMoves
<1>1. [Next]_vars
  BY ServerNext
<1>2. \A x : Whole(x) => Whole(x)'
  BY <1>1, WrittenStays
<1>3. now =< now
  BY DEF Inv, TypeOK
<1>4. CASE Tick
  <2>1. /\ UNCHANGED <<attempts, lane, lanePc, item, entries, mailbox, writerq, pty>> /\ now' = now + 1
    BY <1>4 DEF Tick, laneVars, paneVars, cacheVars
  <2>2. now =< now'
    BY <2>1 DEF Inv, TypeOK
  <2>3. \A x : Handed(x)' <=> Handed(x)
    BY <2>1, PanesStill DEF HandedInv
  <2> QED
    BY <2>1, <2>2, <2>3, <1>2, QuietMoves
<1>5. CASE WaiterReceive \/ WaiterTimeout
  <2>1. UNCHANGED <<now, attempts, lane, lanePc, item, entries, mailbox, writerq, pty>>
    BY <1>5 DEF WaiterReceive, WaiterTimeout, laneVars, paneVars, cacheVars
  <2>2. now =< now'
    BY <2>1, <1>3
  <2>3. \A x : Handed(x)' <=> Handed(x)
    BY <2>1, PanesStill DEF HandedInv
  <2> QED
    BY <2>1, <2>2, <2>3, <1>2, QuietMoves
<1>6. ASSUME NEW r \in Resources, PaneStep(r) PROVE ServerMoves
  <2>1. UNCHANGED <<now, attempts, lane, lanePc, item, entries>>
    BY <1>6 DEF PaneStep, ServiceEncodedInput, ActorStops, ActorExits, MailboxDrop, ReapResource,
       WriteDelivers, WriteRefused, WriteFails, WriterQueueDrop, laneVars, cacheVars
  <2>2. now =< now'
    BY <2>1, <1>3
  <2> QED
    BY <2>1, <2>2, <1>2, <1>6, PaneOnlyMoves, QuietMoves
<1>7. ~LaneGate /\ ~LaneHandoffUnacked
  <2>1. LaneGate => FALSE
    <3>1. SUFFICES ASSUME LaneGate PROVE FALSE
      OBVIOUS
    <3>2. lane # << >> /\ lane' = Tail(lane) /\ attempts[Head(lane)].kind # "Apply"
      BY <3>1 DEF LaneGate
    <3>3. InLane(Head(lane))
      BY <3>2, LanePop
    <3> QED
      BY <3>2, <3>3 DEF InLane, AllApply, IsApply
  <2> QED
    BY <2>1 DEF LaneHandoffUnacked, AllApply, IsApply
<1> QED
  BY <1>4, <1>5, <1>6, <1>7, BindMoves, AnswerMoves, HandoffMoves, RecordMoves
  DEF ServerStep, LaneStep, WaiterStep

(* Being queued in the lane, said two ways.                                  *)
\* InputLane: the channel.
LEMMA LaneMember == ASSUME NEW x PROVE InLane(x) <=> x \in Members(lane)
  BY DEF InLane, Members

(* A batch that may be in its pane is bound to a record and is not queued    *)
(* any more.                                                                 *)
\* prepare_acknowledged_batch binds before handoff_encoded.
LEMMA MayBound ==
    ASSUME Inv, HandedInv, NEW x \in Ids, May(x)
    PROVE  (IsApply(x) => Bound(x)) /\ ~InLane(x)
<1>1. x \in Nat
  BY DEF Ids, Inv, TypeOK
<1>2. CASE Handed(x)
  <2>1. PICK r \in Resources : x \in InPane(r)
    BY <1>2, HandedInPane
  <2>2. (IsApply(x) => Bound(x)) /\ \A y \in Members(lane) : x < y
    BY <2>1 DEF HandedInv, OrderOK, PaneOrderOK
  <2> QED
    BY <2>2, <1>1, LaneMember
<1>3. CASE OnHand(x)
  <2>1. lanePc # "Recv" /\ item = x
    BY <1>3 DEF OnHand
  <2>2. (IsApply(item) => Bound(item)) /\ \A y \in Members(lane) : item < y
    BY <2>1 DEF HandedInv, OrderOK, LaneOrderOK
  <2> QED
    BY <2>1, <2>2, <1>1, LaneMember
<1> QED
  BY <1>2, <1>3 DEF May

(* The same of all frames.                                                   *)
\* prepare_acknowledged_batch binds before handoff_encoded.
LEMMA MayIsBound == Inv /\ HandedInv => \A x \in Ids : May(x) /\ IsApply(x) => Bound(x)
  BY MayBound

(* The same after a step.                                                    *)
\* prepare_acknowledged_batch binds before handoff_encoded.
LEMMA MayIsBoundNext == Inv' /\ HandedInv' => (\A x \in Ids : May(x) /\ IsApply(x) => Bound(x))'
  BY MayIsBound, PTL

(* The server's half of the invariant holds after every step of its threads; *)
(* in particular a refusal is final.                                         *)
\* The lane, the completion waiter and the panes' threads.
LEMMA StepKeepsServer ==
    ASSUME ServerOK, ServerStep
    PROVE  ServerOK' /\ ServerMoves
<1>1. [Next]_vars
  BY ServerNext
<1>2. Inv /\ HandedInv /\ OkIsWritten /\ AllApply /\ RefusalsOK
  BY DEF ServerOK
<1>3. Inv'
  BY <1>1, <1>2, NextInv
<1>4. HandedInv'
  BY <1>1, <1>2, <1>3, NextHanded
<1>5. OkIsWritten'
  BY <1>1, <1>2, <1>3, NextOk
<1>6. ServerMoves
  BY <1>2, StepMoves
<1>7. \A x \in Ids : (IsApply(x)' <=> IsApply(x)) /\ OpOf(x)' = OpOf(x)
  BY <1>6 DEF ServerMoves, IsApply, OpOf
<1>8. \A x : InLane(x) => x \in Ids /\ IsApply(x)
  BY <1>2 DEF InLane, Inv, OneAnswerOneSlot, LaneOK, AllApply
<1>9. AllApply'
  <2>1. \A x \in Ids' : OpOf(x)' \in Operations
    BY <1>2, <1>6, <1>7 DEF ServerMoves, AllApply
  <2>2. \A i \in 1..Len(lane') : attempts'[lane'[i]].kind = "Apply"
    <3>1. SUFFICES ASSUME NEW i \in 1..Len(lane') PROVE attempts'[lane'[i]].kind = "Apply"
      OBVIOUS
    <3>2. PICK x : x = lane'[i]
      OBVIOUS
    <3>3. InLane(x)'
      BY <3>1, <3>2 DEF InLane
    <3>4. x \in Ids /\ IsApply(x)
      BY <3>3, <1>6, <1>8 DEF ServerMoves
    <3> QED
      BY <3>2, <3>4, <1>7 DEF IsApply
  <2>3. lanePc' # "Recv" => attempts'[item'].kind = "Apply"
    <3>1. SUFFICES ASSUME lanePc' # "Recv" PROVE attempts'[item'].kind = "Apply"
      OBVIOUS
    <3>2. PICK x : x = item'
      OBVIOUS
    <3>3. x \in Ids /\ IsApply(x)
      BY <3>1, <3>2, <1>2, <1>6, <1>8 DEF ServerMoves, AllApply, Inv, OneAnswerOneSlot, ThreadOK
    <3> QED
      BY <3>2, <3>3, <1>7 DEF IsApply
  <2> QED
    BY <2>1, <2>2, <2>3 DEF AllApply, IsApply
<1>10. RefusalsOK'
  <2>1. SUFFICES ASSUME NEW x \in Ids, IsApply(x), May(x)',
                        attempts'[x].result \notin {"Waiting", "Ok", "InputDeliveryUnknown"}
                 PROVE  FALSE
    BY <1>6, <1>7 DEF RefusalsOK, ServerMoves
  <2>2. Bound(x)'
    <3>1. x \in Ids' /\ IsApply(x)'
      BY <2>1, <1>6, <1>7 DEF ServerMoves
    <3> QED
      BY <3>1, <2>1, <1>3, <1>4, MayIsBoundNext
  <2>3. May(x) \/ InLane(x)
    BY <2>1, <1>6 DEF ServerMoves
  <2>4. InLane(x) => attempts[x].result = "Waiting"
    BY <2>1, <1>2 DEF InLane, Inv, OneAnswerOneSlot, LaneOK, ApplyWaiting
  <2>5. attempts'[x].result # attempts[x].result
    <3>1. SUFFICES ASSUME attempts'[x].result = attempts[x].result PROVE FALSE
      OBVIOUS
    <3>2. ~May(x) /\ ~InLane(x)
      BY <3>1, <2>1, <2>4, <1>2 DEF RefusalsOK
    <3> QED
      BY <3>2, <2>3
  <2>6. Bound(x)
    BY <2>1, <2>2, <2>5, <1>6 DEF ServerMoves, Bound
  <2>7. May(x)
    <3>1. InLane(x) => ~Bound(x)
      <4>1. \A y \in Members(lane) : Bound(x) => x < y
        BY <2>1, <1>2 DEF HandedInv, OrderOK, LaneOrderOK
      <4>2. x \in Nat
        BY <2>1, <1>2 DEF Ids, Inv, TypeOK
      <4> QED
        BY <2>1, <4>1, <4>2, LaneMember
    <3> QED
      BY <3>1, <2>3, <2>6
  <2>8. \/ LaneRegister /\ x = item /\ lanePc = "Register" /\ UNCHANGED <<mailbox, writerq, pty>>
        \/ \E f \in closing : /\ f.id = x /\ attempts'[x].result = f.result
                              /\ UNCHANGED <<mailbox, writerq, pty>>
    BY <2>1, <2>5, <2>6, <1>1, <1>2, WhoAnswers
  <2>9. CASE LaneRegister /\ x = item /\ lanePc = "Register" /\ UNCHANGED <<mailbox, writerq, pty>>
    <3>1. ~Handed(x) /\ (Handed(x)' <=> Handed(x))
      BY <2>9, <1>2, ItemNotHanded, PanesStill DEF HandedInv
    <3>2. lanePc' = "Recv"
      BY <2>5, <2>9 DEF LaneRegister
    <3> QED
      BY <3>1, <3>2, <2>1 DEF May, OnHand
  <2>10. CASE \E f \in closing : f.id = x /\ attempts'[x].result = f.result
    BY <2>7, <2>10, <2>1, <1>2 DEF HandedInv, FatesOK, VerdictsOK
  <2> QED
    BY <2>8, <2>9, <2>10
<1> QED
  BY <1>3, <1>4, <1>5, <1>6, <1>9, <1>10 DEF ServerOK

\* What a frame taken off the wire adds to the history.
FrameTaken(o) ==
    /\ Ids' = Ids \cup {NewId} /\ NewId \notin Ids /\ \A x \in Ids : x < NewId
    /\ \A x \in Ids : attempts'[x] = attempts[x]
    /\ attempts'[NewId].kind = "Apply" /\ attempts'[NewId].op = o
    /\ attempts'[NewId].admitted = now /\ attempts'[NewId].bound = -1
    /\ now' = now /\ entries' = entries
    /\ \A x : (Handed(x)' <=> Handed(x)) /\ (Whole(x)' <=> Whole(x)) /\ (Landed(x)' <=> Landed(x))
    /\ ~Handed(NewId)
    /\ \A x \in Ids : (May(x)' <=> May(x)) /\ (ApplyWaiting(x)' <=> ApplyWaiting(x))

(* A frame taken off the socket keeps the server's half of the invariant; it *)
(* is new, and nowhere near a pane.                                          *)
\* apply_input's admission.
LEMMA TakeKeepsServer ==
    ASSUME ServerOK, NEW c \in Clients, NEW r \in Resources, NEW o \in Operations, NEW d \in Payloads,
           ApplyInput(c, r, o, d)
    PROVE  ServerOK' /\ FrameTaken(o)
<1>1. [Next]_vars
  BY DEF Next, ClientStep
<1>2. Inv /\ HandedInv /\ OkIsWritten /\ AllApply /\ RefusalsOK
  BY DEF ServerOK
<1>3. Inv'
  BY <1>1, <1>2, NextInv
<1>4. HandedInv'
  BY <1>1, <1>2, <1>3, NextHanded
<1>5. OkIsWritten'
  BY <1>1, <1>2, <1>3, NextOk
<1>6. PICK res \in {"Waiting", "ResourceExhausted"} :
        attempts' = Append(attempts, [kind |-> "Apply", client |-> c, to |-> r, op |-> o, payload |-> d,
                                      admitted |-> now, bound |-> -1, result |-> res])
  BY DEF ApplyInput, Arrives
<1>7. PICK a : a = [kind |-> "Apply", client |-> c, to |-> r, op |-> o, payload |-> d,
                    admitted |-> now, bound |-> -1, result |-> res]
  OBVIOUS
<1>8. a.kind = "Apply" /\ a.op = o /\ a.admitted = now /\ a.bound = -1
  BY <1>7
<1>9. attempts \in Seq(Attempt) /\ Len(attempts) \in Nat /\ attempts' = Append(attempts, a)
  BY <1>2, <1>6, <1>7 DEF Inv, TypeOK
<1>10. /\ Len(attempts') = Len(attempts) + 1 /\ attempts'[Len(attempts) + 1] = a
       /\ \A x \in 1..Len(attempts) : attempts'[x] = attempts[x]
  BY <1>9
<1>11. Ids' = Ids \cup {NewId} /\ NewId \notin Ids /\ \A x \in Ids : x < NewId
  BY <1>9, <1>10 DEF Ids, NewId
<1>12. attempts'[NewId] = a /\ \A x \in Ids : attempts'[x] = attempts[x]
  BY <1>10 DEF Ids, NewId
<1>13. /\ UNCHANGED <<now, lanePc, item, mailbox, writerq, pty, entries>>
       /\ lane' = lane \/ lane' = Append(lane, NewId)
  BY DEF ApplyInput, paneVars, cacheVars
<1>14. \A x : (Handed(x)' <=> Handed(x)) /\ (Whole(x)' <=> Whole(x)) /\ (Landed(x)' <=> Landed(x))
  BY <1>2, <1>13, PanesStill DEF HandedInv, Landed
<1>15. ~Handed(NewId)
  BY <1>2, <1>11, HandedInPane DEF HandedInv, OrderOK, PaneOrderOK
<1>16. \A x \in Ids : (May(x)' <=> May(x)) /\ (ApplyWaiting(x)' <=> ApplyWaiting(x))
  BY <1>11, <1>12, <1>13, <1>14 DEF May, OnHand, ApplyWaiting, IsApply
<1>17. FrameTaken(o)
  BY <1>8, <1>11, <1>12, <1>13, <1>14, <1>15, <1>16 DEF FrameTaken
<1>18. lanePc # "Recv" => item \in Ids
  BY <1>2 DEF Inv, OneAnswerOneSlot, ThreadOK
<1>19. AllApply'
  <2>1. \A x \in Ids' : OpOf(x)' \in Operations
    BY <1>2, <1>8, <1>11, <1>12 DEF AllApply, OpOf
  <2>2. \A x : InLane(x)' => InLane(x) \/ x = NewId
    <3>1. lane \in Seq(Nat) /\ NewId \in Nat
      BY <1>2, <1>9 DEF Inv, TypeOK, NewId
    <3>2. lane' = Append(lane, NewId) => Members(lane') = Members(lane) \cup {NewId}
      BY <3>1, AppendMembers
    <3> QED
      BY <3>2, <1>13 DEF InLane, Members
  <2>3. \A i \in 1..Len(lane') : attempts'[lane'[i]].kind = "Apply"
    <3>1. SUFFICES ASSUME NEW i \in 1..Len(lane') PROVE attempts'[lane'[i]].kind = "Apply"
      OBVIOUS
    <3>2. PICK x : x = lane'[i]
      OBVIOUS
    <3>3. InLane(x) \/ x = NewId
      BY <3>1, <3>2, <2>2 DEF InLane
    <3>4. InLane(x) => x \in Ids /\ IsApply(x)
      BY <1>2 DEF InLane, Inv, OneAnswerOneSlot, LaneOK, AllApply
    <3> QED
      BY <3>2, <3>3, <3>4, <1>8, <1>12 DEF IsApply
  <2>4. lanePc' # "Recv" => attempts'[item'].kind = "Apply"
    BY <1>2, <1>12, <1>13, <1>18 DEF AllApply, IsApply
  <2> QED
    BY <2>1, <2>3, <2>4 DEF AllApply, IsApply
<1>20. RefusalsOK'
  <2>1. PICK n : n = NewId
    OBVIOUS
  <2>2. ~May(n)'
    BY <2>1, <1>11, <1>13, <1>14, <1>15, <1>18 DEF May, OnHand
  <2> QED
    BY <2>1, <2>2, <1>2, <1>11, <1>12, <1>16 DEF RefusalsOK, IsApply
<1> QED
  BY <1>3, <1>4, <1>5, <1>17, <1>19, <1>20 DEF ServerOK

\* What a new server process knows of the old one's frames.
FramesForgotten ==
    /\ Ids' = Ids /\ now' = now
    /\ \A x \in Ids :
          /\ attempts'[x].op = attempts[x].op /\ attempts'[x].admitted = attempts[x].admitted
          /\ ~IsApply(x)' /\ ~Bound(x)' /\ ~ApplyWaiting(x)'
    /\ \A o \in Operations : entries'[o] = NoEntry
    /\ \A x : (Handed(x)' <=> Landed(x)) /\ (Whole(x)' <=> Whole(x)) /\ ~OnHand(x)'

(* A new server process keeps the server's half of the invariant: of the old *)
(* frames only what is in a PTY is left.                                     *)
\* upgrade: the adopted PTYs.
LEMMA RestartKeepsServer ==
    ASSUME ServerOK, ServerRestart
    PROVE  ServerOK' /\ FramesForgotten
<1>1. Inv /\ HandedInv /\ OkIsWritten /\ AllApply /\ RefusalsOK /\ TypeOK
  BY DEF ServerOK, Inv
<1>2. /\ attempts' = [x \in Ids |-> Forgotten(attempts[x])]
      /\ admission' = {} /\ lane' = << >> /\ lanePc' = "Recv" /\ item' = 0 /\ ticket' = 0
      /\ waitq' = << >> /\ pending' = {} /\ closing' = {}
      /\ mailbox' = [r \in Resources |-> << >>] /\ writerq' = [r \in Resources |-> << >>]
      /\ entries' = [o \in Operations |-> NoEntry] /\ expiry' = << >>
      /\ subscribers' = [r \in Resources |-> {}] /\ holder' = [r \in Resources |-> NoOne]
      /\ actor' = [r \in Resources |-> IF r \in live THEN "Running" ELSE "Gone"]
      /\ writer' = [r \in Resources |-> IF r \in live THEN "Running" ELSE "Stopped"]
      /\ UNCHANGED <<now, pty, live>>
  BY DEF ServerRestart
<1>3. attempts \in Seq(Attempt) /\ Ids = 1..Len(attempts) /\ Len(attempts) \in Nat
  BY <1>1 DEF TypeOK, Ids
<1>4. \A x \in Ids :
         /\ Forgotten(attempts[x]) \in Attempt
         /\ Forgotten(attempts[x]).kind = "Attached" /\ Forgotten(attempts[x]).bound = -1
         /\ Forgotten(attempts[x]).result = "Sent"
         /\ Forgotten(attempts[x]).op = attempts[x].op /\ Forgotten(attempts[x]).to = attempts[x].to
         /\ Forgotten(attempts[x]).admitted = attempts[x].admitted
  <2>1. SUFFICES ASSUME NEW a \in Attempt
                 PROVE  /\ Forgotten(a) \in Attempt /\ Forgotten(a).kind = "Attached" /\ Forgotten(a).bound = -1
                        /\ Forgotten(a).result = "Sent"
                        /\ Forgotten(a).op = a.op /\ Forgotten(a).to = a.to /\ Forgotten(a).admitted = a.admitted
    BY <1>3, AttemptTyped
  <2>2. /\ Forgotten(a).kind = "Attached" /\ Forgotten(a).bound = -1 /\ Forgotten(a).result = "Sent"
        /\ Forgotten(a).op = a.op /\ Forgotten(a).to = a.to /\ Forgotten(a).admitted = a.admitted
    BY DEF Forgotten, Attempt
  <2>3. Forgotten(a) \in Attempt
    <3>1. PICK b : b = [a EXCEPT !.kind = "Attached"]
      OBVIOUS
    <3>2. b \in Attempt
      BY <3>1 DEF Attempt, InputKinds
    <3>3. PICK c : c = [b EXCEPT !.bound = -1]
      OBVIOUS
    <3>4. c \in Attempt
      BY <3>2, <3>3 DEF Attempt
    <3>5. PICK d : d = [c EXCEPT !.result = "Sent"]
      OBVIOUS
    <3>6. d \in Attempt
      BY <3>4, <3>5 DEF Attempt
    <3> QED
      BY <3>1, <3>3, <3>5, <3>6 DEF Forgotten
  <2> QED
    BY <2>2, <2>3
<1>5. attempts' \in Seq(Attempt) /\ Ids' = Ids
  <2>1. attempts' \in [1..Len(attempts) -> Attempt]
    BY <1>2, <1>3, <1>4
  <2>2. attempts' \in Seq(Attempt) /\ Len(attempts') = Len(attempts)
    BY <2>1, <1>3
  <2> QED
    BY <2>2 DEF Ids
<1>6. \A x \in Ids :
         /\ attempts'[x].kind = "Attached" /\ attempts'[x].bound = -1 /\ attempts'[x].result = "Sent"
         /\ attempts'[x].op = attempts[x].op /\ attempts'[x].to = attempts[x].to
         /\ attempts'[x].admitted = attempts[x].admitted
  BY <1>2, <1>4
<1>7. TypeOK'
  <2>1. mailbox' \in [Resources -> Seq(Request)] /\ writerq' \in [Resources -> Seq(Request)]
    BY <1>2
  <2>2. CacheTypeOK' /\ AuthorityTypeOK'
    BY <1>1, <1>2 DEF TypeOK, CacheTypeOK, AuthorityTypeOK
  <2> QED
    BY <2>1, <2>2, <1>1, <1>2, <1>5 DEF TypeOK
<1>8. \A x \in Ids : ~IsApply(x)' /\ ~Bound(x)' /\ ~ApplyWaiting(x)'
  BY <1>6 DEF IsApply, Bound, ApplyWaiting
<1>9. Members(lane') = {} /\ Members(waitq') = {} /\ Len(lane') = 0 /\ Len(waitq') = 0
  BY <1>2 DEF Members
<1>10. OneAnswerOneSlot'
  <2>1. AttemptsOK'
    BY <1>5, <1>8 DEF AttemptsOK
  <2>2. LaneOK' /\ ThreadOK' /\ AnnouncedOK' /\ PendingOK' /\ ClosingOK'
    BY <1>2, <1>9 DEF LaneOK, ThreadOK, AnnouncedOK, PendingOK, ClosingOK
  <2>3. SlotHeldWhileUnanswered'
    BY <1>2, <1>5, <1>8 DEF SlotHeldWhileUnanswered
  <2> QED
    BY <2>1, <2>2, <2>3 DEF OneAnswerOneSlot
<1>11. \A r \in Resources : mailbox'[r] = << >> /\ writerq'[r] = << >> /\ pty'[r] = pty[r]
  BY <1>2
<1>12. \A x : (Handed(x)' <=> Landed(x)) /\ (Whole(x)' <=> Whole(x)) /\ ~OnHand(x)'
  <2>1. \A x : ~Underway(x)'
    BY <1>11 DEF Underway
  <2>2. \A x : (Landed(x)' <=> Landed(x)) /\ (Whole(x)' <=> Whole(x)) /\ ~OnHand(x)'
    BY <1>2 DEF Landed, Whole, OnHand
  <2> QED
    BY <2>1, <2>2 DEF Handed
<1>13. OrderOK'
  <2>1. ASSUME NEW r \in Resources
        PROVE  /\ Chain(pty'[r], writerq'[r], mailbox'[r])
               /\ \A x \in InPane(r)' : x \in Ids /\ attempts'[x].to = r
    <3>1. Ascending(pty[r]) /\ \A x \in IdsOf(pty[r]) : x \in Ids /\ attempts[x].to = r
      BY <1>1 DEF HandedInv, OrderOK, PaneOrderOK, Chain, InPane
    <3>2. IdsOf(<< >>) = {} /\ Ascending(<< >>)
      BY DEF IdsOf, Ascending
    <3>3. Chain(pty'[r], writerq'[r], mailbox'[r])
      BY <3>1, <3>2, <1>11 DEF Chain, Before
    <3>4. InPane(r)' = IdsOf(pty[r])
      BY <3>2, <1>11 DEF InPane
    <3> QED
      BY <3>1, <3>3, <3>4, <1>6
  <2>2. PaneOrderOK'
    BY <2>1, <1>2, <1>5, <1>8, <1>9 DEF PaneOrderOK
  <2>3. LaneOrderOK'
    BY <1>2, <1>5, <1>8, <1>9 DEF LaneOrderOK
  <2>4. ClockOK'
    BY <1>1, <1>2, <1>5, <1>6 DEF ClockOK, HandedInv, OrderOK
  <2> QED
    BY <2>2, <2>3, <2>4 DEF OrderOK
<1>14. FatesOK'
  <2>1. Awaits' = {}
    BY <1>2, <1>9 DEF Awaits
  <2>2. Sinks' = {}
    <3>1. \A r \in Resources : PaneSinks(r)' = {}
      BY <1>11 DEF PaneSinks, Members
    <3>2. ~OnHand(item)'
      BY <1>2 DEF OnHand
    <3> QED
      BY <3>1, <3>2, SinkSplit
  <2> QED
    BY <2>1, <2>2, <1>2, <1>9 DEF FatesOK, TicketsOK, ReportsOK, VerdictsOK
<1>15. RecordsOK'
  BY <1>2, <1>5, <1>8 DEF RecordsOK, BoundOK, ResultKept, OneCopy
<1>16. OkIsWritten'
  BY <1>2, <1>5, <1>8 DEF OkIsWritten
<1>17. AllApply'
  BY <1>1, <1>2, <1>5, <1>6, <1>9 DEF AllApply, OpOf
<1>18. RefusalsOK'
  BY <1>5, <1>8 DEF RefusalsOK
<1>19. FramesForgotten
  BY <1>2, <1>5, <1>6, <1>8, <1>12 DEF FramesForgotten
<1> QED
  BY <1>7, <1>10, <1>13, <1>14, <1>15, <1>16, <1>17, <1>18, <1>19 DEF ServerOK, Inv, HandedInv

-----------------------------------------------------------------------------
(* The journal.  Its calls are functions of its own state, so each lemma     *)
(* starts from values that satisfy the invariant and says what the call      *)
(* makes of them.                                                            *)

Reports == Dispositions \cup {"New", "Queued"}

(* The clock, the counters and the bounds are natural numbers.               *)
\* Instant, RequestId.
LEMMA Numbers ==
    ASSUME SessionTypeOK
    PROVE  /\ now \in Nat /\ incarnation \in Nat /\ dialed \in Nat /\ Horizon \in Nat /\ Horizon > 0
           /\ MaxTransit \in Nat /\ \A o \in Operations : o \in Nat
  BY SessionAssumption DEF SessionTypeOK, TypeOK

(* The fields of a queued operation have their types.                        *)
\* PendingOp.
LEMMA PendingTyped ==
    ASSUME NEW q \in Seq(PendingOps)
    PROVE  \A i \in 1..Len(q) : /\ q[i] \in PendingOps /\ q[i].op \in Operations /\ q[i].op \in Nat
                                /\ q[i].server \in Nat /\ q[i].created \in Nat /\ q[i].attempted \in BOOLEAN
<1>1. \A i \in 1..Len(q) : q[i] \in PendingOps
  OBVIOUS
<1>2. \A p \in PendingOps : p.op \in Operations /\ p.server \in Nat /\ p.created \in Nat /\ p.attempted \in BOOLEAN
  BY DEF PendingOps
<1> QED
  BY <1>1, <1>2, SessionAssumption

(* Stranding a set of operations with different ids reports each of them     *)
(* once and nothing else.                                                    *)
\* strand_report.
LEMMA StrandEffect ==
    ASSUME NEW v \in [Operations -> Reports], NEW S \in SUBSET PendingOps,
           \A p, r \in S : p.op = r.op => p = r
    PROVE  /\ Strand(v, S) \in [Operations -> Reports]
           /\ \A p \in S : Strand(v, S)[p.op] = StrandReport(p)
           /\ \A o \in Operations : (\A p \in S : p.op # o) => Strand(v, S)[o] = v[o]
<1>1. \A o \in Operations : (\A p \in S : p.op # o) => Strand(v, S)[o] = v[o]
  BY DEF Strand
<1>2. ASSUME NEW p \in S PROVE Strand(v, S)[p.op] = StrandReport(p)
  <2>1. p.op \in Operations
    BY DEF PendingOps
  <2>2. PICK o : o = p.op
    OBVIOUS
  <2>3. (CHOOSE r \in S : r.op = o) \in S /\ (CHOOSE r \in S : r.op = o).op = o
    BY <2>2
  <2>4. (CHOOSE r \in S : r.op = o) = p
    BY <2>2, <2>3
  <2>5. Strand(v, S)[o] = StrandReport(CHOOSE r \in S : r.op = o)
    BY <2>1, <2>2 DEF Strand
  <2> QED
    BY <2>2, <2>4, <2>5
<1>3. \A o \in Operations : Strand(v, S)[o] \in Reports
  <2>1. SUFFICES ASSUME NEW o \in Operations PROVE Strand(v, S)[o] \in Reports
    OBVIOUS
  <2>2. CASE \A p \in S : p.op # o
    BY <2>2, <1>1
  <2>3. ASSUME NEW p \in S, p.op = o PROVE Strand(v, S)[o] \in Reports
    BY <2>3, <1>2 DEF StrandReport, Reports, Dispositions
  <2> QED
    BY <2>2, <2>3
<1>4. Strand(v, S) = [o \in Operations |-> Strand(v, S)[o]]
  BY DEF Strand
<1> QED
  BY <1>1, <1>2, <1>3, <1>4

\* The operations of r are those of q at the positions `at`, in order, and the
\* operations of S are others of q.
Split(q, r, at, S) ==
    /\ at \in [1..Len(r) -> 1..Len(q)]
    /\ \A i \in 1..Len(r) : r[i] = q[at[i]]
    /\ \A i, j \in 1..Len(r) : i < j => at[i] < at[j]
    /\ \A p \in S : (\E k \in 1..Len(q) : p = q[k]) /\ \A i \in 1..Len(r) : r[i].op # p.op

(* Taking operations out of the queue, the rest in order, and reporting      *)
(* those stranded keeps the journal's invariant.                             *)
\* sweep, strand_all, the front of next_frame.
LEMMA StrandKeepsJournal ==
    ASSUME SessionTypeOK,
           NEW q \in Seq(PendingOps), NEW r \in Seq(PendingOps), NEW at, NEW S,
           NEW v \in [Operations -> Reports], NEW frames \in SUBSET Frame,
           Split(q, r, at, S), JournalOK(q, v, frames)
    PROVE  /\ Strand(v, S) \in [Operations -> Reports]
           /\ \A o \in Operations : \/ Strand(v, S)[o] = v[o]
                                    \/ /\ v[o] = "Queued" /\ Strand(v, S)[o] \in {"Unknown", "Refused"}
                                       /\ \E p \in S : p.op = o
           /\ JournalOK(r, Strand(v, S), frames)
<1>1. \A i \in 1..Len(q) : q[i] \in PendingOps /\ q[i].op \in Operations /\ q[i].op \in Nat
  BY PendingTyped
<1>2. \A i, j \in 1..Len(q) : q[i].op = q[j].op => i = j
  <2>1. \A i, j \in 1..Len(q) : i < j => q[i].op < q[j].op
    BY DEF JournalOK, QueueOK
  <2>2. \A i, j \in 1..Len(q) : i < j \/ i = j \/ j < i
    OBVIOUS
  <2> QED
    BY <2>1, <2>2, <1>1
<1>3. S \in SUBSET PendingOps /\ \A p, s \in S : p.op = s.op => p = s
  BY <1>1, <1>2 DEF Split
<1>4. PICK w : w = Strand(v, S)
  OBVIOUS
<1>5. /\ w \in [Operations -> Reports]
      /\ \A p \in S : w[p.op] = StrandReport(p)
      /\ \A o \in Operations : (\A p \in S : p.op # o) => w[o] = v[o]
  BY <1>3, <1>4, StrandEffect
<1>6. \A p \in S : v[p.op] = "Queued" /\ p.op \in Operations /\ w[p.op] \in {"Unknown", "Refused"}
  BY <1>1, <1>5 DEF Split, JournalOK, QueueOK, StrandReport
<1>7. \A o \in Operations : w[o] = v[o] \/ (v[o] = "Queued" /\ w[o] \in {"Unknown", "Refused"} /\ \E p \in S : p.op = o)
  BY <1>5, <1>6
<1>8. \A i \in 1..Len(r) : at[i] \in 1..Len(q) /\ r[i] = q[at[i]]
  BY DEF Split
<1>9. QueueOK(r, w)
  <2>1. ASSUME NEW i \in 1..Len(r) PROVE w[r[i].op] = "Queued" /\ r[i].created =< now
    <3>1. PICK k \in 1..Len(q) : r[i] = q[k]
      BY <1>8
    <3>2. v[r[i].op] = "Queued" /\ r[i].created =< now /\ r[i].op \in Operations
      BY <3>1, <1>1 DEF JournalOK, QueueOK
    <3>3. \A p \in S : p.op # r[i].op
      BY DEF Split
    <3> QED
      BY <3>2, <3>3, <1>5
  <2>2. ASSUME NEW i \in 1..Len(r), NEW j \in 1..Len(r), i < j PROVE r[i].op < r[j].op
    <3>1. at[i] < at[j] /\ at[i] \in 1..Len(q) /\ at[j] \in 1..Len(q)
      BY <2>2 DEF Split
    <3> QED
      BY <3>1, <1>8 DEF JournalOK, QueueOK
  <2> QED
    BY <2>1, <2>2 DEF QueueOK
<1>10. MintOK(w)
  <2>1. \A o \in Operations : w[o] = "New" <=> v[o] = "New"
    BY <1>7
  <2> QED
    BY <2>1 DEF MintOK, JournalOK
<1>11. FrontOK(r, w, frames)
  <2>1. SUFFICES ASSUME NEW o \in Operations, OpSent(o, frames)
                 PROVE  w[o] # "New" /\ \A i \in 1..Len(r) : o =< r[i].op
    BY DEF FrontOK
  <2>2. v[o] # "New" /\ \A i \in 1..Len(q) : o =< q[i].op
    BY <2>1 DEF FrontOK, JournalOK
  <2> QED
    BY <2>2, <1>7, <1>8
<1>12. BoundedOK(r, frames)
  <2>1. SUFFICES ASSUME NEW o \in Operations
                 PROVE  \E c \in 0..now, s \in 1..incarnation : Bounded(o, c, s, r, frames)
    BY DEF BoundedOK
  <2>2. PICK c \in 0..now, s \in 1..incarnation : Bounded(o, c, s, q, frames)
    BY DEF BoundedOK, JournalOK
  <2>3. Bounded(o, c, s, r, frames)
    BY <2>2, <1>8 DEF Bounded
  <2> QED
    BY <2>3
<1>13. ToldOK(w, frames)
  <2>1. SUFFICES ASSUME NEW o \in Operations
                 PROVE  /\ w[o] = "Delivered" => \E x \in Ids : OpOf(x) = o /\ Whole(x)
                        /\ w[o] = "Refused" => ~OpSent(o, frames) \/ \E x \in Ids : OpOf(x) = o /\ Settled(x)
    BY DEF ToldOK
  <2>2. CASE w[o] = v[o]
    BY <2>2 DEF ToldOK, JournalOK
  <2>3. ASSUME NEW p \in S, p.op = o PROVE w[o] # "Delivered" /\ (w[o] = "Refused" => ~OpSent(o, frames))
    <3>1. PICK k \in 1..Len(q) : p = q[k]
      BY DEF Split
    <3>2. PICK c \in 0..now, s \in 1..incarnation : Bounded(o, c, s, q, frames)
      BY DEF BoundedOK, JournalOK
    <3>3. ~p.attempted => ~OpSent(o, frames)
      BY <2>3, <3>1, <3>2 DEF Bounded
    <3> QED
      BY <2>3, <3>3, <1>5 DEF StrandReport
  <2> QED
    BY <2>2, <2>3, <1>5
<1> QED
  BY <1>4, <1>5, <1>7, <1>9, <1>10, <1>11, <1>12, <1>13 DEF JournalOK

\* The frame that next_frame builds for operation p, and p once it is sent.
FrameFor(p, link, rid) ==
    [conn |-> link.conn, server |-> link.server, rid |-> rid, op |-> p.op, to |-> p.to,
     payload |-> p.payload, created |-> p.created, sent |-> now]
BoundTo(p, link) == [p EXCEPT !.attempted = TRUE, !.server = IF p.server = NoServer THEN link.server ELSE p.server]

(* Sending an operation marks it attempted and binds it to the link's server *)
(* unless it is bound already.                                               *)
\* next_frame: attempted, expected_server_id.
LEMMA BoundToFields ==
    ASSUME NEW p \in PendingOps, NEW link \in Connection
    PROVE  /\ BoundTo(p, link) \in PendingOps
           /\ BoundTo(p, link).op = p.op /\ BoundTo(p, link).created = p.created
           /\ BoundTo(p, link).attempted = TRUE
           /\ BoundTo(p, link).server = IF p.server = NoServer THEN link.server ELSE p.server
<1>1. PICK s : s = IF p.server = NoServer THEN link.server ELSE p.server
  OBVIOUS
<1>2. s \in Nat
  BY <1>1 DEF PendingOps, Connection
<1>3. PICK b : b = [p EXCEPT !.attempted = TRUE]
  OBVIOUS
<1>4. b \in PendingOps /\ b.op = p.op /\ b.created = p.created /\ b.attempted = TRUE
  BY <1>3 DEF PendingOps
<1>5. PICK c : c = [b EXCEPT !.server = s]
  OBVIOUS
<1>6. c \in PendingOps /\ c.op = b.op /\ c.created = b.created /\ c.attempted = b.attempted /\ c.server = s
  BY <1>2, <1>4, <1>5 DEF PendingOps
<1>7. c = BoundTo(p, link)
  BY <1>1, <1>3, <1>5 DEF BoundTo
<1> QED
  BY <1>1, <1>4, <1>6, <1>7

(* Sending the front of the queue, within the horizon and to the process it  *)
(* is bound to, keeps the journal's invariant.                               *)
\* next_frame.
LEMMA SendKeepsJournal ==
    ASSUME SessionTypeOK, NEW q \in Seq(PendingOps), NEW r \in Seq(PendingOps), NEW link \in Connection,
           NEW v \in [Operations -> Reports], NEW frames \in SUBSET Frame, NEW rid \in Nat,
           JournalOK(q, v, frames), q # << >>, ~PastHorizon(q[1]),
           link.server \in 1..incarnation, q[1].server \in {NoServer, link.server},
           Len(r) = Len(q), r[1] = BoundTo(q[1], link), \A i \in 2..Len(q) : r[i] = q[i]
    PROVE  /\ frames \cup {FrameFor(q[1], link, rid)} \in SUBSET Frame
           /\ JournalOK(r, v, frames \cup {FrameFor(q[1], link, rid)})
<1>1. PICK p, f, sent : p = q[1] /\ f = FrameFor(q[1], link, rid) /\ sent = frames \cup {f}
  OBVIOUS
<1>2. /\ Len(q) \in Nat /\ Len(q) > 0 /\ 1 \in 1..Len(q)
      /\ \A i \in 1..Len(q) : q[i] \in PendingOps /\ q[i].op \in Operations /\ q[i].op \in Nat
  BY PendingTyped
<1>3. /\ p \in PendingOps /\ p.op \in Operations /\ p.to \in Resources /\ p.payload \in Payloads
      /\ p.server \in Nat /\ p.created \in Nat
  BY <1>1, <1>2 DEF PendingOps
<1>4. now \in Nat /\ Horizon \in Nat /\ incarnation \in Nat
  BY Numbers
<1>5. f.conn = link.conn /\ f.server = link.server /\ f.rid = rid /\ f.op = p.op
      /\ f.created = p.created /\ f.sent = now /\ f \in Frame
  <2>1. link.conn \in Clients /\ link.server \in Nat
    BY DEF Connection
  <2>2. f = [conn |-> link.conn, server |-> link.server, rid |-> rid, op |-> p.op, to |-> p.to,
             payload |-> p.payload, created |-> p.created, sent |-> now]
    BY <1>1 DEF FrameFor
  <2> QED
    BY <2>1, <2>2, <1>3, <1>4 DEF Frame
<1>6. r[1].op = p.op /\ r[1].created = p.created /\ r[1].attempted = TRUE /\ r[1].server = link.server
  <2>1. PICK b : b = BoundTo(p, link)
    OBVIOUS
  <2>2. /\ b.op = p.op /\ b.created = p.created /\ b.attempted = TRUE
        /\ b.server = IF p.server = NoServer THEN link.server ELSE p.server
    BY <2>1, <1>3, BoundToFields
  <2>3. r[1] = b /\ p.server \in {NoServer, link.server}
    BY <2>1, <1>1
  <2> QED
    BY <2>2, <2>3
<1>7. \A i \in 1..Len(r) : i \in 1..Len(q) /\ r[i].op = q[i].op /\ r[i].created = q[i].created
                           /\ (i # 1 => r[i] = q[i])
  BY <1>1, <1>2, <1>6
<1>8. v[p.op] = "Queued" /\ p.created =< now /\ (\A i \in 1..Len(q) : i # 1 => p.op < q[i].op)
  BY <1>1, <1>2 DEF JournalOK, QueueOK
<1>9. QueueOK(r, v)
  BY <1>7 DEF JournalOK, QueueOK
<1>10. \A o : OpSent(o, sent) <=> OpSent(o, frames) \/ o = p.op
  BY <1>1, <1>5 DEF OpSent
<1>11. FrontOK(r, v, sent)
  <2>1. SUFFICES ASSUME NEW o \in Operations, OpSent(o, sent)
                 PROVE  v[o] # "New" /\ \A i \in 1..Len(r) : o =< r[i].op
    BY DEF FrontOK
  <2>2. CASE OpSent(o, frames)
    BY <2>2, <1>7 DEF FrontOK, JournalOK
  <2>3. CASE o = p.op
    BY <2>3, <1>1, <1>2, <1>3, <1>7, <1>8
  <2> QED
    BY <2>1, <2>2, <2>3, <1>10
<1>12. BoundedOK(r, sent)
  <2>1. SUFFICES ASSUME NEW o \in Operations
                 PROVE  \E c \in 0..now, s \in 1..incarnation : Bounded(o, c, s, r, sent)
    BY DEF BoundedOK
  <2>2. PICK c \in 0..now, s \in 1..incarnation : Bounded(o, c, s, q, frames)
    BY DEF BoundedOK, JournalOK
  <2>3. CASE o # p.op
    <3>1. \A g \in sent : g.op = o => g \in frames
      BY <2>3, <1>1, <1>5
    <3>2. \A i \in 1..Len(r) : r[i].op = o => r[i] = q[i] /\ i \in 1..Len(q)
      BY <2>3, <1>6, <1>7
    <3>3. OpSent(o, sent) <=> OpSent(o, frames)
      BY <2>3, <1>10
    <3>4. Bounded(o, c, s, r, sent)
      BY <2>2, <3>1, <3>2, <3>3 DEF Bounded
    <3> QED
      BY <3>4
  <2>4. CASE o = p.op
    <3>1. p.created = c /\ IF p.attempted THEN p.server = s ELSE ~OpSent(o, frames)
      BY <2>2, <2>4, <1>1, <1>2 DEF Bounded
    <3>2. PICK t : t = link.server
      OBVIOUS
    <3>3. c =< now /\ now < c + Horizon /\ now =< now
      BY <3>1, <1>1, <1>3, <1>4, <1>8 DEF PastHorizon
    <3>4. \A i \in 1..Len(r) : r[i].op = o => i = 1
      BY <2>4, <1>2, <1>3, <1>7, <1>8
    <3>5. \A i \in 1..Len(r) : r[i].op = o => r[i].created = c /\ r[i].attempted = TRUE /\ r[i].server = t
      BY <3>1, <3>2, <3>4, <1>6
    <3>6. /\ \A g \in sent : g.op = o => /\ g.created = c /\ g.server = t
                                        /\ c =< g.sent /\ g.sent < c + Horizon /\ g.sent =< now
          /\ \A x \in Ids : OpOf(x) = o =>
                /\ c =< attempts[x].admitted /\ (attempts[x].admitted < c + Horizon \/ o \in late)
                /\ IF IsApply(x) THEN t = incarnation ELSE t < incarnation
                /\ Bound(x) => c =< attempts[x].bound
          /\ entries[o] # NoEntry => c =< entries[o].inserted /\ \E x \in Ids : OpOf(x) = o
      <4>1. CASE p.attempted
        <5>1. s = t
          BY <4>1, <3>1, <3>2, <1>1, <1>4 DEF NoServer
        <5> QED
          BY <5>1, <2>2, <3>1, <3>2, <3>3, <1>1, <1>5 DEF Bounded
      <4>2. CASE ~p.attempted
        <5>1. (\A g \in frames : g.op # o) /\ (\A x \in Ids : OpOf(x) # o)
          BY <4>2, <3>1 DEF OpSent
        <5> QED
          BY <5>1, <2>2, <3>1, <3>2, <3>3, <1>1, <1>5 DEF Bounded
      <4> QED
        BY <4>1, <4>2
    <3>7. Bounded(o, c, t, r, sent)
      BY <3>5, <3>6 DEF Bounded
    <3> QED
      BY <3>2, <3>7
  <2> QED
    BY <2>3, <2>4
<1>13. ToldOK(v, sent)
  <2>1. \A o \in Operations : v[o] = "Refused" => (OpSent(o, sent) <=> OpSent(o, frames))
    BY <1>8, <1>10
  <2> QED
    BY <2>1 DEF ToldOK, JournalOK
<1>14. MintOK(v)
  BY DEF JournalOK
<1> QED
  BY <1>1, <1>5, <1>9, <1>11, <1>12, <1>13, <1>14 DEF JournalOK

(* The fields of a connection have their types, and a connection is not the  *)
(* absent one.                                                               *)
\* ConnectionContext.
LEMMA LinkTyped ==
    ASSUME NEW link \in Connection
    PROVE  link # NoLink /\ link.conn \in Clients /\ link.conn \in Nat /\ link.server \in Nat /\ link.inFlight \in Nat
  BY SessionAssumption DEF Connection

\* What next_frame does to the journal, from queue q and reports v.
Sends(q, v, cs, d) ==
    /\ queue' \in Seq(PendingOps) /\ connection' \in Connection \cup {NoLink} /\ nextRequest' \in Nat
    /\ verdict' \in [Operations -> Reports] /\ wire' \in SUBSET Frame
    /\ JournalOK(queue', verdict', wire')
    /\ LinkOK(queue', connection', nextRequest', wire', cs, d)
    /\ \A o \in Operations : \/ verdict'[o] = v[o]
                             \/ /\ v[o] = "Queued" /\ verdict'[o] \in {"Unknown", "Refused"}
                                /\ \E i \in 1..Len(q) : q[i].op = o /\ PastHorizon(q[i])

(* From a state that satisfies the journal's invariant, next_frame ends in   *)
(* one, and reports nothing but that operations past the horizon are         *)
(* stranded.                                                                 *)
\* next_frame.
LEMMA NextFrameKeeps ==
    ASSUME SessionTypeOK, NEW q \in Seq(PendingOps), NEW link \in Connection \cup {NoLink}, NEW rid \in Nat,
           NEW v \in [Operations -> Reports], NEW frames \in SUBSET Frame,
           NEW cs \in SUBSET [conn : Clients, rid : Nat, id : Nat], NEW d \in Nat,
           JournalOK(q, v, frames), LinkOK(q, link, rid, frames, cs, d), NextFrame(q, link, rid, v, frames)
    PROVE  Sends(q, v, cs, d)
<1>1. CASE link = NoLink \/ link.inFlight # NoRequest
  <2>1. queue' = q /\ connection' = link /\ nextRequest' = rid /\ verdict' = v /\ wire' = frames
    BY <1>1 DEF NextFrame
  <2> QED
    BY <2>1 DEF Sends
<1>2. CASE link # NoLink /\ link.inFlight = NoRequest
  <2>1. link \in Connection /\ link.conn \in Nat /\ link.server \in Nat
    BY <1>2, LinkTyped
  <2>2. PICK n \in 0..Len(q) :
          /\ \A i \in 1..n : PastHorizon(q[i])
          /\ verdict' = Strand(v, {q[i] : i \in 1..n})
          /\ \/ n = Len(q) /\ queue' = << >> /\ connection' = link /\ nextRequest' = rid /\ wire' = frames
             \/ /\ n < Len(q) /\ ~PastHorizon(q[n + 1])
                /\ queue' = <<BoundTo(q[n + 1], link)>> \o SubSeq(q, n + 2, Len(q))
                /\ wire' = frames \cup {FrameFor(q[n + 1], link, rid)}
                /\ connection' = [link EXCEPT !.inFlight = rid]
                /\ nextRequest' = rid + 1
    BY <1>2 DEF NextFrame, BoundTo, FrameFor
  <2>3. PICK S : S = {q[i] : i \in 1..n}
    OBVIOUS
  <2>4. PICK r : r = SubSeq(q, n + 1, Len(q))
    OBVIOUS
  <2>5. PICK at : at = [i \in 1..Len(r) |-> n + i]
    OBVIOUS
  <2>6. n \in Nat /\ Len(q) \in Nat /\ n =< Len(q)
    OBVIOUS
  <2>7. /\ r \in Seq(PendingOps) /\ Len(r) = Len(q) - n
        /\ \A i \in 1..Len(r) : n + i \in 1..Len(q) /\ r[i] = q[n + i]
    BY <2>4, <2>6
  <2>8. \A i \in 1..Len(q) : q[i] \in PendingOps /\ q[i].op \in Nat
    BY PendingTyped
  <2>9. Split(q, r, at, S)
    <3>1. at \in [1..Len(r) -> 1..Len(q)] /\ \A i \in 1..Len(r) : r[i] = q[at[i]]
      BY <2>5, <2>7
    <3>2. \A i, j \in 1..Len(r) : i < j => at[i] < at[j]
      BY <2>5, <2>6, <2>7
    <3>3. ASSUME NEW k \in 1..n, NEW i \in 1..Len(r) PROVE r[i].op # q[k].op
      <4>1. k \in 1..Len(q) /\ n + i \in 1..Len(q) /\ k < n + i /\ r[i] = q[n + i]
        BY <3>3, <2>6, <2>7
      <4>2. q[k].op < q[n + i].op
        BY <4>1 DEF JournalOK, QueueOK
      <4> QED
        BY <4>1, <4>2, <2>8
    <3>4. 1..n \subseteq 1..Len(q)
      BY <2>6
    <3> QED
      BY <3>1, <3>2, <3>3, <3>4, <2>3 DEF Split
  <2>10. /\ verdict' \in [Operations -> Reports]
         /\ \A o \in Operations : \/ verdict'[o] = v[o]
                                  \/ /\ v[o] = "Queued" /\ verdict'[o] \in {"Unknown", "Refused"}
                                     /\ \E i \in 1..Len(q) : q[i].op = o /\ PastHorizon(q[i])
         /\ JournalOK(r, verdict', frames)
    <3>1. verdict' = Strand(v, S)
      BY <2>2, <2>3
    <3>2. \A p \in S : \E i \in 1..Len(q) : p = q[i] /\ PastHorizon(q[i])
      BY <2>2, <2>3, <2>6
    <3>3. /\ verdict' \in [Operations -> Reports] /\ JournalOK(r, verdict', frames)
          /\ \A o \in Operations : \/ verdict'[o] = v[o]
                                   \/ /\ v[o] = "Queued" /\ verdict'[o] \in {"Unknown", "Refused"}
                                      /\ \E p \in S : p.op = o
      BY <3>1, <2>7, <2>9, StrandKeepsJournal
    <3> QED
      BY <3>2, <3>3
  <2>11. CASE n = Len(q)
    <3>1. queue' = << >> /\ connection' = link /\ nextRequest' = rid /\ wire' = frames
      BY <2>2, <2>6, <2>11
    <3>2. r = << >>
      BY <2>7, <2>11
    <3>3. LinkOK(<< >>, link, rid, frames, cs, d)
      BY <1>2 DEF LinkOK
    <3> QED
      BY <3>1, <3>2, <3>3, <2>10 DEF Sends
  <2>12. CASE n < Len(q)
    <3>1. /\ ~PastHorizon(q[n + 1])
          /\ queue' = <<BoundTo(q[n + 1], link)>> \o SubSeq(q, n + 2, Len(q))
          /\ wire' = frames \cup {FrameFor(q[n + 1], link, rid)}
          /\ connection' = [link EXCEPT !.inFlight = rid] /\ nextRequest' = rid + 1
      BY <2>2, <2>6, <2>12
    <3>2. r # << >> /\ r[1] = q[n + 1] /\ 1 \in 1..Len(r) /\ n + 1 \in 1..Len(q)
      BY <2>6, <2>7, <2>12
    <3>3. r[1] \in PendingOps /\ BoundTo(r[1], link) \in PendingOps
      BY <3>2, <2>1, <2>8, BoundToFields
    <3>4. PICK t : t = SubSeq(q, n + 2, Len(q))
      OBVIOUS
    <3>5. t \in Seq(PendingOps) /\ Len(t) = Len(r) - 1 /\ \A i \in 1..Len(t) : t[i] = q[n + 1 + i]
      BY <3>4, <2>6, <2>7, <2>12
    <3>6. PICK b : b = BoundTo(r[1], link)
      OBVIOUS
    <3>7. queue' = <<b>> \o t /\ b \in PendingOps
      BY <3>1, <3>2, <3>3, <3>4, <3>6
    <3>8. queue' \in Seq(PendingOps) /\ Len(queue') = Len(r) /\ queue'[1] = b
      BY <3>5, <3>7
    <3>9. \A i \in 2..Len(r) : queue'[i] = r[i]
      <4>1. SUFFICES ASSUME NEW i \in 2..Len(r) PROVE queue'[i] = r[i]
        OBVIOUS
      <4>2. i - 1 \in 1..Len(t) /\ queue'[i] = t[i - 1]
        BY <3>5, <3>7, <2>6, <2>7
      <4>3. t[i - 1] = q[n + 1 + (i - 1)] /\ n + 1 + (i - 1) = n + i /\ i \in 1..Len(r)
        BY <4>2, <3>5, <2>6, <2>7
      <4> QED
        BY <4>2, <4>3, <2>7
    <3>10. link.server \in 1..incarnation /\ r[1].server \in {NoServer, link.server}
      BY <1>2, <3>2 DEF LinkOK
    <3>11. PICK f : f = FrameFor(r[1], link, rid)
      OBVIOUS
    <3>12. wire' = frames \cup {f}
      BY <3>1, <3>2, <3>11
    <3>13. wire' \in SUBSET Frame /\ JournalOK(queue', verdict', wire')
      <4>1. PICK z, u : z = queue' /\ u = verdict'
        OBVIOUS
      <4>2. /\ z \in Seq(PendingOps) /\ u \in [Operations -> Reports] /\ JournalOK(r, u, frames)
            /\ Len(z) = Len(r) /\ z[1] = BoundTo(r[1], link) /\ \A i \in 2..Len(r) : z[i] = r[i]
        BY <4>1, <3>6, <3>8, <3>9, <2>10
      <4>3. ~PastHorizon(r[1])
        BY <3>1, <3>2
      <4>4. /\ frames \cup {FrameFor(r[1], link, rid)} \in SUBSET Frame
            /\ JournalOK(z, u, frames \cup {FrameFor(r[1], link, rid)})
        BY <4>2, <4>3, <3>2, <3>10, <2>1, <2>7, SendKeepsJournal
      <4> QED
        BY <4>1, <4>4, <3>11, <3>12
    <3>14. /\ connection' \in Connection /\ connection'.conn = link.conn /\ connection'.server = link.server
           /\ connection'.inFlight = rid /\ connection' # NoLink
      BY <3>1, <2>1, SessionAssumption DEF Connection
    <3>15. f.conn = link.conn /\ f.rid = rid /\ f.op = r[1].op
      BY <3>11 DEF FrameFor
    <3>16. /\ b.op = r[1].op /\ b.server = IF r[1].server = NoServer THEN link.server ELSE r[1].server
      BY <3>3, <3>6, <2>1, BoundToFields
    <3>17. \A g \in frames : g.rid \in Nat /\ g.conn \in Nat
      BY SessionAssumption DEF Frame
    <3>18. LinkOK(queue', connection', nextRequest', wire', cs, d)
      <4>1. /\ rid + 1 # NoRequest /\ rid < rid + 1
            /\ \A k \in Nat : k < rid => k < rid + 1 /\ k # rid
        BY DEF NoRequest
      <4>2. /\ link.conn =< d
            /\ \A g \in frames : g.conn =< d /\ g.rid # NoRequest /\ (g.conn = link.conn => g.rid < rid)
            /\ rid # NoRequest
            /\ \A call \in cs : call.id \in Ids /\ IsApply(call.id) /\ call.rid # NoRequest /\ call.rid < rid
        BY <1>2 DEF LinkOK
      <4>3. \A i \in 1..Len(queue') : queue'[i].server \in {NoServer, link.server}
        <5>1. \A i \in 1..Len(q) : q[i].server \in {NoServer, link.server}
          BY <1>2 DEF LinkOK
        <5>2. \A i \in 1..Len(r) : r[i].server \in {NoServer, link.server}
          BY <5>1, <2>7
        <5>3. \A i \in 1..Len(r) : i = 1 \/ i \in 2..Len(r)
          OBVIOUS
        <5> QED
          BY <5>2, <5>3, <3>8, <3>9, <3>16
      <4>4. \A call \in cs : call.rid \in Nat
        OBVIOUS
      <4>5. queue'[1].op = r[1].op /\ queue' # << >> /\ nextRequest' = rid + 1
        BY <3>1, <3>2, <3>8, <3>16
      <4>6. \A g \in wire' : /\ g.conn =< d /\ g.rid # NoRequest
                             /\ g.conn = link.conn => g.rid < rid + 1 /\ (g.rid = rid => g.op = r[1].op)
        <5>1. \A g \in frames : /\ g.conn =< d /\ g.rid # NoRequest
                                /\ g.conn = link.conn => g.rid < rid + 1 /\ g.rid # rid
          BY <4>1, <4>2, <3>17
        <5>2. f.conn =< d /\ f.rid # NoRequest /\ f.rid < rid + 1 /\ f.op = r[1].op
          BY <4>1, <4>2, <3>15
        <5> QED
          BY <5>1, <5>2, <3>12
      <4>7. \A call \in cs : call.rid < rid + 1 /\ call.rid # rid
        BY <4>1, <4>2, <4>4
      <4> QED
        BY <4>1, <4>2, <4>3, <4>5, <4>6, <4>7, <3>10, <3>14 DEF LinkOK
    <3> QED
      BY <3>8, <3>13, <3>14, <3>18, <3>1, <2>10 DEF Sends
  <2> QED
    BY <2>11, <2>12, <2>6
<1> QED
  BY <1>1, <1>2

(* The journal's invariant depends on the server only through the frames it  *)
(* took, the records and the panes.                                          *)
\* The journal shares no state with the server.
LEMMA JournalSame ==
    ASSUME UNCHANGED <<vars, incarnation, late>>, JournalOK(queue', verdict', wire'),
           LinkOK(queue', connection', nextRequest', wire', calls', dialed')
    PROVE  JournalOK(queue, verdict, wire)' /\ LinkOK(queue, connection, nextRequest, wire, calls, dialed)'
<1>1. UNCHANGED <<now, attempts, lanePc, item, mailbox, writerq, pty, entries, incarnation, late>>
  BY DEF vars, laneVars, paneVars, cacheVars
<1>2. /\ Ids' = Ids
      /\ \A x : /\ OpOf(x)' = OpOf(x) /\ (IsApply(x)' <=> IsApply(x)) /\ (Bound(x)' <=> Bound(x))
                /\ (Whole(x)' <=> Whole(x)) /\ (Settled(x)' <=> Settled(x))
  <2>1. \A x : (Handed(x)' <=> Handed(x)) /\ (Whole(x)' <=> Whole(x))
    BY <1>1 DEF Handed, Underway, Landed, Whole
  <2>2. \A x : (OnHand(x)' <=> OnHand(x)) /\ (ApplyWaiting(x)' <=> ApplyWaiting(x))
    BY <1>1 DEF OnHand, ApplyWaiting, IsApply, Ids
  <2> QED
    BY <2>1, <2>2, <1>1 DEF Ids, OpOf, IsApply, Bound, Settled, May
<1>3. \A o : OpSent(o, wire)' <=> OpSent(o, wire')
  BY <1>2 DEF OpSent
<1>4. QueueOK(queue, verdict)' /\ MintOK(verdict)' /\ FrontOK(queue, verdict, wire)'
  BY <1>1, <1>3 DEF JournalOK, QueueOK, MintOK, FrontOK
<1>5. LinkOK(queue, connection, nextRequest, wire, calls, dialed)'
  <2>1. \A call \in calls' : /\ call.id \in Ids' <=> call.id \in Ids
                             /\ OpOf(call.id)' = OpOf(call.id) /\ (IsApply(call.id)' <=> IsApply(call.id))
    BY <1>2
  <2> QED
    BY <2>1, <1>1 DEF LinkOK
<1>6. BoundedOK(queue, wire)'
  <2>1. SUFFICES ASSUME NEW o \in Operations
                 PROVE  (\E c \in 0..now, s \in 1..incarnation : Bounded(o, c, s, queue, wire))'
    BY DEF BoundedOK
  <2>2. PICK c \in 0..now, s \in 1..incarnation : Bounded(o, c, s, queue', wire')
    BY DEF JournalOK, BoundedOK
  <2>3. Bounded(o, c, s, queue, wire)'
    BY <2>2, <1>1, <1>2, <1>3 DEF Bounded
  <2> QED
    BY <2>3, <1>1
<1>7. ToldOK(verdict, wire)'
  BY <1>2, <1>3 DEF JournalOK, ToldOK
<1> QED
  BY <1>4, <1>5, <1>6, <1>7 DEF JournalOK

\* What a call of the journal may report.
Judges ==
    \A o \in Operations :
        \/ verdict'[o] = verdict[o]
        \/ verdict[o] = "New" /\ verdict'[o] = "Queued"
        \/ verdict[o] = "Queued" /\ verdict'[o] \in {"Unknown", "Refused"}
        \/ /\ verdict[o] = "Queued" /\ verdict'[o] = "Delivered"
           /\ \E x \in Ids : OpOf(x) = o /\ Whole(x)
           /\ \A x \in Ids : OpOf(x) =< o

\* A call of the journal keeps its invariant.
JournalMoves ==
    /\ queue' \in Seq(PendingOps) /\ connection' \in Connection \cup {NoLink} /\ nextRequest' \in Nat
    /\ verdict' \in [Operations -> Reports] /\ wire' \in SUBSET Frame
    /\ JournalOK(queue', verdict', wire')
    /\ LinkOK(queue', connection', nextRequest', wire', calls', dialed')
    /\ Judges

(* A paste goes to the end of the queue under a new id and keeps the         *)
(* journal's invariant.                                                      *)
\* submit.
LEMMA PasteKeeps ==
    ASSUME SessionInv, NEW o \in Operations, NEW r \in Resources, NEW d \in Payloads, Paste(o, r, d)
    PROVE  JournalMoves
<1>1. SessionTypeOK /\ JournalOK(queue, verdict, wire)
      /\ LinkOK(queue, connection, nextRequest, wire, calls, dialed) /\ UNCHANGED <<calls, dialed>>
  BY DEF SessionInv, Paste, linkVars
<1>2. PICK p, q, v : p = PendingOp(o, r, d) /\ q = Append(queue, p) /\ v = [verdict EXCEPT ![o] = "Queued"]
  OBVIOUS
<1>3. /\ connection # NoLink /\ verdict[o] = "New" /\ \A k \in Operations : k < o => verdict[k] # "New"
      /\ NextFrame(q, connection, nextRequest, v, wire)
  BY <1>2 DEF Paste, Submit
<1>4. /\ queue \in Seq(PendingOps) /\ connection \in Connection \cup {NoLink} /\ nextRequest \in Nat
      /\ verdict \in [Operations -> Reports] /\ wire \in SUBSET Frame
      /\ calls \in SUBSET [conn : Clients, rid : Nat, id : Nat] /\ dialed \in Nat /\ now \in Nat
      /\ incarnation \in Nat /\ incarnation >= 1
  BY <1>1 DEF SessionTypeOK, TypeOK, Reports
<1>5. p.op = o /\ p.server = NoServer /\ p.created = now /\ p.attempted = FALSE /\ p \in PendingOps
  BY <1>2, <1>4 DEF PendingOp, PendingOps, NoServer
<1>6. /\ q \in Seq(PendingOps) /\ Len(q) = Len(queue) + 1 /\ q[Len(queue) + 1] = p
      /\ \A i \in 1..Len(queue) : q[i] = queue[i]
  BY <1>2, <1>4, <1>5
<1>7. v \in [Operations -> Reports] /\ v[o] = "Queued" /\ \A k \in Operations : k # o => v[k] = verdict[k]
  BY <1>2, <1>4 DEF Reports
<1>8. \A i \in 1..Len(q) : (i \in 1..Len(queue) /\ q[i] = queue[i]) \/ (i = Len(queue) + 1 /\ q[i] = p)
  BY <1>4, <1>6
<1>9. ~OpSent(o, wire)
  BY <1>1, <1>3 DEF JournalOK, FrontOK
<1>10. \A k \in Operations : k \in Nat
  BY SessionAssumption
<1>11. \A k \in Operations : verdict[k] # "New" => k < o
  <2>1. \A k \in Operations : o < k => verdict[k] = "New"
    BY <1>1, <1>3 DEF JournalOK, MintOK
  <2> QED
    BY <2>1, <1>3, <1>10
<1>12. \A i \in 1..Len(queue) : /\ queue[i].op \in Operations /\ queue[i].op \in Nat /\ queue[i].op < o
                               /\ queue[i].created =< now /\ verdict[queue[i].op] = "Queued"
  BY <1>1, <1>4, <1>11, PendingTyped DEF JournalOK, QueueOK
<1>13. QueueOK(q, v)
  <2>1. ASSUME NEW i \in 1..Len(q) PROVE v[q[i].op] = "Queued" /\ q[i].created =< now
    BY <1>4, <1>5, <1>7, <1>8, <1>10, <1>12
  <2>2. ASSUME NEW i \in 1..Len(q), NEW j \in 1..Len(q), i < j PROVE q[i].op < q[j].op
    <3>1. i \in 1..Len(queue) /\ q[i] = queue[i]
      BY <2>2, <1>4, <1>6
    <3>2. CASE j \in 1..Len(queue)
      BY <2>2, <3>1, <3>2, <1>1, <1>6 DEF JournalOK, QueueOK
    <3>3. CASE q[j] = p
      BY <3>1, <3>3, <1>5, <1>12
    <3> QED
      BY <3>2, <3>3, <1>8
  <2> QED
    BY <2>1, <2>2 DEF QueueOK
<1>14. MintOK(v)
  <2>1. SUFFICES ASSUME NEW k \in Operations, NEW l \in Operations, k < l, v[k] = "New" PROVE v[l] = "New"
    BY DEF MintOK
  <2>2. verdict[k] = "New" /\ k # o
    BY <2>1, <1>7
  <2>3. verdict[l] = "New"
    BY <2>1, <2>2, <1>1 DEF JournalOK, MintOK
  <2> QED
    BY <2>1, <2>2, <2>3, <1>3, <1>7
<1>15. FrontOK(q, v, wire)
  <2>1. SUFFICES ASSUME NEW k \in Operations, OpSent(k, wire)
                 PROVE  v[k] # "New" /\ \A i \in 1..Len(q) : k =< q[i].op
    BY DEF FrontOK
  <2>2. verdict[k] # "New" /\ \A i \in 1..Len(queue) : k =< queue[i].op
    BY <2>1, <1>1 DEF JournalOK, FrontOK
  <2>3. k < o /\ k =< o
    BY <2>2, <1>10, <1>11
  <2> QED
    BY <2>2, <2>3, <1>5, <1>7, <1>8
<1>16. BoundedOK(q, wire)
  <2>1. SUFFICES ASSUME NEW k \in Operations
                 PROVE  \E c \in 0..now, s \in 1..incarnation : Bounded(k, c, s, q, wire)
    BY DEF BoundedOK
  <2>2. PICK c \in 0..now, s \in 1..incarnation : Bounded(k, c, s, queue, wire)
    BY <1>1 DEF JournalOK, BoundedOK
  <2>3. CASE k # o
    <3>1. \A i \in 1..Len(q) : q[i].op = k => i \in 1..Len(queue) /\ q[i] = queue[i]
      BY <2>3, <1>5, <1>8
    <3>2. Bounded(k, c, s, q, wire)
      BY <2>2, <3>1 DEF Bounded
    <3> QED
      BY <3>2
  <2>4. CASE k = o
    <3>1. (\A f \in wire : f.op # k) /\ (\A x \in Ids : OpOf(x) # k) /\ entries[k] = NoEntry
      BY <2>2, <2>4, <1>9 DEF OpSent, Bounded
    <3>2. \A i \in 1..Len(q) : q[i].op = k => q[i] = p
      BY <2>4, <1>8, <1>12
    <3>3. Bounded(k, now, s, q, wire)
      BY <3>1, <3>2, <2>4, <1>5, <1>9 DEF Bounded
    <3> QED
      BY <3>3, <1>4
  <2> QED
    BY <2>3, <2>4
<1>17. ToldOK(v, wire)
  BY <1>1, <1>7 DEF JournalOK, ToldOK
<1>18. LinkOK(q, connection, nextRequest, wire, calls, dialed)
  <2>1. connection.inFlight # NoRequest => queue # << >> /\ q # << >> /\ q[1] = queue[1]
    BY <1>1, <1>3, <1>4, <1>6 DEF LinkOK
  <2>2. \A i \in 1..Len(q) : q[i].server \in {NoServer, connection.server}
    BY <1>1, <1>3, <1>5, <1>8 DEF LinkOK
  <2> QED
    BY <2>1, <2>2, <1>1, <1>3 DEF LinkOK
<1>19. JournalOK(q, v, wire)
  BY <1>13, <1>14, <1>15, <1>16, <1>17 DEF JournalOK
<1>20. Sends(q, v, calls, dialed)
  <2>1. PICK l, n, fs, cc, dd, qq, vv : /\ l = connection /\ n = nextRequest /\ fs = wire
                                        /\ cc = calls /\ dd = dialed /\ qq = q /\ vv = v
    OBVIOUS
  <2>2. /\ l \in Connection \cup {NoLink} /\ n \in Nat /\ fs \in SUBSET Frame
        /\ cc \in SUBSET [conn : Clients, rid : Nat, id : Nat] /\ dd \in Nat
        /\ JournalOK(qq, vv, fs) /\ LinkOK(qq, l, n, fs, cc, dd) /\ NextFrame(qq, l, n, vv, fs)
        /\ SessionTypeOK /\ qq \in Seq(PendingOps) /\ vv \in [Operations -> Reports]
    BY <2>1, <1>1, <1>3, <1>4, <1>6, <1>7, <1>18, <1>19
  <2>3. Sends(qq, vv, cc, dd)
    BY <2>2, NextFrameKeeps
  <2> QED
    BY <2>1, <2>3
<1>21. ~PastHorizon(p)
  <2>1. Horizon \in Nat /\ Horizon > 0 /\ now - now = 0
    BY <1>1, <1>4, Numbers
  <2> QED
    BY <2>1, <1>5 DEF PastHorizon
<1>22. \A i \in 1..Len(q) : q[i].op = o => q[i] = p
  BY <1>8, <1>12
<1>23. verdict'[o] = "Queued"
  BY <1>7, <1>20, <1>21, <1>22 DEF Sends
<1>24. Judges
  <2>1. SUFFICES ASSUME NEW k \in Operations
                 PROVE  \/ verdict'[k] = verdict[k]
                        \/ verdict[k] = "New" /\ verdict'[k] = "Queued"
                        \/ verdict[k] = "Queued" /\ verdict'[k] \in {"Unknown", "Refused"}
    BY DEF Judges
  <2> QED
    BY <1>3, <1>7, <1>20, <1>23 DEF Sends
<1> QED
  BY <1>1, <1>20, <1>24 DEF JournalMoves, Sends

\* The journal's invariant holds with calls cs and d dialled connections, and
\* nothing was reported but that operations were stranded.
Carried(cs, d) ==
    /\ queue' \in Seq(PendingOps) /\ connection' \in Connection \cup {NoLink} /\ nextRequest' \in Nat
    /\ verdict' \in [Operations -> Reports] /\ wire' \in SUBSET Frame
    /\ JournalOK(queue', verdict', wire')
    /\ LinkOK(queue', connection', nextRequest', wire', cs, d)
    /\ \A o \in Operations : \/ verdict'[o] = verdict[o]
                             \/ verdict[o] = "Queued" /\ verdict'[o] \in {"Unknown", "Refused"}

(* A call that only strands operations is one that may be made.              *)
\* sweep, strand_all.
LEMMA CarriedMoves ==
    ASSUME Carried(calls', dialed')
    PROVE  JournalMoves
  BY DEF Carried, JournalMoves, Judges

(* The parts of the invariant, with the types its use needs.                 *)
\* All of the session's state.
LEMMA SessionFacts ==
    ASSUME SessionInv
    PROVE  /\ queue \in Seq(PendingOps) /\ connection \in Connection \cup {NoLink} /\ nextRequest \in Nat
           /\ verdict \in [Operations -> Reports] /\ wire \in SUBSET Frame
           /\ calls \in SUBSET [conn : Clients, rid : Nat, id : Nat] /\ dialed \in Nat /\ now \in Nat
           /\ incarnation \in Nat /\ incarnation >= 1
           /\ SessionTypeOK /\ JournalOK(queue, verdict, wire)
           /\ LinkOK(queue, connection, nextRequest, wire, calls, dialed)
  BY DEF SessionInv, SessionTypeOK, TypeOK, Reports

-----------------------------------------------------------------------------
(* The client's steps.                                                       *)

(* The survivors of a sweep are in queue order, may be sent to the new       *)
(* process, and are none of the operations stranded.                         *)
\* sweep.
LEMMA SweepSplits ==
    ASSUME SessionInv, NEW s \in Nat, NEW at \in Listings(Survivors(s)), NEW r,
           r = [i \in DOMAIN at |-> queue[at[i]]]
    PROVE  /\ r \in Seq(PendingOps) /\ Split(queue, r, at, Swept(s))
           /\ \A i \in 1..Len(r) : r[i].server \in {NoServer, s}
<1>1. queue \in Seq(PendingOps) /\ Len(queue) \in Nat /\ JournalOK(queue, verdict, wire)
  BY SessionFacts
<1>2. PICK K : K = Survivors(s)
  OBVIOUS
<1>3. K \subseteq 1..Len(queue) /\ \A i \in K : queue[i].server \in {NoServer, s}
  BY <1>2 DEF Survivors, Keeps
<1>4. Cardinality(K) \in Nat
  <2>1. IsFiniteSet(1..Len(queue))
    BY <1>1, FS_Interval
  <2>2. IsFiniteSet(K)
    BY <2>1, <1>3, FS_Subset
  <2> QED
    BY <2>2, FS_CardinalityType
<1>5. PICK n \in Nat : n = Cardinality(K)
  BY <1>4
<1>6. at \in [1..n -> K] /\ (\A i, j \in 1..n : i < j => at[i] < at[j]) /\ DOMAIN at = 1..n
  BY <1>2, <1>5 DEF Listings
<1>7. \A i \in 1..Len(queue) : queue[i] \in PendingOps /\ queue[i].op \in Nat
  BY <1>1, PendingTyped
<1>8. r = [i \in 1..n |-> queue[at[i]]] /\ \A i \in 1..n : at[i] \in 1..Len(queue) /\ at[i] \in K
  BY <1>3, <1>6
<1>9. r \in [1..n -> PendingOps]
  BY <1>7, <1>8
<1>10. r \in Seq(PendingOps) /\ Len(r) = n
  BY <1>8, <1>9
<1>11. \A i \in 1..n : r[i] = queue[at[i]]
  BY <1>8
<1>12. \A i, j \in 1..Len(queue) : queue[i].op = queue[j].op => i = j
  <2>1. \A i, j \in 1..Len(queue) : i < j => queue[i].op < queue[j].op
    BY <1>1 DEF JournalOK, QueueOK
  <2>2. \A i, j \in 1..Len(queue) : i < j \/ i = j \/ j < i
    BY <1>1
  <2> QED
    BY <2>1, <2>2, <1>7
<1>13. \A p \in Swept(s) : (\E k \in 1..Len(queue) : p = queue[k]) /\ \A i \in 1..n : r[i].op # p.op
  <2>1. SUFFICES ASSUME NEW p \in Swept(s)
                 PROVE  (\E k \in 1..Len(queue) : p = queue[k]) /\ \A i \in 1..n : r[i].op # p.op
    OBVIOUS
  <2>2. PICK k \in 1..Len(queue) : k \notin K /\ p = queue[k]
    BY <1>2 DEF Swept
  <2> QED
    BY <2>2, <1>8, <1>11, <1>12
<1>14. Split(queue, r, at, Swept(s))
  <2>1. at \in [1..Len(r) -> 1..Len(queue)]
    BY <1>3, <1>6, <1>10
  <2> QED
    BY <2>1, <1>6, <1>10, <1>11, <1>13 DEF Split
<1> QED
  BY <1>3, <1>8, <1>10, <1>11, <1>14

(* Adopting a connection that carries nothing yet keeps the journal's        *)
(* invariant.                                                                *)
\* begin_connection, then next_frame.
LEMMA AdoptKeeps ==
    ASSUME SessionInv, NEW cn \in Clients, NEW sv \in 1..incarnation, NEW dd \in Nat, Adopt(cn, sv),
           cn =< dd, dialed =< dd, \A f \in wire : f.conn # cn
    PROVE  Carried({}, dd)
<1>1. /\ queue \in Seq(PendingOps) /\ connection \in Connection \cup {NoLink}
      /\ verdict \in [Operations -> Reports] /\ wire \in SUBSET Frame
      /\ dialed \in Nat /\ incarnation \in Nat /\ SessionTypeOK /\ JournalOK(queue, verdict, wire)
      /\ LinkOK(queue, connection, nextRequest, wire, calls, dialed)
  BY SessionFacts
<1>2. sv \in Nat /\ cn \in Nat
  BY <1>1, SessionAssumption
<1>3. PICK at \in Listings(Survivors(sv)) :
        NextFrame([i \in DOMAIN at |-> queue[at[i]]], Link(cn, sv), 1, Strand(verdict, Swept(sv)), wire)
  BY DEF Adopt
<1>4. PICK z, w, l, S, fs, u, y : /\ z = [i \in DOMAIN at |-> queue[at[i]]]
                               /\ w = Strand(verdict, Swept(sv)) /\ l = Link(cn, sv) /\ S = Swept(sv)
                               /\ fs = wire /\ u = verdict /\ y = queue
  OBVIOUS
<1>5. z \in Seq(PendingOps) /\ Split(y, z, at, S) /\ \A i \in 1..Len(z) : z[i].server \in {NoServer, sv}
  BY <1>2, <1>4, SweepSplits
<1>6. /\ w \in [Operations -> Reports] /\ JournalOK(z, w, fs)
      /\ \A o \in Operations : \/ w[o] = verdict[o]
                               \/ verdict[o] = "Queued" /\ w[o] \in {"Unknown", "Refused"}
  <2>1. /\ SessionTypeOK /\ y \in Seq(PendingOps) /\ u \in [Operations -> Reports] /\ fs \in SUBSET Frame
        /\ JournalOK(y, u, fs)
    BY <1>1, <1>4
  <2>2. /\ Strand(u, S) \in [Operations -> Reports]
        /\ \A o \in Operations : \/ Strand(u, S)[o] = u[o]
                                 \/ /\ u[o] = "Queued" /\ Strand(u, S)[o] \in {"Unknown", "Refused"}
                                    /\ \E p \in S : p.op = o
        /\ JournalOK(z, Strand(u, S), fs)
    BY <2>1, <1>5, StrandKeepsJournal
  <2>3. w = Strand(u, S)
    BY <1>4
  <2> QED
    BY <2>2, <2>3, <1>4
<1>7. l \in Connection /\ l.conn = cn /\ l.server = sv /\ l.inFlight = NoRequest /\ l # NoLink
  BY <1>2, <1>4, SessionAssumption DEF Link, Connection, NoRequest
<1>8. LinkOK(z, l, 1, fs, {}, dd)
  <2>1. \A f \in fs : f.conn =< dialed /\ f.rid # NoRequest /\ f.conn \in Nat
    BY <1>1, <1>4, SessionAssumption DEF LinkOK, Frame
  <2>2. \A f \in fs : f.conn =< dd /\ f.rid # NoRequest /\ f.conn # cn
    BY <2>1, <1>1, <1>4
  <2>3. 1 # NoRequest
    BY DEF NoRequest
  <2> QED
    BY <2>2, <2>3, <1>5, <1>7 DEF LinkOK
<1>9. Sends(z, w, {}, dd)
  <2>1. /\ SessionTypeOK /\ l \in Connection \cup {NoLink} /\ 1 \in Nat /\ fs \in SUBSET Frame
        /\ {} \in SUBSET [conn : Clients, rid : Nat, id : Nat] /\ NextFrame(z, l, 1, w, fs)
    BY <1>1, <1>3, <1>4, <1>7
  <2>2. PICK e, one : e = {} /\ one = 1
    OBVIOUS
  <2>3. /\ one \in Nat /\ e \in SUBSET [conn : Clients, rid : Nat, id : Nat] /\ NextFrame(z, l, one, w, fs)
        /\ LinkOK(z, l, one, fs, e, dd)
    BY <2>1, <2>2, <1>8
  <2>4. Sends(z, w, e, dd)
    BY <2>1, <2>3, <1>5, <1>6, NextFrameKeeps
  <2> QED
    BY <2>2, <2>4
<1> QED
  BY <1>6, <1>9 DEF Sends, Carried

(* Stranding everything keeps the journal's invariant.                       *)
\* strand_all, drain_unresolved.
LEMMA StrandAllKeeps ==
    ASSUME SessionInv, StrandAll, NEW dd \in Nat, dialed =< dd
    PROVE  Carried({}, dd)
<1>1. /\ queue \in Seq(PendingOps) /\ connection \in Connection \cup {NoLink} /\ nextRequest \in Nat
      /\ verdict \in [Operations -> Reports] /\ wire \in SUBSET Frame
      /\ dialed \in Nat /\ SessionTypeOK /\ JournalOK(queue, verdict, wire)
      /\ LinkOK(queue, connection, nextRequest, wire, calls, dialed)
  BY SessionFacts
<1>2. PICK z, S, u, fs, y, at : /\ z = << >> /\ S = {queue[i] : i \in 1..Len(queue)}
                            /\ u = verdict /\ fs = wire /\ y = queue /\ at = << >>
  OBVIOUS
<1>3. z \in Seq(PendingOps) /\ Len(z) = 0 /\ 1..Len(z) = {} /\ at \in [1..Len(z) -> 1..Len(y)]
  BY <1>2
<1>4. Split(y, z, at, S)
  BY <1>2, <1>3 DEF Split
<1>5. /\ Strand(u, S) \in [Operations -> Reports]
      /\ \A o \in Operations : \/ Strand(u, S)[o] = u[o]
                               \/ /\ u[o] = "Queued" /\ Strand(u, S)[o] \in {"Unknown", "Refused"}
                                  /\ \E p \in S : p.op = o
      /\ JournalOK(z, Strand(u, S), fs)
  <2>1. /\ SessionTypeOK /\ y \in Seq(PendingOps) /\ u \in [Operations -> Reports] /\ fs \in SUBSET Frame
        /\ JournalOK(y, u, fs)
    BY <1>1, <1>2
  <2> QED
    BY <2>1, <1>3, <1>4, StrandKeepsJournal
<1>6. /\ queue' = z /\ connection' = NoLink /\ verdict' = Strand(u, S) /\ nextRequest' = nextRequest /\ wire' = fs
  BY <1>2 DEF StrandAll
<1>7. LinkOK(z, NoLink, nextRequest, wire, {}, dd)
  <2>1. \A f \in wire : f.conn =< dialed /\ f.rid # NoRequest /\ f.conn \in Nat
    BY <1>1, SessionAssumption DEF LinkOK, Frame
  <2>2. \A f \in wire : f.conn =< dd /\ f.rid # NoRequest
    BY <2>1, <1>1
  <2> QED
    BY <2>2, <1>1 DEF LinkOK
<1> QED
  BY <1>1, <1>2, <1>3, <1>5, <1>6, <1>7 DEF Carried

(* A reply is classified as delivered only if it says OK, and as refused     *)
(* only if it says neither OK nor unknown.                                   *)
\* resolve's match on the result.
LEMMA DispositionTyped ==
    ASSUME NEW code
    PROVE  /\ Disposition(code) \in Dispositions /\ Disposition(code) \in Reports
           /\ Disposition(code) \notin {"New", "Queued"}
           /\ Disposition(code) = "Delivered" => code = "Ok"
           /\ Disposition(code) = "Refused" => code \notin {"Ok", "InputDeliveryUnknown"}
  BY DEF Disposition, Dispositions, Reports

(* The reply that carries the request id in flight belongs to the operation  *)
(* at the front, and tells the truth of it: after OK a frame of it is in a   *)
(* pane in full, after a refusal the frame answered never gets there.        *)
\* in_flight, against the server's OK and refusals.
LEMMA ReplyTruth ==
    ASSUME SessionInv, NEW call \in calls, Answered(call), Owns(call.conn, call.rid)
    PROVE  /\ queue # << >> /\ call.id \in Ids /\ OpOf(call.id) = queue[1].op
           /\ attempts[call.id].result = "Ok" => \E x \in Ids : OpOf(x) = queue[1].op /\ Whole(x)
           /\ attempts[call.id].result \notin {"Ok", "InputDeliveryUnknown"} => Settled(call.id)
<1>1. /\ connection # NoLink /\ connection.inFlight = call.rid
      /\ LinkOK(queue, connection, nextRequest, wire, calls, dialed) /\ ServerOK
  BY SessionFacts DEF Owns, SessionInv
<1>2. /\ call.id \in Ids /\ IsApply(call.id) /\ call.rid # NoRequest /\ OpOf(call.id) = queue[1].op
      /\ queue # << >>
  BY <1>1 DEF LinkOK
<1>3. PICK x : x = call.id
  OBVIOUS
<1>4. x \in Ids /\ IsApply(x) /\ OpOf(x) = queue[1].op /\ attempts[x].result # "Waiting"
  BY <1>2, <1>3 DEF Answered
<1>5. attempts[x].result = "Ok" => \E y \in Ids : OpOf(y) = OpOf(x) /\ Whole(y)
  BY <1>1, <1>4 DEF ServerOK, OkIsWritten, Written
<1>6. attempts[x].result \notin {"Ok", "InputDeliveryUnknown"} => ~May(x)
  BY <1>1, <1>4 DEF ServerOK, RefusalsOK
<1>7. ~ApplyWaiting(x)
  BY <1>4 DEF ApplyWaiting
<1> QED
  BY <1>2, <1>3, <1>4, <1>5, <1>6, <1>7 DEF Settled

(* Folding in the reply of the front operation and sending the next one      *)
(* keeps the journal's invariant.                                            *)
\* resolve, resolve_input_replay.
LEMMA ReplyKeeps ==
    ASSUME SessionInv, NEW call \in calls, Answered(call), Owns(call.conn, call.rid),
           NEW cs, cs = calls \ {call}, NEW code, code = attempts[call.id].result,
           Resolve(call.conn, call.rid, code), calls' = cs, dialed' = dialed
    PROVE  JournalMoves
<1>1. /\ queue \in Seq(PendingOps) /\ connection \in Connection \cup {NoLink} /\ nextRequest \in Nat
      /\ verdict \in [Operations -> Reports] /\ wire \in SUBSET Frame
      /\ calls \in SUBSET [conn : Clients, rid : Nat, id : Nat]
      /\ dialed \in Nat /\ SessionTypeOK /\ JournalOK(queue, verdict, wire)
      /\ LinkOK(queue, connection, nextRequest, wire, calls, dialed)
  BY SessionFacts
<1>2. /\ queue # << >> /\ call.id \in Ids /\ OpOf(call.id) = queue[1].op
      /\ code = "Ok" => \E x \in Ids : OpOf(x) = queue[1].op /\ Whole(x)
      /\ code \notin {"Ok", "InputDeliveryUnknown"} => Settled(call.id)
  BY ReplyTruth
<1>3. PICK o : o = queue[1].op
  OBVIOUS
<1>4. PICK w, l, z, y : /\ w = [verdict EXCEPT ![o] = Disposition(code)]
                        /\ l = [connection EXCEPT !.inFlight = NoRequest] /\ z = Tail(queue) /\ y = queue
  OBVIOUS
<1>5. NextFrame(z, l, nextRequest, w, wire)
  <2>1. Head(queue) = queue[1]
    BY <1>1, <1>2
  <2>2. NextFrame(Tail(queue), [connection EXCEPT !.inFlight = NoRequest], nextRequest,
                  [verdict EXCEPT ![Head(queue).op] = Disposition(code)], wire)
    BY DEF Resolve
  <2> QED
    BY <2>1, <2>2, <1>3, <1>4
<1>6. 1 \in 1..Len(y) /\ \A i \in 1..Len(y) : y[i].op \in Operations /\ y[i].op \in Nat
  BY <1>1, <1>2, <1>4, PendingTyped
<1>7. /\ z \in Seq(PendingOps) /\ Len(z) = Len(y) - 1 /\ Len(z) \in Nat
      /\ \A i \in 1..Len(z) : i + 1 \in 1..Len(y) /\ z[i] = y[i + 1] /\ 1 < i + 1
  BY <1>1, <1>2, <1>4
<1>8. o \in Operations /\ o \in Nat /\ verdict[o] = "Queued" /\ \A i \in 1..Len(z) : o < z[i].op
  <2>1. verdict[y[1].op] = "Queued" /\ \A i, j \in 1..Len(y) : i < j => y[i].op < y[j].op
    BY <1>1, <1>4, <1>6 DEF JournalOK, QueueOK
  <2> QED
    BY <2>1, <1>3, <1>4, <1>6, <1>7
<1>9. w \in [Operations -> Reports] /\ w[o] = Disposition(code) /\ \A k \in Operations : k # o => w[k] = verdict[k]
  BY <1>1, <1>4, <1>8, DispositionTyped
<1>10. QueueOK(z, w)
  <2>1. \A i, j \in 1..Len(y) : i < j => y[i].op < y[j].op
    BY <1>1, <1>4 DEF JournalOK, QueueOK
  <2>2. ASSUME NEW i \in 1..Len(z), NEW j \in 1..Len(z), i < j PROVE z[i].op < z[j].op
    <3>1. i + 1 < j + 1 /\ i + 1 \in 1..Len(y) /\ j + 1 \in 1..Len(y)
      BY <2>2, <1>7
    <3>2. PICK a, b : a = i + 1 /\ b = j + 1
      OBVIOUS
    <3>3. y[a].op < y[b].op
      BY <3>1, <3>2, <2>1
    <3> QED
      BY <3>2, <3>3, <1>7
  <2>3. ASSUME NEW i \in 1..Len(z) PROVE w[z[i].op] = "Queued" /\ z[i].created =< now
    <3>1. PICK a \in 1..Len(y) : z[i] = y[a]
      BY <1>7
    <3>2. verdict[y[a].op] = "Queued" /\ y[a].created =< now
      BY <1>1, <1>4 DEF JournalOK, QueueOK
    <3>3. z[i].op # o /\ z[i].op \in Operations
      BY <3>1, <1>6, <1>8
    <3> QED
      BY <3>1, <3>2, <3>3, <1>9
  <2> QED
    BY <2>2, <2>3 DEF QueueOK
<1>11. \A k \in Operations : w[k] = "New" <=> verdict[k] = "New"
  BY <1>8, <1>9, DispositionTyped
<1>12. MintOK(w)
  BY <1>1, <1>11 DEF JournalOK, MintOK
<1>13. FrontOK(z, w, wire)
  <2>1. SUFFICES ASSUME NEW k \in Operations, OpSent(k, wire)
                 PROVE  w[k] # "New" /\ \A i \in 1..Len(z) : k =< z[i].op
    BY DEF FrontOK
  <2>2. verdict[k] # "New" /\ \A i \in 1..Len(y) : k =< y[i].op
    BY <2>1, <1>1, <1>4 DEF JournalOK, FrontOK
  <2> QED
    BY <2>2, <1>7, <1>11
<1>14. BoundedOK(z, wire)
  <2>1. SUFFICES ASSUME NEW k \in Operations
                 PROVE  \E c \in 0..now, s \in 1..incarnation : Bounded(k, c, s, z, wire)
    BY DEF BoundedOK
  <2>2. PICK c \in 0..now, s \in 1..incarnation : Bounded(k, c, s, y, wire)
    BY <1>1, <1>4 DEF JournalOK, BoundedOK
  <2>3. \A i \in 1..Len(z) : \E a \in 1..Len(y) : z[i] = y[a]
    BY <1>7
  <2>4. Bounded(k, c, s, z, wire)
    BY <2>2, <2>3 DEF Bounded
  <2> QED
    BY <2>4
<1>15. w[o] = "Delivered" => \E x \in Ids : OpOf(x) = o /\ Whole(x)
  BY <1>2, <1>3, <1>9, DispositionTyped
<1>16. w[o] = "Refused" => \E x \in Ids : OpOf(x) = o /\ Settled(x)
  BY <1>2, <1>3, <1>9, DispositionTyped
<1>17. ToldOK(w, wire)
  <2>1. SUFFICES ASSUME NEW k \in Operations
                 PROVE  /\ w[k] = "Delivered" => \E x \in Ids : OpOf(x) = k /\ Whole(x)
                        /\ w[k] = "Refused" => ~OpSent(k, wire) \/ \E x \in Ids : OpOf(x) = k /\ Settled(x)
    BY DEF ToldOK
  <2>2. CASE k = o
    BY <2>2, <1>15, <1>16
  <2>3. CASE k # o
    BY <2>3, <1>1, <1>9 DEF JournalOK, ToldOK
  <2> QED
    BY <2>2, <2>3
<1>18. JournalOK(z, w, wire)
  BY <1>10, <1>12, <1>13, <1>14, <1>17 DEF JournalOK
<1>19. /\ connection \in Connection /\ connection # NoLink
       /\ l \in Connection /\ l # NoLink /\ l.conn = connection.conn /\ l.server = connection.server
       /\ l.inFlight = NoRequest
  <2>1. connection \in Connection /\ connection # NoLink
    BY <1>1 DEF Owns
  <2>2. l \in Connection /\ l.conn = connection.conn /\ l.server = connection.server /\ l.inFlight = NoRequest
    BY <2>1, <1>4 DEF Connection, NoRequest
  <2> QED
    BY <2>1, <2>2, LinkTyped
<1>20. LinkOK(z, l, nextRequest, wire, cs, dialed)
  <2>1. \A i \in 1..Len(z) : z[i].server \in {NoServer, connection.server}
    BY <1>1, <1>4, <1>7, <1>19 DEF LinkOK
  <2> QED
    BY <2>1, <1>1, <1>19 DEF LinkOK
<1>21. Sends(z, w, cs, dialed)
  <2>1. PICK n, fs, cc, dd : n = nextRequest /\ fs = wire /\ cc = cs /\ dd = dialed
    OBVIOUS
  <2>2. /\ l \in Connection \cup {NoLink} /\ n \in Nat /\ fs \in SUBSET Frame
        /\ cc \in SUBSET [conn : Clients, rid : Nat, id : Nat] /\ dd \in Nat
        /\ JournalOK(z, w, fs) /\ LinkOK(z, l, n, fs, cc, dd) /\ NextFrame(z, l, n, w, fs)
        /\ SessionTypeOK /\ z \in Seq(PendingOps) /\ w \in [Operations -> Reports]
    BY <2>1, <1>1, <1>5, <1>7, <1>9, <1>18, <1>19, <1>20
  <2>3. Sends(z, w, cc, dd)
    BY <2>2, NextFrameKeeps
  <2> QED
    BY <2>1, <2>3
<1>22. \A x \in Ids : OpOf(x) =< o
  <2>1. \A x \in Ids : OpOf(x) \in Operations
    BY DEF SessionInv, ServerOK, AllApply
  <2>2. \A x \in Ids : OpSent(OpOf(x), wire)
    BY DEF OpSent
  <2>3. \A k \in Operations : OpSent(k, wire) => k =< y[1].op
    BY <1>1, <1>4, <1>6 DEF JournalOK, FrontOK
  <2> QED
    BY <2>1, <2>2, <2>3, <1>3, <1>4
<1>23. verdict'[o] = Disposition(code)
  BY <1>8, <1>9, <1>21, DispositionTyped DEF Sends
<1>24. Judges
  <2>1. SUFFICES ASSUME NEW k \in Operations
                 PROVE  \/ verdict'[k] = verdict[k]
                        \/ verdict[k] = "Queued" /\ verdict'[k] \in {"Unknown", "Refused"}
                        \/ /\ verdict[k] = "Queued" /\ verdict'[k] = "Delivered"
                           /\ \E x \in Ids : OpOf(x) = k /\ Whole(x)
                           /\ \A x \in Ids : OpOf(x) =< k
    BY DEF Judges
  <2>2. CASE k # o
    BY <2>2, <1>9, <1>21 DEF Sends
  <2>3. CASE k = o
    <3>1. Disposition(code) \in {"Unknown", "Refused", "Delivered"}
      BY DispositionTyped DEF Dispositions
    <3> QED
      BY <2>3, <3>1, <1>8, <1>9, <1>15, <1>22, <1>23
  <2> QED
    BY <2>2, <2>3
<1> QED
  BY <1>21, <1>24 DEF JournalMoves, Sends

(* Losing the connection keeps the journal's invariant.                      *)
\* connection_lost.
LEMMA LostKeeps ==
    ASSUME SessionInv, ConnectionLost, calls' = {}, dialed' = dialed
    PROVE  JournalMoves
<1>1. /\ queue \in Seq(PendingOps) /\ nextRequest \in Nat /\ JournalOK(queue, verdict, wire)
      /\ verdict \in [Operations -> Reports] /\ wire \in SUBSET Frame
      /\ LinkOK(queue, connection, nextRequest, wire, calls, dialed)
  BY SessionFacts
<1>2. LinkOK(queue, NoLink, nextRequest, wire, {}, dialed)
  BY <1>1 DEF LinkOK
<1> QED
  BY <1>1, <1>2 DEF ConnectionLost, JournalMoves, Judges

\* Everything the client does keeps the journal's invariant.
ClientMove ==
    \/ \E o \in Operations, r \in Resources, d \in Payloads : Paste(o, r, d)
    \/ Dial \/ Disconnect \/ SwitchSession \/ ReceiveReply \/ GiveUp \/ ExitAfterDetach

(* Every step of the client is a permitted call of the journal.              *)
\* The attach driver and the reconnect loop.
LEMMA ClientKeepsJournal ==
    ASSUME SessionInv, ClientMove
    PROVE  JournalMoves
<1>1. /\ connection \in Connection \cup {NoLink} /\ dialed \in Nat /\ incarnation \in Nat /\ incarnation >= 1
      /\ LinkOK(queue, connection, nextRequest, wire, calls, dialed)
  BY SessionFacts
<1>2. ASSUME NEW o \in Operations, NEW r \in Resources, NEW d \in Payloads, Paste(o, r, d) PROVE JournalMoves
  BY <1>2, PasteKeeps
<1>3. CASE Dial
  <2>1. /\ connection = NoLink /\ dialed < MaxConnections /\ dialed' = dialed + 1 /\ calls' = calls
        /\ Adopt(dialed + 1, incarnation) \/ StrandAll
    BY <1>3 DEF Dial
  <2>2. calls' = {}
    BY <2>1, <1>1 DEF LinkOK
  <2>3. PICK n : n = dialed + 1
    OBVIOUS
  <2>4. n \in Clients /\ n \in Nat /\ dialed =< n /\ n =< n
    BY <2>1, <2>3, <1>1, SessionAssumption
  <2>5. CASE Adopt(n, incarnation)
    <3>1. \A f \in wire : f.conn \in Nat /\ f.conn =< dialed
      BY <1>1, SessionFacts, SessionAssumption DEF LinkOK, Frame
    <3>2. \A f \in wire : f.conn # n
      BY <3>1, <2>3, <1>1
    <3>3. PICK s : s = incarnation
      OBVIOUS
    <3>4. s \in 1..incarnation /\ Adopt(n, s)
      BY <3>3, <2>5, <1>1
    <3>5. Carried({}, n)
      BY <3>2, <3>4, <2>4, AdoptKeeps
    <3> QED
      BY <3>5, <2>1, <2>2, <2>3, CarriedMoves
  <2>6. CASE StrandAll
    <3>1. Carried({}, n)
      BY <2>4, <2>6, StrandAllKeeps
    <3> QED
      BY <3>1, <2>1, <2>2, <2>3, CarriedMoves
  <2> QED
    BY <2>1, <2>3, <2>5, <2>6
<1>4. CASE Disconnect \/ ExitAfterDetach
  BY <1>4, LostKeeps DEF Disconnect, ExitAfterDetach
<1>5. CASE SwitchSession
  <2>1. /\ connection # NoLink /\ connection.server = incarnation /\ Adopt(connection.conn, connection.server)
        /\ \A f \in wire : f.conn # connection.conn
        /\ calls' = {} /\ dialed' = dialed
    BY <1>5 DEF SwitchSession
  <2>2. PICK n, s, dd : n = connection.conn /\ s = connection.server /\ dd = dialed
    OBVIOUS
  <2>3. n \in Clients /\ s \in 1..incarnation /\ n =< dd /\ dd \in Nat /\ dialed =< dd /\ Adopt(n, s)
    BY <2>1, <2>2, <1>1 DEF LinkOK, Connection
  <2>4. \A f \in wire : f.conn # n
    BY <2>1, <2>2
  <2>5. Carried({}, dd)
    BY <2>3, <2>4, AdoptKeeps
  <2> QED
    BY <2>1, <2>2, <2>5, CarriedMoves
<1>6. CASE ReceiveReply
  <2>1. PICK call \in calls : /\ Answered(call) /\ Resolve(call.conn, call.rid, attempts[call.id].result)
                              /\ calls' = calls \ {call} /\ dialed' = dialed
    BY <1>6 DEF ReceiveReply
  <2>2. CASE Owns(call.conn, call.rid)
    <3>1. PICK mine, cs, code : mine = call /\ cs = calls \ {call} /\ code = attempts[call.id].result
      OBVIOUS
    <3> QED
      BY <3>1, <2>1, <2>2, ReplyKeeps
  <2>3. CASE ~Owns(call.conn, call.rid)
    <3>1. UNCHANGED <<queue, connection, nextRequest, verdict, wire>>
      BY <2>1, <2>3 DEF Resolve
    <3>2. LinkOK(queue, connection, nextRequest, wire, calls', dialed)
      BY <2>1, <1>1 DEF LinkOK
    <3> QED
      BY <3>1, <3>2, <2>1, SessionFacts DEF JournalMoves, Judges
  <2> QED
    BY <2>2, <2>3
<1>7. CASE GiveUp
  <2>1. StrandAll /\ calls' = {} /\ dialed' = dialed
    BY <1>7 DEF GiveUp
  <2>2. PICK dd : dd = dialed
    OBVIOUS
  <2>3. dd \in Nat /\ dialed =< dd
    BY <2>2, <1>1
  <2>4. Carried({}, dd)
    BY <2>1, <2>3, StrandAllKeeps
  <2> QED
    BY <2>1, <2>2, <2>4, CarriedMoves
<1> QED
  BY <1>2, <1>3, <1>4, <1>5, <1>6, <1>7 DEF ClientMove

-----------------------------------------------------------------------------
(* Every step keeps the invariant.                                           *)

(* The server's half of the invariant survives a step of the client.         *)
\* The client shares no state with the server.
LEMMA StillServer ==
    ASSUME ServerOK, UNCHANGED vars
    PROVE  ServerOK'
<1>1. Inv /\ HandedInv /\ OkIsWritten /\ AllApply /\ RefusalsOK /\ [Next]_vars
  BY DEF ServerOK
<1>2. Inv'
  BY <1>1, NextInv
<1>3. HandedInv' /\ OkIsWritten'
  BY <1>1, <1>2, NextHanded, NextOk
<1>4. UNCHANGED <<attempts, lane, lanePc, item, mailbox, writerq, pty>>
  BY DEF vars, laneVars, paneVars
<1>5. AllApply'
  BY <1>1, <1>4 DEF AllApply, IsApply, OpOf, Ids
<1>6. Ids' = Ids /\ \A x : (IsApply(x)' <=> IsApply(x)) /\ (May(x)' <=> May(x))
  <2>1. \A x : (Handed(x)' <=> Handed(x)) /\ (OnHand(x)' <=> OnHand(x))
    BY <1>4 DEF Handed, Underway, Landed, OnHand, IsApply
  <2> QED
    BY <2>1, <1>4 DEF May, IsApply, Ids
<1>7. RefusalsOK'
  BY <1>1, <1>4, <1>6 DEF RefusalsOK
<1> QED
  BY <1>2, <1>3, <1>5, <1>7 DEF ServerOK

(* A step of the client changes nothing of the server's.                     *)
\* The client shares no state with the server.
LEMMA ClientStill ==
    ASSUME ClientMove
    PROVE  UNCHANGED <<vars, incarnation, late>>
  BY DEF ClientMove, Paste, Dial, Disconnect, SwitchSession, ReceiveReply, GiveUp, ExitAfterDetach, linkVars

(* Every step of the client keeps the invariant.                             *)
\* The attach driver and the reconnect loop.
LEMMA ClientKeepsSession ==
    ASSUME SessionInv, ClientMove
    PROVE  SessionInv'
<1>1. UNCHANGED <<vars, incarnation, late>>
  BY ClientStill
<1>2. JournalMoves
  BY ClientKeepsJournal
<1>3. ServerOK'
  BY <1>1, StillServer DEF SessionInv
<1>4. JournalOK(queue, verdict, wire)' /\ LinkOK(queue, connection, nextRequest, wire, calls, dialed)'
  BY <1>1, <1>2, JournalSame DEF JournalMoves
<1>5. TypeOK'
  BY <1>3 DEF ServerOK, Inv
<1>6. /\ calls' \subseteq [conn : Clients, rid : Nat, id : Nat]
      /\ dialed' \in 0..MaxConnections /\ switches' \in 0..MaxSwitches
      /\ attach' \in {"Running", "GaveUp", "Detached"}
  <2>1. /\ calls \subseteq [conn : Clients, rid : Nat, id : Nat]
        /\ dialed \in 0..MaxConnections /\ switches \in 0..MaxSwitches
        /\ attach \in {"Running", "GaveUp", "Detached"}
    BY DEF SessionInv, SessionTypeOK
  <2>2. calls' \subseteq calls
    BY DEF ClientMove, Paste, Dial, Disconnect, SwitchSession, ReceiveReply, GiveUp, ExitAfterDetach, linkVars
  <2>3. attach' = attach \/ attach' \in {"GaveUp", "Detached"}
    BY DEF ClientMove, Paste, Dial, Disconnect, SwitchSession, ReceiveReply, GiveUp, ExitAfterDetach, linkVars
  <2>4. dialed' = dialed \/ (dialed < MaxConnections /\ dialed' = dialed + 1)
    BY DEF ClientMove, Paste, Dial, Disconnect, SwitchSession, ReceiveReply, GiveUp, ExitAfterDetach, linkVars
  <2>5. switches' = switches \/ (switches < MaxSwitches /\ switches' = switches + 1)
    BY DEF ClientMove, Paste, Dial, Disconnect, SwitchSession, ReceiveReply, GiveUp, ExitAfterDetach, linkVars
  <2>6. dialed' \in 0..MaxConnections
    BY <2>1, <2>4, SessionAssumption
  <2>7. switches' \in 0..MaxSwitches
    BY <2>1, <2>5, SessionAssumption
  <2> QED
    BY <2>1, <2>2, <2>3, <2>6, <2>7
<1>7. incarnation' \in 1..MaxIncarnations /\ late' \subseteq Operations
  BY <1>1 DEF SessionInv, SessionTypeOK
<1>8. SessionTypeOK'
  BY <1>2, <1>5, <1>6, <1>7 DEF SessionTypeOK, JournalMoves, Reports
<1> QED
  BY <1>3, <1>4, <1>8 DEF SessionInv

(* A frame queued in the lane has not been answered.                         *)
\* InputLane: the channel.
LEMMA QueuedIsWaiting ==
    ASSUME Inv, AllApply, NEW x, InLane(x)
    PROVE  x \in Ids /\ ApplyWaiting(x)
  BY DEF InLane, Inv, OneAnswerOneSlot, LaneOK, AllApply

(* Every step of the server's threads keeps the invariant.                   *)
\* The lane, the completion waiter, the panes and the clock.
LEMMA StepKeepsSession ==
    ASSUME SessionInv, ServerStep
    PROVE  SessionInv'
<1>1. ServerOK' /\ ServerMoves
  BY StepKeepsServer DEF SessionInv
<1>2. UNCHANGED <<queue, connection, nextRequest, verdict, wire, calls, incarnation, dialed, switches, attach, late>>
  BY DEF ServerStep, journalVars, linkVars
<1>3. SessionTypeOK'
  BY <1>1, <1>2 DEF SessionInv, SessionTypeOK, ServerOK, Inv
<1>4. JournalOK(queue, verdict, wire) /\ LinkOK(queue, connection, nextRequest, wire, calls, dialed)
  BY DEF SessionInv
<1>5. now \in Nat /\ now' \in Nat /\ now =< now' /\ 0..now \subseteq 0..now'
  <2>1. now \in Nat /\ now =< now'
    BY <1>1, SessionFacts DEF ServerMoves
  <2>2. now' \in Nat
    BY <1>3 DEF SessionTypeOK, TypeOK
  <2> QED
    BY <2>1, <2>2
<1>6. queue \in Seq(PendingOps) /\ wire \in SUBSET Frame /\ \A f \in wire : f.sent \in Nat
  BY SessionFacts DEF Frame
<1>7. Ids' = Ids /\ \A x \in Ids : (IsApply(x)' <=> IsApply(x)) /\ OpOf(x)' = OpOf(x)
  BY <1>1 DEF ServerMoves, IsApply, OpOf
<1>8. \A o : OpSent(o, wire)' <=> OpSent(o, wire)
  BY <1>2, <1>7 DEF OpSent
<1>9. QueueOK(queue, verdict)'
  <2>1. \A i \in 1..Len(queue) : queue[i].created \in Nat
    BY <1>6, PendingTyped
  <2>2. \A i \in 1..Len(queue) : verdict[queue[i].op] = "Queued" /\ queue[i].created =< now'
    BY <2>1, <1>4, <1>5 DEF JournalOK, QueueOK
  <2> QED
    BY <2>2, <1>2, <1>4 DEF JournalOK, QueueOK
<1>10. MintOK(verdict)' /\ FrontOK(queue, verdict, wire)'
  BY <1>2, <1>4, <1>8 DEF JournalOK, MintOK, FrontOK
<1>11. BoundedOK(queue, wire)'
  <2>1. SUFFICES ASSUME NEW o \in Operations
                 PROVE  (\E c \in 0..now, s \in 1..incarnation : Bounded(o, c, s, queue, wire))'
    BY DEF BoundedOK
  <2>2. PICK c \in 0..now, s \in 1..incarnation : Bounded(o, c, s, queue, wire)
    BY <1>4 DEF JournalOK, BoundedOK
  <2>3. \A f \in wire : f.op = o =>
          f.created = c /\ f.server = s /\ c =< f.sent /\ f.sent < c + Horizon /\ f.sent =< now'
    BY <2>2, <1>5, <1>6 DEF Bounded
  <2>4. entries'[o] # NoEntry => c =< entries'[o].inserted /\ \E x \in Ids : OpOf(x) = o
    BY <2>2, <1>1 DEF Bounded, ServerMoves
  <2>5. \A x \in Ids : OpOf(x) = o =>
          /\ c =< attempts'[x].admitted /\ (attempts'[x].admitted < c + Horizon \/ o \in late)
          /\ IF IsApply(x) THEN s = incarnation ELSE s < incarnation
          /\ Bound(x)' => c =< attempts'[x].bound
    BY <2>2, <2>4, <1>1 DEF Bounded, ServerMoves, Bound
  <2>6. Bounded(o, c, s, queue, wire)'
    BY <2>2, <2>3, <2>4, <2>5, <1>2, <1>7, <1>8 DEF Bounded
  <2> QED
    BY <2>6, <1>2, <1>5
<1>12. \A x \in Ids : Settled(x) => Settled(x)'
  <2>1. SUFFICES ASSUME NEW x \in Ids, Settled(x) PROVE Settled(x)'
    OBVIOUS
  <2>2. ~InLane(x)
    BY <2>1, QueuedIsWaiting DEF Settled, SessionInv, ServerOK
  <2> QED
    BY <2>1, <2>2, <1>1 DEF Settled, ServerMoves
<1>13. ToldOK(verdict, wire)'
  <2>1. \A x : Whole(x) => Whole(x)'
    BY <1>1 DEF ServerMoves
  <2> QED
    BY <2>1, <1>2, <1>4, <1>7, <1>8, <1>12 DEF JournalOK, ToldOK
<1>14. LinkOK(queue, connection, nextRequest, wire, calls, dialed)'
  BY <1>2, <1>4, <1>7 DEF LinkOK
<1> QED
  BY <1>1, <1>3, <1>9, <1>10, <1>11, <1>13, <1>14 DEF SessionInv, JournalOK

(* A server that takes a frame keeps the invariant: the frame is taken       *)
(* within the horizon or its operation is late, by the process its operation *)
(* is bound to.                                                              *)
\* apply_input, for a frame of next_frame.
LEMMA TakeKeepsSession ==
    ASSUME SessionInv, NEW f \in wire, TakeFrame(f)
    PROVE  SessionInv' /\ FrameTaken(f.op)
<1>1. /\ f.server = incarnation /\ now =< f.sent + MaxTransit /\ ApplyInput(f.conn, f.to, f.op, f.payload)
      /\ wire' = wire \ {f}
      /\ UNCHANGED <<queue, connection, nextRequest, verdict, incarnation, dialed, switches, attach>>
      /\ late' = IF Overtaken(f) THEN late \cup {f.op} ELSE late
  BY DEF TakeFrame
<1>2. PICK n : n = NewId
  OBVIOUS
<1>3. \/ calls' = calls
      \/ /\ connection # NoLink /\ connection.conn = f.conn
         /\ calls' = calls \cup {[conn |-> f.conn, rid |-> f.rid, id |-> n]}
  BY <1>2 DEF TakeFrame
<1>4. /\ wire \in SUBSET Frame /\ SessionTypeOK /\ now \in Nat /\ incarnation \in Nat
      /\ JournalOK(queue, verdict, wire) /\ LinkOK(queue, connection, nextRequest, wire, calls, dialed)
      /\ Horizon \in Nat /\ MaxTransit \in Nat
  BY SessionFacts, Numbers
<1>5. /\ f.conn \in Clients /\ f.to \in Resources /\ f.op \in Operations /\ f.payload \in Payloads
      /\ f.rid \in Nat /\ f.created \in Nat /\ f.sent \in Nat
  BY <1>4 DEF Frame
<1>6. ServerOK' /\ FrameTaken(f.op)
  <2>1. PICK cl, rs, op, py : cl = f.conn /\ rs = f.to /\ op = f.op /\ py = f.payload
    OBVIOUS
  <2>2. ServerOK' /\ FrameTaken(op)
    BY <2>1, <1>1, <1>5, TakeKeepsServer DEF SessionInv
  <2> QED
    BY <2>1, <2>2
<1>7. /\ Ids' = Ids \cup {n} /\ n \notin Ids /\ (\A x \in Ids : attempts'[x] = attempts[x])
      /\ attempts'[n].kind = "Apply" /\ attempts'[n].op = f.op
      /\ attempts'[n].admitted = now /\ attempts'[n].bound = -1
      /\ now' = now /\ entries' = entries
      /\ (\A x : Whole(x)' <=> Whole(x))
      /\ (\A x \in Ids : (May(x)' <=> May(x)) /\ (ApplyWaiting(x)' <=> ApplyWaiting(x)))
  BY <1>2, <1>6 DEF FrameTaken
<1>8. n \in Nat
  <2>1. n \in Ids'
    BY <1>7
  <2>2. TypeOK'
    BY <1>6 DEF ServerOK, Inv
  <2> QED
    BY <2>1, <2>2 DEF Ids, TypeOK
<1>9. SessionTypeOK'
  <2>1. calls' \subseteq [conn : Clients, rid : Nat, id : Nat]
    BY <1>3, <1>4, <1>5, <1>8 DEF SessionTypeOK
  <2>2. late' \subseteq Operations
    BY <1>1, <1>4, <1>5 DEF SessionTypeOK
  <2> QED
    BY <2>1, <2>2, <1>1, <1>4, <1>6 DEF SessionTypeOK, ServerOK, Inv
<1>10. /\ \A x \in Ids : (IsApply(x)' <=> IsApply(x)) /\ OpOf(x)' = OpOf(x) /\ (Bound(x)' <=> Bound(x))
                         /\ (Settled(x)' <=> Settled(x))
       /\ IsApply(n)' /\ OpOf(n)' = f.op /\ ~Bound(n)'
  BY <1>7 DEF IsApply, OpOf, Bound, Settled
<1>11. \A o : OpSent(o, wire)' <=> OpSent(o, wire)
  <2>1. \A o : (\E x \in Ids' : OpOf(x)' = o) <=> (o = f.op \/ \E x \in Ids : OpOf(x) = o)
    BY <1>7, <1>10
  <2>2. \A o : o = f.op \/ ((\E g \in wire' : g.op = o) <=> (\E g \in wire : g.op = o))
    BY <1>1
  <2>3. OpSent(f.op, wire)
    BY DEF OpSent
  <2> QED
    BY <2>1, <2>2, <2>3 DEF OpSent
<1>12. QueueOK(queue, verdict)' /\ MintOK(verdict)' /\ FrontOK(queue, verdict, wire)'
  BY <1>1, <1>4, <1>7, <1>11 DEF JournalOK, QueueOK, MintOK, FrontOK
<1>13. BoundedOK(queue, wire)'
  <2>1. SUFFICES ASSUME NEW o \in Operations
                 PROVE  (\E c \in 0..now, s \in 1..incarnation : Bounded(o, c, s, queue, wire))'
    BY DEF BoundedOK
  <2>2. PICK c \in 0..now, s \in 1..incarnation : Bounded(o, c, s, queue, wire)
    BY <1>4 DEF JournalOK, BoundedOK
  <2>3. o = f.op => c =< now /\ (now < c + Horizon \/ o \in late') /\ s = incarnation
    <3>1. SUFFICES ASSUME o = f.op PROVE c =< now /\ (now < c + Horizon \/ o \in late') /\ s = incarnation
      OBVIOUS
    <3>2. f.created = c /\ f.server = s /\ c =< f.sent /\ f.sent < c + Horizon /\ f.sent =< now
      BY <3>1, <2>2 DEF Bounded
    <3>3. c =< now /\ s = incarnation /\ (now < c + Horizon \/ Overtaken(f))
      BY <3>2, <1>1, <1>4, <1>5 DEF Overtaken
    <3> QED
      BY <3>1, <3>3, <1>1
  <2>4. \A x \in Ids' : OpOf(x)' = o =>
          /\ c =< attempts'[x].admitted /\ (attempts'[x].admitted < c + Horizon \/ o \in late')
          /\ IF IsApply(x)' THEN s = incarnation ELSE s < incarnation
          /\ Bound(x)' => c =< attempts'[x].bound
    <3>1. ASSUME NEW x \in Ids, OpOf(x)' = o
          PROVE  /\ c =< attempts'[x].admitted /\ (attempts'[x].admitted < c + Horizon \/ o \in late')
                 /\ IF IsApply(x)' THEN s = incarnation ELSE s < incarnation
                 /\ Bound(x)' => c =< attempts'[x].bound
      BY <3>1, <2>2, <1>1, <1>7, <1>10 DEF Bounded
    <3>2. ASSUME OpOf(n)' = o
          PROVE  /\ c =< attempts'[n].admitted /\ (attempts'[n].admitted < c + Horizon \/ o \in late')
                 /\ IF IsApply(n)' THEN s = incarnation ELSE s < incarnation
                 /\ Bound(n)' => c =< attempts'[n].bound
      BY <3>2, <2>3, <1>7, <1>10
    <3> QED
      BY <3>1, <3>2, <1>7
  <2>5. Bounded(o, c, s, queue, wire)'
    <3>1. \A g \in wire' : g.op = o =>
            g.created = c /\ g.server = s /\ c =< g.sent /\ g.sent < c + Horizon /\ g.sent =< now'
      BY <2>2, <1>1, <1>7 DEF Bounded
    <3>2. entries'[o] # NoEntry => c =< entries'[o].inserted /\ \E x \in Ids' : OpOf(x)' = o
      BY <2>2, <1>7, <1>10 DEF Bounded
    <3>3. \A i \in 1..Len(queue) : queue[i].op = o =>
            /\ queue[i].created = c
            /\ IF queue[i].attempted THEN queue[i].server = s
               ELSE queue[i].server = NoServer /\ ~OpSent(o, wire)'
      BY <2>2, <1>11 DEF Bounded
    <3> QED
      BY <3>1, <3>2, <3>3, <2>4, <1>1 DEF Bounded
  <2> QED
    BY <2>5, <1>1, <1>7
<1>14. ToldOK(verdict, wire)'
  <2>1. SUFFICES ASSUME NEW o \in Operations
                 PROVE  /\ verdict[o] = "Delivered" => \E x \in Ids' : OpOf(x)' = o /\ Whole(x)'
                        /\ verdict[o] = "Refused" =>
                              ~OpSent(o, wire)' \/ \E x \in Ids' : OpOf(x)' = o /\ Settled(x)'
    BY <1>1 DEF ToldOK
  <2>2. /\ verdict[o] = "Delivered" => \E x \in Ids : OpOf(x) = o /\ Whole(x)
        /\ verdict[o] = "Refused" => ~OpSent(o, wire) \/ \E x \in Ids : OpOf(x) = o /\ Settled(x)
    BY <1>4 DEF JournalOK, ToldOK
  <2> QED
    BY <2>2, <1>7, <1>10, <1>11
<1>15. LinkOK(queue, connection, nextRequest, wire, calls, dialed)'
  <2>1. /\ nextRequest # NoRequest
        /\ \A g \in wire' : g.conn =< dialed /\ g.rid # NoRequest
        /\ connection = NoLink => calls' = {}
    BY <1>1, <1>3, <1>4 DEF LinkOK
  <2>2. ASSUME connection # NoLink
        PROVE  \A call \in calls' :
                 /\ call.id \in Ids' /\ IsApply(call.id)'
                 /\ call.rid # NoRequest /\ call.rid < nextRequest
                 /\ call.rid = connection.inFlight => OpOf(call.id)' = queue[1].op
    <3>1. SUFFICES ASSUME NEW call \in calls'
                   PROVE  /\ call.id \in Ids' /\ IsApply(call.id)'
                          /\ call.rid # NoRequest /\ call.rid < nextRequest
                          /\ call.rid = connection.inFlight => OpOf(call.id)' = queue[1].op
      OBVIOUS
    <3>2. CASE call \in calls
      <4>1. /\ call.id \in Ids /\ IsApply(call.id) /\ call.rid # NoRequest /\ call.rid < nextRequest
            /\ call.rid = connection.inFlight => OpOf(call.id) = queue[1].op
        BY <3>2, <2>2, <1>4 DEF LinkOK
      <4>2. PICK x : x = call.id
        OBVIOUS
      <4> QED
        BY <4>1, <4>2, <1>7, <1>10
    <3>3. CASE call = [conn |-> f.conn, rid |-> f.rid, id |-> n] /\ connection.conn = f.conn
      <4>1. f.rid < nextRequest /\ f.rid # NoRequest /\ (f.rid = connection.inFlight => f.op = queue[1].op)
        BY <3>3, <2>2, <1>4 DEF LinkOK
      <4>2. call.id = n /\ call.rid = f.rid
        BY <3>3
      <4> QED
        BY <4>1, <4>2, <1>7, <1>10
    <3> QED
      BY <3>2, <3>3, <1>3
  <2> QED
    BY <2>1, <2>2, <1>1, <1>4 DEF LinkOK
<1> QED
  BY <1>6, <1>9, <1>12, <1>13, <1>14, <1>15 DEF SessionInv, JournalOK

(* A new server process keeps the invariant: every operation sent so far is  *)
(* bound to an older one.                                                    *)
\* upgrade, expected_server_id.
LEMMA RestartKeepsSession ==
    ASSUME SessionInv, ServerRestart
    PROVE  SessionInv' /\ FramesForgotten
<1>1. ServerOK' /\ FramesForgotten
  BY RestartKeepsServer DEF SessionInv
<1>2. /\ UNCHANGED <<queue, connection, nextRequest, verdict, wire, dialed, switches, attach, late>>
      /\ calls' = {} /\ incarnation < MaxIncarnations /\ incarnation' = incarnation + 1
  BY DEF ServerRestart, journalVars
<1>3. /\ SessionTypeOK /\ incarnation \in Nat /\ incarnation >= 1
      /\ JournalOK(queue, verdict, wire) /\ LinkOK(queue, connection, nextRequest, wire, calls, dialed)
  BY SessionFacts
<1>4. incarnation' \in 1..MaxIncarnations /\ 1..incarnation \subseteq 1..incarnation'
  BY <1>2, <1>3, SessionAssumption
<1>5. SessionTypeOK'
  BY <1>1, <1>2, <1>3, <1>4 DEF SessionTypeOK, ServerOK, Inv
<1>6. /\ Ids' = Ids /\ now' = now
      /\ \A x \in Ids : /\ attempts'[x].op = attempts[x].op /\ attempts'[x].admitted = attempts[x].admitted
                        /\ ~IsApply(x)' /\ ~Bound(x)' /\ ~ApplyWaiting(x)'
      /\ \A o \in Operations : entries'[o] = NoEntry
      /\ \A x : (Handed(x)' <=> Landed(x)) /\ (Whole(x)' <=> Whole(x)) /\ ~OnHand(x)'
  BY <1>1 DEF FramesForgotten
<1>7. \A x \in Ids : OpOf(x)' = OpOf(x)
  BY <1>6 DEF OpOf
<1>8. \A o : OpSent(o, wire)' <=> OpSent(o, wire)
  BY <1>2, <1>6, <1>7 DEF OpSent
<1>9. QueueOK(queue, verdict)' /\ MintOK(verdict)' /\ FrontOK(queue, verdict, wire)'
  BY <1>2, <1>3, <1>6, <1>8 DEF JournalOK, QueueOK, MintOK, FrontOK
<1>10. BoundedOK(queue, wire)'
  <2>1. SUFFICES ASSUME NEW o \in Operations
                 PROVE  (\E c \in 0..now, s \in 1..incarnation : Bounded(o, c, s, queue, wire))'
    BY DEF BoundedOK
  <2>2. PICK c \in 0..now, s \in 1..incarnation : Bounded(o, c, s, queue, wire)
    BY <1>3 DEF JournalOK, BoundedOK
  <2>3. s < incarnation'
    BY <1>2, <1>3
  <2>4. \A x \in Ids : OpOf(x)' = o =>
          /\ c =< attempts'[x].admitted /\ (attempts'[x].admitted < c + Horizon \/ o \in late)
          /\ IF IsApply(x)' THEN s = incarnation' ELSE s < incarnation'
          /\ Bound(x)' => c =< attempts'[x].bound
    BY <2>2, <2>3, <1>6, <1>7 DEF Bounded
  <2>5. Bounded(o, c, s, queue, wire)'
    BY <2>2, <2>4, <1>2, <1>6, <1>8 DEF Bounded
  <2> QED
    BY <2>5, <1>4, <1>6
<1>11. \A x \in Ids : Settled(x) => Settled(x)'
  BY <1>6 DEF Settled, May, Handed
<1>12. ToldOK(verdict, wire)'
  BY <1>2, <1>3, <1>6, <1>7, <1>8, <1>11 DEF JournalOK, ToldOK
<1>13. LinkOK(queue, connection, nextRequest, wire, calls, dialed)'
  BY <1>2, <1>3, <1>4 DEF LinkOK
<1> QED
  BY <1>1, <1>5, <1>9, <1>10, <1>12, <1>13 DEF SessionInv, JournalOK

(* The invariant holds initially.                                            *)
\* InputReplayJournal::new and an idle server.
LEMMA SessionInitInv == SessionInit => SessionInv
<1> SUFFICES ASSUME SessionInit PROVE SessionInv
  OBVIOUS
<1>1. /\ Init /\ calls = {} /\ incarnation = 1 /\ dialed = 0 /\ switches = 0 /\ attach = "Running" /\ late = {}
      /\ queue = << >> /\ connection = NoLink /\ nextRequest = 1
      /\ verdict = [o \in Operations |-> "New"] /\ wire = {}
  BY DEF SessionInit, JournalInit
<1>2. Inv /\ HandedInv
  BY <1>1, InitInv, InitHanded
<1>3. /\ Ids = {} /\ lane = << >> /\ lanePc = "Recv" /\ now = 0
      /\ \A o \in Operations : entries[o] = NoEntry
  BY <1>1 DEF Init, Ids, CacheInit
<1>4. ServerOK
  BY <1>2, <1>3 DEF ServerOK, OkIsWritten, AllApply, RefusalsOK
<1>5. SessionTypeOK
  <2>1. queue \in Seq(PendingOps) /\ 1 \in Nat
    BY <1>1
  <2>2. incarnation \in 1..MaxIncarnations /\ dialed \in 0..MaxConnections /\ switches \in 0..MaxSwitches
    BY <1>1, SessionAssumption
  <2>3. verdict \in [Operations -> Dispositions \cup {"New", "Queued"}]
    BY <1>1
  <2> QED
    BY <2>1, <2>2, <2>3, <1>1, <1>2 DEF SessionTypeOK, Inv
<1>6. \A o : ~OpSent(o, wire)
  BY <1>1, <1>3 DEF OpSent
<1>7. Len(queue) = 0 /\ 1..Len(queue) = {}
  BY <1>1
<1>8. QueueOK(queue, verdict) /\ MintOK(verdict) /\ FrontOK(queue, verdict, wire) /\ ToldOK(verdict, wire)
  BY <1>1, <1>6, <1>7 DEF QueueOK, MintOK, FrontOK, ToldOK
<1>9. BoundedOK(queue, wire)
  <2>1. \A o \in Operations : Bounded(o, 0, 1, queue, wire)
    BY <1>1, <1>3, <1>7 DEF Bounded
  <2>2. 0 \in 0..now /\ 1 \in 1..incarnation
    BY <1>1, <1>3
  <2> QED
    BY <2>1, <2>2 DEF BoundedOK
<1>10. LinkOK(queue, connection, nextRequest, wire, calls, dialed)
  BY <1>1 DEF LinkOK, NoRequest
<1> QED
  BY <1>4, <1>5, <1>8, <1>9, <1>10 DEF SessionInv, JournalOK

(* The invariant survives a step in which nothing happens.                   *)
\* Stuttering.
LEMMA StillKeepsSession ==
    ASSUME SessionInv, UNCHANGED sessionVars
    PROVE  SessionInv'
<1>1. /\ UNCHANGED <<vars, incarnation, late>>
      /\ UNCHANGED <<queue, connection, nextRequest, verdict, wire, calls, dialed, switches, attach>>
  BY DEF sessionVars, journalVars, linkVars
<1>2. ServerOK'
  BY <1>1, StillServer DEF SessionInv
<1>3. JournalOK(queue', verdict', wire') /\ LinkOK(queue', connection', nextRequest', wire', calls', dialed')
  BY <1>1 DEF SessionInv
<1>4. JournalOK(queue, verdict, wire)' /\ LinkOK(queue, connection, nextRequest, wire, calls, dialed)'
  BY <1>1, <1>3, JournalSame
<1>5. SessionTypeOK'
  BY <1>1, <1>2 DEF SessionInv, SessionTypeOK, ServerOK, Inv
<1> QED
  BY <1>2, <1>4, <1>5 DEF SessionInv

(* A step is one of the client, of the network, or of the server.            *)
\* The whole session.
LEMMA SessionSteps ==
    [SessionNext]_sessionVars =>
        \/ ClientMove \/ ServerStep \/ ServerRestart \/ (\E f \in wire : TakeFrame(f))
        \/ UNCHANGED sessionVars
  BY DEF SessionNext, ClientMove

(* Every step keeps the invariant.                                           *)
\* The whole session.
LEMMA SessionNextInv == SessionInv /\ [SessionNext]_sessionVars => SessionInv'
<1> SUFFICES ASSUME SessionInv, [SessionNext]_sessionVars PROVE SessionInv'
  OBVIOUS
<1>1. CASE ClientMove
  BY <1>1, ClientKeepsSession
<1>2. CASE ServerStep
  BY <1>2, StepKeepsSession
<1>3. CASE ServerRestart
  BY <1>3, RestartKeepsSession
<1>4. ASSUME NEW f \in wire, TakeFrame(f) PROVE SessionInv'
  BY <1>4, TakeKeepsSession
<1>5. CASE UNCHANGED sessionVars
  BY <1>5, StillKeepsSession
<1> QED
  BY <1>1, <1>2, <1>3, <1>4, <1>5, SessionSteps

(* The invariant holds throughout, for every number of operations,           *)
(* connections, session switches and server processes, and whatever the      *)
(* horizon, the retention and the transit time are.                          *)
\* The journal, the network and the server's pipeline together.
THEOREM SessionInvariant == SessionSpec => []SessionInv
  BY SessionInitInv, SessionNextInv, PTL DEF SessionSpec

(* Every variable of the session keeps its type; in particular a report is   *)
(* one of the three the user is shown.                                       *)
\* The journal, the network and the server's pipeline.
THEOREM SessionTypes == SessionSpec => []SessionTypeOK
<1>1. SessionInv => SessionTypeOK
  BY DEF SessionInv
<1> QED
  BY <1>1, SessionInvariant, PTL

-----------------------------------------------------------------------------
(* Refusals.                                                                 *)

(* A finite set with at most one member has one.                             *)
\* The attempts of an operation.
LEMMA OneAttempt ==
    ASSUME NEW S, IsFiniteSet(S), Cardinality(S) =< 1, NEW x \in S, NEW y \in S
    PROVE  x = y
<1>1. SUFFICES ASSUME x # y PROVE FALSE
  OBVIOUS
<1>2. IsFiniteSet({x}) /\ Cardinality({x}) = 1
  BY FS_Singleton
<1>3. PICK T : T = {x}
  OBVIOUS
<1>4. IsFiniteSet(T \cup {y}) /\ Cardinality(T \cup {y}) = Cardinality(T) + 1
  BY <1>1, <1>2, <1>3, FS_AddElement
<1>5. T \cup {y} \in SUBSET S
  BY <1>3
<1>6. PICK U : U = T \cup {y}
  OBVIOUS
<1>7. Cardinality(U) =< Cardinality(S) /\ Cardinality(S) \in Nat
  BY <1>5, <1>6, FS_Subset, FS_CardinalityType
<1>8. Cardinality(U) = 2
  BY <1>2, <1>3, <1>4, <1>6
<1> QED
  BY <1>7, <1>8

(* The invariant says so of an operation sent once: the frame whose refusal  *)
(* was reported is the only one.                                             *)
\* resolve's Refused arm.
LEMMA InvRefused == SessionInv => RefusedAtOnceMeansNothingWritten
<1> SUFFICES ASSUME SessionInv, NEW o \in Operations, verdict[o] = "Refused", Cardinality(Attempted(o)) =< 1,
                    NEW x \in Attempted(o)
             PROVE  ~Handed(x)
  BY DEF RefusedAtOnceMeansNothingWritten
<1>1. x \in Ids /\ OpOf(x) = o
  BY DEF Attempted, OpOf
<1>2. PICK y \in Ids : OpOf(y) = o /\ Settled(y)
  <2>1. OpSent(o, wire)
    BY <1>1 DEF OpSent
  <2> QED
    BY <2>1 DEF SessionInv, JournalOK, ToldOK
<1>3. IsFiniteSet(Attempted(o))
  <2>1. Len(attempts) \in Nat
    BY DEF SessionInv, ServerOK, Inv, TypeOK
  <2>2. IsFiniteSet(Ids)
    BY <2>1, FS_Interval DEF Ids
  <2>3. Attempted(o) \in SUBSET Ids
    BY DEF Attempted
  <2> QED
    BY <2>2, <2>3, FS_Subset
<1>4. y \in Attempted(o)
  BY <1>2 DEF Attempted, OpOf
<1>5. PICK S : S = Attempted(o)
  OBVIOUS
<1>6. x = y
  BY <1>3, <1>4, <1>5, OneAttempt
<1> QED
  BY <1>2, <1>6 DEF Settled, May

(* An operation reported refused, of which a server took at most one frame   *)
(* and none is on its way, is not in a pane and never gets there.            *)
\* resolve's Refused arm, against the server's refusals.
THEOREM RefusalIsFinal == SessionSpec => []RefusedAtOnceMeansNothingWritten
  BY SessionInvariant, InvRefused, PTL

-----------------------------------------------------------------------------
(* At most once, and in order, of every operation that is not late: its      *)
(* frames were all taken within the horizon, and the horizon is no longer    *)
(* than the retention of the dedupe record the first of them was bound to.   *)

(* The process that is up has at most one frame of an operation that may be  *)
(* in a pane, and none if an older process had one, unless the operation is  *)
(* late.                                                                     *)
\* INPUT_RETRY_HORIZON, DEDUPE_RETENTION, expected_server_id.
LEMMA LiveOnce ==
    SessionInv =>
        \A x, y \in Ids : OpOf(x) = OpOf(y) /\ OpOf(x) \notin late /\ May(x) /\ May(y) /\ IsApply(x) => x = y
<1> SUFFICES ASSUME SessionInv, NEW x \in Ids, NEW y \in Ids, OpOf(x) = OpOf(y), OpOf(x) \notin late,
                    May(x), May(y), IsApply(x), x # y
             PROVE  FALSE
  OBVIOUS
<1>1. Inv /\ HandedInv /\ AllApply /\ JournalOK(queue, verdict, wire)
  BY DEF SessionInv, ServerOK
<1>2. PICK o \in Operations : o = OpOf(x)
  BY <1>1 DEF AllApply
<1>3. PICK c \in 0..now, s \in 1..incarnation : Bounded(o, c, s, queue, wire)
  BY <1>1 DEF JournalOK, BoundedOK
<1>4. s = incarnation /\ s \in Nat
  BY <1>2, <1>3, SessionFacts DEF Bounded
<1>5. IsApply(y)
  BY <1>2, <1>3, <1>4 DEF Bounded
<1>6. Bound(x) /\ Bound(y)
  BY <1>1, <1>5, MayBound
<1>7. ~SameRecord(x, y) /\ ~SameRecord(y, x)
  <2>1. ~SameRecord(x, y)
    BY <1>1, <1>6 DEF HandedInv, RecordsOK, OneCopy
  <2> QED
    BY <2>1 DEF SameRecord
<1>8. ASSUME NEW a \in Ids, NEW b \in Ids, OpOf(a) = o, OpOf(b) = o, Bound(a), Bound(b), ~SameRecord(a, b), a < b
      PROVE  FALSE
  <2>1. attempts[a].bound + Retention =< attempts[b].admitted
    BY <1>8, <1>1 DEF HandedInv, RecordsOK, OneCopy, Past
  <2>2. c =< attempts[a].bound /\ attempts[b].admitted < c + Horizon
    BY <1>2, <1>8, <1>3 DEF Bounded
  <2>3. attempts[a].bound \in Nat
    BY <1>8, <1>1 DEF HandedInv, RecordsOK, BoundOK
  <2>4. attempts[b].admitted \in Nat
    BY <1>8, <1>1, AttemptTyped DEF Inv, TypeOK, Ids
  <2>5. c \in Nat /\ Horizon \in Nat /\ Retention \in Nat /\ Horizon =< Retention
    BY SessionFacts, SessionAssumption, CacheAssumption
  <2>6. PICK u, v : u = attempts[a].bound /\ v = attempts[b].admitted
    OBVIOUS
  <2> QED
    BY <2>1, <2>2, <2>3, <2>4, <2>5, <2>6
<1>9. x \in Nat /\ y \in Nat /\ (x < y \/ y < x)
  BY <1>1 DEF Ids, Inv, TypeOK
<1> QED
  BY <1>2, <1>6, <1>7, <1>8, <1>9

(* The same after a step.                                                    *)
\* INPUT_RETRY_HORIZON, DEDUPE_RETENTION, expected_server_id.
LEMMA LiveOnceNext ==
    SessionInv' =>
        (\A x, y \in Ids :
            OpOf(x) = OpOf(y) /\ OpOf(x) \notin late /\ May(x) /\ May(y) /\ IsApply(x) => x = y)'
  BY LiveOnce, PTL

(* A restart hands nothing over.                                             *)
\* upgrade: the adopted PTYs.
LEMMA RestartHanded ==
    ASSUME FramesForgotten, NEW x, Handed(x)'
    PROVE  Handed(x)
  BY DEF FramesForgotten, Handed

(* The server's threads hand over frames of their own process only.          *)
\* The lane thread's queue dies with its process.
LEMMA StepHandsLive ==
    ASSUME SessionInv, ServerStep, NEW x \in Ids, Handed(x)', ~IsApply(x)
    PROVE  Handed(x)
<1>1. ServerMoves
  BY StepKeepsServer DEF SessionInv
<1>2. May(x) \/ InLane(x)
  BY <1>1 DEF ServerMoves, May
<1>3. ~InLane(x)
  BY QueuedIsWaiting DEF SessionInv, ServerOK, ApplyWaiting
<1> QED
  BY <1>2, <1>3 DEF May, OnHand

(* Initially nothing is handed over.                                         *)
\* An idle server.
LEMMA InitOnce == SessionInit => OnceOK
  BY DEF SessionInit, Init, OnceOK, Ids

(* A step that leaves the server alone hands nothing over.                   *)
\* The client shares no state with the server.
LEMMA HandedStill ==
    ASSUME UNCHANGED vars
    PROVE  Ids' = Ids /\ \A x : OpOf(x)' = OpOf(x) /\ (Handed(x)' <=> Handed(x))
<1>1. UNCHANGED <<attempts, mailbox, writerq, pty>>
  BY DEF vars, laneVars, paneVars
<1> QED
  BY <1>1 DEF Ids, OpOf, Handed, Underway, Landed

(* No step hands an operation over a second time, unless it is late.         *)
\* bind_at, next_frame's horizon, sweep's incarnation check.
LEMMA NextOnce ==
    SessionInv /\ SessionInv' /\ OnceOK /\ [SessionNext]_sessionVars => OnceOK'
<1> SUFFICES ASSUME SessionInv, SessionInv', OnceOK, [SessionNext]_sessionVars PROVE OnceOK'
  OBVIOUS
<1>1. CASE UNCHANGED <<vars, late>>
  BY <1>1, HandedStill DEF OnceOK
<1>2. CASE ServerRestart
  <2>1. FramesForgotten
    BY <1>2, RestartKeepsSession
  <2>2. Ids' = Ids /\ late' = late /\ \A x \in Ids : OpOf(x)' = OpOf(x) /\ (Handed(x)' => Handed(x))
    BY <1>2, <2>1, RestartHanded DEF FramesForgotten, OpOf, ServerRestart
  <2> QED
    BY <2>2 DEF OnceOK
<1>3. ASSUME NEW f \in wire, TakeFrame(f) PROVE OnceOK'
  <2>1. FrameTaken(f.op)
    BY <1>3, TakeKeepsSession
  <2>2. PICK n : n = NewId
    OBVIOUS
  <2>3. /\ Ids' = Ids \cup {n} /\ ~Handed(n)' /\ \A x \in Ids : OpOf(x)' = OpOf(x) /\ (Handed(x)' <=> Handed(x))
    BY <2>1, <2>2 DEF FrameTaken, OpOf
  <2>4. late \subseteq late'
    BY <1>3 DEF TakeFrame
  <2> QED
    BY <2>3, <2>4 DEF OnceOK
<1>4. CASE ServerStep
  <2>1. ServerMoves
    BY <1>4, StepKeepsServer DEF SessionInv
  <2>2. Ids' = Ids /\ \A x \in Ids : OpOf(x)' = OpOf(x) /\ (IsApply(x)' <=> IsApply(x))
    BY <2>1 DEF ServerMoves, OpOf, IsApply
  <2>3. late' = late
    BY <1>4 DEF ServerStep, linkVars
  <2>4. \A x, y \in Ids :
           OpOf(x)' = OpOf(y)' /\ OpOf(x)' \notin late /\ May(x)' /\ May(y)' /\ IsApply(x)' => x = y
    BY <2>2, <2>3, LiveOnceNext
  <2>5. SUFFICES ASSUME NEW x \in Ids, NEW y \in Ids, OpOf(x) = OpOf(y), OpOf(x) \notin late,
                        Handed(x)', Handed(y)'
                 PROVE  x = y
    BY <2>2, <2>3 DEF OnceOK
  <2>6. May(x)' /\ May(y)'
    BY <2>5 DEF May
  <2>7. CASE IsApply(x) \/ IsApply(y)
    BY <2>2, <2>4, <2>5, <2>6, <2>7
  <2>8. CASE ~IsApply(x) /\ ~IsApply(y)
    <3>1. Handed(x) /\ Handed(y)
      BY <1>4, <2>5, <2>8, StepHandsLive
    <3> QED
      BY <3>1, <2>5 DEF OnceOK
  <2> QED
    BY <2>7, <2>8
<1>5. ClientMove => UNCHANGED <<vars, late>>
  BY ClientStill
<1>6. UNCHANGED sessionVars => UNCHANGED <<vars, late>>
  BY DEF sessionVars, linkVars
<1> QED
  BY <1>1, <1>2, <1>3, <1>4, <1>5, <1>6, SessionSteps

(* No operation is handed to a pane twice, whatever is resent, delayed,      *)
(* reconnected or restarted, unless its horizon passed while a frame of it   *)
(* was on its way.                                                           *)
\* next_frame, sweep, OperationCache::bind_at.
THEOREM HandedOnce == SessionSpec => []OnceOK
  BY NextOnce, SessionInvariant, InitOnce, PTL DEF SessionSpec

(* What is in a PTY was handed to that pane, in the order it came off the    *)
(* wire.                                                                     *)
\* service_write_request.
LEMMA LandingFacts ==
    ASSUME SessionInv, NEW r \in Resources, NEW i \in 1..Len(pty[r])
    PROVE  /\ pty[r][i].id \in Ids /\ pty[r][i].id \in Nat /\ attempts[pty[r][i].id].to = r
           /\ Landed(pty[r][i].id) /\ Handed(pty[r][i].id)
           /\ \A j \in 1..Len(pty[r]) : i < j => pty[r][i].id < pty[r][j].id
<1>1. Inv /\ HandedInv
  BY DEF SessionInv, ServerOK
<1>2. PICK x : x = pty[r][i].id
  OBVIOUS
<1>3. x \in InPane(r) /\ Landed(x)
  BY <1>2 DEF InPane, IdsOf, Landed
<1>4. x \in Ids /\ attempts[x].to = r
  BY <1>1, <1>3 DEF HandedInv, OrderOK, PaneOrderOK
<1>5. Ascending(pty[r])
  BY <1>1 DEF HandedInv, OrderOK, PaneOrderOK, Chain
<1>6. x \in Nat
  BY <1>1, <1>4 DEF Ids, Inv, TypeOK
<1> QED
  BY <1>2, <1>3, <1>4, <1>5, <1>6 DEF Handed, Ascending

(* Where the bytes of an operation are.                                      *)
\* The PTYs.
LEMMA LandingsAre ==
    ASSUME NEW o
    PROVE  \A l : l \in Landings(o) <=>
              \E r \in Resources : \E i \in 1..Len(pty[r]) : l = <<r, i>> /\ OpOf(pty[r][i].id) = o
  BY DEF Landings, OpOf

(* An operation handed over once is in one place of one PTY.                 *)
\* service_write_request.
LEMMA InvWrittenOnce == SessionInv /\ OnceOK => OnlyLateIsWrittenTwice
<1> SUFFICES ASSUME SessionInv, OnceOK, NEW o \in Operations \ late, NEW l \in Landings(o), NEW m \in Landings(o)
             PROVE  l = m
  BY DEF OnlyLateIsWrittenTwice, AtMostOne
<1>1. PICK r \in Resources : \E i \in 1..Len(pty[r]) : l = <<r, i>> /\ OpOf(pty[r][i].id) = o
  BY LandingsAre
<1>2. PICK i \in 1..Len(pty[r]) : l = <<r, i>> /\ OpOf(pty[r][i].id) = o
  BY <1>1
<1>3. PICK q \in Resources : \E j \in 1..Len(pty[q]) : m = <<q, j>> /\ OpOf(pty[q][j].id) = o
  BY LandingsAre
<1>4. PICK j \in 1..Len(pty[q]) : m = <<q, j>> /\ OpOf(pty[q][j].id) = o
  BY <1>3
<1>5. PICK x, y : x = pty[r][i].id /\ y = pty[q][j].id
  OBVIOUS
<1>6. /\ x \in Ids /\ x \in Nat /\ attempts[x].to = r /\ Handed(x)
      /\ \A k \in 1..Len(pty[r]) : i < k => x < pty[r][k].id
  BY <1>5, LandingFacts
<1>7. /\ y \in Ids /\ y \in Nat /\ attempts[y].to = q /\ Handed(y)
      /\ \A k \in 1..Len(pty[q]) : j < k => y < pty[q][k].id
  BY <1>5, LandingFacts
<1>8. x = y
  BY <1>2, <1>4, <1>5, <1>6, <1>7 DEF OnceOK
<1>9. r = q
  BY <1>6, <1>7, <1>8
<1>10. j \in 1..Len(pty[r]) /\ y = pty[r][j].id /\ ~(x < x)
  BY <1>5, <1>6, <1>9
<1>11. ~(i < j)
  BY <1>6, <1>8, <1>10
<1>12. ~(j < i)
  BY <1>5, <1>7, <1>8, <1>9, <1>10
<1>13. i = j
  BY <1>10, <1>11, <1>12
<1> QED
  BY <1>2, <1>4, <1>9, <1>13

(* A paste is written at most once, unless its horizon passed while a frame  *)
(* of it was on its way.                                                     *)
\* next_frame's check at the send, prune_expired's at the receipt.
THEOREM PasteIsWrittenOnce == SessionSpec => []OnlyLateIsWrittenTwice
  BY HandedOnce, SessionInvariant, InvWrittenOnce, PTL

(* What is in a PTY in full was handed to its pane.                          *)
\* service_write_request.
LEMMA WholeIsHanded == ASSUME NEW x, Whole(x) PROVE Handed(x)
  BY DEF Whole, Members, Handed, Landed

(* Initially nothing is delivered.                                           *)
\* InputReplayJournal::new.
LEMMA InitAhead == SessionInit => AheadOK
  BY DEF SessionInit, Init, AheadOK, Ids

(* No step puts a delivered operation behind a later one: an operation is    *)
(* reported delivered when nothing newer has been sent, and is not handed    *)
(* over again.                                                               *)
\* At most one operation in flight; resolve.
LEMMA NextAhead ==
    SessionInv /\ SessionInv' /\ OnceOK /\ OnceOK' /\ AheadOK /\ [SessionNext]_sessionVars => AheadOK'
<1> SUFFICES ASSUME SessionInv, SessionInv', OnceOK, OnceOK', AheadOK, [SessionNext]_sessionVars PROVE AheadOK'
  OBVIOUS
<1>1. \A x \in Ids : OpOf(x) \in Operations
  BY DEF SessionInv, ServerOK, AllApply
<1>2. \A o \in Operations : o \in Nat
  BY SessionAssumption
<1>3. CASE ClientMove
  <2>1. Ids' = Ids /\ late' = late /\ \A x : OpOf(x)' = OpOf(x) /\ (Handed(x)' <=> Handed(x))
    BY <1>3, ClientStill, HandedStill
  <2>2. Judges
    BY <1>3, ClientKeepsJournal DEF JournalMoves
  <2>3. SUFFICES ASSUME NEW x \in Ids, NEW y \in Ids, OpOf(y) < OpOf(x), OpOf(y) \notin late,
                        verdict'[OpOf(y)] = "Delivered", Handed(y)
                 PROVE  y < x
    BY <2>1 DEF AheadOK
  <2>4. CASE verdict[OpOf(y)] = "Delivered"
    BY <2>3, <2>4 DEF AheadOK
  <2>5. CASE verdict[OpOf(y)] # "Delivered"
    <3>1. OpOf(x) =< OpOf(y)
      BY <2>2, <2>3, <2>5, <1>1 DEF Judges
    <3> QED
      BY <3>1, <2>3, <1>1, <1>2
  <2> QED
    BY <2>4, <2>5
<1>4. CASE ServerRestart
  <2>1. FramesForgotten
    BY <1>4, RestartKeepsSession
  <2>2. Ids' = Ids /\ verdict' = verdict /\ late' = late
        /\ \A x \in Ids : OpOf(x)' = OpOf(x) /\ (Handed(x)' => Handed(x))
    BY <1>4, <2>1, RestartHanded DEF FramesForgotten, OpOf, ServerRestart, journalVars
  <2> QED
    BY <2>2 DEF AheadOK
<1>5. ASSUME NEW f \in wire, TakeFrame(f) PROVE AheadOK'
  <2>1. FrameTaken(f.op) /\ verdict' = verdict /\ late \subseteq late'
    BY <1>5, TakeKeepsSession DEF TakeFrame
  <2>2. PICK n : n = NewId
    OBVIOUS
  <2>3. /\ Ids' = Ids \cup {n} /\ ~Handed(n)' /\ (\A x \in Ids : x < n)
        /\ \A x \in Ids : OpOf(x)' = OpOf(x) /\ (Handed(x)' <=> Handed(x))
    BY <2>1, <2>2 DEF FrameTaken, OpOf
  <2> QED
    BY <2>1, <2>3 DEF AheadOK
<1>6. CASE ServerStep
  <2>1. ServerMoves /\ verdict' = verdict /\ late' = late
    BY <1>6, StepKeepsServer DEF SessionInv, ServerStep, journalVars, linkVars
  <2>2. Ids' = Ids /\ \A x \in Ids : OpOf(x)' = OpOf(x)
    BY <2>1 DEF ServerMoves, OpOf
  <2>3. SUFFICES ASSUME NEW x \in Ids, NEW y \in Ids, OpOf(y) < OpOf(x), OpOf(y) \notin late,
                        verdict[OpOf(y)] = "Delivered", Handed(y)'
                 PROVE  y < x
    BY <2>1, <2>2 DEF AheadOK
  <2>4. PICK z \in Ids : OpOf(z) = OpOf(y) /\ Whole(z)
    BY <2>3, <1>1 DEF SessionInv, JournalOK, ToldOK
  <2>5. Handed(z) /\ Whole(z)'
    BY <2>1, <2>4, WholeIsHanded DEF ServerMoves
  <2>6. Handed(z)'
    BY <2>5 DEF Whole, Members, Handed, Landed
  <2>7. z = y
    BY <2>1, <2>2, <2>3, <2>4, <2>6 DEF OnceOK
  <2> QED
    BY <2>3, <2>5, <2>7 DEF AheadOK
<1>7. CASE UNCHANGED sessionVars
  <2>1. UNCHANGED vars /\ verdict' = verdict /\ late' = late
    BY <1>7 DEF sessionVars, journalVars, linkVars
  <2> QED
    BY <2>1, HandedStill DEF AheadOK
<1> QED
  BY <1>3, <1>4, <1>5, <1>6, <1>7, SessionSteps

(* An operation reported delivered is ahead of every newer one, unless its   *)
(* horizon passed while a frame of it was on its way.                        *)
\* At most one operation in flight; resolve.
THEOREM DeliveredAhead == SessionSpec => []AheadOK
  BY HandedOnce, SessionInvariant, InitAhead, NextAhead, PTL DEF SessionSpec

(* Operations that were taken in order are in their pane in order.           *)
\* One lane and the FIFO queues of a pane.
LEMMA InvInOrder == SessionInv /\ AheadOK => DeliveredInOrder
<1> SUFFICES ASSUME SessionInv, AheadOK, NEW r \in Resources, NEW i \in 1..Len(pty[r]), NEW j \in 1..Len(pty[r]),
                    i < j, verdict[attempts[pty[r][j].id].op] = "Delivered",
                    attempts[pty[r][j].id].op \notin late,
                    ~(attempts[pty[r][i].id].op =< attempts[pty[r][j].id].op)
             PROVE  FALSE
  BY DEF DeliveredInOrder
<1>1. PICK x, y : x = pty[r][i].id /\ y = pty[r][j].id
  OBVIOUS
<1>2. x \in Ids /\ x \in Nat /\ y \in Ids /\ y \in Nat /\ Handed(y) /\ x < y
  BY <1>1, LandingFacts
<1>3. OpOf(x) \in Nat /\ OpOf(y) \in Nat
  BY <1>2, SessionAssumption DEF SessionInv, ServerOK, AllApply
<1>4. verdict[OpOf(y)] = "Delivered" /\ OpOf(y) \notin late /\ ~(OpOf(x) =< OpOf(y))
  BY <1>1 DEF OpOf
<1>5. OpOf(y) < OpOf(x)
  BY <1>3, <1>4
<1>6. y < x
  BY <1>2, <1>4, <1>5 DEF AheadOK
<1> QED
  BY <1>2, <1>6

(* Pastes reported delivered are in their pane in the order they were made,  *)
(* but for one whose horizon passed while a frame of it was on its way.      *)
\* At most one operation in flight; sweep keeps order.
THEOREM PastesLandInOrder == SessionSpec => []DeliveredInOrder
  BY DeliveredAhead, SessionInvariant, InvInOrder, PTL

-----------------------------------------------------------------------------
(* The contract of acknowledged input.                                       *)

(* What is written of each operation changes only when a PTY does.           *)
\* service_write_request.
LEMMA WrittenStill ==
    ASSUME SessionInv, pty' = pty, \A x \in Ids : attempts'[x].op = attempts[x].op
    PROVE  written' = written
<1>1. ASSUME NEW o PROVE Landings(o)' = Landings(o)
  <2>1. ASSUME NEW r \in Resources
        PROVE  {j \in 1..Len(pty[r]) : attempts'[pty[r][j].id].op = o}
                  = {j \in 1..Len(pty[r]) : attempts[pty[r][j].id].op = o}
    <3>1. \A j \in 1..Len(pty[r]) : pty[r][j].id \in Ids
      BY LandingFacts
    <3> QED
      BY <3>1
  <2> QED
    BY <2>1 DEF Landings
<1> QED
  BY <1>1 DEF written, AtMostOne

(* A step of the server's threads leaves the PTYs alone or appends one batch *)
(* to one of them.                                                           *)
\* service_write_request.
LEMMA WhatLands ==
    ASSUME SessionInv, ServerStep
    PROVE  \/ pty' = pty
           \/ \E r \in Resources, w \in BOOLEAN : writerq[r] # << >> /\ Lands(r, w) /\ attempts' = attempts
<1>1. ASSUME NEW r \in Resources, PaneStep(r)
      PROVE  pty' = pty \/ \E w \in BOOLEAN : writerq[r] # << >> /\ Lands(r, w) /\ attempts' = attempts
  BY <1>1 DEF PaneStep, ServiceEncodedInput, ActorStops, ActorExits, MailboxDrop, ReapResource,
     WriteDelivers, WriteRefused, WriteFails, WriterQueueDrop, paneVars
<1>2. LaneStep \/ WaiterStep => pty' = pty
  BY DEF LaneStep, LaneBind, LaneRegister, LaneHandoff, LaneGate, LaneHandoffUnacked,
     WaiterStep, WaiterReceive, WaiterTimeout, RecordFinal, ReleaseAndReply, paneVars
<1>3. Tick => pty' = pty
  BY DEF Tick, paneVars
<1> QED
  BY <1>1, <1>2, <1>3 DEF ServerStep

(* What is written of one operation, from where its bytes are.               *)
\* The PTYs.
LEMMA WrittenIs ==
    ASSUME NEW o \in Operations
    PROVE  /\ written[o] = IF Landings(o) = {} THEN "Nothing"
                           ELSE IF ~AtMostOne(Landings(o)) THEN "Twice"
                           ELSE IF \A l \in Landings(o) : pty[l[1]][l[2]].whole THEN "Whole" ELSE "Part"
           /\ written'[o] = IF Landings(o)' = {} THEN "Nothing"
                            ELSE IF ~AtMostOne(Landings(o)') THEN "Twice"
                            ELSE IF \A l \in Landings(o)' : pty'[l[1]][l[2]].whole THEN "Whole" ELSE "Part"
  BY DEF written, AtMostOne

(* A batch that lands is the contract's write of its operation: its user has *)
(* been told it is queued, and nothing of it was there or it is late.        *)
\* service_write_request, next_frame.
LEMMA LandingIsWrite ==
    ASSUME SessionInv, SessionInv', OnlyLateIsWrittenTwice', NEW r \in Resources, NEW w \in BOOLEAN,
           writerq[r] # << >>, Lands(r, w), attempts' = attempts, verdict' = verdict, late' = late
    PROVE  \E o \in Operations : Contract!Write(o) \/ Contract!WriteAgain(o)
<1>1. PICK x, e : x = Head(writerq[r]).id /\ e = [id |-> Head(writerq[r]).id, whole |-> w]
  OBVIOUS
<1>2. writerq[r] \in Seq(Request) /\ pty \in [Resources -> Seq(Landing)]
  BY DEF SessionInv, ServerOK, Inv, TypeOK, Landing
<1>3. x \in IdsOf(writerq[r]) /\ x \in Nat
  <2>1. 1 \in 1..Len(writerq[r]) /\ Head(writerq[r]) = writerq[r][1] /\ writerq[r][1] \in Request
    BY <1>2
  <2> QED
    BY <2>1, <1>1 DEF IdsOf, Request
<1>4. x \in Ids
  <2>1. x \in InPane(r)
    BY <1>3 DEF InPane
  <2> QED
    BY <2>1 DEF SessionInv, ServerOK, HandedInv, OrderOK, PaneOrderOK
<1>5. PICK o \in Operations : o = OpOf(x)
  BY <1>4 DEF SessionInv, ServerOK, AllApply
<1>6. e \in Landing /\ e.id = x /\ e.whole = w
  BY <1>1, <1>3 DEF Landing
<1>7. PICK n : n = Len(pty[r]) + 1
  OBVIOUS
<1>8. /\ pty' = [pty EXCEPT ![r] = Append(@, e)]
  BY <1>1 DEF Lands
<1>9. /\ \A q \in Resources : q # r => pty'[q] = pty[q]
      /\ Len(pty'[r]) = n /\ pty'[r][n] = e /\ n \notin 1..Len(pty[r])
      /\ 1..n = 1..Len(pty[r]) \cup {n}
      /\ \A i \in 1..Len(pty[r]) : pty'[r][i] = pty[r][i]
  <2>1. PICK p : p = pty[r]
    OBVIOUS
  <2>2. p \in Seq(Landing) /\ pty'[r] = Append(p, e) /\ \A q \in Resources : q # r => pty'[q] = pty[q]
    BY <2>1, <1>2, <1>8
  <2>3. /\ Len(Append(p, e)) = n /\ Append(p, e)[n] = e /\ n \notin 1..Len(p) /\ 1..n = 1..Len(p) \cup {n}
        /\ \A i \in 1..Len(p) : Append(p, e)[i] = p[i]
    BY <2>1, <2>2, <1>6, <1>7
  <2> QED
    BY <2>1, <2>2, <2>3
<1>10. /\ \A k, q, i : <<q, i>> \in Landings(k) <=> q \in Resources /\ i \in 1..Len(pty[q]) /\ OpOf(pty[q][i].id) = k
       /\ \A k, q, i : <<q, i>> \in Landings(k)' <=>
              q \in Resources /\ i \in 1..Len(pty'[q]) /\ attempts[pty'[q][i].id].op = k
       /\ \A k : \A l \in Landings(k) : l = <<l[1], l[2]>>
       /\ \A k : \A l \in Landings(k)' : l = <<l[1], l[2]>>
  BY DEF Landings, OpOf
<1>11. \A k, q, i : <<q, i>> \in Landings(k)' <=> <<q, i>> \in Landings(k) \/ (q = r /\ i = n /\ k = o)
  <2>1. ASSUME NEW k, NEW q, NEW i, q # r
        PROVE  <<q, i>> \in Landings(k)' <=> <<q, i>> \in Landings(k)
    BY <2>1, <1>9, <1>10 DEF OpOf
  <2>2. ASSUME NEW k, NEW i
        PROVE  <<r, i>> \in Landings(k)' <=> <<r, i>> \in Landings(k) \/ (i = n /\ k = o)
    <3>1. <<r, i>> \in Landings(k)' <=> i \in 1..n /\ attempts[pty'[r][i].id].op = k
      BY <1>9, <1>10
    <3>2. <<r, i>> \in Landings(k) <=> i \in 1..Len(pty[r]) /\ attempts[pty[r][i].id].op = k
      BY <1>10 DEF OpOf
    <3>3. attempts[pty'[r][n].id].op = o
      BY <1>5, <1>6, <1>9 DEF OpOf
    <3> QED
      BY <3>1, <3>2, <3>3, <1>9
  <2> QED
    BY <2>1, <2>2
<1>12. \A k \in Operations : k # o => Landings(k)' = Landings(k)
  <2>1. SUFFICES ASSUME NEW k \in Operations, k # o PROVE Landings(k)' = Landings(k)
    OBVIOUS
  <2>2. PICK A, B : A = Landings(k) /\ B = Landings(k)'
    OBVIOUS
  <2>3. ASSUME NEW l \in A PROVE l \in B
    <3>1. PICK q, i : l = <<q, i>>
      BY <2>2, <1>10
    <3> QED
      BY <3>1, <2>2, <1>11
  <2>4. ASSUME NEW l \in B PROVE l \in A
    <3>1. PICK q, i : l = <<q, i>>
      BY <2>2, <1>10
    <3> QED
      BY <3>1, <2>1, <2>2, <1>11
  <2>5. A = B
    BY <2>3, <2>4
  <2> QED
    BY <2>2, <2>5
<1>13. <<r, n>> \in Landings(o)' /\ <<r, n>> \notin Landings(o)
  BY <1>9, <1>10, <1>11
<1>16. \A k \in Operations : k # o => written'[k] = written[k]
  <2>1. SUFFICES ASSUME NEW k \in Operations, k # o PROVE written'[k] = written[k]
    OBVIOUS
  <2>2. ASSUME NEW l \in Landings(k) PROVE pty'[l[1]][l[2]] = pty[l[1]][l[2]]
    <3>1. PICK q, i : l = <<q, i>>
      BY <1>10
    <3>2. q \in Resources /\ i \in 1..Len(pty[q])
      BY <3>1, <1>10
    <3>3. pty'[q][i] = pty[q][i]
      BY <3>2, <1>9
    <3> QED
      BY <3>1, <3>3
  <2> QED
    BY <2>1, <2>2, <1>12, WrittenIs
<1>17. /\ written = [k \in Operations |-> written[k]] /\ written' = [k \in Operations |-> written'[k]]
  BY DEF written
<1>18. PICK u : u = written'[o]
  OBVIOUS
<1>19. written' = [written EXCEPT ![o] = u]
  BY <1>16, <1>17, <1>18
<1>20. verdict[o] # "New"
  <2>1. OpSent(o, wire)
    BY <1>4, <1>5 DEF OpSent
  <2> QED
    BY <2>1 DEF SessionInv, JournalOK, FrontOK
<1>21. CASE Landings(o) = {}
  <2>1. Landings(o)' = {<<r, n>>}
    BY <1>10, <1>11, <1>13, <1>21
  <2>2. AtMostOne(Landings(o)')
    BY <2>1 DEF AtMostOne
  <2>3. written[o] = "Nothing"
    BY <1>21, WrittenIs
  <2>4. u \in {"Part", "Whole"}
    BY <2>1, <2>2, <1>18, WrittenIs
  <2>5. Contract!Write(o)
    BY <2>3, <2>4, <1>19, <1>20 DEF Contract!Write
  <2> QED
    BY <2>5
<1>22. ASSUME NEW l \in Landings(o) PROVE Contract!WriteAgain(o)
  <2>1. PICK q, i : l = <<q, i>>
    BY <1>10
  <2>2. l \in Landings(o)' /\ l # <<r, n>>
    BY <2>1, <1>11, <1>13, <1>22
  <2>3. ~AtMostOne(Landings(o)')
    BY <2>2, <1>13 DEF AtMostOne
  <2>4. o \in late
    BY <2>3 DEF OnlyLateIsWrittenTwice, AtMostOne
  <2>5. written[o] # "Nothing"
    BY <1>22, WrittenIs
  <2>6. u = "Twice"
    BY <2>2, <2>3, <1>18, WrittenIs
  <2> QED
    BY <2>4, <2>5, <2>6, <1>19 DEF Contract!WriteAgain
<1> QED
  BY <1>21, <1>22

(* An operation in a PTY in full is written whole, or more than once.        *)
\* service_write_request.
LEMMA WholeIsWritten ==
    ASSUME NEW o \in Operations, NEW x, OpOf(x) = o, Whole(x)
    PROVE  written[o] \in {"Whole", "Twice"}
<1>1. PICK r \in Resources : [id |-> x, whole |-> TRUE] \in Members(pty[r])
  BY DEF Whole
<1>2. PICK i \in 1..Len(pty[r]) : pty[r][i] = [id |-> x, whole |-> TRUE]
  BY <1>1 DEF Members
<1>3. pty[r][i].id = x /\ pty[r][i].whole = TRUE
  BY <1>2
<1>4. <<r, i>> \in Landings(o)
  BY <1>3, LandingsAre
<1>5. ASSUME AtMostOne(Landings(o)) PROVE \A l \in Landings(o) : pty[l[1]][l[2]].whole
  <2>1. \A l \in Landings(o) : l = <<r, i>>
    BY <1>4, <1>5 DEF AtMostOne
  <2> QED
    BY <2>1, <1>3
<1> QED
  BY <1>4, <1>5, WrittenIs

(* The contract holds initially.                                             *)
\* InputReplayJournal::new and empty PTYs.
LEMMA InitContract == SessionInit => Contract!CInit
<1> SUFFICES ASSUME SessionInit PROVE Contract!CInit
  OBVIOUS
<1>1. (\A r \in Resources : pty[r] = << >>) /\ verdict = [o \in Operations |-> "New"] /\ late = {}
  BY DEF SessionInit, Init, JournalInit
<1>2. \A o \in Operations : Landings(o) = {}
  BY <1>1, LandingsAre
<1>3. written = [o \in Operations |-> "Nothing"]
  BY <1>2 DEF written
<1> QED
  BY <1>1, <1>3 DEF Contract!CInit

(* Every step is one the contract allows: a journal call is a judgement, a   *)
(* landing is a write, taking a frame may make an operation late, and the    *)
(* rest is invisible.                                                        *)
\* The journal, the network and the server's pipeline together.
LEMMA NextContract ==
    SessionInv /\ SessionInv' /\ OnlyLateIsWrittenTwice' /\ [SessionNext]_sessionVars
        => [Contract!CNext]_<<verdict, written, late>>
<1> SUFFICES ASSUME SessionInv, SessionInv', OnlyLateIsWrittenTwice', [SessionNext]_sessionVars
             PROVE  [Contract!CNext]_<<verdict, written, late>>
  OBVIOUS
<1>1. CASE ClientMove
  <2>1. UNCHANGED <<vars, late>> /\ Judges
    BY <1>1, ClientStill, ClientKeepsJournal DEF JournalMoves
  <2>2. pty' = pty /\ attempts' = attempts
    BY <2>1 DEF vars, paneVars
  <2>3. written' = written
    BY <2>2, WrittenStill
  <2>4. \A o \in Operations : verdict'[o] = verdict[o] \/ Contract!MayBecome(o, verdict'[o])
    <3>1. SUFFICES ASSUME NEW o \in Operations PROVE verdict'[o] = verdict[o] \/ Contract!MayBecome(o, verdict'[o])
      OBVIOUS
    <3>2. (\E x \in Ids : OpOf(x) = o /\ Whole(x)) => written[o] \in {"Whole", "Twice"}
      BY WholeIsWritten
    <3> QED
      BY <2>1, <3>2 DEF Judges, Contract!MayBecome
  <2>5. Contract!Judge
    BY <2>1, <2>3, <2>4 DEF Contract!Judge
  <2> QED
    BY <2>5 DEF Contract!CNext
<1>2. CASE ServerRestart
  <2>1. FramesForgotten /\ pty' = pty /\ verdict' = verdict /\ late' = late
    BY <1>2, RestartKeepsSession DEF ServerRestart, journalVars
  <2>2. written' = written
    BY <2>1, WrittenStill DEF FramesForgotten
  <2> QED
    BY <2>1, <2>2
<1>3. ASSUME NEW f \in wire, TakeFrame(f) PROVE [Contract!CNext]_<<verdict, written, late>>
  <2>1. FrameTaken(f.op) /\ verdict' = verdict /\ (late' = late \/ late' = late \cup {f.op})
    BY <1>3, TakeKeepsSession DEF TakeFrame
  <2>2. pty' = pty
    BY <1>3 DEF TakeFrame, ApplyInput, paneVars
  <2>3. written' = written
    BY <2>1, <2>2, WrittenStill DEF FrameTaken
  <2>4. PICK o : o = f.op
    OBVIOUS
  <2>5. o \in Operations /\ verdict[o] # "New"
    <3>1. o \in Operations /\ OpSent(o, wire)
      BY <2>4, SessionFacts DEF Frame, OpSent
    <3> QED
      BY <3>1 DEF SessionInv, JournalOK, FrontOK
  <2>6. CASE late' = late
    BY <2>1, <2>3, <2>6
  <2>7. CASE late' = late \cup {o}
    <3>1. Contract!Overtake(o)
      BY <2>1, <2>3, <2>5, <2>7 DEF Contract!Overtake
    <3> QED
      BY <3>1, <2>5 DEF Contract!CNext
  <2> QED
    BY <2>1, <2>4, <2>6, <2>7
<1>4. CASE ServerStep
  <2>1. ServerMoves /\ verdict' = verdict /\ late' = late
    BY <1>4, StepKeepsServer DEF SessionInv, ServerStep, journalVars, linkVars
  <2>2. CASE pty' = pty
    <3>1. written' = written
      BY <2>1, <2>2, WrittenStill DEF ServerMoves
    <3> QED
      BY <3>1, <2>1
  <2>3. ASSUME NEW r \in Resources, NEW w \in BOOLEAN, writerq[r] # << >>, Lands(r, w), attempts' = attempts
        PROVE  Contract!CNext
    <3>1. \E o \in Operations : Contract!Write(o) \/ Contract!WriteAgain(o)
      BY <2>1, <2>3, LandingIsWrite
    <3> QED
      BY <3>1 DEF Contract!CNext
  <2> QED
    BY <1>4, <2>2, <2>3, WhatLands
<1>5. CASE UNCHANGED sessionVars
  <2>1. verdict' = verdict /\ pty' = pty /\ attempts' = attempts /\ late' = late
    BY <1>5 DEF sessionVars, journalVars, linkVars, vars, paneVars
  <2>2. written' = written
    BY <2>1, WrittenStill
  <2> QED
    BY <2>1, <2>2
<1> QED
  BY <1>1, <1>2, <1>3, <1>4, <1>5, SessionSteps

(* The journal, the network and the server together implement the contract   *)
(* of acknowledged input, with the horizon as long as the retention: written *)
(* at most once unless the horizon passed with a frame on its way, and there *)
(* in full when reported delivered.                                          *)
\* input_replay.rs and acknowledged.rs together.
THEOREM SessionImplementsContract == SessionSpec => KeepsContract
<1>1. SessionSpec => []SessionInv /\ []OnlyLateIsWrittenTwice
  BY SessionInvariant, PasteIsWrittenOnce, PTL
<1> QED
  BY <1>1, InitContract, NextContract, PTL DEF SessionSpec, KeepsContract, Contract!CSpec
=============================================================================
