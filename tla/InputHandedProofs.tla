------------------------- MODULE InputHandedProofs -------------------------
(* Proofs about the bytes handed to a pane: they arrive in wire order, once  *)
(* per dedupe record, and what the client is told about them is true.        *)
EXTENDS InputHandedInv, InputLaneProofs

Landing == [id : Nat, whole : BOOLEAN]

(* The fields of an attempt have their types.                                *)
\* AcknowledgedReservation, AcknowledgedBatch.
LEMMA AttemptTyped ==
    ASSUME NEW s \in Seq(Attempt)
    PROVE  /\ 1..Len(s) \subseteq Nat
           /\ \A x \in 1..Len(s) :
                 /\ s[x] \in Attempt /\ s[x].admitted \in Nat /\ s[x].bound \in Int
                 /\ s[x].to \in Resources
<1>1. \A x \in 1..Len(s) : s[x] \in Attempt
  OBVIOUS
<1> QED
  BY <1>1 DEF Attempt

-----------------------------------------------------------------------------
(* Queues.                                                                   *)

(* The front of a queue and its rest are the whole of it.                    *)
\* Every receive of the pipeline.
LEMMA TailMembers ==
    ASSUME NEW S, NEW q \in Seq(S), q # << >>
    PROVE  /\ Head(q) \in S /\ Tail(q) \in Seq(S)
           /\ Head(q) \in Members(q)
           /\ Members(Tail(q)) \subseteq Members(q)
           /\ Members(q) = Members(Tail(q)) \cup {Head(q)}
<1>1. /\ Head(q) \in S /\ Tail(q) \in Seq(S) /\ Len(Tail(q)) = Len(q) - 1
      /\ \A i \in 1..Len(Tail(q)) : Tail(q)[i] = q[i + 1]
      /\ Head(q) = q[1] /\ Len(q) \in Nat /\ Len(q) > 0
  BY HeadTailProperties, EmptySeq
<1>2. \A i \in 1..Len(Tail(q)) : i + 1 \in 1..Len(q)
  BY <1>1
<1>3. \A i \in 1..Len(q) : i = 1 \/ (i - 1 \in 1..Len(Tail(q)) /\ (i - 1) + 1 = i)
  BY <1>1
<1>4. Head(q) \in Members(q) /\ Members(Tail(q)) \subseteq Members(q)
  BY <1>1, <1>2 DEF Members
<1>5. Members(q) \subseteq Members(Tail(q)) \cup {Head(q)}
  BY <1>1, <1>3 DEF Members
<1> QED
  BY <1>1, <1>4, <1>5

(* Queueing adds one element.                                                *)
\* Every send of the pipeline.
LEMMA AppendMembers ==
    ASSUME NEW S, NEW q \in Seq(S), NEW e \in S
    PROVE  Append(q, e) \in Seq(S) /\ Members(Append(q, e)) = Members(q) \cup {e}
<1>1. /\ Append(q, e) \in Seq(S) /\ Len(Append(q, e)) = Len(q) + 1
      /\ \A i \in 1..Len(q) : Append(q, e)[i] = q[i]
      /\ Append(q, e)[Len(q) + 1] = e /\ Len(q) \in Nat
  BY AppendProperties
<1>2. \A i \in 1..Len(Append(q, e)) : i \in 1..Len(q) \/ i = Len(q) + 1
  BY <1>1
<1>3. \A i \in 1..Len(q) : i \in 1..Len(Append(q, e))
  BY <1>1
<1>4. Len(q) + 1 \in 1..Len(Append(q, e))
  BY <1>1
<1> QED
  BY <1>1, <1>2, <1>3, <1>4 DEF Members

(* The elements of a queue, and their number and order aside, its ids.       *)
\* RoutedInput, EncodedInput and what the PTY received are known by attempt id.
LEMMA MemberIds ==
    ASSUME NEW q
    PROVE  IdsOf(q) = {e.id : e \in Members(q)}
  BY DEF IdsOf, Members

(* A queue ordered by id stays so without its front, which comes before all  *)
(* that is left.                                                             *)
\* Every receive of the pipeline.
LEMMA TailAscends ==
    ASSUME NEW S, NEW q \in Seq(S), q # << >>, Ascending(q)
    PROVE  Ascending(Tail(q)) /\ \A x \in IdsOf(Tail(q)) : Head(q).id < x
<1>1. /\ Tail(q) \in Seq(S) /\ Len(Tail(q)) = Len(q) - 1
      /\ \A i \in 1..Len(Tail(q)) : Tail(q)[i] = q[i + 1]
      /\ Head(q) = q[1] /\ Len(q) \in Nat /\ Len(q) > 0
  BY HeadTailProperties, EmptySeq
<1>2. \A i \in 1..Len(Tail(q)) : i + 1 \in 1..Len(q) /\ 1 < i + 1 /\ 1 \in 1..Len(q)
  BY <1>1
<1>3. \A i, j \in 1..Len(Tail(q)) : i < j => i + 1 < j + 1
  BY <1>1
<1>4. Ascending(Tail(q))
  BY <1>1, <1>2, <1>3 DEF Ascending
<1>5. \A x \in IdsOf(Tail(q)) : Head(q).id < x
  BY <1>1, <1>2 DEF Ascending, IdsOf
<1> QED
  BY <1>4, <1>5

(* A queue ordered by id stays so when a later id is queued.                 *)
\* Every send of the pipeline.
LEMMA AppendAscends ==
    ASSUME NEW S, NEW q \in Seq(S), NEW e \in S, Ascending(q), \A x \in IdsOf(q) : x < e.id
    PROVE  Ascending(Append(q, e))
<1>1. /\ Append(q, e) \in Seq(S) /\ Len(Append(q, e)) = Len(q) + 1
      /\ \A i \in 1..Len(q) : Append(q, e)[i] = q[i]
      /\ Append(q, e)[Len(q) + 1] = e /\ Len(q) \in Nat
  BY AppendProperties
<1>2. SUFFICES ASSUME NEW i \in 1..Len(Append(q, e)), NEW j \in 1..Len(Append(q, e)), i < j
               PROVE  Append(q, e)[i].id < Append(q, e)[j].id
  BY DEF Ascending
<1>3. i \in 1..Len(q) /\ (j \in 1..Len(q) \/ j = Len(q) + 1)
  BY <1>1, <1>2
<1>4. CASE j \in 1..Len(q)
  BY <1>1, <1>2, <1>3, <1>4 DEF Ascending
<1>5. CASE j = Len(q) + 1
  <2>1. q[i].id \in IdsOf(q)
    BY <1>3 DEF IdsOf
  <2> QED
    BY <2>1, <1>1, <1>3, <1>5
<1> QED
  BY <1>3, <1>4, <1>5

(* The ids of a queue after a receive ...                                    *)
\* Every receive of the pipeline.
LEMMA TailIds ==
    ASSUME NEW S, NEW q \in Seq(S), q # << >>
    PROVE  IdsOf(q) = IdsOf(Tail(q)) \cup {Head(q).id}
  BY TailMembers, MemberIds

(* ... and after a send.                                                     *)
\* Every send of the pipeline.
LEMMA AppendIds ==
    ASSUME NEW S, NEW q \in Seq(S), NEW e \in S
    PROVE  IdsOf(Append(q, e)) = IdsOf(q) \cup {e.id}
  BY AppendMembers, MemberIds

(* The pane's three queues stay in wire order when the front of the mailbox  *)
(* moves to the writer's queue or is dropped.                                *)
\* service_encoded_input, the drop of the mailbox.
LEMMA MailboxChain ==
    ASSUME NEW p \in Seq(Landing), NEW w \in Seq(Request), NEW m \in Seq(Request), m # << >>,
           Chain(p, w, m)
    PROVE  /\ Chain(p, Append(w, Head(m)), Tail(m)) /\ Chain(p, w, Tail(m))
           /\ Head(m).id \notin IdsOf(p) \cup IdsOf(w) \cup IdsOf(Tail(m))
<1>1. Head(m) \in Request /\ Tail(m) \in Seq(Request) /\ IdsOf(m) = IdsOf(Tail(m)) \cup {Head(m).id}
  BY TailMembers, TailIds
<1>2. Ascending(Tail(m)) /\ \A x \in IdsOf(Tail(m)) : Head(m).id < x
  BY TailAscends DEF Chain
<1>3. \A x \in IdsOf(w) : x < Head(m).id
  BY <1>1 DEF Chain, Before
<1>4. \A x \in IdsOf(p) : x < Head(m).id
  BY <1>1 DEF Chain, Before
<1>5. Ascending(Append(w, Head(m))) /\ IdsOf(Append(w, Head(m))) = IdsOf(w) \cup {Head(m).id}
  BY <1>1, <1>3, AppendAscends, AppendIds DEF Chain
<1>6. Chain(p, w, Tail(m))
  BY <1>1, <1>2 DEF Chain, Before
<1>7. Chain(p, Append(w, Head(m)), Tail(m))
  BY <1>1, <1>2, <1>4, <1>5 DEF Chain, Before
<1>8. Head(m).id \in Nat
  BY <1>1 DEF Request
<1> QED
  BY <1>2, <1>3, <1>4, <1>6, <1>7, <1>8

(* ... when the front of the writer's queue lands in the PTY or is dropped.  *)
\* service_write_request, the drop of the writer's queue.
LEMMA WriterChain ==
    ASSUME NEW p \in Seq(Landing), NEW w \in Seq(Request), NEW m \in Seq(Request), w # << >>,
           Chain(p, w, m), NEW e \in Landing, e.id = Head(w).id
    PROVE  /\ Chain(Append(p, e), Tail(w), m) /\ Chain(p, Tail(w), m)
           /\ Head(w).id \notin IdsOf(p) \cup IdsOf(Tail(w)) \cup IdsOf(m)
<1>1. Head(w) \in Request /\ Tail(w) \in Seq(Request) /\ IdsOf(w) = IdsOf(Tail(w)) \cup {Head(w).id}
  BY TailMembers, TailIds
<1>2. Ascending(Tail(w)) /\ \A x \in IdsOf(Tail(w)) : Head(w).id < x
  BY TailAscends DEF Chain
<1>3. \A x \in IdsOf(m) : Head(w).id < x
  BY <1>1 DEF Chain, Before
<1>4. \A x \in IdsOf(p) : x < Head(w).id
  BY <1>1 DEF Chain, Before
<1>5. Ascending(Append(p, e)) /\ IdsOf(Append(p, e)) = IdsOf(p) \cup {Head(w).id}
  BY <1>1, <1>4, AppendAscends, AppendIds DEF Chain
<1>6. Chain(p, Tail(w), m)
  BY <1>1, <1>2 DEF Chain, Before
<1>7. Chain(Append(p, e), Tail(w), m)
  BY <1>1, <1>2, <1>3, <1>5, <1>6 DEF Chain, Before
<1>8. Head(w).id \in Nat
  BY <1>1 DEF Request
<1> QED
  BY <1>2, <1>3, <1>4, <1>6, <1>7, <1>8

(* ... and when a request with a later id enters the mailbox.                *)
\* The lane's try_send into the pane's mailbox.
LEMMA HandoffChain ==
    ASSUME NEW p \in Seq(Landing), NEW w \in Seq(Request), NEW m \in Seq(Request), NEW e \in Request,
           Chain(p, w, m), \A x \in IdsOf(p) \cup IdsOf(w) \cup IdsOf(m) : x < e.id
    PROVE  Chain(p, w, Append(m, e))
<1>1. Ascending(Append(m, e)) /\ IdsOf(Append(m, e)) = IdsOf(m) \cup {e.id}
  BY AppendAscends, AppendIds DEF Chain
<1> QED
  BY <1>1 DEF Chain, Before

-----------------------------------------------------------------------------
(* What a step may do to the order.                                          *)

\* The history is kept; a frame that arrives is the last one.
HistoryKept ==
    /\ Ids \subseteq Ids'
    /\ \A x \in Ids :
          /\ attempts'[x].kind = attempts[x].kind /\ attempts'[x].to = attempts[x].to
          /\ attempts'[x].op = attempts[x].op /\ attempts'[x].payload = attempts[x].payload
          /\ attempts'[x].admitted = attempts[x].admitted
    /\ \A x \in Ids' : x \notin Ids =>
          attempts'[x].bound = -1 /\ attempts'[x].admitted = now /\ \A y \in Ids : y < x
    /\ now =< now'

\* Only the batch the thread takes up is bound to a record.
BoundsKept ==
    \A x \in Ids : \/ attempts'[x].bound = attempts[x].bound
                   \/ lanePc' # "Recv" /\ item' = x /\ attempts'[x].bound # -1 /\ attempts[x].kind = "Apply"

LaneMoves ==
    /\ \A y \in Members(lane') : y \in Members(lane) \/ (y \in Ids' /\ y \notin Ids)
    /\ \A i, j \in 1..Len(lane') : i < j => lane'[i] < lane'[j]

\* The thread goes on with its item, or takes up the front of the lane.
ThreadMoves ==
    lanePc' # "Recv" =>
        \/ lanePc # "Recv" /\ item' = item
        \/ /\ item' \in Members(lane) /\ \A y \in Members(lane') : item' < y
           /\ attempts[item'].kind = "Apply" => attempts'[item'].bound # -1

\* Nothing enters a pane but what the thread hands over.
PaneMoves ==
    \A r \in Resources :
        /\ Chain(pty'[r], writerq'[r], mailbox'[r])
        /\ \A x \in InPane(r)' :
              \/ x \in InPane(r)
              \/ lanePc # "Recv" /\ lanePc' = "Recv" /\ x = item /\ attempts[x].to = r

(* Steps of this shape keep the order of the pipeline.                       *)
\* RoutedInput's one lane, its one thread and the FIFO queues behind it.
LEMMA OrderStep ==
    ASSUME Inv, Inv', OrderOK, HistoryKept, BoundsKept, LaneMoves, ThreadMoves, PaneMoves
    PROVE  OrderOK'
<1>1. /\ lane \in Seq(Nat) /\ lane' \in Seq(Nat) /\ item \in Nat /\ item' \in Nat
      /\ Ids \subseteq Nat /\ Ids' \subseteq Nat /\ now \in Nat /\ now' \in Nat
      /\ \A x \in Ids : attempts[x].admitted \in Nat
  <2>1. attempts \in Seq(Attempt) /\ attempts' \in Seq(Attempt)
    BY DEF Inv, TypeOK
  <2> QED
    BY <2>1, AttemptTyped DEF Inv, TypeOK, Ids
<1>2. Members(lane) \subseteq Ids /\ Members(lane') \subseteq Ids'
  BY DEF Inv, OneAnswerOneSlot, LaneOK, Members
<1>3. lanePc # "Recv" => item \in Ids
  BY DEF Inv, OneAnswerOneSlot, ThreadOK
<1>4. \A x \in Ids, y \in Members(lane') : (\A z \in Members(lane) : x < z) => x < y
  BY DEF LaneMoves, HistoryKept
<1>5. \A x \in Ids : IsApply(x)' <=> IsApply(x)
  BY DEF HistoryKept, IsApply
<1>6. \A x \in Ids : Bound(x) => Bound(x)'
  BY DEF BoundsKept, Bound
<1>7. PaneOrderOK'
  <2>1. SUFFICES ASSUME NEW r \in Resources, NEW x \in InPane(r)'
                 PROVE  /\ x \in Ids' /\ attempts'[x].to = r /\ (IsApply(x)' => Bound(x)')
                        /\ lanePc' # "Recv" => x < item'
                        /\ \A y \in Members(lane') : x < y
    BY DEF PaneOrderOK, PaneMoves
  <2>2. CASE x \in InPane(r)
    <3>1. /\ x \in Ids /\ attempts[x].to = r /\ (IsApply(x) => Bound(x))
          /\ lanePc # "Recv" => x < item
          /\ \A y \in Members(lane) : x < y
      BY <2>2 DEF OrderOK, PaneOrderOK
    <3>2. x \in Ids' /\ attempts'[x].to = r /\ (IsApply(x)' => Bound(x)')
      BY <3>1, <1>5, <1>6 DEF HistoryKept
    <3>3. \A y \in Members(lane') : x < y
      BY <3>1, <1>4
    <3>4. lanePc' # "Recv" => x < item'
      BY <3>1 DEF ThreadMoves
    <3> QED
      BY <3>2, <3>3, <3>4
  <2>3. CASE lanePc # "Recv" /\ lanePc' = "Recv" /\ x = item /\ attempts[x].to = r
    <3>1. x \in Ids /\ (IsApply(x) => Bound(x)) /\ \A y \in Members(lane) : x < y
      BY <2>3, <1>3 DEF OrderOK, LaneOrderOK
    <3>2. x \in Ids' /\ attempts'[x].to = r /\ (IsApply(x)' => Bound(x)')
      BY <3>1, <2>3, <1>5, <1>6 DEF HistoryKept
    <3>3. \A y \in Members(lane') : x < y
      BY <3>1, <1>4
    <3> QED
      BY <3>2, <3>3, <2>3
  <2> QED
    BY <2>1, <2>2, <2>3 DEF PaneMoves
<1>8. LaneOrderOK'
  <2>1. \A i, j \in 1..Len(lane') : i < j => lane'[i] < lane'[j]
    BY DEF LaneMoves
  <2>2. ASSUME lanePc' # "Recv"
        PROVE  (\A y \in Members(lane') : item' < y) /\ (IsApply(item)' => Bound(item)')
    <3>1. CASE lanePc # "Recv" /\ item' = item
      <4>1. item \in Ids /\ (\A y \in Members(lane) : item < y) /\ (IsApply(item) => Bound(item))
        BY <3>1, <1>3 DEF OrderOK, LaneOrderOK
      <4>2. IsApply(item)' => Bound(item)'
        <5>1. attempts'[item].kind = "Apply" => attempts'[item].bound # -1
          BY <4>1, <1>5, <1>6 DEF IsApply, Bound
        <5> QED
          BY <5>1, <3>1 DEF IsApply, Bound
      <4> QED
        BY <4>1, <4>2, <1>4, <3>1
    <3>2. CASE /\ item' \in Members(lane) /\ \A y \in Members(lane') : item' < y
               /\ attempts[item'].kind = "Apply" => attempts'[item'].bound # -1
      <4>1. item' \in Ids
        BY <3>2, <1>2
      <4>2. attempts'[item'].kind = attempts[item'].kind
        BY <4>1 DEF HistoryKept
      <4> QED
        BY <3>2, <4>2 DEF IsApply, Bound
    <3> QED
      BY <2>2, <3>1, <3>2 DEF ThreadMoves
  <2>3. ASSUME NEW x \in Ids', Bound(x)'
        PROVE  IsApply(x)' /\ \A y \in Members(lane') : x < y
    <3>1. x \in Ids
      BY <2>3 DEF HistoryKept, Bound
    <3>2. CASE attempts'[x].bound = attempts[x].bound
      <4>1. Bound(x)
        BY <3>2, <2>3 DEF Bound
      <4>2. IsApply(x) /\ \A y \in Members(lane) : x < y
        BY <4>1, <3>1 DEF OrderOK, LaneOrderOK
      <4> QED
        BY <4>2, <3>1, <1>4, <1>5
    <3>3. CASE lanePc' # "Recv" /\ item' = x /\ attempts'[x].bound # -1 /\ attempts[x].kind = "Apply"
      BY <3>1, <3>3, <2>2, <1>5 DEF IsApply
    <3> QED
      BY <3>1, <3>2, <3>3 DEF BoundsKept
  <2> QED
    BY <2>1, <2>2, <2>3 DEF LaneOrderOK
<1>9. ClockOK'
  <2>1. ASSUME NEW x \in Ids'
        PROVE  attempts'[x].admitted =< now' /\ (x \notin Ids => attempts'[x].admitted = now)
    BY <1>1 DEF OrderOK, ClockOK, HistoryKept
  <2>2. ASSUME NEW x \in Ids', NEW y \in Ids', x < y
        PROVE  attempts'[x].admitted =< attempts'[y].admitted
    <3>1. CASE x \in Ids /\ y \in Ids
      BY <3>1, <2>2 DEF OrderOK, ClockOK, HistoryKept
    <3>2. CASE x \in Ids /\ y \notin Ids
      <4>1. attempts[x].admitted =< now
        BY <3>2 DEF OrderOK, ClockOK
      <4> QED
        BY <4>1, <3>2, <2>1 DEF HistoryKept
    <3>3. CASE x \notin Ids /\ y \notin Ids
      BY <3>3, <2>1, <1>1
    <3>4. CASE x \notin Ids /\ y \in Ids
      <4>1. y < x
        BY <3>4 DEF HistoryKept
      <4> QED
        BY <4>1, <2>2, <1>1
    <3> QED
      BY <3>1, <3>2, <3>3, <3>4
  <2> QED
    BY <2>1, <2>2 DEF ClockOK
<1> QED
  BY <1>7, <1>8, <1>9 DEF OrderOK

(* A batch is handed to a pane when its id is in one of the pane's queues or *)
(* in its PTY.                                                               *)
\* The mailbox, the writer's queue and the PTY.
LEMMA HandedInPane ==
    ASSUME NEW x
    PROVE  /\ Handed(x) <=> \E r \in Resources : x \in InPane(r)
           /\ Handed(x)' <=> \E r \in Resources : x \in InPane(r)'
<1>1. Handed(x) <=> \E r \in Resources : x \in InPane(r)
  BY DEF Handed, Underway, Landed, InPane, IdsOf
<1>2. Handed(x)' <=> \E r \in Resources : x \in InPane(r)'
  BY DEF Handed, Underway, Landed, InPane, IdsOf
<1> QED
  BY <1>1, <1>2

-----------------------------------------------------------------------------
(* What a step may do to the reports.                                        *)

(* Sinks and waiting batches name attempts.                                  *)
\* WriteCompletionSink, PendingCompletion.
LEMMA SinkTyped ==
    ASSUME Inv, OrderOK
    PROVE  /\ \A e \in Sinks : e \in Request /\ e.id \in Ids
           /\ \A e \in Awaits : e \in Request /\ e.id \in Ids /\ IsApply(e.id) /\ ~InLane(e.id)
           /\ \A x : OnHand(x) => [id |-> x, ticket |-> ticket] \in Sinks /\ x \in Ids
           /\ \A f \in closing : f.id \in Ids /\ IsApply(f.id) /\ ~InLane(f.id)
<1>1. \A r \in Resources : mailbox[r] \in Seq(Request) /\ writerq[r] \in Seq(Request)
  BY DEF Inv, TypeOK
<1>2. \A r \in Resources : \A e \in Members(mailbox[r]) \cup Members(writerq[r]) : e \in Request /\ e.id \in Ids
  <2>1. SUFFICES ASSUME NEW r \in Resources, NEW e \in Members(mailbox[r]) \cup Members(writerq[r])
                 PROVE  e \in Request /\ e.id \in Ids
    OBVIOUS
  <2>2. e \in Request
    BY <1>1 DEF Members
  <2>3. e.id \in InPane(r)
    BY DEF InPane, IdsOf, Members
  <2> QED
    BY <2>2, <2>3 DEF OrderOK, PaneOrderOK
<1>3. item \in Nat /\ ticket \in Nat /\ (lanePc # "Recv" => item \in Ids)
  BY DEF Inv, TypeOK, OneAnswerOneSlot, ThreadOK
<1>4. [id |-> item, ticket |-> ticket] \in Request
  BY <1>3 DEF Request
<1>5. \A e \in Sinks : e \in Request /\ e.id \in Ids
  <2>1. SUFFICES ASSUME NEW e \in Sinks PROVE e \in Request /\ e.id \in Ids
    OBVIOUS
  <2>2. CASE e = [id |-> item, ticket |-> ticket] /\ OnHand(e.id)
    BY <2>2, <1>3, <1>4 DEF OnHand
  <2>3. CASE \E r \in Resources : e \in Members(mailbox[r]) \cup Members(writerq[r])
    BY <2>3, <1>2
  <2> QED
    BY <2>2, <2>3 DEF Sinks
<1>6. \A x : OnHand(x) => [id |-> x, ticket |-> ticket] \in Sinks /\ x \in Ids
  BY <1>3 DEF OnHand, Sinks
<1>7. \A e \in Awaits : e \in Request /\ e.id \in Ids /\ IsApply(e.id) /\ ~InLane(e.id)
  <2>1. SUFFICES ASSUME NEW e \in Awaits PROVE e \in Request /\ e.id \in Ids /\ IsApply(e.id) /\ ~InLane(e.id)
    OBVIOUS
  <2>2. CASE e \in pending
    BY <2>2 DEF Inv, TypeOK, OneAnswerOneSlot, PendingOK, ApplyWaiting
  <2>3. ASSUME NEW m \in Members(waitq), m.type = "Registered", e = [id |-> m.id, ticket |-> m.ticket]
        PROVE  e \in Request /\ e.id \in Ids /\ IsApply(e.id) /\ ~InLane(e.id)
    <3>1. waitq \in Seq(WaiterMessage)
      BY DEF Inv, TypeOK
    <3>2. PICK i \in 1..Len(waitq) : m = waitq[i]
      BY DEF Members
    <3>3. m \in WaiterMessage
      BY <3>1, <3>2
    <3>4. m.ticket \in Nat /\ m.id \in Nat
      BY <3>3, <2>3 DEF WaiterMessage
    <3>5. ApplyWaiting(m.id) /\ ~InLane(m.id)
      BY <3>2, <2>3 DEF Inv, OneAnswerOneSlot, AnnouncedOK
    <3> QED
      BY <3>4, <3>5, <2>3 DEF Request, ApplyWaiting
  <2> QED
    BY <2>2, <2>3 DEF Awaits
<1>8. \A f \in closing : f.id \in Ids /\ IsApply(f.id) /\ ~InLane(f.id)
  BY DEF Inv, OneAnswerOneSlot, ClosingOK, ApplyWaiting
<1> QED
  BY <1>5, <1>6, <1>7, <1>8

\* Sinks are passed on or dropped, a request for an unacknowledged event has
\* none; the waiter learns of the one in hand.
SinksKept ==
    /\ \A e \in Sinks' : e \in Sinks \/ (e.ticket = 0 /\ ~IsApply(e.id)')
    /\ \A e \in Awaits' : e \in Awaits \/ (e \in Sinks /\ OnHand(e.id))
    /\ ticket =< ticket'

\* A new report comes with the end of its sink, and is true.
ReportsTrue ==
    \A m \in Members(waitq') : m.type # "Registered" =>
        \/ m \in Members(waitq)
        \/ \E e \in Sinks :
              /\ e.ticket # 0 /\ m.ticket = e.ticket
              /\ m.type = "Abandoned" => m.result # "Ok"
              /\ \A d \in Sinks' : d.ticket # e.ticket
              /\ Refuses(m) => ~Handed(e.id)'
              /\ Delivers(m) => Whole(e.id)'

\* Only the batch in hand is handed over, and what is written stays written.
HandsKept ==
    /\ \A x \in Ids : IsApply(x) /\ Handed(x)' => May(x)
    /\ \A x \in Ids : OnHand(x)' => OnHand(x)
    /\ \A x : Whole(x) => Whole(x)'

ClosingKept ==
    \A f \in closing' : \E g \in closing :
        f.id = g.id /\ f.result = g.result /\ (f.how = "Resolve" <=> g.how = "Resolve")

(* Steps of this shape keep every report and every verdict true.             *)
\* WriteCompletionSink and the ticket match of run_waiter.
LEMMA FatesStep ==
    ASSUME Inv, Inv', OrderOK, OrderOK', FatesOK, HistoryKept,
           SinksKept, ReportsTrue, HandsKept, ClosingKept
    PROVE  FatesOK'
<1>1. /\ \A e \in Sinks : e \in Request /\ e.id \in Ids
      /\ \A e \in Awaits : e \in Request /\ e.id \in Ids /\ IsApply(e.id)
      /\ \A x : OnHand(x) => [id |-> x, ticket |-> ticket] \in Sinks
      /\ \A f \in closing : f.id \in Ids /\ IsApply(f.id)
  BY SinkTyped
<1>2. \A x \in Ids : IsApply(x)' <=> IsApply(x)
  BY DEF HistoryKept, IsApply
<1>3. ticket \in Nat /\ ticket' \in Nat /\ \A e \in Request : e.ticket \in Nat
  BY DEF Inv, TypeOK, Request
<1>4. /\ \A e \in Sinks : e.ticket = 0 <=> ~IsApply(e.id)
      /\ \A e \in Awaits : e.ticket # 0
      /\ \A e \in Sinks \cup Awaits : e.ticket =< ticket
      /\ \A d, e \in Sinks \cup Awaits :
            d.ticket # 0 /\ e.ticket # 0 => (d.ticket = e.ticket <=> d.id = e.id)
  BY DEF FatesOK, TicketsOK
<1>5. \A e \in Awaits' : e \in Sinks \cup Awaits /\ e.ticket # 0
  BY <1>4 DEF SinksKept, OnHand
<1>6. TicketsOK'
  <2>1. \A e \in Sinks' : e.ticket = 0 <=> ~IsApply(e.id)'
    BY <1>1, <1>2, <1>4 DEF SinksKept
  <2>2. \A e \in Sinks' \cup Awaits' : e \in Sinks \cup Awaits \/ e.ticket = 0
    BY <1>5 DEF SinksKept
  <2>3. \A e \in Sinks' \cup Awaits' : e.ticket =< ticket'
    BY <2>2, <1>1, <1>3, <1>4 DEF SinksKept
  <2> QED
    BY <2>1, <2>2, <2>3, <1>4, <1>5 DEF TicketsOK
<1>7. ASSUME NEW x \in Ids, IsApply(x), Handed(x)', ~Handed(x)
      PROVE  \E e \in Sinks : e.id = x /\ e.ticket # 0
  <2>1. OnHand(x)
    BY <1>7 DEF HandsKept, May
  <2>2. [id |-> x, ticket |-> ticket] \in Sinks
    BY <2>1, <1>1
  <2> QED
    BY <2>2, <1>4, <1>7
<1>8. ReportsOK'
  <2>1. SUFFICES ASSUME NEW m \in Members(waitq'), m.type # "Registered"
                 PROVE  /\ m.ticket \in 1..ticket'
                        /\ m.type = "Abandoned" => m.result # "Ok"
                        /\ \A e \in Sinks' : e.ticket # m.ticket
                        /\ \A e \in Awaits' : e.ticket = m.ticket =>
                              /\ Refuses(m) => ~Handed(e.id)'
                              /\ Delivers(m) => Whole(e.id)'
    BY DEF ReportsOK, Refuses, Delivers
  <2>2. CASE m \in Members(waitq)
    <3>1. /\ m.ticket \in 1..ticket
          /\ m.type = "Abandoned" => m.result # "Ok"
          /\ \A e \in Sinks : e.ticket # m.ticket
          /\ \A e \in Awaits : e.ticket = m.ticket =>
                (Refuses(m) => ~Handed(e.id)) /\ (Delivers(m) => Whole(e.id))
      BY <2>1, <2>2 DEF FatesOK, ReportsOK
    <3>2. m.ticket \in 1..ticket'
      BY <3>1, <1>3 DEF SinksKept
    <3>3. \A e \in Sinks' : e.ticket # m.ticket
      BY <3>1, <1>3 DEF SinksKept
    <3>4. ASSUME NEW e \in Awaits', e.ticket = m.ticket
          PROVE  (Refuses(m) => ~Handed(e.id)') /\ (Delivers(m) => Whole(e.id)')
      <4>1. e \in Awaits
        BY <3>1, <3>4 DEF SinksKept
      <4>2. Delivers(m) => Whole(e.id)'
        BY <4>1, <3>1, <3>4 DEF HandsKept
      <4>3. ASSUME Refuses(m), Handed(e.id)' PROVE FALSE
        <5>1. ~Handed(e.id) /\ e.id \in Ids /\ IsApply(e.id)
          BY <4>1, <4>3, <3>1, <3>4, <1>1
        <5>2. PICK s \in Sinks : s.id = e.id /\ s.ticket # 0
          BY <5>1, <4>3, <1>7
        <5>3. s.ticket = e.ticket
          BY <5>2, <4>1, <1>4
        <5> QED
          BY <5>2, <5>3, <3>1, <3>4
      <4> QED
        BY <4>2, <4>3
    <3> QED
      BY <3>1, <3>2, <3>3, <3>4
  <2>3. CASE m \notin Members(waitq)
    <3>1. PICK s \in Sinks :
              /\ s.ticket # 0 /\ m.ticket = s.ticket
              /\ m.type = "Abandoned" => m.result # "Ok"
              /\ \A d \in Sinks' : d.ticket # s.ticket
              /\ Refuses(m) => ~Handed(s.id)'
              /\ Delivers(m) => Whole(s.id)'
      BY <2>1, <2>3 DEF ReportsTrue
    <3>2. m.ticket \in 1..ticket'
      <4>1. s.ticket \in Nat /\ s.ticket =< ticket
        BY <1>1, <1>3, <1>4
      <4> QED
        BY <4>1, <3>1, <1>3 DEF SinksKept
    <3>3. ASSUME NEW e \in Awaits', e.ticket = m.ticket PROVE e.id = s.id
      BY <3>1, <3>3, <1>4, <1>5
    <3> QED
      BY <3>1, <3>2, <3>3
  <2> QED
    BY <2>2, <2>3
<1>9. VerdictsOK'
  <2>1. SUFFICES ASSUME NEW f \in closing'
                 PROVE  /\ f.how = "Resolve" \/ f.result \notin {"Ok", "InputDeliveryUnknown"} => ~May(f.id)'
                        /\ f.result = "Ok" => f.how # "Resolve" /\ Whole(f.id)'
    BY DEF VerdictsOK
  <2>2. PICK g \in closing :
          f.id = g.id /\ f.result = g.result /\ (f.how = "Resolve" <=> g.how = "Resolve")
    BY DEF ClosingKept
  <2>3. /\ g.how = "Resolve" \/ g.result \notin {"Ok", "InputDeliveryUnknown"} => ~May(g.id)
        /\ g.result = "Ok" => g.how # "Resolve" /\ Whole(g.id)
    BY DEF FatesOK, VerdictsOK
  <2>4. May(g.id)' => May(g.id)
    <3>1. g.id \in Ids /\ IsApply(g.id)
      BY <1>1
    <3> QED
      BY <3>1 DEF HandsKept, May
  <2>5. May(f.id)' => May(g.id)
    BY <2>2, <2>4 DEF May, Handed, Underway, Landed, OnHand, IsApply
  <2>6. Whole(g.id) => Whole(f.id)'
    BY <2>2 DEF HandsKept, Whole
  <2> QED
    BY <2>2, <2>3, <2>5, <2>6
<1> QED
  BY <1>6, <1>8, <1>9 DEF FatesOK

-----------------------------------------------------------------------------
(* What a step that leaves the dedupe record alone may do to the batches.    *)

\* No batch comes nearer to its pane or waits again; one that is answered and
\* may be in the pane has left its result in the record, if that is kept.
RecordsLeft ==
    /\ UNCHANGED <<entries, expiry>>
    /\ \A x \in Ids : attempts'[x].bound = attempts[x].bound
    /\ \A x \in Ids : ApplyWaiting(x)' => ApplyWaiting(x)
    /\ \A x \in Ids : IsApply(x) /\ May(x)' => May(x)
    /\ \A x \in Ids :
          Bound(x) /\ Kept(x) /\ May(x)' /\ ApplyWaiting(x) /\ ~ApplyWaiting(x)' =>
             entries[OpOf(x)].result # "None"
    /\ \A f \in closing' : f.how = "Recorded" => f \in closing

(* Steps of this shape keep what the records say.                            *)
\* OperationCache is touched only by the lane thread and the waiter.
LEMMA RecordsStep ==
    ASSUME Inv, Inv', OrderOK, OrderOK', RecordsOK, HistoryKept, LaneMoves, RecordsLeft
    PROVE  RecordsOK'
<1>1. \A x \in Ids : OpOf(x)' = OpOf(x) /\ (Bound(x)' <=> Bound(x)) /\ (Kept(x)' <=> Kept(x))
  BY DEF HistoryKept, RecordsLeft, OpOf, Bound, Kept
<1>2. \A x \in Ids' : Bound(x)' => x \in Ids /\ Bound(x) /\ IsApply(x)
  <2>1. ASSUME NEW x \in Ids', Bound(x)' PROVE x \in Ids
    BY <2>1 DEF HistoryKept, Bound
  <2>2. \A x \in Ids : Bound(x) => IsApply(x)
    BY DEF OrderOK, LaneOrderOK
  <2> QED
    BY <2>1, <2>2, <1>1
<1>3. \A x \in Ids : OperationDigest(attempts'[x]) = OperationDigest(attempts[x])
  BY DEF OperationDigest, HistoryKept
<1>4. /\ now \in Nat /\ now' \in Nat /\ Retention \in Nat
      /\ \A x \in Ids : attempts[x].admitted \in Nat /\ attempts[x].bound \in Int
      /\ \A x \in Ids' : attempts'[x].admitted \in Nat /\ attempts'[x].bound \in Int
  <2>1. attempts \in Seq(Attempt) /\ attempts' \in Seq(Attempt)
    BY DEF Inv, TypeOK
  <2> QED
    BY <2>1, AttemptTyped, CacheAssumption DEF Inv, TypeOK, Ids
<1>5. Members(lane) \subseteq Ids
  BY DEF Inv, OneAnswerOneSlot, LaneOK, Members
<1>6. BoundOK'
  <2>1. SUFFICES ASSUME NEW x \in Ids', Bound(x)'
                 PROVE  /\ attempts'[x].bound \in Nat
                        /\ Kept(x)' => entries'[OpOf(x)'].digest = OperationDigest(attempts'[x])
                        /\ ~Kept(x)' => /\ Past(x, now)'
                                        /\ \A y \in Members(lane') : Past(x, attempts[y].admitted)'
    BY DEF BoundOK
  <2>2. /\ x \in Ids /\ Bound(x)
        /\ attempts[x].bound \in Nat
        /\ Kept(x) => entries[OpOf(x)].digest = OperationDigest(attempts[x])
        /\ ~Kept(x) => /\ Past(x, now)
                       /\ \A y \in Members(lane) : Past(x, attempts[y].admitted)
    BY <2>1, <1>2 DEF RecordsOK, BoundOK
  <2>3. attempts'[x].bound = attempts[x].bound
    BY <2>2 DEF RecordsLeft
  <2>4. Kept(x)' => entries'[OpOf(x)'].digest = OperationDigest(attempts'[x])
    BY <2>2, <1>1, <1>3 DEF RecordsLeft
  <2>5. ASSUME ~Kept(x)'
        PROVE  Past(x, now)' /\ \A y \in Members(lane') : Past(x, attempts[y].admitted)'
    <3>1. attempts[x].bound + Retention =< now
      BY <2>2, <2>5, <1>1 DEF Past
    <3>2. Past(x, now)'
      BY <3>1, <2>2, <2>3, <1>4 DEF Past, HistoryKept
    <3>3. ASSUME NEW y \in Members(lane') PROVE attempts[x].bound + Retention =< attempts'[y].admitted
      <4>1. CASE y \in Members(lane)
        <5>1. attempts[x].bound + Retention =< attempts[y].admitted
          BY <4>1, <2>2, <2>5, <1>1 DEF Past
        <5> QED
          BY <5>1, <4>1, <1>5 DEF HistoryKept
      <4>2. CASE y \in Ids' /\ y \notin Ids
        BY <4>2, <3>1 DEF HistoryKept
      <4> QED
        BY <4>1, <4>2 DEF LaneMoves
    <3> QED
      BY <3>2, <3>3, <2>3 DEF Past
  <2> QED
    BY <2>2, <2>3, <2>4, <2>5
<1>7. ResultKept'
  <2>1. ASSUME NEW x \in Ids', Bound(x)', Kept(x)', May(x)', ~ApplyWaiting(x)'
        PROVE  entries'[OpOf(x)'].result # "None"
    <3>1. x \in Ids /\ Bound(x) /\ Kept(x) /\ May(x)
      BY <2>1, <1>1, <1>2 DEF RecordsLeft
    <3>2. entries[OpOf(x)].result # "None"
      BY <3>1, <2>1 DEF RecordsLeft, RecordsOK, ResultKept
    <3> QED
      BY <3>1, <3>2, <1>1 DEF RecordsLeft
  <2>2. ASSUME NEW f \in closing', f.how = "Recorded", Bound(f.id)', Kept(f.id)'
        PROVE  entries'[OpOf(f.id)'].result # "None"
    <3>1. f \in closing
      BY <2>2 DEF RecordsLeft
    <3>2. f.id \in Ids
      BY <3>1, SinkTyped
    <3>3. entries[OpOf(f.id)].result # "None"
      BY <3>1, <3>2, <2>2, <1>1 DEF RecordsOK, ResultKept
    <3> QED
      BY <3>2, <3>3, <1>1 DEF RecordsLeft
  <2> QED
    BY <2>1, <2>2 DEF ResultKept
<1>8. OneCopy'
  <2>1. \A x, y \in Ids : SameRecord(x, y)' <=> SameRecord(x, y)
    BY <1>1 DEF SameRecord, RecordsLeft
  <2>2. ASSUME NEW x \in Ids', NEW y \in Ids', Bound(x)', Bound(y)', SameRecord(x, y)', May(x)',
               May(y)' \/ ApplyWaiting(y)'
        PROVE  x = y
    <3>1. x \in Ids /\ y \in Ids /\ Bound(x) /\ Bound(y) /\ SameRecord(x, y) /\ IsApply(x) /\ IsApply(y)
      BY <2>1, <2>2, <1>2
    <3>2. May(x) /\ (May(y) \/ ApplyWaiting(y))
      BY <3>1, <2>2 DEF RecordsLeft
    <3> QED
      BY <3>1, <3>2 DEF RecordsOK, OneCopy
  <2>3. ASSUME NEW x \in Ids', NEW y \in Ids', Bound(x)', Bound(y)', x < y, OpOf(x)' = OpOf(y)',
               ~SameRecord(x, y)'
        PROVE  Past(x, attempts[y].admitted)'
    <3>1. x \in Ids /\ y \in Ids /\ Bound(x) /\ Bound(y) /\ ~SameRecord(x, y) /\ OpOf(x) = OpOf(y)
      BY <2>1, <2>3, <1>1, <1>2
    <3>2. Past(x, attempts[y].admitted)
      BY <3>1, <2>3 DEF RecordsOK, OneCopy
    <3> QED
      BY <3>1, <3>2 DEF Past, HistoryKept, RecordsLeft
  <2> QED
    BY <2>2, <2>3 DEF OneCopy
<1> QED
  BY <1>6, <1>7, <1>8 DEF RecordsOK

-----------------------------------------------------------------------------
(* Pane actors and PTY writers.                                              *)

PaneSinks(r) == Members(mailbox[r]) \cup Members(writerq[r])

(* A step that only moves requests inside the panes, or drops them, and      *)
(* reports it, keeps the invariant.                                          *)
\* resource/terminal/{io,spawn,run_loop}.rs against the lane and the waiter.
LEMMA QuietStep ==
    ASSUME Inv, Inv', HandedInv,
           UNCHANGED <<attempts, lane, lanePc, item, ticket, pending, closing, entries, expiry>>,
           now =< now',
           \A r \in Resources : Chain(pty'[r], writerq'[r], mailbox'[r]) /\ InPane(r)' \subseteq InPane(r),
           Sinks' \subseteq Sinks, Awaits' \subseteq Awaits, ReportsTrue,
           \A x : Whole(x) => Whole(x)'
    PROVE  HandedInv'
<1>1. OrderOK /\ FatesOK /\ RecordsOK
  BY DEF HandedInv
<1>2. HistoryKept /\ BoundsKept
  BY DEF HistoryKept, BoundsKept, Ids
<1>3. LaneMoves /\ ThreadMoves
  BY <1>1 DEF LaneMoves, ThreadMoves, OrderOK, LaneOrderOK
<1>4. PaneMoves
  BY DEF PaneMoves
<1>5. OrderOK'
  BY <1>1, <1>2, <1>3, <1>4, OrderStep
<1>6. SinksKept /\ ClosingKept
  BY DEF SinksKept, ClosingKept, Inv, TypeOK
<1>7. \A x : Handed(x)' => Handed(x)
  BY HandedInPane
<1>8. \A x : OnHand(x)' <=> OnHand(x)
  BY DEF OnHand, IsApply
<1>9. HandsKept
  BY <1>7, <1>8 DEF HandsKept, May
<1>10. FatesOK'
  BY <1>1, <1>2, <1>5, <1>6, <1>9, FatesStep
<1>11. \A x : ApplyWaiting(x)' <=> ApplyWaiting(x)
  BY DEF ApplyWaiting, Ids, IsApply
<1>12. RecordsLeft
  BY <1>7, <1>8, <1>11 DEF RecordsLeft, May
<1>13. RecordsOK'
  BY <1>1, <1>2, <1>3, <1>5, <1>12, RecordsStep
<1> QED
  BY <1>5, <1>10, <1>13 DEF HandedInv

(* What one pane does with the request h keeps the invariant, if the report  *)
(* it makes, if any, is the request's last trace but for what it says.       *)
\* service_encoded_input, service_write_request, WriteCompletionSink::drop.
LEMMA PaneMovesRequest ==
    ASSUME Inv, Inv', HandedInv, NEW r \in Resources, NEW h \in PaneSinks(r), NEW o \in WriteOutcomes,
           UNCHANGED <<now, attempts, lane, lanePc, item, ticket, pending, closing, entries, expiry>>,
           \A q \in Resources : q # r => pty'[q] = pty[q] /\ writerq'[q] = writerq[q] /\ mailbox'[q] = mailbox[q],
           Chain(pty'[r], writerq'[r], mailbox'[r]),
           InPane(r)' \subseteq InPane(r),
           PaneSinks(r)' \subseteq PaneSinks(r),
           Members(pty[r]) \subseteq Members(pty'[r]),
           \/ waitq' = waitq
           \/ /\ Report(h, o)
              /\ h.id \notin IdsOf(mailbox'[r]) \cup IdsOf(writerq'[r])
              /\ o \in {"NotWritten", "CanonicalLimitExceeded"} => h.id \notin IdsOf(pty'[r])
              /\ o = "Delivered" => [id |-> h.id, whole |-> TRUE] \in Members(pty'[r])
    PROVE  HandedInv'
<1>1. OrderOK /\ TicketsOK /\ ReportsOK
  BY DEF HandedInv, FatesOK
<1>2. \A x : Whole(x) => Whole(x)'
  BY DEF Whole
<1>3. \A q \in Resources : /\ Chain(pty'[q], writerq'[q], mailbox'[q])
                           /\ InPane(q)' \subseteq InPane(q)
                           /\ PaneSinks(q)' \subseteq PaneSinks(q)
  BY <1>1 DEF OrderOK, PaneOrderOK, InPane, PaneSinks
<1>4. /\ Sinks = {e \in {[id |-> item, ticket |-> ticket]} : OnHand(e.id)} \cup UNION {PaneSinks(q) : q \in Resources}
      /\ Sinks' = {e \in {[id |-> item, ticket |-> ticket]} : OnHand(e.id)} \cup UNION {PaneSinks(q)' : q \in Resources}
  BY DEF Sinks, PaneSinks, OnHand, IsApply
<1>5. Sinks' \subseteq Sinks /\ h \in Sinks
  BY <1>3, <1>4
<1>6. h \in Request /\ waitq \in Seq(WaiterMessage)
  BY <1>1, <1>5, SinkTyped DEF Inv, TypeOK
<1>7. Completed(h.ticket, o) \in WaiterMessage /\ Completed(h.ticket, o).type = "Completed"
      /\ Completed(h.ticket, o).ticket = h.ticket /\ Completed(h.ticket, o).outcome = o
  BY <1>6 DEF Completed, WaiterMessage, Request
<1>8. \/ Members(waitq') = Members(waitq)
      \/ /\ h.ticket # 0 /\ Members(waitq') = Members(waitq) \cup {Completed(h.ticket, o)}
         /\ h.id \notin IdsOf(mailbox'[r]) \cup IdsOf(writerq'[r])
         /\ o \in {"NotWritten", "CanonicalLimitExceeded"} => h.id \notin IdsOf(pty'[r])
         /\ o = "Delivered" => [id |-> h.id, whole |-> TRUE] \in Members(pty'[r])
  <2>1. Members(Append(waitq, Completed(h.ticket, o))) = Members(waitq) \cup {Completed(h.ticket, o)}
    BY <1>6, <1>7, AppendMembers
  <2>2. Report(h, o) => waitq' = waitq \/ (h.ticket # 0 /\ waitq' = Append(waitq, Completed(h.ticket, o)))
    BY DEF Report
  <2> QED
    BY <2>1, <2>2
<1>9. Awaits' \subseteq Awaits
  BY <1>7, <1>8 DEF Awaits
<1>10. ReportsTrue
  <2>1. SUFFICES ASSUME NEW m \in Members(waitq'), m \notin Members(waitq)
                 PROVE  /\ h.ticket # 0 /\ m.ticket = h.ticket
                        /\ m.type = "Abandoned" => m.result # "Ok"
                        /\ \A d \in Sinks' : d.ticket # h.ticket
                        /\ Refuses(m) => ~Handed(h.id)'
                        /\ Delivers(m) => Whole(h.id)'
    BY <1>5 DEF ReportsTrue
  <2>2. /\ h.ticket # 0 /\ m = Completed(h.ticket, o)
        /\ h.id \notin IdsOf(mailbox'[r]) \cup IdsOf(writerq'[r])
        /\ o \in {"NotWritten", "CanonicalLimitExceeded"} => h.id \notin IdsOf(pty'[r])
        /\ o = "Delivered" => [id |-> h.id, whole |-> TRUE] \in Members(pty'[r])
    BY <1>8, <2>1
  <2>3. m.type = "Completed" /\ m.ticket = h.ticket /\ m.outcome = o
    BY <2>2, <1>7
  <2>4. h.id \in InPane(r) /\ h.id \in Ids /\ attempts[h.id].to = r /\ (lanePc # "Recv" => h.id < item)
    <3>1. h.id \in InPane(r)
      BY DEF InPane, PaneSinks, IdsOf, Members
    <3> QED
      BY <3>1, <1>1 DEF OrderOK, PaneOrderOK
  <2>5. \A q \in Resources : q # r => h.id \notin InPane(q)
    BY <2>4, <1>1 DEF OrderOK, PaneOrderOK
  <2>6. ASSUME NEW d \in Sinks', d.ticket = h.ticket PROVE FALSE
    <3>1. d \in Sinks /\ d.id = h.id
      BY <2>2, <2>6, <1>1, <1>5 DEF TicketsOK
    <3>2. CASE d \in {e \in {[id |-> item, ticket |-> ticket]} : OnHand(e.id)}
      <4>1. d.id = item /\ lanePc # "Recv"
        BY <3>2 DEF OnHand
      <4>2. item \in Nat
        BY DEF Inv, TypeOK
      <4> QED
        BY <4>1, <4>2, <3>1, <2>4
    <3>3. ASSUME NEW q \in Resources, d \in PaneSinks(q)' PROVE FALSE
      <4>1. d.id \in IdsOf(mailbox'[q]) \cup IdsOf(writerq'[q]) /\ d.id \in InPane(q)
        <5>1. d.id \in IdsOf(mailbox'[q]) \cup IdsOf(writerq'[q])
          BY <3>3 DEF PaneSinks, IdsOf, Members
        <5> QED
          BY <5>1, <1>3 DEF InPane
      <4> QED
        BY <4>1, <3>1, <2>2, <2>5
    <3> QED
      BY <2>6, <3>2, <3>3, <1>4
  <2>7. Refuses(m) => ~Handed(h.id)'
    <3>1. SUFFICES ASSUME Refuses(m), NEW q \in Resources, h.id \in InPane(q)' PROVE FALSE
      BY HandedInPane
    <3>2. q = r
      BY <3>1, <2>5, <1>3
    <3>3. o \in {"NotWritten", "CanonicalLimitExceeded"}
      BY <3>1, <2>3 DEF Refuses
    <3> QED
      BY <3>1, <3>2, <3>3, <2>2 DEF InPane
  <2>8. Delivers(m) => Whole(h.id)'
    BY <2>2, <2>3 DEF Delivers, Whole
  <2> QED
    BY <2>2, <2>3, <2>6, <2>7, <2>8
<1>11. now =< now'
  BY DEF Inv, TypeOK
<1> QED
  BY <1>2, <1>3, <1>5, <1>9, <1>10, <1>11, QuietStep

\* The lane, the waiter and the cache are left alone.
PaneOnly == UNCHANGED <<now, attempts, lane, lanePc, item, ticket, pending, closing, entries, expiry>>

(* The front of a pane's mailbox goes to the writer, or is dropped and       *)
(* reported.                                                                 *)
\* service_encoded_input; the drop of the mailbox with its actor.
LEMMA MailboxKeepsHanded ==
    ASSUME Inv, Inv', HandedInv, NEW r \in Resources, NEW o \in {"NotWritten", "Failed"}, PaneOnly,
           mailbox[r] # << >>, mailbox' = [mailbox EXCEPT ![r] = Tail(mailbox[r])], pty' = pty,
           \/ writerq' = [writerq EXCEPT ![r] = Append(writerq[r], Head(mailbox[r]))] /\ waitq' = waitq
           \/ writerq' = writerq /\ Report(Head(mailbox[r]), o)
    PROVE  HandedInv'
<1> DEFINE w == writerq[r]
           m == mailbox[r]
<1>1. /\ OrderOK
      /\ pty \in [Resources -> Seq(Landing)] /\ writerq \in [Resources -> Seq(Request)]
      /\ mailbox \in [Resources -> Seq(Request)]
      /\ pty[r] \in Seq(Landing) /\ w \in Seq(Request) /\ m \in Seq(Request)
  BY DEF HandedInv, Inv, TypeOK, Landing
<1>2. Chain(pty[r], w, m)
  BY <1>1 DEF OrderOK, PaneOrderOK
<1>3. /\ Chain(pty[r], Append(w, Head(m)), Tail(m)) /\ Chain(pty[r], w, Tail(m))
      /\ Head(m).id \notin IdsOf(pty[r]) \cup IdsOf(w) \cup IdsOf(Tail(m))
  BY <1>1, <1>2, MailboxChain
<1>4. /\ Head(m) \in Request /\ Head(m) \in Members(m) /\ Members(Tail(m)) \subseteq Members(m)
      /\ IdsOf(m) = IdsOf(Tail(m)) \cup {Head(m).id}
  BY <1>1, TailMembers, TailIds
<1>5. /\ Members(Append(w, Head(m))) = Members(w) \cup {Head(m)}
      /\ IdsOf(Append(w, Head(m))) = IdsOf(w) \cup {Head(m).id}
  BY <1>1, <1>4, AppendMembers, AppendIds
<1>6. PICK h : h = Head(m)
  OBVIOUS
<1>7. h \in PaneSinks(r) /\ o \in WriteOutcomes
  BY <1>4, <1>6 DEF PaneSinks, WriteOutcomes
<1>8. /\ mailbox'[r] = Tail(m) /\ (writerq'[r] = Append(w, h) \/ writerq'[r] = w) /\ pty'[r] = pty[r]
      /\ \A q \in Resources : q # r => pty'[q] = pty[q] /\ writerq'[q] = writerq[q] /\ mailbox'[q] = mailbox[q]
  BY <1>1, <1>6
<1>9. waitq' = waitq \/ (Report(h, o) /\ writerq'[r] = w)
  BY <1>6
<1>10. Chain(pty'[r], writerq'[r], mailbox'[r])
  BY <1>3, <1>6, <1>8
<1>11. InPane(r)' \subseteq InPane(r) /\ PaneSinks(r)' \subseteq PaneSinks(r)
  <2>1. /\ InPane(r)' = IdsOf(pty'[r]) \cup IdsOf(writerq'[r]) \cup IdsOf(mailbox'[r])
        /\ PaneSinks(r)' = Members(mailbox'[r]) \cup Members(writerq'[r])
    BY DEF InPane, PaneSinks, IdsOf, Members
  <2> QED
    BY <2>1, <1>4, <1>5, <1>6, <1>8 DEF InPane, PaneSinks
<1>12. \/ waitq' = waitq
       \/ /\ Report(h, o)
          /\ h.id \notin IdsOf(mailbox'[r]) \cup IdsOf(writerq'[r])
          /\ h.id \notin IdsOf(pty'[r])
  BY <1>3, <1>6, <1>8, <1>9
<1>13. Members(pty[r]) \subseteq Members(pty'[r])
  BY <1>8
<1> HIDE DEF w, m
<1> QED
  BY <1>7, <1>8, <1>10, <1>11, <1>12, <1>13, PaneMovesRequest DEF PaneOnly

(* The front of a writer's queue lands in the PTY, whole or not, or is       *)
(* dropped; it is reported in any case.                                      *)
\* service_write_request; the drop of the writer's queue.
LEMMA WriterKeepsHanded ==
    ASSUME Inv, Inv', HandedInv, NEW r \in Resources, NEW o \in WriteOutcomes, PaneOnly,
           writerq[r] # << >>, writerq' = [writerq EXCEPT ![r] = Tail(writerq[r])], mailbox' = mailbox,
           \/ pty' = pty /\ o # "Delivered"
           \/ Lands(r, TRUE) /\ o = "Delivered"
           \/ Lands(r, FALSE) /\ o = "Failed",
           Report(Head(writerq[r]), o)
    PROVE  HandedInv'
<1> DEFINE w == writerq[r]
           m == mailbox[r]
<1>1. /\ OrderOK
      /\ pty \in [Resources -> Seq(Landing)] /\ writerq \in [Resources -> Seq(Request)]
      /\ mailbox \in [Resources -> Seq(Request)]
      /\ pty[r] \in Seq(Landing) /\ w \in Seq(Request) /\ m \in Seq(Request)
  BY DEF HandedInv, Inv, TypeOK, Landing
<1>2. Chain(pty[r], w, m)
  BY <1>1 DEF OrderOK, PaneOrderOK
<1>3. /\ Head(w) \in Request /\ Head(w) \in Members(w) /\ Members(Tail(w)) \subseteq Members(w)
      /\ IdsOf(w) = IdsOf(Tail(w)) \cup {Head(w).id}
  BY <1>1, TailMembers, TailIds
<1>4. PICK h : h = Head(w)
  OBVIOUS
<1>5. PICK e : e = [id |-> h.id, whole |-> (o = "Delivered")]
  OBVIOUS
<1>6. e \in Landing /\ e.id = h.id /\ (o = "Delivered" => e = [id |-> h.id, whole |-> TRUE])
  <2>1. h.id \in Nat
    BY <1>3, <1>4 DEF Request
  <2>2. e.id = h.id /\ (o = "Delivered" => e = [id |-> h.id, whole |-> TRUE])
    BY <1>5
  <2> QED
    BY <2>1, <2>2, <1>5 DEF Landing
<1>7. /\ Chain(Append(pty[r], e), Tail(w), m) /\ Chain(pty[r], Tail(w), m)
      /\ h.id \notin IdsOf(pty[r]) \cup IdsOf(Tail(w)) \cup IdsOf(m)
  BY <1>1, <1>2, <1>4, <1>6, WriterChain
<1>8. /\ Members(Append(pty[r], e)) = Members(pty[r]) \cup {e}
      /\ IdsOf(Append(pty[r], e)) = IdsOf(pty[r]) \cup {h.id}
  BY <1>1, <1>6, AppendMembers, AppendIds
<1>9. h \in PaneSinks(r)
  BY <1>3, <1>4 DEF PaneSinks
<1>10. /\ writerq'[r] = Tail(w) /\ mailbox'[r] = m
       /\ \/ pty'[r] = pty[r] /\ o # "Delivered"
          \/ pty'[r] = Append(pty[r], e) /\ o \notin {"NotWritten", "CanonicalLimitExceeded"}
       /\ \A q \in Resources : q # r => pty'[q] = pty[q] /\ writerq'[q] = writerq[q] /\ mailbox'[q] = mailbox[q]
  <2>1. \/ pty' = pty /\ o # "Delivered"
        \/ pty' = [pty EXCEPT ![r] = Append(pty[r], e)] /\ o \in {"Delivered", "Failed"}
    <3>1. CASE o = "Delivered"
      BY <3>1, <1>4, <1>5 DEF Lands
    <3>2. CASE o # "Delivered"
      <4>1. e = [id |-> h.id, whole |-> FALSE]
        BY <3>2, <1>5
      <4> QED
        BY <4>1, <3>2, <1>4 DEF Lands
    <3> QED
      BY <3>1, <3>2
  <2> QED
    BY <2>1, <1>1
<1>11. Chain(pty'[r], writerq'[r], mailbox'[r])
  BY <1>7, <1>10
<1>12. InPane(r)' \subseteq InPane(r) /\ PaneSinks(r)' \subseteq PaneSinks(r)
  <2>1. /\ InPane(r)' = IdsOf(pty'[r]) \cup IdsOf(writerq'[r]) \cup IdsOf(mailbox'[r])
        /\ PaneSinks(r)' = Members(mailbox'[r]) \cup Members(writerq'[r])
    BY DEF InPane, PaneSinks, IdsOf, Members
  <2> QED
    BY <2>1, <1>3, <1>4, <1>8, <1>10 DEF InPane, PaneSinks
<1>13. /\ h.id \notin IdsOf(mailbox'[r]) \cup IdsOf(writerq'[r])
       /\ o \in {"NotWritten", "CanonicalLimitExceeded"} => h.id \notin IdsOf(pty'[r])
       /\ o = "Delivered" => [id |-> h.id, whole |-> TRUE] \in Members(pty'[r])
       /\ Members(pty[r]) \subseteq Members(pty'[r])
  BY <1>6, <1>7, <1>8, <1>10
<1>14. Report(h, o)
  BY <1>4
<1> HIDE DEF w, m
<1> QED
  BY <1>9, <1>10, <1>11, <1>12, <1>13, <1>14, PaneMovesRequest DEF PaneOnly

(* A step that changes neither a queue nor a batch nor the cache keeps the   *)
(* invariant, however late it is.                                            *)
\* The clock, leases and subscriptions, an actor's end, the reaper.
LEMMA IdleKeepsHanded ==
    ASSUME Inv, Inv', HandedInv,
           UNCHANGED <<attempts, lane, lanePc, item, ticket, waitq, pending, closing, mailbox, writerq, pty,
                       entries, expiry>>,
           now =< now'
    PROVE  HandedInv'
<1>1. \A r \in Resources : Chain(pty'[r], writerq'[r], mailbox'[r]) /\ InPane(r)' \subseteq InPane(r)
  BY DEF HandedInv, OrderOK, PaneOrderOK, InPane, IdsOf
<1>2. Sinks' = Sinks /\ Awaits' = Awaits
  BY DEF Sinks, Awaits, OnHand, IsApply, Members
<1>3. ReportsTrue /\ \A x : Whole(x) => Whole(x)'
  BY DEF ReportsTrue, Members, Whole
<1> QED
  BY <1>1, <1>2, <1>3, QuietStep

(* A pane's actor, its writer and the reaper keep the invariant.             *)
\* service_encoded_input, service_write_request, run and the two drops.
LEMMA PaneKeepsHanded ==
    ASSUME Inv, Inv', HandedInv, NEW r \in Resources, PaneStep(r)
    PROVE  HandedInv'
<1>1. now =< now
  BY DEF Inv, TypeOK
<1>2. CASE ServiceEncodedInput(r)
  BY <1>2, MailboxKeepsHanded DEF ServiceEncodedInput, laneVars, cacheVars, PaneOnly
<1>3. CASE MailboxDrop(r)
  BY <1>3, MailboxKeepsHanded DEF MailboxDrop, laneVars, cacheVars, PaneOnly
<1>4. CASE WriteDelivers(r)
  BY <1>4, WriterKeepsHanded DEF WriteDelivers, laneVars, cacheVars, PaneOnly, WriteOutcomes
<1>5. CASE WriteRefused(r)
  BY <1>5, WriterKeepsHanded DEF WriteRefused, laneVars, cacheVars, PaneOnly, WriteOutcomes
<1>6. CASE WriteFails(r)
  BY <1>6, WriterKeepsHanded DEF WriteFails, laneVars, cacheVars, PaneOnly, WriteOutcomes
<1>7. CASE WriterQueueDrop(r)
  BY <1>7, WriterKeepsHanded DEF WriterQueueDrop, laneVars, cacheVars, PaneOnly, WriteOutcomes
<1>8. CASE ActorStops(r) \/ ActorExits(r) \/ ReapResource(r)
  <2>1. /\ UNCHANGED <<attempts, lane, lanePc, item, ticket, waitq, pending, closing, mailbox, writerq, pty,
                       entries, expiry>>
        /\ now' = now
    BY <1>8 DEF ActorStops, ActorExits, ReapResource, laneVars, waiterVars, paneVars, cacheVars
  <2> QED
    BY <2>1, <1>1, IdleKeepsHanded
<1> QED
  BY <1>2, <1>3, <1>4, <1>5, <1>6, <1>7, <1>8 DEF PaneStep

(* The clock, leases and subscriptions keep the invariant.                   *)
\* Instant::now; ServerState's subscriber lists and lease table.
LEMMA AuthorityKeepsHanded ==
    ASSUME Inv, Inv', HandedInv, Tick \/ \E c \in Clients : AuthorityStep(c)
    PROVE  HandedInv'
<1>1. UNCHANGED <<attempts, lane, lanePc, item, ticket, waitq, pending, closing, mailbox, writerq, pty,
                  entries, expiry>>
  BY DEF Tick, AuthorityStep, laneVars, waiterVars, paneVars, cacheVars
<1>2. now' = now \/ now' = now + 1
  BY DEF Tick, AuthorityStep
<1>3. now =< now'
  BY <1>2 DEF Inv, TypeOK
<1> QED
  BY <1>1, <1>3, IdleKeepsHanded

-----------------------------------------------------------------------------
(* Client tasks.                                                             *)

(* A sink is in the lane thread's hands or in a pane.                        *)
\* WriteCompletionSink travels with its request.
LEMMA SinkSplit ==
    ASSUME NEW e
    PROVE  /\ e \in Sinks <=> (OnHand(item) /\ e = [id |-> item, ticket |-> ticket])
                              \/ \E r \in Resources : e \in PaneSinks(r)
           /\ e \in Sinks' <=> (OnHand(item)' /\ e = [id |-> item', ticket |-> ticket'])
                              \/ \E r \in Resources : e \in PaneSinks(r)'
<1>1. e \in Sinks <=> (OnHand(item) /\ e = [id |-> item, ticket |-> ticket])
                       \/ \E r \in Resources : e \in PaneSinks(r)
  BY DEF Sinks, PaneSinks
<1>2. e \in Sinks' <=> (OnHand(item)' /\ e = [id |-> item', ticket |-> ticket'])
                       \/ \E r \in Resources : e \in PaneSinks(r)'
  BY DEF Sinks, PaneSinks, OnHand
<1> QED
  BY <1>1, <1>2

(* While the panes stand still nothing is handed over and nothing lands.     *)
\* Steps of the lane thread and the waiter that send to no mailbox.
LEMMA PanesStill ==
    ASSUME OrderOK, UNCHANGED <<mailbox, writerq, pty>>
    PROVE  /\ PaneMoves
           /\ \A x : (Handed(x)' <=> Handed(x)) /\ (Whole(x)' <=> Whole(x))
           /\ \A r \in Resources : PaneSinks(r)' = PaneSinks(r)
<1>1. PaneMoves
  BY DEF PaneMoves, OrderOK, PaneOrderOK, InPane, IdsOf
<1>2. \A x : (Handed(x)' <=> Handed(x)) /\ (Whole(x)' <=> Whole(x))
  BY DEF Handed, Underway, Landed, Whole, Members
<1>3. \A r \in Resources : PaneSinks(r)' = PaneSinks(r)
  BY DEF PaneSinks, Members
<1> QED
  BY <1>1, <1>2, <1>3

(* A frame that arrives keeps the invariant.                                 *)
\* InputLaneHandle::route, route_command and apply_input.
LEMMA ArrivalKeepsHanded ==
    ASSUME Inv, Inv', HandedInv, NEW a \in Attempt, attempts' = Append(attempts, a),
           a.bound = -1, a.admitted = now,
           lane' = lane \/ lane' = Append(lane, NewId),
           UNCHANGED <<now, lanePc, item, ticket, waitq, pending, closing, mailbox, writerq, pty, entries, expiry>>
    PROVE  HandedInv'
<1>1. OrderOK /\ FatesOK /\ RecordsOK
  BY DEF HandedInv
<1>2. attempts \in Seq(Attempt) /\ lane \in Seq(Nat) /\ now \in Nat /\ item \in Nat /\ ticket \in Nat
  BY DEF Inv, TypeOK
<1>3. /\ Len(attempts) \in Nat /\ Len(attempts') = Len(attempts) + 1
      /\ \A x \in 1..Len(attempts) : attempts'[x] = attempts[x]
      /\ attempts'[Len(attempts) + 1] = a
  BY <1>2, AppendProperties
<1>4. /\ Ids \subseteq Ids' /\ NewId \in Ids' /\ NewId \notin Ids /\ NewId \in Nat
      /\ \A x \in Ids' : x \notin Ids => x = NewId
      /\ \A x \in Ids : x < NewId /\ attempts'[x] = attempts[x]
      /\ attempts'[NewId] = a
  BY <1>3 DEF Ids, NewId
<1>5. HistoryKept /\ BoundsKept
  <2>1. \A x \in Ids' : x \notin Ids =>
           attempts'[x].bound = -1 /\ attempts'[x].admitted = now /\ \A y \in Ids : y < x
    BY <1>4
  <2>2. now =< now'
    BY <1>2
  <2> QED
    BY <2>1, <2>2, <1>4 DEF HistoryKept, BoundsKept
<1>6. \A i \in 1..Len(lane) : lane[i] \in Ids
  BY DEF Inv, OneAnswerOneSlot, LaneOK
<1>7. LaneMoves
  <2>1. CASE lane' = lane
    BY <2>1, <1>1 DEF LaneMoves, OrderOK, LaneOrderOK
  <2>2. CASE lane' = Append(lane, NewId)
    <3>1. Members(lane') = Members(lane) \cup {NewId}
      BY <2>2, <1>2, <1>4, AppendMembers
    <3>2. /\ Len(lane) \in Nat /\ Len(lane') = Len(lane) + 1
          /\ \A i \in 1..Len(lane) : lane'[i] = lane[i]
          /\ lane'[Len(lane) + 1] = NewId
      BY <2>2, <1>2, <1>4, AppendProperties
    <3>3. ASSUME NEW i \in 1..Len(lane'), NEW j \in 1..Len(lane'), i < j PROVE lane'[i] < lane'[j]
      <4>1. i \in 1..Len(lane) /\ (j \in 1..Len(lane) \/ j = Len(lane) + 1)
        BY <3>2, <3>3
      <4>2. CASE j \in 1..Len(lane)
        BY <4>1, <4>2, <3>2, <3>3, <1>1 DEF OrderOK, LaneOrderOK
      <4>3. CASE j = Len(lane) + 1
        BY <4>1, <4>3, <3>2, <1>4, <1>6
      <4> QED
        BY <4>1, <4>2, <4>3
    <3> QED
      BY <3>1, <3>3, <1>4 DEF LaneMoves
  <2> QED
    BY <2>1, <2>2
<1>8. ThreadMoves
  BY DEF ThreadMoves
<1>9. /\ PaneMoves
      /\ \A x : (Handed(x)' <=> Handed(x)) /\ (Whole(x)' <=> Whole(x))
      /\ \A r \in Resources : PaneSinks(r)' = PaneSinks(r)
  BY <1>1, PanesStill
<1>10. OrderOK'
  BY <1>1, <1>5, <1>7, <1>8, <1>9, OrderStep
<1>11. lanePc # "Recv" => item \in Ids
  BY DEF Inv, OneAnswerOneSlot, ThreadOK
<1>12. \A x : OnHand(x)' <=> OnHand(x)
  BY <1>4, <1>11 DEF OnHand, IsApply
<1>13. OnHand(item)' <=> OnHand(item)
  BY <1>12 DEF OnHand, IsApply
<1>14. SinksKept
  <2>1. Sinks' \subseteq Sinks
    BY <1>9, <1>13, SinkSplit
  <2>2. Awaits' = Awaits
    BY DEF Awaits, Members
  <2> QED
    BY <2>1, <2>2, <1>2 DEF SinksKept
<1>15. ReportsTrue /\ ClosingKept /\ HandsKept
  BY <1>9, <1>12 DEF ReportsTrue, ClosingKept, HandsKept, Members, May
<1>16. FatesOK'
  BY <1>1, <1>5, <1>10, <1>14, <1>15, FatesStep
<1>17. RecordsLeft
  BY <1>4, <1>9, <1>12 DEF RecordsLeft, ApplyWaiting, IsApply, May
<1>18. RecordsOK'
  BY <1>1, <1>5, <1>7, <1>10, <1>17, RecordsStep
<1> QED
  BY <1>10, <1>16, <1>18 DEF HandedInv

(* The three ways a frame comes in keep the invariant.                       *)
\* InputLaneHandle::route, route_command and apply_input.
LEMMA ClientKeepsHanded ==
    ASSUME Inv, Inv', HandedInv, NEW c \in Clients, NEW r \in Resources, ClientStep(c, r)
    PROVE  HandedInv'
<1>1. /\ lane' = lane \/ lane' = Append(lane, NewId)
      /\ UNCHANGED <<now, lanePc, item, ticket, waitq, pending, closing, mailbox, writerq, pty, entries, expiry>>
  BY DEF ClientStep, RouteAttached, RouteCommand, ApplyInput, waiterVars, paneVars, cacheVars
<1>2. \E kind \in InputKinds, o \in Operations \cup {NoOp}, d \in Payloads \cup {NoOp}, res \in Results :
         attempts' = Append(attempts, [kind |-> kind, client |-> c, to |-> r, op |-> o, payload |-> d,
                                       admitted |-> now, bound |-> -1, result |-> res])
  <2>1. CASE RouteAttached(c, r)
    BY <2>1 DEF RouteAttached, Arrives, InputKinds, Results
  <2>2. CASE RouteCommand(c, r)
    BY <2>2 DEF RouteCommand, Arrives, InputKinds, Results
  <2>3. ASSUME NEW o \in Operations, NEW d \in Payloads, ApplyInput(c, r, o, d)
        PROVE  \E res \in Results :
                  attempts' = Append(attempts, [kind |-> "Apply", client |-> c, to |-> r, op |-> o, payload |-> d,
                                                admitted |-> now, bound |-> -1, result |-> res])
    BY <2>3 DEF ApplyInput, Arrives, Results, Codes
  <2> QED
    BY <2>1, <2>2, <2>3 DEF ClientStep, InputKinds
<1>3. PICK kind \in InputKinds, o \in Operations \cup {NoOp}, d \in Payloads \cup {NoOp}, res \in Results :
         attempts' = Append(attempts, [kind |-> kind, client |-> c, to |-> r, op |-> o, payload |-> d,
                                       admitted |-> now, bound |-> -1, result |-> res])
  BY <1>2
<1>4. PICK a : a = [kind |-> kind, client |-> c, to |-> r, op |-> o, payload |-> d,
                    admitted |-> now, bound |-> -1, result |-> res]
  OBVIOUS
<1>5. a \in Attempt /\ a.bound = -1 /\ a.admitted = now
  BY <1>4 DEF Attempt, Results, Inv, TypeOK
<1>6. attempts' = Append(attempts, a)
  BY <1>3, <1>4
<1> QED
  BY <1>1, <1>5, <1>6, ArrivalKeepsHanded

-----------------------------------------------------------------------------
(* The lane thread.                                                          *)

\* Only answers are written into the history.
AnswersOnly ==
    /\ Ids' = Ids
    /\ \A x \in Ids :
          /\ attempts'[x].kind = attempts[x].kind /\ attempts'[x].to = attempts[x].to
          /\ attempts'[x].op = attempts[x].op /\ attempts'[x].payload = attempts[x].payload
          /\ attempts'[x].admitted = attempts[x].admitted /\ attempts'[x].bound = attempts[x].bound
    /\ \A x \in Ids : ApplyWaiting(x)' => ApplyWaiting(x)

(* An answer to an acknowledged batch is all a refusal writes.               *)
\* AcknowledgedReservation's drop and the reply.
LEMMA RefusalAnswers ==
    ASSUME Inv, NEW id \in Ids, NEW code \in Codes, Refuse(id, code)
    PROVE  /\ AnswersOnly /\ attempts'[id].result = code
           /\ \A x \in Ids : x # id => attempts'[x] = attempts[x]
           /\ \A x \in Ids : ApplyWaiting(x) /\ ~ApplyWaiting(x)' => x = id
<1>1. attempts \in Seq(Attempt) /\ id \in 1..Len(attempts) /\ code \in Results /\ code # "Waiting"
  BY DEF Inv, TypeOK, Ids, Results, Codes, FinalResults
<1>2. attempts' = [attempts EXCEPT ![id].result = code]
  BY DEF Refuse
<1>3. /\ Len(attempts') = Len(attempts)
      /\ \A x \in 1..Len(attempts) :
            /\ attempts'[x].kind = attempts[x].kind /\ attempts'[x].to = attempts[x].to
            /\ attempts'[x].op = attempts[x].op /\ attempts'[x].payload = attempts[x].payload
            /\ attempts'[x].admitted = attempts[x].admitted /\ attempts'[x].bound = attempts[x].bound
      /\ \A x \in 1..Len(attempts) : x # id => attempts'[x] = attempts[x]
      /\ attempts'[id].result = code
  BY <1>1, <1>2, ResultChange
<1>4. Ids' = Ids
  BY <1>3 DEF Ids
<1>5. \A x \in Ids : ApplyWaiting(x)' <=> ApplyWaiting(x) /\ x # id
  BY <1>1, <1>3, <1>4 DEF ApplyWaiting, IsApply, Ids
<1> QED
  BY <1>3, <1>4, <1>5 DEF AnswersOnly, Ids

(* So is an answer to ROUTE_INPUT, which no batch waits for.                 *)
\* process_headless's reply.
LEMMA UnackedAnswers ==
    ASSUME Inv, NEW id \in Ids, ~IsApply(id), NEW code, attempts[id].kind = "Headless" => code \in Codes,
           AnswerUnacked(id, code)
    PROVE  /\ AnswersOnly /\ \A x \in Ids : ApplyWaiting(x)' <=> ApplyWaiting(x)
           /\ \A x \in Ids : IsApply(x) => attempts'[x] = attempts[x]
<1>1. CASE attempts[id].kind # "Headless"
  <2>1. attempts' = attempts
    BY <1>1 DEF AnswerUnacked
  <2> QED
    BY <2>1 DEF AnswersOnly, ApplyWaiting, IsApply, Ids
<1>2. CASE attempts[id].kind = "Headless"
  <2>1. attempts \in Seq(Attempt) /\ id \in 1..Len(attempts) /\ code \in Results
    BY <1>2 DEF Inv, TypeOK, Ids, Results
  <2>2. attempts' = [attempts EXCEPT ![id].result = code]
    BY <1>2 DEF AnswerUnacked, Answer
  <2>3. /\ Len(attempts') = Len(attempts)
        /\ \A x \in 1..Len(attempts) :
              /\ attempts'[x].kind = attempts[x].kind /\ attempts'[x].to = attempts[x].to
              /\ attempts'[x].op = attempts[x].op /\ attempts'[x].payload = attempts[x].payload
              /\ attempts'[x].admitted = attempts[x].admitted /\ attempts'[x].bound = attempts[x].bound
        /\ \A x \in 1..Len(attempts) : x # id => attempts'[x] = attempts[x]
    BY <2>1, <2>2, ResultChange
  <2>4. Ids' = Ids
    BY <2>3 DEF Ids
  <2>5. \A x \in Ids : ApplyWaiting(x)' <=> ApplyWaiting(x)
    BY <2>1, <2>3, <2>4 DEF ApplyWaiting, IsApply, Ids
  <2> QED
    BY <2>3, <2>4, <2>5 DEF AnswersOnly, Ids
<1> QED
  BY <1>1, <1>2

(* A step that only answers leaves history and bindings as they are.         *)
\* The reply channels.
LEMMA AnswersKeepHistory ==
    ASSUME Inv, AnswersOnly, now' = now
    PROVE  /\ HistoryKept /\ BoundsKept
           /\ \A x \in Ids : IsApply(x)' <=> IsApply(x)
           /\ \A x \in Ids : attempts'[x].bound = attempts[x].bound
<1>1. now =< now'
  BY DEF Inv, TypeOK
<1> QED
  BY <1>1 DEF AnswersOnly, HistoryKept, BoundsKept, IsApply

(* Steps that leave panes, cache and clock alone, and only pass on what the  *)
(* lane thread or the waiter has, keep the invariant.                        *)
\* LaneRegister, LaneGate, ReleaseAndReply.
LEMMA AnswerStep ==
    ASSUME Inv, Inv', HandedInv, AnswersOnly, LaneMoves, ThreadMoves,
           UNCHANGED <<now, ticket, mailbox, writerq, pty, entries, expiry>>,
           \A x \in Ids : OnHand(x)' => OnHand(x),
           \A e \in Awaits' : e \in Awaits \/ (e \in Sinks /\ OnHand(e.id)),
           \A m \in Members(waitq') : m.type # "Registered" => m \in Members(waitq),
           closing' \subseteq closing,
           \A x \in Ids : Bound(x) /\ Kept(x) /\ May(x)' /\ ApplyWaiting(x) /\ ~ApplyWaiting(x)' =>
               entries[OpOf(x)].result # "None"
    PROVE  HandedInv'
<1>1. OrderOK /\ FatesOK /\ RecordsOK
  BY DEF HandedInv
<1>2. /\ HistoryKept /\ BoundsKept
      /\ \A x \in Ids : IsApply(x)' <=> IsApply(x)
      /\ \A x \in Ids : attempts'[x].bound = attempts[x].bound
  BY AnswersKeepHistory
<1>3. /\ PaneMoves
      /\ \A x : (Handed(x)' <=> Handed(x)) /\ (Whole(x)' <=> Whole(x))
      /\ \A r \in Resources : PaneSinks(r)' = PaneSinks(r)
  BY <1>1, PanesStill
<1>4. OrderOK'
  BY <1>1, <1>2, <1>3, OrderStep
<1>5. ASSUME OnHand(item)' PROVE OnHand(item) /\ item' = item
  <2>1. PICK x : x = item'
    OBVIOUS
  <2>2. OnHand(x)'
    BY <2>1, <1>5 DEF OnHand, IsApply
  <2>3. x \in Ids
    <3>1. item' \in Ids'
      BY <1>5 DEF OnHand, Inv, OneAnswerOneSlot, ThreadOK
    <3> QED
      BY <3>1, <2>1 DEF AnswersOnly
  <2>4. OnHand(x)
    BY <2>2, <2>3
  <2> QED
    BY <2>1, <2>4 DEF OnHand
<1>6. SinksKept
  <2>1. \A e \in Sinks' : e \in Sinks
    BY <1>3, <1>5, SinkSplit
  <2>2. ticket =< ticket'
    BY DEF Inv, TypeOK
  <2> QED
    BY <2>1, <2>2 DEF SinksKept
<1>7. ReportsTrue /\ ClosingKept /\ HandsKept
  BY <1>3 DEF ReportsTrue, ClosingKept, HandsKept, May
<1>8. FatesOK'
  BY <1>1, <1>2, <1>4, <1>6, <1>7, FatesStep
<1>9. RecordsLeft
  BY <1>2, <1>3 DEF RecordsLeft, AnswersOnly, May
<1>10. RecordsOK'
  BY <1>1, <1>2, <1>4, <1>9, RecordsStep
<1> QED
  BY <1>4, <1>8, <1>10 DEF HandedInv

(* Taking the front of the lane leaves the rest in order behind it.          *)
\* spawn_input_lane's receive.
LEMMA LaneTaken ==
    ASSUME Inv, OrderOK, lane # << >>, lane' = Tail(lane)
    PROVE  /\ LaneMoves /\ Head(lane) \in Members(lane) /\ Head(lane) \in Ids
           /\ \A y \in Members(lane') : Head(lane) < y
<1>1. lane \in Seq(Nat) /\ Len(lane) \in Nat
  BY DEF Inv, TypeOK
<1>2. /\ lane' \in Seq(Nat) /\ Len(lane') = Len(lane) - 1
      /\ \A i \in 1..Len(lane') : lane'[i] = lane[i + 1]
      /\ Head(lane) = lane[1] /\ Len(lane) > 0
  BY <1>1, HeadTailProperties, EmptySeq
<1>3. Head(lane) \in Members(lane) /\ Members(lane') \subseteq Members(lane)
  BY <1>1, TailMembers
<1>4. \A i \in 1..Len(lane') : i + 1 \in 1..Len(lane) /\ 1 < i + 1 /\ 1 \in 1..Len(lane)
  BY <1>1, <1>2
<1>5. \A i, j \in 1..Len(lane') : i < j => i + 1 < j + 1
  BY <1>1, <1>2
<1>6. \A i, j \in 1..Len(lane) : i < j => lane[i] < lane[j]
  BY DEF OrderOK, LaneOrderOK
<1>7. \A i, j \in 1..Len(lane') : i < j => lane'[i] < lane'[j]
  BY <1>2, <1>4, <1>5, <1>6
<1>8. \A y \in Members(lane') : Head(lane) < y
  BY <1>2, <1>4, <1>6 DEF Members
<1>9. Head(lane) \in Ids
  BY LanePop
<1> QED
  BY <1>3, <1>7, <1>8, <1>9 DEF LaneMoves

(* The batch in hand is in no pane.                                          *)
\* RoutedInput is moved, never copied.
LEMMA ItemNotHanded ==
    ASSUME Inv, OrderOK, lanePc # "Recv"
    PROVE  ~Handed(item) /\ \A r \in Resources : \A e \in PaneSinks(r) : e.id # item
<1>1. \A r \in Resources : \A x \in InPane(r) : x < item
  BY DEF OrderOK, PaneOrderOK
<1>2. item \in Nat
  BY DEF Inv, TypeOK
<1>3. \A r \in Resources : item \notin InPane(r)
  BY <1>1, <1>2
<1>4. \A r \in Resources : \A e \in PaneSinks(r) : e.id \in InPane(r)
  BY DEF PaneSinks, InPane, Members, IdsOf
<1> QED
  BY <1>3, <1>4, HandedInPane

(* LaneRegister keeps the invariant: the batch is refused with nothing       *)
(* handed over, or the waiter is told the ticket of the batch in hand.       *)
\* prepare_acknowledged_batch's gate and encoding, CompletionWaiterHandle::register.
LEMMA RegisterKeepsHanded ==
    ASSUME Inv, Inv', HandedInv, LaneRegister
    PROVE  HandedInv'
<1>1. /\ lanePc = "Register"
      /\ UNCHANGED <<now, lane, ticket, pending, closing, mailbox, writerq, pty, entries, expiry>>
  BY DEF LaneRegister, paneVars, cacheVars
<1>2. item \in Ids /\ ApplyWaiting(item) /\ IsApply(item) /\ OrderOK
  BY <1>1 DEF Inv, OneAnswerOneSlot, ThreadOK, ApplyWaiting, HandedInv
<1>3. ~Handed(item) /\ ticket \in Nat /\ item \in Nat
  BY <1>1, <1>2, ItemNotHanded DEF Inv, TypeOK
<1>4. LaneMoves /\ OnHand(item)
  BY <1>1, <1>2 DEF LaneMoves, OrderOK, LaneOrderOK, OnHand
<1>5. \A x : Handed(x)' <=> Handed(x)
  BY <1>1, <1>2, PanesStill
<1>6. CASE \E code \in Codes : Refuse(item, code) /\ lanePc' = "Recv" /\ item' = 0 /\ UNCHANGED waitq
  <2>1. PICK code \in Codes : Refuse(item, code) /\ lanePc' = "Recv" /\ item' = 0 /\ waitq' = waitq
    BY <1>6
  <2>2. AnswersOnly /\ \A x \in Ids : ApplyWaiting(x) /\ ~ApplyWaiting(x)' => x = item
    BY <2>1, <1>2, RefusalAnswers
  <2>3. ThreadMoves /\ \A x : ~OnHand(x)'
    BY <2>1 DEF ThreadMoves, OnHand
  <2>4. \A x \in Ids : May(x)' /\ ApplyWaiting(x) /\ ~ApplyWaiting(x)' => FALSE
    BY <2>2, <2>3, <1>3, <1>5 DEF May
  <2>5. Awaits' = Awaits /\ Members(waitq') = Members(waitq)
    BY <2>1, <1>1 DEF Awaits, Members
  <2> QED
    BY <1>1, <1>4, <2>2, <2>3, <2>4, <2>5, AnswerStep
<1>7. CASE /\ waitq' = Append(waitq, [type |-> "Registered", ticket |-> ticket, id |-> item])
           /\ lanePc' = "Handoff" /\ UNCHANGED <<item, attempts, admission>>
  <2>1. PICK m : m = [type |-> "Registered", ticket |-> ticket, id |-> item]
    OBVIOUS
  <2>2. m \in WaiterMessage /\ m.type = "Registered" /\ m.ticket = ticket /\ m.id = item
    BY <2>1, <1>3 DEF WaiterMessage
  <2>3. Members(waitq') = Members(waitq) \cup {m}
    BY <2>1, <2>2, <1>7, AppendMembers DEF Inv, TypeOK
  <2>4. PICK s : s = [id |-> item, ticket |-> ticket]
    OBVIOUS
  <2>5. s \in Sinks /\ OnHand(s.id)
    BY <2>4, <1>4, SinkSplit
  <2>6. Awaits' \subseteq Awaits \cup {s}
    BY <2>2, <2>3, <2>4, <1>1 DEF Awaits
  <2>7. AnswersOnly /\ \A x : ApplyWaiting(x)' <=> ApplyWaiting(x)
    BY <1>7 DEF AnswersOnly, ApplyWaiting, IsApply, Ids
  <2>8. ThreadMoves /\ \A x : OnHand(x)' => OnHand(x)
    BY <1>1, <1>7 DEF ThreadMoves, OnHand, IsApply
  <2> QED
    BY <1>1, <1>4, <2>2, <2>3, <2>5, <2>6, <2>7, <2>8, AnswerStep
<1>8. RouteGate(attempts[item].client, attempts[item].to) \in Codes \cup {"Pass"}
  BY DEF RouteGate, Codes
<1> QED
  BY <1>6, <1>7, <1>8 DEF LaneRegister, Codes

(* LaneGate keeps the invariant: what it takes up carries no sink.           *)
\* process_attached and process_headless up to the encoding.
LEMMA GateKeepsHanded ==
    ASSUME Inv, Inv', HandedInv, LaneGate
    PROVE  HandedInv'
<1>1. /\ lanePc = "Recv" /\ lane # << >> /\ lane' = Tail(lane) /\ attempts[Head(lane)].kind # "Apply"
      /\ UNCHANGED <<now, ticket, waitq, pending, closing, mailbox, writerq, pty, entries, expiry>>
      /\ \/ lanePc' = "Handoff" /\ item' = Head(lane) /\ attempts' = attempts
         \/ /\ UnackedGate(attempts[Head(lane)]) # "Pass"
            /\ AnswerUnacked(Head(lane), UnackedGate(attempts[Head(lane)])) /\ UNCHANGED <<lanePc, item>>
  BY DEF LaneGate, waiterVars, paneVars, cacheVars
<1>2. OrderOK
  BY DEF HandedInv
<1>3. PICK id : id = Head(lane)
  OBVIOUS
<1>4. /\ LaneMoves /\ id \in Members(lane) /\ id \in Ids /\ ~IsApply(id)
      /\ \A y \in Members(lane') : id < y
  BY <1>1, <1>2, <1>3, LaneTaken DEF IsApply
<1>5. Awaits' = Awaits /\ Members(waitq') = Members(waitq)
  BY <1>1 DEF Awaits, Members
<1>6. CASE lanePc' = "Handoff" /\ item' = id /\ attempts' = attempts
  <2>1. AnswersOnly /\ \A x : ApplyWaiting(x)' <=> ApplyWaiting(x)
    BY <1>6 DEF AnswersOnly, ApplyWaiting, IsApply, Ids
  <2>2. ThreadMoves
    BY <1>4, <1>6 DEF ThreadMoves, IsApply
  <2>3. \A x : ~OnHand(x)'
    BY <1>4, <1>6 DEF OnHand, IsApply
  <2> QED
    BY <1>1, <1>4, <1>5, <2>1, <2>2, <2>3, AnswerStep
<1>7. CASE /\ UnackedGate(attempts[id]) # "Pass"
           /\ AnswerUnacked(id, UnackedGate(attempts[id])) /\ UNCHANGED <<lanePc, item>>
  <2>1. attempts[id].kind = "Headless" => UnackedGate(attempts[id]) \in Codes
    BY <1>7 DEF UnackedGate, RouteGate, Codes
  <2>2. AnswersOnly /\ \A x \in Ids : ApplyWaiting(x)' <=> ApplyWaiting(x)
    <3>1. PICK code : code = UnackedGate(attempts[id])
      OBVIOUS
    <3> QED
      BY <3>1, <2>1, <1>4, <1>7, UnackedAnswers
  <2>3. ThreadMoves /\ \A x : ~OnHand(x)'
    BY <1>1, <1>7 DEF ThreadMoves, OnHand
  <2> QED
    BY <1>1, <1>4, <1>5, <2>2, <2>3, AnswerStep
<1> QED
  BY <1>1, <1>3, <1>6, <1>7

(* ReleaseAndReply keeps the invariant: a batch answered as recorded has     *)
(* left its result, and one that is refused is in no pane.                   *)
\* PendingCompletion::finalize, second half, and resolve_without_writer.
LEMMA ReplyKeepsHanded ==
    ASSUME Inv, Inv', HandedInv, ReleaseAndReply
    PROVE  HandedInv'
<1>1. PICK f \in closing :
        /\ f.how \in {"Recorded", "Resolve"} /\ Refuse(f.id, f.result) /\ closing' = closing \ {f}
        /\ UNCHANGED <<now, laneVars, waitq, pending, paneVars, cacheVars, authorityVars>>
  BY DEF ReleaseAndReply
<1>2. UNCHANGED <<now, lane, lanePc, item, ticket, waitq, pending, mailbox, writerq, pty, entries, expiry>>
  BY <1>1 DEF laneVars, paneVars, cacheVars
<1>3. OrderOK /\ VerdictsOK /\ ResultKept
  BY DEF HandedInv, FatesOK, RecordsOK
<1>4. f.id \in Ids /\ f.result \in Codes
  BY <1>3, SinkTyped DEF Inv, TypeOK, Closing
<1>5. AnswersOnly /\ \A x \in Ids : ApplyWaiting(x) /\ ~ApplyWaiting(x)' => x = f.id
  <2>1. PICK id, code : id = f.id /\ code = f.result
    OBVIOUS
  <2> QED
    BY <2>1, <1>1, <1>4, RefusalAnswers
<1>6. \A x \in Ids : IsApply(x)' <=> IsApply(x)
  BY <1>5 DEF AnswersOnly, IsApply
<1>7. LaneMoves /\ ThreadMoves
  BY <1>2, <1>3 DEF LaneMoves, ThreadMoves, OrderOK, LaneOrderOK
<1>8. \A x \in Ids : OnHand(x)' <=> OnHand(x)
  BY <1>2, <1>6 DEF OnHand
<1>9. Awaits' = Awaits /\ Members(waitq') = Members(waitq)
  BY <1>2 DEF Awaits, Members
<1>10. \A x \in Ids : May(x)' <=> May(x)
  <2>1. \A x : Handed(x)' <=> Handed(x)
    BY <1>2, <1>3, PanesStill
  <2> QED
    BY <2>1, <1>8 DEF May
<1>11. Bound(f.id) /\ Kept(f.id) /\ May(f.id) => entries[OpOf(f.id)].result # "None"
  BY <1>1, <1>3 DEF VerdictsOK, ResultKept
<1>12. \A x \in Ids : Bound(x) /\ Kept(x) /\ May(x)' /\ ApplyWaiting(x) /\ ~ApplyWaiting(x)' =>
          entries[OpOf(x)].result # "None"
  BY <1>4, <1>5, <1>10, <1>11
<1>13. closing' \subseteq closing
  BY <1>1
<1> QED
  BY <1>2, <1>5, <1>7, <1>8, <1>9, <1>12, <1>13, AnswerStep

(* The batch in hand enters its pane's mailbox behind all that is there, and *)
(* nothing else moves.                                                       *)
\* The lane's try_send into the pane's mailbox.
LEMMA MailboxTaken ==
    ASSUME Inv, OrderOK, lanePc # "Recv", lanePc' = "Recv", NEW r \in Resources, attempts[item].to = r,
           NEW e \in Request, e.id = item, mailbox' = [mailbox EXCEPT ![r] = Append(@, e)],
           UNCHANGED <<writerq, pty>>
    PROVE  /\ PaneMoves
           /\ \A x : Handed(x)' <=> Handed(x) \/ x = item
           /\ \A x : Whole(x)' <=> Whole(x)
           /\ \A q \in Resources : \A d \in PaneSinks(q)' : d \in PaneSinks(q) \/ d = e
<1>1. \A q \in Resources : mailbox[q] \in Seq(Request) /\ writerq[q] \in Seq(Request) /\ pty[q] \in Seq(Landing)
  BY DEF Inv, TypeOK, Landing
<1>2. mailbox'[r] = Append(mailbox[r], e) /\ \A q \in Resources : q # r => mailbox'[q] = mailbox[q]
  BY DEF Inv, TypeOK
<1>3. /\ IdsOf(mailbox'[r]) = IdsOf(mailbox[r]) \cup {item}
      /\ Members(mailbox'[r]) = Members(mailbox[r]) \cup {e}
  BY <1>1, <1>2, AppendIds, AppendMembers
<1>4. \A q \in Resources : Chain(pty[q], writerq[q], mailbox[q]) /\ \A x \in InPane(q) : x < item
  BY DEF OrderOK, PaneOrderOK
<1>5. Chain(pty[r], writerq[r], Append(mailbox[r], e))
  <2>1. \A x \in IdsOf(pty[r]) \cup IdsOf(writerq[r]) \cup IdsOf(mailbox[r]) : x < e.id
    BY <1>4 DEF InPane
  <2> QED
    BY <2>1, <1>1, <1>4, HandoffChain
<1>6. InPane(r)' = InPane(r) \cup {item} /\ \A q \in Resources : q # r => InPane(q)' = InPane(q)
  BY <1>2, <1>3 DEF InPane
<1>7. \A x : Handed(x)' <=> Handed(x) \/ x = item
  BY <1>6, HandedInPane
<1>8. \A x : Whole(x)' <=> Whole(x)
  BY DEF Whole, Members
<1>9. PaneMoves
  <2>1. ASSUME NEW q \in Resources
        PROVE  /\ Chain(pty'[q], writerq'[q], mailbox'[q])
               /\ \A x \in InPane(q)' : x \in InPane(q) \/ (x = item /\ q = r)
    BY <1>2, <1>4, <1>5, <1>6
  <2> QED
    BY <2>1 DEF PaneMoves
<1>10. \A q \in Resources : \A d \in PaneSinks(q)' : d \in PaneSinks(q) \/ d = e
  <2>1. ASSUME NEW q \in Resources, NEW d \in PaneSinks(q)' PROVE d \in PaneSinks(q) \/ d = e
    <3>1. d \in Members(mailbox'[q]) \/ d \in Members(writerq[q])
      BY DEF PaneSinks
    <3>2. d \in Members(mailbox'[q]) => d \in Members(mailbox[q]) \/ d = e
      BY <1>2, <1>3
    <3> QED
      BY <3>1, <3>2 DEF PaneSinks
  <2> QED
    BY <2>1
<1> QED
  BY <1>7, <1>8, <1>9, <1>10

(* What a refused handoff tells the waiter: under the ticket of the batch in *)
(* hand, that it is abandoned, or that its sink was dropped.                 *)
\* CompletionWaiterHandle::abandon around the drop of the EncodedInput.
LEMMA HandoffReports ==
    ASSUME Inv, NEW code \in Codes,
           waitq' = Append(waitq, Abandoned(code)) \/ waitq' = waitq \o RefusedHandoff(code),
           NEW m \in Members(waitq')
    PROVE  \/ m \in Members(waitq)
           \/ m.type = "Abandoned" /\ m.ticket = ticket /\ m.result = code
           \/ m.type = "Completed" /\ m.ticket = ticket /\ m.outcome = "Failed"
<1>1. PICK a, c : a = Abandoned(code) /\ c = Completed(ticket, "Failed")
  OBVIOUS
<1>2. /\ a \in WaiterMessage /\ a.type = "Abandoned" /\ a.ticket = ticket /\ a.result = code
      /\ c \in WaiterMessage /\ c.type = "Completed" /\ c.ticket = ticket /\ c.outcome = "Failed"
  BY <1>1 DEF Abandoned, Completed, WaiterMessage, WriteOutcomes, Inv, TypeOK
<1>3. waitq \in Seq(WaiterMessage)
  BY DEF Inv, TypeOK
<1>4. CASE waitq' = Append(waitq, a)
  BY <1>2, <1>3, <1>4, AppendMembers
<1>5. CASE waitq' = waitq \o <<a, c, a>>
  <2>1. PICK q : q = <<a, c, a>>
    OBVIOUS
  <2>2. /\ q \in Seq(WaiterMessage) /\ Len(q) = 3
        /\ \A i \in 1..3 : q[i] = a \/ q[i] = c
    BY <2>1, <1>2
  <2>3. /\ Len(waitq') = Len(waitq) + Len(q) /\ Len(waitq) \in Nat
        /\ \A i \in 1..(Len(waitq) + Len(q)) :
              waitq'[i] = IF i =< Len(waitq) THEN waitq[i] ELSE q[i - Len(waitq)]
    BY <1>3, <1>5, <2>1, <2>2, ConcatProperties
  <2>4. PICK i \in 1..Len(waitq') : m = waitq'[i]
    BY DEF Members
  <2>5. CASE i =< Len(waitq)
    BY <2>2, <2>3, <2>4, <2>5 DEF Members
  <2>6. CASE ~(i =< Len(waitq))
    <3>1. i - Len(waitq) \in 1..3
      BY <2>2, <2>3, <2>4, <2>6
    <3>2. m = q[i - Len(waitq)]
      BY <2>2, <2>3, <2>4, <2>6
    <3> QED
      BY <3>1, <3>2, <2>2, <1>2
  <2> QED
    BY <2>5, <2>6
<1> QED
  BY <1>1, <1>4, <1>5 DEF RefusedHandoff

(* LaneHandoff keeps the invariant: the batch is in its pane's mailbox with  *)
(* its sink, or in no pane and reported so.                                  *)
\* process_apply_input's handoff.
LEMMA HandoffKeepsHanded ==
    ASSUME Inv, Inv', HandedInv, LaneHandoff
    PROVE  HandedInv'
<1>1. /\ lanePc = "Handoff" /\ IsApply(item) /\ lanePc' = "Recv" /\ item' = 0
      /\ UNCHANGED <<now, attempts, lane, ticket, pending, closing, writerq, pty, entries, expiry>>
  BY DEF LaneHandoff, cacheVars, IsApply
<1>2. OrderOK /\ FatesOK /\ RecordsOK /\ TicketsOK
  BY DEF HandedInv, FatesOK
<1>3. PICK s : s = [id |-> item, ticket |-> ticket]
  OBVIOUS
<1>4. item \in Ids /\ OnHand(item) /\ s \in Request /\ s.id = item /\ s.ticket = ticket
  BY <1>1, <1>3 DEF Inv, TypeOK, OneAnswerOneSlot, ThreadOK, OnHand, Request
<1>5. s \in Sinks /\ s.ticket # 0
  <2>1. s \in Sinks
    BY <1>3, <1>4, SinkSplit
  <2> QED
    BY <2>1, <1>1, <1>2, <1>4 DEF TicketsOK
<1>6. ~Handed(item) /\ \A r \in Resources : \A e \in PaneSinks(r) : e.id # item
  BY <1>1, <1>2, ItemNotHanded
<1>7. \A x : ~OnHand(x)'
  BY <1>1 DEF OnHand
<1>8. HistoryKept /\ BoundsKept /\ LaneMoves /\ ThreadMoves
  <2>1. now =< now'
    BY <1>1 DEF Inv, TypeOK
  <2> QED
    BY <1>1, <1>2, <2>1 DEF HistoryKept, BoundsKept, LaneMoves, ThreadMoves, OrderOK, LaneOrderOK, Ids
<1>9. \A x : (ApplyWaiting(x)' <=> ApplyWaiting(x)) /\ (x \in Ids => (IsApply(x)' <=> IsApply(x)))
  BY <1>1 DEF ApplyWaiting, IsApply, Ids
<1>10. ticket =< ticket' /\ ClosingKept
  BY <1>1 DEF Inv, TypeOK, ClosingKept
<1>11. ASSUME PaneMoves, \A x : Handed(x)' => Handed(x) \/ x = item, \A x : Whole(x) => Whole(x)',
              \A e \in Sinks' : e \in Sinks, Awaits' \subseteq Awaits, ReportsTrue
       PROVE  HandedInv'
  <2>1. OrderOK'
    BY <1>2, <1>8, <1>11, OrderStep
  <2>2. SinksKept /\ HandsKept
    BY <1>4, <1>7, <1>10, <1>11 DEF SinksKept, HandsKept, May
  <2>3. FatesOK'
    BY <2>1, <2>2, <1>2, <1>8, <1>10, <1>11, FatesStep
  <2>4. \A x \in Ids : IsApply(x) /\ May(x)' => May(x)
    BY <1>4, <1>7, <1>11 DEF May
  <2>5. RecordsLeft
    BY <2>4, <1>1, <1>9 DEF RecordsLeft
  <2>6. RecordsOK'
    BY <2>1, <2>5, <1>2, <1>8, RecordsStep
  <2> QED
    BY <2>1, <2>3, <2>6 DEF HandedInv
<1>12. CASE \E code \in Codes \ {"Ok"} :
              /\ waitq' = Append(waitq, Abandoned(code)) \/ waitq' = waitq \o RefusedHandoff(code)
              /\ UNCHANGED mailbox
  <2>1. PICK code \in Codes \ {"Ok"} :
              /\ waitq' = Append(waitq, Abandoned(code)) \/ waitq' = waitq \o RefusedHandoff(code)
              /\ mailbox' = mailbox
    BY <1>12
  <2>2. \A m \in Members(waitq') :
           \/ m \in Members(waitq)
           \/ m.type = "Abandoned" /\ m.ticket = ticket /\ m.result = code
           \/ m.type = "Completed" /\ m.ticket = ticket /\ m.outcome = "Failed"
    BY <2>1, HandoffReports
  <2>3. /\ PaneMoves
        /\ \A x : (Handed(x)' <=> Handed(x)) /\ (Whole(x)' <=> Whole(x))
        /\ \A r \in Resources : PaneSinks(r)' = PaneSinks(r)
    BY <2>1, <1>1, <1>2, PanesStill
  <2>4. \A e \in Sinks' : e \in Sinks /\ e.id # item
    BY <2>3, <1>6, <1>7, SinkSplit
  <2>5. \A e \in Sinks' : e.ticket # s.ticket
    BY <2>4, <1>2, <1>4, <1>5 DEF TicketsOK
  <2>6. Awaits' \subseteq Awaits
    BY <2>2, <1>1 DEF Awaits
  <2>7. ReportsTrue
    <3>1. SUFFICES ASSUME NEW m \in Members(waitq'), m \notin Members(waitq)
                   PROVE  /\ s.ticket # 0 /\ m.ticket = s.ticket
                          /\ m.type = "Abandoned" => m.result # "Ok"
                          /\ \A d \in Sinks' : d.ticket # s.ticket
                          /\ Refuses(m) => ~Handed(s.id)'
                          /\ Delivers(m) => Whole(s.id)'
      BY <1>5 DEF ReportsTrue
    <3>2. /\ m.ticket = ticket /\ ~Delivers(m)
          /\ m.type = "Abandoned" => m.result = code
      BY <3>1, <2>2 DEF Delivers
    <3>3. ~Handed(s.id)'
      <4>1. ~Handed(s.id)
        BY <1>4, <1>6
      <4> QED
        BY <4>1, <2>3
    <3> QED
      BY <3>2, <3>3, <2>1, <2>5, <1>4, <1>5
  <2> QED
    BY <1>11, <2>3, <2>4, <2>6, <2>7
<1>13. CASE /\ mailbox' = [mailbox EXCEPT ![attempts[item].to] = Append(@, s)]
            /\ UNCHANGED waitq
  <2>1. PICK r \in Resources : r = attempts[item].to
    BY <1>4, AttemptTyped DEF Inv, TypeOK, Ids
  <2>2. /\ PaneMoves
        /\ \A x : Handed(x)' <=> Handed(x) \/ x = item
        /\ \A x : Whole(x)' <=> Whole(x)
        /\ \A q \in Resources : \A d \in PaneSinks(q)' : d \in PaneSinks(q) \/ d = s
    BY <2>1, <1>1, <1>2, <1>4, <1>13, MailboxTaken
  <2>3. \A e \in Sinks' : e \in Sinks
    BY <2>2, <1>5, <1>7, SinkSplit
  <2>4. Awaits' = Awaits /\ ReportsTrue
    BY <1>1, <1>13 DEF Awaits, ReportsTrue, Members
  <2> QED
    BY <1>11, <2>2, <2>3, <2>4
<1>14. RouteGate(attempts[item].client, attempts[item].to) \in (Codes \ {"Ok"}) \cup {"Pass"}
  BY DEF RouteGate, Codes
<1>15. "InputNotWritten" \in Codes \ {"Ok"} /\ "ResourceExhausted" \in Codes \ {"Ok"}
  BY DEF Codes, FinalResults
<1> QED
  BY <1>3, <1>12, <1>13, <1>14, <1>15 DEF LaneHandoff

(* LaneHandoffUnacked keeps the invariant: the request carries no sink.      *)
\* handoff_encoded.
LEMMA UnackedHandoffKeepsHanded ==
    ASSUME Inv, Inv', HandedInv, LaneHandoffUnacked
    PROVE  HandedInv'
<1>1. /\ lanePc = "Handoff" /\ attempts[item].kind # "Apply" /\ lanePc' = "Recv" /\ item' = 0
      /\ UNCHANGED <<now, lane, ticket, waitq, pending, closing, writerq, pty, entries, expiry>>
      /\ \/ mailbox' = mailbox
         \/ mailbox' = [mailbox EXCEPT ![attempts[item].to] = Append(@, [id |-> item, ticket |-> 0])]
  BY DEF LaneHandoffUnacked, waiterVars, cacheVars
<1>2. OrderOK /\ FatesOK /\ RecordsOK
  BY DEF HandedInv
<1>3. item \in Ids /\ item \in Nat /\ ~IsApply(item) /\ (\A x : ~OnHand(x)) /\ (\A x : ~OnHand(x)')
  BY <1>1 DEF Inv, TypeOK, OneAnswerOneSlot, ThreadOK, OnHand, IsApply
<1>4. PICK code : /\ AnswerUnacked(item, code)
                  /\ code \in Codes \/ (code = UnackedGate(attempts[item]) /\ code # "Pass")
  BY DEF LaneHandoffUnacked, Codes, FinalResults
<1>5. AnswersOnly /\ \A x \in Ids : ApplyWaiting(x)' <=> ApplyWaiting(x)
  <2>1. attempts[item].kind = "Headless" => code \in Codes
    BY <1>4 DEF UnackedGate, RouteGate, Codes
  <2> QED
    BY <2>1, <1>3, <1>4, UnackedAnswers
<1>6. /\ HistoryKept /\ BoundsKept
      /\ \A x \in Ids : IsApply(x)' <=> IsApply(x)
      /\ \A x \in Ids : attempts'[x].bound = attempts[x].bound
  BY <1>1, <1>5, AnswersKeepHistory
<1>7. PICK s : s = [id |-> item, ticket |-> 0]
  OBVIOUS
<1>8. s \in Request /\ s.id = item /\ s.ticket = 0 /\ ~IsApply(s.id)'
  <2>1. s \in Request /\ s.id = item /\ s.ticket = 0
    BY <1>3, <1>7 DEF Request
  <2>2. ~(attempts'[item].kind = "Apply")
    BY <1>3, <1>6 DEF IsApply
  <2> QED
    BY <2>1, <2>2 DEF IsApply
<1>9. /\ PaneMoves
      /\ \A x : Handed(x)' => Handed(x) \/ x = item
      /\ \A x : Whole(x) => Whole(x)'
      /\ \A q \in Resources : \A d \in PaneSinks(q)' : d \in PaneSinks(q) \/ d = s
  <2>1. CASE mailbox' = mailbox
    BY <2>1, <1>1, <1>2, PanesStill
  <2>2. CASE mailbox' = [mailbox EXCEPT ![attempts[item].to] = Append(@, s)]
    <3>1. PICK r \in Resources : r = attempts[item].to
      BY <1>3, AttemptTyped DEF Inv, TypeOK, Ids
    <3> QED
      BY <3>1, <2>2, <1>1, <1>2, <1>8, MailboxTaken
  <2> QED
    BY <2>1, <2>2, <1>1, <1>7
<1>10. LaneMoves /\ ThreadMoves
  BY <1>1, <1>2 DEF LaneMoves, ThreadMoves, OrderOK, LaneOrderOK
<1>11. OrderOK'
  BY <1>2, <1>6, <1>9, <1>10, OrderStep
<1>12. SinksKept
  <2>1. \A e \in Sinks' : e \in Sinks \/ e = s
    <3>1. ~OnHand(item)'
      BY <1>1 DEF OnHand
    <3> QED
      BY <3>1, <1>9, SinkSplit
  <2>2. \A e \in Sinks' : e \in Sinks \/ (e.ticket = 0 /\ ~IsApply(e.id)')
    BY <2>1, <1>8 DEF IsApply
  <2>3. Awaits' = Awaits
    BY <1>1 DEF Awaits, Members
  <2>4. ticket =< ticket'
    BY <1>1 DEF Inv, TypeOK
  <2> QED
    BY <2>2, <2>3, <2>4 DEF SinksKept
<1>13. ReportsTrue /\ ClosingKept
  BY <1>1 DEF ReportsTrue, ClosingKept, Members
<1>14. \A x \in Ids : IsApply(x) /\ Handed(x)' => Handed(x)
  BY <1>3, <1>9
<1>15. HandsKept
  BY <1>3, <1>9, <1>14 DEF HandsKept, May
<1>16. FatesOK'
  BY <1>2, <1>6, <1>11, <1>12, <1>13, <1>15, FatesStep
<1>17. RecordsLeft
  BY <1>1, <1>3, <1>5, <1>6, <1>14 DEF RecordsLeft, May
<1>18. RecordsOK'
  BY <1>2, <1>6, <1>10, <1>11, <1>17, RecordsStep
<1> QED
  BY <1>11, <1>16, <1>18 DEF HandedInv

-----------------------------------------------------------------------------
(* The completion waiter.                                                    *)

(* The waiter's steps keep the invariant when what it takes out of the       *)
(* pending set it reports truly.                                             *)
\* run_waiter, PendingSet.
LEMMA WaiterStepKeepsHanded ==
    ASSUME Inv, Inv', HandedInv, closing = {},
           UNCHANGED <<now, attempts, lane, lanePc, item, ticket, mailbox, writerq, pty, entries, expiry>>,
           Members(waitq') \subseteq Members(waitq),
           Awaits' \subseteq Awaits,
           \A f \in closing' :
              /\ f.how # "Recorded"
              /\ f.how = "Resolve" \/ f.result \notin {"Ok", "InputDeliveryUnknown"} => ~May(f.id)
              /\ f.result = "Ok" => f.how # "Resolve" /\ Whole(f.id)
    PROVE  HandedInv'
<1>1. OrderOK /\ FatesOK /\ RecordsOK
  BY DEF HandedInv
<1>2. HistoryKept /\ BoundsKept /\ LaneMoves /\ ThreadMoves
  <2>1. now =< now'
    BY DEF Inv, TypeOK
  <2> QED
    BY <1>1, <2>1 DEF HistoryKept, BoundsKept, LaneMoves, ThreadMoves, OrderOK, LaneOrderOK, Ids
<1>3. /\ PaneMoves
      /\ \A x : (Handed(x)' <=> Handed(x)) /\ (Whole(x)' <=> Whole(x))
      /\ \A r \in Resources : PaneSinks(r)' = PaneSinks(r)
  BY <1>1, PanesStill
<1>4. OrderOK'
  BY <1>1, <1>2, <1>3, OrderStep
<1>5. \A x : (OnHand(x)' <=> OnHand(x)) /\ (ApplyWaiting(x)' <=> ApplyWaiting(x))
  BY DEF OnHand, ApplyWaiting, IsApply, Ids
<1>6. \A x : May(x)' <=> May(x)
  BY <1>3, <1>5 DEF May
<1>7. RecordsLeft
  BY <1>5, <1>6 DEF RecordsLeft
<1>8. RecordsOK'
  BY <1>1, <1>2, <1>4, <1>7, RecordsStep
<1>9. Sinks' = Sinks
  <2>1. OnHand(item)' <=> OnHand(item)
    BY DEF OnHand, IsApply
  <2> QED
    BY <2>1, <1>3, SinkSplit
<1>10. TicketsOK' /\ ReportsOK'
  <2>1. \A x : (IsApply(x)' <=> IsApply(x))
    BY DEF IsApply
  <2>2. TicketsOK'
    BY <1>1, <1>9, <2>1 DEF FatesOK, TicketsOK
  <2>3. ReportsOK'
    BY <1>1, <1>3, <1>9 DEF FatesOK, ReportsOK, Refuses, Delivers
  <2> QED
    BY <2>2, <2>3
<1>11. VerdictsOK'
  <2>1. SUFFICES ASSUME NEW f \in closing'
                 PROVE  /\ f.how = "Resolve" \/ f.result \notin {"Ok", "InputDeliveryUnknown"} => ~May(f.id)'
                        /\ f.result = "Ok" => f.how # "Resolve" /\ Whole(f.id)'
    BY DEF VerdictsOK
  <2> QED
    BY <1>3, <1>6
<1> QED
  BY <1>4, <1>8, <1>10, <1>11 DEF HandedInv, FatesOK

(* A batch past its deadline is reported as unknown, which is always true.   *)
\* delivery_unknown, PendingSet::take_expired.
LEMMA TimedOutTrue ==
    ASSUME NEW k, NEW f \in TimedOut(k)
    PROVE  f.how = "Finalize" /\ f.result = "InputDeliveryUnknown" /\ \E p \in pending : f.id = p.id
  BY DEF TimedOut, Expired

(* WaiterTimeout keeps the invariant.                                        *)
\* run_waiter on recv_timeout's Timeout.
LEMMA TimeoutKeepsHanded ==
    ASSUME Inv, Inv', HandedInv, WaiterTimeout
    PROVE  HandedInv'
<1>1. PICK p \in pending :
        /\ closing = {} /\ pending' = pending \ Expired(p.ticket) /\ closing' = TimedOut(p.ticket)
        /\ UNCHANGED <<now, attempts, lane, lanePc, item, ticket, waitq, mailbox, writerq, pty, entries, expiry>>
  BY DEF WaiterTimeout, laneVars, paneVars, cacheVars
<1>2. Awaits' \subseteq Awaits /\ Members(waitq') = Members(waitq)
  BY <1>1 DEF Awaits, Members
<1>3. \A f \in closing' : f.how = "Finalize" /\ f.result = "InputDeliveryUnknown"
  BY <1>1, TimedOutTrue
<1> QED
  BY <1>1, <1>2, <1>3, WaiterStepKeepsHanded

(* WaiterReceive keeps the invariant: the report the waiter takes up is true *)
(* of the batch that waits under its ticket, and no sink is left that could  *)
(* add to it.                                                                *)
\* run_waiter on a message, completion_result.
LEMMA ReceiveKeepsHanded ==
    ASSUME Inv, Inv', HandedInv, WaiterReceive
    PROVE  HandedInv'
<1>1. /\ closing = {} /\ waitq # << >> /\ waitq' = Tail(waitq)
      /\ UNCHANGED <<now, attempts, lane, lanePc, item, ticket, mailbox, writerq, pty, entries, expiry>>
  BY DEF WaiterReceive, laneVars, paneVars, cacheVars
<1>2. PICK m : m = Head(waitq)
  OBVIOUS
<1>3. /\ m \in WaiterMessage /\ m \in Members(waitq) /\ Members(waitq') \subseteq Members(waitq)
  BY <1>1, <1>2, TailMembers DEF Inv, TypeOK
<1>4. PICK k :
        LET kept == pending \ Expired(k)
            named == {p \in kept : p.ticket = m.ticket}
        IN  \/ /\ m.type = "Registered"
               /\ pending' = kept \cup {[id |-> m.id, ticket |-> m.ticket]}
               /\ closing' = TimedOut(k)
            \/ /\ m.type \in {"Completed", "Abandoned"}
               /\ pending' = kept \ named
               /\ closing' = TimedOut(k) \cup {Verdict(m, p) : p \in named}
  BY <1>2 DEF WaiterReceive
<1>5. Awaits' \subseteq Awaits
  <2>1. pending' \subseteq Awaits
    BY <1>3, <1>4 DEF Awaits
  <2> QED
    BY <2>1, <1>3 DEF Awaits
<1>6. ASSUME NEW p \in pending, p.ticket = m.ticket, m.type # "Registered"
      PROVE  /\ Refuses(m) => ~May(p.id)
             /\ Delivers(m) => Whole(p.id)
             /\ m.type = "Abandoned" => m.result # "Ok"
  <2>1. p \in Awaits /\ OrderOK /\ TicketsOK
    BY DEF Awaits, HandedInv, FatesOK
  <2>2. /\ m.type = "Abandoned" => m.result # "Ok"
        /\ \A e \in Sinks : e.ticket # m.ticket
        /\ (Refuses(m) => ~Handed(p.id)) /\ (Delivers(m) => Whole(p.id))
    BY <2>1, <1>3, <1>6 DEF HandedInv, FatesOK, ReportsOK
  <2>3. ~OnHand(p.id)
    <3>1. SUFFICES ASSUME OnHand(p.id) PROVE FALSE
      OBVIOUS
    <3>2. PICK s : s = [id |-> p.id, ticket |-> ticket]
      OBVIOUS
    <3>3. s \in Sinks /\ s.id = p.id /\ IsApply(s.id)
      BY <3>1, <3>2, <2>1, SinkTyped DEF OnHand
    <3>4. s.ticket = p.ticket
      BY <3>3, <2>1 DEF TicketsOK
    <3> QED
      BY <3>3, <3>4, <2>2, <1>6
  <2> QED
    BY <2>2, <2>3 DEF May
<1>7. ASSUME NEW f \in closing'
      PROVE  /\ f.how # "Recorded"
             /\ f.how = "Resolve" \/ f.result \notin {"Ok", "InputDeliveryUnknown"} => ~May(f.id)
             /\ f.result = "Ok" => f.how # "Resolve" /\ Whole(f.id)
  <2>1. CASE f \in TimedOut(k)
    BY <2>1, TimedOutTrue
  <2>2. ASSUME NEW p \in pending, p.ticket = m.ticket, m.type \in {"Completed", "Abandoned"}, f = Verdict(m, p)
        PROVE  /\ f.how # "Recorded"
               /\ f.how = "Resolve" \/ f.result \notin {"Ok", "InputDeliveryUnknown"} => ~May(f.id)
               /\ f.result = "Ok" => f.how # "Resolve" /\ Whole(f.id)
    <3>1. /\ Refuses(m) => ~May(p.id)
          /\ Delivers(m) => Whole(p.id)
          /\ m.type = "Abandoned" => m.result # "Ok"
      BY <2>2, <1>6
    <3>2. CASE m.type = "Completed"
      <4>1. f.id = p.id /\ f.how = "Finalize" /\ f.result = CompletionResult(m.outcome)
        BY <2>2, <3>2 DEF Verdict
      <4>2. m.outcome \in WriteOutcomes
        BY <1>3, <3>2 DEF WaiterMessage
      <4>3. /\ f.result = "Ok" => Delivers(m)
            /\ f.result \notin {"Ok", "InputDeliveryUnknown"} => Refuses(m)
        BY <4>1, <4>2, <3>2 DEF CompletionResult, WriteOutcomes, Delivers, Refuses
      <4> QED
        BY <4>1, <4>3, <3>1
    <3>3. CASE m.type = "Abandoned"
      <4>1. f.id = p.id /\ f.how = "Resolve" /\ f.result = m.result
        BY <2>2, <3>3 DEF Verdict
      <4> QED
        BY <4>1, <3>1, <3>3 DEF Refuses
    <3> QED
      BY <2>2, <3>2, <3>3
  <2>3. \/ f \in TimedOut(k)
        \/ \E p \in pending : p.ticket = m.ticket /\ m.type \in {"Completed", "Abandoned"} /\ f = Verdict(m, p)
    BY <1>4
  <2> QED
    BY <2>1, <2>2, <2>3
<1> QED
  BY <1>1, <1>3, <1>5, <1>7, WaiterStepKeepsHanded

(* RecordFinal keeps the invariant: a record that gets a result has one, and *)
(* nothing else of it changes.                                               *)
\* PendingCompletion::finalize, first half: OperationCache::set_final.
LEMMA RecordKeepsHanded ==
    ASSUME Inv, Inv', HandedInv, RecordFinal
    PROVE  HandedInv'
<1>1. PICK f \in closing :
        /\ f.how = "Finalize"
        /\ SetFinal(attempts[f.id].op, f.result)
        /\ closing' = (closing \ {f}) \cup {[f EXCEPT !.how = "Recorded"]}
        /\ UNCHANGED <<now, attempts, admission, laneVars, waitq, pending, paneVars, authorityVars>>
  BY DEF RecordFinal
<1>2. UNCHANGED <<now, attempts, lane, lanePc, item, ticket, waitq, pending, mailbox, writerq, pty>>
  BY <1>1 DEF laneVars, paneVars
<1>3. OrderOK /\ FatesOK /\ RecordsOK
  BY DEF HandedInv
<1>4. PICK g : g = [f EXCEPT !.how = "Recorded"]
  OBVIOUS
<1>5. g.id = f.id /\ g.how = "Recorded" /\ g.result = f.result /\ closing' = (closing \ {f}) \cup {g}
  BY <1>1, <1>4 DEF Inv, TypeOK, Closing
<1>6. f.id \in Ids /\ f.result \in FinalResults /\ f.result # "None" /\ OpOf(f.id) \in Operations
  BY <1>1 DEF Inv, OneAnswerOneSlot, ClosingOK, AttemptsOK, ApplyWaiting, FinalResults, OpOf
<1>7. HistoryKept /\ BoundsKept /\ LaneMoves /\ ThreadMoves
  <2>1. now =< now'
    BY <1>2 DEF Inv, TypeOK
  <2> QED
    BY <1>2, <1>3, <2>1 DEF HistoryKept, BoundsKept, LaneMoves, ThreadMoves, OrderOK, LaneOrderOK, Ids
<1>8. /\ PaneMoves
      /\ \A x : (Handed(x)' <=> Handed(x)) /\ (Whole(x)' <=> Whole(x))
      /\ \A r \in Resources : PaneSinks(r)' = PaneSinks(r)
  BY <1>2, <1>3, PanesStill
<1>9. OrderOK'
  BY <1>3, <1>7, <1>8, OrderStep
<1>10. \A x : (OnHand(x)' <=> OnHand(x)) /\ (ApplyWaiting(x)' <=> ApplyWaiting(x))
  BY <1>2 DEF OnHand, ApplyWaiting, IsApply, Ids
<1>11. SinksKept
  <2>1. OnHand(item)' <=> OnHand(item)
    BY <1>2 DEF OnHand, IsApply
  <2>2. \A e \in Sinks' : e \in Sinks
    BY <2>1, <1>2, <1>8, SinkSplit
  <2>3. Awaits' = Awaits
    BY <1>2 DEF Awaits, Members
  <2>4. ticket =< ticket'
    BY <1>2 DEF Inv, TypeOK
  <2> QED
    BY <2>2, <2>3, <2>4 DEF SinksKept
<1>12. ReportsTrue /\ HandsKept
  BY <1>2, <1>8, <1>10 DEF ReportsTrue, HandsKept, Members, May
<1>13. ClosingKept
  <2>1. \A h \in closing' : h \in closing \/ h = g
    BY <1>5
  <2> QED
    BY <2>1, <1>1, <1>5 DEF ClosingKept
<1>14. FatesOK'
  BY <1>3, <1>7, <1>9, <1>11, <1>12, <1>13, FatesStep
<1>15. ASSUME NEW p \in Operations
       PROVE  /\ entries'[p] # NoEntry <=> entries[p] # NoEntry
              /\ entries[p] # NoEntry =>
                    /\ entries'[p].inserted = entries[p].inserted /\ entries'[p].digest = entries[p].digest
                    /\ entries[p].result # "None" \/ p = OpOf(f.id) => entries'[p].result # "None"
  <2>1. PICK o, r : o = OpOf(f.id) /\ r = f.result
    OBVIOUS
  <2>2. SetFinal(o, r) /\ o \in Operations /\ r \in FinalResults /\ r # "None" /\ CacheTypeOK
    BY <2>1, <1>1, <1>6 DEF OpOf, Inv, TypeOK
  <2>3. /\ entries'[p] # NoEntry <=> entries[p] # NoEntry
        /\ entries[p] # NoEntry =>
              /\ entries'[p].inserted = entries[p].inserted /\ entries'[p].digest = entries[p].digest
              /\ entries'[p].result = IF p = o THEN r ELSE entries[p].result
    BY <2>2, SetFinalEffect
  <2> QED
    BY <2>1, <2>2, <2>3
<1>16. ASSUME NEW x \in Ids, Bound(x)
       PROVE  /\ OpOf(x)' = OpOf(x) /\ (Kept(x)' <=> Kept(x))
              /\ Kept(x) => entries'[OpOf(x)].digest = entries[OpOf(x)].digest
              /\ Kept(x) /\ (entries[OpOf(x)].result # "None" \/ x = f.id) => entries'[OpOf(x)].result # "None"
  <2>1. OpOf(x) \in Operations /\ OpOf(x)' = OpOf(x)
    BY <1>2, <1>3, <1>16 DEF OrderOK, LaneOrderOK, Inv, OneAnswerOneSlot, AttemptsOK, OpOf
  <2>2. PICK p \in Operations : p = OpOf(x)
    BY <2>1
  <2>3. Kept(x)' <=> entries'[p] # NoEntry /\ entries'[p].inserted = attempts[x].bound
    BY <2>1, <2>2, <1>2 DEF Kept
  <2>4. Kept(x) <=> entries[p] # NoEntry /\ entries[p].inserted = attempts[x].bound
    BY <2>2 DEF Kept
  <2> QED
    BY <2>1, <2>2, <2>3, <2>4, <1>15
<1>17. \A x : Bound(x)' <=> Bound(x)
  BY <1>2 DEF Bound
<1>18. BoundOK'
  <2>1. SUFFICES ASSUME NEW x \in Ids, Bound(x)
                 PROVE  /\ attempts'[x].bound \in Nat
                        /\ Kept(x)' => entries'[OpOf(x)'].digest = OperationDigest(attempts'[x])
                        /\ ~Kept(x)' => /\ Past(x, now)'
                                        /\ \A y \in Members(lane') : Past(x, attempts[y].admitted)'
    <3>1. Ids' = Ids
      BY <1>2 DEF Ids
    <3> QED
      BY <3>1, <1>17 DEF BoundOK
  <2>2. /\ attempts[x].bound \in Nat
        /\ Kept(x) => entries[OpOf(x)].digest = OperationDigest(attempts[x])
        /\ ~Kept(x) => /\ Past(x, now)
                       /\ \A y \in Members(lane) : Past(x, attempts[y].admitted)
    BY <2>1, <1>3 DEF RecordsOK, BoundOK
  <2>3. /\ OpOf(x)' = OpOf(x) /\ (Kept(x)' <=> Kept(x))
        /\ Kept(x) => entries'[OpOf(x)].digest = entries[OpOf(x)].digest
    BY <2>1, <1>16
  <2>4. ~Kept(x)' => Past(x, now)' /\ \A y \in Members(lane') : Past(x, attempts[y].admitted)'
    BY <2>2, <2>3, <1>2 DEF Past
  <2> QED
    BY <2>2, <2>3, <2>4, <1>2
<1>19. ResultKept'
  <2>1. ASSUME NEW x \in Ids', Bound(x)', Kept(x)', May(x)', ~ApplyWaiting(x)'
        PROVE  entries'[OpOf(x)'].result # "None"
    <3>1. x \in Ids /\ Bound(x) /\ May(x) /\ ~ApplyWaiting(x)
      BY <2>1, <1>2, <1>8, <1>10, <1>17 DEF Ids, May
    <3>2. Kept(x) /\ OpOf(x)' = OpOf(x)
      BY <3>1, <2>1, <1>16
    <3>3. entries[OpOf(x)].result # "None"
      BY <3>1, <3>2, <1>3 DEF RecordsOK, ResultKept
    <3> QED
      BY <3>1, <3>2, <3>3, <1>16
  <2>2. ASSUME NEW h \in closing', h.how = "Recorded", Bound(h.id)', Kept(h.id)'
        PROVE  entries'[OpOf(h.id)'].result # "None"
    <3>1. PICK x : x = h.id
      OBVIOUS
    <3>2. x \in Ids /\ Bound(x)
      <4>1. h \in closing \/ h.id = f.id
        BY <1>5
      <4>2. x \in Ids
        BY <4>1, <3>1, <1>3, <1>6, SinkTyped
      <4> QED
        BY <4>2, <3>1, <2>2, <1>2 DEF Bound
    <3>3. Kept(x) /\ OpOf(x)' = OpOf(x)
      <4>1. Kept(x)'
        BY <3>1, <2>2, <1>2 DEF Kept, OpOf
      <4> QED
        BY <4>1, <3>2, <1>16
    <3>4. CASE x = f.id
      BY <3>1, <3>2, <3>3, <3>4, <1>2, <1>16 DEF OpOf
    <3>5. CASE h \in closing
      <4>1. entries[OpOf(x)].result # "None"
        BY <3>1, <3>2, <3>3, <3>5, <2>2, <1>3 DEF RecordsOK, ResultKept
      <4>2. entries'[OpOf(x)].result # "None"
        BY <4>1, <3>2, <3>3, <1>16
      <4> QED
        BY <4>2, <3>1, <3>3, <1>2 DEF OpOf
    <3> QED
      BY <3>1, <3>4, <3>5, <1>5
  <2> QED
    BY <2>1, <2>2 DEF ResultKept
<1>20. OneCopy'
  <2>1. \A x, y : SameRecord(x, y)' <=> SameRecord(x, y)
    BY <1>2 DEF SameRecord, OpOf
  <2>2. \A x : May(x)' <=> May(x)
    BY <1>8, <1>10 DEF May
  <2> QED
    BY <2>1, <2>2, <1>2, <1>3, <1>10, <1>17 DEF RecordsOK, OneCopy, Past, OpOf, Ids
<1> QED
  BY <1>9, <1>14, <1>18, <1>19, <1>20 DEF HandedInv, RecordsOK

-----------------------------------------------------------------------------
(* Binding a batch to its dedupe record.                                     *)

\* The front of the lane, an acknowledged batch, is looked up in the cache
\* under b, and is answered or goes on bound to the record it found or made.
BindsFront(id, b) ==
    /\ lanePc = "Recv" /\ InLane(id) /\ ApplyWaiting(id)
    /\ BindAt(OpOf(id), OperationDigest(attempts[id]), attempts[id].admitted, b)
    /\ Ids' = Ids /\ now' = now /\ closing' = closing
    /\ \A x \in Ids : x # id => attempts'[x] = attempts[x]
    /\ \A x : Handed(x)' <=> Handed(x)
    /\ \A y \in Members(lane') : y \in Members(lane) /\ id < y
    /\ \/ attempts'[id].bound = -1 /\ lanePc' = "Recv"
       \/ /\ b \in {"New", "Pending"} /\ attempts'[id].bound = entries'[OpOf(id)].inserted
          /\ ApplyWaiting(id)' /\ lanePc' = "Register" /\ item' = id

(* A record that is still there after bind_at is as it was; one that is gone *)
(* was a retention old when the batch at the front was admitted.             *)
\* OperationCache::bind_at with AcknowledgedReservation::admitted_at.
LEMMA BindKeepsRecord ==
    ASSUME Inv, Inv', OrderOK, BoundOK, HistoryKept, NEW id, NEW b, BindsFront(id, b),
           NEW x \in Ids, x # id, Bound(x)
    PROVE  /\ Bound(x)' /\ OpOf(x)' = OpOf(x)
           /\ Kept(x)' => Kept(x) /\ entries'[OpOf(x)] = entries[OpOf(x)]
           /\ Kept(x)' /\ OpOf(x) = OpOf(id) => b # "New"
           /\ ~Kept(x)' => Past(x, attempts[id].admitted)
<1>1. /\ attempts'[x] = attempts[x] /\ id \in Ids /\ IsApply(id)
      /\ BindAt(OpOf(id), OperationDigest(attempts[id]), attempts[id].admitted, b)
  BY DEF BindsFront, ApplyWaiting
<1>2. OpOf(x)' = OpOf(x) /\ Bound(x)'
  BY <1>1 DEF OpOf, Bound
<1>3. OpOf(x) \in Operations /\ OpOf(id) \in Operations
  BY <1>1 DEF OrderOK, LaneOrderOK, Inv, OneAnswerOneSlot, AttemptsOK, OpOf
<1>4. attempts[id].admitted \in Nat /\ OperationDigest(attempts[id]) \in Digests
  <2>1. attempts[id].payload \in Payloads
    BY <1>1 DEF Inv, OneAnswerOneSlot, AttemptsOK
  <2>2. attempts[id].to \in Resources /\ attempts[id].admitted \in Nat
    BY <1>1, AttemptTyped DEF Inv, TypeOK, Ids
  <2> QED
    BY <2>1, <2>2, LaneAssumption DEF OperationDigest
<1>5. PICK o, d, t, p : o = OpOf(id) /\ d = OperationDigest(attempts[id]) /\ t = attempts[id].admitted /\ p = OpOf(x)
  OBVIOUS
<1>6. o \in Operations /\ p \in Operations /\ d \in Digests /\ t \in Nat /\ BindAt(o, d, t, b) /\ CacheTypeOK
  BY <1>1, <1>3, <1>4, <1>5 DEF Inv, TypeOK
<1>7. /\ \/ entries'[p] = entries[p]
         \/ entries[p] # NoEntry /\ entries[p].inserted + Retention =< t
         \/ entries[p] = NoEntry /\ p = o /\ b = "New"
      /\ entries'[p] # NoEntry => entries'[p] = entries[p] \/ (p = o /\ b = "New")
      /\ b = "New" =>
            /\ entries'[o] = [digest |-> d, result |-> "None", inserted |-> t]
            /\ entries[o] # NoEntry => entries[o].inserted + Retention =< t
  BY <1>6, BindEffect
<1>8. /\ Kept(x) <=> entries[p] # NoEntry /\ entries[p].inserted = attempts[x].bound
      /\ Kept(x)' <=> entries'[p] # NoEntry /\ entries'[p].inserted = attempts[x].bound
  BY <1>1, <1>2, <1>5 DEF Kept
<1>9. ~Kept(x) => attempts[x].bound + Retention =< t
  <2>1. id \in Members(lane)
    BY DEF BindsFront, InLane, Members
  <2> QED
    BY <2>1, <1>5 DEF BoundOK, Past
<1>10. attempts[x].bound \in Nat /\ Retention \in Nat /\ Retention > 0
  BY CacheAssumption DEF BoundOK
<1>11. ASSUME p = o, b = "New", Kept(x)' PROVE FALSE
  <2>1. attempts[x].bound = t
    BY <1>7, <1>8, <1>11
  <2>2. attempts[x].bound + Retention =< t
    BY <1>7, <1>8, <1>9, <1>11
  <2> QED
    BY <2>1, <2>2, <1>10
<1>12. Kept(x)' => Kept(x) /\ entries'[p] = entries[p]
  BY <1>7, <1>8, <1>11
<1>13. ~Kept(x)' => attempts[x].bound + Retention =< t
  BY <1>7, <1>8, <1>9
<1> QED
  BY <1>2, <1>5, <1>11, <1>12, <1>13 DEF Past

(* The record a batch is bound to is its own, or it is the unresolved record *)
(* of batches with the same target and events that are answered and in no    *)
(* pane.                                                                     *)
\* prepare_acknowledged_batch, CacheBinding::New and Pending.
LEMMA BoundAlone ==
    ASSUME Inv, Inv', OrderOK, RecordsOK, HistoryKept, NEW id, NEW b, BindsFront(id, b), lanePc' = "Register",
           NEW x \in Ids, x # id, Bound(x), OpOf(x) = OpOf(id), attempts[x].bound = attempts'[id].bound
    PROVE  ~May(x)' /\ ~ApplyWaiting(x)'
<1>1. /\ id \in Ids /\ IsApply(id) /\ attempts'[x] = attempts[x] /\ Ids' = Ids
      /\ b \in {"New", "Pending"} /\ attempts'[id].bound = entries'[OpOf(id)].inserted /\ item' = id
  BY DEF BindsFront, ApplyWaiting
<1>2. OpOf(id) \in Operations /\ attempts[id].admitted \in Nat /\ OperationDigest(attempts[id]) \in Digests
  <2>1. attempts[id].payload \in Payloads /\ OpOf(id) \in Operations
    BY <1>1 DEF Inv, OneAnswerOneSlot, AttemptsOK, OpOf
  <2>2. attempts[id].to \in Resources /\ attempts[id].admitted \in Nat
    BY <1>1, AttemptTyped DEF Inv, TypeOK, Ids
  <2> QED
    BY <2>1, <2>2, LaneAssumption DEF OperationDigest
<1>3. PICK o, d, t : o = OpOf(id) /\ d = OperationDigest(attempts[id]) /\ t = attempts[id].admitted
  OBVIOUS
<1>4. o \in Operations /\ d \in Digests /\ t \in Nat /\ BindAt(o, d, t, b) /\ CacheTypeOK
  BY <1>2, <1>3 DEF BindsFront, Inv, TypeOK
<1>5. /\ entries'[o] # NoEntry
      /\ b = "Pending" => entries[o].digest = d /\ entries[o].result = "None"
  <2>1. entries'[o] \in Entry
    BY <1>1, <1>4, BindTyped
  <2> QED
    BY <2>1, <1>4, BindEffect, CacheAssumption
<1>6. Kept(x)'
  BY <1>1, <1>3, <1>5 DEF Kept, OpOf
<1>7. Kept(x) /\ b = "Pending"
  BY <1>1, <1>6, BindKeepsRecord DEF RecordsOK
<1>8. OperationDigest(attempts[x]) = OperationDigest(attempts[id]) /\ entries[OpOf(x)].result = "None"
  BY <1>3, <1>5, <1>7 DEF RecordsOK, BoundOK
<1>9. attempts[x].to = attempts[id].to
  BY <1>8 DEF OperationDigest
<1>10. ~ApplyWaiting(x)
  <2>1. IsApply(id) /\ Waiting(id)
    BY DEF BindsFront, ApplyWaiting, Waiting
  <2> QED
    BY <2>1, <1>1, <1>9 DEF Inv, OneAnswerOneSlot, SlotHeldWhileUnanswered, ApplyWaiting, Waiting
<1>11. ~ApplyWaiting(x)'
  BY <1>1, <1>10 DEF ApplyWaiting, IsApply
<1>12. ~May(x)
  BY <1>7, <1>8, <1>10 DEF RecordsOK, ResultKept
<1>13. ~May(x)'
  <2>1. ~OnHand(x)'
    BY <1>1 DEF OnHand
  <2> QED
    BY <2>1, <1>12 DEF May, BindsFront
<1> QED
  BY <1>11, <1>13

(* Binding keeps what the records say.                                       *)
\* OperationCache::bind_at under prepare_acknowledged_batch.
LEMMA BindRecords ==
    ASSUME Inv, Inv', OrderOK, OrderOK', RecordsOK, HistoryKept, NEW id, NEW b, BindsFront(id, b)
    PROVE  RecordsOK'
<1>1. /\ id \in Ids /\ IsApply(id) /\ Ids' = Ids /\ lanePc = "Recv" /\ now' = now /\ closing' = closing
      /\ (\A x \in Ids : x # id => attempts'[x] = attempts[x]) /\ (\A x : Handed(x)' <=> Handed(x))
      /\ \A y \in Members(lane') : y \in Members(lane) /\ id < y
  BY DEF BindsFront, ApplyWaiting
<1>2. id \in Members(lane) /\ InLane(id) /\ Members(lane) \subseteq Ids
  BY DEF BindsFront, InLane, Members, Inv, OneAnswerOneSlot, LaneOK
<1>3. /\ \A x \in Ids : attempts[x].admitted \in Nat /\ attempts[x].bound \in Int
      /\ now \in Nat /\ Retention \in Nat /\ Ids \subseteq Nat
      /\ \A x \in Ids : attempts'[x].admitted = attempts[x].admitted /\ OpOf(x)' = OpOf(x)
  <2>1. attempts \in Seq(Attempt)
    BY DEF Inv, TypeOK
  <2>2. \A x \in Ids : attempts'[x].admitted = attempts[x].admitted /\ OpOf(x)' = OpOf(x)
    BY DEF HistoryKept, OpOf
  <2>3. now \in Nat /\ Retention \in Nat
    BY CacheAssumption DEF Inv, TypeOK
  <2> QED
    BY <2>1, <2>2, <2>3, AttemptTyped DEF Ids
<1>4. \A x \in Ids : Bound(x) => x < id /\ x # id /\ IsApply(x)
  BY <1>2, <1>3 DEF OrderOK, LaneOrderOK
<1>5. ASSUME NEW x \in Ids, Bound(x)', x # id PROVE Bound(x)
  BY <1>1, <1>5 DEF Bound
<1>6. ASSUME Bound(id)'
      PROVE  /\ b \in {"New", "Pending"} /\ attempts'[id].bound = entries'[OpOf(id)].inserted
             /\ ApplyWaiting(id)' /\ lanePc' = "Register" /\ item' = id
  BY <1>6 DEF Bound, BindsFront
<1>7. ASSUME Bound(id)'
      PROVE  /\ Kept(id)' /\ attempts'[id].bound \in Nat
             /\ entries'[OpOf(id)].digest = OperationDigest(attempts[id])
  <2>1. OpOf(id) \in Operations /\ attempts[id].admitted \in Nat /\ OperationDigest(attempts[id]) \in Digests
    <3>1. attempts[id].payload \in Payloads /\ OpOf(id) \in Operations
      BY <1>1 DEF Inv, OneAnswerOneSlot, AttemptsOK, OpOf
    <3>2. attempts[id].to \in Resources
      BY <1>1, AttemptTyped DEF Inv, TypeOK, Ids
    <3> QED
      BY <3>1, <3>2, <1>1, <1>3, LaneAssumption DEF OperationDigest
  <2>2. PICK o, d, t : o = OpOf(id) /\ d = OperationDigest(attempts[id]) /\ t = attempts[id].admitted
    OBVIOUS
  <2>3. o \in Operations /\ d \in Digests /\ t \in Nat /\ BindAt(o, d, t, b) /\ CacheTypeOK
    BY <2>1, <2>2 DEF BindsFront, Inv, TypeOK
  <2>4. entries'[o] \in Entry /\ b \in {"New", "Pending"}
    BY <2>3, <1>6, <1>7, BindTyped
  <2>5. /\ b = "New" => entries'[o] = [digest |-> d, result |-> "None", inserted |-> t]
        /\ b = "Pending" => entries'[o] = entries[o] /\ entries[o].digest = d
    BY <2>3, BindEffect
  <2>6. entries'[o].digest = d /\ entries'[o].inserted \in Nat /\ entries'[o] # NoEntry
    BY <2>4, <2>5, CacheAssumption DEF Entry
  <2>7. OpOf(id)' = o /\ attempts'[id].bound = entries'[o].inserted
    BY <2>2, <1>1, <1>3, <1>6, <1>7
  <2> QED
    BY <2>2, <2>6, <2>7 DEF Kept
<1>8. ASSUME NEW x \in Ids, x # id, Bound(x)
      PROVE  /\ attempts'[x] = attempts[x] /\ OpOf(x)' = OpOf(x)
             /\ Kept(x)' => Kept(x) /\ entries'[OpOf(x)] = entries[OpOf(x)]
             /\ ~Kept(x)' => attempts[x].bound + Retention =< attempts[id].admitted
  BY <1>1, <1>8, BindKeepsRecord DEF RecordsOK, Past
<1>9. BoundOK'
  <2>1. SUFFICES ASSUME NEW x \in Ids, Bound(x)'
                 PROVE  /\ attempts'[x].bound \in Nat
                        /\ Kept(x)' => entries'[OpOf(x)'].digest = OperationDigest(attempts'[x])
                        /\ ~Kept(x)' => /\ Past(x, now)'
                                        /\ \A y \in Members(lane') : Past(x, attempts[y].admitted)'
    BY <1>1 DEF BoundOK
  <2>2. CASE x = id
    <3>1. Kept(id)' /\ attempts'[id].bound \in Nat /\ entries'[OpOf(id)].digest = OperationDigest(attempts[id])
      BY <2>1, <2>2, <1>7
    <3>2. OpOf(id)' = OpOf(id) /\ OperationDigest(attempts'[id]) = OperationDigest(attempts[id])
      BY <1>1, <1>3 DEF OperationDigest, HistoryKept
    <3> QED
      BY <3>1, <3>2, <2>2
  <2>3. CASE x # id
    <3>1. Bound(x)
      BY <2>1, <2>3, <1>5
    <3>2. /\ attempts[x].bound \in Nat
          /\ Kept(x) => entries[OpOf(x)].digest = OperationDigest(attempts[x])
      BY <3>1 DEF RecordsOK, BoundOK
    <3>3. /\ attempts'[x] = attempts[x] /\ OpOf(x)' = OpOf(x)
          /\ Kept(x)' => Kept(x) /\ entries'[OpOf(x)] = entries[OpOf(x)]
          /\ ~Kept(x)' => attempts[x].bound + Retention =< attempts[id].admitted
      BY <3>1, <2>3, <1>8
    <3>4. ASSUME ~Kept(x)' PROVE Past(x, now)' /\ \A y \in Members(lane') : Past(x, attempts[y].admitted)'
      <4>1. attempts[id].admitted =< now
        BY <1>1 DEF OrderOK, ClockOK
      <4>2. attempts[x].bound + Retention =< now
        BY <4>1, <3>2, <3>3, <3>4, <1>1, <1>3
      <4>3. ASSUME NEW y \in Members(lane') PROVE attempts[x].bound + Retention =< attempts'[y].admitted
        <5>1. y \in Ids /\ id < y
          BY <1>1, <1>2
        <5>2. attempts[id].admitted =< attempts[y].admitted
          BY <5>1, <1>1 DEF OrderOK, ClockOK
        <5>3. attempts'[y].admitted = attempts[y].admitted /\ attempts[y].admitted \in Nat
          BY <5>1, <1>3
        <5> QED
          BY <5>2, <5>3, <3>2, <3>3, <3>4, <1>1, <1>3
      <4> QED
        BY <4>2, <4>3, <3>3, <1>1 DEF Past
    <3> QED
      BY <3>2, <3>3, <3>4
  <2> QED
    BY <2>2, <2>3
<1>10. ASSUME NEW x \in Ids, x # id PROVE (May(x)' => May(x)) /\ (ApplyWaiting(x)' <=> ApplyWaiting(x))
  <2>1. OnHand(x)' => FALSE
    BY <1>10 DEF OnHand, BindsFront
  <2> QED
    BY <2>1, <1>1, <1>10 DEF May, ApplyWaiting, IsApply
<1>11. ResultKept'
  <2>1. ASSUME NEW x \in Ids', Bound(x)', Kept(x)', May(x)', ~ApplyWaiting(x)'
        PROVE  entries'[OpOf(x)'].result # "None"
    <3>1. x \in Ids /\ x # id
      BY <2>1, <1>1, <1>6
    <3>2. Bound(x) /\ May(x) /\ ~ApplyWaiting(x)
      BY <3>1, <2>1, <1>5, <1>10
    <3>3. Kept(x) /\ entries'[OpOf(x)] = entries[OpOf(x)] /\ OpOf(x)' = OpOf(x)
      BY <3>1, <3>2, <2>1, <1>8
    <3> QED
      BY <3>1, <3>2, <3>3 DEF RecordsOK, ResultKept
  <2>2. ASSUME NEW f \in closing', f.how = "Recorded", Bound(f.id)', Kept(f.id)'
        PROVE  entries'[OpOf(f.id)'].result # "None"
    <3>1. f \in closing
      BY <1>1
    <3>2. PICK x : x = f.id
      OBVIOUS
    <3>3. x \in Ids /\ x # id
      BY <3>1, <3>2, <1>2, SinkTyped
    <3>4. Bound(x)' /\ Kept(x)' /\ closing' = closing
      BY <3>1, <3>2, <2>2, <1>1 DEF Bound, Kept, OpOf
    <3>5. Bound(x) /\ Kept(x) /\ entries'[OpOf(x)] = entries[OpOf(x)] /\ OpOf(x)' = OpOf(x)
      BY <3>3, <3>4, <1>5, <1>8
    <3>6. entries[OpOf(x)].result # "None"
      BY <3>1, <3>2, <3>5, <2>2 DEF RecordsOK, ResultKept
    <3>7. entries'[OpOf(x)'].result # "None"
      BY <3>5, <3>6
    <3> QED
      BY <3>2, <3>7 DEF OpOf
  <2> QED
    BY <2>1, <2>2 DEF ResultKept
<1>12. OneCopy'
  <2>1. ASSUME NEW x \in Ids, Bound(x)', Bound(id)', x # id, SameRecord(x, id)' \/ SameRecord(id, x)'
        PROVE  ~May(x)' /\ ~ApplyWaiting(x)'
    <3>1. Bound(x) /\ attempts'[x] = attempts[x]
      BY <2>1, <1>1, <1>5
    <3>2. OpOf(x) = OpOf(id) /\ attempts[x].bound = attempts'[id].bound
      BY <3>1, <2>1, <1>1, <1>3 DEF SameRecord
    <3> QED
      BY <3>1, <3>2, <2>1, <1>6, BoundAlone
  <2>2. ASSUME NEW x \in Ids, NEW y \in Ids, Bound(x)', Bound(y)', SameRecord(x, y)', May(x)',
               May(y)' \/ ApplyWaiting(y)'
        PROVE  x = y
    <3>1. CASE x # id /\ y # id
      <4>1. Bound(x) /\ Bound(y) /\ attempts'[x] = attempts[x] /\ attempts'[y] = attempts[y]
        BY <3>1, <2>2, <1>1, <1>5
      <4>2. SameRecord(x, y)
        BY <4>1, <2>2 DEF SameRecord, OpOf
      <4>3. May(x) /\ (May(y) \/ ApplyWaiting(y))
        BY <3>1, <2>2, <1>10
      <4> QED
        BY <4>1, <4>2, <4>3 DEF RecordsOK, OneCopy
    <3>2. CASE x = id \/ y = id
      BY <3>2, <2>1, <2>2
    <3> QED
      BY <3>1, <3>2
  <2>3. ASSUME NEW x \in Ids, NEW y \in Ids, Bound(x)', Bound(y)', x < y, OpOf(x)' = OpOf(y)',
               ~SameRecord(x, y)'
        PROVE  Past(x, attempts[y].admitted)'
    <3>1. CASE x # id /\ y # id
      <4>1. Bound(x) /\ Bound(y) /\ attempts'[x] = attempts[x] /\ attempts'[y] = attempts[y]
        BY <3>1, <2>3, <1>1, <1>5
      <4>2. OpOf(x) = OpOf(y) /\ ~SameRecord(x, y)
        BY <4>1, <2>3 DEF SameRecord, OpOf
      <4>3. Past(x, attempts[y].admitted)
        BY <4>1, <4>2, <2>3 DEF RecordsOK, OneCopy
      <4> QED
        BY <4>1, <4>3 DEF Past
    <3>2. CASE y = id
      <4>1. x # id
        BY <3>2, <2>3, <1>3
      <4>2. Bound(x) /\ attempts'[x] = attempts[x] /\ OpOf(x)' = OpOf(id)'
        BY <4>1, <3>2, <2>3, <1>1, <1>5
      <4>3. ~Kept(x)'
        <5>1. SUFFICES ASSUME Kept(x)' PROVE FALSE
          OBVIOUS
        <5>2. entries'[OpOf(id)].inserted = attempts'[x].bound
          BY <5>1, <4>2, <1>1, <1>3 DEF Kept
        <5>3. attempts'[id].bound = attempts'[x].bound
          BY <5>2, <3>2, <2>3, <1>6
        <5> QED
          BY <5>3, <4>2, <3>2, <2>3 DEF SameRecord
      <4>4. attempts[x].bound + Retention =< attempts[id].admitted
        BY <4>1, <4>2, <4>3, <1>8
      <4> QED
        BY <4>2, <4>4, <3>2, <1>1, <1>3 DEF Past
    <3>3. CASE x = id /\ y # id
      <4>1. Bound(y)
        BY <3>3, <2>3, <1>5
      <4>2. y < id
        BY <4>1, <1>4
      <4> QED
        BY <4>2, <3>3, <2>3, <1>1, <1>3
    <3> QED
      BY <3>1, <3>2, <3>3
  <2> QED
    BY <2>2, <2>3, <1>1 DEF OneCopy
<1> QED
  BY <1>9, <1>11, <1>12 DEF RecordsOK

(* The batch that is bound has a ticket nobody had before, so no report and  *)
(* no verdict is about it.                                                   *)
\* TicketSource, prepare_acknowledged_batch.
LEMMA BindFates ==
    ASSUME Inv, Inv', OrderOK, FatesOK, HistoryKept, NEW id, InLane(id), ApplyWaiting(id),
           lanePc = "Recv", lanePc' = "Register", item' = id, ticket' = ticket + 1,
           UNCHANGED <<waitq, pending, closing, mailbox, writerq, pty>>
    PROVE  FatesOK'
<1>1. /\ \A e \in Sinks : e \in Request /\ e.id \in Ids
      /\ \A e \in Awaits : e \in Request /\ e.id \in Ids /\ IsApply(e.id) /\ ~InLane(e.id)
      /\ \A f \in closing : f.id \in Ids /\ IsApply(f.id) /\ ~InLane(f.id)
  BY SinkTyped
<1>2. id \in Ids /\ IsApply(id) /\ ticket \in Nat /\ \A e \in Request : e.ticket \in Nat
  BY DEF ApplyWaiting, Inv, TypeOK, Request
<1>3. \A x \in Ids : IsApply(x)' <=> IsApply(x)
  BY DEF HistoryKept, IsApply
<1>4. /\ \A x : (Handed(x)' <=> Handed(x)) /\ (Whole(x)' <=> Whole(x))
      /\ \A r \in Resources : PaneSinks(r)' = PaneSinks(r)
  BY PanesStill
<1>5. PICK s : s = [id |-> id, ticket |-> ticket + 1]
  OBVIOUS
<1>6. s.id = id /\ s.ticket = ticket + 1
  BY <1>5
<1>7. \A e \in Sinks' : e \in Sinks \/ e = s
  BY <1>4, <1>5, SinkSplit
<1>8. \A e \in Sinks : \E r \in Resources : e \in PaneSinks(r)
  BY SinkSplit DEF OnHand
<1>9. \A e \in Sinks : e.id # id
  <2>1. id \in Members(lane) /\ id \in Nat
    BY <1>2 DEF InLane, Members, Ids, Inv, TypeOK
  <2>2. \A r \in Resources : \A x \in InPane(r) : x < id
    BY <2>1 DEF OrderOK, PaneOrderOK
  <2>3. \A r \in Resources : \A e \in PaneSinks(r) : e.id \in InPane(r)
    BY DEF PaneSinks, InPane, Members, IdsOf
  <2> QED
    BY <2>1, <2>2, <2>3, <1>8
<1>10. Awaits' = Awaits /\ Members(waitq') = Members(waitq) /\ \A e \in Awaits : e.id # id
  BY <1>1 DEF Awaits, Members
<1>11. /\ \A e \in Sinks : e.ticket = 0 <=> ~IsApply(e.id)
       /\ \A e \in Awaits : e.ticket # 0
       /\ \A e \in Sinks \cup Awaits : e.ticket =< ticket
       /\ \A d, e \in Sinks \cup Awaits :
             d.ticket # 0 /\ e.ticket # 0 => (d.ticket = e.ticket <=> d.id = e.id)
  BY DEF FatesOK, TicketsOK
<1>12. \A e \in Sinks \cup Awaits : e.ticket \in Nat /\ e.ticket =< ticket /\ e.ticket # ticket + 1 /\ e.id # id
  BY <1>1, <1>2, <1>9, <1>10, <1>11
<1>13. TicketsOK'
  <2>1. \A e \in Sinks' : e.ticket = 0 <=> ~IsApply(e.id)'
    <3>1. ASSUME NEW e \in Sinks' PROVE e.ticket = 0 <=> ~(attempts'[e.id].kind = "Apply")
      <4>1. CASE e \in Sinks
        BY <4>1, <1>1, <1>3, <1>11 DEF IsApply
      <4>2. CASE e = s
        BY <4>2, <1>2, <1>3, <1>6 DEF IsApply
      <4> QED
        BY <4>1, <4>2, <1>7
    <3> QED
      BY <3>1 DEF IsApply
  <2>2. \A e \in Sinks' \cup Awaits' : e \in Sinks \cup Awaits \/ e = s
    BY <1>7, <1>10
  <2>3. \A e \in Sinks' \cup Awaits' : e.ticket =< ticket'
    BY <2>2, <1>2, <1>6, <1>12
  <2>4. ASSUME NEW d \in Sinks' \cup Awaits', NEW e \in Sinks' \cup Awaits', d.ticket # 0, e.ticket # 0
        PROVE  d.ticket = e.ticket <=> d.id = e.id
    BY <2>2, <2>4, <1>6, <1>11, <1>12
  <2> QED
    BY <2>1, <2>3, <2>4, <1>10, <1>11 DEF TicketsOK
<1>14. ReportsOK'
  <2>1. SUFFICES ASSUME NEW m \in Members(waitq), m.type # "Registered"
                 PROVE  /\ m.ticket \in 1..ticket'
                        /\ m.type = "Abandoned" => m.result # "Ok"
                        /\ \A e \in Sinks' : e.ticket # m.ticket
                        /\ \A e \in Awaits' : e.ticket = m.ticket =>
                              /\ Refuses(m) => ~Handed(e.id)'
                              /\ Delivers(m) => Whole(e.id)'
    BY <1>10 DEF ReportsOK, Refuses, Delivers
  <2>2. /\ m.ticket \in 1..ticket
        /\ m.type = "Abandoned" => m.result # "Ok"
        /\ \A e \in Sinks : e.ticket # m.ticket
        /\ \A e \in Awaits : e.ticket = m.ticket =>
              (Refuses(m) => ~Handed(e.id)) /\ (Delivers(m) => Whole(e.id))
    BY <2>1 DEF FatesOK, ReportsOK
  <2>3. m.ticket \in 1..ticket' /\ m.ticket # ticket + 1
    BY <2>2, <1>2
  <2>4. \A e \in Sinks' : e.ticket # m.ticket
    BY <2>2, <2>3, <1>6, <1>7
  <2> QED
    BY <2>2, <2>3, <2>4, <1>4, <1>10
<1>15. VerdictsOK'
  <2>1. ASSUME NEW f \in closing PROVE May(f.id)' => May(f.id)
    <3>1. f.id # id
      BY <1>1
    <3> QED
      BY <3>1, <1>4 DEF May, OnHand
  <2>2. \A f \in closing : Whole(f.id)' <=> Whole(f.id)
    BY <1>4
  <2>3. ASSUME NEW f \in closing'
        PROVE  /\ f.how = "Resolve" \/ f.result \notin {"Ok", "InputDeliveryUnknown"} => ~May(f.id)'
               /\ f.result = "Ok" => f.how # "Resolve" /\ Whole(f.id)'
    <3>1. PICK g \in closing : g = f
      OBVIOUS
    <3>2. /\ g.how = "Resolve" \/ g.result \notin {"Ok", "InputDeliveryUnknown"} => ~May(g.id)
          /\ g.result = "Ok" => g.how # "Resolve" /\ Whole(g.id)
      BY DEF FatesOK, VerdictsOK
    <3>3. (May(g.id)' => May(g.id)) /\ (Whole(g.id)' <=> Whole(g.id))
      BY <2>1, <2>2
    <3>4. (May(f.id)' <=> May(g.id)') /\ (Whole(f.id)' <=> Whole(g.id)')
      BY <3>1 DEF May, Handed, Underway, Landed, OnHand, IsApply, Whole
    <3> QED
      BY <3>1, <3>2, <3>3, <3>4
  <2> QED
    BY <2>3 DEF VerdictsOK
<1> QED
  BY <1>13, <1>14, <1>15 DEF FatesOK

(* LaneBind keeps the invariant: the batch is answered and is in no pane, or *)
(* it goes on alone under its record.                                        *)
\* prepare_acknowledged_batch up to the dedupe record.
LEMMA BindKeepsHanded ==
    ASSUME Inv, Inv', HandedInv, LaneBind
    PROVE  HandedInv'
<1>1. PICK id : id = Head(lane)
  OBVIOUS
<1>2. /\ lanePc = "Recv" /\ lane # << >> /\ lane' = Tail(lane) /\ attempts[id].kind = "Apply"
      /\ ticket' = ticket + 1 /\ UNCHANGED <<now, waitq, pending, closing, mailbox, writerq, pty>>
  BY <1>1 DEF LaneBind, waiterVars, paneVars
<1>3. OrderOK /\ FatesOK /\ RecordsOK
  BY DEF HandedInv
<1>4. /\ LaneMoves /\ id \in Members(lane) /\ id \in Ids /\ \A y \in Members(lane') : id < y
      /\ InLane(id)
  BY <1>1, <1>2, <1>3, LaneTaken, LanePop
<1>5. IsApply(id) /\ ApplyWaiting(id)
  BY <1>2, <1>4 DEF IsApply, Inv, OneAnswerOneSlot, LaneOK, InLane
<1>6. /\ PaneMoves
      /\ \A x : (Handed(x)' <=> Handed(x)) /\ (Whole(x)' <=> Whole(x))
      /\ \A r \in Resources : PaneSinks(r)' = PaneSinks(r)
  BY <1>2, <1>3, PanesStill
<1>7. Awaits' = Awaits /\ Members(waitq') = Members(waitq) /\ ticket =< ticket'
  BY <1>2 DEF Awaits, Members, Inv, TypeOK
<1>8. ~Handed(id) /\ ~Bound(id) /\ id \in Nat
  <2>1. id \in Nat
    BY <1>4 DEF Ids, Inv, TypeOK
  <2>2. \A r \in Resources : id \notin InPane(r)
    BY <2>1, <1>3, <1>4 DEF OrderOK, PaneOrderOK
  <2>3. ~Bound(id)
    BY <2>1, <1>3, <1>4 DEF OrderOK, LaneOrderOK
  <2> QED
    BY <2>1, <2>2, <2>3, HandedInPane
<1>9. ASSUME NEW code \in Codes, Refuse(id, code), lanePc' = lanePc, item' = item
      PROVE  /\ HistoryKept /\ OrderOK' /\ FatesOK' /\ Ids' = Ids /\ attempts'[id].bound = -1
             /\ \A x \in Ids : x # id => attempts'[x] = attempts[x]
             /\ UNCHANGED <<entries, expiry>> => RecordsOK'
  <2>1. /\ AnswersOnly
        /\ \A x \in Ids : x # id => attempts'[x] = attempts[x]
        /\ \A x \in Ids : ApplyWaiting(x) /\ ~ApplyWaiting(x)' => x = id
    BY <1>4, <1>9, RefusalAnswers
  <2>2. /\ HistoryKept /\ BoundsKept
        /\ \A x \in Ids : attempts'[x].bound = attempts[x].bound
    BY <2>1, <1>2, AnswersKeepHistory
  <2>3. ThreadMoves /\ \A x : ~OnHand(x)'
    BY <1>2, <1>9 DEF ThreadMoves, OnHand
  <2>4. OrderOK'
    BY <2>2, <2>3, <1>3, <1>4, <1>6, OrderStep
  <2>5. SinksKept
    <3>1. ~OnHand(item)'
      BY <1>2, <1>9 DEF OnHand
    <3>2. \A e \in Sinks' : e \in Sinks
      BY <3>1, <1>6, SinkSplit
    <3> QED
      BY <3>2, <1>7 DEF SinksKept
  <2>6. ReportsTrue /\ ClosingKept /\ HandsKept
    BY <2>3, <1>2, <1>6, <1>7 DEF ReportsTrue, ClosingKept, HandsKept, May
  <2>7. FatesOK'
    BY <2>2, <2>4, <2>5, <2>6, <1>3, FatesStep
  <2>8. \A x \in Ids : (May(x)' => May(x)) /\ (x = id => ~May(x)')
    BY <2>3, <1>6, <1>8 DEF May
  <2>9. UNCHANGED <<entries, expiry>> => RecordsLeft
    BY <2>1, <2>2, <2>8, <1>2 DEF RecordsLeft, AnswersOnly
  <2>10. UNCHANGED <<entries, expiry>> => RecordsOK'
    BY <2>2, <2>4, <2>9, <1>3, <1>4, RecordsStep
  <2>11. attempts'[id].bound = -1 /\ Ids' = Ids
    BY <2>1, <2>2, <1>4, <1>8 DEF Bound, AnswersOnly
  <2> QED
    BY <2>1, <2>2, <2>4, <2>7, <2>10, <2>11
<1>10. CASE attempts[id].payload \in Malformed
  <2>1. Refuse(id, "InvalidCommand") /\ UNCHANGED <<lanePc, item, entries, expiry>>
    BY <1>1, <1>10 DEF LaneBind, cacheVars
  <2>2. "InvalidCommand" \in Codes
    BY DEF Codes
  <2> QED
    BY <2>1, <2>2, <1>9 DEF HandedInv
<1>11. CASE attempts[id].payload \notin Malformed
  <2>1. PICK b \in {"New", "Pending", "Final", "Conflict", "Full"} :
          /\ BindAt(OpOf(id), OperationDigest(attempts[id]), attempts[id].admitted, b)
          /\ \/ /\ b \in {"New", "Pending"}
                /\ attempts' = [attempts EXCEPT ![id].bound = entries'[OpOf(id)].inserted]
                /\ lanePc' = "Register" /\ item' = id
             \/ /\ b = "Final" /\ Refuse(id, entries'[OpOf(id)].result) /\ UNCHANGED <<lanePc, item>>
             \/ /\ b = "Conflict" /\ Refuse(id, "InvalidCommand") /\ UNCHANGED <<lanePc, item>>
             \/ /\ b = "Full" /\ Refuse(id, "ResourceExhausted") /\ UNCHANGED <<lanePc, item>>
    BY <1>1, <1>11 DEF LaneBind, OpOf
  <2>2. OpOf(id) \in Operations /\ attempts[id].admitted \in Nat /\ OperationDigest(attempts[id]) \in Digests
    <3>1. attempts[id].payload \in Payloads /\ OpOf(id) \in Operations
      BY <1>4, <1>5 DEF Inv, OneAnswerOneSlot, AttemptsOK, OpOf
    <3>2. attempts[id].to \in Resources /\ attempts[id].admitted \in Nat
      BY <1>4, AttemptTyped DEF Inv, TypeOK, Ids
    <3> QED
      BY <3>1, <3>2, LaneAssumption DEF OperationDigest
  <2>3. /\ b \in {"New", "Pending", "Final"} => entries'[OpOf(id)] \in Entry
        /\ b = "Final" => entries'[OpOf(id)].result \in FinalResults
    <3>1. PICK o, d, t : o = OpOf(id) /\ d = OperationDigest(attempts[id]) /\ t = attempts[id].admitted
      OBVIOUS
    <3>2. BindAt(o, d, t, b) /\ o \in Operations /\ d \in Digests /\ t \in Nat /\ CacheTypeOK
      BY <3>1, <2>1, <2>2 DEF Inv, TypeOK
    <3> QED
      BY <3>1, <3>2, BindTyped
  <2>4. CASE b \in {"Final", "Conflict", "Full"}
    <3>1. PICK code \in Codes : Refuse(id, code) /\ lanePc' = lanePc /\ item' = item
      BY <2>1, <2>3, <2>4 DEF Codes
    <3>2. /\ HistoryKept /\ OrderOK' /\ FatesOK' /\ Ids' = Ids /\ attempts'[id].bound = -1
          /\ \A x \in Ids : x # id => attempts'[x] = attempts[x]
      BY <3>1, <1>9
    <3>3. BindsFront(id, b)
      BY <3>1, <3>2, <2>1, <1>2, <1>4, <1>5, <1>6 DEF BindsFront, LaneMoves
    <3> QED
      BY <3>2, <3>3, <1>3, BindRecords DEF HandedInv
  <2>5. CASE b \in {"New", "Pending"}
    <3>1. PICK t : t = entries'[OpOf(id)].inserted
      OBVIOUS
    <3>2. /\ attempts' = [attempts EXCEPT ![id].bound = t] /\ t \in Nat
          /\ lanePc' = "Register" /\ item' = id
      BY <3>1, <2>1, <2>3, <2>5 DEF Entry
    <3>3. PICK a : a = [attempts[id] EXCEPT !.bound = t]
      OBVIOUS
    <3>4. attempts \in Seq(Attempt) /\ attempts[id] \in Attempt /\ id \in 1..Len(attempts)
      BY <1>4, AttemptTyped DEF Inv, TypeOK, Ids
    <3>5. /\ a \in Attempt /\ a.kind = attempts[id].kind /\ a.to = attempts[id].to /\ a.op = attempts[id].op
          /\ a.payload = attempts[id].payload /\ a.result = attempts[id].result
          /\ a.admitted = attempts[id].admitted /\ a.bound = t
      <4>1. t \in Int /\ attempts[id] \in Attempt
        BY <3>2, <3>4
      <4> QED
        BY <4>1, <3>3 DEF Attempt
    <3>6. attempts' = [attempts EXCEPT ![id] = a]
      BY <3>2, <3>3
    <3>7. Ids' = Ids /\ \A x \in Ids : attempts'[x] = IF x = id THEN a ELSE attempts[x]
      BY <3>4, <3>5, <3>6 DEF Ids
    <3>8. HistoryKept /\ BoundsKept
      <4>1. now =< now'
        BY <1>2 DEF Inv, TypeOK
      <4>2. t # -1
        BY <3>2
      <4> QED
        BY <4>1, <4>2, <3>2, <3>5, <3>7, <1>2 DEF HistoryKept, BoundsKept
    <3>9. ThreadMoves
      <4>1. attempts'[id].bound # -1
        BY <3>2, <3>5, <3>7, <1>4
      <4> QED
        BY <4>1, <3>2, <1>4 DEF ThreadMoves
    <3>10. OrderOK'
      BY <3>8, <3>9, <1>3, <1>4, <1>6, OrderStep
    <3>11. FatesOK'
      BY <3>2, <3>8, <1>2, <1>3, <1>4, <1>5, BindFates
    <3>12. ApplyWaiting(id)'
      BY <3>5, <3>7, <1>5 DEF ApplyWaiting, IsApply
    <3>13. BindsFront(id, b)
      <4>1. attempts'[id].bound = entries'[OpOf(id)].inserted
        BY <3>1, <3>5, <3>7, <1>4
      <4>2. \A x \in Ids : x # id => attempts'[x] = attempts[x]
        BY <3>7
      <4>3. \A y \in Members(lane') : y \in Members(lane)
        BY <3>7, <1>4 DEF LaneMoves
      <4> QED
        BY <4>1, <4>2, <4>3, <3>2, <3>7, <3>12, <2>1, <2>5, <1>2, <1>4, <1>5, <1>6 DEF BindsFront
    <3> QED
      BY <3>8, <3>10, <3>11, <3>13, <1>3, BindRecords DEF HandedInv
  <2> QED
    BY <2>4, <2>5
<1> QED
  BY <1>10, <1>11

-----------------------------------------------------------------------------
(* Results.                                                                  *)

(* Nothing is handed over and nothing recorded at the start.                 *)
\* spawn_input_lane, InputLane::new.
LEMMA InitHanded == Init => HandedInv
<1> SUFFICES ASSUME Init PROVE HandedInv
  OBVIOUS
<1>1. /\ Ids = {} /\ Members(lane) = {} /\ Members(waitq) = {} /\ lanePc = "Recv"
      /\ pending = {} /\ closing = {} /\ lane = << >>
      /\ \A r \in Resources : mailbox[r] = << >> /\ writerq[r] = << >> /\ pty[r] = << >>
  BY DEF Init, Ids, Members
<1>2. \A r \in Resources : InPane(r) = {} /\ PaneSinks(r) = {} /\ Chain(pty[r], writerq[r], mailbox[r])
  BY <1>1 DEF InPane, PaneSinks, IdsOf, Members, Chain, Ascending, Before
<1>3. Sinks = {} /\ Awaits = {}
  <2>1. Sinks = {}
    BY <1>1, <1>2, SinkSplit DEF OnHand
  <2> QED
    BY <2>1, <1>1 DEF Awaits
<1>4. OrderOK
  BY <1>1, <1>2 DEF OrderOK, PaneOrderOK, LaneOrderOK, ClockOK
<1>5. FatesOK
  BY <1>1, <1>3 DEF FatesOK, TicketsOK, ReportsOK, VerdictsOK
<1>6. RecordsOK
  BY <1>1 DEF RecordsOK, BoundOK, ResultKept, OneCopy
<1> QED
  BY <1>4, <1>5, <1>6 DEF HandedInv

(* Every step of every thread keeps the invariant.                           *)
\* The whole pipeline.
LEMMA NextHanded == Inv /\ Inv' /\ HandedInv /\ [Next]_vars => HandedInv'
<1> SUFFICES ASSUME Inv, Inv', HandedInv, [Next]_vars PROVE HandedInv'
  OBVIOUS
<1>1. CASE Tick \/ \E c \in Clients : AuthorityStep(c)
  BY <1>1, AuthorityKeepsHanded
<1>2. CASE \E c \in Clients, r \in Resources : ClientStep(c, r)
  BY <1>2, ClientKeepsHanded
<1>3. CASE LaneStep
  BY <1>3, BindKeepsHanded, RegisterKeepsHanded, HandoffKeepsHanded, GateKeepsHanded,
     UnackedHandoffKeepsHanded DEF LaneStep
<1>4. CASE WaiterStep
  BY <1>4, ReceiveKeepsHanded, TimeoutKeepsHanded, RecordKeepsHanded, ReplyKeepsHanded DEF WaiterStep
<1>5. CASE \E r \in Resources : PaneStep(r)
  BY <1>5, PaneKeepsHanded
<1>6. CASE UNCHANGED vars
  <2>1. now =< now'
    BY <1>6 DEF vars, Inv, TypeOK
  <2> QED
    BY <2>1, <1>6, IdleKeepsHanded DEF vars, laneVars, waiterVars, paneVars, cacheVars
<1> QED
  BY <1>1, <1>2, <1>3, <1>4, <1>5, <1>6 DEF Next

(* Order, reports and records stay as promised, for any number of clients,   *)
(* Terminals and frames, any queue capacities and any retention.             *)
\* The lane, the completion waiter, the dedupe record and the panes together.
THEOREM HandedInvHolds == Spec => []HandedInv
  BY InitHanded, NextHanded, InvHolds, PTL DEF Spec

(* What reaches a PTY reaches it in the order it came off the wire.          *)
\* RoutedInput's one lane and the FIFO queues of the pane.
THEOREM InputInWireOrder == Spec => []WireOrder
<1>1. HandedInv => WireOrder
  <2> SUFFICES ASSUME HandedInv PROVE WireOrder
    OBVIOUS
  <2>1. \A r \in Resources : Ascending(pty[r])
    BY DEF HandedInv, OrderOK, PaneOrderOK, Chain
  <2> QED
    BY <2>1 DEF WireOrder, Ascending
<1> QED
  BY <1>1, HandedInvHolds, PTL

(* A batch bound to a record that another may be writing under is that one.  *)
\* OperationCache::bind_at, AcknowledgedReservation.
LEMMA OneUnderRecord ==
    ASSUME Inv, HandedInv, NEW x \in Ids, NEW y \in Ids, Bound(y), Handed(x),
           OpOf(x) = OpOf(y), attempts[x].bound = attempts[y].bound, May(y) \/ ApplyWaiting(y)
    PROVE  x = y
<1>1. Bound(x) /\ SameRecord(x, y) /\ May(x)
  BY DEF Bound, SameRecord, May
<1> QED
  BY <1>1 DEF HandedInv, RecordsOK, OneCopy

(* APPLY_INPUT is idempotent for a whole retention.                          *)
\* OperationCache::bind_at, AcknowledgedReservation, PendingCompletion::finalize.
THEOREM Idempotent == Spec => []HandedOncePerRetention
<1>1. Inv /\ HandedInv => HandedOncePerRetention
  <2> SUFFICES ASSUME Inv, HandedInv, NEW x \in Ids, NEW y \in Ids, x < y, IsApply(x), IsApply(y),
                      attempts[x].op = attempts[y].op, Handed(x), Handed(y)
               PROVE  attempts[y].admitted >= attempts[x].bound + Retention
    BY DEF HandedOncePerRetention
  <2>1. Bound(x) /\ Bound(y)
    BY HandedInPane DEF HandedInv, OrderOK, PaneOrderOK
  <2>2. x \in Nat /\ y \in Nat
    BY DEF Ids, Inv, TypeOK
  <2>3. ~SameRecord(x, y)
    <3>1. SUFFICES ASSUME SameRecord(x, y) PROVE x = y
      BY <2>2
    <3> QED
      BY <3>1, <2>1, OneUnderRecord DEF SameRecord, May
  <2>4. attempts[x].bound + Retention =< attempts[y].admitted
    BY <2>1, <2>3 DEF HandedInv, RecordsOK, OneCopy, OpOf, Past
  <2>5. attempts[x].bound \in Int /\ attempts[y].admitted \in Nat /\ Retention \in Nat
    BY AttemptTyped, CacheAssumption DEF Inv, TypeOK, Ids
  <2> QED
    BY <2>4, <2>5
<1> QED
  BY <1>1, InvHolds, HandedInvHolds, PTL

(* `Pending` is never read while a copy of the batch is on its way.          *)
\* prepare_acknowledged_batch's claim about CacheBinding::Pending.
THEOREM PendingIsSafe == Spec => []PendingMeansNotHanded
<1>1. Inv /\ HandedInv => PendingMeansNotHanded
  <2> SUFFICES ASSUME Inv, HandedInv, lanePc \in {"Register", "Handoff"}, IsApply(item), NEW x \in Ids,
                      IsApply(x), attempts[x].op = attempts[item].op, attempts[x].bound = attempts[item].bound,
                      Handed(x)
               PROVE  FALSE
    BY DEF PendingMeansNotHanded
  <2>1. lanePc # "Recv" /\ item \in Ids /\ OnHand(item) /\ OrderOK
    BY DEF Inv, OneAnswerOneSlot, ThreadOK, OnHand, HandedInv
  <2>2. Bound(item) /\ May(item)
    BY <2>1 DEF OrderOK, LaneOrderOK, May
  <2>3. PICK y : y = item
    OBVIOUS
  <2>4. x = y
    BY <2>1, <2>2, <2>3, OneUnderRecord DEF OpOf
  <2> QED
    BY <2>1, <2>3, <2>4, ItemNotHanded
<1> QED
  BY <1>1, InvHolds, HandedInvHolds, PTL

(* Only the lane's refusals and the waiter's replies answer a bound batch.   *)
\* AcknowledgedReservation's reply channel.
LEMMA WhoAnswers ==
    ASSUME Inv, HandedInv, [Next]_vars, NEW x \in Ids, IsApply(x), Bound(x),
           attempts'[x].result # attempts[x].result
    PROVE  \/ LaneRegister /\ x = item /\ lanePc = "Register" /\ UNCHANGED <<mailbox, writerq, pty>>
           \/ \E f \in closing : /\ f.id = x /\ attempts'[x].result = f.result
                                 /\ UNCHANGED <<mailbox, writerq, pty>>
<1>1. attempts \in Seq(Attempt) /\ x \in 1..Len(attempts) /\ attempts' # attempts
  BY DEF Inv, TypeOK, Ids
<1>2. ASSUME NEW c \in Clients, NEW r \in Resources, ClientStep(c, r) PROVE FALSE
  <2>1. PICK a : attempts' = Append(attempts, a)
    BY <1>2 DEF ClientStep, RouteAttached, RouteCommand, ApplyInput, Arrives
  <2>2. attempts'[x] = attempts[x]
    BY <2>1, <1>1
  <2> QED
    BY <2>2
<1>3. CASE LaneBind
  <2>1. PICK id : id = Head(lane)
    OBVIOUS
  <2>2. lane # << >> /\ lane' = Tail(lane)
    BY <1>3 DEF LaneBind
  <2>3. id \in Members(lane) /\ id \in Nat
    BY <2>1, <2>2, TailMembers DEF Inv, TypeOK
  <2>4. x < id
    BY <2>3 DEF HandedInv, OrderOK, LaneOrderOK
  <2>5. (\E v : attempts' = [attempts EXCEPT ![id].result = v]) \/ (\E v : attempts' = [attempts EXCEPT ![id].bound = v])
    BY <1>3, <2>1 DEF LaneBind, Refuse
  <2>6. x = id
    BY <2>5, <1>1
  <2> QED
    BY <2>3, <2>4, <2>6
<1>4. CASE LaneRegister
  <2>1. (\E v : attempts' = [attempts EXCEPT ![item].result = v]) \/ attempts' = attempts
    BY <1>4 DEF LaneRegister, Refuse
  <2>2. x = item
    BY <2>1, <1>1
  <2> QED
    BY <2>2, <1>4 DEF LaneRegister, paneVars
<1>5. CASE LaneGate
  <2>1. PICK id : id = Head(lane)
    OBVIOUS
  <2>2. (\E v : attempts' = [attempts EXCEPT ![id].result = v]) \/ attempts' = attempts
    BY <1>5, <2>1 DEF LaneGate, AnswerUnacked, Answer
  <2>3. attempts[id].kind # "Apply"
    BY <1>5, <2>1 DEF LaneGate
  <2>4. x = id
    BY <1>1, <2>2
  <2> QED
    BY <2>3, <2>4 DEF IsApply
<1>6. CASE LaneHandoffUnacked
  <2>1. (\E v : attempts' = [attempts EXCEPT ![item].result = v]) \/ attempts' = attempts
    BY <1>6 DEF LaneHandoffUnacked, AnswerUnacked, Answer
  <2>2. x = item /\ attempts[item].kind # "Apply"
    BY <1>1, <1>6, <2>1 DEF LaneHandoffUnacked
  <2> QED
    BY <2>2 DEF IsApply
<1>7. CASE ReleaseAndReply
  <2>1. PICK f \in closing : Refuse(f.id, f.result) /\ UNCHANGED <<mailbox, writerq, pty>>
    BY <1>7 DEF ReleaseAndReply, paneVars
  <2>2. attempts' = [attempts EXCEPT ![f.id].result = f.result]
    BY <2>1 DEF Refuse
  <2>3. x = f.id
    BY <2>2, <1>1
  <2>4. attempts'[x].result = f.result
    BY <2>2, <2>3, <1>1 DEF Attempt
  <2> QED
    BY <2>1, <2>3, <2>4
<1>8. CASE LaneHandoff \/ WaiterReceive \/ WaiterTimeout \/ RecordFinal
  BY <1>1, <1>8 DEF LaneHandoff, WaiterReceive, WaiterTimeout, RecordFinal
<1>9. ASSUME NEW r \in Resources, PaneStep(r) PROVE FALSE
  BY <1>1, <1>9 DEF PaneStep, ServiceEncodedInput, ActorStops, ActorExits, MailboxDrop, ReapResource,
     WriteDelivers, WriteRefused, WriteFails, WriterQueueDrop
<1>10. CASE Tick \/ (\E c \in Clients : AuthorityStep(c)) \/ UNCHANGED vars
  BY <1>1, <1>10 DEF Tick, AuthorityStep, vars
<1> QED
  BY <1>2, <1>3, <1>4, <1>5, <1>6, <1>7, <1>8, <1>9, <1>10 DEF Next, LaneStep, WaiterStep

(* A refusal is a proof that nothing was and nothing will be written.        *)
\* acknowledged_not_written, WriteCompletion::NotWritten, canonical_refusal.
THEOREM RefusalsAreProofs == Spec => RefusalIsProof
<1> DEFINE Refused(x) == (IsApply(x) /\ Waiting(x) /\ attempts[x].bound # -1
                            /\ attempts'[x].result \notin {"Waiting", "Ok", "InputDeliveryUnknown"})
           Shares(y, x) == (attempts[y].op = attempts[x].op /\ attempts[y].bound = attempts[x].bound)
<1>1. ASSUME Inv, HandedInv, [Next]_vars, NEW x \in Ids, NEW y \in Ids, Refused(x), Shares(y, x), Handed(y)'
      PROVE  FALSE
  <2>1. Bound(x) /\ ApplyWaiting(x) /\ OpOf(y) = OpOf(x) /\ IsApply(x) /\ attempts'[x].result # attempts[x].result
    BY <1>1 DEF Bound, ApplyWaiting, Waiting, OpOf
  <2>2. \/ LaneRegister /\ x = item /\ lanePc = "Register" /\ UNCHANGED <<mailbox, writerq, pty>>
        \/ \E f \in closing : /\ f.id = x /\ attempts'[x].result = f.result
                              /\ UNCHANGED <<mailbox, writerq, pty>>
    BY <2>1, <1>1, WhoAnswers
  <2>3. Handed(y) /\ OrderOK /\ VerdictsOK
    BY <2>2, <1>1, PanesStill DEF HandedInv, FatesOK
  <2>4. y = x
    BY <2>1, <2>3, <1>1, OneUnderRecord
  <2>5. CASE x = item /\ lanePc = "Register"
    BY <2>3, <2>4, <2>5, <1>1, ItemNotHanded
  <2>6. CASE \E f \in closing : f.id = x /\ attempts'[x].result = f.result
    BY <2>3, <2>4, <2>6, <1>1 DEF VerdictsOK, May
  <2> QED
    BY <2>2, <2>5, <2>6
<1>2. Inv /\ HandedInv /\ [Next]_vars =>
         [\A x \in Ids : Refused(x) => \A y \in Ids : Shares(y, x) => ~Handed(y)']_vars
  BY <1>1
<1> QED
  BY <1>2, InvHolds, HandedInvHolds, PTL DEF Spec, RefusalIsProof

-----------------------------------------------------------------------------
(* OK.                                                                       *)

(* Steps that write OK only of an operation that is written keep the         *)
(* promise: what is in the PTY stays there.                                  *)
\* completion_result, OperationCache::set_final and the replies.
LEMMA OkStep ==
    ASSUME OkIsWritten, Ids \subseteq Ids',
           \A x \in Ids : attempts'[x].kind = attempts[x].kind /\ attempts'[x].op = attempts[x].op,
           \A x : Whole(x) => Whole(x)',
           \A o \in Operations : entries'[o] # NoEntry /\ entries'[o].result = "Ok" =>
               (entries[o] # NoEntry /\ entries[o].result = "Ok") \/ Written(o),
           \A x \in Ids' : attempts'[x].kind = "Apply" /\ attempts'[x].result = "Ok" =>
               x \in Ids /\ (attempts[x].result = "Ok" \/ Written(OpOf(x)))
    PROVE  OkIsWritten'
<1>1. \A o : Written(o) => Written(o)'
  <2>1. ASSUME NEW o, NEW y \in Ids, IsApply(y), OpOf(y) = o, Whole(y) PROVE Written(o)'
    <3>1. IsApply(y)' /\ OpOf(y)' = o /\ Whole(y)' /\ y \in Ids'
      BY <2>1 DEF IsApply, OpOf
    <3> QED
      BY <3>1 DEF Written
  <2> QED
    BY <2>1 DEF Written
<1>2. \A o \in Operations : entries'[o] # NoEntry /\ entries'[o].result = "Ok" => Written(o)'
  BY <1>1 DEF OkIsWritten
<1>3. ASSUME NEW x \in Ids', IsApply(x)', attempts'[x].result = "Ok" PROVE Written(OpOf(x))'
  <2>1. x \in Ids /\ IsApply(x) /\ OpOf(x)' = OpOf(x)
    BY <1>3 DEF IsApply, OpOf
  <2>2. Written(OpOf(x))
    BY <2>1, <1>3 DEF OkIsWritten, IsApply
  <2>3. PICK o : o = OpOf(x)
    OBVIOUS
  <2>4. Written(o)'
    BY <2>2, <2>3, <1>1
  <2> QED
    BY <2>1, <2>3, <2>4 DEF Written
<1> QED
  BY <1>2, <1>3 DEF OkIsWritten

(* What is in a PTY stays there.                                             *)
\* Nothing but service_write_request touches the PTY.
LEMMA WrittenStays ==
    ASSUME Inv, [Next]_vars, NEW x, Whole(x)
    PROVE  Whole(x)'
<1>1. CASE pty' = pty
  BY <1>1 DEF Whole, Members
<1>2. ASSUME NEW r \in Resources, NEW w \in BOOLEAN, writerq[r] # << >>, Lands(r, w) PROVE Whole(x)'
  <2>1. PICK e : e = [id |-> Head(writerq[r]).id, whole |-> w]
    OBVIOUS
  <2>2. Head(writerq[r]) \in Request
    BY <1>2, TailMembers DEF Inv, TypeOK
  <2>3. e \in Landing
    BY <2>1, <2>2 DEF Landing, Request
  <2>4. pty' = [pty EXCEPT ![r] = Append(@, e)] /\ pty \in [Resources -> Seq(Landing)]
    BY <2>1, <1>2 DEF Lands, Inv, TypeOK, Landing
  <2>5. Members(pty'[r]) = Members(pty[r]) \cup {e} /\ \A q \in Resources : q # r => pty'[q] = pty[q]
    <3>1. pty'[r] = Append(pty[r], e) /\ pty[r] \in Seq(Landing) /\ \A q \in Resources : q # r => pty'[q] = pty[q]
      BY <2>4
    <3> QED
      BY <3>1, <2>3, AppendMembers
  <2> QED
    BY <2>5 DEF Whole
<1>3. ASSUME NEW r \in Resources, PaneStep(r)
      PROVE  pty' = pty \/ (writerq[r] # << >> /\ \E w \in BOOLEAN : Lands(r, w))
  BY <1>3 DEF PaneStep, ServiceEncodedInput, ActorStops, ActorExits, MailboxDrop, ReapResource,
     WriteDelivers, WriteRefused, WriteFails, WriterQueueDrop, paneVars
<1>4. LaneStep \/ WaiterStep => pty' = pty
  BY DEF LaneStep, LaneBind, LaneRegister, LaneHandoff, LaneGate, LaneHandoffUnacked,
     WaiterStep, WaiterReceive, WaiterTimeout, RecordFinal, ReleaseAndReply, paneVars
<1>5. (\E c \in Clients, r \in Resources : ClientStep(c, r)) => pty' = pty
  BY DEF ClientStep, RouteAttached, RouteCommand, ApplyInput, paneVars
<1>6. Tick \/ (\E c \in Clients : AuthorityStep(c)) \/ UNCHANGED vars => pty' = pty
  BY DEF Tick, AuthorityStep, paneVars, vars
<1> QED
  BY <1>1, <1>2, <1>3, <1>4, <1>5, <1>6 DEF Next

(* Looking an operation up keeps the promise: a cached OK is passed on.      *)
\* CacheBinding::Final.
LEMMA BindKeepsOk ==
    ASSUME Inv, Inv', HandedInv, OkIsWritten, LaneBind, \A x : Whole(x) => Whole(x)'
    PROVE  OkIsWritten'
<1>1. PICK id : id = Head(lane)
  OBVIOUS
<1>2. lane # << >> /\ lane' = Tail(lane) /\ attempts[id].kind = "Apply"
  BY <1>1 DEF LaneBind
<1>3. id \in Ids /\ IsApply(id) /\ OpOf(id) \in Operations /\ attempts[id].result = "Waiting"
  <2>1. id \in Ids /\ IsApply(id) /\ InLane(id)
    BY <1>1, <1>2, LanePop DEF IsApply
  <2> QED
    BY <2>1 DEF Inv, OneAnswerOneSlot, AttemptsOK, LaneOK, InLane, ApplyWaiting, OpOf
<1>4. attempts[id].admitted \in Nat /\ OperationDigest(attempts[id]) \in Digests
  <2>1. attempts[id].payload \in Payloads
    BY <1>3 DEF Inv, OneAnswerOneSlot, AttemptsOK
  <2>2. attempts[id].to \in Resources /\ attempts[id].admitted \in Nat
    BY <1>3, AttemptTyped DEF Inv, TypeOK, Ids
  <2> QED
    BY <2>1, <2>2, LaneAssumption DEF OperationDigest
<1>5. ASSUME NEW code \in Codes, Refuse(id, code), code = "Ok" => Written(OpOf(id)),
             \A o \in Operations : entries'[o] # NoEntry /\ entries'[o].result = "Ok" =>
                entries[o] # NoEntry /\ entries[o].result = "Ok"
      PROVE  OkIsWritten'
  <2>1. /\ AnswersOnly /\ attempts'[id].result = code
        /\ \A x \in Ids : x # id => attempts'[x] = attempts[x]
    BY <1>3, <1>5, RefusalAnswers
  <2>2. \A x \in Ids' : attempts'[x].kind = "Apply" /\ attempts'[x].result = "Ok" =>
           x \in Ids /\ (attempts[x].result = "Ok" \/ Written(OpOf(x)))
    BY <2>1, <1>5 DEF AnswersOnly
  <2> QED
    BY <2>1, <2>2, <1>5, OkStep DEF AnswersOnly
<1>6. CASE attempts[id].payload \in Malformed
  <2>1. Refuse(id, "InvalidCommand") /\ entries' = entries
    BY <1>1, <1>6 DEF LaneBind, cacheVars
  <2> QED
    BY <2>1, <1>5 DEF Codes
<1>7. CASE attempts[id].payload \notin Malformed
  <2>1. PICK b \in {"New", "Pending", "Final", "Conflict", "Full"} :
          /\ BindAt(OpOf(id), OperationDigest(attempts[id]), attempts[id].admitted, b)
          /\ \/ /\ b \in {"New", "Pending"}
                /\ attempts' = [attempts EXCEPT ![id].bound = entries'[OpOf(id)].inserted]
             \/ /\ b = "Final" /\ Refuse(id, entries'[OpOf(id)].result)
             \/ /\ b = "Conflict" /\ Refuse(id, "InvalidCommand")
             \/ /\ b = "Full" /\ Refuse(id, "ResourceExhausted")
    BY <1>1, <1>7 DEF LaneBind, OpOf
  <2>2. PICK o, d, t : o = OpOf(id) /\ d = OperationDigest(attempts[id]) /\ t = attempts[id].admitted
    OBVIOUS
  <2>3. BindAt(o, d, t, b) /\ o \in Operations /\ d \in Digests /\ t \in Nat /\ CacheTypeOK
    BY <2>1, <2>2, <1>3, <1>4 DEF Inv, TypeOK
  <2>4. /\ \A p \in Operations : entries'[p] # NoEntry => entries'[p] = entries[p] \/ (p = o /\ b = "New")
        /\ b = "New" => entries'[o] = [digest |-> d, result |-> "None", inserted |-> t]
        /\ b = "Final" => entries'[o] = entries[o] /\ entries[o] # NoEntry
    BY <2>3, BindEffect
  <2>5. b = "Final" => entries'[o].result \in FinalResults
    BY <2>3, BindTyped
  <2>6. \A p \in Operations : entries'[p] # NoEntry /\ entries'[p].result = "Ok" =>
           entries[p] # NoEntry /\ entries[p].result = "Ok"
    BY <2>4
  <2>7. CASE b \in {"Final", "Conflict", "Full"}
    <3>1. b = "Final" => entries'[o].result \in Codes /\ (entries'[o].result = "Ok" => Written(o))
      BY <2>3, <2>4, <2>5 DEF OkIsWritten, Codes
    <3> QED
      BY <3>1, <2>1, <2>2, <2>6, <2>7, <1>5 DEF Codes
  <2>8. CASE b \in {"New", "Pending"}
    <3>1. PICK k : k = entries'[OpOf(id)].inserted
      OBVIOUS
    <3>2. attempts' = [attempts EXCEPT ![id].bound = k]
      BY <3>1, <2>1, <2>8
    <3>3. PICK a : a = [attempts[id] EXCEPT !.bound = k]
      OBVIOUS
    <3>4. attempts \in Seq(Attempt) /\ attempts[id] \in Attempt /\ id \in 1..Len(attempts)
      BY <1>3, AttemptTyped DEF Inv, TypeOK, Ids
    <3>5. a.kind = attempts[id].kind /\ a.op = attempts[id].op /\ a.result = attempts[id].result
      BY <3>3, <3>4 DEF Attempt
    <3>6. attempts' = [attempts EXCEPT ![id] = a]
      BY <3>2, <3>3
    <3>7. Ids' = Ids /\ \A x \in Ids : attempts'[x] = IF x = id THEN a ELSE attempts[x]
      BY <3>4, <3>6 DEF Ids
    <3>8. \A x \in Ids : attempts'[x].kind = attempts[x].kind /\ attempts'[x].op = attempts[x].op
                         /\ attempts'[x].result = attempts[x].result
      BY <3>5, <3>7
    <3> QED
      BY <3>7, <3>8, <2>6, OkStep
  <2> QED
    BY <2>7, <2>8
<1> QED
  BY <1>6, <1>7

(* The other steps of the lane thread answer OK to no acknowledged batch.    *)
\* process_apply_input, process_attached, process_headless.
LEMMA LaneKeepsOk ==
    ASSUME Inv, Inv', HandedInv, OkIsWritten, LaneStep, \A x : Whole(x) => Whole(x)'
    PROVE  OkIsWritten'
<1>1. CASE LaneBind
  BY <1>1, BindKeepsOk
<1>2. ASSUME entries' = entries, AnswersOnly,
             \A x \in Ids : IsApply(x) => attempts'[x].result = attempts[x].result \/ attempts'[x].result # "Ok"
      PROVE  OkIsWritten'
  <2>1. \A x \in Ids' : attempts'[x].kind = "Apply" /\ attempts'[x].result = "Ok" =>
           x \in Ids /\ attempts[x].result = "Ok"
    BY <1>2 DEF AnswersOnly, IsApply
  <2> QED
    BY <2>1, <1>2, OkStep DEF AnswersOnly
<1>3. CASE LaneRegister
  <2>1. item \in Ids /\ entries' = entries
    BY <1>3 DEF LaneRegister, cacheVars, Inv, OneAnswerOneSlot, ThreadOK
  <2>2. RouteGate(attempts[item].client, attempts[item].to) \in (Codes \ {"Ok"}) \cup {"Pass"}
    BY DEF RouteGate, Codes
  <2>3. attempts' = attempts \/ \E code \in Codes \ {"Ok"} : Refuse(item, code)
    BY <2>2, <1>3 DEF LaneRegister, Codes
  <2>4. CASE attempts' = attempts
    BY <2>1, <2>4, <1>2 DEF AnswersOnly, ApplyWaiting, IsApply, Ids
  <2>5. ASSUME NEW code \in Codes, code # "Ok", Refuse(item, code) PROVE OkIsWritten'
    <3>1. /\ AnswersOnly /\ attempts'[item].result = code
          /\ \A x \in Ids : x # item => attempts'[x] = attempts[x]
      BY <2>1, <2>5, RefusalAnswers
    <3> QED
      BY <3>1, <2>1, <2>5, <1>2
  <2> QED
    BY <2>3, <2>4, <2>5
<1>4. CASE LaneHandoff
  BY <1>2, <1>4 DEF LaneHandoff, cacheVars, AnswersOnly, ApplyWaiting, IsApply, Ids
<1>5. ASSUME NEW id \in Ids, ~IsApply(id), NEW code, attempts[id].kind = "Headless" => code \in Codes,
             AnswerUnacked(id, code), entries' = entries
      PROVE  OkIsWritten'
  <2>1. AnswersOnly /\ \A x \in Ids : IsApply(x) => attempts'[x] = attempts[x]
    BY <1>5, UnackedAnswers
  <2> QED
    BY <2>1, <1>2, <1>5
<1>6. CASE LaneGate
  <2>1. PICK id : id = Head(lane)
    OBVIOUS
  <2>2. lane # << >> /\ lane' = Tail(lane) /\ ~IsApply(id) /\ entries' = entries
    BY <1>6, <2>1 DEF LaneGate, cacheVars, IsApply
  <2>3. id \in Ids
    BY <2>1, <2>2, LanePop
  <2>4. attempts' = attempts \/ \E code : AnswerUnacked(id, code) /\ code = UnackedGate(attempts[id]) /\ code # "Pass"
    BY <1>6, <2>1 DEF LaneGate
  <2>5. ASSUME NEW code, AnswerUnacked(id, code), code = UnackedGate(attempts[id]), code # "Pass" PROVE OkIsWritten'
    <3>1. attempts[id].kind = "Headless" => code \in Codes
      BY <2>5 DEF UnackedGate, RouteGate, Codes
    <3> QED
      BY <3>1, <2>2, <2>3, <2>5, <1>5
  <2>6. CASE attempts' = attempts
    BY <2>2, <2>6, <1>2 DEF AnswersOnly, ApplyWaiting, IsApply, Ids
  <2> QED
    BY <2>4, <2>5, <2>6
<1>7. CASE LaneHandoffUnacked
  <2>1. item \in Ids /\ ~IsApply(item) /\ entries' = entries
    BY <1>7 DEF LaneHandoffUnacked, cacheVars, IsApply, Inv, OneAnswerOneSlot, ThreadOK
  <2>2. PICK code : /\ AnswerUnacked(item, code)
                    /\ code \in Codes \/ (code = UnackedGate(attempts[item]) /\ code # "Pass")
    BY <1>7 DEF LaneHandoffUnacked, Codes, FinalResults
  <2>3. attempts[item].kind = "Headless" => code \in Codes
    BY <2>2 DEF UnackedGate, RouteGate, Codes
  <2> QED
    BY <2>1, <2>2, <2>3, <1>5
<1> QED
  BY <1>1, <1>3, <1>4, <1>6, <1>7 DEF LaneStep

(* The waiter records and answers OK only for a batch that is in the PTY.    *)
\* completion_result, PendingCompletion::finalize.
LEMMA WaiterKeepsOk ==
    ASSUME Inv, Inv', HandedInv, OkIsWritten, WaiterStep, \A x : Whole(x) => Whole(x)'
    PROVE  OkIsWritten'
<1>1. ASSUME NEW f \in closing, f.result = "Ok" PROVE f.id \in Ids /\ Written(OpOf(f.id))
  <2>1. f.id \in Ids /\ IsApply(f.id) /\ Whole(f.id)
    BY <1>1, SinkTyped DEF HandedInv, FatesOK, VerdictsOK
  <2> QED
    BY <2>1 DEF Written
<1>2. CASE WaiterReceive \/ WaiterTimeout
  BY <1>2, OkStep DEF WaiterReceive, WaiterTimeout, cacheVars, Ids
<1>3. CASE RecordFinal
  <2>1. PICK f \in closing : /\ f.how = "Finalize" /\ SetFinal(attempts[f.id].op, f.result) /\ attempts' = attempts
    BY <1>3 DEF RecordFinal
  <2>2. PICK o, r : o = attempts[f.id].op /\ r = f.result
    OBVIOUS
  <2>3. o \in Operations /\ r \in FinalResults /\ SetFinal(o, r) /\ CacheTypeOK
    BY <2>1, <2>2 DEF Inv, TypeOK, OneAnswerOneSlot, ClosingOK, AttemptsOK, ApplyWaiting
  <2>4. r = "Ok" => Written(o)
    BY <2>2, <1>1 DEF OpOf
  <2>5. ASSUME NEW p \in Operations, entries'[p] # NoEntry, entries'[p].result = "Ok"
        PROVE  (entries[p] # NoEntry /\ entries[p].result = "Ok") \/ Written(p)
    <3>1. /\ entries[p] # NoEntry
          /\ entries'[p].result = IF p = o THEN r ELSE entries[p].result
      BY <2>3, <2>5, SetFinalEffect
    <3> QED
      BY <3>1, <2>4, <2>5
  <2> QED
    BY <2>1, <2>5, OkStep DEF Ids
<1>4. CASE ReleaseAndReply
  <2>1. PICK f \in closing : Refuse(f.id, f.result) /\ entries' = entries
    BY <1>4 DEF ReleaseAndReply, cacheVars
  <2>2. PICK id, code : id = f.id /\ code = f.result
    OBVIOUS
  <2>3. id \in Ids /\ code \in Codes /\ (code = "Ok" => Written(OpOf(id)))
    BY <2>2, <1>1, SinkTyped DEF Inv, TypeOK, Closing, HandedInv
  <2>4. /\ AnswersOnly /\ attempts'[id].result = code
        /\ \A x \in Ids : x # id => attempts'[x] = attempts[x]
    BY <2>1, <2>2, <2>3, RefusalAnswers
  <2>5. \A x \in Ids' : attempts'[x].kind = "Apply" /\ attempts'[x].result = "Ok" =>
           x \in Ids /\ (attempts[x].result = "Ok" \/ Written(OpOf(x)))
    BY <2>3, <2>4 DEF AnswersOnly
  <2> QED
    BY <2>1, <2>4, <2>5, OkStep DEF AnswersOnly
<1> QED
  BY <1>2, <1>3, <1>4 DEF WaiterStep

(* Every step keeps the promise.                                             *)
\* The whole pipeline.
LEMMA NextOk == Inv /\ Inv' /\ HandedInv /\ OkIsWritten /\ [Next]_vars => OkIsWritten'
<1> SUFFICES ASSUME Inv, Inv', HandedInv, OkIsWritten, [Next]_vars PROVE OkIsWritten'
  OBVIOUS
<1>1. \A x : Whole(x) => Whole(x)'
  BY WrittenStays
<1>2. CASE LaneStep
  BY <1>1, <1>2, LaneKeepsOk
<1>3. CASE WaiterStep
  BY <1>1, <1>3, WaiterKeepsOk
<1>4. CASE attempts' = attempts /\ entries' = entries
  BY <1>1, <1>4, OkStep DEF Ids
<1>5. ASSUME NEW c \in Clients, NEW r \in Resources, ClientStep(c, r) PROVE OkIsWritten'
  <2>1. PICK a : attempts' = Append(attempts, a) /\ a.result # "Ok"
    <3>1. \E kind \in InputKinds, o \in Operations \cup {NoOp}, d \in Payloads \cup {NoOp},
             res \in {"Sent", "Waiting", "ResourceExhausted"} :
             attempts' = Append(attempts, [kind |-> kind, client |-> c, to |-> r, op |-> o, payload |-> d,
                                           admitted |-> now, bound |-> -1, result |-> res])
      <4>1. CASE RouteAttached(c, r)
        BY <4>1 DEF RouteAttached, Arrives, InputKinds
      <4>2. CASE RouteCommand(c, r)
        BY <4>2 DEF RouteCommand, Arrives, InputKinds
      <4>3. ASSUME NEW o \in Operations, NEW d \in Payloads, ApplyInput(c, r, o, d)
            PROVE  \E res \in {"Sent", "Waiting", "ResourceExhausted"} :
                      attempts' = Append(attempts, [kind |-> "Apply", client |-> c, to |-> r, op |-> o, payload |-> d,
                                                    admitted |-> now, bound |-> -1, result |-> res])
        BY <4>3 DEF ApplyInput, Arrives
      <4> QED
        BY <1>5, <4>1, <4>2, <4>3 DEF ClientStep, InputKinds
    <3>2. PICK kind \in InputKinds, o \in Operations \cup {NoOp}, d \in Payloads \cup {NoOp},
               res \in {"Sent", "Waiting", "ResourceExhausted"} :
             attempts' = Append(attempts, [kind |-> kind, client |-> c, to |-> r, op |-> o, payload |-> d,
                                           admitted |-> now, bound |-> -1, result |-> res])
      BY <3>1
    <3>3. PICK new : new = [kind |-> kind, client |-> c, to |-> r, op |-> o, payload |-> d,
                            admitted |-> now, bound |-> -1, result |-> res]
      OBVIOUS
    <3>4. new.result # "Ok"
      BY <3>3
    <3> QED
      BY <3>2, <3>3, <3>4
  <2>2. entries' = entries
    BY <1>5 DEF ClientStep, RouteAttached, RouteCommand, ApplyInput, cacheVars
  <2>3. attempts \in Seq(Attempt) /\ Len(attempts) \in Nat
    BY DEF Inv, TypeOK
  <2>4. /\ Len(attempts') = Len(attempts) + 1 /\ attempts'[Len(attempts) + 1] = a
        /\ \A x \in 1..Len(attempts) : attempts'[x] = attempts[x]
    BY <2>1, <2>3
  <2>5. Ids \subseteq Ids' /\ \A x \in Ids' : x \in Ids \/ x = Len(attempts) + 1
    BY <2>3, <2>4 DEF Ids
  <2>6. \A x \in Ids : attempts'[x] = attempts[x]
    BY <2>4 DEF Ids
  <2> QED
    BY <1>1, <2>1, <2>2, <2>4, <2>5, <2>6, OkStep
<1>6. ASSUME NEW r \in Resources, PaneStep(r) PROVE attempts' = attempts /\ entries' = entries
  BY <1>6 DEF PaneStep, ServiceEncodedInput, ActorStops, ActorExits, MailboxDrop, ReapResource,
     WriteDelivers, WriteRefused, WriteFails, WriterQueueDrop, cacheVars
<1>7. Tick \/ (\E c \in Clients : AuthorityStep(c)) \/ UNCHANGED vars => attempts' = attempts /\ entries' = entries
  BY DEF Tick, AuthorityStep, cacheVars, vars
<1> QED
  BY <1>2, <1>3, <1>4, <1>5, <1>6, <1>7 DEF Next

(* OK, in the record or in a reply, is said only of an operation id under    *)
(* which a batch is in the PTY in full.                                      *)
\* completion_result, OperationCache::set_final, CacheBinding::Final.
THEOREM OkRecordsAreTrue == Spec => []OkIsWritten
<1>1. Init => OkIsWritten
  BY DEF Init, CacheInit, OkIsWritten, Ids
<1> QED
  BY <1>1, NextOk, InvHolds, HandedInvHolds, PTL DEF Spec

(* OK means the batch is in its Terminal's PTY in full, as long as clients   *)
(* keep to the protocol: one operation id, one immutable batch.              *)
\* completion_result and the ticket match in run_waiter; docs/spec/L1.md 6.2.1.
THEOREM OkIsTrue == Spec => [](OneDigestPerId => OkMeansWritten)
<1>1. Inv /\ HandedInv /\ OkIsWritten => (OneDigestPerId => OkMeansWritten)
  <2> SUFFICES ASSUME Inv, HandedInv, OkIsWritten, OneDigestPerId,
                      NEW x \in Ids, IsApply(x), attempts[x].result = "Ok"
               PROVE  \E i \in 1..Len(pty[attempts[x].to]) :
                         /\ pty[attempts[x].to][i].whole
                         /\ attempts[pty[attempts[x].to][i].id].op = attempts[x].op
                         /\ attempts[pty[attempts[x].to][i].id].payload = attempts[x].payload
    BY DEF OkMeansWritten
  <2>1. PICK y \in Ids : IsApply(y) /\ OpOf(y) = OpOf(x) /\ Whole(y)
    BY DEF OkIsWritten, Written
  <2>2. OperationDigest(attempts[y]) = OperationDigest(attempts[x])
    BY <2>1 DEF OneDigestPerId
  <2>3. attempts[y].to = attempts[x].to /\ attempts[y].payload = attempts[x].payload
    BY <2>2 DEF OperationDigest
  <2>4. PICK r \in Resources : [id |-> y, whole |-> TRUE] \in Members(pty[r])
    BY <2>1 DEF Whole
  <2>5. PICK i \in 1..Len(pty[r]) : pty[r][i] = [id |-> y, whole |-> TRUE]
    BY <2>4 DEF Members
  <2>6. y \in InPane(r)
    BY <2>5 DEF InPane, IdsOf
  <2>7. r = attempts[x].to
    BY <2>3, <2>6 DEF HandedInv, OrderOK, PaneOrderOK
  <2> QED
    BY <2>1, <2>3, <2>5, <2>7 DEF OpOf
<1> QED
  BY <1>1, InvHolds, HandedInvHolds, OkRecordsAreTrue, PTL
=============================================================================
