-------------------------- MODULE PaneOutputProofs --------------------------
(* Proofs about the output path of a pane: its type invariant, that the      *)
(* consumer's stream is exact, that a screen shows all the output its        *)
(* sequence says it does, that pump and consumer agree on the generation,    *)
(* and that a gap costs one generation.                                      *)
(*                                                                           *)
(* The first part is about the operators the model is built from, the second *)
(* about a step of a pump, which leaves the actor and the other pumps alone, *)
(* the third about a step of the actor, which leaves the generations and the *)
(* replicas alone.                                                           *)
EXTENDS PaneOutputInv, SequenceTheorems, FiniteSetTheorems, TLAPS

-----------------------------------------------------------------------------
(* Receivers.                                                                *)

(* The sequence after one that was output is at most one further.            *)
\* expect_next_seq.
LEMMA Successor ==
    ASSUME NEW x \in Nat, NEW n \in Nat, x <= n
    PROVE  x + 1 \in 1..(n + 1)
  OBVIOUS

(* An empty receiver leads from where it is to where it is.                  *)
\* Sender::subscribe.
LEMMA FlowEmpty ==
    ASSUME NEW n \in Nat
    PROVE  Flow(<<>>, n, n)
<1> DEFINE c == [i \in 0..0 |-> n]
<1>1. c \in [0..Len(<<>>) -> n..n] /\ c[0] = n
  OBVIOUS
<1> HIDE DEF c
<1> QED
  BY <1>1 DEF Flow

(* One item leads where it moves to.                                         *)
\* Sender::send of one frame.
LEMMA FlowOne ==
    ASSUME NEW item \in Item, NEW lo \in Nat, NEW hi \in Nat, Moves(item, lo, hi)
    PROVE  Flow(<<item>>, lo, hi)
<1> DEFINE c == [i \in 0..1 |-> IF i = 0 THEN lo ELSE hi]
<1>1. lo <= hi
  BY DEF Moves
<1>2. c \in [0..Len(<<item>>) -> lo..hi] /\ c[0] = lo /\ c[1] = hi
  BY <1>1
<1> HIDE DEF c
<1>3. Len(<<item>>) = 1 /\ <<item>>[1] = item
  OBVIOUS
<1> QED
  BY <1>1, <1>2, <1>3 DEF Flow

(* Items that move nobody lead nowhere.                                      *)
\* Tombstones and history notices.
LEMMA FlowStill ==
    ASSUME NEW items \in Seq(Item), NEW n \in Nat,
           \A i \in 1..Len(items) : Moves(items[i], n, n)
    PROVE  Flow(items, n, n)
<1> DEFINE c == [i \in 0..Len(items) |-> n]
<1>1. c \in [0..Len(items) -> n..n] /\ \A i \in 0..Len(items) : c[i] = n
  OBVIOUS
<1> HIDE DEF c
<1> QED
  BY <1>1 DEF Flow

(* What leads to a place and what leads on from it, one after the other.     *)
\* Sender::send behind what a receiver has not read.
LEMMA FlowConcat ==
    ASSUME NEW s \in Seq(Item), NEW t \in Seq(Item),
           NEW lo \in Nat, NEW mid \in Nat, NEW hi \in Nat,
           Flow(s, lo, mid), Flow(t, mid, hi)
    PROVE  Flow(s \o t, lo, hi)
<1>1. PICK c \in [0..Len(s) -> lo..mid] :
        /\ c[0] = lo /\ c[Len(s)] = mid
        /\ \A i \in 1..Len(s) : Moves(s[i], c[i - 1], c[i])
        /\ \A i, j \in 0..Len(s) : i <= j => c[i] <= c[j]
  BY DEF Flow
<1>2. PICK d \in [0..Len(t) -> mid..hi] :
        /\ d[0] = mid /\ d[Len(t)] = hi
        /\ \A i \in 1..Len(t) : Moves(t[i], d[i - 1], d[i])
        /\ \A i, j \in 0..Len(t) : i <= j => d[i] <= d[j]
  BY DEF Flow
<1>0. Len(s) \in Nat /\ Len(t) \in Nat
  OBVIOUS
<1> DEFINE n == Len(s) + Len(t)
           e == [i \in 0..n |-> IF i <= Len(s) THEN c[i] ELSE d[i - Len(s)]]
<1>3. /\ s \o t \in Seq(Item) /\ Len(s \o t) = n
      /\ \A i \in 1..n : (s \o t)[i] = IF i <= Len(s) THEN s[i] ELSE t[i - Len(s)]
  BY ConcatProperties
<1>4. lo <= mid /\ mid <= hi
  <2>1. 0 \in 0..Len(s) /\ 0 \in 0..Len(t)
    BY <1>0
  <2>2. c[0] \in lo..mid /\ d[0] \in mid..hi
    BY <2>1, <1>1, <1>2
  <2> QED
    BY <2>2
<1>5. e \in [0..n -> lo..hi]
  <2>1. ASSUME NEW i \in 0..n
        PROVE  e[i] \in lo..hi
    <3>1. CASE i <= Len(s)
      <4>1. i \in 0..Len(s) /\ e[i] = c[i]
        BY <3>1, <1>0
      <4>2. c[i] \in lo..mid
        BY <4>1, <1>1
      <4> QED
        BY <4>1, <4>2, <1>4
    <3>2. CASE ~(i <= Len(s))
      <4>1. i - Len(s) \in 0..Len(t) /\ e[i] = d[i - Len(s)]
        BY <3>2, <1>0
      <4>2. d[i - Len(s)] \in mid..hi
        BY <4>1, <1>2
      <4> QED
        BY <4>1, <4>2, <1>4
    <3> QED
      BY <3>1, <3>2
  <2> QED
    BY <2>1
<1>6. e[0] = lo /\ e[n] = hi
  <2>1. CASE Len(t) = 0
    BY <2>1, <1>1, <1>2
  <2>2. CASE Len(t) # 0
    BY <2>2, <1>1, <1>2
  <2> QED
    BY <2>1, <2>2
<1>7. ASSUME NEW i \in 1..n
      PROVE  Moves((s \o t)[i], e[i - 1], e[i])
  <2>1. CASE i <= Len(s)
    BY <2>1, <1>1, <1>3
  <2>2. CASE i = Len(s) + 1
    <3>1. /\ 1 \in 1..Len(t) /\ e[i] = d[1] /\ e[i - 1] = c[Len(s)]
          /\ (s \o t)[i] = t[1]
      BY <2>2, <1>0, <1>3
    <3>2. Moves(t[1], d[1 - 1], d[1]) /\ d[1 - 1] = d[0]
      BY <3>1, <1>2
    <3> QED
      BY <3>1, <3>2, <1>1, <1>2
  <2>3. CASE i > Len(s) + 1
    <3>1. /\ i - Len(s) \in 1..Len(t) /\ e[i] = d[i - Len(s)]
          /\ e[i - 1] = d[(i - Len(s)) - 1] /\ (s \o t)[i] = t[i - Len(s)]
      BY <2>3, <1>3
    <3> QED
      BY <3>1, <1>2
  <2> QED
    BY <2>1, <2>2, <2>3
<1>8. ASSUME NEW i \in 0..n, NEW j \in 0..n, i <= j
      PROVE  e[i] <= e[j]
  <2>1. CASE j <= Len(s)
    BY <2>1, <1>8, <1>1
  <2>2. CASE i > Len(s)
    <3>1. /\ i - Len(s) \in 0..Len(t) /\ j - Len(s) \in 0..Len(t) /\ i - Len(s) <= j - Len(s)
          /\ ~(i <= Len(s)) /\ ~(j <= Len(s))
      BY <2>2, <1>8, <1>3
    <3>2. e[i] = d[i - Len(s)] /\ e[j] = d[j - Len(s)]
      BY <3>1
    <3> QED
      BY <3>1, <3>2, <1>2
  <2>3. CASE i <= Len(s) /\ j > Len(s)
    <3>1. i \in 0..Len(s) /\ j - Len(s) \in 0..Len(t) /\ e[i] = c[i] /\ e[j] = d[j - Len(s)]
      BY <2>3, <1>0
    <3>2. c[i] \in lo..mid /\ d[j - Len(s)] \in mid..hi
      BY <3>1, <1>1, <1>2
    <3> QED
      BY <3>1, <3>2
  <2> QED
    BY <2>1, <2>2, <2>3
<1> HIDE DEF e
<1> QED
  BY <1>3, <1>5, <1>6, <1>7, <1>8 DEF Flow

(* What is left when the oldest items are dropped leads to the same place.   *)
\* RecvError::Lagged.
LEMMA FlowSuffix ==
    ASSUME NEW s \in Seq(Item), NEW lo \in Nat, NEW hi \in Nat, Flow(s, lo, hi),
           NEW k \in 0..Len(s)
    PROVE  \E m \in lo..hi : Flow(SubSeq(s, k + 1, Len(s)), m, hi)
<1>1. PICK c \in [0..Len(s) -> lo..hi] :
        /\ c[0] = lo /\ c[Len(s)] = hi
        /\ \A i \in 1..Len(s) : Moves(s[i], c[i - 1], c[i])
        /\ \A i, j \in 0..Len(s) : i <= j => c[i] <= c[j]
  BY DEF Flow
<1> DEFINE t == SubSeq(s, k + 1, Len(s))
           n == Len(s) - k
           d == [i \in 0..n |-> c[k + i]]
<1>2. t \in Seq(Item) /\ Len(t) = n /\ \A i \in 1..n : t[i] = s[k + i]
  BY SubSeqProperties, ElementOfSeq
<1>3. d \in [0..n -> c[k]..hi]
  <2>1. ASSUME NEW i \in 0..n
        PROVE  c[k + i] \in c[k]..hi
    <3>0. k + i \in 0..Len(s) /\ k \in 0..Len(s) /\ k <= k + i
      OBVIOUS
    <3>1. c[k + i] \in lo..hi /\ c[k] \in lo..hi /\ c[k] <= c[k + i]
      BY <1>1, <3>0
    <3> QED
      BY <3>1
  <2> QED
    BY <2>1
<1>4. d[0] = c[k] /\ d[n] = hi /\ c[k] \in lo..hi
  BY <1>1
<1>5. ASSUME NEW i \in 1..n
      PROVE  Moves(t[i], d[i - 1], d[i])
  <2>1. k + i \in 1..Len(s) /\ d[i] = c[k + i] /\ d[i - 1] = c[(k + i) - 1] /\ t[i] = s[k + i]
    BY <1>2
  <2> QED
    BY <2>1, <1>1
<1>6. \A i, j \in 0..n : i <= j => d[i] <= d[j]
  BY <1>1
<1> HIDE DEF d, t
<1>7. Flow(t, c[k], hi)
  BY <1>2, <1>3, <1>4, <1>5, <1>6 DEF Flow
<1> QED
  BY <1>4, <1>7 DEF t

(* The first item moves the reader, the rest leads on from there.            *)
\* Receiver::recv.
LEMMA FlowHead ==
    ASSUME NEW s \in Seq(Item), s # <<>>, NEW lo \in Nat, NEW hi \in Nat, Flow(s, lo, hi)
    PROVE  \E m \in lo..hi : Moves(Head(s), lo, m) /\ Flow(Tail(s), m, hi)
<1>1. PICK c \in [0..Len(s) -> lo..hi] :
        /\ c[0] = lo /\ c[Len(s)] = hi
        /\ \A i \in 1..Len(s) : Moves(s[i], c[i - 1], c[i])
        /\ \A i, j \in 0..Len(s) : i <= j => c[i] <= c[j]
  BY DEF Flow
<1> DEFINE t == Tail(s)
           n == Len(s) - 1
           d == [i \in 0..n |-> c[i + 1]]
<1>2. /\ t \in Seq(Item) /\ Len(t) = n /\ n \in Nat /\ \A i \in 1..n : t[i] = s[i + 1]
      /\ Head(s) = s[1]
  BY HeadTailProperties
<1>3. d \in [0..n -> c[1]..hi]
  <2>1. ASSUME NEW i \in 0..n
        PROVE  c[i + 1] \in c[1]..hi
    <3>0. i + 1 \in 0..Len(s) /\ 1 \in 0..Len(s) /\ 1 <= i + 1
      BY <1>2
    <3>1. c[i + 1] \in lo..hi /\ c[1] \in lo..hi /\ c[1] <= c[i + 1]
      BY <1>1, <3>0
    <3> QED
      BY <3>1
  <2> QED
    BY <2>1
<1>4. d[0] = c[1] /\ d[n] = hi /\ c[1] \in lo..hi /\ Moves(Head(s), lo, c[1])
  BY <1>1, <1>2
<1>5. ASSUME NEW i \in 1..n
      PROVE  Moves(t[i], d[i - 1], d[i])
  <2>1. i + 1 \in 1..Len(s) /\ d[i] = c[i + 1] /\ d[i - 1] = c[(i + 1) - 1] /\ t[i] = s[i + 1]
    BY <1>2
  <2> QED
    BY <2>1, <1>1
<1>6. \A i, j \in 0..n : i <= j => d[i] <= d[j]
  BY <1>1, <1>2
<1> HIDE DEF d, t
<1>7. Flow(t, c[1], hi)
  BY <1>2, <1>3, <1>4, <1>5, <1>6 DEF Flow
<1> QED
  BY <1>4, <1>7 DEF t

(* Delivery keeps a receiver a receiver, within the capacity, and makes no   *)
(* item.                                                                     *)
\* tokio broadcast.
LEMMA DeliverShape ==
    ASSUME NEW r \in Receiver, NEW items \in Seq(Item)
    PROVE  /\ Deliver(r, items) \in Receiver
           /\ Len(Deliver(r, items).items) <= RingCapacity
           /\ \A i \in 1..Len(Deliver(r, items).items) :
                \/ \E j \in 1..Len(r.items) : Deliver(r, items).items[i] = r.items[j]
                \/ \E j \in 1..Len(items) : Deliver(r, items).items[i] = items[j]
<1> DEFINE all == r.items \o items
           over == Len(all) - RingCapacity
<1>0. RingCapacity \in Nat \ {0}
  BY PaneAssumption
<1>1. r.items \in Seq(Item) /\ Len(r.items) \in Nat /\ Len(items) \in Nat
  BY DEF Receiver
<1>2. /\ all \in Seq(Item) /\ Len(all) = Len(r.items) + Len(items)
      /\ \A i \in 1..Len(all) : all[i] = IF i <= Len(r.items) THEN r.items[i] ELSE items[i - Len(r.items)]
  BY <1>1, ConcatProperties
<1> HIDE DEF all
<1>3. \A i \in 1..Len(all) : \/ \E j \in 1..Len(r.items) : all[i] = r.items[j]
                             \/ \E j \in 1..Len(items) : all[i] = items[j]
  <2>1. ASSUME NEW i \in 1..Len(all)
        PROVE  \/ i \in 1..Len(r.items) /\ all[i] = r.items[i]
               \/ i - Len(r.items) \in 1..Len(items) /\ all[i] = items[i - Len(r.items)]
    BY <1>1, <1>2
  <2> QED
    BY <2>1
<1>4. CASE over > 0
  <2> DEFINE kept == SubSeq(all, over + 1, Len(all))
  <2>0. over \in Nat /\ over + RingCapacity = Len(all) /\ \A i \in over + 1..Len(all) : all[i] \in Item
    BY <1>0, <1>1, <1>2, <1>4, ElementOfSeq
  <2>1. /\ kept \in Seq(Item) /\ Len(kept) = RingCapacity
        /\ \A i \in 1..Len(kept) : over + i \in 1..Len(all) /\ kept[i] = all[over + i]
    BY <2>0, <1>0, SubSeqProperties
  <2>2. Deliver(r, items) = [lagged |-> TRUE, items |-> kept]
    BY <1>4 DEF Deliver, all
  <2> HIDE DEF kept
  <2>3. \A i \in 1..Len(kept) : \/ \E j \in 1..Len(r.items) : kept[i] = r.items[j]
                                \/ \E j \in 1..Len(items) : kept[i] = items[j]
    <3>1. ASSUME NEW i \in 1..Len(kept)
          PROVE  \/ \E j \in 1..Len(r.items) : kept[i] = r.items[j]
                 \/ \E j \in 1..Len(items) : kept[i] = items[j]
      <4>1. over + i \in 1..Len(all) /\ kept[i] = all[over + i]
        BY <2>1
      <4> QED
        BY <4>1, <1>3
    <3> QED
      BY <3>1
  <2>4. Deliver(r, items).items = kept
    BY <2>2
  <2>6. Deliver(r, items) \in Receiver
    BY <2>1, <2>2 DEF Receiver
  <2>7. Len(kept) <= RingCapacity
    BY <1>0, <2>1
  <2> QED
    BY <2>3, <2>4, <2>6, <2>7
<1>5. CASE ~(over > 0)
  <2>1. Deliver(r, items) = [r EXCEPT !.items = all]
    BY <1>5 DEF Deliver, all
  <2>2. Deliver(r, items).items = all /\ Deliver(r, items) \in Receiver
    BY <2>1, <1>2 DEF Receiver
  <2>3. Len(all) <= RingCapacity
    BY <1>0, <1>1, <1>2, <1>5
  <2> QED
    BY <2>2, <2>3, <1>3
<1> QED
  BY <1>4, <1>5

(* Delivery leads the reader on; one that was not overrun starts where it    *)
(* did.                                                                      *)
\* tokio broadcast.
LEMMA DeliverFlow ==
    ASSUME NEW r \in Receiver, NEW items \in Seq(Item),
           NEW lo \in Nat, NEW mid \in Nat, NEW hi \in Nat,
           Flow(r.items, lo, mid), Flow(items, mid, hi)
    PROVE  \E m \in lo..hi :
             /\ Flow(Deliver(r, items).items, m, hi)
             /\ ~Deliver(r, items).lagged => ~r.lagged /\ m = lo
<1> DEFINE all == r.items \o items
           over == Len(all) - RingCapacity
<1>0. RingCapacity \in Nat \ {0}
  BY PaneAssumption
<1>1. r.items \in Seq(Item)
  BY DEF Receiver
<1>2. all \in Seq(Item) /\ Len(all) \in Nat /\ Flow(all, lo, hi)
  BY <1>1, FlowConcat
<1>3. lo <= hi
  BY <1>2 DEF Flow
<1> HIDE DEF all
<1>4. CASE over > 0
  <2>1. Deliver(r, items) = [lagged |-> TRUE, items |-> SubSeq(all, over + 1, Len(all))]
    BY <1>4 DEF Deliver, all
  <2>2. over \in 0..Len(all)
    BY <1>0, <1>2, <1>4
  <2>3. \E m \in lo..hi : Flow(SubSeq(all, over + 1, Len(all)), m, hi)
    BY <2>2, <1>2, FlowSuffix
  <2> QED
    BY <2>1, <2>3
<1>5. CASE ~(over > 0)
  <2>1. Deliver(r, items) = [r EXCEPT !.items = all]
    BY <1>5 DEF Deliver, all
  <2>2. Deliver(r, items).items = all /\ Deliver(r, items).lagged = r.lagged
    BY <2>1 DEF Receiver
  <2> QED
    BY <2>2, <1>2, <1>3
<1> QED
  BY <1>4, <1>5

-----------------------------------------------------------------------------
(* Replays, generations and replicas.                                        *)

(* A chunk joins a replay, and the first one leaves it.                      *)
\* buffer_native_live_output.
LEMMA RunSteps ==
    ASSUME NEW r \in Seq(Nat), NEW lo \in Nat, NEW hi \in Nat, Run(r, lo, hi)
    PROVE  /\ Append(r, hi + 1) \in Seq(Nat) /\ Run(Append(r, hi + 1), lo, hi + 1)
           /\ r # <<>> => /\ Head(r) = lo + 1 /\ Run(Tail(r), lo + 1, hi)
                          /\ Tail(r) \in Seq(Nat)
<1>1. Len(r) \in Nat /\ hi = lo + Len(r) /\ \A i \in 1..Len(r) : r[i] = lo + i
  BY DEF Run
<1>2. Append(r, hi + 1) \in Seq(Nat) /\ Run(Append(r, hi + 1), lo, hi + 1)
  <2>1. /\ Append(r, hi + 1) \in Seq(Nat) /\ Len(Append(r, hi + 1)) = Len(r) + 1
        /\ \A i \in 1..Len(r) : Append(r, hi + 1)[i] = r[i]
        /\ Append(r, hi + 1)[Len(r) + 1] = hi + 1
    BY AppendProperties
  <2> QED
    BY <1>1, <2>1 DEF Run
<1>3. ASSUME r # <<>>
      PROVE  Head(r) = lo + 1 /\ Run(Tail(r), lo + 1, hi) /\ Tail(r) \in Seq(Nat)
  <2>1. /\ Tail(r) \in Seq(Nat) /\ Len(Tail(r)) = Len(r) - 1 /\ Len(r) > 0
        /\ \A i \in 1..Len(Tail(r)) : Tail(r)[i] = r[i + 1]
    BY <1>1, <1>3, HeadTailProperties, EmptySeq
  <2>2. Head(r) = r[1]
    BY <1>3
  <2>3. \A i \in 1..Len(Tail(r)) : Tail(r)[i] = (lo + 1) + i
    BY <1>1, <2>1
  <2> QED
    BY <1>1, <2>1, <2>2, <2>3 DEF Run
<1> QED
  BY <1>2, <1>3

(* A forwarded chunk moves the pump to its sequence.                         *)
\* note_forwarded.
LEMMA ForwardedStep ==
    ASSUME NEW g \in Generation(Nat, Nat), NEW n \in Nat
    PROVE  /\ NoteForwarded(g, n) \in Generation(Nat, Nat)
           /\ NoteForwarded(g, n).last = n
           /\ NoteForwarded(g, n).cut = g.cut /\ NoteForwarded(g, n).id = g.id
           /\ NoteForwarded(g, n).active = g.active /\ NoteForwarded(g, n).gap = g.gap
           /\ NoteForwarded(g, n).attempts = g.attempts
  BY DEF Generation, NoteForwarded

(* A retired generation is only no longer active.                            *)
\* retire.
LEMMA RetireStep ==
    ASSUME NEW g \in Generation(Nat, Nat)
    PROVE  /\ Retire(g) \in Generation(Nat, Nat)
           /\ Retire(g).active = FALSE
           /\ Retire(g).cut = g.cut /\ Retire(g).last = g.last
           /\ Retire(g).id = g.id /\ Retire(g).gap = g.gap
           /\ Retire(g).attempts = g.attempts
  BY DEF Generation, Retire

(* A new generation has a new identifier, before anything else changes.      *)
\* set_bootstrap_id.
LEMMA BootstrapIdStep ==
    ASSUME NEW g \in Generation(Nat, Nat), NEW n \in Nat
    PROVE  /\ SetBootstrapId(g, n) \in Generation(Nat, Nat)
           /\ SetBootstrapId(g, n).id = n
           /\ SetBootstrapId(g, n).cut = g.cut /\ SetBootstrapId(g, n).last = g.last
           /\ SetBootstrapId(g, n).active = g.active /\ SetBootstrapId(g, n).gap = g.gap
           /\ SetBootstrapId(g, n).attempts = g.attempts
  BY DEF Generation, SetBootstrapId

(* A published generation stands at its cut, unfenced.                       *)
\* republished_at.
LEMMA RepublishedStep ==
    ASSUME NEW g \in Generation(Nat, Nat), NEW n \in Nat
    PROVE  /\ RepublishedAt(g, n) \in Generation(Nat, Nat)
           /\ RepublishedAt(g, n).cut = n /\ RepublishedAt(g, n).last = n
           /\ RepublishedAt(g, n).id = g.id
           /\ RepublishedAt(g, n).active /\ ~RepublishedAt(g, n).gap
           /\ RepublishedAt(g, n).attempts = 0
<1>1. 0 \in 0..GapBudget
  BY GapBudgetAssumption
<1> QED
  BY <1>1 DEF Generation, RepublishedAt

(* A request counted within the budget.                                      *)
\* fence_for_gap, note_resync_requested.
LEMMA RequestSteps ==
    ASSUME NEW g \in Generation(Nat, Nat), ~BudgetSpent(g), ~g.gap => g.attempts = 0
    PROVE  LET fenced == NoteResyncRequested(FenceForGap(g))
               again == NoteResyncRequested(g)
           IN /\ fenced \in Generation(Nat, Nat) /\ fenced.gap
              /\ \A f \in {"cut", "last", "id", "active"} : fenced[f] = g[f]
              /\ again \in Generation(Nat, Nat)
              /\ \A f \in {"cut", "last", "id", "active", "gap"} : again[f] = g[f]
<1>1. g.attempts \in 0..GapBudget /\ g.attempts + 1 \in 0..GapBudget
  BY GapBudgetAssumption DEF Generation, BudgetSpent
<1> QED
  BY <1>1 DEF Generation, NoteResyncRequested, FenceForGap

(* Live output the kernel expects moves the replica to its sequence.         *)
\* session.rs: published_replica, expect_next_seq.
LEMMA OutputStep ==
    ASSUME NEW m \in Mirror(Nat, Nat, Geometries), NEW n \in Nat, NEW s \in Nat,
           Expects(m, n, s), m.content = m.next - 1
    PROVE  /\ ApplyOutput(m, n, s) \in Mirror(Nat, Nat, Geometries)
           /\ ApplyOutput(m, n, s).next = s + 1 /\ ApplyOutput(m, n, s).content = s
           /\ ApplyOutput(m, n, s).published = m.published
           /\ ApplyOutput(m, n, s).retired = m.retired
           /\ ApplyOutput(m, n, s).error = m.error
<1>1. ApplyOutput(m, n, s) = [m EXCEPT !.next = s + 1, !.content = s]
  BY DEF ApplyOutput, Expects, Mirror
<1>2. s + 1 \in Nat
  OBVIOUS
<1> QED
  BY <1>1, <1>2 DEF Mirror

(* A bootstrap the kernel accepts replaces the replica and retires the       *)
(* generation it showed.                                                     *)
\* session.rs: bootstrap_begin, publish.
LEMMA BootstrapStep ==
    ASSUME NEW m \in Mirror(Nat, Nat, Geometries), NEW n \in Nat, NEW boot \in Boot,
           ~RefusesBegin(m, n)
    PROVE  /\ ApplyBootstrap(m, n, boot) \in Mirror(Nat, Nat, Geometries)
           /\ ApplyBootstrap(m, n, boot).next = boot.base + 1
           /\ ApplyBootstrap(m, n, boot).content = boot.content
           /\ ApplyBootstrap(m, n, boot).published = n
           /\ ApplyBootstrap(m, n, boot).retired = m.retired \cup {m.published}
           /\ ApplyBootstrap(m, n, boot).error = m.error
<1>1. ApplyBootstrap(m, n, boot) =
        [m EXCEPT !.published = n, !.next = boot.base + 1,
                  !.retired = @ \cup {m.published},
                  !.content = boot.content, !.geometry = boot.geometry]
  BY DEF ApplyBootstrap, Published
<1>2. boot.base \in Nat /\ boot.content \in Nat /\ boot.geometry \in Geometries
  BY PaneAssumption DEF Boot, Seqs
<1>3. boot.base + 1 \in Nat /\ m.retired \cup {m.published} \in SUBSET Nat
  BY <1>2 DEF Mirror
<1> QED
  BY <1>1, <1>2, <1>3 DEF Mirror

(* A tombstone only retires.                                                 *)
\* session.rs: tombstone_generation.
LEMMA TombstoneStep ==
    ASSUME NEW m \in Mirror(Nat, Nat, Geometries), NEW n \in Nat
    PROVE  /\ ApplyTombstone(m, n) \in Mirror(Nat, Nat, Geometries)
           /\ ApplyTombstone(m, n).retired = m.retired \cup {n}
           /\ ApplyTombstone(m, n).next = m.next /\ ApplyTombstone(m, n).content = m.content
           /\ ApplyTombstone(m, n).published = m.published
           /\ ApplyTombstone(m, n).error = m.error
  BY DEF Mirror, ApplyTombstone

-----------------------------------------------------------------------------
(* A step of one pump.                                                       *)

(* The actor, the capture and the other pumps are left alone.                *)
PumpFrame(p) ==
    /\ UNCHANGED <<actorVars, nativeVars, resizes>>
    /\ rx' = [rx EXCEPT ![p] = rx'[p]] /\ gen' = [gen EXCEPT ![p] = gen'[p]]
    /\ pc' = [pc EXCEPT ![p] = pc'[p]] /\ asked' = [asked EXCEPT ![p] = asked'[p]]
    /\ reply' = [reply EXCEPT ![p] = reply'[p]] /\ held' = [held EXCEPT ![p] = held'[p]]
    /\ mirror' = [mirror EXCEPT ![p] = mirror'[p]] /\ gaps' = [gaps EXCEPT ![p] = gaps'[p]]

TypesAt(p) ==
    /\ rx[p] \in Receiver /\ gen[p] \in Generation(Nat, Nat) /\ pc[p] \in Steps
    /\ asked[p] \in {None, "Bootstrap", "Publication"}
    /\ held[p] \in [cut: Nat, replay: Seq(Nat)]
    /\ mirror[p] \in Mirror(Nat, Nat, Geometries) /\ gaps[p] \in Nat

(* The pump's receiver holds nothing it did not hold.                        *)
NothingNew(p) ==
    \A i \in 1..Len(rx'[p].items) : \E j \in 1..Len(rx[p].items) : rx'[p].items[i] = rx[p].items[j]

(* The mailbox is as it was, or has one more request behind the others.      *)
MailboxGrows ==
    \/ mailbox' = mailbox
    \/ /\ Len(mailbox) < MailboxCapacity
       /\ \E t \in Target : /\ Known(t)'
                            /\ mailbox' = Append(mailbox, [kind |-> "Gap", target |-> t])

(* What the pump's own variables must satisfy after its step.                *)
Owned(p) ==
    RequestOK(p) /\ CutOK(p) /\ FlowOK(p) /\ GenerationOK(p) /\ MirrorOK(p) /\ CountOK(p)

(* A target stays known: a pump's generation only grows, and a newer one is  *)
(* another one.                                                              *)
\* ResyncTarget.
LEMMA KnownStays ==
    ASSUME Shape, NEW p \in Pumps, PumpFrame(p),
           gen'[p].id \in Nat, gaps'[p] \in Nat, gen'[p].id >= gen[p].id, gaps'[p] >= gaps[p],
           NEW t \in Target, Known(t)
    PROVE  Known(t)'
<1>1. t.pump \in Pumps /\ t.id \in Nat
  BY DEF Target
<1>2. gen[p].id \in Nat /\ gaps[p] \in Nat
  BY DEF Shape, PumpShape, Generation
<1>3. CASE t.pump = p
  BY <1>1, <1>2, <1>3 DEF PumpFrame, Known
<1>4. CASE t.pump # p
  <2>1. gen'[t.pump] = gen[t.pump] /\ gaps'[t.pump] = gaps[t.pump] /\ resizes' = resizes
    BY <1>1, <1>4 DEF PumpFrame, Shape, PumpShape
  <2> QED
    BY <2>1 DEF Known
<1> QED
  BY <1>3, <1>4

(* A pump's step that keeps what it owns keeps the whole.                    *)
\* spawn_pane_pump, spawn_output_pump: one task per pump.
LEMMA LocalStep ==
    ASSUME Inv, NEW p \in Pumps, PumpFrame(p), TypesAt(p)', NothingNew(p), MailboxGrows,
           gen'[p].id >= gen[p].id, gaps'[p] >= gaps[p], Owned(p)'
    PROVE  Inv'
<1>0. Shape /\ ActorOK /\ \A q \in Pumps : PumpOK(q)
  BY DEF Inv
<1>u. /\ UNCHANGED <<seq, applied, geometry, debounce, capture, backlog, binding, resizes>>
      /\ \A q \in Pumps \ {p} :
            /\ rx'[q] = rx[q] /\ gen'[q] = gen[q] /\ pc'[q] = pc[q] /\ asked'[q] = asked[q]
            /\ reply'[q] = reply[q] /\ held'[q] = held[q] /\ mirror'[q] = mirror[q]
            /\ gaps'[q] = gaps[q]
  BY <1>0 DEF PumpFrame, Shape, PumpShape, actorVars, nativeVars
<1>k. \A t \in Target : Known(t) => Known(t)'
  <2>1. gen'[p].id \in Nat /\ gaps'[p] \in Nat
    BY DEF TypesAt, Generation
  <2> QED
    BY <1>0, <2>1, KnownStays
<1>a. ASSUME NEW i \in Item, i.kind = "Resync", AudienceKnown(i.audience)
      PROVE  AudienceKnown(i.audience)'
  <2>1. i.audience.only \subseteq Target
    BY <1>a DEF Item, Audience
  <2> QED
    BY <1>a, <2>1, <1>k, <1>u DEF AudienceKnown
<1>1. PumpShape'
  <2>1. PumpShape /\ TypesAt(p)' /\ binding' = binding
    BY <1>0, <1>u DEF Shape
  <2>2. binding' \in [Pumps -> {None} \cup Binding]
    BY <2>1 DEF PumpShape
  <2>3. rx \in [Pumps -> Receiver] /\ rx'[p] \in Receiver /\ rx' = [rx EXCEPT ![p] = rx'[p]]
    BY <2>1 DEF PumpFrame, PumpShape, TypesAt
  <2>4. /\ gen \in [Pumps -> Generation(Nat, Nat)] /\ gen'[p] \in Generation(Nat, Nat)
        /\ gen' = [gen EXCEPT ![p] = gen'[p]]
    BY <2>1 DEF PumpFrame, PumpShape, TypesAt
  <2>5. pc \in [Pumps -> Steps] /\ pc'[p] \in Steps /\ pc' = [pc EXCEPT ![p] = pc'[p]]
    BY <2>1 DEF PumpFrame, PumpShape, TypesAt
  <2>6. /\ asked \in [Pumps -> {None, "Bootstrap", "Publication"}]
        /\ asked'[p] \in {None, "Bootstrap", "Publication"}
        /\ asked' = [asked EXCEPT ![p] = asked'[p]]
    BY <2>1 DEF PumpFrame, PumpShape, TypesAt
  <2>7. reply = [q \in Pumps |-> reply[q]] /\ reply' = [reply EXCEPT ![p] = reply'[p]]
    BY <2>1 DEF PumpFrame, PumpShape
  <2>8. /\ held \in [Pumps -> [cut: Nat, replay: Seq(Nat)]] /\ held'[p] \in [cut: Nat, replay: Seq(Nat)]
        /\ held' = [held EXCEPT ![p] = held'[p]]
    BY <2>1 DEF PumpFrame, PumpShape, TypesAt
  <2>9. /\ mirror \in [Pumps -> Mirror(Nat, Nat, Geometries)]
        /\ mirror'[p] \in Mirror(Nat, Nat, Geometries) /\ mirror' = [mirror EXCEPT ![p] = mirror'[p]]
    BY <2>1 DEF PumpFrame, PumpShape, TypesAt
  <2>10. gaps \in [Pumps -> Nat] /\ gaps'[p] \in Nat /\ gaps' = [gaps EXCEPT ![p] = gaps'[p]]
    BY <2>1 DEF PumpFrame, PumpShape, TypesAt
  <2>11. rx' \in [Pumps -> Receiver] /\ gen' \in [Pumps -> Generation(Nat, Nat)]
    BY <2>3, <2>4
  <2>12. pc' \in [Pumps -> Steps] /\ asked' \in [Pumps -> {None, "Bootstrap", "Publication"}]
    BY <2>5, <2>6
  <2>13. reply' = [q \in Pumps |-> reply'[q]]
    BY <2>7
  <2>14. held' \in [Pumps -> [cut: Nat, replay: Seq(Nat)]] /\ gaps' \in [Pumps -> Nat]
    BY <2>8, <2>10
  <2>15. mirror' \in [Pumps -> Mirror(Nat, Nat, Geometries)]
    BY <2>9
  <2> QED
    BY <2>2, <2>11, <2>12, <2>13, <2>14, <2>15 DEF PumpShape
<1>2. mailbox' \in Seq(Request) /\ Len(mailbox') <= MailboxCapacity /\ MailboxOK'
  <2>1. /\ mailbox \in Seq(Request) /\ Len(mailbox) <= MailboxCapacity /\ MailboxOK
        /\ MailboxCapacity \in Nat
    BY <1>0, PaneAssumption DEF Shape, ActorShape, ActorOK
  <2>2. \A r \in Request : r.kind = "Gap" => r.target \in Target
    BY DEF Request
  <2>3. ASSUME NEW i \in 1..Len(mailbox), mailbox'[i] = mailbox[i]
        PROVE  (IF mailbox[i].kind = "Gap" THEN Known(mailbox[i].target) ELSE resizes > 0)'
    <3>1. mailbox[i] \in Request
      BY <2>1
    <3>2. PICK r \in Request : r = mailbox[i] /\ r = mailbox'[i]
      BY <2>3, <3>1
    <3>3. IF r.kind = "Gap" THEN Known(r.target) ELSE resizes > 0
      BY <3>2, <2>1 DEF MailboxOK
    <3>4. r.kind = "Gap" => Known(r.target)'
      BY <3>3, <2>2, <1>k
    <3> QED
      BY <3>2, <3>3, <3>4, <1>u
  <2>4. CASE mailbox' = mailbox
    BY <2>1, <2>3, <2>4 DEF MailboxOK
  <2>5. CASE mailbox' # mailbox
    <3>1. PICK t \in Target : Known(t)' /\ mailbox' = Append(mailbox, [kind |-> "Gap", target |-> t])
      BY <2>5 DEF MailboxGrows
    <3>2. Len(mailbox) < MailboxCapacity
      BY <2>5 DEF MailboxGrows
    <3>3. PICK req \in Request : req = [kind |-> "Gap", target |-> t]
      BY DEF Request
    <3>4. /\ mailbox' \in Seq(Request) /\ Len(mailbox') = Len(mailbox) + 1 /\ Len(mailbox) \in Nat
          /\ \A i \in 1..Len(mailbox) : mailbox'[i] = mailbox[i]
          /\ mailbox'[Len(mailbox) + 1] = req
      BY <2>1, <3>1, <3>3, AppendProperties
    <3>5. ASSUME NEW i \in 1..Len(mailbox')
          PROVE  (IF mailbox[i].kind = "Gap" THEN Known(mailbox[i].target) ELSE resizes > 0)'
      <4>1. CASE i \in 1..Len(mailbox)
        BY <4>1, <3>4, <2>3
      <4>2. CASE i = Len(mailbox) + 1
        <5>1. mailbox'[i].kind = "Gap" /\ mailbox'[i].target = t
          BY <4>2, <3>3, <3>4
        <5> QED
          BY <5>1, <3>1
      <4> QED
        BY <4>1, <4>2, <3>4
    <3>6. Len(mailbox') <= MailboxCapacity
      BY <2>1, <3>2, <3>4
    <3> QED
      BY <3>4, <3>5, <3>6 DEF MailboxOK
  <2> QED
    BY <2>4, <2>5
<1>3. Shape'
  BY <1>0, <1>1, <1>2, <1>u DEF Shape, ActorShape
<1>4. ActorOK'
  <2>1. BacklogIsASet' /\ CaptureOK'
    BY <1>0, <1>u DEF ActorOK, BacklogIsASet, CaptureOK, BootOK
  <2>2. DebounceOK'
    <3>1. debounce.targets \subseteq Target
      BY <1>0 DEF Shape, ActorShape, Debounce
    <3> QED
      BY <3>1, <1>0, <1>k, <1>u DEF ActorOK, DebounceOK
  <2> QED
    BY <2>1, <2>2, <1>2 DEF ActorOK
<1>5. ASSUME NEW q \in Pumps \ {p}
      PROVE  PumpOK(q)'
  <2>1. PumpOK(q)
    BY <1>0
  <2>2. RequestOK(q)'
    BY <2>1, <1>u DEF PumpOK, RequestOK, Wants, InCapture, Queued, Waiting, Stopped
  <2>4. CutOK(q)'
    BY <2>1, <1>u DEF PumpOK, CutOK, Waiting, Answered, BootOK
  <2>5. FlowOK(q)'
    BY <2>1, <1>u DEF PumpOK, FlowOK, Stopped, Tracks, Position, Answered
  <2>6. GenerationOK(q)' /\ MirrorOK(q)' /\ CountOK(q)'
    BY <2>1, <1>u DEF PumpOK, GenerationOK, MirrorOK, CountOK
  <2>3. AudiencesOK(q)'
    <3>1. \A i \in 1..Len(rx[q].items) : rx[q].items[i] \in Item
      BY <1>0 DEF Shape, PumpShape, Receiver
    <3> QED
      BY <2>1, <3>1, <1>a, <1>u DEF PumpOK, AudiencesOK
  <2> QED
    BY <2>2, <2>3, <2>4, <2>5, <2>6 DEF PumpOK
<1>6. AudiencesOK(p)'
  <2>1. \A i \in 1..Len(rx[p].items) : rx[p].items[i] \in Item
    BY <1>0 DEF Shape, PumpShape, Receiver
  <2>2. AudiencesOK(p)
    BY <1>0 DEF PumpOK
  <2> QED
    BY <2>1, <2>2, <1>a DEF NothingNew, AudiencesOK
<1>7. PumpOK(p)'
  BY <1>6 DEF Owned, PumpOK
<1> QED
  BY <1>3, <1>4, <1>5, <1>7 DEF Inv

(* The invariant, of one pump.                                               *)
\* The invariant's parts.
LEMMA AtPump ==
    ASSUME Inv, NEW p \in Pumps
    PROVE  /\ TypesAt(p) /\ Owned(p) /\ AudiencesOK(p)
           /\ seq \in Nat /\ seq <= MaxSeq /\ MaxSeq \in Nat
           /\ gen[p].id \in Nat /\ gen[p].last \in Nat /\ gen[p].cut \in Nat /\ gaps[p] \in Nat
           /\ rx[p].items \in Seq(Item) /\ gen[p].active \in BOOLEAN /\ gen[p].gap \in BOOLEAN
           /\ (binding[p] # None => binding[p] \in Binding)
<1>1. Shape /\ PumpOK(p) /\ MaxSeq \in Nat
  BY PaneAssumption DEF Inv
<1>2. TypesAt(p) /\ (binding[p] # None => binding[p] \in Binding)
  BY <1>1 DEF Shape, PumpShape, TypesAt
<1> QED
  BY <1>1, <1>2 DEF Shape, ActorShape, Seqs, PumpOK, Owned, TypesAt, Generation, Receiver

(* One item leaves the receiver.                                             *)
\* Receiver::recv.
LEMMA ConsumeOne ==
    ASSUME Inv, NEW p \in Pumps, rx[p].items # <<>>, Consume(p)
    PROVE  /\ rx' = [rx EXCEPT ![p] = rx'[p]] /\ rx'[p] \in Receiver /\ NothingNew(p)
           /\ rx'[p].lagged = rx[p].lagged /\ rx'[p].items = Tail(rx[p].items)
           /\ Len(rx'[p].items) <= Len(rx[p].items)
           /\ Head(rx[p].items) \in Item /\ Head(rx[p].items) = rx[p].items[1]
           /\ 1 \in 1..Len(rx[p].items)
<1>1. rx \in [Pumps -> Receiver] /\ rx[p] \in Receiver /\ rx[p].items \in Seq(Item)
  BY DEF Inv, Shape, PumpShape, Receiver
<1>2. /\ Tail(rx[p].items) \in Seq(Item) /\ Len(Tail(rx[p].items)) = Len(rx[p].items) - 1
      /\ \A i \in 1..Len(Tail(rx[p].items)) : Tail(rx[p].items)[i] = rx[p].items[i + 1]
      /\ Head(rx[p].items) \in Item /\ Head(rx[p].items) = rx[p].items[1]
      /\ Len(rx[p].items) \in Nat \ {0}
  BY <1>1, HeadTailProperties, EmptySeq
<1>3. rx' = [rx EXCEPT ![p] = [rx[p] EXCEPT !.items = Tail(rx[p].items)]]
  BY DEF Consume
<1>4. rx'[p] = [rx[p] EXCEPT !.items = Tail(rx[p].items)]
  BY <1>1, <1>3
<1>5. rx'[p].items = Tail(rx[p].items) /\ rx'[p].lagged = rx[p].lagged /\ rx'[p] \in Receiver
  BY <1>1, <1>2, <1>4 DEF Receiver
<1>6. NothingNew(p)
  <2>1. ASSUME NEW i \in 1..Len(rx'[p].items)
        PROVE  i + 1 \in 1..Len(rx[p].items) /\ rx'[p].items[i] = rx[p].items[i + 1]
    BY <1>2, <1>5
  <2> QED
    BY <2>1 DEF NothingNew
<1>7. rx' = [rx EXCEPT ![p] = rx'[p]]
  BY <1>3, <1>4
<1>8. Len(rx'[p].items) <= Len(rx[p].items) /\ 1 \in 1..Len(rx[p].items)
  BY <1>2, <1>5
<1> QED
  BY <1>2, <1>5, <1>6, <1>7, <1>8

(* A pump whose receiver and mailbox are untouched.                          *)
\* Steps between two receives.
LEMMA NoReceive ==
    ASSUME Inv, NEW p \in Pumps, rx' = rx
    PROVE  rx' = [rx EXCEPT ![p] = rx'[p]] /\ rx'[p] \in Receiver /\ NothingNew(p)
  BY DEF Inv, Shape, PumpShape, NothingNew

(* Where a pump that listens stands, and what the next item does to it.      *)
\* next_event, next_pump_event.
LEMMA NextItem ==
    ASSUME Inv, NEW p \in Pumps, pc[p] = "Run", ~rx[p].lagged, rx[p].items # <<>>
    PROVE  \E a \in 0..seq, b \in 0..seq :
             /\ Moves(Head(rx[p].items), a, b) /\ Flow(Tail(rx[p].items), b, seq)
             /\ gen[p].active /\ ~gen[p].gap => a = gen[p].last
<1>1. FlowOK(p) /\ seq \in Nat /\ rx[p].items \in Seq(Item)
  BY AtPump DEF Owned
<1>2. PICK a \in 0..seq : Flow(rx[p].items, a, seq) /\ (Tracks(p) => a = Position(p))
  BY <1>1 DEF FlowOK, Stopped, Ended
<1>3. PICK b \in a..seq : Moves(Head(rx[p].items), a, b) /\ Flow(Tail(rx[p].items), b, seq)
  BY <1>1, <1>2, FlowHead
<1>4. gen[p].active /\ ~gen[p].gap => a = gen[p].last
  BY <1>2 DEF Tracks, Position
<1>5. b \in 0..seq
  BY <1>1
<1> QED
  BY <1>3, <1>4, <1>5

(* A pump that ends keeps what its consumer shows.                           *)
\* PumpFault.
LEMMA StopKeepsInv ==
    ASSUME Inv, NEW p \in Pumps, NEW how \in Ended, Stop(p, how),
           reply' = [reply EXCEPT ![p] = reply'[p]],
           UNCHANGED <<actorVars, mailbox, nativeVars, resizes, gen, asked, held, mirror, gaps>>
    PROVE  Inv'
<1>0. TypesAt(p) /\ Owned(p)
  BY AtPump
<1>1. pc'[p] = how /\ pc' = [pc EXCEPT ![p] = pc'[p]] /\ pc'[p] \in Steps
  BY DEF Stop, Inv, Shape, PumpShape, Steps
<1>2. rx'[p] = Subscribed /\ rx' = [rx EXCEPT ![p] = rx'[p]]
  BY DEF Stop, Inv, Shape, PumpShape
<1>3. rx'[p] \in Receiver /\ Len(rx'[p].items) = 0
  BY <1>2 DEF Subscribed, Receiver
<1>4. PumpFrame(p) /\ TypesAt(p)'
  BY <1>0, <1>1, <1>2, <1>3 DEF PumpFrame, TypesAt, Inv, Shape, PumpShape
<1>5. NothingNew(p) /\ MailboxGrows
  BY <1>3 DEF NothingNew, MailboxGrows
<1>6. RequestOK(p)'
  BY <1>0, <1>1 DEF Owned, RequestOK, Wants, InCapture, Queued, Waiting, Stopped, Ended, nativeVars
<1>7. CutOK(p)'
  BY <1>0, <1>1 DEF Owned, CutOK, Ended, nativeVars
<1>8. FlowOK(p)'
  BY <1>1, <1>3, PaneAssumption DEF FlowOK, Stopped
<1>9. GenerationOK(p)' /\ MirrorOK(p)' /\ CountOK(p)'
  BY <1>0, <1>1 DEF Owned, GenerationOK, MirrorOK, CountOK, Ended, actorVars
<1>10. gen'[p].id >= gen[p].id /\ gaps'[p] >= gaps[p]
  BY AtPump
<1> QED
  BY <1>4, <1>5, <1>6, <1>7, <1>8, <1>9, <1>10, LocalStep DEF Owned

(* A pump that fences itself and asks for a resync.                          *)
\* request_gap_resync.
LEMMA FenceKeepsInv ==
    ASSUME Inv, NEW p \in Pumps, Listens(p), RequestGapResync(p),
           rx' = [rx EXCEPT ![p] = rx'[p]], rx'[p] \in Receiver, NothingNew(p),
           Len(rx'[p].items) <= RingCapacity,
           \E m \in 0..seq : Flow(rx'[p].items, m, seq),
           UNCHANGED <<actorVars, mailbox, nativeVars, resizes>>
    PROVE  Inv'
<1>0. TypesAt(p) /\ Owned(p) /\ pc[p] = "Run" /\ ~BudgetSpent(gen[p])
  BY AtPump DEF Listens
<1> DEFINE g == NoteResyncRequested(FenceForGap(gen[p]))
<1>1. gen[p] \in Generation(Nat, Nat) /\ (~gen[p].gap => gen[p].attempts = 0)
  BY <1>0 DEF TypesAt, Owned, GenerationOK
<1>2. /\ g \in Generation(Nat, Nat) /\ g.gap
      /\ g.cut = gen[p].cut /\ g.last = gen[p].last /\ g.id = gen[p].id /\ g.active = gen[p].active
  BY <1>0, <1>1, RequestSteps
<1>3. gen' = [gen EXCEPT ![p] = g] /\ gen'[p] = g
  BY DEF RequestGapResync, Inv, Shape, PumpShape
<1> HIDE DEF g
<1>4. pc'[p] = "Request" /\ pc' = [pc EXCEPT ![p] = pc'[p]] /\ pc'[p] \in Steps
  BY DEF RequestGapResync, Inv, Shape, PumpShape, Steps
<1>5. /\ gaps' = [gaps EXCEPT ![p] = gaps'[p]] /\ gaps'[p] \in Nat /\ gaps'[p] >= gaps[p]
      /\ gaps'[p] = IF gen[p].gap THEN gaps[p] ELSE gaps[p] + 1
  <2>1. gaps \in [Pumps -> Nat]
    BY DEF Inv, Shape, PumpShape
  <2>2. CASE gen[p].gap
    BY <2>1, <2>2 DEF RequestGapResync
  <2>3. CASE ~gen[p].gap
    BY <2>1, <2>3 DEF RequestGapResync
  <2> QED
    BY <2>2, <2>3
<1>6. UNCHANGED <<asked, reply, held, mirror>>
  BY DEF RequestGapResync
<1>7. PumpFrame(p) /\ TypesAt(p)'
  BY <1>0, <1>2, <1>3, <1>4, <1>5, <1>6 DEF PumpFrame, TypesAt, Inv, Shape, PumpShape
<1>8. MailboxGrows
  BY DEF MailboxGrows
<1>9. RequestOK(p)'
  BY <1>0, <1>2, <1>3, <1>4, <1>6
     DEF Owned, RequestOK, Wants, InCapture, Queued, Waiting, Stopped, Ended, nativeVars
<1>10. CutOK(p)'
  BY <1>0, <1>4, <1>6 DEF Owned, CutOK, nativeVars
<1>11. FlowOK(p)'
  BY <1>4 DEF FlowOK, Tracks, actorVars
<1>12. GenerationOK(p)' /\ MirrorOK(p)'
  BY <1>0, <1>2, <1>3, <1>4, <1>6 DEF Owned, GenerationOK, MirrorOK, actorVars
<1>13. CountOK(p)'
  <2>1. gen[p].id \in Nat /\ gaps[p] \in Nat
    BY AtPump
  <2> QED
    BY <2>1, <1>0, <1>2, <1>3, <1>4, <1>5 DEF Owned, CountOK
<1>14. gen'[p].id >= gen[p].id
  BY <1>2, <1>3, AtPump
<1> QED
  BY <1>5, <1>7, <1>8, <1>9, <1>10, <1>11, <1>12, <1>13, <1>14, LocalStep DEF Owned

(* An overrun is told once and costs the pump its place.                     *)
\* RecvError::Lagged in run_output_pump.
LEMMA LaggedKeepsInv ==
    ASSUME Inv, NEW p \in Pumps, RecvLagged(p)
    PROVE  Inv'
<1>1. rx[p] \in Receiver /\ FlowOK(p) /\ pc[p] = "Run"
  BY AtPump DEF Owned, TypesAt, RecvLagged, Listens
<1>2. rx' = [rx EXCEPT ![p] = [rx[p] EXCEPT !.lagged = FALSE]] /\ rx \in [Pumps -> Receiver]
  BY DEF RecvLagged, Inv, Shape, PumpShape
<1>3. rx'[p] = [rx[p] EXCEPT !.lagged = FALSE]
  BY <1>2
<1>4. rx'[p].items = rx[p].items /\ rx'[p] \in Receiver
  BY <1>1, <1>3 DEF Receiver
<1>5. NothingNew(p) /\ rx' = [rx EXCEPT ![p] = rx'[p]]
  BY <1>2, <1>3, <1>4 DEF NothingNew
<1>6. \E m \in 0..seq : Flow(rx'[p].items, m, seq)
  BY <1>1, <1>4 DEF FlowOK, Stopped, Ended
<1>7. Len(rx'[p].items) <= RingCapacity
  BY <1>1, <1>4 DEF FlowOK
<1> QED
  BY <1>4, <1>5, <1>6, <1>7, FenceKeepsInv DEF RecvLagged

(* A stale chunk is dropped and costs the pump its place.                    *)
\* run_output_pump, past STALE_OUTPUT_BUDGET.
LEMMA StaleKeepsInv ==
    ASSUME Inv, NEW p \in Pumps, RecvStale(p)
    PROVE  Inv'
<1>1. pc[p] = "Run" /\ ~rx[p].lagged /\ rx[p].items # <<>> /\ Listens(p) /\ Consume(p)
  BY DEF RecvStale, HasItem, Listens
<1>2. /\ rx' = [rx EXCEPT ![p] = rx'[p]] /\ rx'[p] \in Receiver /\ NothingNew(p)
      /\ rx'[p].items = Tail(rx[p].items) /\ Len(rx'[p].items) <= Len(rx[p].items)
  BY <1>1, ConsumeOne
<1>3. \E m \in 0..seq : Flow(rx'[p].items, m, seq)
  BY <1>1, <1>2, NextItem
<1>4. Len(rx'[p].items) <= RingCapacity
  <2>1. Len(rx[p].items) <= RingCapacity /\ Len(rx[p].items) \in Nat /\ RingCapacity \in Nat
    BY AtPump, PaneAssumption DEF Owned, FlowOK
  <2>2. Len(rx'[p].items) \in Nat
    BY <1>2 DEF Receiver
  <2> QED
    BY <1>2, <2>1, <2>2
<1> QED
  BY <1>1, <1>2, <1>3, <1>4, FenceKeepsInv DEF RecvStale

(* A pump that listens reads one item and changes at most its generation and *)
(* its consumer's replica.                                                   *)
\* forward_live, forward_control, republish_synthesized_generation.
LEMMA ReadKeepsInv ==
    ASSUME Inv, NEW p \in Pumps, Listens(p), ~rx[p].lagged, rx[p].items # <<>>, Consume(p),
           gen' = [gen EXCEPT ![p] = gen'[p]], gen'[p] \in Generation(Nat, Nat),
           mirror' = [mirror EXCEPT ![p] = mirror'[p]],
           mirror'[p] \in Mirror(Nat, Nat, Geometries),
           UNCHANGED <<actorVars, mailbox, nativeVars, resizes, pc, asked, reply, held, gaps>>,
           gen'[p].id >= gen[p].id, GenerationOK(p)', MirrorOK(p)', CountOK(p)',
           NEW b \in 0..seq, Flow(Tail(rx[p].items), b, seq),
           gen'[p].active /\ ~gen'[p].gap => gen'[p].last = b
    PROVE  Inv'
<1>0. TypesAt(p) /\ Owned(p) /\ pc[p] = "Run"
  BY AtPump DEF Listens
<1>1. /\ rx' = [rx EXCEPT ![p] = rx'[p]] /\ rx'[p] \in Receiver /\ NothingNew(p)
      /\ rx'[p].items = Tail(rx[p].items) /\ Len(rx'[p].items) <= Len(rx[p].items)
  BY ConsumeOne
<1>2. PumpFrame(p)
  BY <1>1 DEF PumpFrame, Inv, Shape, PumpShape
<1>3. TypesAt(p)'
  BY <1>0, <1>1 DEF TypesAt
<1>4. MailboxGrows /\ gaps'[p] >= gaps[p]
  BY AtPump DEF MailboxGrows
<1>5. RequestOK(p)'
  <2>1. binding[p] # None => binding[p].id \in Nat
    BY AtPump DEF Binding
  <2>2. gen[p].id \in Nat /\ gen'[p].id \in Nat
    BY AtPump DEF Generation
  <2> QED
    BY <1>0, <2>1, <2>2
       DEF Owned, RequestOK, Wants, InCapture, Queued, Waiting, Stopped, Ended, nativeVars
<1>6. CutOK(p)'
  BY <1>0 DEF Owned, CutOK, nativeVars
<1>7. FlowOK(p)'
  <2>1. Len(rx'[p].items) <= RingCapacity
    <3>1. Len(rx[p].items) <= RingCapacity /\ Len(rx[p].items) \in Nat /\ RingCapacity \in Nat
      BY <1>0, AtPump, PaneAssumption DEF Owned, FlowOK
    <3>2. Len(rx'[p].items) \in Nat
      BY <1>1 DEF Receiver
    <3> QED
      BY <1>1, <3>1, <3>2
  <2>2. Flow(rx'[p].items, b, seq') /\ b \in 0..seq'
    BY <1>1 DEF actorVars
  <2>3. Tracks(p)' => b = Position(p)'
    BY <1>0 DEF Tracks, Position
  <2> QED
    BY <2>1, <2>2, <2>3 DEF FlowOK
<1> QED
  BY <1>2, <1>3, <1>1, <1>4, <1>5, <1>6, <1>7, LocalStep DEF Owned

(* A live chunk is the next one of the generation, or is not for it.         *)
\* forward_live.
LEMMA LiveKeepsInv ==
    ASSUME Inv, NEW p \in Pumps, RecvLive(p)
    PROVE  Inv'
<1> DEFINE s == Head(rx[p].items).seq
<1>1. /\ Listens(p) /\ pc[p] = "Run" /\ ~rx[p].lagged /\ rx[p].items # <<>> /\ Consume(p)
      /\ Head(rx[p].items).kind = "Live"
  BY DEF RecvLive, HasItem, Listens
<1>2. PICK a \in 0..seq, b \in 0..seq :
        /\ Moves(Head(rx[p].items), a, b) /\ Flow(Tail(rx[p].items), b, seq)
        /\ gen[p].active /\ ~gen[p].gap => a = gen[p].last
  BY <1>1, NextItem
<1>3. b = a + 1 /\ s = b
  BY <1>1, <1>2 DEF Moves
<1>4. /\ TypesAt(p) /\ GenerationOK(p) /\ MirrorOK(p) /\ CountOK(p)
      /\ gen[p].id \in Nat /\ gen[p].last \in Nat /\ gen[p].cut \in Nat /\ seq \in Nat
  BY AtPump DEF Owned
<1>5. CASE Forwards(gen[p], s)
  <2>1. /\ gen' = [gen EXCEPT ![p] = NoteForwarded(gen[p], s)]
        /\ mirror' = [mirror EXCEPT ![p] = ApplyOutput(mirror[p], gen[p].id, s)]
    BY <1>5 DEF RecvLive
  <2>2. /\ gen'[p] = NoteForwarded(gen[p], s) /\ gen' = [gen EXCEPT ![p] = gen'[p]]
        /\ mirror'[p] = ApplyOutput(mirror[p], gen[p].id, s)
        /\ mirror' = [mirror EXCEPT ![p] = mirror'[p]]
    BY <2>1 DEF Inv, Shape, PumpShape
  <2>3. gen[p].active /\ ~gen[p].gap /\ a = gen[p].last
    BY <1>2, <1>5 DEF Forwards
  <2>4. s \in Nat /\ gen[p] \in Generation(Nat, Nat)
    BY <1>3, <1>4 DEF TypesAt
  <2>5. /\ gen'[p] \in Generation(Nat, Nat) /\ gen'[p].last = s
        /\ gen'[p].cut = gen[p].cut /\ gen'[p].id = gen[p].id /\ gen'[p].active = gen[p].active
        /\ gen'[p].gap = gen[p].gap /\ gen'[p].attempts = gen[p].attempts
    <3> HIDE DEF s
    <3> QED
      BY <2>2, <2>4, ForwardedStep
  <2>12. /\ mirror[p].published = gen[p].id /\ gen[p].id \notin mirror[p].retired
         /\ mirror[p].next = gen[p].last + 1 /\ mirror[p].content = mirror[p].next - 1
         /\ ~mirror[p].error /\ \A r \in mirror[p].retired : r <= gen[p].id
    BY <1>1, <1>4, <2>3 DEF MirrorOK, Frozen
  <2>6. Expects(mirror[p], gen[p].id, s) /\ mirror[p].content = mirror[p].next - 1
    BY <1>3, <2>3, <2>12 DEF Expects
  <2>7. /\ mirror'[p] \in Mirror(Nat, Nat, Geometries)
        /\ mirror'[p].next = s + 1 /\ mirror'[p].content = s
        /\ mirror'[p].published = mirror[p].published /\ mirror'[p].retired = mirror[p].retired
        /\ mirror'[p].error = mirror[p].error
    <3>1. mirror[p] \in Mirror(Nat, Nat, Geometries)
      BY <1>4 DEF TypesAt
    <3> QED
      BY <3>1, <2>2, <2>4, <2>6, <1>4, OutputStep
  <2>8. GenerationOK(p)'
    BY <1>1, <1>3, <1>4, <2>3, <2>5 DEF GenerationOK, RecvLive, actorVars
  <2>9. MirrorOK(p)'
    <3>1. seq' = seq /\ pc'[p] = "Run" /\ s = gen'[p].last /\ s \in 1..seq
      BY <1>1, <1>3, <1>4, <2>5 DEF RecvLive, actorVars
    <3> QED
      BY <3>1, <1>4, <2>3, <2>5, <2>7, <2>12 DEF MirrorOK, Frozen
  <2>10. CountOK(p)'
    BY <1>4, <2>5 DEF CountOK, RecvLive
  <2>11. gen'[p].id >= gen[p].id /\ gen'[p].last = b
    BY <1>3, <1>4, <2>5
  <2> QED
    BY <1>1, <1>2, <2>2, <2>5, <2>7, <2>8, <2>9, <2>10, <2>11, ReadKeepsInv DEF RecvLive
<1>6. CASE ~Forwards(gen[p], s)
  <2>1. gen' = gen /\ mirror' = mirror
    BY <1>6 DEF RecvLive
  <2>2. gen' = [gen EXCEPT ![p] = gen'[p]] /\ mirror' = [mirror EXCEPT ![p] = mirror'[p]]
    BY <2>1 DEF Inv, Shape, PumpShape
  <2>3. ~(gen[p].active /\ ~gen[p].gap)
    BY <1>2, <1>3, <1>4, <1>6 DEF Forwards, GenerationOK
  <2>4. GenerationOK(p)' /\ MirrorOK(p)' /\ CountOK(p)'
    BY <1>4, <2>1 DEF GenerationOK, MirrorOK, CountOK, RecvLive, actorVars
  <2>5. gen'[p] \in Generation(Nat, Nat) /\ mirror'[p] \in Mirror(Nat, Nat, Geometries) /\ gen'[p].id >= gen[p].id
    BY <1>4, <2>1 DEF TypesAt
  <2> QED
    BY <1>1, <1>2, <2>1, <2>2, <2>3, <2>4, <2>5, ReadKeepsInv DEF RecvLive
<1> QED
  BY <1>5, <1>6

(* A tombstone for the pump's own generation retires it on both sides.       *)
\* forward_control.
LEMMA ControlKeepsInv ==
    ASSUME Inv, NEW p \in Pumps, RecvControl(p)
    PROVE  Inv'
<1> DEFINE item == Head(rx[p].items)
<1>1. /\ Listens(p) /\ pc[p] = "Run" /\ ~rx[p].lagged /\ rx[p].items # <<>> /\ Consume(p)
      /\ item.kind \in {"Tombstone", "History"}
  BY DEF RecvControl, HasItem, Listens
<1>2. PICK a \in 0..seq, b \in 0..seq :
        /\ Moves(item, a, b) /\ Flow(Tail(rx[p].items), b, seq)
        /\ gen[p].active /\ ~gen[p].gap => a = gen[p].last
  BY <1>1, NextItem
<1>3. b = a
  BY <1>1, <1>2 DEF Moves
<1>4. /\ TypesAt(p) /\ GenerationOK(p) /\ MirrorOK(p) /\ CountOK(p)
      /\ gen[p].id \in Nat /\ gen[p].last \in Nat /\ gen[p].cut \in Nat /\ seq \in Nat
      /\ gen[p] \in Generation(Nat, Nat) /\ mirror[p] \in Mirror(Nat, Nat, Geometries)
  BY AtPump DEF Owned, TypesAt
<1>5. seq' = seq /\ pc'[p] = "Run" /\ resizes' = resizes /\ gaps' = gaps
  BY <1>1 DEF RecvControl, actorVars
<1>6. CASE item.kind = "Tombstone" /\ item.owner = p /\ item.id = gen[p].id
  <2>1. /\ gen' = [gen EXCEPT ![p] = Retire(gen[p])]
        /\ mirror' = [mirror EXCEPT ![p] = ApplyTombstone(mirror[p], gen[p].id)]
    BY <1>6 DEF RecvControl
  <2>2. /\ gen'[p] = Retire(gen[p]) /\ gen' = [gen EXCEPT ![p] = gen'[p]]
        /\ mirror'[p] = ApplyTombstone(mirror[p], gen[p].id)
        /\ mirror' = [mirror EXCEPT ![p] = mirror'[p]]
    BY <2>1 DEF Inv, Shape, PumpShape
  <2>3. /\ gen'[p] \in Generation(Nat, Nat) /\ gen'[p].active = FALSE /\ gen'[p].last = gen[p].last
        /\ gen'[p].cut = gen[p].cut /\ gen'[p].id = gen[p].id
        /\ gen'[p].gap = gen[p].gap /\ gen'[p].attempts = gen[p].attempts
    BY <1>4, <2>2, RetireStep
  <2>4. /\ mirror'[p] \in Mirror(Nat, Nat, Geometries)
        /\ mirror'[p].next = mirror[p].next /\ mirror'[p].content = mirror[p].content
        /\ mirror'[p].published = mirror[p].published
        /\ mirror'[p].retired = mirror[p].retired \cup {gen[p].id}
        /\ mirror'[p].error = mirror[p].error
    <3>1. PICK old \in Nat : old = gen[p].id
      BY <1>4
    <3>2. mirror'[p] = ApplyTombstone(mirror[p], old)
      BY <2>2, <3>1
    <3>3. mirror[p] \in Mirror(Nat, Nat, Geometries)
      BY <1>4
    <3> QED
      <4> HIDE DEF item
      <4>1. /\ mirror'[p] \in Mirror(Nat, Nat, Geometries)
            /\ mirror'[p].next = mirror[p].next /\ mirror'[p].content = mirror[p].content
            /\ mirror'[p].published = mirror[p].published
            /\ mirror'[p].retired = mirror[p].retired \cup {old}
            /\ mirror'[p].error = mirror[p].error
        BY <3>2, <3>3, TombstoneStep
      <4> QED
        BY <3>1, <4>1
  <2>5. GenerationOK(p)'
    BY <1>4, <1>5, <2>3 DEF GenerationOK
  <2>6. MirrorOK(p)'
    BY <1>1, <1>4, <1>5, <2>3, <2>4 DEF MirrorOK, Frozen
  <2>7. CountOK(p)' /\ gen'[p].id >= gen[p].id
    BY <1>1, <1>4, <1>5, <2>3 DEF CountOK
  <2> QED
    BY <1>1, <1>2, <2>2, <2>3, <2>4, <2>5, <2>6, <2>7, ReadKeepsInv DEF RecvControl
<1>7. CASE ~(item.kind = "Tombstone" /\ item.owner = p /\ item.id = gen[p].id)
  <2>1. gen' = gen /\ mirror' = mirror
    BY <1>7 DEF RecvControl
  <2>2. gen' = [gen EXCEPT ![p] = gen'[p]] /\ mirror' = [mirror EXCEPT ![p] = mirror'[p]]
    BY <2>1 DEF Inv, Shape, PumpShape
  <2>3. GenerationOK(p)' /\ MirrorOK(p)' /\ CountOK(p)'
    BY <1>1, <1>4, <1>5, <2>1 DEF GenerationOK, MirrorOK, CountOK
  <2>4. gen'[p] \in Generation(Nat, Nat) /\ mirror'[p] \in Mirror(Nat, Nat, Geometries) /\ gen'[p].id >= gen[p].id
    BY <1>4, <2>1
  <2>5. gen'[p].active /\ ~gen'[p].gap => gen'[p].last = b
    BY <1>2, <1>3, <2>1
  <2> QED
    BY <1>1, <1>2, <2>2, <2>3, <2>4, <2>5, ReadKeepsInv DEF RecvControl
<1> QED
  BY <1>6, <1>7

(* A resync a pump takes replaces its generation by one that starts where    *)
(* the snapshot was taken, or by one a checkpoint is asked for.              *)
\* republish_synthesized_generation, republish_native_generation.
LEMMA ResyncKeepsInv ==
    ASSUME Inv, NEW p \in Pumps, RecvResync(p)
    PROVE  Inv'
<1> DEFINE item == Head(rx[p].items)
<1>1. /\ Listens(p) /\ pc[p] = "Run" /\ ~rx[p].lagged /\ rx[p].items # <<>> /\ Consume(p)
      /\ item.kind = "Resync"
  BY DEF RecvResync, HasItem, Listens
<1>2. PICK a \in 0..seq, b \in 0..seq :
        /\ Moves(item, a, b) /\ Flow(Tail(rx[p].items), b, seq)
        /\ gen[p].active /\ ~gen[p].gap => a = gen[p].last
  BY <1>1, NextItem
<1>3. b = a /\ item.boot.base = b /\ item.boot.content = b
  BY <1>1, <1>2 DEF Moves
<1>4. /\ TypesAt(p) /\ Owned(p) /\ AudiencesOK(p)
      /\ gen[p].id \in Nat /\ gen[p].last \in Nat /\ gen[p].cut \in Nat /\ seq \in Nat /\ gaps[p] \in Nat
      /\ gen[p] \in Generation(Nat, Nat) /\ mirror[p] \in Mirror(Nat, Nat, Geometries)
      /\ gen[p].active \in BOOLEAN
  BY AtPump DEF TypesAt
<1>o. RequestOK(p) /\ CutOK(p) /\ GenerationOK(p) /\ MirrorOK(p) /\ CountOK(p)
  BY <1>4 DEF Owned
<1>i. PICK fresh \in Nat : fresh = gen[p].id + 1
  BY <1>4
<1>5. seq' = seq /\ resizes' = resizes /\ gaps' = gaps /\ capture' = capture /\ backlog' = backlog
        /\ binding' = binding /\ reply' = reply /\ held' = held /\ mailbox' = mailbox
  BY <1>1 DEF RecvResync, actorVars, nativeVars
<1>6. item \in Item /\ item.boot \in Boot /\ AudienceKnown(item.audience)
  <2>1. item \in Item /\ item = rx[p].items[1] /\ 1 \in 1..Len(rx[p].items)
    BY <1>1, ConsumeOne
  <2>2. item.boot \in Boot
    BY <2>1, <1>1 DEF Item
  <2> QED
    BY <2>1, <2>2, <1>1, <1>4 DEF AudiencesOK
<1>7. ASSUME TakesResync(gen[p], item.audience, ResyncTarget(p, gen[p]))
      PROVE  resizes = 0 => fresh <= 1 + gaps[p]
  <2>1. ASSUME resizes = 0
        PROVE  gen[p].id <= gaps[p]
    <3>1. ResyncTarget(p, gen[p]) \in item.audience.only
      BY <1>6, <1>7, <2>1 DEF TakesResync, AudienceKnown
    <3>2. Known(ResyncTarget(p, gen[p]))
      BY <3>1, <1>6 DEF AudienceKnown
    <3> QED
      BY <3>2, <2>1 DEF Known, ResyncTarget
  <2> QED
    BY <2>1, <1>4, <1>i
<1>8. CASE ~TakesResync(gen[p], item.audience, ResyncTarget(p, gen[p]))
  <2>1. gen' = gen /\ mirror' = mirror /\ pc' = pc /\ asked' = asked
    BY <1>8 DEF RecvResync
  <2>2. gen' = [gen EXCEPT ![p] = gen'[p]] /\ mirror' = [mirror EXCEPT ![p] = mirror'[p]]
    BY <2>1 DEF Inv, Shape, PumpShape
  <2>3. GenerationOK(p)' /\ MirrorOK(p)' /\ CountOK(p)'
    BY <1>1, <1>o, <1>5, <2>1 DEF GenerationOK, MirrorOK, CountOK
  <2>4. gen'[p] \in Generation(Nat, Nat) /\ mirror'[p] \in Mirror(Nat, Nat, Geometries) /\ gen'[p].id >= gen[p].id
    BY <1>4, <2>1
  <2>5. gen'[p].active /\ ~gen'[p].gap => gen'[p].last = b
    BY <1>2, <1>3, <2>1
  <2> QED
    BY <1>1, <1>2, <2>1, <2>2, <2>3, <2>4, <2>5, ReadKeepsInv DEF RecvResync
<1>9. CASE TakesResync(gen[p], item.audience, ResyncTarget(p, gen[p])) /\ p \notin Native
  <2> DEFINE g == SetBootstrapId(gen[p], fresh)
  <2>1. RepublishSynthesized(p, item.boot)
    BY <1>9 DEF RecvResync
  <2>2. /\ gen'[p] = RepublishedAt(g, item.boot.base) /\ gen' = [gen EXCEPT ![p] = gen'[p]]
        /\ mirror'[p] = ApplyBootstrap(mirror[p], fresh, item.boot)
        /\ mirror' = [mirror EXCEPT ![p] = mirror'[p]]
        /\ pc' = pc /\ asked' = asked
    BY <2>1, <1>i DEF RepublishSynthesized, Inv, Shape, PumpShape
  <2>3. fresh \in Nat /\ g \in Generation(Nat, Nat) /\ g.id = fresh
    BY <1>4, BootstrapIdStep
  <2> HIDE DEF g
  <2>b. PICK start \in Nat : start = item.boot.base /\ start = b
    BY <1>3
  <2>4. /\ gen'[p] \in Generation(Nat, Nat) /\ gen'[p].cut = b /\ gen'[p].last = b
        /\ gen'[p].id = fresh /\ gen'[p].active /\ ~gen'[p].gap /\ gen'[p].attempts = 0
    <3>1. PICK opened \in Generation(Nat, Nat) : opened = g /\ opened.id = fresh
      BY <2>3
    <3>2. gen'[p] = RepublishedAt(opened, start)
      BY <2>2, <2>b, <3>1
    <3> HIDE DEF item
    <3>3. /\ gen'[p] \in Generation(Nat, Nat) /\ gen'[p].cut = start /\ gen'[p].last = start
          /\ gen'[p].id = opened.id /\ gen'[p].active /\ ~gen'[p].gap /\ gen'[p].attempts = 0
      BY <3>2, RepublishedStep
    <3> QED
      BY <3>1, <3>3, <2>b
  <2>5. ~RefusesBegin(mirror[p], fresh)
    BY <1>4, <1>i, <1>o DEF RefusesBegin, MirrorOK, Mirror
  <2>6. /\ mirror'[p] \in Mirror(Nat, Nat, Geometries)
        /\ mirror'[p].next = b + 1 /\ mirror'[p].content = b
        /\ mirror'[p].published = fresh
        /\ mirror'[p].retired = mirror[p].retired \cup {mirror[p].published}
        /\ mirror'[p].error = mirror[p].error
    BY <1>3, <1>4, <1>6, <2>2, <2>3, <2>5, BootstrapStep
  <2>7. GenerationOK(p)'
    BY <1>1, <1>5, <2>2, <2>4 DEF GenerationOK
  <2>8. MirrorOK(p)'
    <3>1. \A r \in mirror'[p].retired : r <= gen[p].id
      BY <2>6, <1>o DEF MirrorOK
    <3>2. \A r \in mirror'[p].retired : r \in Nat /\ r < fresh
      <4>1. mirror'[p].retired \subseteq Nat
        BY <2>6 DEF Mirror
      <4>2. ASSUME NEW r \in mirror'[p].retired
            PROVE  r \in Nat /\ r < fresh
        <5>1. r \in Nat /\ r <= gen[p].id
          BY <4>1, <3>1
        <5> QED
          BY <5>1, <1>4, <1>i
      <4> QED
        BY <4>2
    <3>3. ~mirror'[p].error /\ pc'[p] = "Run" /\ b \in 0..seq' /\ seq' \in Nat
      BY <1>1, <1>4, <1>o, <1>5, <2>2, <2>6 DEF MirrorOK
    <3>4. ~Frozen(mirror[p])'
      BY <3>2, <2>6 DEF Frozen
    <3>5. \A r \in mirror'[p].retired : r <= gen'[p].id
      BY <3>2, <2>4
    <3>6. /\ mirror'[p].published = gen'[p].id /\ mirror'[p].next = gen'[p].last + 1
          /\ mirror'[p].content = mirror'[p].next - 1 /\ mirror'[p].next \in 1..(seq' + 1)
          /\ mirror'[p].published <= gen'[p].id
      <4>1. /\ mirror'[p].published = fresh /\ mirror'[p].next = b + 1 /\ mirror'[p].content = b
            /\ gen'[p].id = fresh /\ gen'[p].last = b
        BY <2>4, <2>6
      <4>2. seq \in Nat /\ seq' \in Nat /\ b \in 0..seq'
        BY <3>3, AtPump
      <4>3. b = (b + 1) - 1
        BY <4>2
      <4>4. b + 1 \in 1..(seq' + 1)
        <5>1. b \in Nat /\ b <= seq' /\ seq' \in Nat
          BY <4>2
        <5> QED
          BY <5>1, Successor
      <4>5. fresh <= fresh
        OBVIOUS
      <4> QED
        BY <4>1, <4>3, <4>4, <4>5
    <3> QED
      BY <3>3, <3>4, <3>5, <3>6, <2>4 DEF MirrorOK
  <2>9. CountOK(p)' /\ gen'[p].id >= gen[p].id
    BY <1>4, <1>5, <1>7, <1>9, <1>i, <2>4 DEF CountOK
  <2> QED
    BY <1>1, <1>2, <2>2, <2>4, <2>6, <2>7, <2>8, <2>9, ReadKeepsInv DEF RecvResync
<1>10. CASE TakesResync(gen[p], item.audience, ResyncTarget(p, gen[p])) /\ p \in Native
  <2>1. RepublishNative(p)
    BY <1>10 DEF RecvResync
  <2>2. /\ gen'[p] = SetBootstrapId(gen[p], fresh) /\ gen' = [gen EXCEPT ![p] = gen'[p]]
        /\ mirror'[p] = IF gen[p].active THEN ApplyTombstone(mirror[p], gen[p].id) ELSE mirror[p]
        /\ mirror' = [mirror EXCEPT ![p] = mirror'[p]]
        /\ pc'[p] = "Capture" /\ pc' = [pc EXCEPT ![p] = pc'[p]]
        /\ asked'[p] = "Bootstrap" /\ asked' = [asked EXCEPT ![p] = asked'[p]]
    BY <2>1, <1>i DEF RepublishNative, Inv, Shape, PumpShape
  <2>3. /\ fresh \in Nat /\ gen'[p] \in Generation(Nat, Nat) /\ gen'[p].id = fresh
        /\ gen'[p].cut = gen[p].cut /\ gen'[p].last = gen[p].last /\ gen'[p].active = gen[p].active
        /\ gen'[p].gap = gen[p].gap /\ gen'[p].attempts = gen[p].attempts
    <3>1. gen'[p] = SetBootstrapId(gen[p], fresh) /\ gen[p] \in Generation(Nat, Nat)
      BY <1>4, <2>2
    <3> QED
      BY <3>1, BootstrapIdStep
  <2>4. /\ mirror'[p] \in Mirror(Nat, Nat, Geometries)
        /\ mirror'[p].next = mirror[p].next /\ mirror'[p].content = mirror[p].content
        /\ mirror'[p].published = mirror[p].published
        /\ \A r \in mirror'[p].retired : r <= gen[p].id
        /\ mirror'[p].published \in mirror'[p].retired
        /\ mirror'[p].error = mirror[p].error
    <3>1. CASE gen[p].active
      <4>1. PICK old \in Nat : old = gen[p].id
        BY <1>4
      <4>2. mirror'[p] = ApplyTombstone(mirror[p], old)
        BY <2>2, <3>1, <4>1
      <4>3. mirror'[p].retired = mirror[p].retired \cup {old} /\ mirror'[p].published = old
        <5>1. mirror[p] \in Mirror(Nat, Nat, Geometries)
          BY <1>4
        <5>2. mirror'[p].retired = mirror[p].retired \cup {old} /\ mirror'[p].published = mirror[p].published
          BY <4>2, <5>1, TombstoneStep
        <5>3. mirror[p].published = old
          BY <4>1, <3>1, <1>1, <1>o DEF MirrorOK
        <5> QED
          BY <5>2, <5>3
      <4> QED
        <5>1. mirror[p] \in Mirror(Nat, Nat, Geometries)
          BY <1>4
        <5>2. /\ mirror'[p] \in Mirror(Nat, Nat, Geometries)
              /\ mirror'[p].next = mirror[p].next /\ mirror'[p].content = mirror[p].content
              /\ mirror'[p].published = mirror[p].published
              /\ mirror'[p].error = mirror[p].error
          BY <4>2, <5>1, TombstoneStep
        <5>3. \A r \in mirror'[p].retired : r <= old
          BY <4>1, <4>3, <1>4, <1>o DEF MirrorOK
        <5> QED
          BY <4>1, <4>3, <5>2, <5>3
    <3>2. CASE ~gen[p].active
      BY <3>2, <1>1, <1>4, <1>o, <2>2 DEF MirrorOK, Frozen
    <3> QED
      BY <3>1, <3>2
  <2>5. /\ rx' = [rx EXCEPT ![p] = rx'[p]] /\ rx'[p] \in Receiver /\ NothingNew(p)
        /\ rx'[p].items = Tail(rx[p].items) /\ Len(rx'[p].items) <= Len(rx[p].items)
    BY <1>1, ConsumeOne
  <2>6. PumpFrame(p)
    BY <2>2, <2>5, <1>5 DEF PumpFrame, Inv, Shape, PumpShape, RecvResync
  <2>7. TypesAt(p)'
    BY <1>4, <1>5, <2>2, <2>3, <2>4, <2>5 DEF TypesAt, Steps
  <2>8. RequestOK(p)'
    <3>1. ~Waiting(p) /\ ~InCapture(p) /\ ~Queued(p) /\ reply[p] = None
      BY <1>o, <1>1 DEF RequestOK, Wants, Ended, Stopped
    <3>2. binding[p] # None => binding[p].id <= fresh
      BY <1>o, <1>4, <1>i, AtPump DEF RequestOK, Binding
    <3> QED
      BY <3>1, <3>2, <1>5, <1>10, <2>2, <2>3, <1>o
         DEF RequestOK, Wants, Waiting, InCapture, Queued, Stopped, Ended
  <2>9. CutOK(p)'
    <3>1. ~Waiting(p) /\ reply[p] = None
      BY <1>o, <1>1 DEF RequestOK, Ended
    <3> QED
      BY <3>1, <1>o, <1>5, <2>2 DEF CutOK, Waiting, Answered
  <2>10. FlowOK(p)'
    <3>1. Len(rx'[p].items) <= RingCapacity
      <4>1. Len(rx[p].items) <= RingCapacity /\ Len(rx[p].items) \in Nat /\ RingCapacity \in Nat
        BY <1>4, AtPump, PaneAssumption DEF Owned, FlowOK
      <4>2. Len(rx'[p].items) \in Nat
        BY <2>5 DEF Receiver
      <4> QED
        BY <2>5, <4>1, <4>2
    <3> QED
      BY <3>1, <1>2, <1>5, <2>2, <2>5 DEF FlowOK, Tracks
  <2>11. GenerationOK(p)'
    BY <1>o, <1>1, <1>5, <2>2, <2>3 DEF GenerationOK
  <2>12. MirrorOK(p)'
    <3>1. \A r \in mirror'[p].retired : r \in Nat /\ r < fresh /\ r <= fresh
      BY <1>4, <1>i, <2>4 DEF Mirror
    <3>2. mirror'[p].published <= fresh
      BY <3>1, <2>4
    <3> QED
      BY <3>1, <3>2, <1>o, <1>1, <1>5, <2>2, <2>3, <2>4 DEF MirrorOK, Frozen
  <2>13. CountOK(p)' /\ gen'[p].id >= gen[p].id /\ gaps'[p] >= gaps[p]
    BY <1>4, <1>5, <1>7, <1>10, <1>i, <2>2, <2>3 DEF CountOK
  <2>14. MailboxGrows
    BY <1>5 DEF MailboxGrows
  <2> QED
    BY <2>5, <2>6, <2>7, <2>8, <2>9, <2>10, <2>11, <2>12, <2>13, <2>14, LocalStep DEF Owned
<1> QED
  BY <1>8, <1>9, <1>10

(* A pump that receives nothing changes at most what it owns.                *)
\* Steps between two receives.
LEMMA QuietKeepsInv ==
    ASSUME Inv, NEW p \in Pumps, MailboxGrows,
           UNCHANGED <<actorVars, nativeVars, rx, resizes, gaps>>,
           gen' = [gen EXCEPT ![p] = gen'[p]], gen'[p] \in Generation(Nat, Nat),
           gen'[p].id = gen[p].id,
           pc' = [pc EXCEPT ![p] = pc'[p]], pc'[p] \in Steps,
           asked' = [asked EXCEPT ![p] = asked'[p]],
           asked'[p] \in {None, "Bootstrap", "Publication"},
           reply' = [reply EXCEPT ![p] = reply'[p]],
           held' = [held EXCEPT ![p] = held'[p]], held'[p] \in [cut: Nat, replay: Seq(Nat)],
           mirror' = [mirror EXCEPT ![p] = mirror'[p]],
           mirror'[p] \in Mirror(Nat, Nat, Geometries),
           Owned(p)'
    PROVE  Inv'
<1>0. TypesAt(p)
  BY AtPump
<1>1. rx' = [rx EXCEPT ![p] = rx'[p]] /\ rx'[p] \in Receiver /\ NothingNew(p)
  BY NoReceive
<1>2. PumpFrame(p)
  BY <1>1 DEF PumpFrame, Inv, Shape, PumpShape
<1>3. TypesAt(p)'
  BY <1>0, <1>1 DEF TypesAt
<1>4. gen'[p].id >= gen[p].id /\ gaps'[p] >= gaps[p]
  BY AtPump
<1> QED
  BY <1>1, <1>2, <1>3, <1>4, LocalStep

(* A request that found room names the generation the pump fenced.           *)
\* enqueue_output_resync.
LEMMA EnqueueKeepsInv ==
    ASSUME Inv, NEW p \in Pumps, EnqueueResync(p)
    PROVE  Inv'
<1>0. /\ TypesAt(p) /\ RequestOK(p) /\ CutOK(p) /\ FlowOK(p) /\ GenerationOK(p)
      /\ MirrorOK(p) /\ CountOK(p) /\ gen[p].id \in Nat
  BY AtPump DEF Owned
<1>1. /\ pc[p] = "Request" /\ pc'[p] = "Run" /\ pc' = [pc EXCEPT ![p] = pc'[p]] /\ pc'[p] \in Steps
      /\ UNCHANGED <<actorVars, nativeVars, rx, resizes, gen, asked, reply, held, mirror, gaps>>
  BY DEF EnqueueResync, Inv, Shape, PumpShape, Steps
<1>2. MailboxGrows
  <2>1. ResyncTarget(p, gen[p]) \in Target
    BY <1>0 DEF ResyncTarget, Target
  <2>2. Known(ResyncTarget(p, gen[p]))
    BY <1>0, <1>1 DEF Known, ResyncTarget, GenerationOK, CountOK
  <2>3. PICK t \in Target : t = ResyncTarget(p, gen[p])
    BY <2>1
  <2>4. Known(t)'
    BY <2>2, <2>3, <1>1 DEF Known
  <2> QED
    BY <2>3, <2>4 DEF MailboxGrows, EnqueueResync
<1>3. RequestOK(p)' /\ CutOK(p)'
  BY <1>0, <1>1
     DEF RequestOK, CutOK, Wants, InCapture, Queued, Waiting, Stopped, Ended, Answered, nativeVars
<1>4. FlowOK(p)'
  BY <1>0, <1>1 DEF FlowOK, Tracks, Position, Stopped, Ended, GenerationOK, actorVars
<1>5. GenerationOK(p)' /\ MirrorOK(p)' /\ CountOK(p)'
  BY <1>0, <1>1 DEF GenerationOK, MirrorOK, CountOK, actorVars
<1>6. /\ gen' = [gen EXCEPT ![p] = gen'[p]] /\ asked' = [asked EXCEPT ![p] = asked'[p]]
      /\ reply' = [reply EXCEPT ![p] = reply'[p]] /\ held' = [held EXCEPT ![p] = held'[p]]
      /\ mirror' = [mirror EXCEPT ![p] = mirror'[p]]
  BY <1>1 DEF Inv, Shape, PumpShape
<1>7. /\ gen'[p] \in Generation(Nat, Nat) /\ asked'[p] \in {None, "Bootstrap", "Publication"}
      /\ held'[p] \in [cut: Nat, replay: Seq(Nat)] /\ mirror'[p] \in Mirror(Nat, Nat, Geometries)
      /\ gen'[p].id = gen[p].id
  BY <1>0, <1>1 DEF TypesAt
<1> QED
  BY <1>1, <1>2, <1>3, <1>4, <1>5, <1>6, <1>7, QuietKeepsInv DEF Owned

(* A fenced pump asks again, within its budget.                              *)
\* retry_gap_resync.
LEMMA RetryKeepsInv ==
    ASSUME Inv, NEW p \in Pumps, RetryResync(p)
    PROVE  Inv'
<1> DEFINE g == NoteResyncRequested(gen[p])
<1>0. /\ TypesAt(p) /\ RequestOK(p) /\ CutOK(p) /\ FlowOK(p) /\ GenerationOK(p)
      /\ MirrorOK(p) /\ CountOK(p) /\ gen[p].id \in Nat /\ gen[p] \in Generation(Nat, Nat)
  BY AtPump DEF Owned, TypesAt
<1>1. /\ pc[p] = "Run" /\ gen[p].gap /\ ~BudgetSpent(gen[p])
      /\ pc'[p] = "Request" /\ pc' = [pc EXCEPT ![p] = pc'[p]] /\ pc'[p] \in Steps
      /\ UNCHANGED <<actorVars, mailbox, nativeVars, rx, resizes, asked, reply, held, mirror, gaps>>
  BY DEF RetryResync, Listens, Inv, Shape, PumpShape, Steps
<1>2. /\ g \in Generation(Nat, Nat) /\ g.gap = gen[p].gap
      /\ g.cut = gen[p].cut /\ g.last = gen[p].last /\ g.id = gen[p].id /\ g.active = gen[p].active
  BY <1>0, <1>1, RequestSteps
<1>3. gen'[p] = g /\ gen' = [gen EXCEPT ![p] = gen'[p]]
  BY DEF RetryResync, Inv, Shape, PumpShape
<1> HIDE DEF g
<1>4. RequestOK(p)' /\ CutOK(p)'
  BY <1>0, <1>1, <1>2, <1>3
     DEF RequestOK, CutOK, Wants, InCapture, Queued, Waiting, Stopped, Ended, Answered, nativeVars
<1>5. FlowOK(p)'
  BY <1>0, <1>1 DEF FlowOK, Tracks, Stopped, Ended, actorVars
<1>6. GenerationOK(p)' /\ MirrorOK(p)' /\ CountOK(p)'
  BY <1>0, <1>1, <1>2, <1>3 DEF GenerationOK, MirrorOK, CountOK, actorVars
<1>7. /\ asked' = [asked EXCEPT ![p] = asked'[p]]
      /\ reply' = [reply EXCEPT ![p] = reply'[p]] /\ held' = [held EXCEPT ![p] = held'[p]]
      /\ mirror' = [mirror EXCEPT ![p] = mirror'[p]] /\ MailboxGrows
  BY <1>1 DEF Inv, Shape, PumpShape, MailboxGrows
<1>8. /\ asked'[p] \in {None, "Bootstrap", "Publication"}
      /\ held'[p] \in [cut: Nat, replay: Seq(Nat)] /\ mirror'[p] \in Mirror(Nat, Nat, Geometries)
  BY <1>0, <1>1 DEF TypesAt
<1> QED
  BY <1>1, <1>2, <1>3, <1>4, <1>5, <1>6, <1>7, <1>8, QuietKeepsInv DEF Owned

(* The checkpoint a pump was answered with opens the generation it asked     *)
(* for, at the checkpoint's own cut.                                         *)
\* capture_native_checkpoint, publish_native_bootstrap.
LEMMA PublishKeepsInv ==
    ASSUME Inv, NEW p \in Pumps, PublishCheckpoint(p)
    PROVE  Inv'
<1>0. /\ TypesAt(p) /\ RequestOK(p) /\ CutOK(p) /\ FlowOK(p) /\ GenerationOK(p)
      /\ MirrorOK(p) /\ CountOK(p) /\ gen[p].id \in Nat /\ seq \in Nat
  BY AtPump DEF Owned
<1>1. /\ pc[p] = "Capture" /\ reply[p] # None
      /\ reply'[p] = None /\ reply' = [reply EXCEPT ![p] = reply'[p]]
      /\ UNCHANGED <<actorVars, mailbox, nativeVars, resizes, gen, gaps>>
  BY DEF PublishCheckpoint, Inv, Shape, PumpShape
<1>2. CASE ~reply[p].ok
  <2>1. Stop(p, "Lost") /\ "Lost" \in Ended /\ UNCHANGED <<mirror, held, asked>>
    BY <1>2 DEF PublishCheckpoint, Ended
  <2> QED
    BY <1>1, <2>1, StopKeepsInv
<1>3. CASE reply[p].ok
  <2>1. Answered(p) /\ BootOK(reply[p].boot)
    BY <1>0, <1>1, <1>3 DEF CutOK, Answered
  <2>2. PICK boot \in Boot : boot = reply[p].boot /\ boot.content = boot.base /\ boot.base <= seq
    BY <2>1 DEF BootOK
  <2>3. /\ mirror'[p] = ApplyBootstrap(mirror[p], gen[p].id, boot)
        /\ mirror' = [mirror EXCEPT ![p] = mirror'[p]]
        /\ held'[p] = [held[p] EXCEPT !.cut = boot.base] /\ held' = [held EXCEPT ![p] = held'[p]]
        /\ pc'[p] = "Activate" /\ pc' = [pc EXCEPT ![p] = pc'[p]]
        /\ asked'[p] = "Publication" /\ asked' = [asked EXCEPT ![p] = asked'[p]]
        /\ rx' = rx
    BY <1>3, <2>2 DEF PublishCheckpoint, Inv, Shape, PumpShape
  <2>4. boot.base \in Nat /\ held'[p] \in [cut: Nat, replay: Seq(Nat)] /\ held'[p].cut = boot.base
    <3>1. boot.base \in Nat
      BY PaneAssumption DEF Boot, Seqs
    <3> QED
      BY <3>1, <1>0, <2>3 DEF TypesAt
  <2>5. /\ mirror[p].published \in mirror[p].retired /\ ~mirror[p].error
        /\ \A r \in mirror[p].retired : r < gen[p].id
    BY <1>0, <1>1 DEF MirrorOK, Frozen
  <2>6. PICK own \in Nat : own = gen[p].id
    BY <1>0
  <2>7. mirror[p] \in Mirror(Nat, Nat, Geometries) /\ mirror'[p] = ApplyBootstrap(mirror[p], own, boot)
    BY <1>0, <2>3, <2>6 DEF TypesAt
  <2>8. own \notin mirror[p].retired /\ own # mirror[p].published
    BY <2>5, <2>6
  <2>9. /\ mirror'[p] \in Mirror(Nat, Nat, Geometries)
        /\ mirror'[p].next = boot.base + 1 /\ mirror'[p].content = boot.content
        /\ mirror'[p].published = own
        /\ mirror'[p].retired = mirror[p].retired \cup {mirror[p].published}
        /\ mirror'[p].error = mirror[p].error
    BY <2>7, <2>8, BootstrapStep DEF RefusesBegin
  <2>10. /\ mirror'[p].retired = mirror[p].retired
         /\ \A r \in mirror'[p].retired : r \in Nat /\ r < own /\ r <= own
    <3>1. mirror'[p].retired = mirror[p].retired
      BY <2>5, <2>9
    <3>2. mirror[p].retired \subseteq Nat
      BY <2>7 DEF Mirror
    <3>3. \A r \in mirror[p].retired : r \in Nat /\ r < own
      BY <2>5, <2>6, <3>2
    <3> QED
      BY <3>1, <3>3
  <2>11. MirrorOK(p)'
    <3>1. boot.base + 1 \in 1 .. (seq + 1) /\ boot.content = (boot.base + 1) - 1 /\ seq' = seq
      BY <2>2, <2>4, <1>0, <1>1 DEF actorVars
    <3>2. gen'[p].id = own /\ own <= own
      BY <1>1, <2>6
    <3> QED
      BY <3>1, <3>2, <2>3, <2>4, <2>5, <2>8, <2>9, <2>10 DEF MirrorOK, Frozen
  <2>12. RequestOK(p)'
    <3>1. ~InCapture(p) /\ ~Queued(p)
      BY <1>0, <1>1 DEF RequestOK, Wants, Stopped, Ended
    <3> QED
      BY <3>1, <1>0, <1>1, <2>3
         DEF RequestOK, Wants, InCapture, Queued, Waiting, Stopped, Ended, nativeVars
  <2>13. CutOK(p)'
    <3>1. Waiting(p) => Run(binding[p].replay, boot.base, seq)
      BY <1>0, <1>1, <2>2 DEF CutOK
    <3> QED
      BY <3>1, <1>0, <1>1, <2>2, <2>3, <2>4 DEF CutOK, Waiting, Answered, actorVars, nativeVars
  <2>14. FlowOK(p)'
    BY <1>0, <1>1, <2>3 DEF FlowOK, Tracks, Answered, Stopped, Ended, actorVars
  <2>15. GenerationOK(p)' /\ CountOK(p)'
    BY <1>0, <1>1, <2>3 DEF GenerationOK, CountOK, actorVars
  <2>16. /\ gen' = [gen EXCEPT ![p] = gen'[p]] /\ gen'[p] \in Generation(Nat, Nat)
         /\ gen'[p].id = gen[p].id /\ MailboxGrows /\ pc'[p] \in Steps
         /\ asked'[p] \in {None, "Bootstrap", "Publication"}
    BY <1>0, <1>1, <2>3 DEF Inv, Shape, PumpShape, TypesAt, MailboxGrows, Steps
  <2> QED
    BY <1>1, <2>3, <2>4, <2>9, <2>11, <2>12, <2>13, <2>14, <2>15, <2>16, QuietKeepsInv DEF Owned
<1> QED
  BY <1>2, <1>3

(* The publication's replay leads on from the cut, and the receiver from the *)
(* replay.                                                                   *)
\* activate_native_publication.
LEMMA AdoptKeepsInv ==
    ASSUME Inv, NEW p \in Pumps, AdoptPublication(p)
    PROVE  Inv'
<1>0. /\ TypesAt(p) /\ RequestOK(p) /\ CutOK(p) /\ FlowOK(p) /\ GenerationOK(p)
      /\ MirrorOK(p) /\ CountOK(p) /\ gen[p].id \in Nat /\ seq \in Nat
      /\ gen[p] \in Generation(Nat, Nat)
  BY AtPump DEF Owned, TypesAt
<1>1. /\ pc[p] = "Activate" /\ reply[p] # None
      /\ reply'[p] = None /\ reply' = [reply EXCEPT ![p] = reply'[p]]
      /\ UNCHANGED <<actorVars, mailbox, nativeVars, resizes, asked, mirror, gaps>>
  BY DEF AdoptPublication, Inv, Shape, PumpShape
<1>2. CASE ~reply[p].ok
  <2>1. Stop(p, "NotActivated") /\ "NotActivated" \in Ended /\ UNCHANGED <<gen, held>>
    BY <1>2 DEF AdoptPublication, Ended
  <2> QED
    BY <1>1, <2>1, StopKeepsInv
<1>3. CASE reply[p].ok
  <2>1. Answered(p)
    BY <1>1, <1>3 DEF Answered
  <2>2. PICK r \in Seq(Nat) : /\ r = reply[p].replay
                              /\ Run(r, held[p].cut, held[p].cut + Len(r))
                              /\ held[p].cut + Len(r) <= seq
    BY <1>0, <1>1, <2>1 DEF CutOK
  <2>3. PICK cut \in Nat : cut = held[p].cut
    BY <1>0 DEF TypesAt
  <2>4. /\ gen'[p] = RepublishedAt(gen[p], cut) /\ gen' = [gen EXCEPT ![p] = gen'[p]]
        /\ held'[p] = [held[p] EXCEPT !.replay = r] /\ held' = [held EXCEPT ![p] = held'[p]]
        /\ pc'[p] = "Replay" /\ pc' = [pc EXCEPT ![p] = pc'[p]]
        /\ rx' = rx
    BY <1>3, <2>2, <2>3 DEF AdoptPublication, Inv, Shape, PumpShape
  <2>5. /\ gen'[p] \in Generation(Nat, Nat) /\ gen'[p].cut = cut /\ gen'[p].last = cut
        /\ gen'[p].id = gen[p].id /\ gen'[p].active /\ ~gen'[p].gap /\ gen'[p].attempts = 0
    <3>1. PICK opened \in Generation(Nat, Nat) : opened = gen[p]
      BY <1>0
    <3>2. gen'[p] = RepublishedAt(opened, cut)
      BY <2>4, <3>1
    <3>3. /\ gen'[p] \in Generation(Nat, Nat) /\ gen'[p].cut = cut /\ gen'[p].last = cut
          /\ gen'[p].id = opened.id /\ gen'[p].active /\ ~gen'[p].gap /\ gen'[p].attempts = 0
      BY <3>2, RepublishedStep
    <3> QED
      BY <3>1, <3>3
  <2>6. held'[p] \in [cut: Nat, replay: Seq(Nat)] /\ held'[p].replay = r
    BY <1>0, <2>4 DEF TypesAt
  <2>7. RequestOK(p)'
    <3>1. asked[p] # "Publication" /\ ~Wants(p) /\ ~Waiting(p)
      BY <1>0, <1>1 DEF RequestOK, Stopped, Ended
    <3> QED
      BY <3>1, <1>0, <1>1, <2>4, <2>5
         DEF RequestOK, Wants, InCapture, Queued, Waiting, Stopped, Ended, nativeVars
  <2>8. CutOK(p)'
    BY <1>0, <1>1, <2>2, <2>3, <2>4, <2>5, <2>6 DEF CutOK, actorVars, nativeVars
  <2>9. FlowOK(p)'
    <3>1. Len(rx'[p].items) <= RingCapacity /\ ~Stopped(p)
      BY <1>0, <1>1, <2>4 DEF FlowOK, Stopped, Ended
    <3>2. PICK m \in 0..seq : Flow(rx[p].items, m, seq) /\ (Tracks(p) => m = Position(p))
      BY <1>0, <3>1 DEF FlowOK
    <3>3. Tracks(p)' => Tracks(p)
      BY <1>1, <2>1, <2>4 DEF Tracks
    <3>4. Position(p) = cut + Len(r) /\ Position(p)' = cut + Len(r)
      BY <1>1, <2>2, <2>3, <2>4, <2>5, <2>6 DEF Position
    <3> QED
      BY <3>1, <3>2, <3>3, <3>4, <1>1, <2>4 DEF FlowOK, actorVars
  <2>10. GenerationOK(p)'
    <3>1. cut <= seq
      BY <1>0, <1>1, <2>3 DEF CutOK
    <3> QED
      BY <3>1, <1>1, <2>4, <2>5 DEF GenerationOK, actorVars
  <2>11. MirrorOK(p)' /\ CountOK(p)'
    BY <1>0, <1>1, <2>3, <2>4, <2>5 DEF MirrorOK, CountOK, actorVars
  <2>12. /\ asked' = [asked EXCEPT ![p] = asked'[p]] /\ mirror' = [mirror EXCEPT ![p] = mirror'[p]]
         /\ asked'[p] \in {None, "Bootstrap", "Publication"}
         /\ mirror'[p] \in Mirror(Nat, Nat, Geometries) /\ MailboxGrows /\ pc'[p] \in Steps
    BY <1>0, <1>1, <2>4 DEF Inv, Shape, PumpShape, TypesAt, MailboxGrows, Steps
  <2> QED
    BY <1>1, <2>4, <2>5, <2>6, <2>7, <2>8, <2>9, <2>10, <2>11, <2>12, QuietKeepsInv DEF Owned
<1> QED
  BY <1>2, <1>3

(* The replay is forwarded chunk by chunk, each the next of the generation.  *)
\* republish_native_generation, the replay.
LEMMA ReplayKeepsInv ==
    ASSUME Inv, NEW p \in Pumps, ForwardReplay(p)
    PROVE  Inv'
<1>0. /\ TypesAt(p) /\ RequestOK(p) /\ CutOK(p) /\ FlowOK(p) /\ GenerationOK(p)
      /\ MirrorOK(p) /\ CountOK(p) /\ gen[p].id \in Nat /\ seq \in Nat /\ gen[p].last \in Nat
      /\ gen[p].cut \in Nat /\ gen[p] \in Generation(Nat, Nat)
      /\ mirror[p] \in Mirror(Nat, Nat, Geometries)
  BY AtPump DEF Owned, TypesAt
<1>1. /\ pc[p] = "Replay" /\ gen[p].active /\ ~gen[p].gap
      /\ UNCHANGED <<actorVars, mailbox, nativeVars, rx, resizes, asked, reply, gaps>>
  BY <1>0 DEF ForwardReplay, GenerationOK
<1>2. PICK r \in Seq(Nat) : r = held[p].replay
  BY <1>0 DEF TypesAt
<1>3. PICK last \in Nat : last = gen[p].last
  BY <1>0
<1>4. Len(r) \in Nat /\ Run(r, last, last + Len(r)) /\ last + Len(r) <= seq
  BY <1>0, <1>1, <1>2, <1>3 DEF CutOK
<1>5. PICK m \in 0..seq : Flow(rx[p].items, m, seq) /\ (~rx[p].lagged => m = last + Len(r))
  BY <1>0, <1>1, <1>2, <1>3 DEF FlowOK, Stopped, Ended, Tracks, Position
<1>6. /\ asked' = [asked EXCEPT ![p] = asked'[p]] /\ reply' = [reply EXCEPT ![p] = reply'[p]]
      /\ asked'[p] \in {None, "Bootstrap", "Publication"} /\ MailboxGrows
  BY <1>0, <1>1 DEF Inv, Shape, PumpShape, TypesAt, MailboxGrows
<1>7. CASE r = <<>>
  <2>1. /\ pc'[p] = "Run" /\ pc' = [pc EXCEPT ![p] = pc'[p]] /\ pc'[p] \in Steps
        /\ gen' = gen /\ mirror' = mirror /\ held' = held
    BY <1>2, <1>7 DEF ForwardReplay, Inv, Shape, PumpShape, Steps
  <2>2. RequestOK(p)' /\ CutOK(p)'
    BY <1>0, <1>1, <2>1
       DEF RequestOK, CutOK, Wants, InCapture, Queued, Waiting, Stopped, Ended, Answered, nativeVars
  <2>3. FlowOK(p)'
    <3>1. m = gen[p].last \/ rx[p].lagged
      BY <1>3, <1>4, <1>5, <1>7
    <3> QED
      BY <3>1, <1>0, <1>1, <1>5, <2>1 DEF FlowOK, Tracks, Position, actorVars
  <2>4. GenerationOK(p)' /\ MirrorOK(p)' /\ CountOK(p)'
    BY <1>0, <1>1, <2>1 DEF GenerationOK, MirrorOK, CountOK, actorVars
  <2>5. /\ gen' = [gen EXCEPT ![p] = gen'[p]] /\ gen'[p] \in Generation(Nat, Nat)
        /\ gen'[p].id = gen[p].id /\ held' = [held EXCEPT ![p] = held'[p]]
        /\ held'[p] \in [cut: Nat, replay: Seq(Nat)]
        /\ mirror' = [mirror EXCEPT ![p] = mirror'[p]] /\ mirror'[p] \in Mirror(Nat, Nat, Geometries)
    BY <1>0, <2>1 DEF Inv, Shape, PumpShape, TypesAt
  <2> QED
    BY <1>1, <1>6, <2>1, <2>2, <2>3, <2>4, <2>5, QuietKeepsInv DEF Owned
<1>8. CASE r # <<>>
  <2>1. PICK hi \in Nat : hi = last + Len(r)
    BY <1>4
  <2>2. Head(r) = last + 1 /\ Run(Tail(r), last + 1, hi) /\ Tail(r) \in Seq(Nat)
    BY <1>4, <1>8, <2>1, RunSteps
  <2>3. PICK s \in Nat : s = Head(r) /\ s = last + 1
    BY <2>2
  <2>4. /\ hi = s + Len(Tail(r)) /\ Len(Tail(r)) \in Nat /\ s <= hi /\ hi <= seq
        /\ Run(Tail(r), s, s + Len(Tail(r)))
    <3>1. hi = s + Len(Tail(r)) /\ Run(Tail(r), s, hi)
      BY <2>2, <2>3 DEF Run
    <3>2. Len(Tail(r)) \in Nat
      BY <2>2
    <3> QED
      BY <3>1, <3>2, <2>1, <1>4
  <2>5. Forwards(gen[p], s)
    BY <1>0, <1>1, <1>3, <2>3 DEF Forwards, GenerationOK
  <2>6. /\ gen'[p] = NoteForwarded(gen[p], s) /\ gen' = [gen EXCEPT ![p] = gen'[p]]
        /\ mirror'[p] = ApplyOutput(mirror[p], gen[p].id, s)
        /\ mirror' = [mirror EXCEPT ![p] = mirror'[p]]
        /\ held'[p] = [held[p] EXCEPT !.replay = Tail(r)] /\ held' = [held EXCEPT ![p] = held'[p]]
        /\ pc' = pc
    BY <1>2, <1>8, <2>3, <2>5 DEF ForwardReplay, Inv, Shape, PumpShape
  <2>7. held'[p] \in [cut: Nat, replay: Seq(Nat)] /\ held'[p].replay = Tail(r)
    BY <1>0, <2>2, <2>6 DEF TypesAt
  <2>8. /\ gen'[p] \in Generation(Nat, Nat) /\ gen'[p].last = s
        /\ gen'[p].cut = gen[p].cut /\ gen'[p].id = gen[p].id /\ gen'[p].active = gen[p].active
        /\ gen'[p].gap = gen[p].gap /\ gen'[p].attempts = gen[p].attempts
    <3>1. PICK g \in Generation(Nat, Nat) : g = gen[p]
      BY <1>0
    <3>2. gen'[p] = NoteForwarded(g, s)
      BY <3>1, <2>6
    <3>3. PICK h : h = NoteForwarded(g, s)
      OBVIOUS
    <3>4. /\ h \in Generation(Nat, Nat) /\ h.last = s /\ h.cut = g.cut /\ h.id = g.id
          /\ h.active = g.active /\ h.gap = g.gap /\ h.attempts = g.attempts
      BY <3>3, ForwardedStep
    <3> QED
      BY <3>1, <3>2, <3>3, <3>4
  <2>9. /\ mirror[p].published = gen[p].id /\ gen[p].id \notin mirror[p].retired
        /\ mirror[p].next = gen[p].last + 1 /\ mirror[p].content = mirror[p].next - 1
        /\ ~mirror[p].error /\ \A q \in mirror[p].retired : q <= gen[p].id
    BY <1>0, <1>1 DEF MirrorOK, Frozen
  <2>10. /\ mirror'[p] \in Mirror(Nat, Nat, Geometries)
         /\ mirror'[p].next = s + 1 /\ mirror'[p].content = s
         /\ mirror'[p].published = mirror[p].published /\ mirror'[p].retired = mirror[p].retired
         /\ mirror'[p].error = mirror[p].error
    <3>1. PICK own \in Nat : own = gen[p].id
      BY <1>0
    <3>2. Expects(mirror[p], own, s) /\ mirror[p].content = mirror[p].next - 1
      BY <1>3, <2>3, <2>9, <3>1 DEF Expects
    <3>3. mirror'[p] = ApplyOutput(mirror[p], own, s) /\ mirror[p] \in Mirror(Nat, Nat, Geometries)
      BY <1>0, <2>6, <3>1
    <3> QED
      BY <3>2, <3>3, OutputStep
  <2>11. RequestOK(p)'
    BY <1>0, <1>1, <2>6, <2>8
       DEF RequestOK, Wants, InCapture, Queued, Waiting, Stopped, Ended, nativeVars
  <2>12. CutOK(p)'
    <3>1. Run(held'[p].replay, gen'[p].last, gen'[p].last + Len(held'[p].replay))
      BY <2>4, <2>7, <2>8
    <3>2. gen'[p].last + Len(held'[p].replay) <= seq'
      BY <2>4, <2>7, <2>8, <1>1 DEF actorVars
    <3> QED
      BY <3>1, <3>2, <1>0, <1>1, <2>6 DEF CutOK, nativeVars
  <2>13. FlowOK(p)'
    <3>1. Position(p)' = s + Len(Tail(r))
      BY <1>1, <2>6, <2>7, <2>8 DEF Position
    <3>2. m = Position(p)' \/ rx[p].lagged
      BY <3>1, <2>1, <2>4, <1>5
    <3> QED
      BY <3>2, <1>0, <1>1, <1>5 DEF FlowOK, Tracks, actorVars
  <2>14. GenerationOK(p)' /\ CountOK(p)'
    <3>1. gen[p].cut <= s /\ s <= seq /\ gen[p].attempts = 0
      <4>1. gen[p].cut <= last /\ gen[p].attempts = 0
        BY <1>0, <1>1, <1>3 DEF GenerationOK
      <4>2. gen[p].cut \in Nat /\ seq \in Nat
        BY <1>0
      <4>3. s = last + 1 /\ s <= hi /\ hi <= seq
        BY <2>3, <2>4
      <4> QED
        BY <4>1, <4>2, <4>3
    <3>2. GenerationOK(p)'
      BY <3>1, <1>1, <2>6, <2>8 DEF GenerationOK, actorVars
    <3> QED
      BY <3>2, <1>0, <1>1, <2>6, <2>8 DEF CountOK
  <2>15. MirrorOK(p)'
    <3>1. s + 1 \in 1 .. (seq + 1) /\ s = (s + 1) - 1 /\ seq' = seq
      BY <2>4, <1>0, <1>1 DEF actorVars
    <3> QED
      BY <3>1, <1>1, <2>6, <2>8, <2>9, <2>10, <1>0 DEF MirrorOK, Frozen
  <2>16. pc' = [pc EXCEPT ![p] = pc'[p]] /\ pc'[p] \in Steps
    BY <2>6 DEF Inv, Shape, PumpShape
  <2>17. UNCHANGED <<actorVars, nativeVars, rx, resizes, gaps>>
    BY <1>1
  <2>18. Owned(p)'
    BY <2>11, <2>12, <2>13, <2>14, <2>15 DEF Owned
  <2> QED
    BY <1>6, <2>6, <2>7, <2>8, <2>10, <2>16, <2>17, <2>18, QuietKeepsInv
<1> QED
  BY <1>7, <1>8

(* Whatever a pump does keeps the invariant.                                 *)
\* run_output_pump, AttachResourcePumpCtx::run.
LEMMA PumpKeepsInv ==
    ASSUME Inv, NEW p \in Pumps, PumpStep(p) \/ OutboundClosed(p)
    PROVE  Inv'
<1>1. "Lost" \in Ended /\ "Closed" \in Ended
  BY DEF Ended
<1>2. reply = [reply EXCEPT ![p] = reply[p]]
  BY DEF Inv, Shape, PumpShape
<1>3. CASE RequestTimesOut(p) \/ AbandonGap(p) \/ OutboundClosed(p)
  BY <1>1, <1>2, <1>3, StopKeepsInv DEF RequestTimesOut, AbandonGap, OutboundClosed
<1> QED
  BY <1>3, LaggedKeepsInv, LiveKeepsInv, StaleKeepsInv, ControlKeepsInv, ResyncKeepsInv,
     EnqueueKeepsInv, RetryKeepsInv, PublishKeepsInv, AdoptKeepsInv, ReplayKeepsInv
     DEF PumpStep

-----------------------------------------------------------------------------
(* A step of the actor.                                                      *)

(* The pumps' own state is left alone, and the output only grows.            *)
ActorFrame ==
    /\ UNCHANGED <<gen, pc, held, mirror, gaps>>
    /\ seq' \in Nat /\ seq <= seq'
    /\ resizes' \in Nat /\ resizes <= resizes'

(* A pump that waits for its publication is not told it is active.           *)
NotActivated(q) == pc[q] = "Activate" /\ Answered(q)' => reply'[q] = reply[q]
NoNewAnswer == \A q \in Pumps : NotActivated(q)

(* What the actor may do to one pump's requests and receiver.                *)
ServedOK(p) == RequestOK(p) /\ CutOK(p) /\ FlowOK(p) /\ AudiencesOK(p)

(* A step of the actor that keeps what it shares with the pumps keeps the    *)
(* whole.                                                                    *)
\* TerminalActor::run.
LEMMA SharedStep ==
    ASSUME Inv, ActorFrame, Shape', ActorOK', \A q \in Pumps : ServedOK(q)'
    PROVE  Inv'
<1>1. ASSUME NEW q \in Pumps
      PROVE  PumpOK(q)'
  <2>1. /\ GenerationOK(q) /\ MirrorOK(q) /\ CountOK(q) /\ seq \in Nat /\ gen[q].last \in Nat
        /\ resizes \in Nat
    BY AtPump DEF Owned, Inv, Shape, ActorShape
  <2>2. seq' \in Nat /\ seq <= seq' /\ (resizes' = 0 => resizes = 0)
    BY <2>1 DEF ActorFrame
  <2>3. GenerationOK(q)' /\ CountOK(q)'
    BY <2>1, <2>2 DEF ActorFrame, GenerationOK, CountOK
  <2>4. MirrorOK(q)'
    <3>1. mirror[q].next \in 1 .. (seq' + 1)
      BY <2>1, <2>2 DEF MirrorOK
    <3> QED
      BY <3>1, <2>1 DEF ActorFrame, MirrorOK
  <2> QED
    BY <2>3, <2>4 DEF ServedOK, PumpOK
<1> QED
  BY <1>1 DEF Inv

(* A target stays known while the generations stand still.                   *)
\* ResyncTarget.
LEMMA KnownToActor ==
    ASSUME Inv, ActorFrame, NEW t, Known(t)
    PROVE  Known(t)'
<1>1. resizes \in Nat
  BY DEF Inv, Shape, ActorShape
<1> QED
  BY <1>1 DEF ActorFrame, Known

(* So does the audience of a resync.                                         *)
\* ResyncAudience.
LEMMA AudienceToActor ==
    ASSUME Inv, ActorFrame, NEW a, AudienceKnown(a)
    PROVE  AudienceKnown(a)'
<1>1. resizes \in Nat
  BY DEF Inv, Shape, ActorShape
<1> QED
  BY <1>1, KnownToActor DEF ActorFrame, AudienceKnown

(* What the actor broadcasts reaches every pump behind what it has not read, *)
(* and leads it on to the new sequence.                                      *)
\* Sender::send to every subscriber.
LEMMA BroadcastKeeps ==
    ASSUME Inv, ActorFrame, NoNewAnswer, NEW items \in Seq(Item), Flow(items, seq, seq'),
           \A i \in 1..Len(items) :
               items[i].kind = "Resync" => AudienceKnown(items[i].audience),
           rx' = Broadcast(items)
    PROVE  /\ rx' \in [Pumps -> Receiver]
           /\ \A q \in Pumps : FlowOK(q)' /\ AudiencesOK(q)'
<1>0. seq \in Nat /\ seq' \in Nat /\ RingCapacity \in Nat /\ rx \in [Pumps -> Receiver]
  BY PaneAssumption DEF Inv, Shape, ActorShape, PumpShape, ActorFrame, Seqs
<1>1. ASSUME NEW q \in Pumps
      PROVE  rx'[q] \in Receiver /\ FlowOK(q)' /\ AudiencesOK(q)'
  <2>1. CASE Stopped(q)
    <3>1. rx'[q] = [lagged |-> FALSE, items |-> <<>>]
      BY <2>1 DEF Broadcast, Subscribed
    <3>2. rx'[q] \in Receiver /\ Len(rx'[q].items) = 0
      BY <3>1 DEF Receiver
    <3>3. Stopped(q)'
      BY <2>1 DEF Stopped, ActorFrame
    <3> QED
      BY <3>2, <3>3, <1>0 DEF FlowOK, AudiencesOK
  <2>2. CASE ~Stopped(q)
    <3>1. rx'[q] = Deliver(rx[q], items) /\ rx[q] \in Receiver
      BY <2>2, <1>0 DEF Broadcast
    <3>2. /\ rx'[q] \in Receiver /\ Len(rx'[q].items) <= RingCapacity
          /\ \A i \in 1..Len(rx'[q].items) :
                \/ \E j \in 1..Len(rx[q].items) : rx'[q].items[i] = rx[q].items[j]
                \/ \E j \in 1..Len(items) : rx'[q].items[i] = items[j]
      BY <3>1, DeliverShape
    <3>3. FlowOK(q) /\ AudiencesOK(q)
      BY AtPump DEF Owned
    <3>4. PICK m \in 0..seq : Flow(rx[q].items, m, seq) /\ (Tracks(q) => m = Position(q))
      BY <3>3, <2>2 DEF FlowOK
    <3>5. m \in Nat
      BY <1>0
    <3>6. PICK k \in m..seq' : /\ Flow(rx'[q].items, k, seq')
                               /\ ~rx'[q].lagged => ~rx[q].lagged /\ k = m
      BY <1>0, <3>1, <3>4, <3>5, DeliverFlow
    <3>7. Tracks(q)' => k = Position(q)'
      <4>1. ASSUME Tracks(q)'
            PROVE  Tracks(q) /\ Position(q)' = Position(q) /\ k = m
        <5>1. ~rx[q].lagged /\ k = m
          BY <4>1, <3>6 DEF Tracks
        <5>2. pc[q] = "Activate" => Answered(q)' /\ reply'[q] = reply[q]
          BY <4>1 DEF Tracks, ActorFrame, NoNewAnswer, NotActivated
        <5> QED
          BY <5>1, <5>2, <4>1 DEF Tracks, Position, ActorFrame, Answered
      <4> QED
        BY <4>1, <3>4
    <3>8. FlowOK(q)'
      <4>1. k \in 0..seq'
        BY <1>0, <3>5
      <4> QED
        BY <4>1, <3>2, <3>6, <3>7 DEF FlowOK
    <3>9. AudiencesOK(q)'
      <4>1. ASSUME NEW i \in 1..Len(rx'[q].items), rx'[q].items[i].kind = "Resync"
            PROVE  AudienceKnown(rx'[q].items[i].audience)
        BY <4>1, <3>2, <3>3 DEF AudiencesOK
      <4>2. \A a : AudienceKnown(a) => AudienceKnown(a)'
        BY AudienceToActor
      <4> QED
        BY <4>1, <4>2 DEF AudiencesOK
    <3> QED
      BY <3>2, <3>8, <3>9
  <2> QED
    BY <2>1, <2>2
<1>2. rx' \in [Pumps -> Receiver]
  <2>1. rx' = [q \in Pumps |-> rx'[q]]
    BY DEF Broadcast
  <2> QED
    BY <2>1, <1>1
<1> QED
  BY <1>1, <1>2

(* A receiver nothing is broadcast to stays where it is.                     *)
\* TerminalActor::run.
LEMMA QuietAt ==
    ASSUME Inv, ActorFrame, seq' = seq, NEW q \in Pumps, rx'[q] = rx[q], NotActivated(q)
    PROVE  FlowOK(q)' /\ AudiencesOK(q)'
<1>1. FlowOK(q) /\ AudiencesOK(q)
  BY AtPump DEF Owned
<1>2. Tracks(q)' => Tracks(q) /\ Position(q)' = Position(q)
  BY DEF Tracks, Position, ActorFrame, Answered, NotActivated
<1>3. FlowOK(q)'
  BY <1>1, <1>2 DEF FlowOK, Stopped, ActorFrame
<1>4. \A a : AudienceKnown(a) => AudienceKnown(a)'
  BY AudienceToActor
<1> QED
  BY <1>1, <1>3, <1>4 DEF AudiencesOK

(* So does every receiver in a step that broadcasts nothing.                 *)
\* TerminalActor::run.
LEMMA QuietBroadcast ==
    ASSUME Inv, ActorFrame, NoNewAnswer, rx' = rx, seq' = seq
    PROVE  /\ rx' \in [Pumps -> Receiver]
           /\ \A q \in Pumps : FlowOK(q)' /\ AudiencesOK(q)'
  BY QuietAt DEF Inv, Shape, PumpShape, NoNewAnswer

(* A pump nothing is asked or told of, and that can only lose what it is     *)
(* bound to, keeps its request where it is.                                  *)
\* TerminalActor::run.
LEMMA UntouchedAt ==
    ASSUME Inv, ActorFrame, seq' = seq, NEW q \in Pumps,
           asked'[q] = asked[q], reply'[q] = reply[q],
           binding'[q] = binding[q] \/ binding'[q] = None,
           InCapture(q)' => InCapture(q), Queued(q)' => Queued(q)
    PROVE  RequestOK(q)' /\ CutOK(q)'
<1>1. RequestOK(q) /\ CutOK(q)
  BY AtPump DEF Owned
<1>2. UNCHANGED <<gen, pc, held>>
  BY DEF ActorFrame
<1>3. Waiting(q)' => Waiting(q) /\ binding'[q] = binding[q]
  BY DEF Waiting
<1>4. RequestOK(q)'
  BY <1>1, <1>2, <1>3 DEF RequestOK, Wants, Stopped
<1>5. CutOK(q)'
  BY <1>1, <1>2, <1>3 DEF CutOK, Answered, BootOK
<1> QED
  BY <1>4, <1>5

(* What is owed and asked for stays so.                                      *)
\* ResyncDebounce, the resize mailbox.
LEMMA OwedStays ==
    ASSUME Inv, ActorFrame
    PROVE  /\ debounce' = debounce => DebounceOK'
           /\ (\A i \in 1..Len(mailbox') :
                 \/ \E j \in 1..Len(mailbox) : mailbox'[i] = mailbox[j]
                 \/ mailbox'[i].kind # "Gap" /\ resizes' > 0) => MailboxOK'
<1>0. DebounceOK /\ MailboxOK /\ resizes \in Nat /\ resizes' \in Nat /\ resizes <= resizes'
  BY DEF Inv, Shape, ActorShape, ActorOK, ActorFrame
<1>1. \A t : Known(t) => Known(t)'
  BY KnownToActor
<1>2. debounce' = debounce => DebounceOK'
  BY <1>0, <1>1 DEF DebounceOK
<1>3. ASSUME \A i \in 1..Len(mailbox') :
                 \/ \E j \in 1..Len(mailbox) : mailbox'[i] = mailbox[j]
                 \/ mailbox'[i].kind # "Gap" /\ resizes' > 0
      PROVE  MailboxOK'
  <2>1. ASSUME NEW i \in 1..Len(mailbox')
        PROVE  (IF mailbox[i].kind = "Gap" THEN Known(mailbox[i].target) ELSE resizes > 0)'
    <3>1. CASE \E j \in 1..Len(mailbox) : mailbox'[i] = mailbox[j]
      <4>1. PICK j \in 1..Len(mailbox) : mailbox'[i] = mailbox[j]
        BY <3>1
      <4>2. PICK req : req = mailbox[j] /\ req = mailbox'[i]
        BY <4>1
      <4>3. IF req.kind = "Gap" THEN Known(req.target) ELSE resizes > 0
        BY <4>1, <4>2, <1>0 DEF MailboxOK
      <4>4. req.kind = "Gap" => Known(req.target)'
        BY <4>3, <1>1
      <4>5. req.kind # "Gap" => resizes' > 0
        BY <4>3, <1>0
      <4> QED
        BY <4>2, <4>4, <4>5
    <3>2. CASE mailbox'[i].kind # "Gap" /\ resizes' > 0
      BY <3>2
    <3> QED
      BY <3>1, <3>2, <1>3
  <2> QED
    BY <2>1 DEF MailboxOK
<1> QED
  BY <1>2, <1>3

(* A resize asked for waits behind the rest, or finds no room.               *)
\* RESIZE_TERMINAL, VIEWPORT_RESIZE, ATTACH: try_send.
LEMMA AskKeepsInv ==
    ASSUME Inv, AskResize
    PROVE  Inv'
<1>0. /\ seq \in Nat /\ resizes \in Nat /\ mailbox \in Seq(Request) /\ Len(mailbox) <= MailboxCapacity
      /\ MailboxCapacity \in Nat
  BY PaneAssumption DEF Inv, Shape, ActorShape, Seqs
<1>1. /\ UNCHANGED <<seq, applied, geometry, debounce, capture, backlog, binding, rx>>
      /\ UNCHANGED <<gen, pc, asked, reply, held, mirror, gaps>> /\ resizes' = resizes + 1
  BY DEF AskResize, actorVars, nativeVars, pumpVars
<1>2. ActorFrame /\ NoNewAnswer /\ resizes' > 0
  BY <1>0, <1>1 DEF ActorFrame, NoNewAnswer, NotActivated
<1>3. /\ mailbox' \in Seq(Request) /\ Len(mailbox') <= MailboxCapacity
      /\ \A i \in 1..Len(mailbox') :
            \/ \E j \in 1..Len(mailbox) : mailbox'[i] = mailbox[j]
            \/ mailbox'[i].kind # "Gap" /\ resizes' > 0
  <2>1. PICK kind \in ResizeKinds, g \in Geometries :
          mailbox' = IF Len(mailbox) < MailboxCapacity
                     THEN Append(mailbox, [kind |-> kind, geometry |-> g]) ELSE mailbox
    BY DEF AskResize
  <2>2. PICK req \in Request : req = [kind |-> kind, geometry |-> g] /\ req.kind # "Gap"
    <3>1. kind \in {"Live", "Attach"}
      BY PaneAssumption
    <3>2. [kind |-> kind, geometry |-> g] \in Request
      BY <3>1 DEF Request
    <3>3. [kind |-> kind, geometry |-> g].kind = kind /\ kind # "Gap"
      BY <3>1
    <3> QED
      BY <3>2, <3>3
  <2>3. CASE ~(Len(mailbox) < MailboxCapacity)
    BY <1>0, <2>1, <2>3
  <2>4. CASE Len(mailbox) < MailboxCapacity
    <3>1. mailbox' = Append(mailbox, req)
      BY <2>1, <2>2, <2>4
    <3>2. /\ mailbox' \in Seq(Request) /\ Len(mailbox') = Len(mailbox) + 1 /\ Len(mailbox) \in Nat
          /\ \A i \in 1..Len(mailbox) : mailbox'[i] = mailbox[i]
          /\ mailbox'[Len(mailbox) + 1] = req
      BY <1>0, <3>1, AppendProperties
    <3>3. \A i \in 1..Len(mailbox') : i \in 1..Len(mailbox) \/ i = Len(mailbox) + 1
      BY <3>2
    <3>4. Len(mailbox') <= MailboxCapacity
      BY <1>0, <2>4, <3>2
    <3> QED
      BY <3>2, <3>3, <3>4, <2>2, <1>2
  <2> QED
    BY <2>3, <2>4
<1>4. Shape'
  BY <1>0, <1>1, <1>3 DEF Inv, Shape, ActorShape, PumpShape
<1>5. ActorOK'
  <2>1. BacklogIsASet' /\ CaptureOK'
    BY <1>1 DEF Inv, ActorOK, BacklogIsASet, CaptureOK, BootOK
  <2> QED
    BY <2>1, <1>1, <1>2, <1>3, OwedStays DEF ActorOK
<1>6. \A q \in Pumps : FlowOK(q)' /\ AudiencesOK(q)'
  BY <1>1, <1>2, QuietBroadcast
<1>7. ASSUME NEW q \in Pumps
      PROVE  RequestOK(q)' /\ CutOK(q)'
  <2>1. RequestOK(q) /\ CutOK(q)
    BY AtPump DEF Owned
  <2> QED
    BY <2>1, <1>1
       DEF RequestOK, CutOK, Wants, InCapture, Queued, Waiting, Stopped, Answered, BootOK
<1> QED
  BY <1>2, <1>4, <1>5, <1>6, <1>7, SharedStep DEF ServedOK

-----------------------------------------------------------------------------
(* What the actor broadcasts.                                                *)

(* A chunk of output.                                                        *)
\* PaneOutput::Live.
LEMMA LiveIsItem ==
    ASSUME NEW n \in Nat
    PROVE  LiveItem(n) \in Item /\ LiveItem(n).kind = "Live" /\ LiveItem(n).seq = n
<1>1. LiveItem(n) \in [kind: {"Live"}, seq: Nat]
  BY DEF LiveItem
<1> QED
  BY <1>1 DEF Item, LiveItem

(* The end of a generation.                                                  *)
\* publish_native_control.
LEMMA TombstoneIsItem ==
    ASSUME NEW p \in Pumps, NEW n \in Nat
    PROVE  TombstoneItem(p, n) \in Item /\ TombstoneItem(p, n).kind = "Tombstone"
<1>1. TombstoneItem(p, n) \in [kind: {"Tombstone"}, owner: Pumps, id: Nat]
  BY DEF TombstoneItem
<1> QED
  BY <1>1 DEF Item, TombstoneItem

(* The end of a history cursor.                                              *)
\* expire_native_cursors.
LEMMA HistoryIsItem ==
    ASSUME NEW p \in Pumps
    PROVE  HistoryItem(p) \in Item /\ HistoryItem(p).kind = "History"
<1>1. HistoryItem(p) \in [kind: {"History"}, owner: Pumps]
  BY DEF HistoryItem
<1> QED
  BY <1>1 DEF Item, HistoryItem

(* A resync with its snapshot.                                               *)
\* PaneOutput::Resync.
LEMMA ResyncIsItem ==
    ASSUME NEW a \in Audience(Target), NEW boot \in Boot
    PROVE  /\ ResyncItem(a, boot) \in Item /\ ResyncItem(a, boot).kind = "Resync"
           /\ ResyncItem(a, boot).audience = a /\ ResyncItem(a, boot).boot = boot
<1>1. ResyncItem(a, boot) \in [kind: {"Resync"}, audience: Audience(Target), boot: Boot]
  BY DEF ResyncItem
<1> QED
  BY <1>1 DEF Item, ResyncItem

-----------------------------------------------------------------------------
(* PTY output.                                                               *)

(* Sequences the actor issues are numbers.                                   *)
\* buffer_native_live_output.
LEMMA ReplayIsNat ==
    ASSUME NEW r \in Seq(Seqs)
    PROVE  r \in Seq(Nat)
<1>1. Len(r) \in Nat /\ DOMAIN r = 1..Len(r) /\ \A i \in 1..Len(r) : r[i] \in Seqs
  OBVIOUS
<1>2. \A i \in 1..Len(r) : r[i] \in Nat
  BY <1>1, PaneAssumption DEF Seqs
<1>3. r \in [1..Len(r) -> Nat]
  BY <1>1, <1>2
<1> QED
  BY <1>1, <1>3

(* What the chunk does to one binding.                                       *)
\* buffer_native_live_output.
LEMMA BufferedAt ==
    ASSUME Inv, NEW s \in Nat, binding' = BufferedBindings(s), NEW q \in Pumps
    PROVE  /\ binding'[q] # None =>
                /\ binding[q] # None /\ binding'[q] \in Binding
                /\ binding'[q].id = binding[q].id /\ binding'[q].waiting = binding[q].waiting
                /\ Len(binding'[q].replay) <= ReplayCapacity
           /\ Waiting(q)' => binding'[q].replay = Append(binding[q].replay, s)
<1>0. CutOK(q) /\ (binding[q] # None => binding[q] \in Binding) /\ ReplayCapacity \in Nat
  BY AtPump, PaneAssumption DEF Owned
<1>1. binding'[q] = IF binding[q] = None \/ ~binding[q].waiting THEN binding[q]
                    ELSE IF ReplayFull(binding[q].replay) THEN None
                    ELSE [binding[q] EXCEPT !.replay = Append(binding[q].replay, s)]
  BY DEF BufferedBindings
<1>2. CASE binding[q] = None \/ ~binding[q].waiting
  BY <1>0, <1>1, <1>2 DEF CutOK, Waiting
<1>3. CASE ~(binding[q] = None \/ ~binding[q].waiting) /\ ReplayFull(binding[q].replay)
  BY <1>1, <1>3 DEF Waiting
<1>4. CASE ~(binding[q] = None \/ ~binding[q].waiting) /\ ~ReplayFull(binding[q].replay)
  <2>1. binding[q] \in Binding /\ binding[q].replay \in Seq(Nat)
    BY <1>0, <1>4 DEF Binding
  <2>2. /\ Append(binding[q].replay, s) \in Seq(Nat) /\ Len(binding[q].replay) \in Nat
        /\ Len(Append(binding[q].replay, s)) = Len(binding[q].replay) + 1
    BY <2>1, AppendProperties
  <2>3. binding'[q] = [binding[q] EXCEPT !.replay = Append(binding[q].replay, s)]
    BY <1>1, <1>4
  <2>4. /\ binding'[q] \in Binding /\ binding'[q].replay = Append(binding[q].replay, s)
        /\ binding'[q].id = binding[q].id /\ binding'[q].waiting = binding[q].waiting
    BY <2>1, <2>2, <2>3 DEF Binding
  <2>5. Len(binding'[q].replay) <= ReplayCapacity
    BY <1>0, <1>4, <2>2, <2>4 DEF ReplayFull
  <2> QED
    BY <1>4, <2>4, <2>5
<1> QED
  BY <1>2, <1>3, <1>4

(* What the chunk does to the capture in progress: it is deferred with it,   *)
(* or the capture is given up and its waiters are refused.                   *)
\* buffer_native_live_output, fail_native_bootstrap.
LEMMA BufferedCapture ==
    ASSUME Inv, PtyOutput
    PROVE  /\ seq' \in Seqs /\ seq' = seq + 1 /\ applied' \in 0..seq'
           /\ capture' = None => applied' = seq'
           /\ capture' # None =>
                /\ capture # None /\ capture' \in Capture
                /\ capture'.waiters = capture.waiters /\ capture'.boot = capture.boot
                /\ capture'.replay = Append(capture.replay, seq')
                /\ Len(capture'.replay) <= ReplayCapacity
           /\ reply' = [q \in Pumps |-> reply'[q]]
           /\ \A q \in Pumps : \/ reply'[q] = reply[q]
                               \/ InCapture(q) /\ capture' = None /\ reply'[q] = [ok |-> FALSE]
<1>0. /\ seq \in Nat /\ MaxSeq \in Nat /\ applied \in 0..seq /\ ReplayCapacity \in Nat
      /\ (capture # None => capture \in Capture)
      /\ reply = [q \in Pumps |-> reply[q]]
  BY PaneAssumption DEF Inv, Shape, ActorShape, PumpShape, Seqs
<1>1. seq' = seq + 1 /\ seq' \in Seqs /\ seq' \in Nat
  BY <1>0 DEF PtyOutput, Seqs
<1>2. CASE capture = None
  <2>1. capture' = None /\ reply' = reply /\ applied' = seq'
    BY <1>2 DEF PtyOutput
  <2> QED
    BY <1>0, <1>1, <2>1
<1>3. CASE capture # None /\ ReplayFull(capture.replay)
  <2>1. capture' = None /\ reply' = FailAll(capture.waiters) /\ applied' = seq'
    BY <1>3 DEF PtyOutput
  <2>2. \A q \in Pumps : reply'[q] = IF q \in capture.waiters THEN [ok |-> FALSE] ELSE reply[q]
    BY <2>1 DEF FailAll
  <2>3. reply' = [q \in Pumps |-> reply'[q]]
    BY <2>1 DEF FailAll
  <2> QED
    BY <1>1, <1>3, <2>1, <2>2, <2>3 DEF InCapture
<1>4. CASE capture # None /\ ~ReplayFull(capture.replay)
  <2>1. capture' = [capture EXCEPT !.replay = Append(capture.replay, seq')] /\ reply' = reply /\ applied' = applied
    BY <1>4 DEF PtyOutput
  <2>2. capture \in Capture /\ capture.replay \in Seq(Seqs)
    BY <1>0, <1>4 DEF Capture
  <2>3. /\ Append(capture.replay, seq') \in Seq(Seqs) /\ Len(capture.replay) \in Nat
        /\ Len(Append(capture.replay, seq')) = Len(capture.replay) + 1
    BY <1>1, <2>2, AppendProperties
  <2>4. /\ capture' \in Capture /\ capture'.replay = Append(capture.replay, seq')
        /\ capture'.waiters = capture.waiters /\ capture'.boot = capture.boot
    BY <2>1, <2>2, <2>3 DEF Capture
  <2>5. Len(capture'.replay) <= ReplayCapacity
    BY <1>0, <1>4, <2>3, <2>4 DEF ReplayFull
  <2>6. capture' # None
    BY <2>4, NoneAssumption
  <2>7. applied' \in 0..seq'
    BY <1>0, <1>1, <2>1
  <2> QED
    BY <1>0, <1>1, <1>4, <2>1, <2>4, <2>5, <2>6, <2>7
<1> QED
  BY <1>2, <1>3, <1>4

(* Output keeps every run unbroken: the broadcast's, the capture's and the   *)
(* parked publications'.                                                     *)
\* service_pty_event.
LEMMA OutputKeepsInv ==
    ASSUME Inv, PtyOutput
    PROVE  Inv'
<1>0. /\ seq \in Nat /\ resizes \in Nat /\ (capture # None => capture \in Capture) /\ CaptureOK
      /\ BacklogIsASet
  BY DEF Inv, Shape, ActorShape, ActorOK, Seqs
<1>1. /\ UNCHANGED <<geometry, debounce, mailbox, backlog, resizes, gen, pc, asked, held, mirror, gaps>>
      /\ binding' = BufferedBindings(seq') /\ rx' = Broadcast(<<LiveItem(seq')>>)
  BY DEF PtyOutput
<1>2. /\ seq' \in Seqs /\ seq' = seq + 1 /\ applied' \in 0..seq' /\ seq' \in Nat /\ seq <= seq'
      /\ capture' = None => applied' = seq'
  BY <1>0, BufferedCapture
<1>3. capture' # None =>
        /\ capture # None /\ capture' \in Capture
        /\ capture'.waiters = capture.waiters /\ capture'.boot = capture.boot
        /\ capture'.replay = Append(capture.replay, seq') /\ Len(capture'.replay) <= ReplayCapacity
  BY BufferedCapture
<1>4. /\ reply' = [q \in Pumps |-> reply'[q]]
      /\ \A q \in Pumps : \/ reply'[q] = reply[q]
                          \/ InCapture(q) /\ capture' = None /\ reply'[q] = [ok |-> FALSE]
  BY BufferedCapture
<1>5. ActorFrame
  BY <1>0, <1>1, <1>2 DEF ActorFrame
<1>6. NoNewAnswer
  BY <1>4 DEF NoNewAnswer, NotActivated, Answered
<1>7. rx' \in [Pumps -> Receiver] /\ \A q \in Pumps : FlowOK(q)' /\ AudiencesOK(q)'
  <2>1. PICK item \in Item : item = LiveItem(seq') /\ item.kind = "Live" /\ item.seq = seq'
    BY <1>2, LiveIsItem
  <2>2. Moves(item, seq, seq')
    BY <2>1, <1>2 DEF Moves
  <2>3. Flow(<<item>>, seq, seq') /\ <<item>> \in Seq(Item)
    BY <2>2, <1>0, <1>2, FlowOne
  <2>4. \A i \in 1..Len(<<item>>) : <<item>>[i].kind = "Live"
    BY <2>1
  <2>5. rx' = Broadcast(<<item>>)
    BY <1>1, <2>1
  <2> QED
    BY <2>3, <2>4, <2>5, <1>5, <1>6, BroadcastKeeps
<1>8. ASSUME NEW q \in Pumps
      PROVE  /\ binding'[q] # None =>
                  /\ binding[q] # None /\ binding'[q] \in Binding
                  /\ binding'[q].id = binding[q].id /\ binding'[q].waiting = binding[q].waiting
                  /\ Len(binding'[q].replay) <= ReplayCapacity
             /\ Waiting(q)' => Waiting(q) /\ binding'[q].replay = Append(binding[q].replay, seq + 1)
  BY <1>1, <1>2, BufferedAt DEF Waiting
<1>9. Shape'
  <2>1. binding' \in [Pumps -> {None} \cup Binding]
    <3>1. binding' = [q \in Pumps |-> binding'[q]]
      BY <1>1 DEF BufferedBindings
    <3> QED
      BY <3>1, <1>8
  <2>2. PumpShape'
    BY <2>1, <1>1, <1>4, <1>7 DEF Inv, Shape, PumpShape
  <2>3. ActorShape'
    BY <1>1, <1>2, <1>3 DEF Inv, Shape, ActorShape
  <2> QED
    BY <2>2, <2>3 DEF Shape
<1>10. ActorOK'
  <2>1. CaptureOK'
    <3>1. ASSUME capture' # None
          PROVE  BootOK(capture.boot)' /\ Run(capture.replay, capture.boot.base, seq)'
      <4>1. BootOK(capture.boot) /\ Run(capture.replay, capture.boot.base, seq) /\ capture \in Capture
        BY <3>1, <1>0, <1>3 DEF CaptureOK
      <4>2. capture.boot.base \in Nat /\ capture.replay \in Seq(Nat)
        BY <4>1, ReplayIsNat, PaneAssumption DEF BootOK, Boot, Seqs, Capture
      <4>3. PICK lo \in Nat : lo = capture.boot.base
        BY <4>2
      <4>4. Run(Append(capture.replay, seq + 1), lo, seq + 1)
        BY <4>1, <4>2, <4>3, <1>0, RunSteps
      <4>5. Run(capture.replay, capture.boot.base, seq)'
        BY <4>3, <4>4, <3>1, <1>2, <1>3
      <4>6. capture'.boot \in Boot /\ capture'.boot.content = capture'.boot.base /\ capture'.boot.base <= seq'
        BY <4>1, <4>2, <3>1, <1>0, <1>2, <1>3 DEF BootOK
      <4> QED
        BY <4>5, <4>6 DEF BootOK
    <3> QED
      BY <3>1, <1>2, <1>3 DEF CaptureOK
  <2>2. BacklogIsASet'
    BY <1>0, <1>1 DEF BacklogIsASet
  <2> QED
    BY <2>1, <2>2, <1>1, <1>5, OwedStays DEF ActorOK
<1>11. ASSUME NEW q \in Pumps
       PROVE  RequestOK(q)' /\ CutOK(q)'
  <2>1. RequestOK(q) /\ CutOK(q) /\ held[q].cut \in Nat /\ gen[q].last \in Nat
        /\ held[q].replay \in Seq(Nat)
    BY AtPump DEF Owned, TypesAt
  <2>2. InCapture(q)' => InCapture(q)
    BY <1>3 DEF InCapture
  <2>3. Queued(q)' = Queued(q)
    BY <1>1 DEF Queued
  <2>4. RequestOK(q)'
    <3>0. Waiting(q)' => binding'[q].id = gen[q].id
      BY <2>1, <1>8 DEF RequestOK, Waiting
    <3>1. CASE reply'[q] = reply[q]
      BY <3>0, <3>1, <2>1, <2>2, <2>3, <1>1, <1>8 DEF RequestOK, Wants, Stopped
    <3>2. CASE InCapture(q) /\ capture' = None
      <4>1. ~InCapture(q)'
        BY <3>2 DEF InCapture
      <4>2. ~Wants(q)' /\ pc[q] \in Ended \cup {"Capture"}
        BY <3>2, <4>1, <2>1, <2>3, <1>1 DEF RequestOK, Wants
      <4>3. (asked[q] = "Publication" => Stopped(q)) /\ ~Waiting(q)
        BY <3>2, <4>2, <2>1 DEF RequestOK, Stopped, Ended, Wants
      <4> QED
        BY <3>2, <4>1, <4>2, <4>3, <2>1, <2>3, <1>1, <1>8 DEF RequestOK, Wants, Stopped
    <3> QED
      BY <3>1, <3>2, <1>4
  <2>5. Waiting(q)' => reply'[q] = reply[q]
    BY <2>1, <1>4, <1>8 DEF RequestOK, Wants
  <2>6. Answered(q)' => Answered(q) /\ reply'[q] = reply[q]
    BY <1>4 DEF Answered
  <2>7. ASSUME pc[q] = "Capture", Answered(q)'
        PROVE  BootOK(reply[q].boot)'
    <3>1. BootOK(reply[q].boot) /\ reply'[q] = reply[q]
      BY <2>1, <2>6, <2>7 DEF CutOK
    <3>2. reply[q].boot.base \in Nat
      BY <3>1, PaneAssumption DEF BootOK, Boot, Seqs
    <3> QED
      BY <3>1, <3>2, <1>0, <1>2 DEF BootOK
  <2>8. ASSUME NEW lo \in Nat, Waiting(q)', Run(binding[q].replay, lo, seq)
        PROVE  Run(binding'[q].replay, lo, seq')
    <3>1. binding[q] # None /\ binding[q] \in Binding /\ binding'[q].replay = Append(binding[q].replay, seq + 1)
      BY <2>8, <1>8, AtPump DEF Waiting
    <3>2. binding[q].replay \in Seq(Nat)
      BY <3>1 DEF Binding
    <3>3. Run(Append(binding[q].replay, seq + 1), lo, seq + 1)
      BY <2>8, <3>2, <1>0, RunSteps
    <3> QED
      BY <3>1, <3>3, <1>2
  <2>9. ASSUME pc[q] = "Capture", Waiting(q)'
        PROVE  Answered(q)' /\ Run(binding'[q].replay, reply'[q].boot.base, seq')
    <3>1. Answered(q) /\ Run(binding[q].replay, reply[q].boot.base, seq) /\ reply'[q] = reply[q]
      BY <2>1, <2>5, <2>9, <1>8 DEF CutOK
    <3>2. PICK lo \in Nat : lo = reply[q].boot.base
      BY <3>1, <2>1, <2>9, PaneAssumption DEF CutOK, BootOK, Boot, Seqs
    <3> QED
      BY <3>1, <3>2, <2>8, <2>9 DEF Answered
  <2>10. pc[q] = "Activate" /\ Waiting(q)' => Run(binding'[q].replay, held[q].cut, seq')
    BY <2>1, <2>8, <1>8 DEF CutOK
  <2>11. ASSUME pc[q] = "Activate"
         PROVE  /\ held[q].cut <= seq'
                /\ Answered(q)' =>
                    /\ reply'[q].replay \in Seq(Nat)
                    /\ Run(reply'[q].replay, held[q].cut, held[q].cut + Len(reply'[q].replay))
                    /\ held[q].cut + Len(reply'[q].replay) <= seq'
    <3>1. held[q].cut <= seq'
      BY <2>1, <2>11, <1>0, <1>2 DEF CutOK
    <3>2. ASSUME Answered(q)'
          PROVE  /\ reply'[q].replay \in Seq(Nat)
                 /\ Run(reply'[q].replay, held[q].cut, held[q].cut + Len(reply'[q].replay))
                 /\ held[q].cut + Len(reply'[q].replay) <= seq'
      <4>1. PICK r \in Seq(Nat) : /\ r = reply'[q].replay
                                  /\ Run(r, held[q].cut, held[q].cut + Len(r))
                                  /\ held[q].cut + Len(r) <= seq
        BY <3>2, <2>1, <2>6, <2>11 DEF CutOK
      <4>2. Len(r) \in Nat
        OBVIOUS
      <4>3. held[q].cut + Len(r) <= seq'
        BY <4>1, <4>2, <2>1, <1>0, <1>2
      <4> QED
        BY <4>1, <4>3
    <3> QED
      BY <3>1, <3>2
  <2>12. ASSUME pc[q] = "Replay"
         PROVE  gen[q].last + Len(held[q].replay) <= seq'
    <3>1. Len(held[q].replay) \in Nat /\ gen[q].last + Len(held[q].replay) <= seq
      BY <2>1, <2>12 DEF CutOK
    <3> QED
      BY <3>1, <2>1, <1>0, <1>2
  <2>13. CutOK(q)'
    BY <2>1, <2>7, <2>9, <2>10, <2>11, <2>12, <1>1, <1>8 DEF CutOK
  <2> QED
    BY <2>4, <2>13
<1> QED
  BY <1>5, <1>7, <1>9, <1>10, <1>11, SharedStep DEF ServedOK

-----------------------------------------------------------------------------
(* Resizes and resyncs.                                                      *)

(* Arming names who is owed the resync.                                      *)
\* ResyncDebounce::arm.
LEMMA ArmSteps ==
    ASSUME NEW d \in Debounce(Target), NEW ts \in SUBSET Target
    PROVE  /\ ArmFor(d, ts) \in Debounce(Target)
           /\ ArmFor(d, ts).targets = d.targets \cup ts /\ ArmFor(d, ts).everyone = d.everyone
           /\ ArmFor(d, ts).pending = (d.pending \/ ts # {})
           /\ ArmForEveryone(d) \in Debounce(Target)
           /\ ArmForEveryone(d).targets = d.targets /\ ArmForEveryone(d).pending
<1>1. d.targets \cup ts \in SUBSET Target /\ (d.pending \/ ts # {}) \in BOOLEAN
  BY DEF Debounce
<1>2. ArmFor(d, ts) = [d EXCEPT !.pending = d.pending \/ ts # {}, !.targets = d.targets \cup ts]
  BY DEF ArmFor
<1>3. ArmForEveryone(d) = [d EXCEPT !.pending = TRUE, !.everyone = TRUE]
  BY DEF ArmForEveryone
<1>4. /\ ArmFor(d, ts) \in Debounce(Target)
      /\ ArmFor(d, ts).targets = d.targets \cup ts /\ ArmFor(d, ts).everyone = d.everyone
      /\ ArmFor(d, ts).pending = (d.pending \/ ts # {})
  BY <1>1, <1>2 DEF Debounce
<1>5. /\ ArmForEveryone(d) \in Debounce(Target)
      /\ ArmForEveryone(d).targets = d.targets /\ ArmForEveryone(d).pending
  BY <1>3 DEF Debounce
<1> QED
  BY <1>4, <1>5

(* The request served leaves the mailbox; if it is for a resync its target   *)
(* is known, and if it is not a resize was asked for.                        *)
\* The resize branch of TerminalActor::run.
LEMMA RequestServed ==
    ASSUME Inv, ActorFrame, mailbox # <<>>, mailbox' = Tail(mailbox)
    PROVE  /\ mailbox' \in Seq(Request) /\ Len(mailbox') <= MailboxCapacity /\ MailboxOK'
           /\ Head(mailbox) \in Request
           /\ IF Head(mailbox).kind = "Gap" THEN Known(Head(mailbox).target) ELSE resizes > 0
<1>0. /\ mailbox \in Seq(Request) /\ Len(mailbox) <= MailboxCapacity /\ MailboxCapacity \in Nat
      /\ MailboxOK
  BY PaneAssumption DEF Inv, Shape, ActorShape, ActorOK
<1>1. /\ Len(mailbox) \in Nat /\ 1 \in 1..Len(mailbox) /\ Head(mailbox) = mailbox[1]
      /\ Head(mailbox) \in Request /\ Tail(mailbox) \in Seq(Request)
      /\ Len(Tail(mailbox)) = Len(mailbox) - 1
      /\ \A i \in 1..Len(Tail(mailbox)) : Tail(mailbox)[i] = mailbox[i + 1]
  BY <1>0, HeadTailProperties, EmptySeq
<1>2. \A i \in 1..Len(mailbox') : \E j \in 1..Len(mailbox) : mailbox'[i] = mailbox[j]
  <2>1. ASSUME NEW i \in 1..Len(mailbox')
        PROVE  i + 1 \in 1..Len(mailbox) /\ mailbox'[i] = mailbox[i + 1]
    BY <1>1
  <2> QED
    BY <2>1
<1>3. MailboxOK'
  BY <1>2, OwedStays
<1>4. Len(mailbox') <= MailboxCapacity
  BY <1>0, <1>1
<1>5. IF mailbox[1].kind = "Gap" THEN Known(mailbox[1].target) ELSE resizes > 0
  BY <1>0, <1>1 DEF MailboxOK
<1> QED
  BY <1>1, <1>3, <1>4, <1>5

(* A reflow voids every binding and every request behind it, and tells the   *)
(* pumps.                                                                    *)
\* invalidate_all_native_cursors.
LEMMA ReflowKeeps ==
    ASSUME Inv, ActorFrame, seq' = seq, capture = None, capture' = None, applied' = applied,
           asked' = asked, NEW g \in Geometries, Reflow(g)
    PROVE  /\ PumpShape' /\ geometry' \in Geometries /\ backlog' \in Seq(Native)
           /\ BacklogIsASet' /\ CaptureOK' /\ \A q \in Pumps : ServedOK(q)'
<1>0. /\ seq \in Nat /\ backlog \in Seq(Native) /\ binding \in [Pumps -> {None} \cup Binding]
      /\ CaptureOK
  BY DEF Inv, Shape, ActorShape, PumpShape, ActorOK, Seqs
<1>1. /\ geometry' = g /\ binding' = Unbound /\ backlog' = <<>>
      /\ reply' = FailAll(Range(backlog))
  BY DEF Reflow
<1>2. \A q \in Pumps : q \in Range(backlog) => Queued(q)
  BY <1>0 DEF Range, Queued
<1>3. /\ \A q \in Pumps : reply'[q] = reply[q] \/ (Queued(q) /\ reply'[q] = [ok |-> FALSE])
      /\ reply' = [q \in Pumps |-> reply'[q]]
  BY <1>1, <1>2 DEF FailAll
<1>4. NoNewAnswer
  BY <1>3 DEF NoNewAnswer, NotActivated, Answered
<1>5. rx' \in [Pumps -> Receiver] /\ \A q \in Pumps : FlowOK(q)' /\ AudiencesOK(q)'
  <2>1. PICK order \in SetToSeqs(Bound) :
          rx' = Broadcast([i \in DOMAIN order |-> TombstoneItem(order[i], binding[order[i]].id)])
    BY DEF Reflow
  <2>2. order \in Seq(Bound)
    <3>1. IsFiniteSet(Bound)
      BY PaneAssumption, FS_Subset DEF Bound
    <3>2. Cardinality(Bound) \in Nat
      BY <3>1, FS_CardinalityType
    <3> QED
      BY <3>2, <2>1 DEF SetToSeqs
  <2> DEFINE items == [i \in DOMAIN order |-> TombstoneItem(order[i], binding[order[i]].id)]
  <2>3. Len(order) \in Nat /\ DOMAIN order = 1..Len(order)
    BY <2>2
  <2>4. ASSUME NEW i \in 1..Len(order)
        PROVE  items[i] \in Item /\ items[i].kind = "Tombstone"
    <3>1. order[i] \in Pumps /\ binding[order[i]] # None
      BY <2>2 DEF Bound
    <3>2. binding[order[i]].id \in Nat
      BY <3>1, <1>0 DEF Binding
    <3>3. PICK o \in Pumps, n \in Nat : o = order[i] /\ n = binding[order[i]].id
      BY <3>1, <3>2
    <3>4. items[i] = TombstoneItem(o, n)
      BY <2>3, <3>3
    <3> QED
      BY <3>4, TombstoneIsItem
  <2>5. items \in Seq(Item) /\ Len(items) = Len(order)
    <3>1. items \in [1..Len(order) -> Item]
      BY <2>3, <2>4
    <3> QED
      BY <2>3, <3>1
  <2> HIDE DEF items
  <2>6. \A i \in 1..Len(items) : items[i].kind = "Tombstone"
    BY <2>4, <2>5
  <2>7. Flow(items, seq, seq')
    <3>1. \A i \in 1..Len(items) : Moves(items[i], seq, seq)
      BY <2>6 DEF Moves
    <3> QED
      BY <3>1, <2>5, <1>0, FlowStill
  <2>8. rx' = Broadcast(items)
    BY <2>1 DEF items
  <2> QED
    BY <2>5, <2>6, <2>7, <2>8, <1>4, BroadcastKeeps
<1>6. PumpShape'
  <2>1. binding' \in [Pumps -> {None} \cup Binding]
    BY <1>1 DEF Unbound
  <2> QED
    BY <2>1, <1>3, <1>5 DEF Inv, Shape, PumpShape, ActorFrame
<1>7. backlog' \in Seq(Native) /\ BacklogIsASet' /\ CaptureOK'
  BY <1>0, <1>1 DEF BacklogIsASet, CaptureOK
<1>8. ASSUME NEW q \in Pumps
      PROVE  RequestOK(q)' /\ CutOK(q)'
  <2>1. RequestOK(q) /\ CutOK(q)
    BY AtPump DEF Owned
  <2>2. binding'[q] = None /\ ~Queued(q)' /\ ~InCapture(q)' /\ ~Waiting(q)'
    BY <1>1 DEF Unbound, Queued, InCapture, Waiting
  <2>3. UNCHANGED <<gen, pc, held, mirror, gaps>>
    BY DEF ActorFrame
  <2>4. Queued(q) => pc[q] \in Ended \cup {"Capture"} /\ asked[q] # "Bootstrap"
    BY <2>1 DEF RequestOK, Wants
  <2>5. RequestOK(q)'
    BY <2>1, <2>2, <2>3, <2>4, <1>3 DEF RequestOK, Wants, Stopped, Ended
  <2>6. Answered(q)' => Answered(q) /\ reply'[q] = reply[q]
    BY <1>3 DEF Answered
  <2>7. CutOK(q)'
    BY <2>1, <2>2, <2>3, <2>6 DEF CutOK, BootOK
  <2> QED
    BY <2>5, <2>7
<1> QED
  BY <1>1, <1>5, <1>6, <1>7, <1>8 DEF ServedOK

(* A resize that changes nothing does nothing; one that reflows the grid     *)
(* owes a resync to everyone, or to those it unbound.                        *)
\* service_resize_request.
LEMMA ServiceKeepsInv ==
    ASSUME Inv, ServiceResize
    PROVE  Inv'
<1> DEFINE req == Head(mailbox)
<1>0. /\ seq \in Nat /\ resizes \in Nat /\ debounce \in Debounce(Target) /\ DebounceOK
      /\ binding \in [Pumps -> {None} \cup Binding]
  BY DEF Inv, Shape, ActorShape, PumpShape, ActorOK, Seqs
<1>1. /\ mailbox # <<>> /\ mailbox' = Tail(mailbox) /\ capture = None /\ capture' = None
      /\ UNCHANGED <<seq, applied, resizes, gen, pc, asked, held, mirror, gaps>>
  BY DEF ServiceResize
<1>2. ActorFrame
  BY <1>0, <1>1 DEF ActorFrame
<1>3. /\ mailbox' \in Seq(Request) /\ Len(mailbox') <= MailboxCapacity /\ MailboxOK'
      /\ req \in Request /\ IF req.kind = "Gap" THEN Known(req.target) ELSE resizes > 0
  BY <1>1, <1>2, RequestServed
<1>4. \A t : Known(t) => Known(t)'
  BY <1>2, KnownToActor
<1>5. ASSUME UNCHANGED <<geometry, binding, backlog, reply, rx>>,
             debounce' \in Debounce(Target), DebounceOK'
      PROVE  Inv'
  <2>1. Shape'
    BY <1>0, <1>1, <1>3, <1>5 DEF Inv, Shape, ActorShape, PumpShape
  <2>2. ActorOK'
    BY <1>1, <1>3, <1>5 DEF Inv, ActorOK, BacklogIsASet, CaptureOK
  <2>3. \A q \in Pumps : FlowOK(q)' /\ AudiencesOK(q)'
    BY <1>1, <1>2, <1>5, QuietBroadcast DEF NoNewAnswer, NotActivated
  <2>4. ASSUME NEW q \in Pumps
        PROVE  RequestOK(q)' /\ CutOK(q)'
    <3>1. RequestOK(q) /\ CutOK(q)
      BY AtPump DEF Owned
    <3> QED
      BY <3>1, <1>1, <1>5
         DEF RequestOK, CutOK, Wants, InCapture, Queued, Waiting, Stopped, Answered, BootOK
  <2> QED
    BY <1>2, <2>1, <2>2, <2>3, <2>4, SharedStep DEF ServedOK
<1>6. ASSUME NEW g \in Geometries, Reflow(g), debounce' \in Debounce(Target), DebounceOK'
      PROVE  Inv'
  <2>1. /\ PumpShape' /\ geometry' \in Geometries /\ backlog' \in Seq(Native)
        /\ BacklogIsASet' /\ CaptureOK' /\ \A q \in Pumps : ServedOK(q)'
    BY <1>1, <1>2, <1>6, ReflowKeeps
  <2>2. Shape'
    BY <1>1, <1>3, <1>6, <2>1 DEF Inv, Shape, ActorShape
  <2>3. ActorOK'
    BY <1>3, <1>6, <2>1 DEF ActorOK
  <2> QED
    BY <1>2, <2>1, <2>2, <2>3, SharedStep
<1>7. CASE req.kind = "Gap"
  <2>1. debounce' = ArmFor(debounce, {req.target}) /\ UNCHANGED <<geometry, binding, backlog, reply, rx>>
    BY <1>7 DEF ServiceResize
  <2>2. req.target \in Target /\ Known(req.target)
    BY <1>3, <1>7 DEF Request
  <2>3. PICK t \in Target : t = req.target
    BY <2>2
  <2>4. PICK ts \in SUBSET Target : ts = {t} /\ debounce' = ArmFor(debounce, ts)
    BY <2>1, <2>3
  <2> HIDE DEF req
  <2>5. /\ debounce' \in Debounce(Target) /\ debounce'.targets = debounce.targets \cup {t}
        /\ debounce'.everyone = debounce.everyone /\ debounce'.pending
    <3>1. /\ debounce' \in Debounce(Target) /\ debounce'.targets = debounce.targets \cup ts
          /\ debounce'.everyone = debounce.everyone /\ debounce'.pending = (debounce.pending \/ ts # {})
      BY <1>0, <2>4, ArmSteps
    <3> QED
      BY <3>1, <2>4
  <2>6. DebounceOK'
    BY <1>0, <1>1, <1>4, <2>2, <2>3, <2>5 DEF DebounceOK
  <2> QED
    BY <2>1, <2>5, <2>6, <1>5
<1>8. CASE req.kind # "Gap" /\ req.geometry = geometry
  <2>1. UNCHANGED <<geometry, binding, backlog, reply, rx, debounce>>
    BY <1>8 DEF ServiceResize
  <2> QED
    BY <2>1, <1>0, <1>2, <1>5, OwedStays
<1>9. CASE req.kind # "Gap" /\ req.geometry # geometry
  <2>1. req.geometry \in Geometries /\ resizes > 0 /\ Reflow(req.geometry)
    BY <1>3, <1>9 DEF ServiceResize, Request
  <2>2. CASE req.kind = "Live"
    <3>1. debounce' = ArmForEveryone(debounce)
      BY <1>9, <2>2 DEF ServiceResize
    <3>2. /\ debounce' \in Debounce(Target) /\ debounce'.targets = debounce.targets
          /\ debounce'.pending
      <4>1. {} \in SUBSET Target
        OBVIOUS
      <4> QED
        BY <3>1, <4>1, <1>0, ArmSteps
    <3>3. DebounceOK'
      BY <3>2, <2>1, <1>0, <1>1, <1>4 DEF DebounceOK
    <3> QED
      BY <3>2, <3>3, <2>1, <1>6
  <2>3. CASE req.kind = "Attach"
    <3>1. debounce' = ArmFor(debounce, BoundTargets)
      BY <1>9, <2>3 DEF ServiceResize
    <3>2. ASSUME NEW t \in BoundTargets
          PROVE  t \in Target /\ Known(t)
      <4>1. PICK q \in Bound : t = [pump |-> q, id |-> binding[q].id]
        BY <3>2 DEF BoundTargets
      <4>2. q \in Pumps /\ binding[q] # None /\ RequestOK(q) /\ binding[q].id \in Nat
        <5>1. q \in Pumps /\ binding[q] # None
          BY DEF Bound
        <5> QED
          BY <5>1, AtPump DEF Owned, Binding
      <4>3. binding[q].id <= gen[q].id
        BY <4>2 DEF RequestOK
      <4> QED
        BY <4>1, <4>2, <4>3, <2>1, <1>0 DEF Target, Known
    <3>3. BoundTargets \in SUBSET Target
      BY <3>2
    <3>4. /\ debounce' \in Debounce(Target) /\ debounce'.targets = debounce.targets \cup BoundTargets
          /\ debounce'.pending = (debounce.pending \/ BoundTargets # {})
      BY <3>1, <3>3, <1>0, ArmSteps
    <3>5. DebounceOK'
      <4>1. ASSUME NEW t \in debounce'.targets
            PROVE  debounce'.pending /\ Known(t)'
        <5>1. CASE t \in debounce.targets
          BY <5>1, <3>4, <1>0, <1>4 DEF DebounceOK
        <5>2. CASE t \in BoundTargets
          BY <5>2, <3>2, <3>4, <1>4
        <5> QED
          BY <5>1, <5>2, <3>4
      <4>2. resizes' # 0
        BY <2>1, <1>0, <1>1
      <4> QED
        BY <4>1, <4>2 DEF DebounceOK
    <3> QED
      BY <3>4, <3>5, <2>1, <1>6
  <2> QED
    BY <2>2, <2>3, <1>3, <1>9 DEF Request
<1> QED
  BY <1>7, <1>8, <1>9

(* The resync that fires shows the output up to the sequence it is labelled  *)
(* with, because no capture withholds any.                                   *)
\* broadcast_resync.
LEMMA FireKeepsInv ==
    ASSUME Inv, FireResync
    PROVE  Inv'
<1>0. /\ seq \in Nat /\ seq \in Seqs /\ resizes \in Nat /\ debounce \in Debounce(Target) /\ DebounceOK
      /\ geometry \in Geometries /\ CaptureOK
  BY DEF Inv, Shape, ActorShape, ActorOK, Seqs
<1>1. /\ capture = None /\ debounce' = Idle
      /\ UNCHANGED <<seq, applied, geometry, mailbox, capture, backlog, binding, resizes>>
      /\ UNCHANGED <<gen, pc, asked, reply, held, mirror, gaps>>
  BY DEF FireResync, MayFire, nativeVars, pumpVars
<1>2. ActorFrame /\ NoNewAnswer
  BY <1>0, <1>1 DEF ActorFrame, NoNewAnswer, NotActivated
<1>3. debounce' \in Debounce(Target) /\ DebounceOK'
  BY <1>1 DEF Idle, Debounce, DebounceOK
<1>4. rx' \in [Pumps -> Receiver] /\ \A q \in Pumps : FlowOK(q)' /\ AudiencesOK(q)'
  <2>1. CASE rx' = rx
    BY <2>1, <1>1, <1>2, QuietBroadcast
  <2>2. CASE rx' = Broadcast(<<ResyncItem(Take(debounce), Snapshot)>>)
    <3>1. /\ Take(debounce) \in Audience(Target) /\ Take(debounce).only = debounce.targets
          /\ Take(debounce).everyone = debounce.everyone
      BY <1>0 DEF Take, Debounce, Audience
    <3>2. AudienceKnown(Take(debounce))
      BY <3>1, <1>0 DEF AudienceKnown, DebounceOK
    <3>3. Snapshot \in Boot /\ Snapshot.base = seq /\ Snapshot.content = seq
      BY <1>0, <1>1 DEF Snapshot, Boot, CaptureOK
    <3>4. PICK a \in Audience(Target), boot \in Boot : a = Take(debounce) /\ boot = Snapshot
      BY <3>1, <3>3
    <3>5. PICK item \in Item : /\ item = ResyncItem(a, boot) /\ item.kind = "Resync"
                               /\ item.audience = a /\ item.boot = boot
      BY ResyncIsItem
    <3>6. Moves(item, seq, seq)
      BY <3>3, <3>4, <3>5 DEF Moves
    <3>7. Flow(<<item>>, seq, seq') /\ <<item>> \in Seq(Item)
      BY <3>6, <1>0, <1>1, FlowOne
    <3>8. \A i \in 1..Len(<<item>>) : AudienceKnown(<<item>>[i].audience)
      BY <3>2, <3>4, <3>5
    <3>9. rx' = Broadcast(<<item>>)
      BY <2>2, <3>4, <3>5
    <3> QED
      BY <3>7, <3>8, <3>9, <1>2, BroadcastKeeps
  <2> QED
    BY <2>1, <2>2 DEF FireResync
<1>5. Shape'
  BY <1>0, <1>1, <1>3, <1>4 DEF Inv, Shape, ActorShape, PumpShape
<1>6. ActorOK'
  <2>1. MailboxOK'
    BY <1>1, <1>2, OwedStays
  <2> QED
    BY <2>1, <1>1, <1>3 DEF Inv, ActorOK, BacklogIsASet, CaptureOK
<1>7. ASSUME NEW q \in Pumps
      PROVE  RequestOK(q)' /\ CutOK(q)'
  <2>1. RequestOK(q) /\ CutOK(q)
    BY AtPump DEF Owned
  <2> QED
    BY <2>1, <1>1
       DEF RequestOK, CutOK, Wants, InCapture, Queued, Waiting, Stopped, Answered, BootOK
<1> QED
  BY <1>2, <1>4, <1>5, <1>6, <1>7, SharedStep DEF ServedOK

-----------------------------------------------------------------------------
(* Native checkpoints.                                                       *)

(* A binding that is dropped leaves the others alone.                        *)
\* release_native_owner.
LEMMA Unbinding ==
    ASSUME Inv, NEW p \in Pumps, binding' = [binding EXCEPT ![p] = None]
    PROVE  /\ binding' \in [Pumps -> {None} \cup Binding] /\ binding'[p] = None
           /\ \A q \in Pumps : q # p => binding'[q] = binding[q]
  BY DEF Inv, Shape, PumpShape

(* A cursor nobody used is dropped with its binding.                         *)
\* expire_native_cursors.
LEMMA ExpireKeepsInv ==
    ASSUME Inv, NEW p \in Pumps, ExpireCursor(p)
    PROVE  Inv'
<1>0. seq \in Nat /\ resizes \in Nat
  BY DEF Inv, Shape, ActorShape, Seqs
<1>1. /\ binding' = [binding EXCEPT ![p] = None] /\ rx' = Broadcast(<<HistoryItem(p)>>)
      /\ UNCHANGED <<seq, applied, geometry, debounce, mailbox, capture, backlog, resizes>>
      /\ UNCHANGED <<gen, pc, asked, reply, held, mirror, gaps>>
  BY DEF ExpireCursor, actorVars, pumpVars
<1>2. ActorFrame /\ NoNewAnswer
  BY <1>0, <1>1 DEF ActorFrame, NoNewAnswer, NotActivated
<1>3. rx' \in [Pumps -> Receiver] /\ \A q \in Pumps : FlowOK(q)' /\ AudiencesOK(q)'
  <2>1. PICK item \in Item : item = HistoryItem(p) /\ item.kind = "History"
    BY HistoryIsItem
  <2>2. Moves(item, seq, seq)
    BY <2>1 DEF Moves
  <2>3. Flow(<<item>>, seq, seq') /\ <<item>> \in Seq(Item)
    BY <2>2, <1>0, <1>1, FlowOne
  <2>4. \A i \in 1..Len(<<item>>) : <<item>>[i].kind = "History"
    BY <2>1
  <2> QED
    BY <2>1, <2>3, <2>4, <1>1, <1>2, BroadcastKeeps
<1>4. /\ binding' \in [Pumps -> {None} \cup Binding] /\ binding'[p] = None
      /\ \A q \in Pumps : q # p => binding'[q] = binding[q]
  BY <1>1, Unbinding
<1>5. Shape'
  BY <1>1, <1>3, <1>4 DEF Inv, Shape, ActorShape, PumpShape
<1>6. ActorOK'
  <2>1. DebounceOK' /\ MailboxOK'
    BY <1>1, <1>2, OwedStays
  <2> QED
    BY <2>1, <1>1 DEF Inv, ActorOK, BacklogIsASet, CaptureOK, BootOK
<1>7. ASSUME NEW q \in Pumps
      PROVE  RequestOK(q)' /\ CutOK(q)'
  <2>1. InCapture(q)' = InCapture(q) /\ Queued(q)' = Queued(q)
    BY <1>1 DEF InCapture, Queued
  <2>2. binding'[q] = binding[q] \/ binding'[q] = None
    BY <1>4
  <2> QED
    BY <2>1, <2>2, <1>1, <1>2, UntouchedAt
<1> QED
  BY <1>2, <1>3, <1>5, <1>6, <1>7, SharedStep DEF ServedOK

(* A binding whose history has been paged to its end is dropped silently.    *)
\* advance_history_binding.
LEMMA LastPageKeepsInv ==
    ASSUME Inv, NEW p \in Pumps, LastPage(p)
    PROVE  Inv'
<1>0. seq \in Nat /\ resizes \in Nat
  BY DEF Inv, Shape, ActorShape, Seqs
<1>1. /\ binding' = [binding EXCEPT ![p] = None] /\ rx' = rx
      /\ UNCHANGED <<seq, applied, geometry, debounce, mailbox, capture, backlog, resizes>>
      /\ UNCHANGED <<gen, pc, asked, reply, held, mirror, gaps>>
  BY DEF LastPage, actorVars, pumpVars
<1>2. ActorFrame /\ NoNewAnswer
  BY <1>0, <1>1 DEF ActorFrame, NoNewAnswer, NotActivated
<1>3. rx' \in [Pumps -> Receiver] /\ \A q \in Pumps : FlowOK(q)' /\ AudiencesOK(q)'
  BY <1>1, <1>2, QuietBroadcast
<1>4. /\ binding' \in [Pumps -> {None} \cup Binding] /\ binding'[p] = None
      /\ \A q \in Pumps : q # p => binding'[q] = binding[q]
  BY <1>1, Unbinding
<1>5. Shape'
  BY <1>1, <1>3, <1>4 DEF Inv, Shape, ActorShape, PumpShape
<1>6. ActorOK'
  <2>1. DebounceOK' /\ MailboxOK'
    BY <1>1, <1>2, OwedStays
  <2> QED
    BY <2>1, <1>1 DEF Inv, ActorOK, BacklogIsASet, CaptureOK, BootOK
<1>7. ASSUME NEW q \in Pumps
      PROVE  RequestOK(q)' /\ CutOK(q)'
  <2>1. InCapture(q)' = InCapture(q) /\ Queued(q)' = Queued(q)
    BY <1>1 DEF InCapture, Queued
  <2>2. binding'[q] = binding[q] \/ binding'[q] = None
    BY <1>4
  <2> QED
    BY <2>1, <2>2, <1>1, <1>2, UntouchedAt
<1> QED
  BY <1>2, <1>3, <1>5, <1>6, <1>7, SharedStep DEF ServedOK

(* One pump leaves the backlog, the others keep their order.                 *)
\* release_native_owner.
LEMMA Removal ==
    ASSUME NEW S, NEW s \in Seq(S), NEW k \in 1..Len(s)
    PROVE  /\ RemoveAt(s, k) \in Seq(S) /\ Len(RemoveAt(s, k)) = Len(s) - 1
           /\ \A i \in 1..(Len(s) - 1) : RemoveAt(s, k)[i] = s[IF i < k THEN i ELSE i + 1]
<1> DEFINE a == SubSeq(s, 1, k - 1)
           b == SubSeq(s, k + 1, Len(s))
<1>0. Len(s) \in Nat /\ k \in Nat /\ \A i \in 1..Len(s) : s[i] \in S
  OBVIOUS
<1>1. a \in Seq(S) /\ Len(a) = k - 1 /\ \A i \in 1..(k - 1) : a[i] = s[i]
  BY <1>0, SubSeqProperties
<1>2. b \in Seq(S) /\ Len(b) = Len(s) - k /\ \A i \in 1..(Len(s) - k) : b[i] = s[k + i]
  BY <1>0, SubSeqProperties
<1>3. RemoveAt(s, k) = a \o b
  BY DEF RemoveAt
<1> HIDE DEF a, b
<1>4. /\ a \o b \in Seq(S) /\ Len(a \o b) = Len(s) - 1
      /\ \A i \in 1..(Len(s) - 1) : (a \o b)[i] = IF i <= k - 1 THEN a[i] ELSE b[i - (k - 1)]
  BY <1>0, <1>1, <1>2, ConcatProperties
<1>5. ASSUME NEW i \in 1..(Len(s) - 1)
      PROVE  (a \o b)[i] = s[IF i < k THEN i ELSE i + 1]
  <2>1. CASE i < k
    BY <2>1, <1>0, <1>1, <1>4
  <2>2. CASE ~(i < k)
    <3>1. i - (k - 1) \in 1..(Len(s) - k) /\ k + (i - (k - 1)) = i + 1 /\ ~(i <= k - 1)
      BY <2>2, <1>0
    <3>2. b[i - (k - 1)] = s[k + (i - (k - 1))]
      BY <3>1, <1>2
    <3> QED
      BY <2>2, <3>1, <3>2, <1>4
  <2> QED
    BY <2>1, <2>2
<1> QED
  BY <1>3, <1>4, <1>5

(* A detached consumer leaves no binding, no request and no claim on a       *)
(* capture behind.                                                           *)
\* release_native_owner.
LEMMA ReleaseKeepsInv ==
    ASSUME Inv, NEW p \in Pumps, ReleaseOwner(p)
    PROVE  Inv'
<1>0. /\ seq \in Nat /\ resizes \in Nat /\ backlog \in Seq(Native) /\ BacklogIsASet /\ CaptureOK
      /\ (capture # None => capture \in Capture)
  BY DEF Inv, Shape, ActorShape, ActorOK, Seqs
<1>1. /\ binding' = [binding EXCEPT ![p] = None]
      /\ UNCHANGED <<seq, applied, geometry, debounce, mailbox, rx, resizes>>
      /\ UNCHANGED <<gen, pc, asked, reply, held, mirror, gaps>>
  BY DEF ReleaseOwner, actorVars, pumpVars
<1>2. ActorFrame /\ NoNewAnswer
  BY <1>0, <1>1 DEF ActorFrame, NoNewAnswer, NotActivated
<1>3. rx' \in [Pumps -> Receiver] /\ \A q \in Pumps : FlowOK(q)' /\ AudiencesOK(q)'
  BY <1>1, <1>2, QuietBroadcast
<1>4. /\ binding' \in [Pumps -> {None} \cup Binding] /\ binding'[p] = None
      /\ \A q \in Pumps : q # p => binding'[q] = binding[q]
  BY <1>1, Unbinding
<1>5. /\ capture = None => capture' = None
      /\ capture # None =>
            /\ capture' # None /\ capture' \in Capture /\ capture'.boot = capture.boot
            /\ capture'.replay = capture.replay /\ capture'.waiters \subseteq capture.waiters
  <2>1. CASE capture = None
    BY <2>1 DEF ReleaseOwner
  <2>2. CASE capture # None
    <3>1. capture' = [capture EXCEPT !.waiters = capture.waiters \ {p}]
      BY <2>2 DEF ReleaseOwner
    <3>2. /\ capture' \in Capture /\ capture'.boot = capture.boot
          /\ capture'.replay = capture.replay /\ capture'.waiters \subseteq capture.waiters
      BY <3>1, <2>2, <1>0 DEF Capture
    <3> QED
      BY <3>2, <2>2, NoneAssumption
  <2> QED
    BY <2>1, <2>2
<1>6. /\ backlog' \in Seq(Native) /\ BacklogIsASet' /\ \A q \in Pumps : Queued(q)' => Queued(q)
  <2>1. CASE backlog' = backlog
    BY <2>1, <1>0 DEF BacklogIsASet, Queued
  <2>2. CASE \E k \in DOMAIN backlog : backlog' = RemoveAt(backlog, k)
    <3>1. PICK k \in 1..Len(backlog) : backlog' = RemoveAt(backlog, k)
      BY <2>2, <1>0
    <3>2. /\ backlog' \in Seq(Native) /\ Len(backlog') = Len(backlog) - 1 /\ Len(backlog) \in Nat
          /\ \A i \in 1..(Len(backlog) - 1) : backlog'[i] = backlog[IF i < k THEN i ELSE i + 1]
      <4>1. PICK old \in Seq(Native) : old = backlog
        BY <1>0
      <4>2. k \in 1..Len(old) /\ backlog' = RemoveAt(old, k) /\ Len(old) \in Nat
        BY <3>1, <4>1
      <4>3. /\ backlog' \in Seq(Native) /\ Len(backlog') = Len(old) - 1
            /\ \A i \in 1..(Len(old) - 1) : backlog'[i] = old[IF i < k THEN i ELSE i + 1]
        BY <4>2, Removal
      <4> QED
        BY <4>1, <4>2, <4>3
    <3>3. ASSUME NEW i \in 1..Len(backlog')
          PROVE  \E j \in 1..Len(backlog) : backlog'[i] = backlog[j] /\ j = IF i < k THEN i ELSE i + 1
      <4>1. i \in 1..(Len(backlog) - 1) /\ Len(backlog) \in Nat
        BY <3>2
      <4>2. PICK j : j = IF i < k THEN i ELSE i + 1
        OBVIOUS
      <4>3. backlog'[i] = backlog[j]
        BY <3>2, <4>1, <4>2
      <4>4. j \in 1..Len(backlog)
        BY <4>1, <4>2
      <4> QED
        BY <4>2, <4>3, <4>4
    <3>4. BacklogIsASet'
      <4>1. ASSUME NEW i \in 1..Len(backlog'), NEW j \in 1..Len(backlog'), backlog'[i] = backlog'[j]
            PROVE  i = j
        <5>1. PICK u \in 1..Len(backlog) : backlog'[i] = backlog[u] /\ u = IF i < k THEN i ELSE i + 1
          BY <3>3
        <5>2. PICK v \in 1..Len(backlog) : backlog'[j] = backlog[v] /\ v = IF j < k THEN j ELSE j + 1
          BY <3>3
        <5>3. u = v
          BY <4>1, <5>1, <5>2, <1>0 DEF BacklogIsASet
        <5> QED
          BY <5>1, <5>2, <5>3, <3>2
      <4> QED
        BY <4>1 DEF BacklogIsASet
    <3> QED
      BY <3>2, <3>3, <3>4 DEF Queued
  <2> QED
    BY <2>1, <2>2 DEF ReleaseOwner
<1>7. Shape'
  BY <1>1, <1>3, <1>4, <1>5, <1>6 DEF Inv, Shape, ActorShape, PumpShape
<1>8. ActorOK'
  <2>1. DebounceOK' /\ MailboxOK'
    BY <1>1, <1>2, OwedStays
  <2>2. CaptureOK'
    BY <1>0, <1>1, <1>5 DEF CaptureOK, BootOK
  <2> QED
    BY <2>1, <2>2, <1>6 DEF ActorOK
<1>9. ASSUME NEW q \in Pumps
      PROVE  RequestOK(q)' /\ CutOK(q)'
  <2>1. InCapture(q)' => InCapture(q)
    BY <1>5 DEF InCapture
  <2>2. binding'[q] = binding[q] \/ binding'[q] = None
    BY <1>4
  <2> QED
    BY <2>1, <2>2, <1>1, <1>2, <1>6, UntouchedAt
<1> QED
  BY <1>2, <1>3, <1>7, <1>8, <1>9, SharedStep DEF ServedOK

(* A publication is answered with the replay that leads from the cut to now, *)
(* and a receiver that starts now.                                           *)
\* handle_native_publication.
LEMMA PublicationKeepsInv ==
    ASSUME Inv, NEW p \in Pumps, HandlePublication(p)
    PROVE  Inv'
<1>0. /\ seq \in Nat /\ resizes \in Nat /\ RequestOK(p) /\ CutOK(p) /\ TypesAt(p)
      /\ binding \in [Pumps -> {None} \cup Binding] /\ rx \in [Pumps -> Receiver]
      /\ reply = [q \in Pumps |-> reply[q]] /\ RingCapacity \in Nat
      /\ asked \in [Pumps -> {None, "Bootstrap", "Publication"}]
  BY AtPump, PaneAssumption DEF Owned, Inv, Shape, ActorShape, PumpShape, Seqs
<1>1. /\ UNCHANGED <<seq, applied, geometry, debounce, mailbox, capture, backlog, resizes>>
      /\ UNCHANGED <<gen, pc, held, mirror, gaps>>
      /\ asked[p] = "Publication" /\ asked' = [asked EXCEPT ![p] = None]
  BY DEF HandlePublication, FreshReceiver, actorVars
<1>2. ActorFrame
  BY <1>0, <1>1 DEF ActorFrame
<1>3. /\ asked' \in [Pumps -> {None, "Bootstrap", "Publication"}] /\ asked'[p] = None
      /\ asked'[p] # "Bootstrap" /\ asked'[p] # "Publication"
      /\ \A q \in Pumps : q # p => asked'[q] = asked[q]
  BY <1>0, <1>1, NoneAssumption
<1>4. Stopped(p) \/ pc[p] = "Activate"
  BY <1>0, <1>1 DEF RequestOK
<1>5. ActorOK'
  <2>1. DebounceOK' /\ MailboxOK'
    BY <1>1, <1>2, OwedStays
  <2> QED
    BY <2>1, <1>1 DEF Inv, ActorOK, BacklogIsASet, CaptureOK, BootOK
<1>6. \A q \in Pumps : InCapture(q)' = InCapture(q) /\ Queued(q)' = Queued(q)
  BY <1>1 DEF InCapture, Queued
<1>7. ASSUME binding' \in [Pumps -> {None} \cup Binding], rx' \in [Pumps -> Receiver],
             reply' = [q \in Pumps |-> reply'[q]],
             \A q \in Pumps : q # p => /\ binding'[q] = binding[q] /\ rx'[q] = rx[q]
                                       /\ reply'[q] = reply[q],
             ServedOK(p)'
      PROVE  Inv'
  <2>1. Shape'
    BY <1>1, <1>3, <1>7 DEF Inv, Shape, ActorShape, PumpShape
  <2>2. ASSUME NEW q \in Pumps, q # p
        PROVE  ServedOK(q)'
    <3>1. NotActivated(q)
      BY <1>7, <2>2 DEF NotActivated
    <3>2. FlowOK(q)' /\ AudiencesOK(q)'
      BY <3>1, <1>1, <1>2, <1>7, <2>2, QuietAt
    <3>3. RequestOK(q)' /\ CutOK(q)'
      BY <1>1, <1>2, <1>3, <1>6, <1>7, <2>2, UntouchedAt
    <3> QED
      BY <3>2, <3>3 DEF ServedOK
  <2>3. \A q \in Pumps : ServedOK(q)'
    BY <2>2, <1>7
  <2> QED
    BY <1>2, <1>5, <2>1, <2>3, SharedStep
<1>8. CASE binding[p] # None /\ binding[p].id = gen[p].id /\ binding[p].waiting
  <2>1. PICK r \in Seq(Nat) : r = binding[p].replay
    BY <1>0, <1>8 DEF Binding
  <2>2. /\ reply' = [reply EXCEPT ![p] = [ok |-> TRUE, replay |-> r]]
        /\ binding' = [binding EXCEPT ![p] = [binding[p] EXCEPT !.waiting = FALSE, !.replay = <<>>]]
        /\ rx' = [rx EXCEPT ![p] = Subscribed]
    <3>1. /\ reply' = [reply EXCEPT ![p] = [ok |-> TRUE, replay |-> r]]
          /\ rx' = [rx EXCEPT ![p] = Subscribed]
      BY <1>8, <2>1 DEF HandlePublication, FreshReceiver
    <3>2. binding' = [binding EXCEPT ![p].waiting = FALSE, ![p].replay = <<>>]
      BY <1>8 DEF HandlePublication, FreshReceiver
    <3>3. binding' = [binding EXCEPT ![p] = [binding[p] EXCEPT !.waiting = FALSE, !.replay = <<>>]]
      BY <3>2, <1>0
    <3> QED
      BY <3>1, <3>3
  <2>3. /\ reply'[p].ok /\ reply'[p].replay = r /\ reply' = [q \in Pumps |-> reply'[q]]
        /\ \A q \in Pumps : q # p => reply'[q] = reply[q]
    BY <1>0, <2>2
  <2>4. /\ rx'[p] = Subscribed /\ rx' \in [Pumps -> Receiver]
        /\ \A q \in Pumps : q # p => rx'[q] = rx[q]
    <3>1. Subscribed \in Receiver
      BY DEF Subscribed, Receiver
    <3> QED
      BY <3>1, <1>0, <2>2
  <2>5. /\ binding'[p] \in Binding /\ binding'[p].id = binding[p].id /\ ~binding'[p].waiting
        /\ binding'[p].replay = <<>> /\ binding' \in [Pumps -> {None} \cup Binding]
        /\ \A q \in Pumps : q # p => binding'[q] = binding[q]
    <3>1. binding[p] \in Binding /\ binding'[p] = [binding[p] EXCEPT !.waiting = FALSE, !.replay = <<>>]
      BY <1>0, <1>8, <2>2
    <3>2. <<>> \in Seq(Nat)
      OBVIOUS
    <3>3. /\ binding'[p] \in Binding /\ binding'[p].id = binding[p].id /\ ~binding'[p].waiting
          /\ binding'[p].replay = <<>>
      BY <3>1, <3>2 DEF Binding
    <3> QED
      BY <3>3, <1>0, <2>2
  <2>6. rx'[p].items = <<>> /\ ~rx'[p].lagged
    BY <2>4 DEF Subscribed
  <2>7. RequestOK(p)'
    <3>1. Wants(p)' => Stopped(p)
      BY <1>0, <1>3, <1>4, <1>6 DEF RequestOK, Wants, Stopped, Ended
    <3>2. ~Waiting(p)'
      BY <2>5 DEF Waiting
    <3>3. p \in Native /\ binding[p].id <= gen[p].id
      BY <1>0, <1>8 DEF RequestOK
    <3>4. pc[p] \in Ended \cup {"Activate"}
      BY <1>4 DEF Stopped
    <3> QED
      BY <3>1, <3>2, <3>3, <3>4, <1>0, <1>1, <1>3, <1>6, <2>5 DEF RequestOK, Stopped
  <2>8. pc[p] = "Activate" => /\ Run(r, held[p].cut, seq) /\ held[p].cut \in Nat /\ Len(r) \in Nat
                              /\ seq = held[p].cut + Len(r) /\ held[p].cut <= seq
    <3>1. pc[p] = "Activate" => Run(r, held[p].cut, seq) /\ held[p].cut <= seq
      BY <1>0, <1>8, <2>1 DEF CutOK, Waiting
    <3> QED
      BY <3>1, <1>0, <2>1 DEF Run, TypesAt
  <2>9. CutOK(p)'
    <3>1. ~Waiting(p)' /\ Len(binding'[p].replay) <= ReplayCapacity
      BY <2>5, PaneAssumption DEF Waiting
    <3>2. ASSUME pc[p] = "Activate"
          PROVE  /\ held[p].cut <= seq /\ reply'[p].replay \in Seq(Nat)
                 /\ Run(reply'[p].replay, held[p].cut, held[p].cut + Len(reply'[p].replay))
                 /\ held[p].cut + Len(reply'[p].replay) <= seq
      BY <3>2, <1>0, <2>3, <2>8
    <3>3. pc[p] # "Capture" /\ pc[p] # "Replay"
      BY <1>4 DEF Stopped, Ended
    <3> QED
      BY <3>1, <3>2, <3>3, <1>1 DEF CutOK
  <2>10. FlowOK(p)'
    <3>1. Len(rx'[p].items) <= RingCapacity
      BY <2>6, <1>0
    <3>2. Flow(rx'[p].items, seq', seq') /\ seq' \in 0..seq'
      BY <2>6, <1>0, <1>1, FlowEmpty
    <3>3. ~Stopped(p)' => seq' = Position(p)'
      BY <1>1, <1>4, <2>3, <2>8 DEF Position, Stopped
    <3> QED
      BY <3>1, <3>2, <3>3 DEF FlowOK
  <2>11. AudiencesOK(p)'
    BY <2>6 DEF AudiencesOK
  <2> QED
    BY <2>3, <2>4, <2>5, <2>7, <2>9, <2>10, <2>11, <1>7 DEF ServedOK
<1>9. CASE ~(binding[p] # None /\ binding[p].id = gen[p].id /\ binding[p].waiting)
  <2>1. reply' = FailAll({p}) /\ binding' = binding /\ rx' = rx
    BY <1>9 DEF HandlePublication, FreshReceiver
  <2>2. /\ reply'[p] = [ok |-> FALSE] /\ reply' = [q \in Pumps |-> reply'[q]]
        /\ \A q \in Pumps : q # p => reply'[q] = reply[q]
    BY <2>1 DEF FailAll
  <2>3. ~Answered(p)' /\ NotActivated(p)
    BY <2>2 DEF Answered, NotActivated
  <2>4. FlowOK(p)' /\ AudiencesOK(p)'
    BY <2>1, <2>3, <1>1, <1>2, QuietAt
  <2>5. ~Waiting(p) \/ Stopped(p)
    <3>1. CASE binding[p] = None \/ ~binding[p].waiting
      BY <3>1 DEF Waiting
    <3>2. CASE binding[p] # None /\ binding[p].id # gen[p].id
      BY <3>2, <1>0, <1>4 DEF RequestOK, Waiting
    <3> QED
      BY <3>1, <3>2, <1>9
  <2>6. RequestOK(p)'
    <3>1. Wants(p)' => Wants(p) /\ Stopped(p)
      BY <1>0, <1>3, <1>4, <1>6 DEF RequestOK, Wants, Stopped, Ended
    <3>2. Waiting(p)' = Waiting(p)
      BY <2>1 DEF Waiting
    <3>3. pc[p] \in Ended \cup {"Activate"}
      BY <1>4 DEF Stopped
    <3> QED
      BY <3>1, <3>2, <3>3, <1>0, <1>1, <1>3, <1>6, <2>1, <2>5 DEF RequestOK, Stopped
  <2>7. CutOK(p)'
    <3>1. pc[p] # "Capture" /\ pc[p] # "Replay"
      BY <1>4 DEF Stopped, Ended
    <3> QED
      BY <3>1, <1>0, <1>1, <2>1, <2>3 DEF CutOK, Waiting
  <2> QED
    BY <1>0, <2>1, <2>2, <2>4, <2>6, <2>7, <1>7 DEF ServedOK
<1> QED
  BY <1>8, <1>9

(* A request joins the capture in progress, waits behind it, starts one or   *)
(* is refused at once; what its owner was bound to is void.                  *)
\* handle_native_bootstrap.
LEMMA BootstrapKeepsInv ==
    ASSUME Inv, NEW p \in Pumps, HandleBootstrap(p)
    PROVE  Inv'
<1>0. /\ seq \in Nat /\ seq \in Seqs /\ resizes \in Nat /\ geometry \in Geometries
      /\ RequestOK(p) /\ CutOK(p) /\ CaptureOK /\ BacklogIsASet /\ backlog \in Seq(Native)
      /\ (capture # None => capture \in Capture) /\ (binding[p] # None => binding[p] \in Binding)
      /\ reply = [q \in Pumps |-> reply[q]]
      /\ asked \in [Pumps -> {None, "Bootstrap", "Publication"}]
  BY AtPump DEF Owned, Inv, Shape, ActorShape, PumpShape, ActorOK, Seqs
<1>1. /\ UNCHANGED <<seq, applied, geometry, debounce, mailbox, resizes>>
      /\ UNCHANGED <<gen, pc, held, mirror, gaps>>
      /\ asked[p] = "Bootstrap" /\ asked' = [asked EXCEPT ![p] = None]
      /\ binding' = [binding EXCEPT ![p] = None]
      /\ rx' = IF binding[p] = None THEN rx ELSE Broadcast(<<TombstoneItem(p, binding[p].id)>>)
  BY DEF HandleBootstrap, actorVars
<1>2. ActorFrame
  BY <1>0, <1>1 DEF ActorFrame
<1>3. /\ asked' \in [Pumps -> {None, "Bootstrap", "Publication"}] /\ asked'[p] = None
      /\ asked'[p] # "Bootstrap" /\ asked'[p] # "Publication"
      /\ \A q \in Pumps : q # p => asked'[q] = asked[q]
  BY <1>0, <1>1, NoneAssumption
<1>4. /\ p \in Native /\ ~InCapture(p) /\ ~Queued(p) /\ pc[p] \in Ended \cup {"Capture"}
      /\ (~Stopped(p) => reply[p] = None)
  BY <1>0, <1>1 DEF RequestOK, Wants
<1>5. /\ binding' \in [Pumps -> {None} \cup Binding] /\ binding'[p] = None
      /\ \A q \in Pumps : q # p => binding'[q] = binding[q]
  BY <1>1, Unbinding
<1>6. ASSUME reply' = [q \in Pumps |-> reply'[q]],
             reply'[p] = reply[p] \/ reply'[p] = [ok |-> FALSE],
             \A q \in Pumps : q # p => /\ reply'[q] = reply[q]
                                       /\ InCapture(q)' => InCapture(q)
                                       /\ Queued(q)' => Queued(q),
             capture' # None => capture' \in Capture,
             CaptureOK', backlog' \in Seq(Native), BacklogIsASet',
             ~(InCapture(p)' /\ Queued(p)'),
             InCapture(p)' \/ Queued(p)' => reply'[p] = reply[p]
      PROVE  Inv'
  <2>1. NoNewAnswer
    BY <1>6 DEF NoNewAnswer, NotActivated, Answered
  <2>2. rx' \in [Pumps -> Receiver] /\ \A q \in Pumps : FlowOK(q)' /\ AudiencesOK(q)'
    <3>1. CASE binding[p] = None
      BY <3>1, <1>1, <1>2, <2>1, QuietBroadcast
    <3>2. CASE binding[p] # None
      <4>1. PICK n \in Nat : n = binding[p].id
        BY <3>2, <1>0 DEF Binding
      <4>2. PICK item \in Item : item = TombstoneItem(p, n) /\ item.kind = "Tombstone"
        BY TombstoneIsItem
      <4>3. Moves(item, seq, seq)
        BY <4>2 DEF Moves
      <4>4. Flow(<<item>>, seq, seq') /\ <<item>> \in Seq(Item)
        BY <4>3, <1>0, <1>1, FlowOne
      <4>5. \A i \in 1..Len(<<item>>) : <<item>>[i].kind = "Tombstone"
        BY <4>2
      <4>6. rx' = Broadcast(<<item>>)
        BY <3>2, <4>1, <4>2, <1>1
      <4> QED
        BY <4>4, <4>5, <4>6, <1>2, <2>1, BroadcastKeeps
    <3> QED
      BY <3>1, <3>2
  <2>3. Shape'
    BY <1>1, <1>3, <1>5, <1>6, <2>2 DEF Inv, Shape, ActorShape, PumpShape
  <2>4. ActorOK'
    BY <1>1, <1>2, <1>6, OwedStays DEF ActorOK
  <2>5. ASSUME NEW q \in Pumps, q # p
        PROVE  RequestOK(q)' /\ CutOK(q)'
    BY <2>5, <1>1, <1>2, <1>3, <1>5, <1>6, UntouchedAt
  <2>6. RequestOK(p)'
    <3>1. ~Waiting(p)'
      BY <1>5 DEF Waiting
    <3>2. Wants(p)' => InCapture(p)' \/ Queued(p)'
      BY <1>3 DEF Wants
    <3>3. reply'[p] # None => reply[p] # None \/ pc[p] \in Ended \cup {"Capture"}
      BY <1>4
    <3> QED
      BY <3>1, <3>2, <3>3, <1>0, <1>1, <1>3, <1>4, <1>5, <1>6 DEF RequestOK, Stopped
  <2>7. CutOK(p)'
    <3>1. ~Waiting(p)' /\ binding'[p] = None
      BY <1>5 DEF Waiting
    <3>2. pc[p] # "Activate" /\ pc[p] # "Replay"
      BY <1>4 DEF Ended
    <3>3. pc[p] = "Capture" => ~Answered(p)'
      BY <1>4, <1>6 DEF Answered, Stopped, Ended
    <3> QED
      BY <3>1, <3>2, <3>3, <1>1 DEF CutOK
  <2> QED
    BY <1>2, <2>2, <2>3, <2>4, <2>5, <2>6, <2>7, SharedStep DEF ServedOK
<1>7. CASE /\ capture # None /\ Joins(p) /\ capture' = [capture EXCEPT !.waiters = @ \cup {p}]
           /\ UNCHANGED <<backlog, reply>>
  <2>1. capture' = [capture EXCEPT !.waiters = capture.waiters \cup {p}] /\ capture \in Capture
    BY <1>0, <1>7
  <2>2. /\ capture' \in Capture /\ capture'.waiters = capture.waiters \cup {p}
        /\ capture'.boot = capture.boot /\ capture'.replay = capture.replay
    BY <2>1, <1>4 DEF Capture
  <2>3. capture' # None
    BY <2>2, NoneAssumption
  <2>4. CaptureOK'
    BY <1>0, <1>1, <1>7, <2>2, <2>3 DEF CaptureOK, BootOK
  <2>5. \A q \in Pumps : /\ Queued(q)' = Queued(q)
                         /\ q # p => (InCapture(q)' => InCapture(q))
    BY <1>7, <2>2 DEF InCapture, Queued
  <2>6. BacklogIsASet' /\ backlog' \in Seq(Native) /\ reply' = [q \in Pumps |-> reply'[q]]
    BY <1>0, <1>7 DEF BacklogIsASet
  <2> QED
    BY <1>4, <1>7, <2>2, <2>4, <2>5, <2>6, <1>6
<1>8. CASE capture # None /\ ~Joins(p) /\ backlog' = Append(backlog, p) /\ UNCHANGED <<capture, reply>>
  <2>1. /\ backlog' \in Seq(Native) /\ Len(backlog') = Len(backlog) + 1 /\ Len(backlog) \in Nat
        /\ \A i \in 1..Len(backlog) : backlog'[i] = backlog[i]
        /\ backlog'[Len(backlog) + 1] = p
    BY <1>0, <1>4, <1>8, AppendProperties
  <2>2. \A i \in 1..Len(backlog') : i \in 1..Len(backlog) \/ i = Len(backlog) + 1
    BY <2>1
  <2>3. BacklogIsASet'
    BY <1>0, <1>4, <2>1, <2>2 DEF BacklogIsASet, Queued
  <2>4. \A q \in Pumps : InCapture(q)' = InCapture(q) /\ (q # p => (Queued(q)' => Queued(q)))
    BY <1>8, <2>1, <2>2 DEF InCapture, Queued
  <2>5. CaptureOK' /\ (capture' # None => capture' \in Capture) /\ reply' = [q \in Pumps |-> reply'[q]]
    BY <1>0, <1>1, <1>8 DEF CaptureOK, BootOK
  <2> QED
    BY <1>4, <1>8, <2>1, <2>3, <2>4, <2>5, <1>6
<1>9. CASE capture = None /\ capture' = Starts(p, applied) /\ UNCHANGED <<backlog, reply>>
  <2>1. PICK boot \in Boot : boot = [Snapshot EXCEPT !.content = applied]
                             /\ boot.base = seq /\ boot.content = seq
    BY <1>0, <1>9 DEF CaptureOK, Snapshot, Boot
  <2>2. /\ capture' \in Capture /\ capture'.boot = boot /\ capture'.replay = <<>>
        /\ capture'.waiters = {p}
    <3>1. capture' = [boot |-> boot, replay |-> <<>>, waiters |-> {p}, narrow |-> p \in Narrow]
      BY <1>9, <2>1 DEF Starts
    <3>2. <<>> \in Seq(Seqs) /\ {p} \in SUBSET Native /\ (p \in Narrow) \in BOOLEAN
      BY <1>4
    <3> QED
      BY <3>1, <3>2 DEF Capture
  <2>3. CaptureOK'
    <3>1. capture' # None
      BY <2>2, NoneAssumption
    <3>2. BootOK(capture.boot)'
      BY <2>1, <2>2, <1>0, <1>1 DEF BootOK
    <3>3. Run(<<>>, seq, seq) /\ Len(<<>>) = 0
      BY <1>0 DEF Run
    <3> QED
      BY <3>1, <3>2, <3>3, <2>1, <2>2, <1>1, PaneAssumption DEF CaptureOK
  <2>4. \A q \in Pumps : /\ Queued(q)' = Queued(q)
                         /\ q # p => (InCapture(q)' => InCapture(q))
    BY <1>9, <2>2 DEF InCapture, Queued
  <2>5. BacklogIsASet' /\ backlog' \in Seq(Native) /\ reply' = [q \in Pumps |-> reply'[q]]
    BY <1>0, <1>9 DEF BacklogIsASet
  <2> QED
    BY <1>4, <1>9, <2>2, <2>3, <2>4, <2>5, <1>6
<1>10. CASE capture = None /\ reply' = FailAll({p}) /\ UNCHANGED <<capture, backlog>>
  <2>1. /\ reply'[p] = [ok |-> FALSE] /\ reply' = [q \in Pumps |-> reply'[q]]
        /\ \A q \in Pumps : q # p => reply'[q] = reply[q]
    BY <1>10 DEF FailAll
  <2>2. \A q \in Pumps : InCapture(q)' = InCapture(q) /\ Queued(q)' = Queued(q)
    BY <1>10 DEF InCapture, Queued
  <2>3. /\ BacklogIsASet' /\ backlog' \in Seq(Native) /\ CaptureOK'
        /\ (capture' # None => capture' \in Capture)
    BY <1>0, <1>1, <1>10 DEF BacklogIsASet, CaptureOK, BootOK
  <2> QED
    BY <1>4, <2>1, <2>2, <2>3, <1>6
<1> QED
  BY <1>7, <1>8, <1>9, <1>10 DEF HandleBootstrap

(* The first of the backlog leaves it for good.                              *)
\* start_next_native_bootstrap.
LEMMA BacklogHead ==
    ASSUME backlog \in Seq(Native), BacklogIsASet, backlog # <<>>, backlog' = Tail(backlog),
           NEW h, h = Head(backlog)
    PROVE  /\ backlog' \in Seq(Native) /\ BacklogIsASet' /\ h \in Native
           /\ Queued(h) /\ ~Queued(h)'
           /\ \A q \in Pumps : Queued(q)' => Queued(q)
<1>1. /\ Len(backlog) \in Nat /\ 1 \in 1..Len(backlog) /\ Head(backlog) = backlog[1]
      /\ Head(backlog) \in Native /\ backlog' \in Seq(Native)
      /\ Len(backlog') = Len(backlog) - 1
      /\ \A i \in 1..Len(backlog') : backlog'[i] = backlog[i + 1]
  BY HeadTailProperties, EmptySeq
<1>2. \A i \in 1..Len(backlog') : i + 1 \in 1..Len(backlog) /\ i + 1 # 1
  BY <1>1
<1>3. BacklogIsASet'
  <2>1. ASSUME NEW i \in 1..Len(backlog'), NEW j \in 1..Len(backlog'), backlog'[i] = backlog'[j]
        PROVE  i = j
    <3>1. i + 1 = j + 1
      BY <2>1, <1>1, <1>2 DEF BacklogIsASet
    <3> QED
      BY <3>1
  <2> QED
    BY <2>1 DEF BacklogIsASet
<1>4. Queued(h)
  BY <1>1 DEF Queued
<1>6. \A i \in 1..Len(backlog') : backlog'[i] # h
  BY <1>1, <1>2 DEF BacklogIsASet
<1>7. ~Queued(h)'
  BY <1>6 DEF Queued
<1>8. \A q \in Pumps : Queued(q)' => Queued(q)
  BY <1>1, <1>2 DEF Queued
<1> QED
  BY <1>1, <1>3, <1>4, <1>7, <1>8

(* A capture that ends binds and answers the waiters it serves, with the     *)
(* checkpoint and all that was output since, and lets the next one start     *)
(* from a terminal that shows everything.                                    *)
\* finish_native_bootstrap, start_next_native_bootstrap.
LEMMA EndKeepsInv ==
    ASSUME Inv, EndCapture
    PROVE  Inv'
<1>0. /\ seq \in Nat /\ seq \in Seqs /\ resizes \in Nat /\ geometry \in Geometries
      /\ CaptureOK /\ BacklogIsASet /\ backlog \in Seq(Native) /\ Native \subseteq Pumps
      /\ reply = [q \in Pumps |-> reply[q]] /\ binding \in [Pumps -> {None} \cup Binding]
  BY PaneAssumption DEF Inv, Shape, ActorShape, PumpShape, ActorOK, Seqs
<1>1. /\ capture # None /\ applied' = seq
      /\ UNCHANGED <<seq, geometry, debounce, mailbox, rx, resizes>>
      /\ UNCHANGED <<gen, pc, asked, held, mirror, gaps>>
  BY DEF EndCapture
<1>2. /\ capture \in Capture /\ BootOK(capture.boot) /\ Run(capture.replay, capture.boot.base, seq)
      /\ Len(capture.replay) <= ReplayCapacity /\ capture.waiters \subseteq Native
      /\ capture.replay \in Seq(Nat)
  BY <1>0, <1>1, ReplayIsNat DEF CaptureOK, Inv, Shape, ActorShape, Capture
<1>3. ActorFrame
  BY <1>0, <1>1 DEF ActorFrame
<1>4. PICK refused \in SUBSET capture.waiters :
        LET served == {q \in capture.waiters \ refused : ~Stopped(q)} IN
        /\ binding' = ParkedOn(served)
        /\ StartNext([q \in Pumps |->
                IF q \in served THEN [ok |-> TRUE, boot |-> capture.boot]
                ELSE FailAll(refused)[q]])
  BY DEF EndCapture
<1> DEFINE served == {q \in capture.waiters \ refused : ~Stopped(q)}
           replies == [q \in Pumps |-> IF q \in served THEN [ok |-> TRUE, boot |-> capture.boot]
                                       ELSE FailAll(refused)[q]]
<1>5. binding' = ParkedOn(served) /\ StartNext(replies)
  BY <1>4
<1>6. ASSUME NEW q \in Pumps
      PROVE  /\ q \in served => /\ InCapture(q) /\ ~Stopped(q) /\ q \in Native
                                /\ replies[q] = [ok |-> TRUE, boot |-> capture.boot]
             /\ q \notin served => \/ replies[q] = reply[q]
                                   \/ InCapture(q) /\ replies[q] = [ok |-> FALSE]
  <2>1. FailAll(refused)[q] = IF q \in refused THEN [ok |-> FALSE] ELSE reply[q]
    BY DEF FailAll
  <2> QED
    BY <2>1, <1>1, <1>2 DEF InCapture
<1>7. ASSUME NEW q \in Pumps
      PROVE  binding'[q] = IF q \in served
                           THEN [id |-> gen[q].id, waiting |-> TRUE, replay |-> capture.replay]
                           ELSE binding[q]
  BY <1>5 DEF ParkedOn
<1>8. replies = [q \in Pumps |-> replies[q]] /\ binding' = [q \in Pumps |-> binding'[q]]
  BY <1>5 DEF ParkedOn
<1> HIDE DEF served, replies
<1>9. binding' \in [Pumps -> {None} \cup Binding]
  <2>1. ASSUME NEW q \in Pumps
        PROVE  binding'[q] \in {None} \cup Binding
    <3>1. CASE q \in served
      <4>1. PICK i \in Nat : i = gen[q].id
        BY AtPump
      <4>2. PICK r \in Seq(Nat) : r = capture.replay
        BY <1>2
      <4>3. [id |-> i, waiting |-> TRUE, replay |-> r] \in Binding
        BY DEF Binding
      <4> QED
        BY <3>1, <4>1, <4>2, <4>3, <1>7
    <3>2. CASE q \notin served
      BY <3>2, <1>0, <1>7
    <3> QED
      BY <3>1, <3>2
  <2> QED
    BY <2>1, <1>8
<1>10. ASSUME reply' = [q \in Pumps |-> reply'[q]],
              capture' # None => capture' \in Capture,
              CaptureOK', backlog' \in Seq(Native), BacklogIsASet',
              \A q \in Pumps :
                 /\ InCapture(q)' => Queued(q) /\ ~Queued(q)'
                 /\ Queued(q)' => Queued(q)
                 /\ Queued(q)' \/ InCapture(q)' => reply'[q] = replies[q]
                 /\ reply'[q] = replies[q] \/ (Queued(q) /\ reply'[q] = [ok |-> FALSE])
       PROVE  Inv'
  <2>1. Shape'
    BY <1>0, <1>1, <1>9, <1>10 DEF Inv, Shape, ActorShape, PumpShape
  <2>2. ActorOK'
    BY <1>1, <1>3, <1>10, OwedStays DEF ActorOK
  <2>3. ASSUME NEW q \in Pumps
        PROVE  ServedOK(q)'
    <3>1. RequestOK(q) /\ CutOK(q)
      BY AtPump DEF Owned
    <3>2. InCapture(q)' => Queued(q) /\ ~Queued(q)'
      BY <1>10
    <3>3. Queued(q)' => Queued(q)
      BY <1>10
    <3>4. CASE q \in served
      <4>1. /\ InCapture(q) /\ ~Stopped(q) /\ pc[q] = "Capture" /\ asked[q] # "Bootstrap"
            /\ asked[q] # "Publication" /\ ~Queued(q) /\ q \in Native
        BY <3>1, <3>4, <1>6 DEF RequestOK, Wants, Stopped
      <4>2. reply'[q] = [ok |-> TRUE, boot |-> capture.boot]
        BY <3>4, <4>1, <1>6, <1>10
      <4>3. /\ reply'[q].ok /\ reply'[q].boot = capture.boot
            /\ binding'[q] = [id |-> gen[q].id, waiting |-> TRUE, replay |-> capture.replay]
        BY <3>4, <4>2, <1>7
      <4>4. ~InCapture(q)' /\ ~Queued(q)' /\ ~Wants(q)'
        BY <3>2, <3>3, <4>1, <1>1 DEF Wants
      <4>5. /\ binding'[q].id = gen[q].id /\ binding'[q].replay = capture.replay
            /\ gen[q].id <= gen[q].id
        BY <4>3, AtPump
      <4>6. RequestOK(q)'
        BY <3>1, <4>1, <4>4, <4>5, <1>1 DEF RequestOK, Stopped
      <4>7. CutOK(q)'
        <5>1. Answered(q)' \/ reply'[q] = None
          BY <4>3 DEF Answered
        <5>2. BootOK(capture.boot) /\ seq' = seq /\ pc'[q] = "Capture"
          BY <1>1, <1>2, <4>1
        <5>3. BootOK(reply[q].boot)'
          BY <5>2, <4>3 DEF BootOK
        <5>4. reply'[q] # None
          <6>1. PICK c \in Boot : c = capture.boot
            BY <1>2 DEF BootOK
          <6>2. [ok |-> TRUE, boot |-> c] \in Checkpoint
            BY DEF Checkpoint
          <6> QED
            BY <4>2, <6>1, <6>2, NoneAssumption
        <5> QED
          BY <5>1, <5>2, <5>3, <5>4, <4>3, <4>5, <1>2 DEF CutOK
      <4>8. NotActivated(q)
        BY <4>1 DEF NotActivated
      <4>9. FlowOK(q)' /\ AudiencesOK(q)'
        BY <4>8, <1>1, <1>3, QuietAt
      <4> QED
        BY <4>6, <4>7, <4>9 DEF ServedOK
    <3>5. CASE q \notin served
      <4>1. binding'[q] = binding[q]
        BY <3>5, <1>7
      <4>2. \/ reply'[q] = reply[q]
            \/ (InCapture(q) \/ Queued(q)) /\ reply'[q] = [ok |-> FALSE]
        BY <3>5, <1>6, <1>10
      <4>3. InCapture(q) \/ Queued(q) => /\ pc[q] \in Ended \cup {"Capture"} /\ ~Waiting(q)
                                         /\ asked[q] # "Bootstrap"
        BY <3>1 DEF RequestOK, Wants
      <4>4. Wants(q)' => Wants(q) /\ reply'[q] = reply[q]
        <5>1. CASE asked[q] = "Bootstrap"
          BY <5>1, <4>2, <3>1 DEF RequestOK, Wants
        <5>2. CASE Queued(q)' \/ InCapture(q)'
          <6>1. Queued(q) /\ ~InCapture(q)
            BY <5>2, <3>1, <3>2, <3>3 DEF RequestOK
          <6>2. reply'[q] = replies[q]
            BY <5>2, <1>10
          <6> QED
            BY <6>1, <6>2, <3>5, <1>6 DEF Wants
        <5> QED
          BY <5>1, <5>2, <1>1 DEF Wants
      <4>5. Waiting(q)' = Waiting(q)
        BY <4>1 DEF Waiting
      <4>6. RequestOK(q)'
        <5>1. asked[q] = "Publication" => Stopped(q) \/ (pc[q] = "Activate" /\ reply'[q] = None)
          BY <3>1, <4>2, <4>3 DEF RequestOK, Stopped, Ended
        <5>2. reply'[q] # None => pc[q] \in Ended \cup {"Capture", "Activate"}
          BY <3>1, <4>2, <4>3 DEF RequestOK
        <5>3. asked[q] = "Bootstrap" => ~InCapture(q)' /\ ~Queued(q)'
          BY <3>1, <3>2, <3>3 DEF RequestOK
        <5> QED
          BY <5>1, <5>2, <5>3, <3>1, <3>2, <4>1, <4>4, <4>5, <1>1 DEF RequestOK, Stopped
      <4>7. Answered(q)' => Answered(q) /\ reply'[q] = reply[q]
        BY <4>2 DEF Answered
      <4>8. Waiting(q)' => reply'[q] = reply[q]
        BY <4>2, <4>3, <4>5
      <4>9. CutOK(q)'
        BY <3>1, <4>1, <4>5, <4>7, <4>8, <1>1 DEF CutOK, BootOK, Answered
      <4>10. NotActivated(q)
        BY <4>7 DEF NotActivated
      <4>11. FlowOK(q)' /\ AudiencesOK(q)'
        BY <4>10, <1>1, <1>3, QuietAt
      <4> QED
        BY <4>6, <4>9, <4>11 DEF ServedOK
    <3> QED
      BY <3>4, <3>5
  <2> QED
    BY <1>3, <2>1, <2>2, <2>3, SharedStep
<1>11. CASE backlog = <<>> /\ capture' = None /\ reply' = replies /\ UNCHANGED backlog
  <2>1. \A q \in Pumps : ~InCapture(q)' /\ (Queued(q)' => Queued(q))
    BY <1>11 DEF InCapture, Queued
  <2>2. CaptureOK' /\ BacklogIsASet'
    BY <1>0, <1>1, <1>11 DEF CaptureOK, BacklogIsASet
  <2> QED
    BY <1>0, <1>8, <1>11, <2>1, <2>2, <1>10
<1>12. CASE /\ backlog # <<>> /\ capture' = Starts(Head(backlog), seq)
            /\ backlog' = Tail(backlog) /\ reply' = replies
  <2>1. PICK h : h = Head(backlog)
    OBVIOUS
  <2>2. /\ backlog' \in Seq(Native) /\ BacklogIsASet' /\ h \in Native
        /\ Queued(h) /\ ~Queued(h)' /\ \A q \in Pumps : Queued(q)' => Queued(q)
    BY <2>1, <1>0, <1>12, BacklogHead
  <2>3. PICK boot \in Boot : boot = [Snapshot EXCEPT !.content = seq]
                             /\ boot.base = seq /\ boot.content = seq
    <3>1. seq \in Seqs /\ geometry \in Geometries
      BY <1>0
    <3>2. [base |-> seq, content |-> seq, geometry |-> geometry] \in Boot
      BY <3>1 DEF Boot
    <3>3. [Snapshot EXCEPT !.content = seq] = [base |-> seq, content |-> seq, geometry |-> geometry]
      BY DEF Snapshot
    <3> QED
      BY <3>2, <3>3
  <2>4. /\ capture' \in Capture /\ capture'.boot = boot /\ capture'.replay = <<>>
        /\ capture'.waiters = {h}
    <3>1. capture' = [boot |-> boot, replay |-> <<>>, waiters |-> {h}, narrow |-> h \in Narrow]
      BY <1>12, <2>1, <2>3 DEF Starts
    <3>2. <<>> \in Seq(Seqs) /\ {h} \in SUBSET Native /\ (h \in Narrow) \in BOOLEAN
      BY <2>2
    <3> QED
      BY <3>1, <3>2 DEF Capture
  <2>5. CaptureOK'
    <3>1. capture' # None
      BY <2>4, NoneAssumption
    <3>2. BootOK(capture.boot)'
      BY <2>3, <2>4, <1>0, <1>1 DEF BootOK
    <3>3. Run(<<>>, seq, seq) /\ Len(<<>>) = 0
      BY <1>0 DEF Run
    <3> QED
      BY <3>1, <3>2, <3>3, <2>3, <2>4, <1>1, PaneAssumption DEF CaptureOK
  <2>6. \A q \in Pumps : InCapture(q)' => q = h
    BY <2>4 DEF InCapture
  <2>7. \A q \in Pumps : InCapture(q)' => Queued(q) /\ ~Queued(q)'
    BY <2>2, <2>6
  <2> QED
    BY <1>8, <1>12, <2>2, <2>4, <2>5, <2>7, <1>10
<1>13. CASE /\ backlog # <<>> /\ capture' = None /\ backlog' = Tail(backlog)
            /\ reply' = [replies EXCEPT ![Head(backlog)] = [ok |-> FALSE]]
  <2>1. PICK h : h = Head(backlog)
    OBVIOUS
  <2>2. /\ backlog' \in Seq(Native) /\ BacklogIsASet' /\ h \in Native
        /\ Queued(h) /\ ~Queued(h)' /\ \A q \in Pumps : Queued(q)' => Queued(q)
    BY <2>1, <1>0, <1>13, BacklogHead
  <2>3. CaptureOK' /\ \A q \in Pumps : ~InCapture(q)'
    BY <1>1, <1>13 DEF CaptureOK, InCapture
  <2>4. /\ reply' = [q \in Pumps |-> reply'[q]] /\ reply'[h] = [ok |-> FALSE]
        /\ \A q \in Pumps : q # h => reply'[q] = replies[q]
    BY <1>0, <1>8, <1>13, <2>1, <2>2
  <2>5. \A q \in Pumps : Queued(q)' => reply'[q] = replies[q]
    BY <2>2, <2>4
  <2>6. \A q \in Pumps : reply'[q] = replies[q] \/ (Queued(q) /\ reply'[q] = [ok |-> FALSE])
    BY <2>2, <2>4
  <2> QED
    BY <1>13, <2>2, <2>3, <2>4, <2>5, <2>6, <1>10
<1> QED
  BY <1>5, <1>11, <1>12, <1>13 DEF StartNext

-----------------------------------------------------------------------------
(* The theorems.                                                             *)

(* A pane that has just bootstrapped its consumers satisfies the invariant.  *)
\* TerminalActor, before its first output.
LEMMA InitInv == Init => Inv
<1> SUFFICES ASSUME Init PROVE Inv
  OBVIOUS
<1>1. /\ seq = 0 /\ applied = 0 /\ geometry \in Geometries /\ debounce = Idle
      /\ mailbox = <<>> /\ capture = None /\ backlog = <<>> /\ resizes = 0
      /\ MaxSeq \in Nat /\ MailboxCapacity \in Nat /\ RingCapacity \in Nat
      /\ ReplayCapacity \in Nat /\ GapBudget \in Nat /\ Native \subseteq Pumps
  BY PaneAssumption, GapBudgetAssumption DEF Init
<1>2. ASSUME NEW p \in Pumps
      PROVE  /\ rx[p] = Subscribed /\ gen[p] = OpenedAt(0, 1) /\ pc[p] = "Run"
             /\ asked[p] = None /\ reply[p] = None /\ gaps[p] = 0
             /\ held[p] = [cut |-> 0, replay |-> <<>>]
             /\ mirror[p] = MirrorInit(1, geometry)
             /\ \/ p \in Native /\ binding[p] = [id |-> 1, waiting |-> FALSE, replay |-> <<>>]
                \/ binding[p] = None
  BY DEF Init, Unbound
<1>3. ActorShape
  <2>1. debounce \in Debounce(Target)
    BY <1>1 DEF Idle, Debounce
  <2>2. mailbox \in Seq(Request) /\ Len(mailbox) = 0 /\ backlog \in Seq(Native)
    BY <1>1
  <2> QED
    BY <1>1, <2>1, <2>2 DEF ActorShape, Seqs
<1>4. PumpShape
  <2>1. Subscribed \in Receiver
    BY DEF Subscribed, Receiver
  <2>2. OpenedAt(0, 1) \in Generation(Nat, Nat)
    BY <1>1 DEF OpenedAt, Generation
  <2>3. MirrorInit(1, geometry) \in Mirror(Nat, Nat, Geometries)
    BY <1>1 DEF MirrorInit, Mirror
  <2>4. [id |-> 1, waiting |-> FALSE, replay |-> <<>>] \in Binding
    BY DEF Binding
  <2>5. [cut |-> 0, replay |-> <<>>] \in [cut: Nat, replay: Seq(Nat)] /\ "Run" \in Steps
    BY DEF Steps
  <2>6. binding \in [Pumps -> {None} \cup Binding] /\ rx \in [Pumps -> Receiver]
    BY <2>1, <2>4 DEF Init
  <2>7. gen \in [Pumps -> Generation(Nat, Nat)] /\ pc \in [Pumps -> Steps]
    BY <2>2, <2>5 DEF Init
  <2>8. /\ asked \in [Pumps -> {None, "Bootstrap", "Publication"}]
        /\ reply = [p \in Pumps |-> reply[p]] /\ gaps \in [Pumps -> Nat]
    BY DEF Init, Unbound
  <2>9. /\ held \in [Pumps -> [cut: Nat, replay: Seq(Nat)]]
        /\ mirror \in [Pumps -> Mirror(Nat, Nat, Geometries)]
    BY <2>3, <2>5 DEF Init
  <2> QED
    BY <2>6, <2>7, <2>8, <2>9 DEF PumpShape
<1>5. ActorOK
  <2>1. BacklogIsASet /\ MailboxOK
    BY <1>1 DEF BacklogIsASet, MailboxOK
  <2>2. CaptureOK /\ DebounceOK
    BY <1>1 DEF CaptureOK, DebounceOK, Idle
  <2> QED
    BY <2>1, <2>2 DEF ActorOK
<1>6. ASSUME NEW p \in Pumps
      PROVE  PumpOK(p)
  <2>1. RequestOK(p)
    <3>1. ~InCapture(p) /\ ~Queued(p) /\ asked[p] = None
      BY <1>1, <1>2 DEF InCapture, Queued
    <3>2. ~Wants(p)
      BY <3>1, NoneAssumption DEF Wants
    <3>3. ~Waiting(p)
      BY <1>2 DEF Waiting
    <3>4. binding[p] # None => p \in Native /\ binding[p].id <= gen[p].id
      BY <1>2 DEF OpenedAt
    <3> QED
      BY <3>1, <3>2, <3>3, <3>4, <1>2, NoneAssumption DEF RequestOK
  <2>2. CutOK(p)
    <3>1. binding[p] # None => Len(binding[p].replay) <= ReplayCapacity
      BY <1>1, <1>2
    <3> QED
      BY <3>1, <1>2 DEF CutOK
  <2>3. FlowOK(p)
    <3>1. Flow(<<>>, 0, 0)
      BY FlowEmpty
    <3>2. rx[p].items = <<>> /\ Len(rx[p].items) <= RingCapacity
      BY <1>1, <1>2 DEF Subscribed
    <3>3. Position(p) = 0
      BY <1>2 DEF Position, OpenedAt
    <3> QED
      BY <3>1, <3>2, <3>3, <1>1 DEF FlowOK
  <2>4. GenerationOK(p)
    BY <1>1, <1>2 DEF GenerationOK, OpenedAt
  <2>5. MirrorOK(p)
    BY <1>1, <1>2 DEF MirrorOK, OpenedAt, MirrorInit, Frozen
  <2>6. AudiencesOK(p)
    BY <1>2 DEF AudiencesOK, Subscribed
  <2>7. CountOK(p)
    BY <1>2 DEF CountOK, OpenedAt
  <2> QED
    BY <2>1, <2>2, <2>3, <2>4, <2>5, <2>6, <2>7 DEF PumpOK
<1> QED
  BY <1>3, <1>4, <1>5, <1>6 DEF Inv, Shape

(* No step breaks the invariant.                                             *)
\* TerminalActor::run and the pumps.
LEMMA NextInv == Inv /\ [Next]_vars => Inv'
<1> SUFFICES ASSUME Inv, [Next]_vars PROVE Inv'
  OBVIOUS
<1>1. CASE UNCHANGED vars
  <2>1. /\ UNCHANGED <<seq, applied, geometry, debounce, mailbox, capture, backlog, binding>>
        /\ UNCHANGED <<rx, gen, pc, asked, reply, held, mirror, resizes, gaps>>
    BY <1>1 DEF vars, actorVars, nativeVars, pumpVars
  <2>2. Shape' /\ ActorOK'
    BY <2>1 DEF Inv, Shape, ActorShape, PumpShape, ActorOK, BacklogIsASet, CaptureOK, BootOK,
       DebounceOK, MailboxOK, Known
  <2>3. ASSUME NEW p \in Pumps
        PROVE  PumpOK(p)'
    <3>1. RequestOK(p)' = RequestOK(p) /\ CutOK(p)' = CutOK(p)
      BY <2>1 DEF RequestOK, CutOK, BootOK, InCapture, Queued, Wants, Waiting, Answered, Stopped
    <3>2. FlowOK(p)' = FlowOK(p)
      BY <2>1 DEF FlowOK, Tracks, Position, Answered, Stopped
    <3>3. GenerationOK(p)' = GenerationOK(p) /\ MirrorOK(p)' = MirrorOK(p)
      BY <2>1 DEF GenerationOK, MirrorOK
    <3>4. AudiencesOK(p)' = AudiencesOK(p) /\ CountOK(p)' = CountOK(p)
      BY <2>1 DEF AudiencesOK, AudienceKnown, Known, CountOK
    <3> QED
      BY <3>1, <3>2, <3>3, <3>4 DEF Inv, PumpOK
  <2> QED
    BY <2>2, <2>3 DEF Inv
<1>2. CASE Next
  <2>1. CASE \E p \in Pumps : PumpStep(p) \/ OutboundClosed(p)
    BY <2>1, PumpKeepsInv
  <2>2. CASE ActorStep
    <3>1. CASE \E p \in Pumps : \/ HandleBootstrap(p) \/ HandlePublication(p)
                               \/ LastPage(p) \/ ExpireCursor(p) \/ ReleaseOwner(p)
      BY <3>1, BootstrapKeepsInv, PublicationKeepsInv, LastPageKeepsInv, ExpireKeepsInv, ReleaseKeepsInv
    <3> QED
      BY <2>2, <3>1, ServiceKeepsInv, FireKeepsInv, EndKeepsInv DEF ActorStep
  <2> QED
    BY <1>2, <2>1, <2>2, OutputKeepsInv, AskKeepsInv DEF Next
<1> QED
  BY <1>1, <1>2

(* The invariant holds of every reachable state, whatever the pumps, their   *)
(* profiles and the capacities.                                              *)
\* TerminalActor::run and the pumps.
THEOREM InvHolds == Spec => []Inv
  BY InitInv, NextInv, PTL DEF Spec

(* Only pumps are passed over by an attach-time reflow.                      *)
\* broadcast_resync's targets after a resize at attach.
LEMMA PassedOverArePumps == Spec => [](passedOver \subseteq Pumps)
<1> DEFINE P == passedOver \subseteq Pumps
<1>1. Init => P
  BY DEF Init
<1>2. P /\ [Next]_vars => P'
  <2> SUFFICES ASSUME P, [Next]_vars PROVE P'
    OBVIOUS
  <2>1. CASE UNCHANGED vars
    BY <2>1 DEF vars, pumpVars
  <2>2. CASE PtyOutput \/ AskResize
    BY <2>2 DEF PtyOutput, AskResize, pumpVars
  <2>3. CASE ActorStep
    BY <2>3 DEF ActorStep, ServiceResize, FireResync, EndCapture, HandleBootstrap, HandlePublication,
       LastPage, ExpireCursor, ReleaseOwner, pumpVars
  <2>4. ASSUME NEW p \in Pumps, PumpStep(p) \/ OutboundClosed(p) PROVE P'
    BY <2>4 DEF PumpStep, RecvLagged, RecvLive, RecvStale, RecvControl, RecvResync, RequestGapResync,
       EnqueueResync, RequestTimesOut, RetryResync, AbandonGap, PublishCheckpoint, AdoptPublication,
       ForwardReplay, OutboundClosed
  <2> QED
    BY <2>1, <2>2, <2>3, <2>4 DEF Next
<1> QED
  BY <1>1, <1>2, PTL DEF Spec

(* Every variable keeps its shape.                                           *)
\* TerminalActor, PumpGeneration and the client's SessionKernel.
THEOREM TypeCorrect == Spec => []TypeOK
<1>1. Inv /\ passedOver \subseteq Pumps => TypeOK
  <2> SUFFICES ASSUME Inv, passedOver \subseteq Pumps PROVE TypeOK
    OBVIOUS
  <2>1. /\ seq \in Seqs /\ applied \in 0 .. seq /\ geometry \in Geometries
        /\ Len(mailbox) <= MailboxCapacity /\ seq \in Nat /\ seq <= MaxSeq /\ MaxSeq \in Nat
    BY PaneAssumption DEF Inv, Shape, ActorShape, Seqs
  <2>2. \A t \in debounce.targets : debounce.pending /\ t.pump \in Pumps /\ t.id <= gen[t.pump].id
    BY DEF Inv, Shape, ActorShape, ActorOK, DebounceOK, Known, Debounce, Target
  <2>3. Range(backlog) \subseteq Native
    BY DEF Inv, Shape, ActorShape, Range
  <2>4. capture # None => capture.boot \in Boot /\ capture.waiters \subseteq Native
    BY DEF Inv, Shape, ActorShape, Capture
  <2>5. ASSUME NEW p \in Pumps
        PROVE  /\ Len(rx[p].items) <= RingCapacity
               /\ gen[p].attempts \in 0 .. GapBudget /\ gen[p].last \in gen[p].cut .. seq
               /\ pc[p] \in Ended \cup {"Run", "Request", "Capture", "Activate", "Replay"}
               /\ asked[p] \in {None, "Bootstrap", "Publication"}
               /\ binding[p] # None => p \in Native /\ Len(binding[p].replay) <= ReplayCapacity
               /\ mirror[p].next \in 1 .. (seq + 1) /\ mirror[p].content \in Seqs
    <3>1. PumpOK(p) /\ PumpShape
      BY DEF Inv, Shape
    <3>2. Len(rx[p].items) <= RingCapacity
      BY <3>1 DEF PumpOK, FlowOK
    <3>3. /\ gen[p].attempts \in 0 .. GapBudget /\ gen[p].last \in Nat /\ gen[p].cut \in Nat
          /\ gen[p].cut <= gen[p].last /\ gen[p].last <= seq
      BY <3>1 DEF PumpOK, PumpShape, Generation, GenerationOK
    <3>4. /\ pc[p] \in Ended \cup {"Run", "Request", "Capture", "Activate", "Replay"}
          /\ asked[p] \in {None, "Bootstrap", "Publication"}
      BY <3>1 DEF PumpShape, Steps
    <3>5. binding[p] # None => p \in Native /\ Len(binding[p].replay) <= ReplayCapacity
      BY <3>1 DEF PumpOK, RequestOK, CutOK
    <3>6. mirror[p].next \in 1 .. (seq + 1) /\ mirror[p].content = mirror[p].next - 1
      BY <3>1 DEF PumpOK, MirrorOK
    <3>7. mirror[p].content \in Seqs
      BY <2>1, <3>6 DEF Seqs
    <3> QED
      BY <2>1, <3>2, <3>3, <3>4, <3>5, <3>6, <3>7
  <2> QED
    BY <2>1, <2>2, <2>3, <2>4, <2>5 DEF TypeOK
<1> QED
  BY <1>1, InvHolds, PassedOverArePumps, PTL

(* The consumer's kernel never sees a gap, a duplicate or a stale            *)
(* generation.                                                               *)
\* SessionKernel's sequence check, PumpGeneration::forwards.
THEOREM StreamExact == Spec => []StreamIsExact
<1>1. Inv => StreamIsExact
  BY DEF Inv, PumpOK, MirrorOK, StreamIsExact
<1> QED
  BY <1>1, InvHolds, PTL

(* A screen shows all the output its sequence says it does.                  *)
\* start_native_bootstrap, buffer_native_live_output, broadcast_resync.
THEOREM CheckpointComplete == Spec => []CheckpointIsComplete
<1>1. Inv => CheckpointIsComplete
  BY DEF Inv, PumpOK, MirrorOK, CheckpointIsComplete
<1> QED
  BY <1>1, InvHolds, PTL

(* The pump and its consumer agree on the generation.                        *)
\* PumpGeneration, republish_native_generation, forward_control.
THEOREM GenerationAgreed == Spec => []ConsumerKnowsItsGeneration
<1>1. Inv => ConsumerKnowsItsGeneration
  BY DEF Inv, PumpOK, MirrorOK, ConsumerKnowsItsGeneration
<1> QED
  BY <1>1, InvHolds, PTL

(* A gap costs its consumer one new generation and the others none.          *)
\* request_gap_resync, ResyncTarget, PumpGeneration::takes_resync.
THEOREM RepublishedOncePerGap == Spec => []OneRepublishPerGap
<1>1. Inv => OneRepublishPerGap
  BY DEF Inv, PumpOK, CountOK, OneRepublishPerGap
<1> QED
  BY <1>1, InvHolds, PTL

(* A native pump's request is in one place at a time, so an answer is the    *)
(* one the pump waits for.                                                   *)
\* handle_native_bootstrap, finish_native_bootstrap.
THEOREM RequestInOnePlace == Spec => []OneRequestOnePlace
<1>1. Inv => OneRequestOnePlace
  BY DEF Inv, ActorOK, PumpOK, OneRequestOnePlace
<1> QED
  BY <1>1, InvHolds, PTL

(* What a pump will still receive leads without a break to the output of     *)
(* now.                                                                      *)
\* The broadcast subscription, handle_native_publication.
THEOREM NothingSkipped == Spec => []NothingIsSkipped
<1>1. Inv => NothingIsSkipped
  BY DEF Inv, PumpOK, NothingIsSkipped
<1> QED
  BY <1>1, InvHolds, PTL
=============================================================================
