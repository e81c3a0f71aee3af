------------------------- MODULE AttachStreamsProofs -------------------------
(* Proofs about the output streams of one connection: the type invariant,    *)
(* that two pumps speak at once only beside an ATTACH, that the client's     *)
(* kernel refuses a frame only after a reused id or two speakers, that a     *)
(* detach is a fence, and that the whole implements PaneView.                *)
(*                                                                           *)
(* The invariant Inv (AttachStreamsInv) is shown to survive every action.    *)
(* The steps of a pump come first: each is a PumpMoves, and PumpStepInv and  *)
(* PumpSpeaks say what a PumpMoves must keep.  Commands come next: they give *)
(* up streams (GivesUp), park a pump (Starts), or move on to their next      *)
(* await.  The refinement is last.                                           *)
EXTENDS AttachStreamsInv, SequenceTheorems, FiniteSetTheorems, TLAPS

(* Stream ids, sequences, bootstrap ids and command numbers are natural      *)
(* numbers.                                                                  *)
\* stream_id_from, next_bootstrap.
LEMMA Numbers == Streams \subseteq Nat /\ Seqs \subseteq Nat /\ BootIds \subseteq Nat /\ Commands \subseteq Nat
  BY StreamsAssumption DEF Streams, StreamIdFrom, Seqs, BootIds, Commands

(* A pump is not the absent value.                                           *)
\* OutputPumpTask.
LEMMA SomePump ==
    ASSUME NEW t \in Tasks
    PROVE  t # None /\ t \in PumpTask(Nat, Nat, Nat, Nat)
<1>1. Streams \subseteq Nat /\ Seqs \subseteq Nat /\ BootIds \subseteq Nat /\ (0 .. MaxOutput + MaxResyncs) \subseteq Nat
  BY StreamsAssumption DEF Streams, StreamIdFrom, Seqs, BootIds
<1>2. PICK s, q, b, p : s = Streams /\ q = Seqs /\ b = BootIds /\ p = 0 .. MaxOutput + MaxResyncs
  OBVIOUS
<1>3. t \in PumpTask(s, q, b, p) /\ s \subseteq Nat /\ q \subseteq Nat /\ b \subseteq Nat /\ p \subseteq Nat
  BY <1>1, <1>2 DEF Tasks
<1>4. t \in PumpTask(Nat, Nat, Nat, Nat)
  BY <1>3 DEF PumpTask, Generation
<1> QED
  BY <1>4, NoneAssumption

(* A set of commands has more than one member when two of them differ.       *)
\* output_pumps, counted by the history variable twoSpeakers.
LEMMA AtMostOne ==
    ASSUME NEW S \in SUBSET Commands
    PROVE  Cardinality(S) > 1 <=> \E a, b \in S : a # b
<1>1. IsFiniteSet(Commands)
  BY StreamsAssumption, FS_Interval DEF Commands
<1>2. IsFiniteSet(S) /\ Cardinality(S) \in Nat
  BY <1>1, FS_Subset, FS_CardinalityType
<1>3. ASSUME NEW a \in S, NEW b \in S, a # b PROVE Cardinality(S) > 1
  <2>1. IsFiniteSet({a}) /\ Cardinality({a}) = 1
    BY FS_Singleton
  <2>2. Cardinality({a} \cup {b}) = 2
    BY <1>3, <2>1, FS_AddElement
  <2>3. {a} \cup {b} \subseteq S
    OBVIOUS
  <2> QED
    BY <1>2, <2>2, <2>3, FS_Subset
<1>4. ASSUME \A a, b \in S : a = b PROVE Cardinality(S) \in {0, 1}
  <2>1. CASE S = {}
    BY <2>1, FS_EmptySet
  <2>2. CASE S # {}
    <3>1. PICK a \in S : TRUE
      BY <2>2
    <3>2. S = {a}
      BY <1>4, <3>1
    <3> QED
      BY <3>2, FS_Singleton
  <2> QED
    BY <2>1, <2>2
<1> QED
  BY <1>2, <1>3, <1>4

(* A command being handled is not the absent value.                          *)
\* The read loop's current command.
LEMMA SomeCommand ==
    ASSUME NEW c \in Command(Tasks, BootIds)
    PROVE  c # None
<1>1. Tasks \subseteq PumpTask(Nat, Nat, Nat, Nat)
  BY SomePump
<1>2. BootIds \subseteq Nat
  BY StreamsAssumption DEF BootIds
<1>3. c \in Command(PumpTask(Nat, Nat, Nat, Nat), Nat)
  <2>1. PICK T, B, P : T = Tasks /\ B = BootIds /\ P = PumpTask(Nat, Nat, Nat, Nat)
    OBVIOUS
  <2>2. T \subseteq P /\ B \subseteq Nat /\ c \in Command(T, B)
    BY <1>1, <1>2, <2>1
  <2>3. c \in Command(P, Nat)
    BY <2>2 DEF Command
  <2> QED
    BY <2>1, <2>3
<1> QED
  BY <1>3, NoneAssumption

(* A generation is not the absent value.                                     *)
\* (stream_id, bootstrap_id).
LEMMA SomeGen ==
    ASSUME NEW g \in Gens
    PROVE  g # None
<1>1. Streams \subseteq Nat /\ BootIds \subseteq Nat
  BY StreamsAssumption DEF Streams, StreamIdFrom, BootIds
<1>2. g \in Nat \X Nat
  BY <1>1 DEF Gens
<1> QED
  BY <1>2, NoneAssumption

(* One more BEGIN leaves the generations begun distinct exactly if it names  *)
(* a new one.                                                                *)
\* BOOTSTRAP_BEGIN, next_bootstrap.
LEMMA AppendBegins ==
    ASSUME NEW s \in Seq(Gens), NEW g \in Gens
    PROVE  /\ Append(s, g) \in Seq(Gens)
           /\ Range(Append(s, g)) = Range(s) \cup {g}
           /\ IsInjective(Append(s, g)) <=> IsInjective(s) /\ g \notin Range(s)
<1> DEFINE a == Append(s, g)
<1>1. /\ a \in Seq(Gens) /\ DOMAIN s = 1 .. Len(s) /\ DOMAIN a = 1 .. Len(s) + 1
      /\ Len(s) \in Nat /\ a[Len(s) + 1] = g /\ \A i \in 1 .. Len(s) : a[i] = s[i]
  OBVIOUS
<1>2. DOMAIN a = DOMAIN s \cup {Len(s) + 1} /\ Len(s) + 1 \notin DOMAIN s
  BY <1>1
<1> HIDE DEF a
<1>3. Range(a) = Range(s) \cup {g}
  BY <1>1, <1>2 DEF Range
<1>4. IsInjective(a) <=> IsInjective(s) /\ g \notin Range(s)
  BY <1>1, <1>2 DEF Range, IsInjective
<1> QED
  BY <1>1, <1>3, <1>4 DEF a

-----------------------------------------------------------------------------
(* The client's kernel, frame by frame.                                      *)

\* A replica and what it is staging, well typed: one generation at most is staged.
KernelType(m, st) ==
    /\ m \in Mirror(Seqs, Gens \cup {None}, {None})
    /\ st \subseteq [gen: Gens, base: 0 .. MaxOutput] /\ \A d, e \in st : d = e

(* A BEGIN shows nothing; when its generation is new to the kernel it is     *)
(* staged in place of the one staged before, and no error is raised.         *)
\* SessionKernel: bootstrap_begin.
LEMMA BeginEffect ==
    ASSUME NEW m, NEW st, KernelType(m, st), NEW g \in Gens, NEW b \in 0 .. MaxOutput,
           NEW r, r = StageBegin([mirror |-> m, staging |-> st], g, b)
    PROVE  /\ KernelType(r.mirror, r.staging)
           /\ r.mirror.published = m.published /\ r.mirror.next = m.next /\ r.mirror.content = m.content
           /\ r.mirror.retired \subseteq m.retired \cup {e.gen : e \in st}
           /\ \A e \in r.staging : e \in st \/ e.gen = g
           /\ g \notin m.retired \cup {m.published} /\ (\A e \in st : e.gen # g) =>
                 /\ r.mirror.error = m.error
                 /\ r.staging = {[gen |-> g, base |-> b]} /\ g \notin r.mirror.retired \cup {r.mirror.published}
<1>1. CASE g \in m.retired \cup {m.published} \/ \E e \in st : e.gen = g
  <2>1. r.mirror = [m EXCEPT !.error = TRUE] /\ r.staging = st
    BY <1>1 DEF StageBegin, RefusesBegin, Stages, Fails
  <2> QED
    BY <1>1, <2>1 DEF KernelType, Mirror
<1>2. CASE ~(g \in m.retired \cup {m.published} \/ \E e \in st : e.gen = g)
  <2>1. r = [mirror |-> [m EXCEPT !.retired = @ \cup {e.gen : e \in st}], staging |-> {[gen |-> g, base |-> b]}]
    BY <1>2 DEF StageBegin, RefusesBegin, Stages
  <2>2. PICK x : x = [gen |-> g, base |-> b]
    OBVIOUS
  <2>3. PICK y : y = [m EXCEPT !.retired = @ \cup {e.gen : e \in st}]
    OBVIOUS
  <2>4. r = [mirror |-> y, staging |-> {x}]
    BY <2>1, <2>2, <2>3
  <2>5. r.mirror = y /\ r.staging = {x}
    BY <2>4
  <2>6. r.mirror = [m EXCEPT !.retired = @ \cup {e.gen : e \in st}] /\ r.staging = {x}
    BY <2>3, <2>5
  <2>7. {x} \subseteq [gen: Gens, base: 0 .. MaxOutput] /\ x.gen = g
    BY <2>2
  <2>8. {e.gen : e \in st} \subseteq Gens
    BY DEF KernelType
  <2>9. KernelType(r.mirror, r.staging)
    BY <2>6, <2>7, <2>8 DEF KernelType, Mirror
  <2>10. r.mirror.published = m.published /\ r.mirror.next = m.next /\ r.mirror.content = m.content
        /\ r.mirror.error = m.error /\ r.mirror.retired = m.retired \cup {e.gen : e \in st}
    BY <2>6 DEF KernelType, Mirror
  <2> QED
    BY <1>2, <2>2, <2>6, <2>7, <2>9, <2>10
<1> QED
  BY <1>1, <1>2

(* A READY retires at most the generation shown; when it names the one       *)
(* staged, that one is shown at the cut it was staged with.                  *)
\* SessionKernel: bootstrap_ready.
LEMMA ReadyEffect ==
    ASSUME NEW m, NEW st, KernelType(m, st), NEW g \in Gens,
           NEW r, r = StageReady([mirror |-> m, staging |-> st], g)
    PROVE  /\ KernelType(r.mirror, r.staging)
           /\ r.mirror.published \in {m.published, g} /\ r.mirror.retired \subseteq m.retired \cup {m.published}
           /\ r.staging \subseteq st
           /\ \A b : st = {[gen |-> g, base |-> b]} /\ g \notin m.retired \cup {m.published} =>
                 /\ r.mirror.error = m.error /\ r.mirror.published = g
                 /\ g \notin r.mirror.retired
                 /\ r.mirror.next = b + 1 /\ r.mirror.content = b
                 /\ r.staging = {}
<1>1. CASE g \in m.retired \/ \A e \in st : e.gen # g
  <2>1. r.mirror = [m EXCEPT !.error = TRUE] /\ r.staging = st
    BY <1>1 DEF StageReady, Stages, Fails
  <2>2. \A b : st = {[gen |-> g, base |-> b]} => \E e \in st : e.gen = g
    OBVIOUS
  <2> QED
    BY <1>1, <2>1, <2>2 DEF KernelType, Mirror
<1>2. CASE g \notin m.retired /\ \E e \in st : e.gen = g
  <2>1. PICK e \in st : e = (CHOOSE x \in st : x.gen = g) /\ e.gen = g
    BY <1>2
  <2>2. e.base \in Seqs /\ e.base + 1 \in Seqs
    BY <2>1, StreamsAssumption DEF KernelType, Seqs
  <2>3. r.staging = {}
    BY <1>2 DEF StageReady, Stages
  <2>4. r.mirror = [m EXCEPT !.published = g, !.next = e.base + 1, !.retired = m.retired \cup {m.published},
                             !.content = e.base, !.geometry = m.geometry]
    BY <1>2, <2>1 DEF StageReady, Stages, Published
  <2>5. /\ r.mirror.published = g /\ r.mirror.next = e.base + 1 /\ r.mirror.content = e.base
        /\ r.mirror.retired = m.retired \cup {m.published} /\ r.mirror.error = m.error
    BY <2>4 DEF KernelType, Mirror
  <2>6. PICK q, G : q = Seqs /\ G = Gens \cup {None}
    OBVIOUS
  <2>7. m \in Mirror(q, G, {None}) /\ g \in G /\ m.geometry = None
    BY <2>6 DEF KernelType, Mirror
  <2>8. PICK x \in q, y \in q, u \in SUBSET G :
            r.mirror = [m EXCEPT !.published = g, !.next = y, !.retired = u, !.content = x, !.geometry = None]
    <3>1. PICK x, y, u : x = e.base /\ y = e.base + 1 /\ u = m.retired \cup {m.published}
      OBVIOUS
    <3>2. x \in q /\ y \in q /\ u \in SUBSET G
      BY <2>2, <2>6, <2>7, <3>1 DEF Mirror
    <3>3. r.mirror = [m EXCEPT !.published = g, !.next = y, !.retired = u, !.content = x, !.geometry = None]
      BY <2>4, <2>7, <3>1
    <3> QED
      BY <3>2, <3>3
  <2>9. r.mirror \in Mirror(q, G, {None})
    BY <2>7, <2>8 DEF Mirror
  <2>10. KernelType(r.mirror, r.staging)
    BY <2>3, <2>6, <2>9 DEF KernelType
  <2>11. \A b : st = {[gen |-> g, base |-> b]} => e.base = b
    BY <2>1
  <2> QED
    BY <1>2, <2>3, <2>5, <2>10, <2>11
<1> QED
  BY <1>1, <1>2

(* Output moves no generation; under the generation shown, with the sequence *)
(* expected, it is applied without error.                                    *)
\* SessionKernel: live output, expect_next_seq.
LEMMA OutputEffect ==
    ASSUME NEW m, NEW st, KernelType(m, st), NEW g \in Gens, NEW s \in Nat, s > 0, s + 1 \in Seqs,
           NEW a, a = ApplyOutput(m, g, s)
    PROVE  /\ KernelType(a, st)
           /\ a.published = m.published /\ a.retired = m.retired
           /\ g \notin m.retired /\ g = m.published /\ s = m.next /\ m.next = m.content + 1 =>
                 a.error = m.error /\ a.next = s + 1 /\ a.content = s
<1>1. Seqs \subseteq Nat /\ s \in Seqs
  BY StreamsAssumption DEF Seqs
<1>2. CASE Expects(m, g, s)
  <2>1. a = [m EXCEPT !.next = s + 1, !.content = IF m.content = s - 1 THEN s ELSE m.content]
    BY <1>2 DEF ApplyOutput, KernelType, Mirror
  <2>2. a.next = s + 1 /\ a.content \in {s, m.content} /\ a.error = m.error /\ a.published = m.published
        /\ a.retired = m.retired /\ (m.content = s - 1 => a.content = s)
    BY <2>1 DEF KernelType, Mirror
  <2>3. PICK q : q = Seqs
    OBVIOUS
  <2>4. a \in Mirror(q, Gens \cup {None}, {None})
    BY <1>1, <2>1, <2>3 DEF KernelType, Mirror
  <2>5. m.content \in Nat
    BY <1>1 DEF KernelType, Mirror
  <2> QED
    BY <1>2, <2>2, <2>3, <2>4, <2>5 DEF KernelType, Expects
<1>3. CASE ~Expects(m, g, s)
  <2>1. a = [m EXCEPT !.error = TRUE]
    BY <1>3 DEF ApplyOutput
  <2> QED
    BY <1>3, <2>1 DEF KernelType, Mirror, Expects
<1> QED
  BY <1>2, <1>3

(* A tombstone retires its generation and changes neither the screen nor the *)
(* error.                                                                    *)
\* SessionKernel: tombstone of a generation.
LEMMA TombstoneEffect ==
    ASSUME NEW m, NEW st, KernelType(m, st), NEW g \in Gens,
           NEW r, r = StageTombstone([mirror |-> m, staging |-> st], g)
    PROVE  /\ KernelType(r.mirror, r.staging)
           /\ r.mirror.published = m.published /\ r.mirror.next = m.next /\ r.mirror.content = m.content
           /\ r.mirror.error = m.error /\ r.mirror.retired = m.retired \cup {g}
           /\ r.staging \subseteq st
<1>1. r.mirror = [m EXCEPT !.retired = @ \cup {g}] /\ r.staging = {e \in st : e.gen # g}
  BY DEF StageTombstone, ApplyTombstone
<1> QED
  BY <1>1 DEF KernelType, Mirror

-----------------------------------------------------------------------------
(* The pane's broadcast.                                                     *)

\* What the pane broadcasts.
BroadcastItem == [kind: {"Live", "Resync"}, seq: Seqs]

(* What the broadcast's invariant says of its positions: no position is      *)
(* behind its own sequence, and what is left of the broadcast is at least    *)
(* the output left.                                                          *)
\* The pane's broadcast channel and output sequence.
LEMMA LogFacts ==
    ASSUME TypeOK, LogOK
    PROVE  /\ log \in Seq(BroadcastItem) /\ Len(log) \in Nat /\ Len(log) <= MaxOutput + MaxResyncs
           /\ seq \in Nat /\ seq \in Seqs /\ seq + 1 \in Seqs
           /\ \A i \in 1 .. Len(log) : log[i] \in BroadcastItem
           /\ \A i \in 0 .. Len(log) : /\ At(i) \in Nat /\ At(i) \in Seqs /\ At(i) <= seq /\ At(i) <= i
                                       /\ i + seq <= Len(log) + At(i)
<1>1. log \in Seq(BroadcastItem) /\ Len(log) \in Nat /\ \A i \in 1 .. Len(log) : log[i] \in BroadcastItem
  <2>1. log \in Seq(BroadcastItem)
    BY DEF TypeOK, BroadcastItem
  <2> QED
    BY <2>1
<1>2. Seqs = 0 .. MaxOutput + 1 /\ MaxOutput \in Nat /\ MaxResyncs \in Nat
  BY StreamsAssumption DEF Seqs
<1>3. \A i \in 0 .. Len(log) : At(i) \in Nat /\ At(i) \in Seqs
  BY <1>1, <1>2 DEF At, BroadcastItem
<1>4. seq = At(Len(log)) /\ seq <= MaxOutput /\ Len(log) <= seq + MaxResyncs
  BY DEF LogOK
<1>5. seq \in Nat
  BY <1>1, <1>3, <1>4
<1>6. ASSUME NEW i \in 0 .. Len(log)
      PROVE  At(i) <= seq /\ At(i) <= i /\ i + seq <= Len(log) + At(i)
  <2>1. Len(log) \in 0 .. Len(log) /\ 0 \in 0 .. Len(log) /\ i <= Len(log) /\ 0 <= i /\ At(0) = 0
    BY <1>1 DEF At
  <2>2. At(i) <= At(Len(log)) /\ i + At(Len(log)) <= Len(log) + At(i) /\ 0 + At(i) <= i + At(0)
    BY <2>1 DEF LogOK
  <2> QED
    BY <1>3, <1>4, <2>1, <2>2
<1> QED
  BY <1>1, <1>2, <1>3, <1>4, <1>5, <1>6

(* Broadcasting one more item, of the sequence it should have, keeps the     *)
(* broadcast's invariant and moves no earlier position.                      *)
\* Sender::send of output and of a resync.
LEMMA LogGrows ==
    ASSUME TypeOK, LogOK, NEW x \in BroadcastItem, log' = Append(log, x), seq' = x.seq,
           x.seq = seq + (IF x.kind = "Live" THEN 1 ELSE 0),
           x.seq <= MaxOutput, Len(log) + 1 <= x.seq + MaxResyncs
    PROVE  /\ LogOK' /\ log' \in Seq(BroadcastItem) /\ seq' \in Seqs /\ seq <= seq'
           /\ Len(log') = Len(log) + 1 /\ \A i \in 0 .. Len(log) : At(i)' = At(i)
<1>1. /\ log \in Seq(BroadcastItem) /\ Len(log) \in Nat /\ seq \in Nat
      /\ \A i \in 0 .. Len(log) : At(i) \in Nat /\ At(i) <= seq /\ i + seq <= Len(log) + At(i)
  BY LogFacts
<1>2. /\ log' \in Seq(BroadcastItem) /\ Len(log') = Len(log) + 1 /\ log'[Len(log) + 1] = x
      /\ \A i \in 1 .. Len(log) : log'[i] = log[i]
  BY <1>1
<1>3. \A i \in 0 .. Len(log) : At(i)' = At(i)
  BY <1>1, <1>2 DEF At
<1>4. PICK l \in Nat : l = Len(log)
  BY <1>1
<1>5. PICK k \in Nat : k = l + 1
  OBVIOUS
<1>6. k = l + 1 /\ l = Len(log)
  BY <1>4, <1>5
<1>7. At(k)' = x.seq /\ log'[k] = x
  BY <1>2, <1>6 DEF At
<1>8. x.seq \in Nat /\ x.seq \in Seqs /\ seq <= x.seq /\ x.seq <= seq + 1
  BY <1>1 DEF BroadcastItem
<1>9. ASSUME NEW i \in 1 .. Len(log')
      PROVE  log'[i].seq = At(i - 1)' + (IF log'[i].kind = "Live" THEN 1 ELSE 0)
  <2>1. CASE i = k
    <3>1. i - 1 = l /\ l \in 0 .. Len(log)
      BY <1>6, <2>1
    <3>2. At(l)' = seq
      BY <1>3, <1>6, <3>1 DEF LogOK
    <3> QED
      BY <1>7, <2>1, <3>1, <3>2
  <2>2. CASE i # k
    <3>1. i \in 1 .. Len(log) /\ i - 1 \in 0 .. Len(log) /\ log'[i] = log[i]
      BY <1>1, <1>2, <1>6, <2>2
    <3>2. log[i].seq = At(i - 1) + (IF log[i].kind = "Live" THEN 1 ELSE 0)
      BY <3>1 DEF LogOK
    <3> QED
      BY <1>3, <3>1, <3>2
  <2> QED
    BY <2>1, <2>2
<1>10. ASSUME NEW i \in 0 .. Len(log'), NEW j \in 0 .. Len(log'), i <= j
      PROVE  At(i)' <= At(j)' /\ i + At(j)' <= j + At(i)'
  <2>1. CASE j = k /\ i = k
    BY <1>7, <1>8, <2>1
  <2>2. CASE j = k /\ i # k
    <3>1. i \in 0 .. Len(log)
      BY <1>1, <1>2, <1>6, <2>2
    <3>2. PICK a \in Nat : a = At(i) /\ a = At(i)'
      BY <1>1, <1>3, <3>1
    <3>3. a <= seq /\ i + seq <= l + a /\ i \in Nat
      <4>1. At(i) <= seq /\ i + seq <= Len(log) + At(i)
        BY <1>1, <3>1
      <4> QED
        BY <1>6, <3>1, <3>2, <4>1
    <3>4. a <= x.seq /\ i + x.seq <= k + a
      BY <1>1, <1>5, <1>8, <3>3
    <3> QED
      BY <1>7, <2>2, <3>2, <3>4
  <2>3. CASE j # k
    <3>1. i \in 0 .. Len(log) /\ j \in 0 .. Len(log)
      BY <1>1, <1>2, <1>6, <1>10, <2>3
    <3>2. At(i) <= At(j) /\ i + At(j) <= j + At(i)
      BY <3>1, <1>10 DEF LogOK
    <3> QED
      BY <1>3, <3>1, <3>2
  <2> QED
    BY <2>1, <2>2, <2>3
<1>11. LogOK'
  <2>1. Len(log') = k /\ seq' = At(k)' /\ seq' <= MaxOutput /\ Len(log') <= seq' + MaxResyncs
    BY <1>2, <1>6, <1>7
  <2>2. \A i \in 1 .. Len(log') : log'[i].seq = At(i - 1)' + (IF log'[i].kind = "Live" THEN 1 ELSE 0)
    BY <1>9
  <2>3. \A i, j \in 0 .. Len(log') : i <= j => At(i)' <= At(j)' /\ i + At(j)' <= j + At(i)'
    BY <1>10
  <2>4. seq' = At(Len(log))'
    BY <2>1
  <2> QED
    BY <2>1, <2>2, <2>3, <2>4 DEF LogOK
<1> QED
  BY <1>2, <1>3, <1>8, <1>11

-----------------------------------------------------------------------------
(* What a step of a pump does to the pump.                                   *)

\* A step of pump n, which becomes t and leaves the tables otherwise alone.
PumpMoves(n, t) ==
    /\ n \in Live /\ task[n].phase # "Parked"
    /\ t \in Tasks /\ t.phase # "Parked" /\ t.kind = task[n].kind /\ t.stream = task[n].stream
    /\ PumpOK(t) /\ t.gen.id + At(t.pos) <= sent + t.pos
    /\ task' = [task EXCEPT ![n] = t]
    /\ UNCHANGED <<native, pane, counter, entry, attached, usedIds, paneVars, cmd, sent, others, closed>>

(* What the invariant says of a pump in the table.                           *)
\* OutputPumpTask.
LEMMA AtPump ==
    ASSUME Inv, NEW n \in Live
    PROVE  /\ n \in Commands /\ task[n] \in Tasks /\ task[n] # None /\ PumpOK(task[n])
           /\ task[n].kind \in {"Attach", "AttachResource", "Spawn"} /\ task[n].stream \in Streams
           /\ task[n].gen \in Generation(Seqs, BootIds) /\ task[n].pos \in Nat /\ task[n].pos <= Len(log)
           /\ task[n].base \in Seqs /\ task[n].phase \in {"Parked", "Run", "Begin", "Ready"}
           /\ task[n].live \in 0 .. MaxOutput + MaxResyncs
           /\ task[n].gen.id + At(task[n].pos) <= sent + task[n].pos
           /\ Gen(n) \in Gens
<1>1. n \in Commands /\ task[n] # None
  BY DEF Live
<1>2. task[n] \in Tasks /\ PumpOK(task[n])
  BY <1>1 DEF Inv, TypeOK, PositionOK
<1>3. PICK t \in Tasks : t = task[n]
  BY <1>2
<1>4. /\ t.kind \in {"Attach", "AttachResource", "Spawn"} /\ t.stream \in Streams
      /\ t.gen \in Generation(Seqs, BootIds) /\ t.pos \in 0 .. MaxOutput + MaxResyncs
      /\ t.base \in Seqs /\ t.phase \in {"Parked", "Run", "Begin", "Ready"}
      /\ t.live \in 0 .. MaxOutput + MaxResyncs
  BY DEF Tasks, PumpTask
<1>5. t.gen.id \in BootIds
  BY <1>4 DEF Generation
<1>6. Gen(n) \in Gens
  BY <1>3, <1>4, <1>5 DEF Gen, Gens
<1>7. t.gen.id + At(t.pos) <= sent + t.pos
  BY <1>3 DEF Inv, CountOK
<1>8. t.pos <= Len(log)
  BY <1>2, <1>3 DEF PumpOK
<1> QED
  BY <1>1, <1>2, <1>3, <1>4, <1>6, <1>7, <1>8

(* The item a pump reads next, and the sequence its receiver will have       *)
(* passed.                                                                   *)
\* The receive loop of the output pump.
LEMMA ReadItem ==
    ASSUME Inv, NEW n \in Commands, Reads(n)
    PROVE  /\ n \in Live /\ task[n].phase = "Run"
           /\ task[n].pos + 1 \in 1 .. Len(log) /\ Item(n) \in BroadcastItem
           /\ At(task[n].pos + 1) = Item(n).seq
           /\ Item(n).seq = At(task[n].pos) + (IF Item(n).kind = "Live" THEN 1 ELSE 0)
           /\ At(task[n].pos) \in Nat /\ Item(n).seq \in Nat /\ Item(n).seq <= seq /\ Item(n).seq + 1 \in Seqs
           /\ task[n].pos + 1 <= MaxOutput + MaxResyncs
           /\ task[n].pos + 1 + seq <= Len(log) + Item(n).seq
<1>1. n \in Live /\ task[n].phase = "Run" /\ task[n].pos < Len(log)
  BY DEF Reads, Running, Live
<1>2. PICK p \in Nat : p = task[n].pos
  BY <1>1, AtPump
<1>3. PICK l \in Nat : l = Len(log)
  BY LogFacts DEF Inv
<1>4. p + 1 \in 1 .. l /\ p + 1 \in 0 .. l /\ p \in 0 .. l /\ p + 1 # 0 /\ (p + 1) - 1 = p
  BY <1>1, <1>2, <1>3
<1>5. PICK k \in Nat : k = p + 1
  OBVIOUS
<1>6. log[k] \in BroadcastItem /\ log[k].seq = At(p) + (IF log[k].kind = "Live" THEN 1 ELSE 0)
  BY <1>3, <1>4, <1>5, LogFacts DEF Inv, LogOK
<1>7. At(k) = log[k].seq
  BY <1>4, <1>5 DEF At
<1>8. At(p) \in Nat /\ At(k) \in Nat /\ At(k) <= seq /\ seq \in Nat /\ k + seq <= l + At(k) /\ l <= MaxOutput + MaxResyncs
  BY <1>3, <1>4, <1>5, LogFacts DEF Inv
<1>9. Item(n) = log[k]
  BY <1>2, <1>5 DEF Item
<1>10. At(k) + 1 \in Seqs /\ k <= MaxOutput + MaxResyncs
  <2>1. seq <= MaxOutput /\ MaxOutput \in Nat
    BY StreamsAssumption DEF Inv, LogOK
  <2>2. MaxResyncs \in Nat /\ Seqs = 0 .. MaxOutput + 1
    BY StreamsAssumption DEF Seqs
  <2>3. k <= l
    BY <1>4, <1>5
  <2> QED
    BY <1>8, <2>1, <2>2, <2>3
<1> QED
  BY <1>1, <1>2, <1>3, <1>4, <1>5, <1>6, <1>7, <1>8, <1>9, <1>10

(* A pump that reads output either skips it as shown by its cut already, or  *)
(* forwards exactly the sequence after the last it forwarded.                *)
\* PumpGeneration::forwards, note_forwarded.
LEMMA ForwardMoves ==
    ASSUME Inv, NEW n \in Commands, PumpForwards(n)
    PROVE  \E t :
              /\ PumpMoves(n, t) /\ task[n].phase = "Run" /\ t.phase = "Run" /\ t.gen.id = task[n].gen.id
              /\ \/ t.gen = task[n].gen /\ UNCHANGED clientVars
                 \/ /\ t.gen.last = task[n].gen.last + 1 /\ t.gen.last <= seq
                    /\ t.gen.last > 0 /\ t.gen.last + 1 \in Seqs
                    /\ OutputFrame(Gen(n), t.gen.last)
<1>1. Reads(n) /\ Item(n).kind = "Live"
  BY DEF PumpForwards
<1>2. PICK p, q, g, o : p = task[n].pos /\ q = p + 1 /\ g = task[n].gen /\ o = task[n]
  OBVIOUS
<1>3. PICK s : s = Item(n).seq
  OBVIOUS
<1>4. /\ n \in Live /\ o.phase = "Run" /\ q \in 1 .. Len(log) /\ At(q) = s /\ s = At(p) + 1 /\ At(p) \in Nat
      /\ s \in Nat /\ s <= seq /\ s + 1 \in Seqs /\ q <= MaxOutput + MaxResyncs
  BY <1>1, <1>2, <1>3, ReadItem
<1>5. /\ o \in Tasks /\ g \in Generation(Seqs, BootIds) /\ p \in Nat /\ PumpOK(o) /\ g.id + At(p) <= sent + p
      /\ g = o.gen /\ p = o.pos
  BY <1>2, <1>4, AtPump
<1>6. /\ seq \in Nat /\ g.cut \in Nat /\ g.last \in Nat /\ g.id \in Nat /\ s \in Seqs /\ sent \in Nat
  <2>1. Seqs = 0 .. MaxOutput + 1 /\ BootIds \subseteq Nat /\ MaxOutput \in Nat
    BY StreamsAssumption DEF Seqs, BootIds
  <2>2. seq \in Nat /\ sent \in Nat
    BY LogFacts, StreamsAssumption DEF Inv, TypeOK
  <2>3. g.cut \in Seqs /\ g.last \in Seqs /\ g.id \in BootIds
    BY <1>5 DEF Generation
  <2>4. s \in Seqs
    BY <1>4, <2>1
  <2> QED
    BY <2>2, <2>3, <2>4, Numbers
<1>7. g.active /\ ~g.gap /\ g.last = IF At(p) > g.cut THEN At(p) ELSE g.cut
  BY <1>4, <1>5 DEF PumpOK
<1>8. g.cut <= seq
  BY <1>4, <1>5 DEF PumpOK
<1>9. UNCHANGED <<native, pane, counter, entry, attached, usedIds, paneVars, cmd, sent, others, closed>>
  BY DEF PumpForwards
<1>10. Forwards(g, s) <=> s > g.cut
  BY <1>7 DEF Forwards
<1>11. CASE s > g.cut
  <2>1. PICK h : h = [g EXCEPT !.last = s]
    OBVIOUS
  <2>2. h \in Generation(Seqs, BootIds) /\ h.last = s /\ h.cut = g.cut /\ h.id = g.id /\ h.active /\ ~h.gap
    BY <1>5, <1>6, <1>7, <2>1 DEF Generation
  <2>3. PICK t : t = [o EXCEPT !.pos = q, !.gen = h]
    OBVIOUS
  <2>4. /\ t \in Tasks /\ t.kind = o.kind /\ t.stream = o.stream /\ t.pos = q /\ t.gen = h /\ t.phase = "Run"
    <3>1. q \in 0 .. MaxOutput + MaxResyncs
      BY <1>4
    <3> QED
      BY <1>4, <1>5, <2>2, <2>3, <3>1 DEF Tasks, PumpTask
  <2>5. task' = [task EXCEPT ![n] = t] /\ OutputFrame(Gen(n), s)
    <3>1. task' = [task EXCEPT ![n].pos = @ + 1, ![n].gen = NoteForwarded(@, Item(n).seq)] /\ OutputFrame(Gen(n), s)
      BY <1>2, <1>3, <1>10, <1>11 DEF PumpForwards
    <3> QED
      BY <1>2, <1>3, <2>1, <2>3, <3>1 DEF NoteForwarded
  <2>6. g.last + 1 = s /\ s > 0
    BY <1>4, <1>6, <1>7, <1>11
  <2>7. PumpOK(t)
    BY <1>4, <1>6, <1>8, <1>11, <2>2, <2>4 DEF PumpOK
  <2>8. t.gen.id + At(t.pos) <= sent + t.pos
    <3>1. PICK a, i, b : a = At(p) /\ i = g.id /\ b = sent
      OBVIOUS
    <3>2. i + (a + 1) <= b + (p + 1)
      <4>1. i + a <= b + p /\ i \in Nat /\ a \in Nat /\ b \in Nat /\ p \in Nat
        BY <1>4, <1>5, <1>6, <3>1
      <4> QED
        BY <4>1
    <3>3. t.gen.id = i /\ At(t.pos) = a + 1 /\ t.pos = p + 1
      BY <1>2, <1>4, <2>2, <2>4, <3>1
    <3> QED
      BY <3>1, <3>2, <3>3
  <2>9. PumpMoves(n, t)
    BY <1>2, <1>4, <1>9, <2>4, <2>5, <2>7, <2>8 DEF PumpMoves
  <2> QED
    BY <1>2, <1>4, <2>2, <2>4, <2>5, <2>6, <2>9
<1>12. CASE ~(s > g.cut)
  <2>1. PICK t : t = [o EXCEPT !.pos = q]
    OBVIOUS
  <2>2. /\ t \in Tasks /\ t.kind = o.kind /\ t.stream = o.stream /\ t.pos = q /\ t.gen = g /\ t.phase = "Run"
    <3>1. q \in 0 .. MaxOutput + MaxResyncs
      BY <1>4
    <3> QED
      BY <1>4, <1>5, <2>1, <3>1 DEF Tasks, PumpTask
  <2>3. task' = [task EXCEPT ![n] = t] /\ UNCHANGED clientVars
    <3>1. task' = [task EXCEPT ![n].pos = @ + 1] /\ UNCHANGED clientVars
      BY <1>2, <1>3, <1>10, <1>12 DEF PumpForwards
    <3> QED
      BY <1>2, <2>1, <3>1
  <2>4. PumpOK(t)
    BY <1>4, <1>6, <1>7, <1>8, <1>12, <2>2 DEF PumpOK
  <2>5. t.gen.id + At(t.pos) <= sent + t.pos
    <3>1. PICK a, i, b : a = At(p) /\ i = g.id /\ b = sent
      OBVIOUS
    <3>2. i + (a + 1) <= b + (p + 1)
      <4>1. i + a <= b + p /\ i \in Nat /\ a \in Nat /\ b \in Nat /\ p \in Nat
        BY <1>4, <1>5, <1>6, <3>1
      <4> QED
        BY <4>1
    <3>3. t.gen.id = i /\ At(t.pos) = a + 1 /\ t.pos = p + 1
      BY <1>2, <1>4, <2>2, <3>1
    <3> QED
      BY <3>1, <3>2, <3>3
  <2>6. PumpMoves(n, t)
    BY <1>2, <1>4, <1>9, <2>2, <2>3, <2>4, <2>5 DEF PumpMoves
  <2> QED
    BY <1>2, <1>4, <2>2, <2>3, <2>6
<1> QED
  BY <1>11, <1>12

(* A resync that was broadcast before the receiver was handed over moves the *)
(* pump's position and nothing else.                                         *)
\* activate_native_publication.
LEMMA MissMoves ==
    ASSUME Inv, NEW n \in Commands, PumpMissesResync(n)
    PROVE  \E t : /\ PumpMoves(n, t) /\ task[n].phase = "Run" /\ t.phase = "Run" /\ t.gen = task[n].gen
                  /\ UNCHANGED clientVars
<1>1. Reads(n) /\ Item(n).kind = "Resync"
  BY DEF PumpMissesResync
<1>2. PICK p, q, g, o : p = task[n].pos /\ q = p + 1 /\ g = task[n].gen /\ o = task[n]
  OBVIOUS
<1>3. /\ n \in Live /\ o.phase = "Run" /\ q \in 1 .. Len(log) /\ At(q) = At(p) /\ At(p) \in Nat
      /\ q <= MaxOutput + MaxResyncs
  BY <1>1, <1>2, ReadItem
<1>4. /\ o \in Tasks /\ g \in Generation(Seqs, BootIds) /\ p \in Nat /\ PumpOK(o) /\ g.id + At(p) <= sent + p
      /\ g = o.gen /\ p = o.pos
  BY <1>2, <1>3, AtPump
<1>5. g.id \in Nat /\ sent \in Nat
  BY <1>4, StreamsAssumption DEF Generation, BootIds, Inv, TypeOK
<1>6. PICK t : t = [o EXCEPT !.pos = q]
  OBVIOUS
<1>7. /\ t \in Tasks /\ t.kind = o.kind /\ t.stream = o.stream /\ t.pos = q /\ t.gen = g /\ t.phase = "Run"
  <2>1. q \in 0 .. MaxOutput + MaxResyncs
    BY <1>3
  <2> QED
    BY <1>3, <1>4, <1>6, <2>1 DEF Tasks, PumpTask
<1>8. task' = [task EXCEPT ![n] = t] /\ UNCHANGED clientVars
  BY <1>2, <1>6 DEF PumpMissesResync
<1>9. PumpOK(t)
  BY <1>3, <1>4, <1>7 DEF PumpOK
<1>10. t.gen.id + At(t.pos) <= sent + t.pos
  <2>1. PICK a, i, b : a = At(p) /\ i = g.id /\ b = sent
    OBVIOUS
  <2>2. i + a <= b + p /\ i \in Nat /\ a \in Nat /\ b \in Nat /\ p \in Nat
    BY <1>3, <1>4, <1>5, <2>1
  <2>3. t.gen.id = i /\ At(t.pos) = a /\ t.pos = p + 1
    BY <1>2, <1>3, <1>7, <2>1
  <2>4. i + a <= b + (p + 1)
    BY <2>2
  <2> QED
    BY <2>1, <2>3, <2>4
<1>11. PumpMoves(n, t)
  BY <1>2, <1>3, <1>7, <1>8, <1>9, <1>10 DEF PumpMoves, PumpMissesResync
<1> QED
  BY <1>2, <1>3, <1>7, <1>8, <1>11

(* A pump that takes a resync goes to BEGIN with the next id; the sequence   *)
(* of the resync is the last it forwarded, or is older than its cut.         *)
\* republish_generation.
LEMMA ResyncMoves ==
    ASSUME Inv, NEW n \in Commands, PumpTakesResync(n)
    PROVE  \E t : /\ PumpMoves(n, t) /\ task[n].phase = "Run" /\ t.phase = "Begin"
                  /\ IF native THEN TombstoneFrame(Gen(n)) ELSE UNCHANGED clientVars
                  /\ t.base < task[n].gen.cut \/ t.base = task[n].gen.last
<1>1. Reads(n) /\ Item(n).kind = "Resync"
  BY DEF PumpTakesResync
<1>2. PICK p, q, g, o : p = task[n].pos /\ q = p + 1 /\ g = task[n].gen /\ o = task[n]
  OBVIOUS
<1>3. PICK s : s = Item(n).seq
  OBVIOUS
<1>4. /\ n \in Live /\ o.phase = "Run" /\ q \in 1 .. Len(log) /\ At(q) = s /\ s = At(p) /\ At(p) \in Nat
      /\ s <= seq /\ s + 1 \in Seqs /\ q <= MaxOutput + MaxResyncs /\ q + seq <= Len(log) + s
  BY <1>1, <1>2, <1>3, ReadItem
<1>5. /\ o \in Tasks /\ g \in Generation(Seqs, BootIds) /\ p \in Nat /\ PumpOK(o) /\ g.id + At(p) <= sent + p
      /\ g = o.gen /\ p = o.pos
  BY <1>2, <1>4, AtPump
<1>6. PICK i \in Nat : i = g.id
  BY <1>5, Numbers DEF Generation
<1>7. PICK b \in Nat : b = sent /\ b <= MaxCommands
  BY StreamsAssumption DEF Inv, TypeOK
<1>8. PICK l \in Nat, z \in Nat : l = Len(log) /\ z = seq
  BY LogFacts DEF Inv
<1>9. l <= z + MaxResyncs
  BY <1>8 DEF Inv, LogOK
<1>10. i = g.id /\ b = sent /\ l = Len(log) /\ b <= MaxCommands /\ z = seq
  BY <1>6, <1>7, <1>8
<1>11. i + 1 + s <= b + q /\ b + q + z <= b + l + s /\ l <= z + MaxResyncs /\ s \in Nat /\ q \in Nat
  <2>1. i + s <= b + p /\ q = p + 1 /\ q + z <= l + s /\ s \in Nat /\ p \in Nat
    BY <1>2, <1>4, <1>5, <1>10
  <2> QED
    BY <1>9, <2>1
<1>12. i + 1 \in BootIds /\ s \in Seqs
  <2>1. seq \in Nat /\ MaxCommands \in Nat /\ MaxResyncs \in Nat /\ MaxOutput \in Nat
    BY LogFacts, StreamsAssumption DEF Inv
  <2>2. i + 1 <= MaxCommands + MaxResyncs + 1
    BY <1>7, <1>11, <2>1
  <2>3. i + 1 \in 1 .. MaxCommands + MaxResyncs + 1
    BY <1>10, <2>1, <2>2
  <2>4. s \in 0 .. MaxOutput + 1
    BY <1>4, <2>1 DEF Seqs
  <2> QED
    BY <2>3, <2>4 DEF BootIds, Seqs
<1>13. PICK j, h : j = i + 1 /\ h = [g EXCEPT !.id = j]
  OBVIOUS
<1>14. h \in Generation(Seqs, BootIds) /\ h.id = j /\ h.cut = g.cut /\ h.last = g.last /\ h.active = g.active /\ h.gap = g.gap
  BY <1>5, <1>12, <1>13 DEF Generation
<1>15. PICK t : t = [o EXCEPT !.pos = q, !.phase = "Begin", !.base = s, !.gen = h]
  OBVIOUS
<1>16. /\ t \in Tasks /\ t.kind = o.kind /\ t.stream = o.stream /\ t.pos = q /\ t.gen = h /\ t.phase = "Begin"
       /\ t.base = s
  <2>1. q \in 0 .. MaxOutput + MaxResyncs
    BY <1>4
  <2> QED
    BY <1>4, <1>5, <1>12, <1>14, <1>15, <2>1 DEF Tasks, PumpTask
<1>17. task' = [task EXCEPT ![n] = t]
  <2>1. task' = [task EXCEPT ![n].pos = @ + 1, ![n].phase = "Begin", ![n].base = Item(n).seq,
                             ![n].gen = SetBootstrapId(@, @.id + 1)]
    BY DEF PumpTakesResync
  <2> QED
    BY <1>2, <1>3, <1>10, <1>13, <1>15, <2>1 DEF SetBootstrapId
<1>18. PumpOK(t)
  BY <1>4, <1>5, <1>14, <1>16 DEF PumpOK
<1>19. t.gen.id + At(t.pos) <= sent + t.pos
  <2>1. t.gen.id = i + 1 /\ At(t.pos) = s /\ t.pos = q /\ sent = b
    BY <1>4, <1>10, <1>13, <1>14, <1>16
  <2> QED
    BY <1>11, <2>1
<1>20. PumpMoves(n, t)
  BY <1>2, <1>4, <1>16, <1>17, <1>18, <1>19 DEF PumpMoves, PumpTakesResync
<1>21. s < g.cut \/ s = g.last
  <2>1. g.last = IF At(p) > g.cut THEN At(p) ELSE g.cut
    BY <1>4, <1>5 DEF PumpOK
  <2>2. g.cut \in Nat
    BY <1>5, Numbers DEF Generation
  <2> QED
    BY <1>4, <2>1, <2>2
<1> QED
  BY <1>2, <1>4, <1>16, <1>20, <1>21 DEF PumpTakesResync

(* A pump's BEGIN names the generation it counted on to, at the sequence of  *)
(* the checkpoint or of the resync.                                          *)
\* republish_generation, BOOTSTRAP_BEGIN.
LEMMA BeginMoves ==
    ASSUME Inv, NEW n \in Commands, PumpBegins(n)
    PROVE  \E t : /\ PumpMoves(n, t) /\ task[n].phase = "Begin" /\ t.phase = "Ready" /\ t.gen = task[n].gen
                  /\ BeginFrame(Gen(n), t.base)
                  /\ t.base = IF native THEN seq ELSE task[n].base
<1>1. n \in Live /\ task[n].phase = "Begin"
  BY DEF PumpBegins
<1>2. PICK g, o : g = task[n].gen /\ o = task[n]
  OBVIOUS
<1>3. /\ o \in Tasks /\ g = o.gen /\ PumpOK(o) /\ o.pos <= Len(log) /\ o.pos \in Nat /\ o.base \in Seqs
      /\ o.gen.id + At(o.pos) <= sent + o.pos
  BY <1>1, <1>2, AtPump
<1>4. PICK b : b = IF native THEN seq ELSE o.base
  OBVIOUS
<1>5. b \in Seqs /\ At(o.pos) <= b /\ b <= seq
  <2>1. o.pos \in 0 .. Len(log)
    BY <1>3, LogFacts DEF Inv
  <2>2. At(o.pos) <= seq /\ At(o.pos) \in Nat /\ seq \in Seqs /\ seq \in Nat
    BY <2>1, LogFacts DEF Inv
  <2>3. o.base = At(o.pos)
    BY <1>1, <1>2, <1>3 DEF PumpOK
  <2> QED
    BY <1>3, <1>4, <2>2, <2>3
<1>6. PICK t : t = [o EXCEPT !.phase = "Ready", !.base = b]
  OBVIOUS
<1>7. /\ t \in Tasks /\ t.kind = o.kind /\ t.stream = o.stream /\ t.pos = o.pos /\ t.gen = g /\ t.phase = "Ready"
      /\ t.base = b
  BY <1>2, <1>3, <1>5, <1>6 DEF Tasks, PumpTask
<1>8. task' = [task EXCEPT ![n] = t] /\ BeginFrame(Gen(n), b)
  BY <1>2, <1>4, <1>6 DEF PumpBegins
<1>9. PumpOK(t)
  BY <1>3, <1>5, <1>7 DEF PumpOK
<1>10. PumpMoves(n, t)
  BY <1>1, <1>2, <1>3, <1>7, <1>8, <1>9 DEF PumpMoves, PumpBegins
<1> QED
  BY <1>1, <1>2, <1>4, <1>7, <1>8, <1>10

(* After its READY a pump runs from the base it published.                   *)
\* republish_generation, BOOTSTRAP_READY.
LEMMA ReadyMoves ==
    ASSUME Inv, NEW n \in Commands, PumpReadies(n)
    PROVE  \E t : /\ PumpMoves(n, t) /\ task[n].phase = "Ready" /\ t.phase = "Run" /\ t.gen.id = task[n].gen.id
                  /\ ReadyFrame(Gen(n))
                  /\ t.gen.last = task[n].base
<1>1. n \in Live /\ task[n].phase = "Ready"
  BY DEF PumpReadies
<1>2. PICK g, o, b : g = task[n].gen /\ o = task[n] /\ b = task[n].base
  OBVIOUS
<1>3. /\ o \in Tasks /\ g = o.gen /\ b = o.base /\ PumpOK(o) /\ o.pos <= Len(log) /\ o.pos \in Nat /\ b \in Seqs
      /\ o.live \in 0 .. MaxOutput + MaxResyncs
      /\ g.id + At(o.pos) <= sent + o.pos /\ g \in Generation(Seqs, BootIds)
  BY <1>1, <1>2, AtPump
<1>4. PICK h, l : l = LiveFrom(o) /\ h = [g EXCEPT !.cut = b, !.last = b, !.active = TRUE, !.gap = FALSE, !.attempts = 0]
  OBVIOUS
<1>5. /\ h \in Generation(Seqs, BootIds) /\ h.id = g.id /\ h.cut = b /\ h.last = b /\ h.active /\ ~h.gap
  <2>1. 0 \in 0 .. GapBudget
    BY GapBudgetAssumption
  <2> QED
    BY <1>3, <1>4, <2>1 DEF Generation
<1>6. l \in 0 .. MaxOutput + MaxResyncs
  <2>1. Len(log) \in 0 .. MaxOutput + MaxResyncs
    BY LogFacts DEF Inv
  <2> QED
    BY <1>3, <1>4, <2>1 DEF LiveFrom
<1>7. PICK t : t = [o EXCEPT !.phase = "Run", !.live = l, !.gen = h]
  OBVIOUS
<1>8. /\ t \in Tasks /\ t.kind = o.kind /\ t.stream = o.stream /\ t.pos = o.pos /\ t.gen = h /\ t.phase = "Run"
  BY <1>3, <1>5, <1>6, <1>7 DEF Tasks, PumpTask
<1>9. task' = [task EXCEPT ![n] = t] /\ ReadyFrame(Gen(n))
  BY <1>2, <1>4, <1>7 DEF PumpReadies, RepublishedAt
<1>10. PumpOK(t)
  <2>1. At(o.pos) <= b /\ b <= seq
    BY <1>1, <1>2, <1>3 DEF PumpOK
  <2>2. At(o.pos) \in Nat /\ b \in Nat /\ seq \in Nat
    <3>1. o.pos \in 0 .. Len(log)
      BY <1>3, LogFacts DEF Inv
    <3> QED
      BY <1>3, <3>1, LogFacts, Numbers DEF Inv
  <2>3. b = IF At(o.pos) > b THEN At(o.pos) ELSE b
    BY <2>1, <2>2
  <2> QED
    BY <1>3, <1>5, <1>8, <2>1, <2>3 DEF PumpOK
<1>11. PumpMoves(n, t)
  BY <1>1, <1>2, <1>3, <1>5, <1>8, <1>9, <1>10 DEF PumpMoves, PumpReadies
<1> QED
  BY <1>1, <1>2, <1>5, <1>8, <1>9, <1>11

-----------------------------------------------------------------------------
(* The invariant's parts, and what commands and pumps are made of.           *)

(* The parts of the invariant, with the types its use needs.                 *)
\* All of the connection's state.
LEMMA Unfolded ==
    ASSUME Inv
    PROVE  /\ TypeOK /\ LogOK /\ TableOK /\ CommandOK /\ OnlyAttachLeavesAPump
           /\ CountOK /\ BegunOK /\ PositionOK /\ SpeakersOK /\ StreamOK
           /\ sent \in Nat /\ sent <= MaxCommands /\ MaxCommands \in Nat
           /\ task \in [Commands -> Tasks \cup {None}] /\ DOMAIN task = Commands
           /\ KernelType(mirror, staging) /\ begins \in Seq(Gens)
<1>1. sent \in Nat /\ sent <= MaxCommands /\ MaxCommands \in Nat
  BY StreamsAssumption DEF Inv, TypeOK
<1>2. KernelType(mirror, staging) /\ begins \in Seq(Gens)
  BY DEF Inv, TypeOK, KernelType
<1>3. task \in [Commands -> Tasks \cup {None}] /\ DOMAIN task = Commands
  BY DEF Inv, TypeOK
<1> QED
  BY <1>1, <1>2, <1>3 DEF Inv

(* A command being handled is a detach, or has a pump with a stream and an   *)
(* id.                                                                       *)
\* handle_attach, bootstrap_attach_terminal, SpawnPublication::publish, detach_on_request.
LEMMA CommandFacts ==
    ASSUME Inv, cmd # None
    PROVE  \/ cmd.kind = "Detach" /\ cmd.step = "Detached" /\ ~Building
           \/ /\ cmd.kind \in {"Attach", "AttachResource", "Spawn"}
              /\ cmd.step \in {"Tombstone", "Capture", "Begin", "Ready"}
              /\ cmd.pump \in Tasks /\ cmd.prior \in BootIds \cup {None} /\ cmd.reattach \in BOOLEAN
              /\ cmd.pump.stream \in Streams /\ cmd.pump.gen \in Generation(Seqs, BootIds)
              /\ cmd.pump.gen.id \in BootIds /\ cmd.pump.gen.cut \in Seqs /\ CommandGen \in Gens
              /\ cmd.pump.pos \in Nat /\ cmd.pump.live \in 0 .. MaxOutput + MaxResyncs
<1>1. cmd \in Command(Tasks, BootIds)
  BY DEF Inv, TypeOK
<1>2. PICK T, B : T = Tasks /\ B = BootIds
  OBVIOUS
<1>3. cmd \in Command(T, B)
  BY <1>1, <1>2
<1>4. \/ cmd.kind = "Detach" /\ cmd.step = "Detached"
      \/ /\ cmd.kind \in {"Attach", "AttachResource", "Spawn"}
         /\ cmd.step \in {"Tombstone", "Capture", "Begin", "Ready"}
         /\ cmd.pump \in T /\ cmd.prior \in B \cup {None} /\ cmd.reattach \in BOOLEAN
  BY <1>3 DEF Command
<1>5. ASSUME NEW t \in Tasks
      PROVE  /\ t.stream \in Streams /\ t.gen \in Generation(Seqs, BootIds) /\ t.gen.id \in BootIds
             /\ t.gen.cut \in Seqs /\ t.pos \in Nat /\ t.live \in 0 .. MaxOutput + MaxResyncs
  <2>1. /\ t.stream \in Streams /\ t.gen \in Generation(Seqs, BootIds)
        /\ t.pos \in 0 .. MaxOutput + MaxResyncs /\ t.live \in 0 .. MaxOutput + MaxResyncs
    BY DEF Tasks, PumpTask
  <2>2. t.gen.id \in BootIds /\ t.gen.cut \in Seqs
    BY <2>1 DEF Generation
  <2> QED
    BY <2>1, <2>2
<1> QED
  BY <1>2, <1>4, <1>5 DEF CommandGen, Gens, Building

(* A command with well-typed fields is a command.                            *)
\* The state of a handler between two awaits.
LEMMA NewCommand ==
    ASSUME NEW k \in {"Attach", "AttachResource", "Spawn"}, NEW s \in {"Tombstone", "Capture", "Begin", "Ready"},
           NEW p \in BootIds \cup {None}, NEW t \in Tasks, NEW r \in BOOLEAN,
           NEW c, c = [kind |-> k, step |-> s, prior |-> p, pump |-> t, reattach |-> r]
    PROVE  c \in Command(Tasks, BootIds) /\ c # None
<1>1. PICK T, B : T = Tasks /\ B = BootIds
  OBVIOUS
<1>2. c \in Command(T, B)
  BY <1>1 DEF Command
<1> QED
  BY <1>1, <1>2, SomeCommand

(* The pump a command builds is parked at the end of the broadcast, with its *)
(* cut still to be fixed.                                                    *)
\* OutputPumpStart.
LEMMA NewPump ==
    ASSUME Inv, NEW k \in {"Attach", "AttachResource", "Spawn"}, NEW s \in Streams, NEW i \in BootIds,
           NEW t, t = Pump(k, s, i)
    PROVE  /\ t \in Tasks /\ t # None /\ t.kind = k /\ t.stream = s /\ t.gen = OpenedAt(0, i) /\ t.gen.id = i
           /\ t.gen.cut = 0 /\ t.pos = Len(log) /\ t.phase = "Parked"
<1>1. PICK p : p = Len(log)
  OBVIOUS
<1>2. p \in 0 .. MaxOutput + MaxResyncs /\ 0 \in 0 .. MaxOutput + MaxResyncs /\ 0 \in Seqs
  BY <1>1, LogFacts, StreamsAssumption DEF Inv, Seqs
<1>3. PICK g : g = OpenedAt(0, i)
  OBVIOUS
<1>4. g \in Generation(Seqs, BootIds) /\ g.id = i /\ g.cut = 0
  <2>1. 0 \in 0 .. GapBudget
    BY GapBudgetAssumption
  <2> QED
    BY <1>2, <1>3, <2>1 DEF Generation, OpenedAt
<1>5. t = [kind |-> k, stream |-> s, gen |-> g, pos |-> p, live |-> 0, phase |-> "Parked", base |-> 0]
  BY <1>1, <1>3 DEF Pump
<1>6. t \in Tasks
  BY <1>2, <1>4, <1>5 DEF Tasks, PumpTask
<1> QED
  BY <1>1, <1>3, <1>4, <1>5, <1>6, SomePump

(* What the history variables record of a step: once two tasks could speak   *)
(* it is never forgotten, and a fence ends with the next command.            *)
\* The history variables.
LEMMA WitnessFacts ==
    ASSUME Inv, Witness, cmd' # None => sent' \in Commands
    PROVE  /\ twoSpeakers' \in BOOLEAN /\ quiet' \in BOOLEAN /\ rewound' \in BOOLEAN
           /\ SpeakersOK'
           /\ (twoSpeakers => twoSpeakers') /\ (rewound => rewound')
           /\ quiet' => IF sent' # sent THEN cmd' = None
                        ELSE quiet \/ (cmd # None /\ cmd.kind = "Detach" /\ cmd' = None)
<1>1. Speakers(task', cmd', sent') \in SUBSET Commands
  BY DEF Speakers, Running
<1>2. Speakers(task, cmd, sent)' = Speakers(task', cmd', sent')
  BY DEF Speakers, Running
<1>3. SpeakersOK'
  BY <1>1, <1>2, AtMostOne DEF Witness, SpeakersOK
<1>4. twoSpeakers' \in BOOLEAN /\ rewound' \in BOOLEAN
  BY Zenon DEF Witness
<1>5. quiet' \in BOOLEAN
  <2>1. CASE sent' # sent
    BY <2>1, Zenon DEF Witness
  <2>2. CASE sent' = sent
    BY <2>2, Zenon DEF Witness
  <2> QED
    BY <2>1, <2>2
<1> QED
  BY <1>3, <1>4, <1>5 DEF Witness

-----------------------------------------------------------------------------
(* Steps of the pane and of the pumps keep the invariant.                    *)

\* A step after which the pane has broadcast at least what it had.
Broadcasts ==
    /\ LogOK' /\ log' \in Seq(BroadcastItem) /\ seq' \in Seqs /\ seq <= seq'
    /\ Len(log') \in Nat /\ Len(log) <= Len(log') /\ \A i \in 0 .. Len(log) : At(i)' = At(i)

(* A step that broadcasts nothing leaves the broadcast as it was.            *)
\* Every step but the pane's.
LEMMA SameLog ==
    ASSUME Inv, UNCHANGED paneVars
    PROVE  Broadcasts
<1>1. log' = log /\ seq' = seq
  BY DEF paneVars
<1>2. LogOK /\ log \in Seq(BroadcastItem) /\ seq \in Seqs /\ seq \in Nat /\ Len(log) \in Nat
  BY LogFacts DEF Inv
<1>3. LogOK' /\ \A i \in 0 .. Len(log) : At(i)' = At(i)
  BY <1>1, <1>2 DEF LogOK, At
<1> QED
  BY <1>1, <1>2, <1>3 DEF Broadcasts

(* More output leaves a pump where it is, on the same prefix of the          *)
(* broadcast.                                                                *)
\* A receiver's position in the broadcast channel.
LEMMA SamePump ==
    ASSUME Inv, Broadcasts, NEW t \in Tasks, PumpOK(t)
    PROVE  /\ At(t.pos)' = At(t.pos) /\ At(t.pos) \in Nat /\ t.pos <= Len(log') /\ t.pos \in Nat
           /\ t.phase = "Run" => /\ t.gen.cut <= seq'
                                 /\ t.gen.last = IF At(t.pos)' > t.gen.cut THEN At(t.pos)' ELSE t.gen.cut
           /\ t.phase = "Begin" => t.base = At(t.pos)'
           /\ t.phase = "Ready" => At(t.pos)' <= t.base /\ t.base <= seq'
           /\ t.gen.active /\ ~t.gen.gap
<1>1. t.pos \in Nat /\ t.base \in Nat /\ t.gen.cut \in Nat
  <2>1. t.pos \in 0 .. MaxOutput + MaxResyncs /\ t.base \in Seqs /\ t.gen \in Generation(Seqs, BootIds)
    BY DEF Tasks, PumpTask
  <2>2. t.gen.cut \in Seqs
    BY <2>1 DEF Generation
  <2>3. t.pos \in Nat
    BY <2>1, StreamsAssumption
  <2> QED
    BY <2>1, <2>2, <2>3, Numbers
<1>2. Len(log) \in Nat /\ seq \in Nat /\ seq' \in Nat /\ seq <= seq' /\ Len(log') \in Nat /\ Len(log) <= Len(log')
  BY LogFacts, Numbers DEF Inv, Broadcasts
<1>3. PICK p, a : p = t.pos /\ a = At(p)
  OBVIOUS
<1>4. p \in 0 .. Len(log) /\ p <= Len(log)
  BY <1>1, <1>2, <1>3 DEF PumpOK
<1>5. At(p)' = a /\ a \in Nat
  BY <1>3, <1>4, LogFacts DEF Inv, Broadcasts
<1>6. /\ t.phase = "Run" => t.gen.cut <= seq /\ t.gen.last = IF a > t.gen.cut THEN a ELSE t.gen.cut
      /\ t.phase = "Begin" => t.base = a
      /\ t.phase = "Ready" => a <= t.base /\ t.base <= seq
      /\ t.gen.active /\ ~t.gen.gap
  BY <1>3 DEF PumpOK
<1>7. t.pos <= Len(log') /\ (t.gen.cut <= seq => t.gen.cut <= seq') /\ (t.base <= seq => t.base <= seq')
  BY <1>1, <1>2, <1>3, <1>4
<1> QED
  BY <1>1, <1>3, <1>5, <1>6, <1>7

(* A step of the pane, or of another connection, keeps the invariant: no     *)
(* command, pump or replica is touched by it.                                *)
\* The pane actor's broadcast.
LEMMA IdleStep ==
    ASSUME Inv, Open, Broadcasts, others' \in BOOLEAN, Witness,
           UNCHANGED <<serverVars, cmd, sent, clientVars, closed>>
    PROVE  Inv'
<1>1. /\ native' = native /\ pane' = pane /\ counter' = counter /\ entry' = entry /\ task' = task
      /\ attached' = attached /\ usedIds' = usedIds /\ cmd' = cmd /\ sent' = sent
      /\ mirror' = mirror /\ staging' = staging /\ begins' = begins /\ closed' = closed
  BY DEF serverVars, clientVars
<1>2. Live' = Live /\ Running(task') = Running(task) /\ Building' = Building /\ Begun' = Begun
  BY <1>1 DEF Live, Running, Building, Begun
<1>3. /\ twoSpeakers' \in BOOLEAN /\ quiet' \in BOOLEAN /\ rewound' \in BOOLEAN /\ SpeakersOK'
      /\ (twoSpeakers => twoSpeakers') /\ (rewound => rewound') /\ (quiet' => quiet)
  <2>1. cmd # None => sent \in Commands
    BY Unfolded DEF CommandOK, Commands, Open
  <2> QED
    BY <1>1, <2>1, WitnessFacts
<1>4. TypeOK'
  <2>1. log' \in Seq([kind: {"Live", "Resync"}, seq: Seqs]) /\ seq' \in Seqs
    BY DEF Broadcasts, BroadcastItem
  <2> QED
    BY <1>1, <1>3, <2>1, Unfolded DEF TypeOK
<1>5. LogOK' /\ TableOK' /\ CommandOK' /\ OnlyAttachLeavesAPump'
  <2>1. LogOK'
    BY DEF Broadcasts
  <2>2. TableOK'
    BY <1>1, <1>2, <1>3, Unfolded DEF TableOK
  <2>3. CommandOK'
    BY <1>1, <1>2, Unfolded DEF CommandOK
  <2>4. OnlyAttachLeavesAPump'
    BY <1>1, <1>2, Unfolded DEF OnlyAttachLeavesAPump, Running
  <2> QED
    BY <2>1, <2>2, <2>3, <2>4
<1>6. ASSUME NEW n \in Live
      PROVE  PumpOK(task[n])' /\ (task[n].gen.id + At(task[n].pos) <= sent + task[n].pos)'
  <2>1. PICK t : t = task[n]
    OBVIOUS
  <2>2. t \in Tasks /\ PumpOK(t) /\ t.gen.id + At(t.pos) <= sent + t.pos
    BY <2>1, AtPump
  <2>3. PumpOK(t)' /\ At(t.pos)' = At(t.pos)
    BY <2>2, SamePump DEF PumpOK
  <2> QED
    BY <1>1, <2>1, <2>2, <2>3
<1>7. CountOK'
  BY <1>1, <1>2, <1>6, Unfolded DEF CountOK
<1>8. BegunOK'
  BY <1>1, <1>2, Unfolded DEF BegunOK, Gen, CommandGen
<1>9. PositionOK'
  <2>1. ASSUME cmd # None, cmd.kind # "Detach"
        PROVE  /\ (cmd.pump.pos <= Len(log))' /\ cmd.pump.gen = OpenedAt(cmd.pump.gen.cut, cmd.pump.gen.id)
               /\ cmd.step \in {"Begin", "Ready"} =>
                    (At(cmd.pump.pos) <= cmd.pump.gen.cut)' /\ (cmd.pump.gen.cut <= seq)'
    <3>1. PICK p, c : p = cmd.pump.pos /\ c = cmd.pump.gen.cut
      OBVIOUS
    <3>2. p \in Nat /\ c \in Nat /\ p <= Len(log) /\ cmd.pump.gen = OpenedAt(cmd.pump.gen.cut, cmd.pump.gen.id)
      BY <2>1, <3>1, CommandFacts, Unfolded, Numbers DEF PositionOK
    <3>3. cmd.step \in {"Begin", "Ready"} => At(p) <= c /\ c <= seq
      BY <2>1, <3>1, Unfolded DEF PositionOK
    <3>4. /\ Len(log) \in Nat /\ seq \in Nat /\ seq' \in Nat /\ seq <= seq' /\ Len(log') \in Nat
          /\ Len(log) <= Len(log')
      BY LogFacts, Numbers DEF Inv, Broadcasts
    <3>5. At(p)' = At(p)
      BY <3>2, <3>4 DEF Broadcasts
    <3>6. p <= Len(log') /\ (c <= seq => c <= seq')
      BY <3>2, <3>4
    <3> QED
      BY <1>1, <3>1, <3>2, <3>3, <3>5, <3>6
  <2> QED
    BY <1>1, <1>2, <1>6, <2>1 DEF PositionOK
<1>10. StreamOK'
  <2>1. SUFFICES ASSUME Sound' PROVE ReplicaOK' /\ (\A n \in Running(task)' : SpeakerOK(n)') /\ (closed \/ CommandSpeaksOK)'
    BY DEF StreamOK
  <2>2. Sound
    BY <1>1, <1>3, <2>1 DEF Sound, GenerationsAreFresh
  <2>3. ReplicaOK /\ (\A n \in Running(task) : SpeakerOK(n)) /\ (closed \/ CommandSpeaksOK)
    BY <2>2, Unfolded DEF StreamOK
  <2>4. ReplicaOK'
    <3>1. mirror.content \in Nat /\ seq \in Nat /\ seq' \in Nat /\ seq <= seq'
      BY LogFacts, Numbers, Unfolded DEF Inv, Broadcasts, KernelType, Mirror
    <3> QED
      BY <1>1, <2>3, <3>1 DEF ReplicaOK
  <2>5. ASSUME NEW n \in Running(task) PROVE SpeakerOK(n)'
    BY <1>1, <1>3, <2>3 DEF SpeakerOK, Gen, Staged
  <2>6. (closed \/ CommandSpeaksOK)'
    BY <1>1, <1>2, <2>3 DEF CommandSpeaksOK, CommandGen, Staged
  <2> QED
    BY <1>2, <2>4, <2>5, <2>6
<1> QED
  BY <1>3, <1>4, <1>5, <1>7, <1>8, <1>9, <1>10 DEF Inv

(* Positions and pumps mean the same as long as nothing is broadcast.        *)
\* A receiver's position in the broadcast channel.
LEMMA Still ==
    ASSUME UNCHANGED paneVars
    PROVE  /\ log' = log /\ seq' = seq /\ \A i : At(i)' = At(i)
           /\ \A t : PumpOK(t)' <=> PumpOK(t)
<1>1. log' = log /\ seq' = seq
  BY DEF paneVars
<1>2. \A i : At(i)' = At(i)
  BY <1>1 DEF At
<1> QED
  BY <1>1, <1>2 DEF PumpOK

\* What a step leaves of the client is well typed and names nothing that was
\* not begun.
ClientOK ==
    /\ KernelType(mirror', staging') /\ begins' \in Seq(Gens) /\ Begun \subseteq Begun'
    /\ mirror'.published \in Begun' \cup {None} /\ mirror'.retired \subseteq Begun' \cup {None}
    /\ \A st \in staging' : st.gen \in Begun'

(* A step of one pump keeps the invariant if it keeps its own type and       *)
(* position, speaks of a generation that was begun, and keeps the replica    *)
(* sound.                                                                    *)
\* The output pump task.
LEMMA PumpStepInv ==
    ASSUME Inv, Open, NEW n, NEW t, PumpMoves(n, t), Witness, ClientOK,
           t.phase \in {"Run", "Ready"} => <<t.stream, t.gen.id>> \in Begun',
           SpeakersOK' => StreamOK'
    PROVE  Inv'
<1>1. /\ native' = native /\ pane' = pane /\ counter' = counter /\ entry' = entry
      /\ attached' = attached /\ usedIds' = usedIds /\ cmd' = cmd /\ sent' = sent
      /\ closed' = closed /\ others' = others /\ log' = log /\ seq' = seq
  BY DEF PumpMoves, paneVars
<1>2. /\ n \in Live /\ n \in Commands /\ task[n] # None /\ task[n] \in Tasks /\ task[n].phase # "Parked"
      /\ t \in Tasks /\ t # None /\ t.phase # "Parked" /\ t.kind = task[n].kind /\ t.stream = task[n].stream
      /\ task' = [task EXCEPT ![n] = t] /\ task' \in [Commands -> Tasks \cup {None}]
      /\ PumpOK(t) /\ t.gen.id + At(t.pos) <= sent + t.pos
  <2>1. /\ n \in Live /\ task[n].phase # "Parked" /\ t \in Tasks /\ t.phase # "Parked" /\ t.kind = task[n].kind
        /\ t.stream = task[n].stream /\ task' = [task EXCEPT ![n] = t]
        /\ PumpOK(t) /\ t.gen.id + At(t.pos) <= sent + t.pos
    BY DEF PumpMoves
  <2> QED
    BY <2>1, SomePump, AtPump, Unfolded
<1>3. task'[n] = t /\ \A m \in Commands : m # n => task'[m] = task[m]
  BY <1>2, Unfolded
<1>4. /\ Live' = Live /\ Running(task') = Running(task) /\ Running(task)' = Running(task) /\ Building' = Building
      /\ n \in Running(task)
  BY <1>1, <1>2, <1>3 DEF Live, Running, Building
<1>5. /\ twoSpeakers' \in BOOLEAN /\ quiet' \in BOOLEAN /\ rewound' \in BOOLEAN /\ SpeakersOK'
      /\ (quiet' => quiet)
  <2>1. cmd # None => sent \in Commands
    BY Unfolded DEF CommandOK, Commands, Open
  <2> QED
    BY <1>1, <2>1, WitnessFacts
<1>6. TypeOK'
  BY <1>1, <1>2, <1>5, Unfolded DEF TypeOK, ClientOK, KernelType
<1>7. LogOK'
  BY SameLog DEF Broadcasts, PumpMoves
<1>8. TableOK'
  <2>1. task # NoTasks
    BY <1>2 DEF NoTasks
  <2>2. ~quiet /\ ~closed /\ pane # "Absent"
    BY <2>1, Unfolded DEF TableOK
  <2> QED
    BY <1>1, <1>2, <1>3, <1>4, <1>5, <2>2, Unfolded DEF TableOK
<1>9. CommandOK'
  <2>1. cmd # None /\ Building => n # sent
    BY <1>2, Unfolded DEF CommandOK, Open
  <2>2. cmd # None => cmd.step # "Tombstone" /\ sent \in Commands
    <3>1. task # NoTasks
      BY <1>2 DEF NoTasks
    <3> QED
      BY <3>1, Unfolded DEF CommandOK, Open, Commands
  <2> QED
    BY <1>1, <1>2, <1>3, <1>4, <2>1, <2>2, Unfolded DEF CommandOK
<1>10. OnlyAttachLeavesAPump'
  BY <1>2, <1>3, <1>4, Unfolded DEF OnlyAttachLeavesAPump, Running
<1>11. CountOK'
  <2>1. ASSUME NEW m \in Live PROVE (task[m].gen.id + At(task[m].pos) <= sent + task[m].pos)'
    <3>1. PICK u : u = task'[m]
      OBVIOUS
    <3>2. u.gen.id + At(u.pos) <= sent + u.pos
      BY <1>2, <1>3, <3>1, AtPump DEF Live
    <3>3. At(u.pos)' = At(u.pos)
      BY Still DEF PumpMoves
    <3> QED
      BY <1>1, <3>1, <3>2, <3>3
  <2> QED
    BY <1>1, <1>4, <2>1, Unfolded DEF CountOK
<1>12. BegunOK'
  <2>1. ASSUME NEW m \in Live, task'[m].phase \in {"Run", "Ready"} PROVE Gen(m)' \in Begun'
    <3>1. CASE m = n
      BY <1>2, <1>3, <2>1, <3>1 DEF Gen
    <3>2. CASE m # n
      BY <1>3, <2>1, <3>2, Unfolded DEF Gen, BegunOK, ClientOK, Live
    <3> QED
      BY <3>1, <3>2
  <2> QED
    BY <1>1, <1>4, <2>1, Unfolded DEF BegunOK, ClientOK, CommandGen
<1>13. PositionOK'
  <2>1. ASSUME NEW m \in Live PROVE PumpOK(task[m])'
    <3>1. PICK u : u = task'[m]
      OBVIOUS
    <3>2. PumpOK(u)
      BY <1>2, <1>3, <3>1, AtPump DEF Live
    <3>3. PumpOK(u)'
      BY <3>2, Still DEF PumpMoves
    <3> QED
      BY <3>1, <3>3
  <2>2. PICK p : p = cmd.pump.pos
    OBVIOUS
  <2>3. At(p)' = At(p)
    BY Still DEF PumpMoves
  <2> QED
    BY <1>1, <1>4, <2>1, <2>2, <2>3, Unfolded DEF PositionOK
<1> QED
  BY <1>5, <1>6, <1>7, <1>8, <1>9, <1>10, <1>11, <1>12, <1>13 DEF Inv

(* If no id was reused and one task spoke up to a step, that was so before   *)
(* it.                                                                       *)
\* next_bootstrap, stop_output.
LEMMA SoundBefore ==
    ASSUME Inv, Witness, cmd' # None => sent' \in Commands, Sound',
           \/ begins' = begins
           \/ \E g \in Gens : begins' = Append(begins, g)
    PROVE  Sound /\ ReplicaOK /\ (\A n \in Running(task) : SpeakerOK(n)) /\ (closed \/ CommandSpeaksOK)
<1>1. ~twoSpeakers
  BY WitnessFacts DEF Sound
<1>2. GenerationsAreFresh
  BY AppendBegins, Unfolded DEF Sound, GenerationsAreFresh
<1> QED
  BY <1>1, <1>2, Unfolded DEF Sound, StreamOK

(* While one task speaks, the running pump is alone, and no command is       *)
(* between its BEGIN and its READY.                                          *)
\* stop_output.
LEMMA OneSpeaker ==
    ASSUME Inv, Open, ~twoSpeakers, NEW n \in Running(task)
    PROVE  Running(task) = {n} /\ (cmd = None \/ cmd.step # "Ready")
<1>1. \A a, b \in Speakers(task, cmd, sent) : a = b
  BY Unfolded DEF SpeakersOK
<1>2. Running(task) = {n}
  BY <1>1 DEF Speakers
<1>3. cmd # None /\ cmd.step = "Ready" => n = sent
  BY <1>1 DEF Speakers
<1>4. cmd # None /\ cmd.step = "Ready" => task[sent].phase = "Parked"
  BY Unfolded DEF CommandOK, Open, Building
<1> QED
  BY <1>2, <1>3, <1>4 DEF Running

(* It is enough for the replica that the pump that took the step is in step  *)
(* with it: nobody else was speaking.                                        *)
\* The output pump task.
LEMMA PumpSpeaks ==
    ASSUME Inv, Open, NEW n, NEW t, PumpMoves(n, t), Witness,
           \/ begins' = begins
           \/ \E g \in Gens : begins' = Append(begins, g),
           Sound' /\ Sound /\ ReplicaOK /\ SpeakerOK(n) =>
              /\ ReplicaOK'
              /\ t.phase = "Run" => /\ mirror'.published = <<t.stream, t.gen.id>>
                                    /\ <<t.stream, t.gen.id>> \notin mirror'.retired
                                    /\ mirror'.content = t.gen.last
              /\ t.phase = "Ready" => /\ staging' = {[gen |-> <<t.stream, t.gen.id>>, base |-> t.base]}
                                      /\ <<t.stream, t.gen.id>> \notin mirror'.retired \cup {mirror'.published}
              /\ t.phase = "Ready" \/ (t.phase = "Begin" /\ ~native) => rewound' \/ mirror'.content <= t.base
    PROVE  StreamOK'
<1>1. SUFFICES ASSUME Sound'
               PROVE  ReplicaOK' /\ (\A m \in Running(task)' : SpeakerOK(m)') /\ (closed \/ CommandSpeaksOK)'
  BY DEF StreamOK
<1>2. /\ n \in Live /\ n \in Commands /\ task[n].phase # "Parked" /\ t \in Tasks /\ t # None /\ t.phase # "Parked"
      /\ task' = [task EXCEPT ![n] = t] /\ cmd' = cmd /\ sent' = sent /\ native' = native
  BY SomePump, AtPump DEF PumpMoves
<1>3. task'[n] = t /\ \A m \in Commands : m # n => task'[m] = task[m]
  BY <1>2, Unfolded
<1>4. n \in Running(task) /\ Running(task') = Running(task) /\ Running(task)' = Running(task)
  BY <1>2, <1>3 DEF Live, Running
<1>5. cmd # None => sent \in Commands
  BY Unfolded DEF CommandOK, Commands, Open
<1>6. Sound /\ ReplicaOK /\ SpeakerOK(n)
  BY <1>1, <1>2, <1>4, <1>5, SoundBefore
<1>7. Running(task) = {n} /\ (cmd = None \/ cmd.step # "Ready")
  BY <1>4, <1>6, OneSpeaker DEF Sound
<1>8. Gen(n)' = <<t.stream, t.gen.id>>
  BY <1>3 DEF Gen
<1>9. SpeakerOK(n)'
  BY <1>1, <1>2, <1>3, <1>6, <1>8 DEF SpeakerOK, Staged
<1>10. CommandSpeaksOK'
  BY <1>2, <1>4, <1>7 DEF CommandSpeaksOK
<1> QED
  BY <1>1, <1>4, <1>6, <1>7, <1>9, <1>10

(* A step that queues no frame leaves the client alone.                      *)
\* The client's mailbox.
LEMMA QuietFrame ==
    ASSUME Inv, UNCHANGED clientVars
    PROVE  ClientOK /\ mirror' = mirror /\ staging' = staging /\ begins' = begins /\ Begun' = Begun
<1>1. mirror' = mirror /\ staging' = staging /\ begins' = begins
  BY DEF clientVars
<1> QED
  BY <1>1, Unfolded DEF ClientOK, BegunOK, Begun

(* Forwarding output, or skipping output the cut already shows, keeps the    *)
(* invariant.                                                                *)
\* PumpGeneration::forwards.
LEMMA PumpForwardsInv ==
    ASSUME Inv, NEW n \in Commands, PumpForwards(n)
    PROVE  Inv'
<1>1. PICK t : /\ PumpMoves(n, t) /\ task[n].phase = "Run" /\ t.phase = "Run" /\ t.gen.id = task[n].gen.id
               /\ \/ t.gen = task[n].gen /\ UNCHANGED clientVars
                  \/ /\ t.gen.last = task[n].gen.last + 1 /\ t.gen.last <= seq
                     /\ t.gen.last > 0 /\ t.gen.last + 1 \in Seqs
                     /\ OutputFrame(Gen(n), t.gen.last)
  BY ForwardMoves
<1>2. Open /\ Witness
  BY DEF PumpForwards, Reads
<1>3. Gen(n) \in Gens /\ Gen(n) \in Begun /\ Gen(n) = <<t.stream, t.gen.id>> /\ n \in Live
  BY <1>1, AtPump, Unfolded DEF PumpMoves, Gen, BegunOK
<1>4. CASE t.gen = task[n].gen /\ UNCHANGED clientVars
  <2>1. ClientOK /\ mirror' = mirror /\ staging' = staging /\ begins' = begins /\ Begun' = Begun
    BY <1>4, QuietFrame
  <2>2. seq' = seq
    BY <1>1 DEF PumpMoves, paneVars
  <2>3. StreamOK'
    BY <1>1, <1>2, <1>3, <1>4, <2>1, <2>2, PumpSpeaks DEF SpeakerOK, ReplicaOK
  <2> QED
    BY <1>1, <1>2, <1>3, <2>1, <2>3, PumpStepInv
<1>5. CASE /\ t.gen.last = task[n].gen.last + 1 /\ t.gen.last <= seq
           /\ t.gen.last > 0 /\ t.gen.last + 1 \in Seqs /\ OutputFrame(Gen(n), t.gen.last)
  <2>1. PICK s, g : s = t.gen.last /\ g = Gen(n)
    OBVIOUS
  <2>2. mirror' = ApplyOutput(mirror, g, s) /\ staging' = staging /\ begins' = begins
    BY <1>5, <2>1 DEF OutputFrame
  <2>3. s \in Nat /\ s > 0 /\ s + 1 \in Seqs /\ s <= seq
    <3>1. t \in Tasks
      BY <1>1 DEF PumpMoves
    <3>2. t.gen \in Generation(Seqs, BootIds)
      BY <3>1 DEF Tasks, PumpTask
    <3> QED
      BY <1>5, <2>1, <3>2, Numbers DEF Generation
  <2>4. PICK m : m = mirror'
    OBVIOUS
  <2>5. /\ KernelType(m, staging) /\ m.published = mirror.published /\ m.retired = mirror.retired
        /\ g \notin mirror.retired /\ g = mirror.published /\ s = mirror.next /\ mirror.next = mirror.content + 1 =>
                 m.error = mirror.error /\ m.next = s + 1 /\ m.content = s
    <3>1. PICK o, d : o = mirror /\ d = staging
      OBVIOUS
    <3>2. KernelType(o, d) /\ g \in Gens /\ s \in Nat /\ s > 0 /\ s + 1 \in Seqs /\ m = ApplyOutput(o, g, s)
      BY <1>3, <2>1, <2>2, <2>3, <2>4, <3>1, Unfolded
    <3>3. /\ KernelType(m, d) /\ m.published = o.published /\ m.retired = o.retired
          /\ g \notin o.retired /\ g = o.published /\ s = o.next /\ o.next = o.content + 1 =>
                 m.error = o.error /\ m.next = s + 1 /\ m.content = s
      BY <3>2, OutputEffect
    <3> QED
      BY <3>1, <3>3
  <2>6. ClientOK /\ Begun' = Begun
    BY <2>2, <2>4, <2>5, Unfolded DEF ClientOK, Begun, BegunOK
  <2>7. seq' = seq
    BY <1>1 DEF PumpMoves, paneVars
  <2>8. ASSUME Sound, ReplicaOK, SpeakerOK(n)
        PROVE  ReplicaOK' /\ m.published = g /\ g \notin m.retired /\ m.content = s
    <3>1. mirror.published = g /\ g \notin mirror.retired /\ mirror.content = task[n].gen.last
      BY <1>1, <2>1, <2>8 DEF SpeakerOK
    <3>2. g # None
      BY <1>3, <2>1, SomeGen
    <3>3. ~mirror.error /\ mirror.next = mirror.content + 1
      BY <2>8, <3>1, <3>2 DEF ReplicaOK
    <3>4. s = mirror.next
      BY <1>5, <2>1, <3>1, <3>3
    <3>5. ~m.error /\ m.next = s + 1 /\ m.content = s
      BY <2>5, <3>1, <3>3, <3>4
    <3> QED
      BY <2>3, <2>4, <2>5, <2>7, <3>1, <3>5 DEF ReplicaOK
  <2>9. StreamOK'
    BY <1>1, <1>2, <1>3, <2>1, <2>2, <2>4, <2>8, PumpSpeaks
  <2> QED
    BY <1>1, <1>2, <1>3, <2>6, <2>9, PumpStepInv
<1> QED
  BY <1>1, <1>4, <1>5

(* Passing over a resync from before the hand-over keeps the invariant.      *)
\* activate_native_publication.
LEMMA PumpMissesResyncInv ==
    ASSUME Inv, NEW n \in Commands, PumpMissesResync(n)
    PROVE  Inv'
<1>1. PICK t : /\ PumpMoves(n, t) /\ task[n].phase = "Run" /\ t.phase = "Run" /\ t.gen = task[n].gen
               /\ UNCHANGED clientVars
  BY MissMoves
<1>2. Open /\ Witness
  BY DEF PumpMissesResync, Reads
<1>3. Gen(n) \in Begun /\ Gen(n) = <<t.stream, t.gen.id>> /\ n \in Live
  BY <1>1, AtPump, Unfolded DEF PumpMoves, Gen, BegunOK
<1>4. ClientOK /\ mirror' = mirror /\ staging' = staging /\ begins' = begins /\ Begun' = Begun
  BY <1>1, QuietFrame
<1>5. seq' = seq
  BY <1>1 DEF PumpMoves, paneVars
<1>6. StreamOK'
  BY <1>1, <1>2, <1>3, <1>4, <1>5, PumpSpeaks DEF SpeakerOK, ReplicaOK
<1> QED
  BY <1>1, <1>2, <1>3, <1>4, <1>6, PumpStepInv

(* What the client is after the tombstone of a generation that was begun.    *)
\* republish_generation, establish_generation.
LEMMA AfterTombstone ==
    ASSUME Inv, NEW g \in Gens, g \in Begun, TombstoneFrame(g)
    PROVE  /\ ClientOK /\ begins' = begins /\ Begun' = Begun
           /\ mirror'.published = mirror.published /\ mirror'.next = mirror.next /\ mirror'.content = mirror.content
           /\ mirror'.error = mirror.error
<1>1. PICK o, d : o = mirror /\ d = staging
  OBVIOUS
<1>2. PICK r : r = StageTombstone([mirror |-> o, staging |-> d], g)
  OBVIOUS
<1>3. mirror' = r.mirror /\ staging' = r.staging /\ begins' = begins
  BY <1>1, <1>2 DEF TombstoneFrame, Becomes, Replica
<1>4. KernelType(o, d)
  BY <1>1, Unfolded
<1>5. /\ KernelType(r.mirror, r.staging)
      /\ r.mirror.published = o.published /\ r.mirror.next = o.next /\ r.mirror.content = o.content
      /\ r.mirror.error = o.error /\ r.mirror.retired = o.retired \cup {g}
      /\ r.staging \subseteq d
  BY <1>2, <1>4, TombstoneEffect
<1>6. Begun' = Begun
  BY <1>3 DEF Begun
<1> QED
  BY <1>1, <1>3, <1>5, <1>6, Unfolded DEF ClientOK, BegunOK

(* What the client is after a BEGIN: unless the id was used before, the      *)
(* generation is staged.                                                     *)
\* BOOTSTRAP_BEGIN.
LEMMA AfterBegin ==
    ASSUME Inv, NEW g \in Gens, NEW b \in 0 .. MaxOutput, BeginFrame(g, b)
    PROVE  /\ ClientOK /\ begins' = Append(begins, g) /\ Begun' = Begun \cup {g}
           /\ mirror'.published = mirror.published /\ mirror'.next = mirror.next /\ mirror'.content = mirror.content
           /\ GenerationsAreFresh' =>
                /\ mirror'.error = mirror.error
                /\ staging' = {[gen |-> g, base |-> b]} /\ g \notin mirror'.retired \cup {mirror'.published}
<1>1. PICK o, d : o = mirror /\ d = staging
  OBVIOUS
<1>2. PICK r : r = StageBegin([mirror |-> o, staging |-> d], g, b)
  OBVIOUS
<1>3. mirror' = r.mirror /\ staging' = r.staging /\ begins' = Append(begins, g)
  BY <1>1, <1>2 DEF BeginFrame, Becomes, Replica
<1>4. KernelType(o, d)
  BY <1>1, Unfolded
<1>5. /\ KernelType(r.mirror, r.staging)
      /\ r.mirror.published = o.published /\ r.mirror.next = o.next /\ r.mirror.content = o.content
      /\ r.mirror.retired \subseteq o.retired \cup {e.gen : e \in d}
      /\ \A e \in r.staging : e \in d \/ e.gen = g
      /\ g \notin o.retired \cup {o.published} /\ (\A e \in d : e.gen # g) =>
           /\ r.mirror.error = o.error
           /\ r.staging = {[gen |-> g, base |-> b]} /\ g \notin r.mirror.retired \cup {r.mirror.published}
  BY <1>2, <1>4, BeginEffect
<1>6. /\ begins' \in Seq(Gens) /\ Begun' = Begun \cup {g}
      /\ GenerationsAreFresh' => g \notin Begun
  BY <1>3, AppendBegins, Unfolded DEF Begun, GenerationsAreFresh
<1>7. /\ o.published \in Begun \cup {None} /\ o.retired \subseteq Begun \cup {None}
      /\ \A e \in d : e.gen \in Begun
  BY <1>1, Unfolded DEF BegunOK
<1>8. ClientOK
  BY <1>3, <1>5, <1>6, <1>7 DEF ClientOK
<1>9. g \notin Begun => g \notin o.retired \cup {o.published} /\ \A e \in d : e.gen # g
  BY <1>7, SomeGen
<1> QED
  BY <1>1, <1>3, <1>5, <1>6, <1>8, <1>9

(* What the client is after the READY of a generation that was begun: the    *)
(* generation that is staged is shown.                                       *)
\* BOOTSTRAP_READY.
LEMMA AfterReady ==
    ASSUME Inv, NEW g \in Gens, g \in Begun, ReadyFrame(g)
    PROVE  /\ ClientOK /\ begins' = begins /\ Begun' = Begun
           /\ \A b : Staged(g, b) => /\ mirror'.error = mirror.error /\ mirror'.published = g
                                     /\ g \notin mirror'.retired
                                     /\ mirror'.next = b + 1 /\ mirror'.content = b
<1>1. PICK o, d : o = mirror /\ d = staging
  OBVIOUS
<1>2. PICK r : r = StageReady([mirror |-> o, staging |-> d], g)
  OBVIOUS
<1>3. mirror' = r.mirror /\ staging' = r.staging /\ begins' = begins
  BY <1>1, <1>2 DEF ReadyFrame, Becomes, Replica
<1>4. KernelType(o, d)
  BY <1>1, Unfolded
<1>5. /\ KernelType(r.mirror, r.staging)
      /\ r.mirror.published \in {o.published, g} /\ r.mirror.retired \subseteq o.retired \cup {o.published}
      /\ r.staging \subseteq d
      /\ \A b : d = {[gen |-> g, base |-> b]} /\ g \notin o.retired \cup {o.published} =>
           /\ r.mirror.error = o.error /\ r.mirror.published = g
           /\ g \notin r.mirror.retired
           /\ r.mirror.next = b + 1 /\ r.mirror.content = b
           /\ r.staging = {}
  BY <1>2, <1>4, ReadyEffect
<1>6. Begun' = Begun
  BY <1>3 DEF Begun
<1>7. ClientOK
  BY <1>1, <1>3, <1>5, <1>6, Unfolded DEF ClientOK, BegunOK
<1> QED
  BY <1>1, <1>3, <1>5, <1>6, <1>7 DEF Staged

(* Taking a resync keeps the invariant.                                      *)
\* republish_generation.
LEMMA PumpTakesResyncInv ==
    ASSUME Inv, NEW n \in Commands, PumpTakesResync(n)
    PROVE  Inv'
<1>1. PICK t : /\ PumpMoves(n, t) /\ task[n].phase = "Run" /\ t.phase = "Begin"
               /\ IF native THEN TombstoneFrame(Gen(n)) ELSE UNCHANGED clientVars
               /\ t.base < task[n].gen.cut \/ t.base = task[n].gen.last
  BY ResyncMoves
<1>2. Open /\ Witness
  BY DEF PumpTakesResync, Reads
<1>3. Gen(n) \in Gens /\ Gen(n) \in Begun /\ n \in Live /\ native' = native /\ seq' = seq
  BY <1>1, AtPump, Unfolded DEF PumpMoves, Gen, BegunOK, paneVars
<1>4. /\ ClientOK /\ begins' = begins
      /\ mirror'.published = mirror.published /\ mirror'.next = mirror.next /\ mirror'.content = mirror.content
      /\ mirror'.error = mirror.error
  <2>1. CASE native
    <3>1. PICK g \in Gens : g = Gen(n)
      BY <1>3
    <3> QED
      BY <1>1, <1>3, <2>1, <3>1, AfterTombstone
  <2>2. CASE ~native
    BY <1>1, <2>2, QuietFrame
  <2> QED
    BY <2>1, <2>2
<1>5. ASSUME ReplicaOK, SpeakerOK(n), ~native PROVE rewound' \/ mirror'.content <= t.base
  <2>1. CASE t.base < task[n].gen.cut
    <3>1. task'[n] = t /\ t # None
      BY <1>1, <1>3, SomePump, AtPump, Unfolded DEF PumpMoves
    <3> QED
      BY <1>1, <1>2, <1>3, <1>5, <2>1, <3>1 DEF Witness
  <2>2. CASE t.base = task[n].gen.last
    <3>1. mirror.content = task[n].gen.last
      BY <1>1, <1>5 DEF SpeakerOK
    <3>2. mirror.content \in Nat
      BY Numbers, Unfolded DEF KernelType, Mirror
    <3> QED
      BY <1>4, <2>2, <3>1, <3>2
  <2> QED
    BY <1>1, <2>1, <2>2
<1>6. ReplicaOK => ReplicaOK'
  BY <1>3, <1>4 DEF ReplicaOK
<1>7. StreamOK'
  BY <1>1, <1>2, <1>4, <1>5, <1>6, PumpSpeaks
<1> QED
  BY <1>1, <1>2, <1>4, <1>7, PumpStepInv

(* A pump's BEGIN keeps the invariant.                                       *)
\* republish_generation, BOOTSTRAP_BEGIN.
LEMMA PumpBeginsInv ==
    ASSUME Inv, NEW n \in Commands, PumpBegins(n)
    PROVE  Inv'
<1>1. PICK t : /\ PumpMoves(n, t) /\ task[n].phase = "Begin" /\ t.phase = "Ready" /\ t.gen = task[n].gen
               /\ BeginFrame(Gen(n), t.base)
               /\ t.base = IF native THEN seq ELSE task[n].base
  BY BeginMoves
<1>2. Open /\ Witness
  BY DEF PumpBegins
<1>3. Gen(n) \in Gens /\ Gen(n) = <<t.stream, t.gen.id>> /\ n \in Live /\ native' = native /\ seq' = seq
  BY <1>1, AtPump DEF PumpMoves, Gen, paneVars
<1>4. PICK g \in Gens : g = Gen(n)
  BY <1>3
<1>5. t.base \in 0 .. MaxOutput
  <2>1. t.base <= seq /\ t.base \in Seqs
    BY <1>1 DEF PumpMoves, PumpOK, Tasks, PumpTask
  <2>2. seq <= MaxOutput /\ seq \in Nat
    BY Unfolded, LogFacts DEF LogOK
  <2> QED
    BY <2>1, <2>2, StreamsAssumption DEF Seqs
<1>6. PICK b \in 0 .. MaxOutput : b = t.base
  BY <1>5
<1>7. BeginFrame(g, b)
  BY <1>1, <1>4, <1>6
<1>8. /\ ClientOK /\ begins' = Append(begins, g) /\ Begun' = Begun \cup {g}
      /\ mirror'.published = mirror.published /\ mirror'.next = mirror.next /\ mirror'.content = mirror.content
      /\ GenerationsAreFresh' =>
           /\ mirror'.error = mirror.error
           /\ staging' = {[gen |-> g, base |-> b]} /\ g \notin mirror'.retired \cup {mirror'.published}
  BY <1>7, AfterBegin
<1>9. ASSUME Sound', ReplicaOK, SpeakerOK(n)
      PROVE  ReplicaOK' /\ (rewound' \/ mirror'.content <= b)
  <2>1. ReplicaOK'
    BY <1>3, <1>8, <1>9 DEF ReplicaOK, Sound
  <2>2. CASE native
    BY <1>1, <1>6, <1>8, <1>9, <2>1, <2>2 DEF ReplicaOK
  <2>3. CASE ~native
    <3>1. rewound \/ mirror.content <= task[n].base
      BY <1>1, <1>9, <2>3 DEF SpeakerOK
    <3>2. rewound => rewound'
      BY <1>2 DEF Witness
    <3> QED
      BY <1>1, <1>6, <1>8, <2>1, <2>3, <3>1, <3>2
  <2> QED
    BY <2>1, <2>2, <2>3
<1>10. begins' = begins \/ \E h \in Gens : begins' = Append(begins, h)
  BY <1>8
<1>11. StreamOK'
  BY <1>1, <1>2, <1>3, <1>4, <1>6, <1>8, <1>9, <1>10, PumpSpeaks DEF Sound
<1> QED
  BY <1>1, <1>2, <1>3, <1>4, <1>8, <1>11, PumpStepInv

(* A pump's READY keeps the invariant.                                       *)
\* republish_generation, BOOTSTRAP_READY.
LEMMA PumpReadiesInv ==
    ASSUME Inv, NEW n \in Commands, PumpReadies(n)
    PROVE  Inv'
<1>1. PICK t : /\ PumpMoves(n, t) /\ task[n].phase = "Ready" /\ t.phase = "Run" /\ t.gen.id = task[n].gen.id
               /\ ReadyFrame(Gen(n))
               /\ t.gen.last = task[n].base
  BY ReadyMoves
<1>2. Open /\ Witness
  BY DEF PumpReadies
<1>3. /\ Gen(n) \in Gens /\ Gen(n) \in Begun /\ Gen(n) = <<t.stream, t.gen.id>> /\ n \in Live
      /\ native' = native /\ seq' = seq
  BY <1>1, AtPump, Unfolded DEF PumpMoves, Gen, BegunOK, paneVars
<1>4. PICK g \in Gens : g = Gen(n)
  BY <1>3
<1>5. /\ ClientOK /\ begins' = begins /\ Begun' = Begun
      /\ \A b : Staged(g, b) => /\ mirror'.error = mirror.error /\ mirror'.published = g
                                /\ g \notin mirror'.retired
                                /\ mirror'.next = b + 1 /\ mirror'.content = b
  BY <1>1, <1>3, <1>4, AfterReady
<1>6. ASSUME ReplicaOK, SpeakerOK(n)
      PROVE  ReplicaOK' /\ mirror'.published = g /\ g \notin mirror'.retired /\ mirror'.content = t.gen.last
  <2>1. PICK b : b = task[n].base
    OBVIOUS
  <2>2. Staged(g, b)
    BY <1>1, <1>4, <1>6, <2>1 DEF SpeakerOK
  <2>3. b <= seq
    BY <1>1, <1>3, <2>1, AtPump DEF PumpOK
  <2>4. /\ mirror'.error = mirror.error /\ mirror'.published = g /\ g \notin mirror'.retired
        /\ mirror'.next = b + 1 /\ mirror'.content = b
    BY <1>5, <2>2
  <2> QED
    BY <1>1, <1>3, <1>6, <2>1, <2>3, <2>4 DEF ReplicaOK
<1>7. StreamOK'
  BY <1>1, <1>2, <1>3, <1>4, <1>5, <1>6, PumpSpeaks
<1> QED
  BY <1>1, <1>2, <1>3, <1>5, <1>7, PumpStepInv

-----------------------------------------------------------------------------
(* Steps of the commands keep the invariant.                                 *)

(* The empty table has no pump and nobody speaks from it.                    *)
\* stop_output.
LEMMA NoTask ==
    /\ NoTasks \in [Commands -> Tasks \cup {None}] /\ {n \in Commands : NoTasks[n] # None} = {}
    /\ Running(NoTasks) = {}
  BY DEF NoTasks, Running

\* A command or a pump gives up every stream of the pair.
GivesUp ==
    /\ Open /\ task' = NoTasks /\ entry' = None /\ counter' \in {counter, 1} /\ pane' \in {pane, "Reaped"}
    /\ attached' \in BOOLEAN /\ closed' \in BOOLEAN
    /\ cmd' = None \/ (cmd' = cmd /\ closed' /\ sent' = sent)
    /\ sent' = sent \/ (sent' = sent + 1 /\ sent < MaxCommands)
    /\ UNCHANGED <<native, usedIds, paneVars, others, clientVars>>
    /\ Witness

(* Giving up every stream of the pair keeps the invariant.                   *)
\* stop_output, forget_resource, detach.
LEMMA GivesUpInv ==
    ASSUME Inv, GivesUp
    PROVE  Inv'
<1>1. /\ task' = NoTasks /\ entry' = None /\ counter' \in {counter, 1} /\ pane' \in {pane, "Reaped"}
      /\ native' = native /\ usedIds' = usedIds /\ others' = others
      /\ cmd' = None \/ (cmd' = cmd /\ closed' /\ sent' = sent)
  BY DEF GivesUp
<1>2. UNCHANGED paneVars /\ UNCHANGED clientVars /\ Witness /\ Open
  BY DEF GivesUp
<1>3. ClientOK /\ mirror' = mirror /\ staging' = staging /\ begins' = begins /\ Begun' = Begun
  BY <1>2, QuietFrame
<1>4. log' = log /\ seq' = seq /\ \A i : At(i)' = At(i)
  BY <1>2, Still
<1>5. Live' = {} /\ Running(task)' = {} /\ task' \in [Commands -> Tasks \cup {None}]
  BY <1>1, NoTask DEF Live, Running
<1>6. sent' \in Nat /\ sent' <= MaxCommands /\ sent <= sent' /\ sent' \in 0 .. MaxCommands
  BY Unfolded DEF GivesUp
<1>7. cmd' # None => sent' \in Commands
  BY <1>1, <1>2, Unfolded DEF CommandOK, Commands, Open
<1>8. /\ twoSpeakers' \in BOOLEAN /\ quiet' \in BOOLEAN /\ rewound' \in BOOLEAN /\ SpeakersOK'
      /\ quiet' => cmd' = None
  <2>1. quiet => cmd = None
    BY Unfolded DEF TableOK
  <2> QED
    BY <1>1, <1>2, <1>7, <2>1, WitnessFacts
<1>9. TypeOK'
  <2>1. counter' \in BootIds
    BY <1>1, StreamsAssumption, Unfolded DEF TypeOK, BootIds
  <2>2. cmd' \in Command(Tasks, BootIds) \cup {None} /\ pane' \in {"Absent", "Live", "Reaped"}
    BY <1>1, Unfolded DEF TypeOK
  <2>3. attached' \in BOOLEAN /\ closed' \in BOOLEAN
    BY DEF GivesUp
  <2> QED
    BY <1>1, <1>3, <1>4, <1>5, <1>6, <1>8, <2>1, <2>2, <2>3, Unfolded DEF TypeOK
<1>10. LogOK'
  BY <1>2, SameLog DEF Broadcasts
<1>11. TableOK' /\ CommandOK' /\ OnlyAttachLeavesAPump'
  BY <1>1, <1>5, <1>8, Unfolded DEF TableOK, CommandOK, OnlyAttachLeavesAPump
<1>12. CountOK'
  <2>1. counter' <= sent' + 1
    <3>1. counter \in Nat /\ counter <= sent + 1 /\ sent \in Nat
      BY Unfolded, Numbers DEF CountOK, TypeOK
    <3>2. counter' = counter \/ counter' = 1
      BY <1>1
    <3> QED
      BY <1>6, <3>1, <3>2
  <2> QED
    BY <1>1, <1>5, <2>1, Unfolded DEF CountOK
<1>13. BegunOK'
  BY <1>1, <1>3, <1>5, Unfolded DEF BegunOK, CommandGen
<1>14. PositionOK'
  BY <1>1, <1>4, <1>5, Unfolded DEF PositionOK
<1>15. StreamOK'
  <2>1. SUFFICES ASSUME Sound' PROVE ReplicaOK' /\ (closed \/ CommandSpeaksOK)'
    BY <1>5 DEF StreamOK
  <2>2. ReplicaOK
    BY <1>2, <1>3, <1>7, <2>1, SoundBefore
  <2>3. ReplicaOK'
    BY <1>3, <1>4, <2>2 DEF ReplicaOK
  <2>4. (closed \/ CommandSpeaksOK)'
    BY <1>1 DEF CommandSpeaksOK
  <2> QED
    BY <2>3, <2>4
<1> QED
  BY <1>8, <1>9, <1>10, <1>11, <1>12, <1>13, <1>14, <1>15 DEF Inv

(* A failed capture keeps the invariant, whichever command it fails.         *)
\* establish_generation's rollback; handle_attach and SpawnPublication on error.
LEMMA CaptureFailsInv ==
    ASSUME Inv, CaptureFails
    PROVE  Inv'
<1>1. /\ task' = NoTasks /\ entry' = None /\ counter' \in {counter, 1} /\ pane' \in {pane, "Reaped"}
      /\ attached' \in {attached, FALSE} /\ closed' \in {closed, TRUE} /\ cmd' = None /\ sent' = sent
      /\ Open /\ Witness /\ UNCHANGED <<native, usedIds, paneVars, others, clientVars>>
  BY DEF CaptureFails, StopOutput, ReapState, DetachState
<1>2. attached \in BOOLEAN /\ closed \in BOOLEAN
  BY Unfolded DEF TypeOK
<1> QED
  BY <1>1, <1>2, GivesUpInv DEF GivesUp

(* DETACH_RESOURCE keeps the invariant.                                      *)
\* handle_detach_terminal.
LEMMA TakeDetachResourceInv ==
    ASSUME Inv, TakeDetachResource
    PROVE  Inv'
<1>1. /\ task' = NoTasks /\ entry' = None /\ counter' = counter /\ pane' = pane
      /\ attached' = attached /\ closed' = closed /\ cmd' = None /\ sent' = sent + 1 /\ sent < MaxCommands
      /\ Open /\ Witness /\ UNCHANGED <<native, usedIds, paneVars, others, clientVars>>
  BY DEF TakeDetachResource, MayTake, StopOutput
<1>2. attached \in BOOLEAN /\ closed \in BOOLEAN
  BY Unfolded DEF TypeOK
<1> QED
  BY <1>1, <1>2, GivesUpInv DEF GivesUp

(* The end of a DETACH keeps the invariant.                                  *)
\* detach_on_request.
LEMMA FinishDetachInv ==
    ASSUME Inv, FinishDetach
    PROVE  Inv'
<1>1. /\ task' = NoTasks /\ entry' = None /\ counter' = 1 /\ pane' = pane
      /\ attached' = FALSE /\ closed' = closed /\ cmd' = None /\ sent' = sent
      /\ Open /\ Witness /\ UNCHANGED <<native, usedIds, paneVars, others, clientVars>>
  BY DEF FinishDetach, DetachState
<1>2. closed \in BOOLEAN
  BY Unfolded DEF TypeOK
<1> QED
  BY <1>1, <1>2, GivesUpInv DEF GivesUp

(* A pump that cannot replace its generation keeps the invariant.            *)
\* PumpFault::GenerationLost.
LEMMA PumpLostInv ==
    ASSUME Inv, NEW n \in Commands, PumpLost(n)
    PROVE  Inv'
<1>1. /\ task' = NoTasks /\ entry' = None /\ counter' \in {counter, 1} /\ pane' \in {pane, "Reaped"}
      /\ attached' \in {attached, FALSE} /\ closed' = TRUE /\ cmd' = cmd /\ sent' = sent
      /\ Open /\ Witness /\ UNCHANGED <<native, usedIds, paneVars, others, clientVars>>
  BY DEF PumpLost, ReapState, DetachState
<1>2. attached \in BOOLEAN
  BY Unfolded DEF TypeOK
<1> QED
  BY <1>1, <1>2, GivesUpInv DEF GivesUp

(* Taking an ATTACH_RESOURCE keeps the invariant: the pair has no pump while *)
(* the new one is built.                                                     *)
\* bootstrap_attach_terminal.
LEMMA TakeAttachResourceInv ==
    ASSUME Inv, TakeAttachResource
    PROVE  Inv'
<1>1. PICK c, x, t : c = counter /\ x = sent + 1 /\ t = Pump("AttachResource", StreamIdFrom(ClientId), counter)
  OBVIOUS
<1>2. /\ Open /\ cmd = None /\ sent < MaxCommands /\ pane = "Live" /\ sent' = x /\ counter' = c + 1
      /\ task' = NoTasks /\ entry' = c
      /\ cmd' = [kind |-> "AttachResource", step |-> "Tombstone", prior |-> entry, pump |-> t, reattach |-> FALSE]
      /\ native' = native /\ pane' = pane /\ attached' = attached /\ usedIds' = usedIds /\ others' = others
      /\ closed' = closed /\ Witness
  BY <1>1 DEF TakeAttachResource, MayTake, StopOutput
<1>3. UNCHANGED paneVars /\ UNCHANGED clientVars
  BY DEF TakeAttachResource
<1>4. ClientOK /\ mirror' = mirror /\ staging' = staging /\ begins' = begins /\ Begun' = Begun
  BY <1>3, QuietFrame
<1>5. log' = log /\ seq' = seq /\ \A i : At(i)' = At(i)
  BY <1>3, Still
<1>6. Live' = {} /\ Running(task)' = {} /\ task' \in [Commands -> Tasks \cup {None}]
  BY <1>2, NoTask DEF Live, Running
<1>7. /\ x \in Nat /\ sent \in Nat /\ x \in Commands /\ x \in 0 .. MaxCommands /\ x > 0
      /\ c \in BootIds /\ c + 1 \in BootIds /\ c <= x /\ c \in Nat
  <2>1. /\ sent \in Nat /\ x = sent + 1 /\ sent < MaxCommands /\ MaxCommands \in Nat /\ MaxResyncs \in Nat
        /\ c \in BootIds /\ c <= sent + 1
    BY <1>1, <1>2, StreamsAssumption, Unfolded DEF TypeOK, CountOK
  <2> QED
    BY <2>1 DEF BootIds, Commands
<1>8. /\ t \in Tasks /\ t.stream = ClientStream /\ t.gen = OpenedAt(0, c) /\ t.gen.id = c
      /\ t.gen.cut = 0 /\ t.pos = Len(log) /\ t.phase = "Parked" /\ t.kind = "AttachResource"
  <2>1. PICK s \in Streams : s = StreamIdFrom(ClientId)
    BY DEF Streams
  <2>2. t = Pump("AttachResource", s, c)
    BY <1>1, <2>1
  <2> QED
    BY <1>7, <2>1, <2>2, NewPump DEF ClientStream
<1>9. entry \in BootIds \cup {None}
  BY Unfolded DEF TypeOK
<1>10. cmd' \in Command(Tasks, BootIds) /\ cmd' # None
  <2>1. PICK e \in BootIds \cup {None} : e = entry
    BY <1>9
  <2> QED
    BY <1>2, <1>8, <2>1, NewCommand
<1>11. /\ cmd'.kind = "AttachResource" /\ cmd'.step = "Tombstone" /\ cmd'.prior = entry /\ cmd'.pump = t
       /\ ~Building'
  BY <1>2 DEF Building
<1>12. /\ twoSpeakers' \in BOOLEAN /\ quiet' \in BOOLEAN /\ rewound' \in BOOLEAN /\ SpeakersOK' /\ ~quiet'
  <2>1. sent' # sent
    BY <1>1, <1>2, <1>7
  <2> QED
    BY <1>2, <1>7, <1>10, <2>1, WitnessFacts
<1>13. TypeOK'
  BY <1>2, <1>4, <1>5, <1>6, <1>7, <1>10, <1>12, Unfolded DEF TypeOK
<1>14. LogOK'
  BY <1>3, SameLog DEF Broadcasts
<1>15. TableOK' /\ CommandOK' /\ OnlyAttachLeavesAPump'
  BY <1>2, <1>6, <1>7, <1>8, <1>11, <1>12, Unfolded DEF TableOK, CommandOK, OnlyAttachLeavesAPump, Open
<1>16. CountOK'
  <2>1. entry # None => entry <= x
    <3>1. entry # None => entry <= sent /\ entry \in Nat
      BY <1>9, Unfolded, Numbers DEF CountOK
    <3> QED
      BY <1>1, <1>7, <3>1
  <2> QED
    BY <1>2, <1>6, <1>7, <1>8, <1>11, <2>1 DEF CountOK
<1>17. BegunOK'
  <2>1. entry # None => <<ClientStream, entry>> \in Begun
    BY <1>2, Unfolded DEF BegunOK
  <2>2. /\ cmd'.pump.stream = ClientStream /\ entry' = cmd'.pump.gen.id
        /\ cmd'.prior # None => <<ClientStream, cmd'.prior>> \in Begun'
    BY <1>2, <1>4, <1>8, <1>11, <2>1
  <2>3. /\ mirror'.published \in Begun' \cup {None} /\ mirror'.retired \subseteq Begun' \cup {None}
        /\ \A st \in staging' : st.gen \in Begun'
    BY <1>4 DEF ClientOK
  <2> QED
    BY <1>6, <1>10, <1>11, <2>2, <2>3 DEF BegunOK
<1>18. PositionOK'
  <2>1. Len(log) \in Nat
    BY LogFacts, Unfolded
  <2> QED
    BY <1>5, <1>6, <1>8, <1>11, <2>1 DEF PositionOK
<1>19. StreamOK'
  <2>1. SUFFICES ASSUME Sound' PROVE ReplicaOK' /\ CommandSpeaksOK'
    BY <1>6 DEF StreamOK
  <2>2. ReplicaOK
    BY <1>2, <1>4, <1>7, <2>1, SoundBefore
  <2> QED
    BY <1>4, <1>5, <1>11, <2>2 DEF ReplicaOK, CommandSpeaksOK
<1> QED
  BY <1>12, <1>13, <1>14, <1>15, <1>16, <1>17, <1>18, <1>19 DEF Inv

\* ATTACH and SPAWN_RESOURCE park a pump beside whatever the client has.
Starts(t, r) ==
    /\ Open /\ cmd = None /\ sent < MaxCommands /\ sent' = sent + 1 /\ pane' = "Live"
    /\ t \in Tasks /\ t.phase = "Parked" /\ t.gen = OpenedAt(0, 1) /\ t.pos = Len(log)
    /\ task' = [task EXCEPT ![sent + 1] = t]
    /\ cmd' = [kind |-> t.kind, step |-> "Capture", prior |-> None, pump |-> t, reattach |-> r]
    /\ \/ t.kind = "Attach" /\ r = attached /\ attached' = TRUE
       \/ t.kind = "Spawn" /\ r = FALSE /\ attached' = attached /\ task = NoTasks
    /\ usedIds' \subseteq AttachIds
    /\ UNCHANGED <<native, counter, entry, paneVars, others, clientVars, closed>>
    /\ Witness

(* An ATTACH parks a pump beside those the client has.                       *)
\* handle_attach.
LEMMA TakeAttachStarts ==
    ASSUME Inv, TakeAttach
    PROVE  \E t, r : Starts(t, r)
<1>1. PICK id \in AttachIds \ usedIds :
        /\ usedIds' = usedIds \cup {id}
        /\ LET pump == Pump("Attach", StreamIdFrom(id), InitialBootstrapId) IN
            /\ task' = [task EXCEPT ![sent + 1] = pump]
            /\ cmd' = [kind |-> "Attach", step |-> "Capture", prior |-> None, pump |-> pump, reattach |-> attached]
  BY DEF TakeAttach
<1>2. PICK s \in Streams : s = StreamIdFrom(id)
  BY DEF Streams
<1>3. PICK t : t = Pump("Attach", s, 1)
  OBVIOUS
<1>4. 1 \in BootIds
  BY StreamsAssumption DEF BootIds
<1>5. t \in Tasks /\ t.kind = "Attach" /\ t.gen = OpenedAt(0, 1) /\ t.pos = Len(log) /\ t.phase = "Parked"
  BY <1>3, <1>4, NewPump
<1>6. /\ task' = [task EXCEPT ![sent + 1] = t]
      /\ cmd' = [kind |-> t.kind, step |-> "Capture", prior |-> None, pump |-> t, reattach |-> attached]
  BY <1>1, <1>2, <1>3, <1>5 DEF InitialBootstrapId
<1>7. usedIds' \subseteq AttachIds
  BY <1>1, Unfolded DEF TypeOK
<1> QED
  BY <1>5, <1>6, <1>7 DEF TakeAttach, MayTake, Starts

(* A SPAWN_RESOURCE parks the first pump of its pane.                        *)
\* SpawnPublication::publish.
LEMMA TakeSpawnStarts ==
    ASSUME Inv, TakeSpawn
    PROVE  \E t, r : Starts(t, r)
<1>1. PICK id \in SpawnIds :
        LET pump == Pump("Spawn", StreamIdFrom(id), InitialBootstrapId) IN
            /\ task' = [task EXCEPT ![sent + 1] = pump]
            /\ cmd' = [kind |-> "Spawn", step |-> "Capture", prior |-> None, pump |-> pump, reattach |-> FALSE]
  BY DEF TakeSpawn
<1>2. PICK s \in Streams : s = StreamIdFrom(id)
  BY DEF Streams
<1>3. PICK t : t = Pump("Spawn", s, 1)
  OBVIOUS
<1>4. 1 \in BootIds
  BY StreamsAssumption DEF BootIds
<1>5. t \in Tasks /\ t.kind = "Spawn" /\ t.gen = OpenedAt(0, 1) /\ t.pos = Len(log) /\ t.phase = "Parked"
  BY <1>3, <1>4, NewPump
<1>6. /\ task' = [task EXCEPT ![sent + 1] = t]
      /\ cmd' = [kind |-> t.kind, step |-> "Capture", prior |-> None, pump |-> t, reattach |-> FALSE]
  BY <1>1, <1>2, <1>3, <1>5 DEF InitialBootstrapId
<1>7. usedIds' \subseteq AttachIds /\ task = NoTasks
  BY Unfolded DEF TypeOK, TableOK, TakeSpawn
<1> QED
  BY <1>5, <1>6, <1>7 DEF TakeSpawn, MayTake, Starts

(* Parking a pump keeps the invariant: a parked pump does not speak.         *)
\* handle_attach, SpawnPublication::publish.
LEMMA StartsInv ==
    ASSUME Inv, NEW t, NEW r, Starts(t, r)
    PROVE  Inv'
<1>1. PICK x : x = sent + 1
  OBVIOUS
<1>2. /\ Open /\ cmd = None /\ sent < MaxCommands /\ pane' = "Live" /\ sent' = x
      /\ t \in Tasks /\ t.phase = "Parked" /\ t.gen = OpenedAt(0, 1) /\ t.pos = Len(log)
      /\ task' = [task EXCEPT ![x] = t]
      /\ cmd' = [kind |-> t.kind, step |-> "Capture", prior |-> None, pump |-> t, reattach |-> r]
      /\ \/ t.kind = "Attach" /\ r = attached /\ attached' = TRUE
         \/ t.kind = "Spawn" /\ r = FALSE /\ attached' = attached /\ task = NoTasks
      /\ native' = native /\ counter' = counter /\ entry' = entry /\ usedIds' \subseteq AttachIds
      /\ others' = others /\ closed' = closed /\ Witness
  BY <1>1 DEF Starts
<1>3. UNCHANGED paneVars /\ UNCHANGED clientVars
  BY DEF Starts
<1>4. ClientOK /\ mirror' = mirror /\ staging' = staging /\ begins' = begins /\ Begun' = Begun
  BY <1>3, QuietFrame
<1>5. log' = log /\ seq' = seq /\ (\A i : At(i)' = At(i)) /\ \A u : PumpOK(u)' <=> PumpOK(u)
  BY <1>3, Still
<1>6. x \in Nat /\ sent \in Nat /\ x \in Commands /\ x \in 0 .. MaxCommands /\ x > 0 /\ sent <= x /\ x # sent
  BY <1>1, <1>2, Unfolded DEF Commands
<1>7. /\ t # None /\ t.gen.id = 1 /\ t.gen.cut = 0 /\ t.gen.active /\ ~t.gen.gap
  BY <1>2, SomePump DEF OpenedAt
<1>8. /\ task' \in [Commands -> Tasks \cup {None}] /\ task'[x] = t /\ \A m \in Commands : m # x => task'[m] = task[m]
  BY <1>2, <1>6, Unfolded
<1>9. x \notin Live /\ task[x] = None /\ \A m \in Live : m <= sent /\ m # x
  BY <1>1, <1>6, Unfolded DEF TableOK, Live
<1>10. Live' = Live \cup {x} /\ Running(task') = Running(task) /\ Running(task)' = Running(task)
  BY <1>2, <1>6, <1>7, <1>8, <1>9 DEF Live, Running
<1>11. r \in BOOLEAN /\ t.kind \in {"Attach", "AttachResource", "Spawn"}
  BY <1>2, Unfolded DEF TypeOK
<1>12. cmd' \in Command(Tasks, BootIds) /\ cmd' # None
  <2>1. PICK k \in {"Attach", "AttachResource", "Spawn"} : k = t.kind
    BY <1>11
  <2> QED
    BY <1>2, <1>11, <2>1, NewCommand
<1>13. /\ cmd'.kind = t.kind /\ cmd'.step = "Capture" /\ cmd'.prior = None /\ cmd'.pump = t /\ cmd'.reattach = r
       /\ Building'
  BY <1>2, <1>12 DEF Building
<1>14. twoSpeakers' \in BOOLEAN /\ quiet' \in BOOLEAN /\ rewound' \in BOOLEAN /\ SpeakersOK' /\ ~quiet'
  BY <1>2, <1>6, <1>12, WitnessFacts
<1>15. TypeOK'
  BY <1>2, <1>4, <1>5, <1>6, <1>8, <1>12, <1>14, Unfolded DEF TypeOK
<1>16. LogOK'
  BY <1>3, SameLog DEF Broadcasts
<1>17. TableOK'
  <2>1. ASSUME NEW n \in Live'
        PROVE  n <= x /\ (task'[n].phase = "Parked" => n = x) /\ (task'[n].kind = "Attach" => attached')
    <3>1. CASE n = x
      BY <1>2, <1>6, <1>8, <3>1
    <3>2. CASE n # x
      <4>1. n \in Live /\ n \in Commands /\ task'[n] = task[n]
        BY <1>8, <1>10, <3>2 DEF Live
      <4>2. n <= sent /\ task[n].phase # "Parked" /\ (task[n].kind = "Attach" => attached)
        BY <1>2, <4>1, Unfolded DEF TableOK, Building
      <4>3. n \in Nat
        BY <4>1, Numbers
      <4> QED
        BY <1>2, <1>6, <4>1, <4>2, <4>3
    <3> QED
      BY <3>1, <3>2
  <2> QED
    BY <1>2, <1>13, <1>14, <2>1 DEF TableOK, Open
<1>18. CommandOK'
  <2>1. t.kind = "Spawn" => Live' \subseteq {x}
    BY <1>2, <1>10, NoTask DEF Live
  <2>2. ASSUME t.kind = "Attach", ~r, NEW n \in Live', n # x PROVE task'[n].kind # "Attach"
    BY <1>2, <1>8, <1>10, <2>2, Unfolded DEF TableOK, Live
  <2> QED
    BY <1>2, <1>6, <1>7, <1>8, <1>13, <2>1, <2>2 DEF CommandOK
<1>19. OnlyAttachLeavesAPump'
  BY <1>2, <1>8, <1>9, <1>10, Unfolded DEF OnlyAttachLeavesAPump, Running, Live
<1>20. CountOK'
  <2>1. Len(log) \in Nat /\ At(Len(log)) \in Nat /\ At(Len(log)) <= Len(log)
    BY LogFacts, Unfolded
  <2>2. ASSUME NEW n \in Live'
        PROVE  (task[n].gen.id + At(task[n].pos) <= sent + task[n].pos)'
    <3>1. PICK u : u = task'[n]
      OBVIOUS
    <3>2. CASE n = x
      <4>1. u.gen.id = 1 /\ u.pos = Len(log) /\ u = t
        BY <1>2, <1>7, <1>8, <3>1, <3>2
      <4>2. PICK l : l = Len(log)
        OBVIOUS
      <4>3. At(l) <= l /\ l \in Nat /\ At(l) \in Nat /\ At(l)' = At(l)
        BY <1>5, <2>1, <4>2
      <4>4. 1 + At(l) <= x + l
        BY <1>6, <4>3
      <4> QED
        BY <1>2, <3>1, <4>1, <4>2, <4>3, <4>4
    <3>3. CASE n # x
      <4>1. n \in Live /\ u = task[n]
        BY <1>8, <1>10, <3>1, <3>3 DEF Live
      <4>2. u.gen.id + At(u.pos) <= sent + u.pos /\ u.pos \in Nat /\ u \in Tasks /\ PumpOK(u)
        BY <4>1, AtPump
      <4>3. At(u.pos) \in Nat
        <5>1. u.pos \in 0 .. Len(log)
          BY <2>1, <4>2 DEF PumpOK
        <5> QED
          BY <5>1, LogFacts, Unfolded
      <4>4. u.gen.id \in Nat
        <5>1. u.gen \in Generation(Seqs, BootIds)
          BY <4>2 DEF Tasks, PumpTask
        <5> QED
          BY <5>1, Numbers DEF Generation
      <4>5. PICK i, a, p : i = u.gen.id /\ a = At(u.pos) /\ p = u.pos
        OBVIOUS
      <4>6. i + a <= x + p
        BY <1>6, <4>2, <4>3, <4>4, <4>5
      <4>7. At(u.pos)' = a
        BY <1>5, <4>5
      <4> QED
        BY <1>2, <3>1, <4>5, <4>6, <4>7
    <3> QED
      BY <3>2, <3>3
  <2>3. counter' <= x + 1 /\ (entry' # None => entry' <= x)
    <3>1. /\ counter <= sent + 1 /\ counter \in Nat /\ (entry # None => entry <= sent)
          /\ (entry # None => entry \in Nat)
      BY Unfolded, Numbers DEF CountOK, TypeOK
    <3> QED
      BY <1>1, <1>2, <1>6, <3>1
  <2> QED
    BY <1>2, <1>6, <1>7, <1>13, <2>2, <2>3 DEF CountOK
<1>21. BegunOK'
  <2>1. ASSUME NEW n \in Live', task'[n].phase \in {"Run", "Ready"} PROVE Gen(n)' \in Begun'
    <3>1. n # x
      BY <1>2, <1>8, <2>1
    <3>2. n \in Live /\ task'[n] = task[n]
      BY <1>8, <1>10, <3>1 DEF Live
    <3> QED
      BY <1>4, <2>1, <3>2, Unfolded DEF Gen, BegunOK
  <2>2. /\ mirror'.published \in Begun' \cup {None} /\ mirror'.retired \subseteq Begun' \cup {None}
        /\ \A st \in staging' : st.gen \in Begun'
    BY <1>4 DEF ClientOK
  <2>3. entry' # None => <<ClientStream, entry'>> \in Begun'
    BY <1>2, <1>4, Unfolded DEF BegunOK
  <2>4. cmd'.kind # "AttachResource"
    BY <1>2, <1>13
  <2> QED
    BY <1>13, <2>1, <2>2, <2>3, <2>4 DEF BegunOK
<1>22. PositionOK'
  <2>1. PumpOK(t)
    BY <1>2, <1>7, LogFacts, Unfolded DEF PumpOK
  <2>2. ASSUME NEW n \in Live' PROVE PumpOK(task[n])'
    <3>1. PICK u : u = task'[n]
      OBVIOUS
    <3>2. PumpOK(u)
      BY <1>8, <1>10, <2>1, <3>1, AtPump DEF Live
    <3> QED
      BY <1>5, <3>1, <3>2
  <2>3. Len(log) \in Nat
    BY LogFacts, Unfolded
  <2> QED
    BY <1>2, <1>5, <1>7, <1>13, <2>2, <2>3 DEF PositionOK
<1>23. StreamOK'
  <2>1. SUFFICES ASSUME Sound'
                 PROVE ReplicaOK' /\ (\A n \in Running(task)' : SpeakerOK(n)') /\ CommandSpeaksOK'
    BY DEF StreamOK
  <2>2. ReplicaOK /\ \A n \in Running(task) : SpeakerOK(n)
    BY <1>2, <1>4, <1>6, <2>1, SoundBefore
  <2>3. ASSUME NEW n \in Running(task) PROVE SpeakerOK(n)'
    <3>1. SpeakerOK(n) /\ task'[n] = task[n] /\ (rewound => rewound')
      BY <1>2, <1>8, <1>9, <2>2 DEF Running, Live, Witness
    <3> QED
      BY <1>2, <1>4, <3>1 DEF SpeakerOK, Gen, Staged
  <2> QED
    BY <1>4, <1>5, <1>10, <1>13, <2>2, <2>3 DEF ReplicaOK, CommandSpeaksOK
<1> QED
  BY <1>14, <1>15, <1>16, <1>17, <1>18, <1>19, <1>20, <1>21, <1>22, <1>23 DEF Inv

(* A step that only drops pumps leaves the others, and what they know of the *)
(* replica, as they were.                                                    *)
\* Dropping an OutputPumpTask; JoinSet::abort_all.
LEMMA Kept ==
    ASSUME Inv, \A n \in Commands : task'[n] \in {task[n], None},
           sent' = sent \/ sent' = sent + 1,
           UNCHANGED paneVars, UNCHANGED clientVars, Witness
    PROVE  /\ Live' \subseteq Live /\ Running(task)' \subseteq Running(task) /\ Running(task') = Running(task)'
           /\ \A n \in Live' : task'[n] = task[n] /\ task[n] # None
           /\ OnlyAttachLeavesAPump'
           /\ \A n \in Live' : PumpOK(task[n])' /\ (task[n].gen.id + At(task[n].pos) <= sent + task[n].pos)'
           /\ \A n \in Live' : task'[n].phase \in {"Run", "Ready"} => Gen(n)' \in Begun'
           /\ \A n \in Running(task)' : SpeakerOK(n) /\ native' = native => SpeakerOK(n)'
<1>1. Live' \subseteq Live /\ \A n \in Live' : n \in Commands /\ n \in Live /\ task'[n] = task[n] /\ task[n] # None
  BY DEF Live
<1>2. /\ Running(task)' \subseteq Running(task) /\ Running(task)' \subseteq Live' /\ Running(task') = Running(task)'
  BY <1>1 DEF Running, Live
<1>3. OnlyAttachLeavesAPump'
  BY <1>1, <1>2, Unfolded DEF OnlyAttachLeavesAPump
<1>4. mirror' = mirror /\ staging' = staging /\ begins' = begins /\ Begun' = Begun
  BY QuietFrame
<1>5. ASSUME NEW n \in Live' PROVE PumpOK(task[n])' /\ (task[n].gen.id + At(task[n].pos) <= sent + task[n].pos)'
  <2>1. PICK u : u = task[n] /\ u = task'[n]
    BY <1>1
  <2>2. u.gen.id + At(u.pos) <= sent + u.pos /\ u.pos \in Nat /\ u \in Tasks /\ PumpOK(u)
    BY <1>1, <2>1, AtPump
  <2>3. At(u.pos) \in Nat
    <3>1. u.pos \in 0 .. Len(log)
      BY <2>2, LogFacts, Unfolded DEF PumpOK
    <3> QED
      BY <3>1, LogFacts, Unfolded
  <2>4. u.gen.id \in Nat
    <3>1. u.gen \in Generation(Seqs, BootIds)
      BY <2>2 DEF Tasks, PumpTask
    <3> QED
      BY <3>1, Numbers DEF Generation
  <2>5. PICK i, a, p : i = u.gen.id /\ a = At(u.pos) /\ p = u.pos
    OBVIOUS
  <2>6. i + a <= sent' + p
    <3>1. sent \in Nat
      BY Unfolded
    <3> QED
      BY <2>2, <2>3, <2>4, <2>5, <3>1
  <2>7. At(u.pos)' = a /\ PumpOK(u)'
    BY <2>2, <2>5, Still
  <2> QED
    BY <2>1, <2>5, <2>6, <2>7
<1>6. ASSUME NEW n \in Live', task'[n].phase \in {"Run", "Ready"} PROVE Gen(n)' \in Begun'
  BY <1>1, <1>4, <1>6, Unfolded DEF Gen, BegunOK
<1>7. ASSUME NEW n \in Running(task)', SpeakerOK(n), native' = native PROVE SpeakerOK(n)'
  <2>1. task'[n] = task[n] /\ (rewound => rewound')
    BY <1>1, <1>2 DEF Witness
  <2> QED
    BY <1>4, <1>7, <2>1 DEF SpeakerOK, Gen, Staged
<1> QED
  BY <1>1, <1>2, <1>3, <1>5, <1>6, <1>7

(* The first half of DETACH, which aborts the JoinSet, keeps the invariant.  *)
\* detach_on_request.
LEMMA TakeDetachInv ==
    ASSUME Inv, TakeDetach
    PROVE  Inv'
<1>1. PICK x : x = sent + 1
  OBVIOUS
<1>2. /\ Open /\ cmd = None /\ sent < MaxCommands /\ sent' = x
      /\ task' = Without(JoinSetTasks) /\ cmd' = [kind |-> "Detach", step |-> "Detached"]
      /\ native' = native /\ pane' = pane /\ counter' = counter /\ entry' = entry /\ attached' = attached
      /\ usedIds' = usedIds /\ others' = others /\ closed' = closed /\ Witness
  BY <1>1 DEF TakeDetach, MayTake
<1>3. UNCHANGED paneVars /\ UNCHANGED clientVars
  BY DEF TakeDetach
<1>4. ClientOK /\ mirror' = mirror /\ staging' = staging /\ begins' = begins /\ Begun' = Begun
  BY <1>3, QuietFrame
<1>5. log' = log /\ seq' = seq
  BY <1>3, Still
<1>6. x \in Nat /\ sent \in Nat /\ x \in Commands /\ x \in 0 .. MaxCommands /\ x > 0 /\ sent <= x /\ x # sent
  BY <1>1, <1>2, Unfolded DEF Commands
<1>7. task' \in [Commands -> Tasks \cup {None}] /\ \A n \in Commands : task'[n] \in {task[n], None}
  BY <1>2, Unfolded DEF Without
<1>8. /\ Live' \subseteq Live /\ Running(task)' \subseteq Running(task) /\ Running(task') = Running(task)'
      /\ \A n \in Live' : task'[n] = task[n] /\ task[n] # None
      /\ OnlyAttachLeavesAPump'
      /\ \A n \in Live' : PumpOK(task[n])' /\ (task[n].gen.id + At(task[n].pos) <= sent + task[n].pos)'
      /\ \A n \in Live' : task'[n].phase \in {"Run", "Ready"} => Gen(n)' \in Begun'
      /\ \A n \in Running(task)' : SpeakerOK(n) => SpeakerOK(n)'
  BY <1>1, <1>2, <1>3, <1>7, Kept
<1>9. cmd' \in Command(Tasks, BootIds) /\ cmd' # None /\ cmd'.kind = "Detach" /\ cmd'.step = "Detached" /\ ~Building'
  <2>1. cmd' \in Command(Tasks, BootIds)
    BY <1>2 DEF Command
  <2> QED
    BY <1>2, <2>1, SomeCommand DEF Building
<1>10. twoSpeakers' \in BOOLEAN /\ quiet' \in BOOLEAN /\ rewound' \in BOOLEAN /\ SpeakersOK' /\ ~quiet'
  BY <1>2, <1>6, <1>9, WitnessFacts
<1>11. TypeOK'
  BY <1>2, <1>4, <1>5, <1>6, <1>7, <1>9, <1>10, Unfolded DEF TypeOK
<1>12. LogOK'
  BY <1>3, SameLog DEF Broadcasts
<1>13. TableOK'
  <2>1. ASSUME NEW n \in Live'
        PROVE  n <= x /\ task'[n].phase # "Parked" /\ (task'[n].kind = "Attach" => attached')
    <3>1. n \in Live /\ task'[n] = task[n] /\ n \in Nat
      BY <1>8, Numbers DEF Live
    <3>2. n <= sent /\ task[n].phase # "Parked" /\ (task[n].kind = "Attach" => attached)
      BY <1>2, <3>1, Unfolded DEF TableOK, Building
    <3> QED
      BY <1>2, <1>6, <3>1, <3>2
  <2>2. pane = "Absent" => task' = NoTasks
    <3>1. SUFFICES ASSUME task = NoTasks PROVE task' = NoTasks
      BY Unfolded DEF TableOK
    <3> QED
      BY <1>7, <3>1 DEF NoTasks
  <2> QED
    BY <1>2, <1>9, <1>10, <2>1, <2>2 DEF TableOK, Open
<1>14. CommandOK'
  BY <1>2, <1>6, <1>9 DEF CommandOK
<1>15. CountOK'
  <2>1. counter' <= x + 1 /\ (entry' # None => entry' <= x)
    <3>1. /\ counter <= sent + 1 /\ counter \in Nat /\ (entry # None => entry <= sent)
          /\ (entry # None => entry \in Nat)
      BY Unfolded, Numbers DEF CountOK, TypeOK
    <3> QED
      BY <1>1, <1>2, <1>6, <3>1
  <2> QED
    BY <1>2, <1>8, <1>9, <2>1 DEF CountOK
<1>16. BegunOK'
  <2>1. /\ mirror'.published \in Begun' \cup {None} /\ mirror'.retired \subseteq Begun' \cup {None}
        /\ \A st \in staging' : st.gen \in Begun'
    BY <1>4 DEF ClientOK
  <2>2. entry' # None => <<ClientStream, entry'>> \in Begun'
    BY <1>2, <1>4, Unfolded DEF BegunOK
  <2> QED
    BY <1>8, <1>9, <2>1, <2>2 DEF BegunOK
<1>17. PositionOK'
  BY <1>8, <1>9 DEF PositionOK
<1>18. StreamOK'
  <2>1. SUFFICES ASSUME Sound'
                 PROVE ReplicaOK' /\ (\A n \in Running(task)' : SpeakerOK(n)') /\ CommandSpeaksOK'
    BY DEF StreamOK
  <2>2. ReplicaOK /\ \A n \in Running(task) : SpeakerOK(n)
    BY <1>2, <1>4, <1>6, <2>1, SoundBefore
  <2> QED
    BY <1>4, <1>5, <1>8, <1>9, <2>2 DEF ReplicaOK, CommandSpeaksOK
<1> QED
  BY <1>8, <1>10, <1>11, <1>12, <1>13, <1>14, <1>15, <1>16, <1>17, <1>18 DEF Inv

\* The command c at its next await, with pump u.
Moved(c, s, u) == [c EXCEPT !.step = s, !.pump = u]

(* A command that goes on with another pump is a command.                    *)
\* The state of a handler between two awaits.
LEMMA MovedCommand ==
    ASSUME NEW c \in Command(Tasks, BootIds), c.kind # "Detach",
           NEW s \in {"Tombstone", "Capture", "Begin", "Ready"}, NEW u \in Tasks,
           NEW d, d = Moved(c, s, u)
    PROVE  /\ d \in Command(Tasks, BootIds) /\ d # None /\ d.kind = c.kind /\ d.step = s /\ d.prior = c.prior
           /\ d.pump = u /\ d.reattach = c.reattach
<1>1. PICK T, B : T = Tasks /\ B = BootIds
  OBVIOUS
<1>2. c \in Command(T, B) /\ u \in T
  BY <1>1
<1>3. c \in [kind: {"Attach", "AttachResource", "Spawn"}, step: {"Tombstone", "Capture", "Begin", "Ready"},
             prior: B \cup {None}, pump: T, reattach: BOOLEAN]
  BY <1>2 DEF Command
<1>4. /\ d \in [kind: {"Attach", "AttachResource", "Spawn"}, step: {"Tombstone", "Capture", "Begin", "Ready"},
                prior: B \cup {None}, pump: T, reattach: BOOLEAN]
      /\ d.kind = c.kind /\ d.step = s /\ d.prior = c.prior /\ d.pump = u /\ d.reattach = c.reattach
  BY <1>2, <1>3 DEF Moved
<1>5. d \in Command(T, B)
  BY <1>4 DEF Command
<1> QED
  BY <1>1, <1>4, <1>5, SomeCommand

(* The commit of an ATTACH leaves the pump it built, and no pump of another  *)
(* ATTACH.                                                                   *)
\* handle_attach: abort_all of the replaced attachment.
LEMMA Committed ==
    ASSUME Inv, Open, cmd # None, cmd.step = "Capture", task' = CommitTasks
    PROVE  /\ task' \in [Commands -> Tasks \cup {None}] /\ \A n \in Commands : task'[n] \in {task[n], None}
           /\ sent \in Commands /\ task'[sent] = task[sent]
           /\ cmd.kind = "Attach" => \A n \in Live' : n # sent => task'[n].kind # "Attach"
<1>1. sent \in Commands
  BY Unfolded DEF CommandOK, Commands, Open
<1>2. CASE cmd.reattach
  <2>1. task' = Without(JoinSetTasks \ {sent})
    BY <1>2 DEF CommitTasks
  <2>2. \A n \in Commands : task'[n] = IF n \in JoinSetTasks \ {sent} THEN None ELSE task[n]
    BY <2>1 DEF Without
  <2>3. task' \in [Commands -> Tasks \cup {None}]
    BY <2>1, Unfolded DEF Without
  <2>4. ASSUME NEW n \in Live', n # sent PROVE task'[n].kind # "Attach"
    BY <2>2, <2>4 DEF Live, JoinSetTasks
  <2> QED
    BY <1>1, <2>2, <2>3, <2>4
<1>3. CASE ~cmd.reattach
  <2>1. task' = task
    BY <1>3 DEF CommitTasks
  <2> QED
    BY <1>1, <1>3, <2>1, Unfolded DEF CommandOK, Open, Live
<1> QED
  BY <1>2, <1>3

(* Fixing the cut of a command's pump keeps the invariant.                   *)
\* capture_panes, establish_generation.
LEMMA CaptureInv ==
    ASSUME Inv, Capture
    PROVE  Inv'
<1>1. /\ Open /\ cmd # None /\ cmd.step = "Capture" /\ task' = CommitTasks
      /\ cmd' = [cmd EXCEPT !.step = "Begin", !.pump.gen = CutAt(@, seq)]
      /\ native' = native /\ pane' = pane /\ counter' = counter /\ entry' = entry /\ attached' = attached
      /\ usedIds' = usedIds /\ sent' = sent /\ others' = others /\ closed' = closed /\ Witness
  BY DEF Capture
<1>2. UNCHANGED paneVars /\ UNCHANGED clientVars
  BY DEF Capture
<1>3. ClientOK /\ mirror' = mirror /\ staging' = staging /\ begins' = begins /\ Begun' = Begun
  BY <1>2, QuietFrame
<1>4. log' = log /\ seq' = seq /\ \A i : At(i)' = At(i)
  BY <1>2, Still
<1>5. /\ task' \in [Commands -> Tasks \cup {None}] /\ \A n \in Commands : task'[n] \in {task[n], None}
      /\ sent \in Commands /\ task'[sent] = task[sent]
      /\ cmd.kind = "Attach" => \A n \in Live' : n # sent => task'[n].kind # "Attach"
  BY <1>1, Committed
<1>6. /\ Live' \subseteq Live /\ Running(task)' \subseteq Running(task) /\ Running(task') = Running(task)'
      /\ \A n \in Live' : task'[n] = task[n] /\ task[n] # None
      /\ OnlyAttachLeavesAPump'
      /\ \A n \in Live' : PumpOK(task[n])' /\ (task[n].gen.id + At(task[n].pos) <= sent + task[n].pos)'
      /\ \A n \in Live' : task'[n].phase \in {"Run", "Ready"} => Gen(n)' \in Begun'
      /\ \A n \in Running(task)' : SpeakerOK(n) => SpeakerOK(n)'
  BY <1>1, <1>2, <1>5, Kept
<1>7. /\ cmd.kind # "Detach" /\ cmd.pump \in Tasks /\ cmd.pump.gen.id \in BootIds /\ cmd.pump.pos \in Nat
  BY <1>1, CommandFacts
<1>8. seq \in Seqs /\ seq \in Nat /\ Len(log) \in Nat
  BY LogFacts, Unfolded
<1>9. PICK t, i : t = cmd.pump /\ i = cmd.pump.gen.id
  OBVIOUS
<1>10. PICK h : h = OpenedAt(seq, i)
  OBVIOUS
<1>11. PICK u : u = [t EXCEPT !.gen = h]
  OBVIOUS
<1>12. /\ u \in Tasks /\ u.stream = t.stream /\ u.pos = t.pos /\ u.gen = h /\ h.id = i /\ h.cut = seq
  <2>1. 0 \in 0 .. GapBudget
    BY GapBudgetAssumption
  <2>2. h \in Generation(Seqs, BootIds) /\ h.id = i /\ h.cut = seq
    BY <1>7, <1>8, <1>9, <1>10, <2>1 DEF Generation, OpenedAt
  <2>3. t \in Tasks
    BY <1>7, <1>9
  <2> QED
    BY <1>11, <2>2, <2>3 DEF Tasks, PumpTask
<1>13. /\ cmd' \in Command(Tasks, BootIds) /\ cmd' # None /\ cmd'.kind = cmd.kind /\ cmd'.step = "Begin"
       /\ cmd'.prior = cmd.prior /\ cmd'.pump = u /\ cmd'.reattach = cmd.reattach
  <2>1. cmd' = [cmd EXCEPT !.step = "Begin", !.pump = u]
    BY <1>1, <1>9, <1>10, <1>11 DEF CutAt
  <2>2. PICK d : d = cmd'
    OBVIOUS
  <2>3. PICK s \in {"Tombstone", "Capture", "Begin", "Ready"} : s = "Begin"
    OBVIOUS
  <2>4. d = [cmd EXCEPT !.step = s, !.pump = u]
    BY <2>1, <2>2, <2>3
  <2>5. /\ d \in Command(Tasks, BootIds) /\ d # None /\ d.kind = cmd.kind /\ d.step = s /\ d.prior = cmd.prior
        /\ d.pump = u /\ d.reattach = cmd.reattach
    <3>1. PICK c : c = cmd
      OBVIOUS
    <3>2. c \in Command(Tasks, BootIds) /\ c.kind # "Detach" /\ u \in Tasks /\ d = Moved(c, s, u)
      BY <1>1, <1>7, <1>12, <2>4, <3>1, Unfolded DEF TypeOK, Moved
    <3> QED
      BY <3>1, <3>2, MovedCommand
  <2> QED
    BY <2>2, <2>3, <2>5
<1>14. Building /\ Building'
  BY <1>1, <1>13 DEF Building
<1>15. twoSpeakers' \in BOOLEAN /\ quiet' \in BOOLEAN /\ rewound' \in BOOLEAN /\ SpeakersOK' /\ ~quiet'
  <2>1. ~quiet
    BY <1>1, Unfolded DEF TableOK
  <2> QED
    BY <1>1, <1>5, <1>13, <2>1, WitnessFacts
<1>16. TypeOK'
  BY <1>1, <1>3, <1>4, <1>5, <1>13, <1>15, Unfolded DEF TypeOK
<1>17. LogOK'
  BY <1>2, SameLog DEF Broadcasts
<1>18. TableOK'
  <2>1. ASSUME NEW n \in Live'
        PROVE  n <= sent /\ (task'[n].phase = "Parked" => n = sent) /\ (task'[n].kind = "Attach" => attached')
    BY <1>1, <1>6, Unfolded DEF TableOK
  <2>2. pane # "Absent"
    BY <1>1, <1>7, Unfolded DEF TableOK
  <2> QED
    BY <1>1, <1>14, <1>15, <2>1, <2>2 DEF TableOK, Open
<1>19. CommandOK'
  <2>1. /\ sent > 0 /\ task[sent] # None /\ task[sent].phase = "Parked" /\ task[sent].kind = cmd.kind
        /\ task[sent].stream = cmd.pump.stream /\ task[sent].pos = cmd.pump.pos
        /\ cmd.kind \in {"AttachResource", "Spawn"} => Live \subseteq {sent}
    BY <1>1, <1>14, Unfolded DEF CommandOK, Open
  <2> QED
    BY <1>1, <1>5, <1>6, <1>9, <1>12, <1>13, <2>1 DEF CommandOK
<1>20. CountOK'
  BY <1>1, <1>6, <1>7, <1>9, <1>12, <1>13, Unfolded DEF CountOK
<1>21. BegunOK'
  <2>1. /\ mirror'.published \in Begun' \cup {None} /\ mirror'.retired \subseteq Begun' \cup {None}
        /\ \A st \in staging' : st.gen \in Begun'
    BY <1>3 DEF ClientOK
  <2>2. entry' # None /\ cmd'.kind # "AttachResource" => <<ClientStream, entry'>> \in Begun'
    BY <1>1, <1>3, <1>13, Unfolded DEF BegunOK
  <2>3. cmd'.kind = "AttachResource" => cmd'.pump.stream = ClientStream /\ (entry' = None \/ entry' = cmd'.pump.gen.id)
    BY <1>1, <1>9, <1>12, <1>13, Unfolded DEF BegunOK
  <2> QED
    BY <1>6, <1>13, <2>1, <2>2, <2>3 DEF BegunOK
<1>22. PositionOK'
  <2>1. t.pos <= Len(log) /\ t.pos \in Nat
    BY <1>1, <1>7, <1>9, Unfolded DEF PositionOK
  <2>2. At(t.pos) <= seq
    <3>1. t.pos \in 0 .. Len(log)
      BY <1>8, <2>1
    <3> QED
      BY <3>1, LogFacts, Unfolded
  <2>3. u.gen = OpenedAt(u.gen.cut, u.gen.id) /\ u.gen.cut = seq
    BY <1>10, <1>12
  <2> QED
    BY <1>4, <1>6, <1>8, <1>12, <1>13, <2>1, <2>2, <2>3 DEF PositionOK
<1>23. StreamOK'
  <2>1. SUFFICES ASSUME Sound'
                 PROVE ReplicaOK' /\ (\A n \in Running(task)' : SpeakerOK(n)') /\ CommandSpeaksOK'
    BY DEF StreamOK
  <2>2. ReplicaOK /\ \A n \in Running(task) : SpeakerOK(n)
    BY <1>1, <1>3, <1>5, <2>1, SoundBefore
  <2>3. CommandSpeaksOK'
    BY <1>3, <1>12, <1>13, <2>2 DEF ReplicaOK, CommandSpeaksOK
  <2> QED
    BY <1>3, <1>4, <1>6, <2>2, <2>3 DEF ReplicaOK
<1> QED
  BY <1>6, <1>15, <1>16, <1>17, <1>18, <1>19, <1>20, <1>21, <1>22, <1>23 DEF Inv

\* The command being handled, at its next await.
Advanced(s) == [cmd EXCEPT !.step = s]

(* A command that reaches its next await is a command.                       *)
\* The state of a handler between two awaits.
LEMMA AdvancedCommand ==
    ASSUME Inv, cmd # None, cmd.kind # "Detach", NEW s \in {"Tombstone", "Capture", "Begin", "Ready"},
           cmd' = Advanced(s)
    PROVE  /\ cmd' \in Command(Tasks, BootIds) /\ cmd' # None /\ cmd'.kind = cmd.kind /\ cmd'.step = s
           /\ cmd'.prior = cmd.prior /\ cmd'.pump = cmd.pump /\ cmd'.reattach = cmd.reattach
<1>1. PICK c, d, u : c = cmd /\ d = cmd' /\ u = cmd.pump
  OBVIOUS
<1>2. PICK T, B : T = Tasks /\ B = BootIds
  OBVIOUS
<1>3. c \in Command(T, B) /\ c.kind # "Detach"
  BY <1>1, <1>2, Unfolded DEF TypeOK
<1>4. c \in [kind: {"Attach", "AttachResource", "Spawn"}, step: {"Tombstone", "Capture", "Begin", "Ready"},
             prior: B \cup {None}, pump: T, reattach: BOOLEAN]
  BY <1>3 DEF Command
<1>5. d = [c EXCEPT !.step = s]
  BY <1>1 DEF Advanced
<1>6. d = [c EXCEPT !.step = s, !.pump = c.pump]
  BY <1>4, <1>5
<1>7. c \in Command(Tasks, BootIds) /\ u \in Tasks /\ d = Moved(c, s, u)
  BY <1>1, <1>2, <1>3, <1>4, <1>6 DEF Moved
<1>8. /\ d \in Command(Tasks, BootIds) /\ d # None /\ d.kind = c.kind /\ d.step = s /\ d.prior = c.prior
      /\ d.pump = u /\ d.reattach = c.reattach
  BY <1>3, <1>7, MovedCommand
<1> QED
  BY <1>1, <1>8

(* The tombstone of the prior generation, after which the new pump is        *)
(* registered, keeps the invariant.                                          *)
\* establish_generation.
LEMMA ReplaceInv ==
    ASSUME Inv, Replace
    PROVE  Inv'
<1>1. /\ Open /\ cmd # None /\ cmd.step = "Tombstone" /\ task' = [task EXCEPT ![sent] = cmd.pump]
      /\ cmd' = Advanced("Capture")
      /\ native' = native /\ pane' = pane /\ counter' = counter /\ entry' = entry /\ attached' = attached
      /\ usedIds' = usedIds /\ sent' = sent /\ others' = others /\ closed' = closed /\ Witness
  BY DEF Replace, Advanced
<1>2. UNCHANGED paneVars
  BY DEF Replace
<1>3. /\ cmd.kind = "AttachResource" /\ task = NoTasks /\ sent \in Commands /\ sent > 0
      /\ cmd.pump.kind = "AttachResource" /\ cmd.pump.phase = "Parked"
  BY <1>1, Unfolded DEF CommandOK, Open, Commands
<1>4. PICK t : t = cmd.pump
  OBVIOUS
<1>5. /\ t \in Tasks /\ t # None /\ t.kind = "AttachResource" /\ t.phase = "Parked" /\ t.pos \in Nat
      /\ cmd.prior \in BootIds \cup {None} /\ t.stream = ClientStream /\ t.stream \in Streams
      /\ cmd.pump.gen.id \in BootIds
  BY <1>1, <1>3, <1>4, CommandFacts, SomePump, Unfolded DEF BegunOK
<1>6. log' = log /\ seq' = seq /\ (\A i : At(i)' = At(i)) /\ \A v : PumpOK(v)' <=> PumpOK(v)
  BY <1>2, Still
<1>7. /\ ClientOK /\ begins' = begins /\ Begun' = Begun
      /\ mirror'.published = mirror.published /\ mirror'.next = mirror.next /\ mirror'.content = mirror.content
      /\ mirror'.error = mirror.error
  <2>1. CASE cmd.prior = None
    <3>1. UNCHANGED clientVars
      BY <2>1 DEF Replace
    <3> QED
      BY <3>1, QuietFrame
  <2>2. CASE cmd.prior # None
    <3>1. PICK g : g = <<cmd.pump.stream, cmd.prior>>
      OBVIOUS
    <3>2. g \in Gens
      BY <1>4, <1>5, <2>2, <3>1 DEF Gens
    <3>3. g \in Begun
      BY <1>1, <1>3, <2>2, <3>1, Unfolded DEF BegunOK
    <3>4. TombstoneFrame(g)
      BY <2>2, <3>1 DEF Replace
    <3> QED
      BY <3>2, <3>3, <3>4, AfterTombstone
  <2> QED
    BY <2>1, <2>2
<1>8. /\ cmd' \in Command(Tasks, BootIds) /\ cmd' # None /\ cmd'.kind = "AttachResource" /\ cmd'.step = "Capture"
      /\ cmd'.prior = cmd.prior /\ cmd'.pump = t /\ Building'
  BY <1>1, <1>3, <1>4, AdvancedCommand DEF Building
<1>9. task' \in [Commands -> Tasks \cup {None}] /\ task'[sent] = t /\ \A m \in Commands : m # sent => task'[m] = None
  BY <1>1, <1>3, <1>4, <1>5, Unfolded DEF NoTasks
<1>10. Live' = {sent} /\ Running(task') = {} /\ Running(task)' = {}
  BY <1>3, <1>5, <1>9 DEF Live, Running
<1>11. twoSpeakers' \in BOOLEAN /\ quiet' \in BOOLEAN /\ rewound' \in BOOLEAN /\ SpeakersOK' /\ ~quiet'
  <2>1. ~quiet
    BY <1>1, Unfolded DEF TableOK
  <2> QED
    BY <1>1, <1>3, <1>8, <2>1, WitnessFacts
<1>12. TypeOK'
  BY <1>1, <1>6, <1>7, <1>8, <1>9, <1>11, Unfolded DEF TypeOK, ClientOK, KernelType
<1>13. LogOK'
  BY <1>2, SameLog DEF Broadcasts
<1>14. TableOK'
  <2>1. pane # "Absent"
    BY <1>1, <1>3, Unfolded DEF TableOK
  <2> QED
    BY <1>1, <1>5, <1>8, <1>9, <1>10, <1>11, <2>1, Unfolded DEF TableOK, Open
<1>15. CommandOK' /\ OnlyAttachLeavesAPump'
  BY <1>1, <1>3, <1>5, <1>8, <1>9, <1>10 DEF CommandOK, OnlyAttachLeavesAPump
<1>16. PumpOK(t) /\ At(t.pos) \in Nat /\ At(t.pos) <= t.pos /\ t.pos <= Len(log) /\ t.gen.id <= sent
       /\ t.gen = OpenedAt(t.gen.cut, t.gen.id)
  <2>1. t.pos <= Len(log) /\ t.gen = OpenedAt(t.gen.cut, t.gen.id)
    BY <1>1, <1>3, <1>4, Unfolded DEF PositionOK
  <2>2. t.gen.active /\ ~t.gen.gap
    <3>1. PICK c, i : c = t.gen.cut /\ i = t.gen.id
      OBVIOUS
    <3>2. t.gen = OpenedAt(c, i)
      BY <2>1, <3>1
    <3> QED
      BY <3>2 DEF OpenedAt
  <2>3. PumpOK(t)
    BY <1>5, <2>1, <2>2 DEF PumpOK
  <2>4. t.pos \in 0 .. Len(log)
    BY <1>5, <2>1, LogFacts, Unfolded
  <2>5. t.gen.id <= sent
    BY <1>1, <1>3, <1>4, Unfolded DEF CountOK
  <2> QED
    BY <2>1, <2>3, <2>4, <2>5, LogFacts, Unfolded
<1>17. CountOK'
  <2>1. t.gen.id + At(t.pos) <= sent + t.pos
    <3>1. PICK i, a, p : i = t.gen.id /\ a = At(t.pos) /\ p = t.pos
      OBVIOUS
    <3>2. i \in Nat /\ sent \in Nat
      BY <1>4, <1>5, <3>1, Numbers, Unfolded
    <3>3. i + a <= sent + p
      BY <1>5, <1>16, <3>1, <3>2
    <3> QED
      BY <3>1, <3>3
  <2>2. At(t.pos)' = At(t.pos)
    BY <1>6
  <2>3. (task[sent].gen.id + At(task[sent].pos) <= sent + task[sent].pos)'
    BY <1>1, <1>9, <2>1, <2>2
  <2> QED
    BY <1>1, <1>3, <1>4, <1>8, <1>10, <2>3, Unfolded DEF CountOK
<1>18. BegunOK'
  <2>1. /\ mirror'.published \in Begun' \cup {None} /\ mirror'.retired \subseteq Begun' \cup {None}
        /\ \A st \in staging' : st.gen \in Begun'
    BY <1>7 DEF ClientOK
  <2>2. cmd'.pump.stream = ClientStream /\ (entry' = None \/ entry' = cmd'.pump.gen.id)
    BY <1>1, <1>3, <1>4, <1>8, Unfolded DEF BegunOK
  <2> QED
    BY <1>5, <1>8, <1>9, <1>10, <2>1, <2>2 DEF BegunOK
<1>19. PositionOK'
  BY <1>6, <1>8, <1>9, <1>10, <1>16 DEF PositionOK
<1>20. StreamOK'
  <2>1. SUFFICES ASSUME Sound' PROVE ReplicaOK' /\ CommandSpeaksOK'
    BY <1>10 DEF StreamOK
  <2>2. ReplicaOK
    BY <1>1, <1>3, <1>7, <2>1, SoundBefore
  <2> QED
    BY <1>6, <1>7, <1>8, <2>2 DEF ReplicaOK, CommandSpeaksOK
<1> QED
  BY <1>11, <1>12, <1>13, <1>14, <1>15, <1>17, <1>18, <1>19, <1>20 DEF Inv

(* A command that is building a stream has its own pump parked in the table. *)
\* OutputPumpStart.
LEMMA Parks ==
    ASSUME Inv, Open, Building
    PROVE  /\ sent \in Commands /\ sent > 0 /\ cmd.kind # "Detach" /\ cmd.pump \in Tasks
           /\ task[sent] # None /\ task[sent] \in Tasks /\ sent \in Live
           /\ task[sent].phase = "Parked" /\ task[sent].kind = cmd.kind
           /\ task[sent].stream = cmd.pump.stream /\ task[sent].pos = cmd.pump.pos
           /\ cmd # None /\ pane # "Absent" /\ ~quiet
           /\ cmd.pump.pos <= Len(log) /\ cmd.pump.pos \in Nat /\ CommandGen \in Gens
<1>1. cmd # None /\ ~closed
  BY DEF Building, Open
<1>2. cmd.kind # "Detach" /\ cmd.pump \in Tasks /\ cmd.pump.pos \in Nat /\ CommandGen \in Gens
  BY <1>1, CommandFacts
<1>3. /\ sent > 0 /\ task[sent] # None /\ task[sent].phase = "Parked" /\ task[sent].kind = cmd.kind
      /\ task[sent].stream = cmd.pump.stream /\ task[sent].pos = cmd.pump.pos
  BY <1>1, Unfolded DEF CommandOK
<1>4. sent \in Commands
  BY <1>3, Unfolded DEF Commands
<1>5. task[sent] \in Tasks /\ sent \in Live
  BY <1>3, <1>4, Unfolded DEF Live
<1>6. pane # "Absent" /\ ~quiet
  BY <1>1, <1>2, Unfolded DEF TableOK
<1>7. cmd.pump.pos <= Len(log)
  BY <1>1, <1>2, Unfolded DEF PositionOK
<1> QED
  BY <1>1, <1>2, <1>3, <1>4, <1>5, <1>6, <1>7

(* A command's BEGIN keeps the invariant: it stages its generation at the    *)
(* cut its pump will start from.                                             *)
\* establish_generation, BOOTSTRAP_BEGIN.
LEMMA SendBeginInv ==
    ASSUME Inv, SendBegin
    PROVE  Inv'
<1>1. /\ Open /\ cmd # None /\ cmd.step = "Begin" /\ cmd' = Advanced("Ready")
      /\ BeginFrame(CommandGen, cmd.pump.gen.cut)
      /\ native' = native /\ pane' = pane /\ counter' = counter /\ entry' = entry /\ attached' = attached
      /\ usedIds' = usedIds /\ sent' = sent /\ others' = others /\ closed' = closed /\ task' = task /\ Witness
  BY DEF SendBegin, Advanced, serverVars, CommandGen
<1>2. UNCHANGED paneVars /\ Building
  BY <1>1 DEF SendBegin, Building
<1>3. /\ sent \in Commands /\ cmd.kind # "Detach" /\ task[sent] # None /\ task[sent].phase = "Parked"
      /\ pane # "Absent" /\ ~quiet /\ CommandGen \in Gens
  BY <1>1, <1>2, Parks
<1>4. log' = log /\ seq' = seq /\ (\A i : At(i)' = At(i)) /\ \A v : PumpOK(v)' <=> PumpOK(v)
  BY <1>2, Still
<1>5. /\ cmd' \in Command(Tasks, BootIds) /\ cmd' # None /\ cmd'.kind = cmd.kind /\ cmd'.step = "Ready"
      /\ cmd'.prior = cmd.prior /\ cmd'.pump = cmd.pump /\ cmd'.reattach = cmd.reattach /\ Building'
      /\ CommandGen' = CommandGen
  BY <1>1, <1>3, AdvancedCommand DEF Building, CommandGen
<1>6. PICK g, b : g = CommandGen /\ b = cmd.pump.gen.cut
  OBVIOUS
<1>7. b \in 0 .. MaxOutput /\ b <= seq
  <2>1. b <= seq /\ b \in Nat
    BY <1>1, <1>3, <1>6, CommandFacts, Numbers, Unfolded DEF PositionOK
  <2>2. seq <= MaxOutput /\ seq \in Nat
    BY LogFacts, Unfolded DEF LogOK
  <2> QED
    BY <2>1, <2>2, StreamsAssumption
<1>8. /\ ClientOK /\ begins' = Append(begins, g) /\ Begun' = Begun \cup {g}
      /\ mirror'.published = mirror.published /\ mirror'.next = mirror.next /\ mirror'.content = mirror.content
      /\ GenerationsAreFresh' =>
           /\ mirror'.error = mirror.error
           /\ staging' = {[gen |-> g, base |-> b]} /\ g \notin mirror'.retired \cup {mirror'.published}
  <2>1. g \in Gens /\ BeginFrame(g, b)
    BY <1>1, <1>3, <1>6
  <2> QED
    BY <1>7, <2>1, AfterBegin
<1>9. Live' = Live /\ Running(task') = Running(task) /\ Running(task)' = Running(task)
  BY <1>1 DEF Live, Running
<1>10. twoSpeakers' \in BOOLEAN /\ quiet' \in BOOLEAN /\ rewound' \in BOOLEAN /\ SpeakersOK' /\ ~quiet'
  BY <1>1, <1>3, <1>5, WitnessFacts
<1>11. TypeOK'
  BY <1>1, <1>4, <1>5, <1>8, <1>10, Unfolded DEF TypeOK, ClientOK, KernelType
<1>12. LogOK'
  BY <1>2, SameLog DEF Broadcasts
<1>13. TableOK'
  BY <1>1, <1>3, <1>5, <1>9, <1>10, Unfolded DEF TableOK, Open
<1>14. CommandOK' /\ OnlyAttachLeavesAPump'
  <2>1. CommandOK'
    BY <1>1, <1>2, <1>5, <1>9, Unfolded DEF CommandOK
  <2> QED
    BY <1>1, <1>9, <2>1, Unfolded DEF OnlyAttachLeavesAPump
<1>15. CountOK'
  <2>1. ASSUME NEW n \in Live PROVE (task[n].gen.id + At(task[n].pos) <= sent + task[n].pos)'
    <3>1. PICK p : p = task[n].pos
      OBVIOUS
    <3>2. task[n].gen.id + At(p) <= sent + p /\ At(p)' = At(p)
      BY <1>4, <3>1, AtPump
    <3> QED
      BY <1>1, <3>1, <3>2
  <2> QED
    BY <1>1, <1>5, <1>9, <2>1, Unfolded DEF CountOK
<1>16. BegunOK'
  <2>1. /\ mirror'.published \in Begun' \cup {None} /\ mirror'.retired \subseteq Begun' \cup {None}
        /\ \A st \in staging' : st.gen \in Begun'
    BY <1>8 DEF ClientOK
  <2>2. \A n \in Live' : task'[n].phase \in {"Run", "Ready"} => Gen(n)' \in Begun'
    BY <1>1, <1>8, <1>9, Unfolded DEF BegunOK, Gen
  <2>3. entry' # None /\ cmd'.kind # "AttachResource" => <<ClientStream, entry'>> \in Begun'
    BY <1>1, <1>5, <1>8, Unfolded DEF BegunOK
  <2>4. cmd'.kind = "AttachResource" => cmd'.pump.stream = ClientStream /\ (entry' = None \/ entry' = cmd'.pump.gen.id)
    BY <1>1, <1>5, Unfolded DEF BegunOK
  <2>5. CommandGen' \in Begun'
    BY <1>5, <1>6, <1>8
  <2> QED
    BY <1>5, <2>1, <2>2, <2>3, <2>4, <2>5 DEF BegunOK
<1>17. PositionOK'
  <2>1. ASSUME NEW n \in Live PROVE PumpOK(task[n])'
    <3>1. PICK v : v = task[n]
      OBVIOUS
    <3>2. PumpOK(v)'
      BY <1>4, <3>1, AtPump
    <3> QED
      BY <1>1, <3>1, <3>2
  <2>2. PICK p : p = cmd.pump.pos
    OBVIOUS
  <2>3. /\ p <= Len(log) /\ cmd.pump.gen = OpenedAt(cmd.pump.gen.cut, cmd.pump.gen.id)
        /\ At(p) <= cmd.pump.gen.cut /\ cmd.pump.gen.cut <= seq /\ At(p)' = At(p)
    BY <1>1, <1>3, <1>4, <2>2, Unfolded DEF PositionOK
  <2> QED
    BY <1>4, <1>5, <1>9, <2>1, <2>2, <2>3 DEF PositionOK
<1>18. StreamOK'
  <2>1. SUFFICES ASSUME Sound'
                 PROVE ReplicaOK' /\ (\A n \in Running(task)' : SpeakerOK(n)') /\ CommandSpeaksOK'
    BY DEF StreamOK
  <2>2. begins' = begins \/ \E h \in Gens : begins' = Append(begins, h)
    BY <1>3, <1>6, <1>8
  <2>3. ReplicaOK /\ CommandSpeaksOK
    BY <1>1, <1>3, <2>1, <2>2, SoundBefore DEF Open
  <2>4. Running(task) = {}
    <3>1. \A n \in Running(task') : n = sent'
      BY <1>5, <1>10, <2>1 DEF SpeakersOK, Sound, Speakers
    <3> QED
      BY <1>1, <1>3, <3>1 DEF Running
  <2>5. ReplicaOK'
    BY <1>4, <1>8, <2>1, <2>3 DEF ReplicaOK, Sound
  <2>6. Staged(g, b)'
    BY <1>8, <2>1 DEF Staged, Sound
  <2>7. mirror'.content <= b
    BY <1>1, <1>6, <1>8, <2>3, <2>4 DEF CommandSpeaksOK
  <2>8. CommandSpeaksOK'
    <3>1. (cmd.pump.gen.cut)' = b /\ CommandGen' = g
      BY <1>5, <1>6
    <3> QED
      BY <2>6, <2>7, <3>1 DEF CommandSpeaksOK, Staged
  <2> QED
    BY <1>9, <2>4, <2>5, <2>8
<1> QED
  BY <1>10, <1>11, <1>12, <1>13, <1>14, <1>15, <1>16, <1>17, <1>18 DEF Inv

(* The pump a command releases starts at the published cut, at or behind     *)
(* which its receiver was subscribed.                                        *)
\* OutputPumpStart, activate_native_publication.
LEMMA Releases ==
    ASSUME Inv, SendReady
    PROVE  \E t : LET o == task[sent]
                      h == cmd.pump.gen IN
              /\ t \in Tasks /\ t # None /\ t.kind = o.kind /\ t.stream = o.stream /\ t.pos = o.pos /\ t.gen = h
              /\ t.phase = "Run" /\ task' = [task EXCEPT ![sent] = t] /\ task' \in [Commands -> Tasks \cup {None}]
              /\ h.cut <= seq /\ h.cut \in Nat /\ h.last = h.cut /\ h.active /\ ~h.gap
              /\ At(o.pos) <= h.cut /\ At(o.pos) \in Nat /\ h.id <= sent /\ h.id \in Nat
<1>1. /\ Open /\ cmd # None /\ cmd.step = "Ready" /\ cmd' = None
      /\ ReadyFrame(CommandGen) /\ task' = [task EXCEPT ![sent] = Released(@, cmd.pump.gen)]
      /\ native' = native /\ pane' = pane /\ counter' = counter /\ entry' = entry /\ attached' = attached
      /\ usedIds' = usedIds /\ sent' = sent /\ others' = others /\ closed' = closed /\ Witness
  BY DEF SendReady, CommandGen
<1>2. UNCHANGED paneVars /\ Building /\ ~Building'
  BY <1>1 DEF SendReady, Building
<1>3. /\ sent \in Commands /\ cmd.kind # "Detach" /\ task[sent] # None /\ task[sent] \in Tasks /\ sent \in Live
      /\ task[sent].phase = "Parked" /\ task[sent].kind = cmd.kind /\ task[sent].stream = cmd.pump.stream
      /\ task[sent].pos = cmd.pump.pos /\ pane # "Absent" /\ ~quiet /\ CommandGen \in Gens
      /\ cmd.pump.pos \in Nat /\ cmd.pump.pos <= Len(log)
  BY <1>1, <1>2, Parks
<1>4. log' = log /\ seq' = seq /\ (\A i : At(i)' = At(i)) /\ \A v : PumpOK(v)' <=> PumpOK(v)
  BY <1>2, Still
<1>5. PICK o, h, l : o = task[sent] /\ h = cmd.pump.gen /\ l = LiveFrom(o)
  OBVIOUS
<1>6. PICK t : t = [o EXCEPT !.gen = h, !.phase = "Run", !.live = l]
  OBVIOUS
<1>7. /\ h \in Generation(Seqs, BootIds) /\ h.cut <= seq /\ h.cut \in Nat /\ h.last = h.cut /\ h.active /\ ~h.gap
      /\ At(o.pos) <= h.cut /\ At(o.pos) \in Nat /\ h.id <= sent /\ h.id \in Nat
  <2>1. h \in Generation(Seqs, BootIds)
    BY <1>1, <1>3, <1>5, CommandFacts
  <2>2. At(cmd.pump.pos) <= h.cut /\ h.cut <= seq /\ h = OpenedAt(h.cut, h.id)
    BY <1>1, <1>3, <1>5, Unfolded DEF PositionOK
  <2>3. h.cut \in Nat /\ h.id \in Nat
    BY <2>1, Numbers DEF Generation
  <2>4. h.last = h.cut /\ h.active /\ ~h.gap
    <3>1. PICK c, i : c = h.cut /\ i = h.id
      OBVIOUS
    <3>2. h = OpenedAt(c, i)
      BY <2>2, <3>1
    <3> QED
      BY <3>1, <3>2 DEF OpenedAt
  <2>5. cmd.pump.pos \in 0 .. Len(log)
    BY <1>3, LogFacts, Unfolded
  <2>6. At(cmd.pump.pos) \in Nat
    BY <2>5, LogFacts, Unfolded
  <2>7. h.id <= sent
    BY <1>1, <1>3, <1>5, Unfolded DEF CountOK
  <2> QED
    BY <1>3, <1>5, <2>1, <2>2, <2>3, <2>4, <2>6, <2>7
<1>8. /\ t \in Tasks /\ t # None /\ t.kind = o.kind /\ t.stream = o.stream /\ t.pos = o.pos /\ t.gen = h
      /\ t.phase = "Run"
  <2>1. l \in 0 .. MaxOutput + MaxResyncs
    <3>1. Len(log) \in 0 .. MaxOutput + MaxResyncs
      BY LogFacts, Unfolded
    <3>2. o.live \in 0 .. MaxOutput + MaxResyncs
      BY <1>3, <1>5 DEF Tasks, PumpTask
    <3> QED
      BY <1>5, <3>1, <3>2 DEF LiveFrom
  <2>2. o \in Tasks
    BY <1>3, <1>5
  <2>3. /\ t \in Tasks /\ t.kind = o.kind /\ t.stream = o.stream /\ t.pos = o.pos /\ t.gen = h /\ t.phase = "Run"
    BY <1>6, <1>7, <2>1, <2>2 DEF Tasks, PumpTask
  <2> QED
    BY <2>3, SomePump
<1>9. task' = [task EXCEPT ![sent] = t] /\ task' \in [Commands -> Tasks \cup {None}]
  BY <1>1, <1>3, <1>5, <1>6, <1>8, Unfolded DEF Released
<1> QED
  BY <1>5, <1>7, <1>8, <1>9

(* A command's READY, which releases its pump, keeps the invariant.          *)
\* establish_generation, BOOTSTRAP_READY.
LEMMA SendReadyInv ==
    ASSUME Inv, SendReady
    PROVE  Inv'
<1>1. /\ Open /\ cmd # None /\ cmd.step = "Ready" /\ cmd' = None
      /\ ReadyFrame(CommandGen) /\ task' = [task EXCEPT ![sent] = Released(@, cmd.pump.gen)]
      /\ native' = native /\ pane' = pane /\ counter' = counter /\ entry' = entry /\ attached' = attached
      /\ usedIds' = usedIds /\ sent' = sent /\ others' = others /\ closed' = closed /\ Witness
  BY DEF SendReady, CommandGen
<1>2. UNCHANGED paneVars /\ Building /\ ~Building'
  BY <1>1 DEF SendReady, Building
<1>3. /\ sent \in Commands /\ cmd.kind # "Detach" /\ task[sent] # None /\ task[sent] \in Tasks /\ sent \in Live
      /\ task[sent].phase = "Parked" /\ task[sent].kind = cmd.kind /\ task[sent].stream = cmd.pump.stream
      /\ task[sent].pos = cmd.pump.pos /\ pane # "Absent" /\ ~quiet /\ CommandGen \in Gens
      /\ cmd.pump.pos \in Nat /\ cmd.pump.pos <= Len(log)
  BY <1>1, <1>2, Parks
<1>4. log' = log /\ seq' = seq /\ (\A i : At(i)' = At(i)) /\ \A v : PumpOK(v)' <=> PumpOK(v)
  BY <1>2, Still
<1>5. PICK o, h : o = task[sent] /\ h = cmd.pump.gen
  OBVIOUS
<1>6. PICK t : /\ t \in Tasks /\ t # None /\ t.kind = o.kind /\ t.stream = o.stream /\ t.pos = o.pos /\ t.gen = h
               /\ t.phase = "Run" /\ task' = [task EXCEPT ![sent] = t] /\ task' \in [Commands -> Tasks \cup {None}]
               /\ h.cut <= seq /\ h.cut \in Nat /\ h.last = h.cut /\ h.active /\ ~h.gap
               /\ At(o.pos) <= h.cut /\ At(o.pos) \in Nat /\ h.id <= sent /\ h.id \in Nat
  BY <1>5, Releases
<1>7. /\ h.cut <= seq /\ h.cut \in Nat /\ h.last = h.cut /\ h.active /\ ~h.gap
      /\ At(o.pos) <= h.cut /\ At(o.pos) \in Nat /\ h.id <= sent /\ h.id \in Nat
  BY <1>6
<1>8. /\ t \in Tasks /\ t # None /\ t.kind = o.kind /\ t.stream = o.stream /\ t.pos = o.pos /\ t.gen = h
      /\ t.phase = "Run"
  BY <1>6
<1>9. task' = [task EXCEPT ![sent] = t] /\ task' \in [Commands -> Tasks \cup {None}]
  BY <1>6
<1>10. task'[sent] = t /\ \A m \in Commands : m # sent => task'[m] = task[m]
  BY <1>3, <1>9, Unfolded
<1>11. Live' = Live /\ Running(task)' = Running(task) \cup {sent} /\ Running(task') = Running(task)' /\ sent \notin Running(task)
  BY <1>3, <1>8, <1>10 DEF Live, Running
<1>12. PICK g : g = CommandGen
  OBVIOUS
<1>13. /\ g \in Gens /\ g \in Begun /\ Gen(sent)' = g /\ g = <<t.stream, t.gen.id>>
  <2>1. g = <<t.stream, t.gen.id>>
    BY <1>3, <1>5, <1>8, <1>12 DEF CommandGen
  <2> QED
    BY <1>1, <1>3, <1>10, <1>12, <2>1, Unfolded DEF BegunOK, Gen
<1>14. /\ ClientOK /\ begins' = begins /\ Begun' = Begun
       /\ \A b : Staged(g, b) => /\ mirror'.error = mirror.error /\ mirror'.published = g
                                 /\ g \notin mirror'.retired
                                 /\ mirror'.next = b + 1 /\ mirror'.content = b
  <2>1. ReadyFrame(g)
    BY <1>1, <1>12
  <2> QED
    BY <1>13, <2>1, AfterReady
<1>15. twoSpeakers' \in BOOLEAN /\ quiet' \in BOOLEAN /\ rewound' \in BOOLEAN /\ SpeakersOK' /\ ~quiet'
  BY <1>1, <1>3, WitnessFacts
<1>16. TypeOK'
  BY <1>1, <1>4, <1>9, <1>14, <1>15, Unfolded DEF TypeOK, ClientOK, KernelType
<1>17. LogOK'
  BY <1>2, SameLog DEF Broadcasts
<1>18. TableOK' /\ CommandOK'
  <2>1. ASSUME NEW n \in Live'
        PROVE  n <= sent /\ task'[n].phase # "Parked" /\ (task'[n].kind = "Attach" => attached')
    <3>1. n \in Live
      BY <1>11
    <3>2. n <= sent /\ (task[n].phase = "Parked" => n = sent) /\ (task[n].kind = "Attach" => attached)
      BY <3>1, Unfolded DEF TableOK
    <3>3. CASE n = sent
      BY <1>1, <1>5, <1>8, <1>10, <3>2, <3>3
    <3>4. CASE n # sent
      BY <1>1, <1>10, <3>1, <3>2, <3>4 DEF Live
    <3> QED
      BY <3>3, <3>4
  <2> QED
    BY <1>1, <1>3, <1>15, <2>1 DEF TableOK, CommandOK, Open
<1>19. OnlyAttachLeavesAPump'
  <2>1. SUFFICES ASSUME NEW m \in Running(task)', NEW n \in Running(task)', m < n
                 PROVE  task'[n].kind = "Attach" /\ task'[m].kind # "Attach"
    BY DEF OnlyAttachLeavesAPump
  <2>2. m \in Live /\ n \in Live /\ m \in Nat /\ n \in Nat /\ m <= sent /\ n <= sent /\ sent \in Nat
    BY <1>11, <2>1, Numbers, Unfolded DEF TableOK, Live, Running
  <2>3. m # sent /\ m # n
    BY <2>1, <2>2
  <2>4. task'[m] = task[m] /\ m \in Running(task)
    BY <1>10, <1>11, <2>2, <2>3 DEF Live
  <2>5. CASE n = sent
    <3>1. cmd.kind \notin {"AttachResource", "Spawn"} /\ cmd.kind \in {"Attach", "AttachResource", "Spawn"}
      BY <1>1, <2>2, <2>3, CommandFacts, Unfolded DEF CommandOK, Open
    <3>2. task[m].kind # "Attach"
      BY <1>1, <2>2, <2>3, <3>1, Unfolded DEF CommandOK, Open
    <3> QED
      BY <1>3, <1>5, <1>8, <1>10, <2>4, <2>5, <3>1, <3>2
  <2>6. CASE n # sent
    BY <1>10, <1>11, <2>1, <2>2, <2>4, <2>6, Unfolded DEF OnlyAttachLeavesAPump, Live
  <2> QED
    BY <2>5, <2>6
<1>20. CountOK'
  <2>1. ASSUME NEW n \in Live PROVE (task[n].gen.id + At(task[n].pos) <= sent + task[n].pos)'
    <3>1. PICK v : v = task'[n]
      OBVIOUS
    <3>2. CASE n = sent
      <4>1. v.gen.id = h.id /\ v.pos = o.pos
        BY <1>8, <1>10, <3>1, <3>2
      <4>2. PICK i, a, p : i = h.id /\ a = At(o.pos) /\ p = o.pos
        OBVIOUS
      <4>3. p \in 0 .. Len(log) /\ p \in Nat
        BY <1>3, <1>5, <4>2, LogFacts, Unfolded
      <4>4. a <= p /\ a \in Nat
        BY <4>2, <4>3, LogFacts, Unfolded
      <4>5. i + a <= sent + p
        <5>1. i \in Nat /\ i <= sent /\ sent \in Nat
          BY <1>7, <4>2, Unfolded
        <5> QED
          BY <4>3, <4>4, <5>1
      <4>6. At(p)' = a
        BY <1>4, <4>2
      <4> QED
        BY <1>1, <3>1, <4>1, <4>2, <4>5, <4>6
    <3>3. CASE n # sent
      <4>1. v = task[n]
        BY <1>10, <3>1, <3>3 DEF Live
      <4>2. v.gen.id + At(v.pos) <= sent + v.pos
        BY <4>1, AtPump
      <4>3. At(v.pos)' = At(v.pos)
        BY <1>4
      <4> QED
        BY <1>1, <3>1, <4>2, <4>3
    <3> QED
      BY <3>2, <3>3
  <2> QED
    BY <1>1, <1>11, <2>1, Unfolded DEF CountOK
<1>21. BegunOK'
  <2>1. /\ mirror'.published \in Begun' \cup {None} /\ mirror'.retired \subseteq Begun' \cup {None}
        /\ \A st \in staging' : st.gen \in Begun'
    BY <1>14 DEF ClientOK
  <2>2. ASSUME NEW n \in Live', task'[n].phase \in {"Run", "Ready"} PROVE Gen(n)' \in Begun'
    <3>1. CASE n = sent
      BY <1>10, <1>13, <1>14, <3>1 DEF Gen
    <3>2. CASE n # sent
      BY <1>10, <1>11, <1>14, <2>2, <3>2, Unfolded DEF BegunOK, Gen, Live
    <3> QED
      BY <3>1, <3>2
  <2>3. entry' # None => <<ClientStream, entry'>> \in Begun'
    <3>1. CASE cmd.kind = "AttachResource"
      <4>1. entry # None => entry = cmd.pump.gen.id /\ cmd.pump.stream = ClientStream
        BY <1>1, <3>1, Unfolded DEF BegunOK
      <4> QED
        BY <1>1, <1>12, <1>13, <1>14, <4>1 DEF CommandGen
    <3>2. CASE cmd.kind # "AttachResource"
      BY <1>1, <1>14, <3>2, Unfolded DEF BegunOK
    <3> QED
      BY <3>1, <3>2
  <2> QED
    BY <1>1, <2>1, <2>2, <2>3 DEF BegunOK
<1>22. PositionOK'
  <2>1. h.last = IF At(o.pos) > h.cut THEN At(o.pos) ELSE h.cut
    BY <1>7
  <2>2. PumpOK(t)
    BY <1>3, <1>5, <1>7, <1>8, <2>1 DEF PumpOK
  <2>3. ASSUME NEW n \in Live PROVE PumpOK(task[n])'
    <3>1. PICK v : v = task'[n]
      OBVIOUS
    <3>2. PumpOK(v)
      BY <1>10, <2>2, <3>1, AtPump DEF Live
    <3> QED
      BY <1>4, <3>1, <3>2
  <2> QED
    BY <1>1, <1>11, <2>3 DEF PositionOK
<1>23. StreamOK'
  <2>1. SUFFICES ASSUME Sound'
                 PROVE ReplicaOK' /\ (\A n \in Running(task)' : SpeakerOK(n)') /\ CommandSpeaksOK'
    BY DEF StreamOK
  <2>2. Sound /\ ReplicaOK /\ CommandSpeaksOK
    BY <1>1, <1>14, <2>1, SoundBefore DEF Open
  <2>3. Running(task) = {}
    <3>1. \A n \in Running(task) : n = sent
      BY <1>1, <2>2, Unfolded DEF SpeakersOK, Sound, Speakers
    <3> QED
      BY <1>11, <3>1
  <2>4. PICK b : b = h.cut
    OBVIOUS
  <2>5. Staged(g, b)
    BY <1>1, <1>5, <1>12, <2>2, <2>4 DEF CommandSpeaksOK
  <2>6. /\ mirror'.error = mirror.error /\ mirror'.published = g /\ g \notin mirror'.retired
        /\ mirror'.next = b + 1 /\ mirror'.content = b
    BY <1>14, <2>5
  <2>7. ReplicaOK'
    BY <1>4, <1>7, <2>2, <2>4, <2>6 DEF ReplicaOK
  <2>8. SpeakerOK(sent)'
    <3>1. (task[sent])' = t
      BY <1>1, <1>10
    <3>2. t.gen.last = b
      BY <1>7, <1>8, <2>4
    <3> QED
      BY <1>1, <1>8, <1>10, <1>13, <2>6, <3>1, <3>2 DEF SpeakerOK, Gen
  <2>9. \A n \in Running(task)' : n = sent /\ n = sent'
    BY <1>1, <1>11, <2>3
  <2> QED
    BY <1>1, <2>7, <2>8, <2>9 DEF CommandSpeaksOK
<1> QED
  BY <1>15, <1>16, <1>17, <1>18, <1>19, <1>20, <1>21, <1>22, <1>23 DEF Inv

(* Output of the pane keeps the invariant.                                   *)
\* The pane actor's broadcast of output.
LEMMA OutputInv ==
    ASSUME Inv, Output
    PROVE  Inv'
<1>1. PICK x : x = [kind |-> "Live", seq |-> seq + 1]
  OBVIOUS
<1>2. /\ Open /\ seq < MaxOutput /\ log' = Append(log, x) /\ seq' = seq + 1 /\ others' = others /\ Witness
      /\ UNCHANGED <<serverVars, cmd, sent, clientVars, closed>>
  BY <1>1 DEF Output
<1>3. seq \in Nat /\ seq + 1 \in Seqs /\ Len(log) \in Nat /\ log \in Seq(BroadcastItem)
  BY LogFacts, Unfolded
<1>4. x \in BroadcastItem /\ x.seq = seq + 1 /\ x.kind = "Live" /\ seq' = x.seq
  BY <1>1, <1>2, <1>3 DEF BroadcastItem
<1>5. /\ x.seq = seq + (IF x.kind = "Live" THEN 1 ELSE 0) /\ x.seq <= MaxOutput
      /\ Len(log) + 1 <= x.seq + MaxResyncs
  <2>1. Len(log) <= seq + MaxResyncs /\ MaxOutput \in Nat /\ MaxResyncs \in Nat
    BY StreamsAssumption, Unfolded DEF LogOK
  <2> QED
    BY <1>2, <1>3, <1>4, <2>1
<1>6. /\ LogOK' /\ log' \in Seq(BroadcastItem) /\ seq' \in Seqs /\ seq <= seq'
      /\ Len(log') = Len(log) + 1 /\ \A i \in 0 .. Len(log) : At(i)' = At(i)
  BY <1>2, <1>4, <1>5, LogGrows, Unfolded
<1>7. Broadcasts
  BY <1>3, <1>6 DEF Broadcasts
<1> QED
  BY <1>2, <1>7, IdleStep, Unfolded DEF TypeOK

(* A resync for everyone keeps the invariant.                                *)
\* The pane actor's broadcast of a resync.
LEMMA ResyncInv ==
    ASSUME Inv, Resync
    PROVE  Inv'
<1>1. PICK x : x = [kind |-> "Resync", seq |-> seq]
  OBVIOUS
<1>2. /\ Open /\ Len(log) - seq < MaxResyncs /\ log' = Append(log, x) /\ seq' = seq /\ others' = others /\ Witness
      /\ UNCHANGED <<serverVars, cmd, sent, clientVars, closed>>
  BY <1>1 DEF Resync
<1>3. seq \in Nat /\ seq \in Seqs /\ Len(log) \in Nat /\ log \in Seq(BroadcastItem)
  BY LogFacts, Unfolded
<1>4. x \in BroadcastItem /\ x.seq = seq /\ x.kind = "Resync" /\ seq' = x.seq
  BY <1>1, <1>2, <1>3 DEF BroadcastItem
<1>5. /\ x.seq = seq + (IF x.kind = "Live" THEN 1 ELSE 0) /\ x.seq <= MaxOutput
      /\ Len(log) + 1 <= x.seq + MaxResyncs
  <2>1. seq <= MaxOutput /\ MaxOutput \in Nat /\ MaxResyncs \in Nat
    BY StreamsAssumption, Unfolded DEF LogOK
  <2> QED
    BY <1>2, <1>3, <1>4, <2>1
<1>6. /\ LogOK' /\ log' \in Seq(BroadcastItem) /\ seq' \in Seqs /\ seq <= seq'
      /\ Len(log') = Len(log) + 1 /\ \A i \in 0 .. Len(log) : At(i)' = At(i)
  BY <1>2, <1>4, <1>5, LogGrows, Unfolded
<1>7. Broadcasts
  BY <1>3, <1>6 DEF Broadcasts
<1> QED
  BY <1>2, <1>7, IdleStep, Unfolded DEF TypeOK

(* Another connection's attach keeps the invariant.                          *)
\* bootstrap_attach_terminal of another client.
LEMMA OtherAttachesInv ==
    ASSUME Inv, OtherAttaches
    PROVE  Inv'
<1>1. /\ Open /\ others' = TRUE /\ UNCHANGED paneVars /\ Witness
      /\ UNCHANGED <<serverVars, cmd, sent, clientVars, closed>>
  BY DEF OtherAttaches
<1>2. Broadcasts
  BY <1>1, SameLog
<1> QED
  BY <1>1, <1>2, IdleStep

(* A connection that has sent nothing satisfies the invariant.               *)
\* The start of a client task.
LEMMA InitInv ==
    ASSUME Init
    PROVE  Inv
<1>1. /\ native \in BOOLEAN /\ pane \in {"Absent", "Live"} /\ log = <<>> /\ seq = 0 /\ counter = 1 /\ entry = None
      /\ task = NoTasks /\ cmd = None /\ sent = 0 /\ attached = FALSE /\ usedIds = {} /\ others = FALSE
      /\ mirror = [MirrorInit(None, None) EXCEPT !.next = 0] /\ staging = {} /\ closed = FALSE /\ quiet = FALSE
      /\ begins = <<>> /\ twoSpeakers = FALSE /\ rewound = FALSE
  BY DEF Init
<1>2. /\ mirror \in Mirror(Seqs, Gens \cup {None}, {None}) /\ ~mirror.error /\ mirror.published = None
      /\ mirror.retired = {} /\ mirror.content = 0
  <2>1. 0 \in Seqs
    BY StreamsAssumption DEF Seqs
  <2>2. mirror = [published |-> None, next |-> 0, retired |-> {}, content |-> 0, geometry |-> None, error |-> FALSE]
    BY <1>1 DEF MirrorInit
  <2> QED
    BY <2>1, <2>2 DEF Mirror
<1>3. Live = {} /\ Running(task) = {} /\ task \in [Commands -> Tasks \cup {None}]
  BY <1>1, NoTask DEF Live
<1>4. Len(log) = 0 /\ At(0) = 0 /\ 0 .. 0 = {0} /\ 1 .. 0 = {}
  BY <1>1 DEF At
<1>5. TypeOK
  <2>1. 1 \in BootIds /\ 0 \in Seqs /\ 0 \in 0 .. MaxCommands
    BY StreamsAssumption DEF BootIds, Seqs
  <2>2. log \in Seq([kind: {"Live", "Resync"}, seq: Seqs]) /\ begins \in Seq(Gens)
    BY <1>1
  <2>3. staging \subseteq [gen: Gens, base: 0 .. MaxOutput] /\ \A a, b \in staging : a = b
    BY <1>1
  <2>4. cmd \in Command(Tasks, BootIds) \cup {None} /\ usedIds \subseteq AttachIds
    BY <1>1
  <2> QED
    BY <1>1, <1>2, <1>3, <2>1, <2>2, <2>3, <2>4 DEF TypeOK
<1>6. LogOK
  BY <1>1, <1>4, StreamsAssumption DEF LogOK
<1>7. TableOK /\ CommandOK /\ OnlyAttachLeavesAPump
  BY <1>1, <1>3 DEF TableOK, CommandOK, OnlyAttachLeavesAPump
<1>8. CountOK /\ BegunOK /\ PositionOK
  BY <1>1, <1>2, <1>3 DEF CountOK, BegunOK, PositionOK
<1>9. SpeakersOK /\ StreamOK
  BY <1>1, <1>2, <1>3 DEF SpeakersOK, Speakers, StreamOK, ReplicaOK, CommandSpeaksOK
<1> QED
  BY <1>5, <1>6, <1>7, <1>8, <1>9 DEF Inv

(* A step that changes nothing keeps the invariant.                          *)
\* No code runs.
LEMMA StutterInv ==
    ASSUME Inv, UNCHANGED vars
    PROVE  Inv'
<1>1. /\ native' = native /\ pane' = pane /\ counter' = counter /\ entry' = entry /\ task' = task
      /\ attached' = attached /\ usedIds' = usedIds /\ log' = log /\ seq' = seq /\ cmd' = cmd /\ sent' = sent
      /\ others' = others /\ mirror' = mirror /\ staging' = staging /\ begins' = begins /\ closed' = closed
      /\ quiet' = quiet /\ twoSpeakers' = twoSpeakers /\ rewound' = rewound
  BY DEF vars, serverVars, clientVars, paneVars
<1>2. TypeOK' /\ LogOK'
  BY <1>1, Unfolded DEF TypeOK, LogOK, At
<1>3. TableOK' /\ CommandOK' /\ OnlyAttachLeavesAPump'
  BY <1>1, Unfolded DEF TableOK, CommandOK, OnlyAttachLeavesAPump, Live, Building
<1>4. CountOK' /\ BegunOK'
  BY <1>1, Unfolded DEF CountOK, BegunOK, Live, At, Begun, Gen, CommandGen
<1>5. PositionOK'
  BY <1>1, Unfolded DEF PositionOK, PumpOK, Live, At
<1>6. SpeakersOK'
  BY <1>1, Unfolded DEF SpeakersOK
<1>7. StreamOK'
  BY <1>1, Unfolded DEF StreamOK, Sound, GenerationsAreFresh, ReplicaOK, SpeakerOK, CommandSpeaksOK, Staged, Gen, CommandGen
<1> QED
  BY <1>2, <1>3, <1>4, <1>5, <1>6, <1>7 DEF Inv

(* Every step keeps the invariant.                                           *)
\* All handlers and pumps of the connection.
LEMMA NextInv ==
    ASSUME Inv, [Next]_vars
    PROVE  Inv'
<1>1. CASE TakeAttachResource
  BY <1>1, TakeAttachResourceInv
<1>2. CASE TakeAttach
  BY <1>2, TakeAttachStarts, StartsInv
<1>3. CASE TakeSpawn
  BY <1>3, TakeSpawnStarts, StartsInv
<1>4. CASE TakeDetachResource
  BY <1>4, TakeDetachResourceInv
<1>5. CASE TakeDetach
  BY <1>5, TakeDetachInv
<1>6. CASE CommandStep
  BY <1>6, ReplaceInv, CaptureInv, SendBeginInv, SendReadyInv, FinishDetachInv DEF CommandStep
<1>7. CASE CaptureFails
  BY <1>7, CaptureFailsInv
<1>8. CASE Output
  BY <1>8, OutputInv
<1>9. CASE Resync
  BY <1>9, ResyncInv
<1>10. CASE OtherAttaches
  BY <1>10, OtherAttachesInv
<1>11. ASSUME NEW n \in Commands, PumpStep(n)
       PROVE  Inv'
  BY <1>11, PumpForwardsInv, PumpTakesResyncInv, PumpMissesResyncInv, PumpBeginsInv, PumpReadiesInv DEF PumpStep
<1>12. ASSUME NEW n \in Commands, PumpLost(n)
       PROVE  Inv'
  BY <1>12, PumpLostInv
<1>13. CASE UNCHANGED vars
  BY <1>13, StutterInv
<1> QED
  BY <1>1, <1>2, <1>3, <1>4, <1>5, <1>6, <1>7, <1>8, <1>9, <1>10, <1>11, <1>12, <1>13 DEF Next

(* Whatever commands a client sends, however they interleave with its pumps, *)
(* the pane's output, resyncs and faults, and however many there are of      *)
(* each, the invariant holds.                                                *)
\* establish_generation, handle_attach, stop_output, republish_generation.
THEOREM InvHolds == Spec => []Inv
<1>1. Init => Inv
  BY InitInv
<1>2. Inv /\ [Next]_vars => Inv'
  BY NextInv
<1> QED
  BY <1>1, <1>2, PTL DEF Spec

(* Every variable keeps its type.                                            *)
\* The connection's tables and the client's kernel.
THEOREM TypeCorrect == Spec => []TypeOK
<1>1. Inv => TypeOK
  BY DEF Inv
<1> QED
  BY <1>1, InvHolds, PTL

(* Two pumps of one client on one pane are unparked at once only where an    *)
(* ATTACH was answered beside an older pump of another kind.                 *)
\* stop_output, handle_attach.
THEOREM AttachLeavesAPump == Spec => []OnlyAttachLeavesAPump
<1>1. Inv => OnlyAttachLeavesAPump
  BY DEF Inv
<1> QED
  BY <1>1, InvHolds, PTL

(* The client's kernel refuses a frame only where an id was reused or two    *)
(* tasks of the pane spoke at once.                                          *)
\* establish_generation, PumpGeneration::forwards, republish_generation.
THEOREM ReplicaIsSound == Spec => []OnlyReuseOrTwoSpeakersBreakTheReplica
<1>1. Inv => OnlyReuseOrTwoSpeakersBreakTheReplica
  BY DEF Inv, StreamOK, Sound, ReplicaOK, OnlyReuseOrTwoSpeakersBreakTheReplica
<1> QED
  BY <1>1, InvHolds, PTL

(* Between the answer of DETACH or DETACH_RESOURCE and the next command      *)
(* nothing of the pane reaches the client.                                   *)
\* handle_detach_terminal, detach_on_request.
THEOREM Fence == Spec => DetachIsAFence
<1>1. ASSUME Inv, [Next]_vars, quiet
      PROVE  UNCHANGED <<mirror, staging>>
  <2>1. task = NoTasks /\ cmd = None
    BY <1>1, Unfolded DEF TableOK
  <2>2. Live = {} /\ Running(task) = {}
    BY <2>1, NoTask DEF Live
  <2>3. ~CommandStep /\ ~CaptureFails
    BY <2>1 DEF CommandStep, Replace, Capture, SendBegin, SendReady, FinishDetach, CaptureFails
  <2>4. \A n \in Commands : ~PumpStep(n) /\ ~PumpLost(n)
    BY <2>2 DEF PumpStep, PumpForwards, PumpTakesResync, PumpMissesResync, PumpBegins, PumpReadies, PumpLost, Reads
  <2>5. UNCHANGED clientVars
    <3>1. CASE UNCHANGED vars
      BY <3>1 DEF vars
    <3>2. CASE TakeAttachResource \/ TakeAttach \/ TakeSpawn \/ TakeDetachResource \/ TakeDetach
      BY <3>2 DEF TakeAttachResource, TakeAttach, TakeSpawn, TakeDetachResource, TakeDetach
    <3>3. CASE Output \/ Resync \/ OtherAttaches
      BY <3>3 DEF Output, Resync, OtherAttaches
    <3> QED
      BY <1>1, <2>3, <2>4, <3>1, <3>2, <3>3 DEF Next
  <2> QED
    BY <2>5 DEF clientVars
<1>2. Inv /\ [Next]_vars => [quiet /\ quiet' => UNCHANGED <<mirror, staging>>]_vars
  BY <1>1
<1> QED
  BY <1>2, InvHolds, PTL DEF Spec, DetachIsAFence

-----------------------------------------------------------------------------
(* The refinement of PaneView.                                               *)

(* A BEGIN does not change the screen.                                       *)
\* SessionKernel: bootstrap_begin.
LEMMA BeginShowsNothing ==
    ASSUME Inv, NEW g, NEW b, BeginFrame(g, b)
    PROVE  mirror'.content = mirror.content
<1>1. PICK o, r : o = mirror /\ r = StageBegin(Replica, g, b)
  OBVIOUS
<1>2. o \in Mirror(Seqs, Gens \cup {None}, {None}) /\ mirror' = r.mirror
  BY <1>1, Unfolded DEF KernelType, BeginFrame, Becomes
<1>3. CASE RefusesBegin(Replica.mirror, g) \/ Stages(Replica, g)
  <2>1. r.mirror = [o EXCEPT !.error = TRUE]
    BY <1>1, <1>3 DEF StageBegin, Fails, Replica
  <2> QED
    BY <1>1, <1>2, <2>1 DEF Mirror
<1>4. CASE ~(RefusesBegin(Replica.mirror, g) \/ Stages(Replica, g))
  <2>1. PICK x : x = o.retired \cup {st.gen : st \in Replica.staging}
    OBVIOUS
  <2>2. r.mirror = [o EXCEPT !.retired = x]
    BY <1>1, <1>4, <2>1 DEF StageBegin, Replica
  <2> QED
    BY <1>1, <1>2, <2>2 DEF Mirror
<1> QED
  BY <1>3, <1>4

(* A tombstone does not change the screen.                                   *)
\* SessionKernel: tombstone of a generation.
LEMMA TombstoneShowsNothing ==
    ASSUME Inv, NEW g, TombstoneFrame(g)
    PROVE  mirror'.content = mirror.content
<1>1. PICK o : o = mirror
  OBVIOUS
<1>2. o \in Mirror(Seqs, Gens \cup {None}, {None}) /\ mirror' = [o EXCEPT !.retired = @ \cup {g}]
  BY <1>1, Unfolded DEF KernelType, TombstoneFrame, Becomes, StageTombstone, ApplyTombstone, Replica
<1> QED
  BY <1>1, <1>2 DEF Mirror

(* While no id was reused, one task spoke and no pump went back behind its   *)
(* cut, a step takes no output off the screen.                               *)
\* SessionKernel: bootstrap_ready, live output.
LEMMA ContentGrows ==
    ASSUME Inv, Inv', Next, Sound', ~rewound', Sound, ~rewound
    PROVE  mirror.content <= mirror'.content
<1>1. mirror.content \in Nat /\ mirror'.content \in Nat
  <2>1. mirror.content \in Seqs
    BY Unfolded DEF KernelType, Mirror
  <2>2. mirror' \in Mirror(Seqs, Gens \cup {None}, {None})
    BY DEF Inv, TypeOK
  <2>3. mirror'.content \in Seqs
    BY <2>2 DEF Mirror
  <2> QED
    BY <2>1, <2>3, Numbers
<1>2. /\ ReplicaOK /\ (\A n \in Running(task) : SpeakerOK(n)) /\ (closed \/ CommandSpeaksOK)
      /\ \A n \in Running(task)' : SpeakerOK(n)'
  BY DEF Inv, StreamOK
<1>3. CASE UNCHANGED clientVars
  BY <1>1, <1>3 DEF clientVars
<1>4. ASSUME NEW n \in Commands, PumpForwards(n) PROVE mirror.content <= mirror'.content
  <2>1. PICK t : /\ PumpMoves(n, t) /\ task[n].phase = "Run" /\ t.phase = "Run"
                 /\ t.gen.last = task[n].gen.last \/ t.gen.last = task[n].gen.last + 1
    BY <1>4, ForwardMoves
  <2>2. n \in Live /\ task'[n] = t /\ t # None
    BY <2>1, SomePump, AtPump, Unfolded DEF PumpMoves
  <2>3. n \in Running(task) /\ n \in Running(task)'
    BY <1>4, <2>1, <2>2 DEF Running, Live
  <2>4. mirror.content = task[n].gen.last /\ mirror'.content = t.gen.last
    BY <1>2, <2>1, <2>2, <2>3 DEF SpeakerOK
  <2> QED
    BY <1>1, <2>1, <2>4
<1>5. ASSUME NEW n \in Commands, PumpReadies(n) PROVE mirror.content <= mirror'.content
  <2>1. PICK t : PumpMoves(n, t) /\ task[n].phase = "Ready" /\ t.phase = "Run" /\ t.gen.last = task[n].base
    BY <1>5, ReadyMoves
  <2>2. n \in Live /\ task'[n] = t /\ t # None
    BY <2>1, SomePump, AtPump, Unfolded DEF PumpMoves
  <2>3. n \in Running(task) /\ n \in Running(task)'
    BY <1>5, <2>1, <2>2 DEF Running, Live
  <2>4. mirror.content <= task[n].base /\ mirror'.content = t.gen.last
    BY <1>2, <2>1, <2>2, <2>3 DEF SpeakerOK
  <2> QED
    BY <2>1, <2>4
<1>6. ASSUME SendReady PROVE mirror.content <= mirror'.content
  <2>1. Open /\ cmd # None /\ cmd.step = "Ready" /\ Building /\ sent' = sent
    BY <1>6 DEF SendReady, Building
  <2>2. sent \in Commands /\ task[sent].phase = "Parked"
    BY <2>1, Parks
  <2>3. PICK h : h = cmd.pump.gen
    OBVIOUS
  <2>4. PICK t : t # None /\ t.phase = "Run" /\ t.gen = h /\ task' = [task EXCEPT ![sent] = t] /\ h.last = h.cut
    BY <1>6, <2>3, Releases
  <2>5. task'[sent] = t /\ sent \in Running(task)'
    BY <2>2, <2>4, Unfolded DEF Running
  <2>6. mirror'.content = h.cut
    BY <1>2, <2>1, <2>4, <2>5 DEF SpeakerOK
  <2>7. Running(task) = {}
    <3>1. \A n \in Running(task) : n = sent
      BY <2>1, Unfolded DEF SpeakersOK, Sound, Speakers
    <3> QED
      BY <2>2, <3>1 DEF Running
  <2>8. mirror.content <= h.cut
    BY <1>2, <2>1, <2>3, <2>7 DEF CommandSpeaksOK, Open
  <2> QED
    BY <2>6, <2>8
<1>7. ASSUME \E g, b : BeginFrame(g, b) \/ TombstoneFrame(g) PROVE mirror.content <= mirror'.content
  <2>1. mirror'.content = mirror.content
    BY <1>7, BeginShowsNothing, TombstoneShowsNothing
  <2> QED
    BY <1>1, <2>1
<1>8. CASE TakeAttachResource \/ TakeAttach \/ TakeSpawn \/ TakeDetachResource \/ TakeDetach
  BY <1>3, <1>8 DEF TakeAttachResource, TakeAttach, TakeSpawn, TakeDetachResource, TakeDetach
<1>9. CASE Capture \/ FinishDetach \/ CaptureFails
  BY <1>3, <1>9 DEF Capture, FinishDetach, CaptureFails
<1>10. CASE Replace \/ SendBegin
  BY <1>3, <1>7, <1>10 DEF Replace, SendBegin
<1>11. CASE Output \/ Resync \/ OtherAttaches
  BY <1>3, <1>11 DEF Output, Resync, OtherAttaches
<1>12. ASSUME NEW n \in Commands, PumpTakesResync(n) \/ PumpMissesResync(n) \/ PumpBegins(n) \/ PumpLost(n)
       PROVE  mirror.content <= mirror'.content
  BY <1>3, <1>7, <1>12 DEF PumpTakesResync, PumpMissesResync, PumpBegins, PumpLost
<1> QED
  BY <1>4, <1>5, <1>6, <1>8, <1>9, <1>10, <1>11, <1>12 DEF Next, CommandStep, PumpStep

\* PaneView is promised something of the stream.
Trusted == GenerationsAreFresh /\ ~twoSpeakers /\ ~rewound

(* A stream that can be trusted after a step could be before it.             *)
\* The history variables.
LEMMA TrustedBefore ==
    ASSUME Inv, Inv', Next, Trusted'
    PROVE  Trusted
<1>1. Witness
  <2>1. ASSUME NEW n \in Commands, PumpStep(n) \/ PumpLost(n) PROVE Witness
    BY <2>1 DEF PumpStep, PumpForwards, PumpTakesResync, PumpMissesResync, PumpBegins, PumpReadies, PumpLost
  <2>2. CASE CommandStep \/ CaptureFails
    BY <2>2 DEF CommandStep, Replace, Capture, SendBegin, SendReady, FinishDetach, CaptureFails
  <2>3. CASE TakeAttachResource \/ TakeAttach \/ TakeSpawn \/ TakeDetachResource \/ TakeDetach
    BY <2>3 DEF TakeAttachResource, TakeAttach, TakeSpawn, TakeDetachResource, TakeDetach
  <2>4. CASE Output \/ Resync \/ OtherAttaches
    BY <2>4 DEF Output, Resync, OtherAttaches
  <2> QED
    BY <2>1, <2>2, <2>3, <2>4 DEF Next
<1>2. ~twoSpeakers /\ ~rewound
  BY <1>1 DEF Witness, Trusted
<1>3. begins' = begins \/ \E g \in Gens : begins' = Append(begins, g)
  <2>1. ASSUME NEW n \in Commands, PumpStep(n) \/ PumpLost(n)
        PROVE  begins' = begins \/ \E g \in Gens : begins' = Append(begins, g)
    <3>1. CASE PumpBegins(n)
      <4>1. n \in Live
        BY <3>1 DEF PumpBegins
      <4>2. Gen(n) \in Gens
        BY <4>1, AtPump
      <4> QED
        BY <3>1, <4>2 DEF PumpBegins, BeginFrame
    <3>2. CASE ~PumpBegins(n)
      BY <2>1, <3>2 DEF PumpStep, PumpForwards, PumpTakesResync, PumpMissesResync, PumpReadies, PumpLost,
                        clientVars, OutputFrame, TombstoneFrame, ReadyFrame
    <3> QED
      BY <3>1, <3>2
  <2>2. CASE CommandStep \/ CaptureFails
    <3>1. CASE SendBegin
      <4>1. CommandGen \in Gens
        BY <3>1, CommandFacts DEF SendBegin
      <4> QED
        BY <3>1, <4>1 DEF SendBegin, BeginFrame, CommandGen
    <3>2. CASE ~SendBegin
      BY <2>2, <3>2 DEF CommandStep, Replace, Capture, SendReady, FinishDetach, CaptureFails,
                        clientVars, TombstoneFrame, ReadyFrame
    <3> QED
      BY <3>1, <3>2
  <2>3. CASE TakeAttachResource \/ TakeAttach \/ TakeSpawn \/ TakeDetachResource \/ TakeDetach
    BY <2>3 DEF TakeAttachResource, TakeAttach, TakeSpawn, TakeDetachResource, TakeDetach, clientVars
  <2>4. CASE Output \/ Resync \/ OtherAttaches
    BY <2>4 DEF Output, Resync, OtherAttaches, clientVars
  <2> QED
    BY <2>1, <2>2, <2>3, <2>4 DEF Next
<1>4. GenerationsAreFresh
  BY <1>3, AppendBegins, Unfolded DEF Trusted, GenerationsAreFresh
<1> QED
  BY <1>2, <1>4 DEF Trusted

\* The refinement mapping's `shown`.
Shown == IF ~GenerationsAreFresh \/ twoSpeakers \/ rewound THEN None ELSE mirror.content

(* What PaneView is shown of a stream that can be trusted is the screen's    *)
(* content, and is never ahead of the pane.                                  *)
\* SessionKernel: the published screen.
LEMMA ShownWhenTrusted ==
    ASSUME Inv
    PROVE  /\ Trusted => Shown = mirror.content /\ Shown \in Nat /\ Shown # None /\ Shown <= seq
           /\ ~Trusted => Shown = None
<1>1. mirror.content \in Seqs
  BY Unfolded DEF KernelType, Mirror
<1>2. mirror.content \in Nat /\ mirror.content # None
  BY <1>1, Numbers, NoneAssumption
<1>3. Trusted => mirror.content <= seq
  BY Unfolded DEF Trusted, Sound, StreamOK, ReplicaOK
<1> QED
  BY <1>2, <1>3 DEF Shown, Trusted

(* Output of the pane does not itself change a screen.                       *)
\* The pane actor's broadcast of output.
LEMMA OutputShowsNothing ==
    ASSUME Inv, Output
    PROVE  Shown' = Shown
<1>1. /\ UNCHANGED <<serverVars, cmd, sent, clientVars, closed>> /\ Witness /\ Open
  BY DEF Output
<1>2. task' = task /\ cmd' = cmd /\ sent' = sent /\ mirror' = mirror /\ begins' = begins
  BY <1>1 DEF serverVars, clientVars
<1>3. cmd # None => sent \in Commands
  BY <1>1, Unfolded DEF CommandOK, Commands, Open
<1>4. Speakers(task, cmd, sent) \in SUBSET Commands
  BY <1>3 DEF Speakers, Running
<1>5. ~twoSpeakers => ~(Cardinality(Speakers(task, cmd, sent)) > 1)
  BY <1>4, AtMostOne, Unfolded DEF SpeakersOK
<1>6. twoSpeakers' <=> twoSpeakers
  BY <1>1, <1>2, <1>5 DEF Witness
<1>7. rewound' <=> rewound
  BY <1>1, <1>2 DEF Witness
<1>8. GenerationsAreFresh' <=> GenerationsAreFresh
  BY <1>2 DEF GenerationsAreFresh
<1> QED
  BY <1>2, <1>6, <1>7, <1>8 DEF Shown

(* Getting, replacing and giving up a stream implements PaneView: every step *)
(* of the connection is a step of the view, or leaves it alone.              *)
\* establish_generation, republish_generation, SessionKernel.
THEOREM ImplementsPaneView == Spec => ShowsThePane
<1>1. Init => View!VInit
  <2>1. SUFFICES ASSUME Init PROVE View!VInit
    OBVIOUS
  <2>2. begins = <<>> /\ ~twoSpeakers /\ ~rewound /\ seq = 0
        /\ mirror = [MirrorInit(None, None) EXCEPT !.next = 0]
    BY <2>1 DEF Init
  <2>3. GenerationsAreFresh
    BY <2>2 DEF GenerationsAreFresh, IsInjective
  <2>4. mirror.content = 0
    BY <2>2 DEF MirrorInit
  <2> QED
    BY <2>2, <2>3, <2>4 DEF View!VInit
<1>2. ASSUME Inv, Inv', [Next]_vars
      PROVE  \/ seq' = seq + 1 /\ Shown' = Shown
             \/ Shown # None /\ Shown' \in Shown + 1 .. seq /\ seq' = seq
             \/ Shown # None /\ Shown' = None /\ seq' = seq
             \/ seq' = seq /\ Shown' = Shown
  <2>1. CASE UNCHANGED vars
    BY <2>1 DEF vars, paneVars, clientVars, Shown, GenerationsAreFresh
  <2>2. CASE Output
    BY <1>2, <2>2, OutputShowsNothing DEF Output
  <2>3. CASE Next /\ ~Output
    <3>1. seq' = seq
      <4>1. ASSUME NEW n \in Commands, PumpStep(n) \/ PumpLost(n) PROVE seq' = seq
        BY <4>1 DEF PumpStep, PumpForwards, PumpTakesResync, PumpMissesResync, PumpBegins, PumpReadies, PumpLost, paneVars
      <4>2. CASE CommandStep \/ CaptureFails
        BY <4>2 DEF CommandStep, Replace, Capture, SendBegin, SendReady, FinishDetach, CaptureFails, paneVars
      <4>3. CASE TakeAttachResource \/ TakeAttach \/ TakeSpawn \/ TakeDetachResource \/ TakeDetach
        BY <4>3 DEF TakeAttachResource, TakeAttach, TakeSpawn, TakeDetachResource, TakeDetach, paneVars
      <4>4. CASE Resync \/ OtherAttaches
        BY <4>4 DEF Resync, OtherAttaches, paneVars
      <4> QED
        BY <2>3, <4>1, <4>2, <4>3, <4>4 DEF Next
    <3>2. CASE Trusted'
      <4>1. Trusted
        BY <1>2, <2>3, <3>2, TrustedBefore
      <4>2. mirror.content <= mirror'.content
        BY <1>2, <2>3, <3>2, <4>1, ContentGrows DEF Trusted, Sound
      <4>3. Shown = mirror.content /\ Shown \in Nat /\ Shown # None
        BY <1>2, <4>1, ShownWhenTrusted
      <4>4. Shown' = mirror'.content
        BY <3>2 DEF Trusted, Shown
      <4>5. mirror'.content <= seq' /\ mirror'.content \in Nat
        <5>1. mirror'.content <= seq'
          BY <1>2, <3>2 DEF Inv, Trusted, Sound, StreamOK, ReplicaOK
        <5>2. mirror' \in Mirror(Seqs, Gens \cup {None}, {None})
          BY <1>2 DEF Inv, TypeOK
        <5>3. mirror'.content \in Seqs
          BY <5>2 DEF Mirror
        <5> QED
          BY <5>1, <5>3, Numbers
      <4>6. seq \in Nat
        BY <1>2, LogFacts, Unfolded
      <4>7. PICK x \in Nat, y \in Nat : x = mirror.content /\ y = mirror'.content
        BY <4>3, <4>5
      <4>8. y = x \/ y \in x + 1 .. seq
        BY <3>1, <4>2, <4>5, <4>6, <4>7
      <4> QED
        BY <3>1, <4>3, <4>4, <4>7, <4>8
    <3>3. CASE ~Trusted'
      <4>1. Shown' = None
        BY <3>3 DEF Trusted, Shown
      <4> QED
        BY <1>2, <3>1, <4>1
    <3> QED
      BY <3>2, <3>3
  <2> QED
    BY <1>2, <2>1, <2>2, <2>3
<1>3. Inv /\ Inv' /\ [Next]_vars => [View!VNext]_<<seq, Shown>>
  BY <1>2 DEF View!VNext, View!Produce, View!Show, View!Break, Shown
<1>4. Inv /\ Inv' /\ [Next]_vars =>
        [View!VNext]_<<seq, IF ~GenerationsAreFresh \/ twoSpeakers \/ rewound THEN None ELSE mirror.content>>
  BY <1>3 DEF Shown
<1> QED
  BY <1>1, <1>4, InvHolds, PTL DEF Spec, ShowsThePane, View!VSpec
=============================================================================
