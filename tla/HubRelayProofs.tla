---- MODULE HubRelayProofs ----
(* Proofs about the federation hub: types and bounds, the event subscription *)
(* of the link, and the consumers' calls.  HubStreamProofs goes on with the  *)
(* stream.                                                                   *)
(*                                                                           *)
(* Induction over a queue is done by its least counterexample: WFMin of      *)
(* WellFoundedInduction gives every set of numbers a least element, and      *)
(* Induct turns that into the form the proofs use.                           *)
EXTENDS HubRelayInv, WellFoundedInduction, TLAPS

(* Sequences.                                                                *)

(* Taking the head off a queue leaves the rest in order.                     *)
\* The mailboxes and the link are queues.
LEMMA TailOf ==
    ASSUME NEW S, NEW q \in Seq(S), q # <<>>
    PROVE  /\ Tail(q) \in Seq(S) /\ Len(q) \in Nat /\ Len(q) >= 1 /\ Len(Tail(q)) = Len(q) - 1
           /\ Head(q) = q[1] /\ Head(q) \in S
           /\ \A i \in 1 .. Len(Tail(q)) : i + 1 \in 1 .. Len(q) /\ Tail(q)[i] = q[i + 1]
  OBVIOUS

(* Putting an element at the end of a queue leaves the rest as it is.        *)
\* The mailboxes and the link are queues.
LEMMA AppendOf ==
    ASSUME NEW S, NEW q \in Seq(S), NEW e \in S
    PROVE  /\ Append(q, e) \in Seq(S) /\ Len(q) \in Nat /\ Len(Append(q, e)) = Len(q) + 1
           /\ \A i \in 1 .. Len(q) : Append(q, e)[i] = q[i]
           /\ Append(q, e)[Len(q) + 1] = e
  OBVIOUS

(* An element of a queue has the queue's type.                               *)
\* The mailboxes and the link are queues.
LEMMA ElementOf ==
    ASSUME NEW S, NEW q \in Seq(S), NEW i \in 1 .. Len(q)
    PROVE  q[i] \in S
  OBVIOUS

(* Taking one element out leaves the others in order.                        *)
\* WithdrawalReceipt: a withdrawal is cancelled wherever it is.
LEMMA RemoveAtOf ==
    ASSUME NEW S, NEW q \in Seq(S), NEW n \in 1 .. Len(q)
    PROVE  /\ RemoveAt(q, n) \in Seq(S) /\ Len(q) \in Nat /\ Len(RemoveAt(q, n)) = Len(q) - 1
           /\ \A i \in 1 .. Len(q) - 1 :
                RemoveAt(q, n)[i] = IF i < n THEN q[i] ELSE q[i + 1]
<1>1. SubSeq(q, 1, n - 1) \in Seq(S) /\ Len(SubSeq(q, 1, n - 1)) = n - 1
      /\ \A i \in 1 .. n - 1 : SubSeq(q, 1, n - 1)[i] = q[i]
  OBVIOUS
<1>2. SubSeq(q, n + 1, Len(q)) \in Seq(S) /\ Len(SubSeq(q, n + 1, Len(q))) = Len(q) - n
      /\ \A i \in 1 .. Len(q) - n : SubSeq(q, n + 1, Len(q))[i] = q[n + i]
  OBVIOUS
<1> DEFINE a == SubSeq(q, 1, n - 1)
           b == SubSeq(q, n + 1, Len(q))
<1>3. RemoveAt(q, n) = a \o b
  BY DEF RemoveAt
<1>4. a \in Seq(S) /\ b \in Seq(S)
  BY <1>1, <1>2
<1> HIDE DEF a, b
<1>5. a \o b \in Seq(S) /\ Len(a \o b) = Len(a) + Len(b)
      /\ \A i \in 1 .. Len(a) + Len(b) : (a \o b)[i] = IF i <= Len(a) THEN a[i] ELSE b[i - Len(a)]
  BY <1>4
<1>6. Len(a) = n - 1 /\ Len(b) = Len(q) - n /\ Len(q) \in Nat
  BY <1>1, <1>2 DEF a, b
<1>7. ASSUME NEW i \in 1 .. Len(q) - 1 PROVE (a \o b)[i] = IF i < n THEN q[i] ELSE q[i + 1]
  <2>1. CASE i < n
    <3>1. (a \o b)[i] = a[i] /\ i \in 1 .. n - 1
      BY <1>5, <1>6, <2>1
    <3> QED
      BY <3>1, <1>1, <2>1 DEF a
  <2>2. CASE ~(i < n)
    <3>1. (a \o b)[i] = b[i - (n - 1)] /\ i - (n - 1) \in 1 .. Len(q) - n /\ n + (i - (n - 1)) = i + 1
      BY <1>5, <1>6, <2>2
    <3> QED
      BY <3>1, <1>2, <2>2 DEF b
  <2> QED
    BY <2>1, <2>2
<1> QED
  BY <1>3, <1>5, <1>6, <1>7

-----------------------------------------------------------------------------
(* A retained prefix, applied to a replica frame by frame.                   *)

(* The library's fact about well-founded relations, for numbers.             *)
\* Counters and positions in queues.
LEMMA MinimalOf ==
    ASSUME NEW R, IsWellFoundedOn(R, Nat), NEW T, T \subseteq Nat, T # {}
    PROVE  \E n \in T : \A y \in T : ~(<<y, n>> \in R)
  BY WFMin, Zenon

(* A well-founded relation that contains the order of the numbers gives      *)
(* every set of numbers a least one.                                         *)
\* Counters and positions in queues.
LEMMA LeastOf ==
    ASSUME NEW R, IsWellFoundedOn(R, Nat), \A x, y \in Nat : x < y => <<x, y>> \in R,
           NEW T, T \subseteq Nat, T # {}
    PROVE  \E n \in T : \A m \in T : n <= m
<1>1. PICK n \in T : \A y \in T : ~(<<y, n>> \in R)
  BY MinimalOf
<1>2. ASSUME NEW m \in T PROVE n <= m
  <2>1. ~(m < n)
    BY <1>1
  <2> QED
    BY <2>1
<1> QED
  BY <1>2

(* A set of numbers that is not empty has a least one.                       *)
\* Counters and positions in queues.
LEMMA Least ==
    ASSUME NEW T, T \subseteq Nat, T # {}
    PROVE  \E n \in T : \A m \in T : n <= m
<1> DEFINE R == OpToRel(<, Nat)
<1>1. IsWellFoundedOn(R, Nat)
  BY NatLessThanWellFounded
<1>2. \A x, y \in Nat : x < y => <<x, y>> \in R
  BY DEF OpToRel
<1> QED
  <2> HIDE DEF R
  <2> QED
    BY <1>1, <1>2, LeastOf

(* Induction up to n, as a set that contains 0 and with each number below n  *)
(* the next.                                                                 *)
\* Positions in queues.
LEMMA Induct ==
    ASSUME NEW n \in Nat, NEW G, 0 \in G, \A i \in 0 .. n : i # n /\ i \in G => i + 1 \in G
    PROVE  \A i \in 0 .. n : i \in G
<1> DEFINE T == {i \in 0 .. n : i \notin G}
<1>1. CASE T # {}
  <2>1. T \subseteq Nat
    OBVIOUS
  <2>2. PICK k \in T : \A m \in T : k <= m
    <3> HIDE DEF T
    <3> QED
      BY <2>1, <1>1, Least
  <2>3. k # 0 /\ k \in 0 .. n /\ k \notin G
    BY <2>2
  <2>4. k - 1 \in 0 .. n /\ k - 1 # n /\ (k - 1) + 1 = k
    BY <2>3
  <2>5. k - 1 \in G
    BY <2>2, <2>3, <2>4
  <2> QED
    BY <2>3, <2>4, <2>5
<1>2. CASE T = {}
  BY <1>2
<1> QED
  BY <1>1, <1>2

\* f[i] is the replica after the first i frames of q.
Seen(f, r, q, n) == f = [i \in 0 .. n |-> IF i = 0 THEN r ELSE Sees(f[i - 1], q[i])]

(* The replicas after each of the first n frames extend to n + 1.            *)
\* A retained prefix is applied frame by frame.
LEMMA SeenExtends ==
    ASSUME NEW r, NEW q, NEW n \in Nat, NEW f, Seen(f, r, q, n)
    PROVE  \E g : Seen(g, r, q, n + 1)
<1> DEFINE g == [i \in 0 .. n + 1 |-> IF i = n + 1 THEN Sees(f[n], q[n + 1]) ELSE f[i]]
<1>1. ASSUME NEW i \in 0 .. n + 1 PROVE g[i] = IF i = 0 THEN r ELSE Sees(g[i - 1], q[i])
  <2>1. CASE i = 0
    BY <2>1 DEF Seen
  <2>2. CASE i # 0 /\ i # n + 1
    <3>1. i \in 0 .. n /\ i - 1 \in 0 .. n + 1 /\ i - 1 # n + 1
      BY <2>2
    <3>2. f[i] = Sees(f[i - 1], q[i])
      BY <3>1, <2>2 DEF Seen
    <3>3. g[i] = f[i] /\ g[i - 1] = f[i - 1]
      BY <3>1, <2>2
    <3> QED
      BY <3>2, <3>3, <2>2
  <2>3. CASE i = n + 1
    <3>1. i # 0 /\ i - 1 = n /\ n \in 0 .. n + 1 /\ n # n + 1
      BY <2>3
    <3>2. g[n] = f[n] /\ g[i] = Sees(f[n], q[n + 1])
      BY <3>1, <2>3
    <3> QED
      BY <3>1, <3>2, <2>3
  <2> QED
    BY <2>1, <2>2, <2>3
<1>2. g = [i \in 0 .. n + 1 |-> g[i]]
  OBVIOUS
<1>3. Seen(g, r, q, n + 1)
  <2> HIDE DEF g
  <2> QED
    BY <1>1, <1>2 DEF Seen
<1> QED
  BY <1>3

(* There are replicas after each of the first n frames.                      *)
\* A retained prefix is applied frame by frame.
LEMMA SeenExists ==
    ASSUME NEW r, NEW q, NEW n \in Nat
    PROVE  \E f : Seen(f, r, q, n)
<1> DEFINE G == {i \in 0 .. n : \E f : Seen(f, r, q, i)}
<1>1. 0 \in G
  <2>1. Seen([i \in 0 .. 0 |-> r], r, q, 0)
    BY DEF Seen
  <2> QED
    BY <2>1
<1>2. ASSUME NEW i \in 0 .. n, i # n, i \in G PROVE i + 1 \in G
  BY <1>2, SeenExtends
<1>3. \A i \in 0 .. n : i \in G
  <2> HIDE DEF G
  <2> QED
    BY <1>1, <1>2, Induct
<1> QED
  BY <1>3

(* SeesAll is the replica after the last frame: the recursive function in    *)
(* its definition exists.                                                    *)
\* A retained prefix is applied frame by frame.
LEMMA SeesAllIs ==
    ASSUME NEW r, NEW q, Len(q) \in Nat
    PROVE  \E f : Seen(f, r, q, Len(q)) /\ SeesAll(r, q) = f[Len(q)]
<1> DEFINE g == CHOOSE g : g = [i \in 0 .. Len(q) |-> IF i = 0 THEN r ELSE Sees(g[i - 1], q[i])]
<1>1. g = [i \in 0 .. Len(q) |-> IF i = 0 THEN r ELSE Sees(g[i - 1], q[i])]
  BY SeenExists DEF Seen
<1>2. SeesAll(r, q) = g[Len(q)]
  BY DEF SeesAll
<1> QED
  BY <1>1, <1>2 DEF Seen

(* What a replica is after k frames depends on these only.                   *)
\* A retained prefix is applied frame by frame.
LEMMA SeenSame ==
    ASSUME NEW x, NEW y, NEW z, NEW d \in Nat, NEW e \in Nat, NEW k \in Nat, k <= d, k <= e,
           NEW v, NEW w, Seen(v, x, y, d), Seen(w, x, z, e), \A i \in 1 .. k : z[i] = y[i]
    PROVE  v[k] = w[k]
<1> DEFINE G == {i \in 0 .. k : v[i] = w[i]}
<1>1. 0 \in G
  BY DEF Seen
<1>2. ASSUME NEW i \in 0 .. k, i # k, i \in G PROVE i + 1 \in G
  <2>1. i + 1 \in 0 .. d /\ i + 1 \in 0 .. e /\ i + 1 # 0 /\ (i + 1) - 1 = i /\ i + 1 \in 1 .. k /\ i + 1 \in 0 .. k
    BY <1>2
  <2>2. v[i + 1] = Sees(v[(i + 1) - 1], y[i + 1])
    BY <2>1 DEF Seen
  <2>3. w[i + 1] = Sees(w[(i + 1) - 1], z[i + 1])
    BY <2>1 DEF Seen
  <2> QED
    BY <1>2, <2>1, <2>2, <2>3
<1>3. \A i \in 0 .. k : i \in G
  <2> HIDE DEF G
  <2> QED
    BY <1>1, <1>2, Induct
<1> QED
  BY <1>3

(* No frame leaves a replica as it is.                                       *)
\* flush_pending_snapshot with no room.
LEMMA SeesNothing ==
    ASSUME NEW r
    PROVE  SeesAll(r, <<>>) = r
<1>1. Len(<<>>) = 0
  OBVIOUS
<1> QED
  BY <1>1, SeesAllIs DEF Seen

(* A frame at the end is applied after the others.                           *)
\* push_bootstrap_frame retains behind what is retained.
LEMMA SeesAppended ==
    ASSUME NEW r, NEW S, NEW q \in Seq(S), NEW e \in S
    PROVE  SeesAll(r, Append(q, e)) = Sees(SeesAll(r, q), e)
<1> DEFINE p == Append(q, e)
<1>1. p \in Seq(S) /\ Len(q) \in Nat /\ Len(p) = Len(q) + 1
      /\ (\A i \in 1 .. Len(q) : p[i] = q[i]) /\ p[Len(q) + 1] = e
  BY AppendOf
<1> HIDE DEF p
<1>2. PICK f : Seen(f, r, q, Len(q)) /\ SeesAll(r, q) = f[Len(q)]
  BY <1>1, SeesAllIs
<1>3. PICK g : Seen(g, r, p, Len(q) + 1) /\ SeesAll(r, p) = g[Len(q) + 1]
  BY <1>1, SeesAllIs
<1>4. PICK n \in Nat : n = Len(q)
  BY <1>1
<1>5. f[n] = g[n]
  <2>1. PICK m \in Nat : m = n + 1
    BY <1>4
  <2>2. Seen(f, r, q, n) /\ Seen(g, r, p, m) /\ n <= n /\ n <= m /\ \A i \in 1 .. n : p[i] = q[i]
    BY <1>1, <1>2, <1>3, <1>4, <2>1
  <2> QED
    BY <2>2, SeenSame
<1>6. g[n + 1] = Sees(g[n], p[n + 1])
  <2>1. n + 1 \in 0 .. n + 1 /\ n + 1 # 0 /\ (n + 1) - 1 = n /\ n + 1 \in Nat
    BY <1>4
  <2> QED
    BY <1>3, <1>4, <2>1 DEF Seen
<1> QED
  BY <1>1, <1>2, <1>3, <1>4, <1>5, <1>6 DEF p

(* A prefix may be handed on in two parts.                                   *)
\* flush_pending_snapshot sends what there is room for.
LEMMA SeesSplit ==
    ASSUME NEW r, NEW S, NEW q \in Seq(S), NEW n \in Nat, n <= Len(q)
    PROVE  SeesAll(SeesAll(r, SubSeq(q, 1, n)), SubSeq(q, n + 1, Len(q))) = SeesAll(r, q)
<1> DEFINE a == SubSeq(q, 1, n)
           b == SubSeq(q, n + 1, Len(q))
<1>1. Len(q) \in Nat /\ Len(a) = n /\ \A i \in 1 .. n : a[i] = q[i]
  OBVIOUS
<1>2. Len(b) = Len(q) - n /\ \A i \in 1 .. Len(q) - n : b[i] = q[n + i]
  OBVIOUS
<1> HIDE DEF a, b
<1>3. PICK m \in Nat : m = Len(q) - n
  BY <1>1
<1>4. PICK f : Seen(f, r, q, n + m) /\ SeesAll(r, q) = f[n + m]
  <2>1. Len(q) = n + m
    BY <1>1, <1>3
  <2> QED
    BY <2>1, <1>1, SeesAllIs
<1>5. PICK g : Seen(g, r, a, n) /\ SeesAll(r, a) = g[n]
  BY <1>1, SeesAllIs
<1>6. PICK h : Seen(h, g[n], b, m) /\ SeesAll(g[n], b) = h[m]
  BY <1>2, <1>3, SeesAllIs
<1>7. f[n] = g[n]
  <2>1. n + m \in Nat /\ n <= n + m /\ n <= n
    BY <1>3
  <2>2. PICK l \in Nat : l = n + m
    BY <2>1
  <2>3. Seen(f, r, q, l) /\ Seen(g, r, a, n) /\ n <= n /\ n <= l /\ \A i \in 1 .. n : a[i] = q[i]
    BY <1>1, <1>4, <1>5, <2>1, <2>2
  <2> QED
    BY <2>3, SeenSame
<1> DEFINE G == {i \in 0 .. m : h[i] = f[n + i]}
<1>8. 0 \in G
  BY <1>6, <1>7 DEF Seen
<1>9. ASSUME NEW i \in 0 .. m, i # m, i \in G PROVE i + 1 \in G
  <2>1. i + 1 \in 0 .. m /\ i + 1 # 0 /\ (i + 1) - 1 = i /\ i + 1 \in 1 .. Len(q) - n
    BY <1>9, <1>3
  <2>2. n + (i + 1) \in 0 .. n + m /\ n + (i + 1) # 0 /\ (n + (i + 1)) - 1 = n + i /\ n + m \in Nat
    BY <1>9, <1>3
  <2>3. h[i + 1] = Sees(h[(i + 1) - 1], b[i + 1])
    BY <2>1, <1>6 DEF Seen
  <2>4. f[n + (i + 1)] = Sees(f[(n + (i + 1)) - 1], q[n + (i + 1)])
    BY <2>2, <1>4 DEF Seen
  <2>5. b[i + 1] = q[n + (i + 1)]
    BY <1>2, <2>1
  <2> QED
    BY <1>9, <2>1, <2>2, <2>3, <2>4, <2>5
<1>10. \A i \in 0 .. m : i \in G
  <2> HIDE DEF G
  <2> QED
    BY <1>8, <1>9, Induct
<1> QED
  BY <1>10, <1>3, <1>4, <1>5, <1>6 DEF a, b

\* What a replica has heard of, and an error, are never taken back.
Grows(r, w) ==
    /\ r = None <=> w = None
    /\ r # None => (r.mirror.error => w.mirror.error) /\ Mentioned(r) \subseteq Mentioned(w)

(* The fields of a frame follow from its kind.                               *)
\* FrameKind.
LEMMA Kinds ==
    ASSUME NEW f \in LinkFrame
    PROVE  /\ f.kind \in {"Begin", "Ready", "Output", "Tombstone", "Event", "Closed", "Result"}
           /\ f.kind \in {"Begin", "Ready", "Output", "Tombstone"} => f \in StreamFrame
           /\ f \in StreamFrame =>
                /\ f.kind \in {"Begin", "Ready", "Output", "Tombstone"}
                /\ f.gen \in Generations /\ f.seq \in Nat
           /\ f.kind = "Result" => f.id \in Nat /\ f.ok \in BOOLEAN
  BY DEF LinkFrame, StreamFrame

-----------------------------------------------------------------------------
(* A consumer's replica, field by field.  The provers do not see through     *)
(* updates of nested records, so each kind of record has a predicate that    *)
(* names its fields, and a lemma for every update.                           *)

\* The values of a generation, and what a replica has retired.
Named == Generations \cup {None}
Heard == SUBSET Named
\* The generations a replica is told of, and all it has heard of.
Gens(st) == {x.gen : x \in st}
Knows(t, p, st) == t \cup {p} \cup Gens(st)

\* A replica by its fields, and its mirror by its own.
Shows(p, n, t, k, e, st) ==
    [mirror |-> [published |-> p, next |-> n, retired |-> t, content |-> k, geometry |-> None, error |-> e],
     staging |-> st]

(* A replica, field by field.                                                *)
\* Replica, Staging, TerminalState.
LEMMA ReplicaIs ==
    ASSUME NEW r \in Replica
    PROVE  \E p \in Named, n \in Nat, t \in Heard, k \in Nat,
              e \in BOOLEAN, st \in Staging : r = Shows(p, n, t, k, e, st)
<1>1. PICK m \in Mirror(Nat, Generations \cup {None}, {None}),
           st \in Staging : r = [mirror |-> m, staging |-> st]
  BY DEF Replica
<1>2. \E p \in Named, n \in Nat, t \in Heard, k \in Nat, e \in BOOLEAN :
        m = [published |-> p, next |-> n, retired |-> t, content |-> k, geometry |-> None, error |-> e]
  <2>1. m = [published |-> m.published, next |-> m.next, retired |-> m.retired, content |-> m.content,
             geometry |-> None, error |-> m.error]
    BY DEF Mirror, Named, Heard
  <2>2. m.published \in Named /\ m.next \in Nat /\ m.retired \in Heard
        /\ m.content \in Nat /\ m.error \in BOOLEAN
    BY DEF Mirror, Named, Heard
  <2> QED
    BY <2>1, <2>2
<1> QED
  BY <1>1, <1>2 DEF Shows

(* The generations a replica mentions, from its fields.                      *)
\* Replica, Staging, TerminalState.
LEMMA ShownIs ==
    ASSUME NEW p \in Named, NEW n \in Nat, NEW t \in Heard, NEW k \in Nat,
           NEW e \in BOOLEAN, NEW st \in Staging
    PROVE  /\ Shows(p, n, t, k, e, st) \in Replica /\ Shows(p, n, t, k, e, st) # None
           /\ Mentioned(Shows(p, n, t, k, e, st)) = (t \cup {p} \cup Gens(st)) \ {None}
<1>1. Shows(p, n, t, k, e, st) \in Replica
  BY DEF Replica, Mirror, Shows, Named, Heard
<1>2. Shows(p, n, t, k, e, st) # None
  BY <1>1, NoneAssumption
<1>3. Mentioned(Shows(p, n, t, k, e, st)) = (t \cup {p} \cup Gens(st)) \ {None}
  BY DEF Mentioned, Shows, Gens
<1> QED
  BY <1>1, <1>2, <1>3

(* When a replica with other fields has heard of no less.                    *)
\* Replica, Staging, TerminalState.
LEMMA ShownGrows ==
    ASSUME NEW p \in Named, NEW n \in Nat, NEW t \in Heard, NEW k \in Nat,
           NEW e \in BOOLEAN, NEW st \in Staging,
           NEW q \in Named, NEW o \in Nat, NEW u \in Heard, NEW l \in Nat,
           NEW x \in BOOLEAN, NEW sv \in Staging,
           e => x, Knows(t, p, st) \subseteq Knows(u, q, sv)
    PROVE  Shows(q, o, u, l, x, sv) \in Replica /\ Grows(Shows(p, n, t, k, e, st), Shows(q, o, u, l, x, sv))
<1>1. PICK r : r = Shows(p, n, t, k, e, st)
  OBVIOUS
<1>2. PICK w : w = Shows(q, o, u, l, x, sv)
  OBVIOUS
<1>3. r # None /\ Mentioned(r) = (t \cup {p} \cup Gens(st)) \ {None}
  BY <1>1, ShownIs
<1>4. w \in Replica /\ w # None /\ Mentioned(w) = (u \cup {q} \cup Gens(sv)) \ {None}
  BY <1>2, ShownIs
<1>5. r.mirror.error = e /\ w.mirror.error = x
  BY <1>1, <1>2 DEF Shows
<1> QED
  BY <1>1, <1>2, <1>3, <1>4, <1>5 DEF Grows, Knows

MirrorIs(m, p, n, t, k, y, e) ==
    m = [published |-> p, next |-> n, retired |-> t, content |-> k, geometry |-> y, error |-> e]

(* Setting the next sequence number and the content, and nothing else.       *)
\* terminal_output.
LEMMA MirrorMoves ==
    ASSUME NEW p, NEW n, NEW t, NEW k, NEW y, NEW e, NEW m, MirrorIs(m, p, n, t, k, y, e), NEW o, NEW l
    PROVE  MirrorIs([m EXCEPT !.next = o, !.content = l], p, o, t, l, y, e)
<1>1. PICK w : w = [m EXCEPT !.next = o]
  OBVIOUS
<1>2. w = [published |-> p, next |-> o, retired |-> t, content |-> k, geometry |-> y, error |-> e]
  BY <1>1 DEF MirrorIs
<1>3. [w EXCEPT !.content = l]
        = [published |-> p, next |-> o, retired |-> t, content |-> l, geometry |-> y, error |-> e]
  BY <1>2
<1>4. [m EXCEPT !.next = o, !.content = l] = [w EXCEPT !.content = l]
  BY <1>1
<1> QED
  BY <1>3, <1>4 DEF MirrorIs

(* Setting the error, and nothing else.                                      *)
\* SessionError.
LEMMA MirrorFails ==
    ASSUME NEW p, NEW n, NEW t, NEW k, NEW y, NEW e, NEW m, MirrorIs(m, p, n, t, k, y, e), NEW x
    PROVE  MirrorIs([m EXCEPT !.error = x], p, n, t, k, y, x)
  BY DEF MirrorIs

(* Publishing a generation, and nothing else.                                *)
\* publish.
LEMMA MirrorPublishes ==
    ASSUME NEW p, NEW n, NEW t, NEW k, NEW y, NEW e, NEW m, MirrorIs(m, p, n, t, k, y, e),
           NEW q, NEW o, NEW u, NEW l
    PROVE  MirrorIs([m EXCEPT !.published = q, !.next = o, !.retired = u, !.content = l, !.geometry = y],
                    q, o, u, l, y, e)
<1>1. PICK m1 : m1 = [m EXCEPT !.published = q]
  OBVIOUS
<1>2. m1 = [published |-> q, next |-> n, retired |-> t, content |-> k, geometry |-> y, error |-> e]
  BY <1>1 DEF MirrorIs
<1>3. PICK m2 : m2 = [m1 EXCEPT !.next = o]
  OBVIOUS
<1>4. m2 = [published |-> q, next |-> o, retired |-> t, content |-> k, geometry |-> y, error |-> e]
  BY <1>2, <1>3
<1>5. PICK m3 : m3 = [m2 EXCEPT !.retired = u]
  OBVIOUS
<1>6. m3 = [published |-> q, next |-> o, retired |-> u, content |-> k, geometry |-> y, error |-> e]
  BY <1>4, <1>5
<1>7. PICK m4 : m4 = [m3 EXCEPT !.content = l]
  OBVIOUS
<1>8. m4 = [published |-> q, next |-> o, retired |-> u, content |-> l, geometry |-> y, error |-> e]
  BY <1>6, <1>7
<1>9. [m4 EXCEPT !.geometry = y]
        = [published |-> q, next |-> o, retired |-> u, content |-> l, geometry |-> y, error |-> e]
  BY <1>8
<1>10. [m EXCEPT !.published = q, !.next = o, !.retired = u, !.content = l, !.geometry = y]
        = [m4 EXCEPT !.geometry = y]
  BY <1>1, <1>3, <1>5, <1>7
<1> QED
  BY <1>9, <1>10 DEF MirrorIs

(* BEGIN gives a replica that forgets no generation and no error.            *)
\* bootstrap_begin.
LEMMA BeginSeen ==
    ASSUME NEW r \in Replica, NEW g \in Generations, NEW b \in Nat
    PROVE  StageBegin(r, g, b) \in Replica /\ Grows(r, StageBegin(r, g, b))
<1>1. PICK p \in Named, n \in Nat, t \in Heard, k \in Nat,
           e \in BOOLEAN, st \in Staging : r = Shows(p, n, t, k, e, st)
  BY ReplicaIs
<1>2. CASE RefusesBegin(r.mirror, g) \/ Stages(r, g)
  <2>1. StageBegin(r, g, b) = Shows(p, n, t, k, TRUE, st)
    BY <1>1, <1>2 DEF StageBegin, Fails, Shows
  <2>2. Shows(p, n, t, k, TRUE, st) \in Replica /\ Grows(Shows(p, n, t, k, e, st), Shows(p, n, t, k, TRUE, st))
    BY ShownGrows
  <2> QED
    BY <1>1, <2>1, <2>2
<1>3. CASE ~(RefusesBegin(r.mirror, g) \/ Stages(r, g))
  <2>1. r.mirror = [published |-> p, next |-> n, retired |-> t, content |-> k, geometry |-> None, error |-> e]
        /\ r.staging = st
    BY <1>1 DEF Shows
  <2>2. PICK u \in Heard : u = t \cup Gens(st)
    <3>1. ASSUME NEW x \in st PROVE x.gen \in Named
      BY DEF Staging, Named
    <3>2. t \cup Gens(st) \in Heard
      BY <3>1 DEF Gens, Heard
    <3> QED
      BY <3>2
  <2>3. PICK sv \in Staging : sv = {[gen |-> g, base |-> b]}
    <3>1. {[gen |-> g, base |-> b]} \in Staging
      BY DEF Staging
    <3> QED
      BY <3>1
  <2>4. StageBegin(r, g, b) = Shows(p, n, u, k, e, sv)
    <3>1. StageBegin(r, g, b) = [mirror |-> [r.mirror EXCEPT !.retired = @ \cup Gens(st)], staging |-> sv]
      BY <1>3, <2>1, <2>3 DEF StageBegin, Gens
    <3>2. [r.mirror EXCEPT !.retired = @ \cup Gens(st)]
            = [published |-> p, next |-> n, retired |-> t \cup Gens(st), content |-> k, geometry |-> None, error |-> e]
      BY <2>1
    <3> QED
      BY <3>1, <3>2, <2>2 DEF Shows
  <2>5. Knows(t, p, st) \subseteq Knows(u, p, sv)
    BY <2>2 DEF Knows
  <2>6. Shows(p, n, u, k, e, sv) \in Replica /\ Grows(Shows(p, n, t, k, e, st), Shows(p, n, u, k, e, sv))
    BY <2>5, ShownGrows
  <2> QED
    BY <1>1, <2>4, <2>6
<1> QED
  BY <1>2, <1>3

(* READY gives a replica that forgets no generation and no error.            *)
\* bootstrap_ready, publish.
LEMMA ReadySeen ==
    ASSUME NEW r \in Replica, NEW g \in Generations
    PROVE  StageReady(r, g) \in Replica /\ Grows(r, StageReady(r, g))
<1>1. PICK p \in Named, n \in Nat, t \in Heard, k \in Nat,
           e \in BOOLEAN, st \in Staging : r = Shows(p, n, t, k, e, st)
  BY ReplicaIs
<1>2. r.mirror = [published |-> p, next |-> n, retired |-> t, content |-> k, geometry |-> None, error |-> e]
      /\ r.staging = st
  BY <1>1 DEF Shows
<1>3. CASE g \in r.mirror.retired \/ ~Stages(r, g)
  <2>1. StageReady(r, g) = Shows(p, n, t, k, TRUE, st)
    BY <1>1, <1>3 DEF StageReady, Fails, Shows
  <2>2. Shows(p, n, t, k, TRUE, st) \in Replica /\ Grows(Shows(p, n, t, k, e, st), Shows(p, n, t, k, TRUE, st))
    BY ShownGrows
  <2> QED
    BY <1>1, <2>1, <2>2
<1>4. CASE ~(g \in r.mirror.retired \/ ~Stages(r, g))
  <2>1. PICK s \in st : s.gen = g /\ s = CHOOSE y \in r.staging : y.gen = g
    BY <1>2, <1>4 DEF Stages
  <2>2. PICK b \in Nat : b = s.base
    BY <2>1 DEF Staging
  <2>3. PICK u \in Heard : u = t \cup {p}
    BY DEF Heard
  <2>4. b + 1 \in Nat
    OBVIOUS
  <2>5. PICK o \in Nat : o = b + 1
    BY <2>4
  <2>6. StageReady(r, g) = Shows(g, o, u, b, e, {})
    <3>1. StageReady(r, g) =
            [mirror |-> [r.mirror EXCEPT !.published = g, !.next = b + 1, !.retired = @ \cup {r.mirror.published},
                                         !.content = b, !.geometry = r.mirror.geometry], staging |-> {}]
      BY <1>4, <2>1, <2>2 DEF StageReady, Published
    <3>2. [r.mirror EXCEPT !.published = g, !.next = b + 1, !.retired = @ \cup {r.mirror.published},
                           !.content = b, !.geometry = r.mirror.geometry]
            = [published |-> g, next |-> b + 1, retired |-> t \cup {p}, content |-> b, geometry |-> None, error |-> e]
      <4>1. PICK v : v = t \cup {p}
        OBVIOUS
      <4>2. PICK m, z : m = r.mirror /\ z = e
        OBVIOUS
      <4>3. MirrorIs(m, p, n, t, k, None, z)
        BY <1>2, <4>2 DEF MirrorIs
      <4>4. MirrorIs([m EXCEPT !.published = g, !.next = o, !.retired = v, !.content = b, !.geometry = None],
                     g, o, v, b, None, z)
        BY <4>3, MirrorPublishes
      <4>5. m.retired = t /\ m.published = p /\ m.geometry = None
        BY <4>3 DEF MirrorIs
      <4> QED
        BY <4>1, <4>2, <4>4, <4>5, <2>5 DEF MirrorIs
    <3> QED
      BY <3>1, <3>2, <2>3, <2>5 DEF Shows
  <2>7. Knows(t, p, st) \subseteq Knows(u, g, {})
    BY <2>1, <2>3 DEF Knows, Gens, Staging
  <2>8. {} \in Staging /\ g \in Named
    BY DEF Staging, Named
  <2>9. Shows(g, o, u, b, e, {}) \in Replica /\ Grows(Shows(p, n, t, k, e, st), Shows(g, o, u, b, e, {}))
    BY <2>7, <2>8, ShownGrows
  <2> QED
    BY <1>1, <2>6, <2>9
<1> QED
  BY <1>3, <1>4

(* Output gives a replica that forgets no generation and no error.           *)
\* terminal_output.
LEMMA OutputSeen ==
    ASSUME NEW r \in Replica, NEW g \in Generations, NEW q \in Nat
    PROVE  /\ [r EXCEPT !.mirror = ApplyOutput(@, g, q)] \in Replica
           /\ Grows(r, [r EXCEPT !.mirror = ApplyOutput(@, g, q)])
<1>1. PICK p \in Named, n \in Nat, t \in Heard, k \in Nat,
           e \in BOOLEAN, st \in Staging : r = Shows(p, n, t, k, e, st)
  BY ReplicaIs
<1>2. CASE Expects(r.mirror, g, q)
  <2>1. q + 1 \in Nat /\ (IF k = q - 1 THEN q ELSE k) \in Nat
    OBVIOUS
  <2>2. PICK o \in Nat : o = q + 1
    BY <2>1
  <2>3. PICK l \in Nat : l = IF k = q - 1 THEN q ELSE k
    BY <2>1
  <2>4. [r EXCEPT !.mirror = ApplyOutput(@, g, q)] = Shows(p, o, t, l, e, st)
    <3>1. r.mirror = [published |-> p, next |-> n, retired |-> t, content |-> k, geometry |-> None, error |-> e]
          /\ r = [mirror |-> r.mirror, staging |-> st]
      BY <1>1 DEF Shows
    <3>2. ApplyOutput(r.mirror, g, q) = [r.mirror EXCEPT !.next = q + 1, !.content = IF @ = q - 1 THEN q ELSE @]
      BY <1>2 DEF ApplyOutput
    <3>3. ApplyOutput(r.mirror, g, q)
            = [published |-> p, next |-> o, retired |-> t, content |-> l, geometry |-> None, error |-> e]
      <4>1. PICK m, z : m = r.mirror /\ z = e
        OBVIOUS
      <4>2. MirrorIs(m, p, n, t, k, None, z)
        BY <3>1, <4>1 DEF MirrorIs
      <4>3. MirrorIs([m EXCEPT !.next = o, !.content = l], p, o, t, l, None, z)
        BY <4>2, MirrorMoves
      <4>4. m.content = k
        BY <4>2 DEF MirrorIs
      <4> QED
        BY <3>2, <4>1, <4>3, <4>4, <2>2, <2>3 DEF MirrorIs
    <3>4. [r EXCEPT !.mirror = ApplyOutput(@, g, q)] = [mirror |-> ApplyOutput(r.mirror, g, q), staging |-> st]
      BY <3>1
    <3> QED
      BY <3>3, <3>4 DEF Shows
  <2>5. Shows(p, o, t, l, e, st) \in Replica /\ Grows(Shows(p, n, t, k, e, st), Shows(p, o, t, l, e, st))
    BY ShownGrows
  <2> QED
    BY <1>1, <2>4, <2>5
<1>3. CASE ~Expects(r.mirror, g, q)
  <2>1. [r EXCEPT !.mirror = ApplyOutput(@, g, q)] = Shows(p, n, t, k, TRUE, st)
    <3>1. r.mirror = [published |-> p, next |-> n, retired |-> t, content |-> k, geometry |-> None, error |-> e]
          /\ r = [mirror |-> r.mirror, staging |-> st]
      BY <1>1 DEF Shows
    <3>2. ApplyOutput(r.mirror, g, q) = [r.mirror EXCEPT !.error = TRUE]
      BY <1>3 DEF ApplyOutput
    <3>3. ApplyOutput(r.mirror, g, q)
            = [published |-> p, next |-> n, retired |-> t, content |-> k, geometry |-> None, error |-> TRUE]
      <4>1. PICK m, z, v : m = r.mirror /\ z = e /\ v = TRUE
        OBVIOUS
      <4>2. MirrorIs(m, p, n, t, k, None, z)
        BY <3>1, <4>1 DEF MirrorIs
      <4>3. MirrorIs([m EXCEPT !.error = v], p, n, t, k, None, v)
        BY <4>2, MirrorFails
      <4> QED
        BY <3>2, <4>1, <4>3 DEF MirrorIs
    <3>4. [r EXCEPT !.mirror = ApplyOutput(@, g, q)] = [mirror |-> ApplyOutput(r.mirror, g, q), staging |-> st]
      BY <3>1
    <3> QED
      BY <3>3, <3>4 DEF Shows
  <2>2. Shows(p, n, t, k, TRUE, st) \in Replica /\ Grows(Shows(p, n, t, k, e, st), Shows(p, n, t, k, TRUE, st))
    BY ShownGrows
  <2> QED
    BY <1>1, <2>1, <2>2
<1> QED
  BY <1>2, <1>3

(* A tombstone gives a replica that forgets no generation and no error.      *)
\* tombstone_generation.
LEMMA TombstoneSeen ==
    ASSUME NEW r \in Replica, NEW g \in Generations
    PROVE  StageTombstone(r, g) \in Replica /\ Grows(r, StageTombstone(r, g))
<1>1. PICK p \in Named, n \in Nat, t \in Heard, k \in Nat,
           e \in BOOLEAN, st \in Staging : r = Shows(p, n, t, k, e, st)
  BY ReplicaIs
<1>2. PICK u \in Heard : u = t \cup {g}
  BY DEF Heard, Named
<1>3. PICK sv \in Staging : sv = {y \in st : y.gen # g}
  BY DEF Staging
<1>4. StageTombstone(r, g) = Shows(p, n, u, k, e, sv)
  <2>1. r.mirror = [published |-> p, next |-> n, retired |-> t, content |-> k, geometry |-> None, error |-> e]
        /\ r.staging = st
    BY <1>1 DEF Shows
  <2>2. [r.mirror EXCEPT !.retired = @ \cup {g}]
          = [published |-> p, next |-> n, retired |-> t \cup {g}, content |-> k, geometry |-> None, error |-> e]
    BY <2>1
  <2> QED
    BY <2>1, <2>2, <1>2, <1>3 DEF StageTombstone, ApplyTombstone, Shows
<1>5. Knows(t, p, st) \subseteq Knows(u, p, sv)
  BY <1>2, <1>3 DEF Knows, Gens
<1>6. Shows(p, n, u, k, e, sv) \in Replica /\ Grows(Shows(p, n, t, k, e, st), Shows(p, n, u, k, e, sv))
  BY <1>5, ShownGrows
<1> QED
  BY <1>1, <1>4, <1>6

(* Every frame gives a replica that forgets nothing; events and answers      *)
(* leave it as it is.                                                        *)
\* The frame handlers of SessionKernel.
LEMMA SeesTyped ==
    ASSUME NEW r \in Replica \cup {None}, NEW f \in LinkFrame
    PROVE  /\ Sees(r, f) \in Replica \cup {None} /\ Grows(r, Sees(r, f))
           /\ f.kind \in {"Event", "Closed", "Result"} => Sees(r, f) = r
<1>1. CASE r = None
  BY <1>1 DEF Sees, Grows
<1>2. CASE r # None
  <2>1. r \in Replica
    BY <1>2
  <2>2. CASE f.kind = "Begin"
    <3>1. f.gen \in Generations /\ f.seq \in Nat
      BY <2>2, Kinds
    <3>2. Sees(r, f) = StageBegin(r, f.gen, f.seq)
      BY <1>2, <2>2 DEF Sees
    <3> QED
      BY <2>1, <2>2, <3>1, <3>2, BeginSeen
  <2>3. CASE f.kind = "Ready"
    <3>1. f.gen \in Generations
      BY <2>3, Kinds
    <3>2. Sees(r, f) = StageReady(r, f.gen)
      BY <1>2, <2>3 DEF Sees
    <3> QED
      BY <2>1, <2>3, <3>1, <3>2, ReadySeen
  <2>4. CASE f.kind = "Output"
    <3>1. f.gen \in Generations /\ f.seq \in Nat
      BY <2>4, Kinds
    <3>2. Sees(r, f) = [r EXCEPT !.mirror = ApplyOutput(@, f.gen, f.seq)]
      BY <1>2, <2>4 DEF Sees
    <3> QED
      BY <2>1, <2>4, <3>1, <3>2, OutputSeen
  <2>5. CASE f.kind = "Tombstone"
    <3>1. f.gen \in Generations
      BY <2>5, Kinds
    <3>2. Sees(r, f) = StageTombstone(r, f.gen)
      BY <1>2, <2>5 DEF Sees
    <3> QED
      BY <2>1, <2>5, <3>1, <3>2, TombstoneSeen
  <2>6. CASE f.kind \in {"Event", "Closed", "Result"}
    <3>1. Sees(r, f) = r
      BY <1>2, <2>6 DEF Sees
    <3> QED
      BY <3>1 DEF Grows
  <2> QED
    BY <2>2, <2>3, <2>4, <2>5, <2>6, Kinds
<1> QED
  BY <1>1, <1>2

(* Forgetting nothing twice is forgetting nothing.                           *)
\* The frame handlers of SessionKernel.
LEMMA GrowsOn ==
    ASSUME NEW r, NEW s, NEW w, Grows(r, s), Grows(s, w)
    PROVE  Grows(r, w)
  BY DEF Grows

(* A sequence of frames gives a replica that forgets nothing.                *)
\* The frame handlers of SessionKernel.
LEMMA SeesAllTyped ==
    ASSUME NEW r \in Replica \cup {None}, NEW q \in Seq(LinkFrame)
    PROVE  SeesAll(r, q) \in Replica \cup {None} /\ Grows(r, SeesAll(r, q))
<1>1. Len(q) \in Nat
  OBVIOUS
<1>2. PICK n \in Nat : n = Len(q)
  BY <1>1
<1>3. PICK v : Seen(v, r, q, n) /\ SeesAll(r, q) = v[n]
  BY <1>1, <1>2, SeesAllIs
<1> DEFINE G == {i \in 0 .. n : v[i] \in Replica \cup {None} /\ Grows(r, v[i])}
<1>4. 0 \in G
  BY <1>3 DEF Seen, Grows
<1>5. ASSUME NEW i \in 0 .. n, i # n, i \in G PROVE i + 1 \in G
  <2>1. i + 1 \in 0 .. n /\ i + 1 # 0 /\ (i + 1) - 1 = i /\ i + 1 \in 1 .. Len(q)
    BY <1>2, <1>5
  <2>2. v[i + 1] = Sees(v[i], q[i + 1])
    BY <1>3, <2>1 DEF Seen
  <2>3. q[i + 1] \in LinkFrame
    BY <2>1, ElementOf
  <2>4. PICK x \in Replica \cup {None} : x = v[i] /\ Grows(r, x)
    BY <1>5
  <2>5. PICK e \in LinkFrame : e = q[i + 1]
    BY <2>3
  <2>6. PICK y : y = Sees(x, e)
    OBVIOUS
  <2>7. y \in Replica \cup {None} /\ Grows(x, y)
    BY <2>6, SeesTyped
  <2>8. Grows(r, y)
    BY <2>4, <2>7, GrowsOn
  <2> QED
    BY <2>1, <2>2, <2>4, <2>5, <2>6, <2>7, <2>8
<1>6. \A i \in 0 .. n : i \in G
  <2> HIDE DEF G
  <2> QED
    BY <1>4, <1>5, Induct
<1> QED
  BY <1>2, <1>3, <1>6

-----------------------------------------------------------------------------
(* One proxy and its snapshot gate.                                          *)

\* A proxy by its fields.
Proxied(n, g, h, o) == [seq |-> n, gate |-> g, held |-> h, openAfter |-> o]
Gates == {"Awaiting", "Open", "Retained"}
Held == Seq(StreamFrame)
\* GateOK, on the fields.
ProxyOK(g, h, o) == (g = "Retained" <=> h # <<>>) /\ (o => g = "Retained") /\ Len(h) <= MaxRetained

(* A queue cut in two.                                                       *)
\* flush_pending_snapshot.
LEMMA SubSeqOf ==
    ASSUME NEW S, NEW q \in Seq(S), NEW n \in 0 .. Len(q)
    PROVE  /\ SubSeq(q, 1, n) \in Seq(S) /\ Len(SubSeq(q, 1, n)) = n
           /\ SubSeq(q, n + 1, Len(q)) \in Seq(S) /\ Len(SubSeq(q, n + 1, Len(q))) = Len(q) - n
  OBVIOUS

(* A proxy, field by field.                                                  *)
\* ProxySubscriber, SnapshotGate.
LEMMA SubscriberIs ==
    ASSUME NEW sub \in Subscriber
    PROVE  \E n \in Nat, g \in Gates, h \in Held, o \in BOOLEAN : sub = Proxied(n, g, h, o)
<1>1. sub = [seq |-> sub.seq, gate |-> sub.gate, held |-> sub.held, openAfter |-> sub.openAfter]
      /\ sub.seq \in Nat /\ sub.gate \in Gates /\ sub.held \in Held /\ sub.openAfter \in BOOLEAN
  BY DEF Subscriber, Gates, Held
<1> QED
  BY <1>1 DEF Proxied

(* The type and the gate of a proxy, from its fields.                        *)
\* ProxySubscriber, SnapshotGate.
LEMMA ProxiedIs ==
    ASSUME NEW n \in Nat, NEW g \in Gates, NEW h \in Held, NEW o \in BOOLEAN
    PROVE  /\ Proxied(n, g, h, o) \in Subscriber /\ Proxied(n, g, h, o) # None
           /\ Proxied(n, g, h, o).seq = n /\ Proxied(n, g, h, o).gate = g
           /\ Proxied(n, g, h, o).held = h /\ Proxied(n, g, h, o).openAfter = o
           /\ GateOK(Proxied(n, g, h, o)) <=> ProxyOK(g, h, o)
           /\ OpensAfter(Proxied(n, g, h, o)) <=> g = "Open" \/ o
<1>1. Proxied(n, g, h, o) \in Subscriber
  BY DEF Proxied, Subscriber, Gates, Held
<1>2. Proxied(n, g, h, o) # None
  BY <1>1, NoneAssumption
<1>3. Proxied(n, g, h, o).seq = n /\ Proxied(n, g, h, o).gate = g
      /\ Proxied(n, g, h, o).held = h /\ Proxied(n, g, h, o).openAfter = o
  BY DEF Proxied
<1>4. GateOK(Proxied(n, g, h, o)) <=> ProxyOK(g, h, o)
  BY <1>3 DEF GateOK, ProxyOK
<1>5. OpensAfter(Proxied(n, g, h, o)) <=> g = "Open" \/ o
  BY <1>3 DEF OpensAfter
<1> QED
  BY <1>1, <1>2, <1>3, <1>4, <1>5

(* The two parts of the result of a push.                                    *)
\* push_bootstrap_frame, fan_out.
LEMMA LeftIs ==
    ASSUME NEW sub, NEW sent
    PROVE  Left(sub, sent).sub = sub /\ Left(sub, sent).sent = sent
  BY DEF Left

(* What is retained is a sequence of frames a kernel takes.                  *)
\* SnapshotGate.
LEMMA HeldSeen ==
    ASSUME NEW h \in Held
    PROVE  h \in Seq(LinkFrame) /\ Len(h) \in Nat
<1>1. StreamFrame \subseteq LinkFrame
  BY DEF LinkFrame
<1> QED
  BY <1>1 DEF Held

\* What is left of a proxy, and what entered its mailbox.
Sent(p, room) ==
    /\ p.sub \in Subscriber \cup {None} /\ (p.sub # None => GateOK(p.sub))
    /\ p.sent \in Seq(LinkFrame) /\ Len(p.sent) \in Nat /\ Len(p.sent) <= room

\* The replica once it has what was sent and what is retained.
After(r, p) == IF p.sub = None THEN SeesAll(r, p.sent) ELSE SeesAll(SeesAll(r, p.sent), p.sub.held)

(* Flushing keeps the gate honest and the mailbox within its room; what was  *)
(* sent and what is left are together what was retained.                     *)
\* flush_pending_snapshot.
LEMMA FlushIs ==
    ASSUME NEW sub \in Subscriber, GateOK(sub), NEW alive \in BOOLEAN, NEW room \in Nat
    PROVE  /\ Sent(Flush(sub, alive, room), room)
           /\ Flush(sub, alive, room).sub = None =>
                ~alive /\ sub.gate = "Retained" /\ Flush(sub, alive, room).sent = <<>>
           /\ Flush(sub, alive, room).sub # None =>
                /\ (OpensAfter(Flush(sub, alive, room).sub) <=> OpensAfter(sub))
                /\ \A r : After(r, Flush(sub, alive, room)) = SeesAll(r, sub.held)
<1>1. PICK n \in Nat, g \in Gates, h \in Held, o \in BOOLEAN : sub = Proxied(n, g, h, o)
  BY SubscriberIs
<1>2. PICK p : p = Flush(sub, alive, room)
  OBVIOUS
<1>3. ProxyOK(g, h, o) /\ sub.gate = g /\ sub.held = h /\ sub.openAfter = o
      /\ (OpensAfter(sub) <=> g = "Open" \/ o) /\ sub # None
  BY <1>1, ProxiedIs
<1>4. h \in Seq(LinkFrame) /\ Len(h) \in Nat /\ <<>> \in Seq(LinkFrame) /\ Len(<<>>) = 0
  BY HeldSeen
<1>5. CASE g # "Retained"
  <2>1. p.sub = sub /\ p.sent = <<>>
    BY <1>2, <1>3, <1>5, LeftIs DEF Flush
  <2>2. h = <<>>
    BY <1>3, <1>5 DEF ProxyOK
  <2>3. Sent(p, room)
    BY <2>1, <1>4 DEF Sent
  <2>4. ASSUME NEW r PROVE After(r, p) = SeesAll(r, h)
    BY <2>1, <2>2, <1>3, SeesNothing DEF After
  <2> QED
    BY <2>1, <2>3, <2>4, <1>2, <1>3
<1>6. CASE g = "Retained" /\ ~alive
  <2>1. p.sub = None /\ p.sent = <<>>
    BY <1>2, <1>3, <1>6, LeftIs DEF Flush
  <2>2. Sent(p, room)
    BY <2>1, <1>4 DEF Sent
  <2> QED
    BY <2>1, <2>2, <1>2, <1>3, <1>6
<1>7. CASE g = "Retained" /\ alive
  <2>1. PICK k \in 0 .. Len(h) : k = (IF room < Len(h) THEN room ELSE Len(h)) /\ k <= room
    BY <1>4
  <2>2. PICK rest : rest = SubSeq(h, k + 1, Len(h))
    OBVIOUS
  <2>3. PICK sent : sent = SubSeq(h, 1, k)
    OBVIOUS
  <2>4. rest \in Held /\ Len(rest) = Len(h) - k /\ sent \in Held /\ Len(sent) = k /\ k \in Nat
    <3>1. h \in Seq(StreamFrame) /\ k \in 0 .. Len(h)
      BY <2>1, <1>4 DEF Held
    <3>2. rest \in Seq(StreamFrame) /\ Len(rest) = Len(h) - k /\ sent \in Seq(StreamFrame) /\ Len(sent) = k
      BY <2>2, <2>3, <3>1, SubSeqOf
    <3> QED
      BY <3>1, <3>2 DEF Held
  <2>5. PICK g2 \in Gates : g2 = IF rest # <<>> THEN "Retained" ELSE Gated(o)
    BY DEF Gates, Gated
  <2>6. PICK o2 \in BOOLEAN : o2 = (rest # <<>> /\ o)
    OBVIOUS
  <2>7. p.sub = Proxied(n, g2, rest, o2) /\ p.sent = sent
    <3>1. p = Left([sub EXCEPT !.held = rest, !.gate = IF rest # <<>> THEN "Retained" ELSE Gated(o),
                               !.openAfter = rest # <<>> /\ o], sent)
      BY <1>2, <1>3, <1>7, <2>1, <2>2, <2>3 DEF Flush
    <3>2. p.sub = [sub EXCEPT !.held = rest, !.gate = g2, !.openAfter = o2] /\ p.sent = sent
      BY <3>1, <2>5, <2>6, LeftIs
    <3>3. [sub EXCEPT !.held = rest, !.gate = g2, !.openAfter = o2] = Proxied(n, g2, rest, o2)
      <4>1. PICK w1 : w1 = [sub EXCEPT !.held = rest]
        OBVIOUS
      <4>2. w1 = Proxied(n, g, rest, o)
        BY <1>1, <4>1 DEF Proxied
      <4>3. PICK w2 : w2 = [w1 EXCEPT !.gate = g2]
        OBVIOUS
      <4>4. w2 = Proxied(n, g2, rest, o)
        BY <4>2, <4>3 DEF Proxied
      <4>5. [w2 EXCEPT !.openAfter = o2] = Proxied(n, g2, rest, o2)
        BY <4>4 DEF Proxied
      <4>6. [sub EXCEPT !.held = rest, !.gate = g2, !.openAfter = o2] = [w2 EXCEPT !.openAfter = o2]
        BY <4>1, <4>3
      <4> QED
        BY <4>5, <4>6
    <3> QED
      BY <3>2, <3>3
  <2>8. ProxyOK(g2, rest, o2)
    <3>1. g2 = "Retained" <=> rest # <<>>
      BY <2>5 DEF Gated
    <3>2. o2 => g2 = "Retained"
      BY <2>6, <3>1
    <3>3. Len(rest) <= MaxRetained
      BY <2>4, <1>3, <1>4, RelaySessionAssumption DEF ProxyOK
    <3> QED
      BY <3>1, <3>2, <3>3 DEF ProxyOK
  <2>9. p.sub \in Subscriber /\ GateOK(p.sub) /\ p.sub # None /\ p.sub.held = rest
        /\ (OpensAfter(p.sub) <=> g2 = "Open" \/ o2)
    BY <2>4, <2>7, <2>8, ProxiedIs
  <2>10. Sent(p, room)
    <3>1. sent \in Seq(LinkFrame)
      BY <2>4, HeldSeen
    <3> QED
      BY <3>1, <2>1, <2>4, <2>7, <2>9 DEF Sent
  <2>11. OpensAfter(p.sub) <=> OpensAfter(sub)
    <3>1. CASE rest = <<>>
      BY <3>1, <2>5, <2>6, <2>9, <1>3, <1>7 DEF Gated
    <3>2. CASE rest # <<>>
      BY <3>2, <2>5, <2>6, <2>9, <1>3, <1>7
    <3> QED
      BY <3>1, <3>2
  <2>12. ASSUME NEW r PROVE After(r, p) = SeesAll(r, h)
    <3>1. SeesAll(r, h) = SeesAll(SeesAll(r, sent), rest)
      BY <2>1, <2>2, <2>3, SeesSplit DEF Held
    <3> QED
      BY <3>1, <2>7, <2>9 DEF After
  <2> QED
    BY <2>9, <2>10, <2>11, <2>12, <1>2, <1>3
<1> QED
  BY <1>5, <1>6, <1>7

(* One frame.                                                                *)
\* The frame handlers of SessionKernel.
LEMMA SeesOne ==
    ASSUME NEW r, NEW f
    PROVE  SeesAll(r, <<f>>) = Sees(r, f)
<1>1. <<>> \in Seq({f}) /\ f \in {f} /\ Append(<<>>, f) = <<f>>
  OBVIOUS
<1>2. SeesAll(r, Append(<<>>, f)) = Sees(SeesAll(r, <<>>), f)
  BY <1>1, SeesAppended
<1> QED
  BY <1>1, <1>2, SeesNothing

(* A kernel makes nothing of events, closes and answers.                     *)
\* The frame handlers of SessionKernel.
LEMMA IgnoresEvents ==
    ASSUME NEW r, NEW f, f.kind \in {"Event", "Closed", "Result"}
    PROVE  Sees(r, f) = r
  BY DEF Sees

(* Retaining a frame within the bound puts it behind what is retained, and   *)
(* READY lets the gate open after it.                                        *)
\* push_bootstrap_frame.
LEMMA HoldsIs ==
    ASSUME NEW n \in Nat, NEW g \in Gates, NEW h \in Held, NEW o \in BOOLEAN, NEW f \in StreamFrame,
           Len(h) < MaxRetained, NEW q, q = Holds(Proxied(n, g, h, o), f)
    PROVE  /\ q \in Subscriber /\ q # None /\ GateOK(q) /\ q.held = Append(h, f)
           /\ (OpensAfter(q) <=> o \/ f.kind = "Ready")
           /\ \A r : SeesAll(r, q.held) = Sees(SeesAll(r, h), f)
<1>1. PICK h2 : h2 = Append(h, f)
  OBVIOUS
<1>2. h2 \in Held /\ Len(h2) = Len(h) + 1 /\ Len(h) \in Nat
  BY <1>1 DEF Held
<1>3. PICK o2 \in BOOLEAN : o2 = (o \/ f.kind = "Ready")
  OBVIOUS
<1>4. q = Proxied(n, "Retained", h2, o2)
  <2>1. PICK w : w = Proxied(n, g, h, o)
    OBVIOUS
  <2>2. PICK w1 : w1 = [w EXCEPT !.gate = "Retained"]
    OBVIOUS
  <2>3. w1 = Proxied(n, "Retained", h, o)
    BY <2>1, <2>2 DEF Proxied
  <2>4. PICK w2 : w2 = [w1 EXCEPT !.held = h2]
    OBVIOUS
  <2>5. w2 = Proxied(n, "Retained", h2, o)
    BY <2>3, <2>4 DEF Proxied
  <2>6. [w2 EXCEPT !.openAfter = o2] = Proxied(n, "Retained", h2, o2)
    BY <2>5 DEF Proxied
  <2>7. w.held = h /\ w.openAfter = o
    BY <2>1 DEF Proxied
  <2>8. q = [w EXCEPT !.gate = "Retained", !.held = Append(w.held, f),
                      !.openAfter = w.openAfter \/ f.kind = "Ready"]
    BY <2>1 DEF Holds
  <2>9. q = [w EXCEPT !.gate = "Retained", !.held = h2, !.openAfter = o2]
    BY <2>7, <2>8, <1>1, <1>3
  <2>10. [w EXCEPT !.gate = "Retained", !.held = h2, !.openAfter = o2] = [w2 EXCEPT !.openAfter = o2]
    BY <2>2, <2>4
  <2> QED
    BY <2>6, <2>9, <2>10
<1>5. ProxyOK("Retained", h2, o2)
  <2>1. h2 # <<>>
    BY <1>2
  <2>2. Len(h2) <= MaxRetained
    BY <1>2, RelaySessionAssumption
  <2> QED
    BY <2>1, <2>2 DEF ProxyOK
<1>6. "Retained" \in Gates
  BY DEF Gates
<1>7. q \in Subscriber /\ q # None /\ GateOK(q) /\ q.held = h2 /\ (OpensAfter(q) <=> o2)
  BY <1>2, <1>4, <1>5, <1>6, ProxiedIs
<1>8. ASSUME NEW r PROVE SeesAll(r, h2) = Sees(SeesAll(r, h), f)
  BY <1>1, SeesAppended DEF Held
<1> QED
  BY <1>1, <1>3, <1>7, <1>8

\* What a push to a proxy does, seen from the replica behind it.
Pushes(p, sub, f, r) ==
    /\ p.sub = None => Grows(SeesAll(r, p.sent), SeesAll(r, sub.held))
    /\ f.kind = "Closed" => Grows(SeesAll(r, p.sent), SeesAll(r, sub.held))
    /\ p.sub # None /\ f.kind \in {"Begin", "Ready", "Tombstone"} => After(r, p) = Sees(SeesAll(r, sub.held), f)
    /\ p.sub # None /\ f.kind = "Ready" => OpensAfter(p.sub)
    /\ p.sub # None /\ f.kind \in {"Output", "Event"} =>
        /\ OpensAfter(p.sub) <=> OpensAfter(sub)
        /\ After(r, p) = IF p.sub.gate = "Open" THEN Sees(SeesAll(r, sub.held), f) ELSE SeesAll(r, sub.held)

(* A frame of a bootstrap reaches the replica behind what is retained, now   *)
(* or later, unless the proxy is reaped.                                     *)
\* push_bootstrap_frame.
LEMMA PushBootstrapIs ==
    ASSUME NEW sub \in Subscriber, GateOK(sub), NEW f \in StreamFrame, f.kind \in {"Begin", "Ready", "Tombstone"},
           NEW alive \in BOOLEAN, NEW room \in Nat, NEW p, p = PushBootstrap(sub, f, alive, room)
    PROVE  Sent(p, room) /\ \A r \in Replica \cup {None} : Pushes(p, sub, f, r)
<1>1. PICK n \in Nat, g \in Gates, h \in Held, o \in BOOLEAN : sub = Proxied(n, g, h, o)
  BY SubscriberIs
<1>2. ProxyOK(g, h, o) /\ sub.gate = g /\ sub.held = h /\ sub.openAfter = o
      /\ (OpensAfter(sub) <=> g = "Open" \/ o) /\ sub # None
  BY <1>1, ProxiedIs
<1>3. h \in Seq(LinkFrame) /\ Len(h) \in Nat /\ <<>> \in Seq(LinkFrame) /\ Len(<<>>) = 0
  BY HeldSeen
<1>4. f \in LinkFrame
  BY DEF LinkFrame
<1>5. CASE p.sub = None /\ p.sent = <<>>
  <2>1. Sent(p, room)
    BY <1>3, <1>5 DEF Sent
  <2>2. ASSUME NEW r \in Replica \cup {None} PROVE Pushes(p, sub, f, r)
    <3>1. Grows(r, SeesAll(r, h))
      BY <1>3, SeesAllTyped
    <3>2. SeesAll(r, p.sent) = r
      BY <1>5, SeesNothing
    <3> QED
      BY <3>1, <3>2, <1>2, <1>5 DEF Pushes
  <2> QED
    BY <2>1, <2>2
<1>6. CASE p = Left(Holds(sub, f), <<>>) /\ Len(h) < MaxRetained
  <2>1. PICK q : q = Holds(Proxied(n, g, h, o), f)
    OBVIOUS
  <2>2. q \in Subscriber /\ q # None /\ GateOK(q) /\ (OpensAfter(q) <=> o \/ f.kind = "Ready")
        /\ \A r : SeesAll(r, q.held) = Sees(SeesAll(r, h), f)
    BY <1>6, <2>1, HoldsIs
  <2>3. p.sub = q /\ p.sent = <<>>
    BY <1>1, <1>6, <2>1, LeftIs
  <2>4. Sent(p, room)
    BY <1>3, <2>2, <2>3 DEF Sent
  <2>5. ASSUME NEW r \in Replica \cup {None} PROVE Pushes(p, sub, f, r)
    <3>1. After(r, p) = SeesAll(r, q.held)
      BY <2>2, <2>3, SeesNothing DEF After
    <3> QED
      BY <3>1, <2>2, <2>3, <1>2 DEF Pushes
  <2> QED
    BY <2>4, <2>5
<1>7. CASE p = Left([sub EXCEPT !.gate = Gated(f.kind = "Ready")], <<f>>) /\ g # "Retained" /\ room > 0
  <2>1. h = <<>> /\ ~o
    BY <1>2, <1>7 DEF ProxyOK
  <2>2. PICK g2 \in Gates : g2 = Gated(f.kind = "Ready")
    BY DEF Gates, Gated
  <2>3. p.sub = Proxied(n, g2, h, o) /\ p.sent = <<f>>
    <3>1. [sub EXCEPT !.gate = g2] = Proxied(n, g2, h, o)
      BY <1>1 DEF Proxied
    <3> QED
      BY <3>1, <2>2, <1>7, LeftIs
  <2>4. ProxyOK(g2, h, o)
    BY <2>1, <2>2, <1>2 DEF ProxyOK, Gated
  <2>5. p.sub \in Subscriber /\ GateOK(p.sub) /\ p.sub # None /\ p.sub.held = h /\ (OpensAfter(p.sub) <=> g2 = "Open" \/ o)
    BY <2>3, <2>4, ProxiedIs
  <2>6. <<f>> \in Seq(LinkFrame) /\ Len(<<f>>) = 1
    BY <1>4
  <2>7. Sent(p, room)
    BY <2>3, <2>5, <2>6, <1>7 DEF Sent
  <2>8. ASSUME NEW r \in Replica \cup {None} PROVE Pushes(p, sub, f, r)
    <3>1. After(r, p) = Sees(SeesAll(r, h), f)
      BY <2>1, <2>3, <2>5, SeesNothing, SeesOne DEF After
    <3>2. f.kind = "Ready" => OpensAfter(p.sub)
      BY <2>2, <2>5 DEF Gated
    <3> QED
      BY <3>1, <3>2, <2>5, <1>2 DEF Pushes
  <2> QED
    BY <2>7, <2>8
<1>8. MaxRetained > 0 /\ MaxRetained \in Nat
  BY RelaySessionAssumption
<1>9. CASE g = "Retained"
  <2>1. p = Left(IF Len(h) < MaxRetained THEN Holds(sub, f) ELSE None, <<>>)
    BY <1>2, <1>9 DEF PushBootstrap
  <2> QED
    BY <2>1, <1>5, <1>6, LeftIs
<1>10. CASE g # "Retained"
  <2>1. p = IF ~alive THEN Left(None, <<>>)
            ELSE IF room > 0 THEN Left([sub EXCEPT !.gate = Gated(f.kind = "Ready")], <<f>>)
            ELSE Left(Holds(sub, f), <<>>)
    BY <1>2, <1>10 DEF PushBootstrap
  <2>2. Len(h) < MaxRetained
    BY <1>2, <1>3, <1>8, <1>10 DEF ProxyOK
  <2>3. CASE ~alive
    BY <2>1, <2>3, <1>5, LeftIs
  <2>4. CASE alive /\ room > 0
    BY <2>1, <2>4, <1>7, <1>10
  <2>5. CASE alive /\ ~(room > 0)
    BY <2>1, <2>2, <2>5, <1>6
  <2> QED
    BY <2>3, <2>4, <2>5
<1> QED
  BY <1>9, <1>10

(* Live output and events reach the replica behind what was retained if the  *)
(* gate is open then, and not at all otherwise.                              *)
\* fan_out.
LEMMA PushDeltaIs ==
    ASSUME NEW sub \in Subscriber, GateOK(sub), NEW f \in LinkFrame, f.kind \in {"Output", "Event"},
           NEW alive \in BOOLEAN, NEW room \in Nat, NEW p, p = PushDelta(sub, f, alive, room)
    PROVE  Sent(p, room) /\ \A r \in Replica \cup {None} : Pushes(p, sub, f, r)
<1>1. PICK fl : fl = Flush(sub, alive, room)
  OBVIOUS
<1>2. /\ Sent(fl, room)
      /\ fl.sub = None => ~alive /\ sub.gate = "Retained" /\ fl.sent = <<>>
      /\ fl.sub # None =>
            /\ (OpensAfter(fl.sub) <=> OpensAfter(sub))
            /\ \A r : After(r, fl) = SeesAll(r, sub.held)
  BY <1>1, FlushIs
<1>3. p = IF fl.sub = None \/ fl.sub.gate # "Open" THEN fl
          ELSE IF alive /\ room > Len(fl.sent) THEN Left(fl.sub, Append(fl.sent, f))
          ELSE Left(None, fl.sent)
  BY <1>1 DEF PushDelta
<1>4. sub.held \in Seq(LinkFrame)
  BY HeldSeen DEF Subscriber, Held
<1>5. CASE fl.sub = None
  <2>1. p = fl
    BY <1>3, <1>5
  <2>2. ASSUME NEW r \in Replica \cup {None} PROVE Pushes(p, sub, f, r)
    <3>1. Grows(r, SeesAll(r, sub.held))
      BY <1>4, SeesAllTyped
    <3>2. SeesAll(r, p.sent) = r
      BY <1>2, <1>5, <2>1, SeesNothing
    <3> QED
      BY <3>1, <3>2, <1>5, <2>1 DEF Pushes
  <2> QED
    BY <2>1, <2>2, <1>2
<1>6. CASE fl.sub # None /\ fl.sub.gate # "Open"
  <2>1. p = fl
    BY <1>3, <1>6
  <2>2. ASSUME NEW r \in Replica \cup {None} PROVE Pushes(p, sub, f, r)
    BY <1>2, <1>6, <2>1 DEF Pushes
  <2> QED
    BY <2>1, <2>2, <1>2
<1>7. CASE fl.sub # None /\ fl.sub.gate = "Open"
  <2>1. fl.sub \in Subscriber /\ GateOK(fl.sub) /\ fl.sub.held = <<>>
    BY <1>2, <1>7 DEF Sent, GateOK
  <2>2. ASSUME NEW r PROVE SeesAll(r, sub.held) = SeesAll(r, fl.sent)
    BY <1>2, <1>7, <2>1, SeesNothing DEF After
  <2>3. CASE alive /\ room > Len(fl.sent)
    <3>1. PICK q : q = Append(fl.sent, f)
      OBVIOUS
    <3>2. p = Left(fl.sub, q)
      BY <1>3, <1>7, <2>3, <3>1
    <3>3. p.sub = fl.sub /\ p.sent = q
      BY <3>2, LeftIs
    <3>4. p.sub = fl.sub /\ p.sent = Append(fl.sent, f)
      BY <3>1, <3>3
    <3>5. Append(fl.sent, f) \in Seq(LinkFrame) /\ Len(Append(fl.sent, f)) = Len(fl.sent) + 1 /\ Len(fl.sent) \in Nat
      <4>1. PICK q2 \in Seq(LinkFrame) : q2 = fl.sent
        BY <1>2 DEF Sent
      <4> QED
        BY <4>1, AppendOf
    <3>6. Sent(p, room)
      BY <3>4, <3>5, <2>1, <2>3, <1>2 DEF Sent
    <3>7. ASSUME NEW r \in Replica \cup {None} PROVE Pushes(p, sub, f, r)
      <4>1. SeesAll(r, p.sent) = Sees(SeesAll(r, fl.sent), f)
        BY <3>4, <1>2, SeesAppended DEF Sent
      <4>2. After(r, p) = Sees(SeesAll(r, sub.held), f)
        BY <4>1, <2>1, <2>2, <3>4, <1>7, SeesNothing DEF After
      <4> QED
        BY <4>2, <3>4, <1>2, <1>7 DEF Pushes
    <3> QED
      BY <3>6, <3>7
  <2>4. CASE ~(alive /\ room > Len(fl.sent))
    <3>1. p.sub = None /\ p.sent = fl.sent
      BY <1>3, <1>7, <2>4, LeftIs
    <3>2. Sent(p, room)
      BY <3>1, <1>2 DEF Sent
    <3>3. ASSUME NEW r \in Replica \cup {None} PROVE Pushes(p, sub, f, r)
      <4>1. PICK w : w = SeesAll(r, p.sent)
        OBVIOUS
      <4>2. Grows(w, w)
        BY DEF Grows
      <4>3. SeesAll(r, sub.held) = w
        BY <4>1, <3>1, <2>2
      <4> QED
        BY <4>1, <4>2, <4>3, <3>1 DEF Pushes
    <3> QED
      BY <3>2, <3>3
  <2> QED
    BY <2>3, <2>4
<1> QED
  BY <1>5, <1>6, <1>7

(* A close is handed on or the proxy is reaped.                              *)
\* fan_out_ungated.
LEMMA PushUngatedIs ==
    ASSUME NEW sub \in Subscriber, GateOK(sub), NEW f \in LinkFrame, f.kind = "Closed",
           NEW alive \in BOOLEAN, NEW room \in Nat, NEW p, p = PushUngated(sub, f, alive, room)
    PROVE  Sent(p, room) /\ \A r \in Replica \cup {None} : Pushes(p, sub, f, r)
<1>1. sub.held \in Seq(LinkFrame) /\ <<>> \in Seq(LinkFrame) /\ <<f>> \in Seq(LinkFrame) /\ Len(<<f>>) = 1 /\ Len(<<>>) = 0
  BY HeldSeen DEF Subscriber, Held
<1>2. /\ p.sub \in {sub, None} /\ p.sent \in {<<f>>, <<>>}
      /\ p.sent = <<f>> => room > 0
  <2>1. CASE alive /\ room > 0
    BY <2>1, LeftIs DEF PushUngated
  <2>2. CASE ~(alive /\ room > 0)
    <3>1. p = Left(None, <<>>)
      BY <2>2 DEF PushUngated
    <3>2. p.sub = None /\ p.sent = <<>>
      BY <3>1 DEF Left
    <3>3. <<f>> # <<>>
      BY <1>1
    <3> QED
      BY <3>2, <3>3
  <2> QED
    BY <2>1, <2>2
<1>3. Sent(p, room)
  <2>1. p.sent \in Seq(LinkFrame) /\ Len(p.sent) \in Nat /\ Len(p.sent) <= room
    <3>1. CASE p.sent = <<f>>
      <4>1. room >= 1
        BY <1>2, <3>1
      <4> QED
        BY <1>1, <3>1, <4>1
    <3>2. CASE p.sent = <<>>
      BY <1>1, <3>2
    <3> QED
      BY <1>2, <3>1, <3>2
  <2>2. p.sub \in Subscriber \cup {None} /\ (p.sub # None => GateOK(p.sub))
    BY <1>2
  <2> QED
    BY <2>1, <2>2 DEF Sent
<1>4. ASSUME NEW r \in Replica \cup {None} PROVE Pushes(p, sub, f, r)
  <2>1. SeesAll(r, p.sent) = r
    BY <1>2, SeesNothing, SeesOne, IgnoresEvents
  <2>2. Grows(r, SeesAll(r, sub.held))
    BY <1>1, SeesAllTyped
  <2> QED
    BY <2>1, <2>2 DEF Pushes
<1> QED
  BY <1>3, <1>4

(* The same of every frame of the stream.                                    *)
\* relay_stream_frame.
LEMMA PushIs ==
    ASSUME NEW sub \in Subscriber, GateOK(sub), NEW f \in LinkFrame, f.kind # "Result",
           NEW alive \in BOOLEAN, NEW room \in Nat
    PROVE  /\ Sent(Push(sub, f, alive, room), room)
           /\ \A r \in Replica \cup {None} : Pushes(Push(sub, f, alive, room), sub, f, r)
<1>1. PICK p : p = Push(sub, f, alive, room)
  OBVIOUS
<1>2. CASE f.kind \in {"Begin", "Ready", "Tombstone"}
  <2>1. p = PushBootstrap(sub, f, alive, room)
    BY <1>1, <1>2 DEF Push
  <2>2. f \in StreamFrame
    BY <1>2, Kinds
  <2> QED
    BY <1>1, <1>2, <2>1, <2>2, PushBootstrapIs
<1>3. CASE f.kind \in {"Output", "Event"}
  <2>1. p = PushDelta(sub, f, alive, room)
    BY <1>1, <1>3 DEF Push
  <2> QED
    BY <1>1, <1>3, <2>1, PushDeltaIs
<1>4. CASE f.kind = "Closed"
  <2>1. p = PushUngated(sub, f, alive, room)
    BY <1>1, <1>4 DEF Push
  <2> QED
    BY <1>1, <1>4, <2>1, PushUngatedIs
<1> QED
  BY <1>2, <1>3, <1>4, Kinds

-----------------------------------------------------------------------------
(* The session.                                                              *)

Proxies == [Clients -> Subscriber \cup {None}]
Flows == Flow \cup {None}
Commands == SUBSET Relayed
Ids == SUBSET Nat

\* A session, field by field.
Keeps(s, a, p, b, e, l, f, n) ==
    s = [subs |-> a, pending |-> p, barriers |-> b, explicit |-> e, legacy |-> l, flow |-> f, nextId |-> n]

\* What follows from that.
Has(s, a, p, b, e, l, f, n) ==
    /\ s \in Session
    /\ s.subs = a /\ s.pending = p /\ s.barriers = b /\ (s.explicit <=> e) /\ (s.legacy <=> l) /\ s.flow = f /\ s.nextId = n

(* A session, field by field.                                                *)
\* struct RelaySession.
LEMMA SessionIs ==
    ASSUME NEW s \in Session
    PROVE  /\ Keeps(s, s.subs, s.pending, s.barriers, s.explicit, s.legacy, s.flow, s.nextId)
           /\ s.subs \in Proxies /\ s.pending \in Commands /\ s.barriers \in Ids /\ s.explicit \in BOOLEAN
           /\ s.legacy \in BOOLEAN /\ s.flow \in Flows /\ s.nextId \in Nat
  BY DEF Session, Keeps, Proxies, Commands, Ids, Flows

(* The fields of a session, from its record.                                 *)
\* struct RelaySession.
LEMMA SessionHas ==
    ASSUME NEW a \in Proxies, NEW p \in Commands, NEW b \in Ids, NEW e \in BOOLEAN, NEW l \in BOOLEAN,
           NEW f \in Flows, NEW n \in Nat, NEW s, Keeps(s, a, p, b, e, l, f, n)
    PROVE  Has(s, a, p, b, e, l, f, n)
<1>1. s \in Session
  BY DEF Session, Keeps, Proxies, Commands, Ids, Flows
<1>2. s.subs = a /\ s.pending = p /\ s.barriers = b /\ s.explicit = e /\ s.legacy = l /\ s.flow = f /\ s.nextId = n
  BY DEF Keeps
<1> QED
  BY <1>1, <1>2 DEF Has

(* Setting this field of a session leaves the others.                        *)
\* struct RelaySession.  The subscribers.
LEMMA SetsSubs ==
    ASSUME NEW s, NEW a, NEW p, NEW b, NEW e, NEW l, NEW f, NEW n, Keeps(s, a, p, b, e, l, f, n), NEW x
    PROVE  Keeps([s EXCEPT !.subs = x], x, p, b, e, l, f, n)
  BY DEF Keeps

(* Setting this field of a session leaves the others.                        *)
\* struct RelaySession.  The commands in flight.
LEMMA SetsPending ==
    ASSUME NEW s, NEW a, NEW p, NEW b, NEW e, NEW l, NEW f, NEW n, Keeps(s, a, p, b, e, l, f, n), NEW x
    PROVE  Keeps([s EXCEPT !.pending = x], a, x, b, e, l, f, n)
  BY DEF Keeps

(* Setting this field of a session leaves the others.                        *)
\* struct RelaySession.  The pending detaches.
LEMMA SetsBarriers ==
    ASSUME NEW s, NEW a, NEW p, NEW b, NEW e, NEW l, NEW f, NEW n, Keeps(s, a, p, b, e, l, f, n), NEW x
    PROVE  Keeps([s EXCEPT !.barriers = x], a, p, x, e, l, f, n)
  BY DEF Keeps

(* Setting this field of a session leaves the others.                        *)
\* struct RelaySession.  The explicit_content.
LEMMA SetsExplicit ==
    ASSUME NEW s, NEW a, NEW p, NEW b, NEW e, NEW l, NEW f, NEW n, Keeps(s, a, p, b, e, l, f, n), NEW x
    PROVE  Keeps([s EXCEPT !.explicit = x], a, p, b, x, l, f, n)
  BY DEF Keeps

(* Setting this field of a session leaves the others.                        *)
\* struct RelaySession.  The legacy_events.
LEMMA SetsLegacy ==
    ASSUME NEW s, NEW a, NEW p, NEW b, NEW e, NEW l, NEW f, NEW n, Keeps(s, a, p, b, e, l, f, n), NEW x
    PROVE  Keeps([s EXCEPT !.legacy = x], a, p, b, e, x, f, n)
  BY DEF Keeps

(* Setting this field of a session leaves the others.                        *)
\* struct RelaySession.  The bootstrap flow.
LEMMA SetsFlow ==
    ASSUME NEW s, NEW a, NEW p, NEW b, NEW e, NEW l, NEW f, NEW n, Keeps(s, a, p, b, e, l, f, n), NEW x
    PROVE  Keeps([s EXCEPT !.flow = x], a, p, b, e, l, x, n)
  BY DEF Keeps

(* Setting this field of a session leaves the others.                        *)
\* struct RelaySession.  The next request id.
LEMMA SetsNextId ==
    ASSUME NEW s, NEW a, NEW p, NEW b, NEW e, NEW l, NEW f, NEW n, Keeps(s, a, p, b, e, l, f, n), NEW x
    PROVE  Keeps([s EXCEPT !.nextId = x], a, p, b, e, l, f, x)
  BY DEF Keeps

(* Setting one proxy of a session leaves the others.                         *)
\* struct RelaySession.  The subscribers.
LEMMA SetsOneSub ==
    ASSUME NEW s, NEW a \in Proxies, NEW p, NEW b, NEW e, NEW l, NEW f, NEW n, Keeps(s, a, p, b, e, l, f, n),
           NEW c \in Clients, NEW x \in Subscriber \cup {None}
    PROVE  /\ Keeps([s EXCEPT !.subs[c] = x], [a EXCEPT ![c] = x], p, b, e, l, f, n)
           /\ [a EXCEPT ![c] = x] \in Proxies
           /\ [a EXCEPT ![c] = x][c] = x /\ \A d \in Clients \ {c} : [a EXCEPT ![c] = x][d] = a[d]
<1>1. [s EXCEPT !.subs[c] = x] = [s EXCEPT !.subs = [s.subs EXCEPT ![c] = x]]
  OBVIOUS
<1>2. s.subs = a
  BY DEF Keeps
<1>3. PICK y : y = [a EXCEPT ![c] = x]
  OBVIOUS
<1>4. Keeps([s EXCEPT !.subs = y], y, p, b, e, l, f, n)
  BY SetsSubs
<1>5. y \in Proxies /\ y[c] = x /\ \A d \in Clients \ {c} : y[d] = a[d]
  BY <1>3 DEF Proxies
<1> QED
  BY <1>1, <1>2, <1>3, <1>4, <1>5

(* A detach raises a barrier under a new id and gives up content and events, *)
(* on the record.                                                            *)
\* encode_terminal_detach.
LEMMA DetachUpstreamKeeps ==
    ASSUME NEW s, NEW a, NEW p, NEW b, NEW e, NEW l, NEW f, NEW n, Keeps(s, a, p, b, e, l, f, n)
    PROVE  Keeps(DetachUpstream(s), a, p, b \cup {n}, FALSE, FALSE, f, n + 1)
<1>1. PICK no, b2, n2 : no = FALSE /\ b2 = b \cup {n} /\ n2 = n + 1
  OBVIOUS
<1>2. PICK s1 : s1 = [s EXCEPT !.explicit = no]
  OBVIOUS
<1>3. Keeps(s1, a, p, b, no, l, f, n)
  BY <1>2, SetsExplicit
<1>4. PICK s2 : s2 = [s1 EXCEPT !.legacy = no]
  OBVIOUS
<1>5. Keeps(s2, a, p, b, no, no, f, n)
  BY <1>3, <1>4, SetsLegacy
<1>6. PICK s3 : s3 = [s2 EXCEPT !.barriers = b2]
  OBVIOUS
<1>7. Keeps(s3, a, p, b2, no, no, f, n)
  BY <1>5, <1>6, SetsBarriers
<1>8. PICK s4 : s4 = [s3 EXCEPT !.nextId = n2]
  OBVIOUS
<1>9. Keeps(s4, a, p, b2, no, no, f, n2)
  BY <1>7, <1>8, SetsNextId
<1>10. DetachUpstream(s) = [s EXCEPT !.explicit = FALSE, !.legacy = FALSE,
                                     !.barriers = s.barriers \cup {s.nextId}, !.nextId = s.nextId + 1]
  BY DEF DetachUpstream
<1>11. s.barriers = b /\ s.nextId = n
  BY DEF Keeps
<1>12. DetachUpstream(s) = [s EXCEPT !.explicit = no, !.legacy = no, !.barriers = b2, !.nextId = n2]
  BY <1>1, <1>10, <1>11
<1>13. DetachUpstream(s) = s4
  BY <1>12, <1>2, <1>4, <1>6, <1>8
<1> QED
  BY <1>1, <1>9, <1>13

(* A detach raises a barrier under a new id and gives up content and events. *)
\* encode_terminal_detach.
LEMMA DetachUpstreamIs ==
    ASSUME NEW s \in Session
    PROVE  Has(DetachUpstream(s), s.subs, s.pending, s.barriers \cup {s.nextId}, FALSE, FALSE, s.flow, s.nextId + 1)
<1>1. PICK a \in Proxies, p \in Commands, b \in Ids, e \in BOOLEAN, l \in BOOLEAN, f \in Flows, n \in Nat :
        /\ Keeps(s, a, p, b, e, l, f, n)
        /\ s.subs = a /\ s.pending = p /\ s.barriers = b /\ s.flow = f /\ s.nextId = n
  BY SessionIs
<1>2. PICK b2 \in Ids, n2 \in Nat, no \in BOOLEAN : b2 = b \cup {n} /\ n2 = n + 1 /\ no = FALSE
  <2>1. b \cup {n} \in Ids
    BY DEF Ids
  <2>2. n + 1 \in Nat
    OBVIOUS
  <2> QED
    BY <2>1, <2>2
<1>3. PICK d : d = DetachUpstream(s)
  OBVIOUS
<1>4. Keeps(d, a, p, b2, no, no, f, n2)
  BY <1>1, <1>2, <1>3, DetachUpstreamKeeps
<1>5. Has(d, a, p, b2, no, no, f, n2)
  BY <1>4, SessionHas
<1> QED
  BY <1>1, <1>2, <1>3, <1>5

(* A cut raises a barrier under a new id, gives up content and keeps the     *)
(* event subscription.                                                       *)
\* prepare_content_cut.
LEMMA ContentCutIs ==
    ASSUME NEW s \in Session
    PROVE  Has(ContentCut(s).sess, s.subs, s.pending, s.barriers \cup {s.nextId}, FALSE, s.legacy, s.flow, s.nextId + 1)
<1>1. PICK a \in Proxies, p \in Commands, b \in Ids, e \in BOOLEAN, l \in BOOLEAN, f \in Flows, n \in Nat :
        /\ Keeps(s, a, p, b, e, l, f, n)
        /\ s.subs = a /\ s.pending = p /\ s.barriers = b /\ s.flow = f /\ s.nextId = n /\ s.legacy = l
  BY SessionIs
<1>2. PICK b2 \in Ids, n2 \in Nat, no \in BOOLEAN : b2 = b \cup {n} /\ n2 = n + 1 /\ no = FALSE
  <2>1. b \cup {n} \in Ids
    BY DEF Ids
  <2>2. n + 1 \in Nat
    OBVIOUS
  <2> QED
    BY <2>1, <2>2
<1>3. PICK d : d = DetachUpstream(s)
  OBVIOUS
<1>4. Keeps(d, a, p, b2, no, no, f, n2)
  BY <1>1, <1>2, <1>3, DetachUpstreamKeeps
<1>5. PICK x : x = [d EXCEPT !.legacy = l]
  OBVIOUS
<1>6. Keeps(x, a, p, b2, no, l, f, n2)
  BY <1>4, <1>5, SetsLegacy
<1>7. Has(x, a, p, b2, no, l, f, n2)
  BY <1>6, SessionHas
<1>8. ContentCut(s).sess = x
  BY <1>1, <1>3, <1>5 DEF ContentCut
<1> QED
  BY <1>1, <1>2, <1>7, <1>8

\* A proxy before and after a registration.
Reregisters(old, x, awaits) ==
    /\ x \in Subscriber /\ x # None
    /\ old = None => GateOK(x) /\ x.held = <<>> /\ ~x.openAfter /\ x.gate = Gated(~awaits)
    /\ old # None =>
        /\ GateOK(old) => GateOK(x)
        /\ x.held = old.held /\ (x.openAfter <=> old.openAfter)
        /\ x.gate = IF awaits /\ old.gate = "Open" THEN "Awaiting" ELSE old.gate

\* What a refusal has to undo.
Effect(old, awaits) ==
    IF old = None THEN "New" ELSE IF awaits /\ old.gate = "Open" THEN "Regated" ELSE "Idempotent"

\* A registration, on the record of a session.
RegistersAs(r, c, awaits, a, p, b, e, l, f, n) ==
    /\ r.effect = Effect(a[c], awaits)
    /\ \E x \in Subscriber :
        /\ Reregisters(a[c], x, awaits)
        /\ Keeps(r.sess, [a EXCEPT ![c] = x], p, b, e, l, f, n)

(* A registration makes or re-gates one proxy and says which, so that a      *)
(* refusal can undo it.                                                      *)
\* register_subscriber.
LEMMA RegisteredIs ==
    ASSUME NEW s, NEW a \in Proxies, NEW p, NEW b, NEW e, NEW l, NEW f, NEW n, Keeps(s, a, p, b, e, l, f, n),
           NEW c \in Clients, NEW seq \in Nat, NEW awaits \in BOOLEAN
    PROVE  RegistersAs(Registered(s, c, seq, awaits), c, awaits, a, p, b, e, l, f, n)
<1>1. s.subs = a
  BY DEF Keeps
<1>2. PICK old \in Subscriber \cup {None} : old = a[c]
  BY DEF Proxies
<1>3. PICK g2 : g2 = IF old # None /\ awaits /\ old.gate = "Open" THEN "Awaiting" ELSE old.gate
  OBVIOUS
<1>4. PICK n2 : n2 = IF seq > old.seq THEN seq ELSE old.seq
  OBVIOUS
<1>5. PICK x : x = IF old = None THEN Proxy(seq, Gated(~awaits)) ELSE [old EXCEPT !.seq = n2, !.gate = g2]
  OBVIOUS
<1>6. /\ Registered(s, c, seq, awaits).effect = Effect(old, awaits)
      /\ Registered(s, c, seq, awaits).sess = [s EXCEPT !.subs[c] = x]
  BY <1>1, <1>2, <1>3, <1>4, <1>5 DEF Registered, Effect
<1>7. Reregisters(old, x, awaits)
  <2>1. CASE old = None
    <3>1. PICK g \in Gates : g = Gated(~awaits)
      BY DEF Gates, Gated
    <3>2. PICK h \in Held : h = <<>>
      <4>1. <<>> \in Held
        BY DEF Held
      <4> QED
        BY <4>1
    <3>3. PICK o \in BOOLEAN : o = FALSE
      OBVIOUS
    <3>4. x = Proxied(seq, g, h, o)
      BY <1>5, <2>1, <3>1, <3>2, <3>3 DEF Proxied, Proxy
    <3>5. ProxyOK(g, h, o)
      BY <3>1, <3>2, <3>3, RelaySessionAssumption DEF ProxyOK, Gated
    <3>6. x \in Subscriber /\ x # None /\ GateOK(x) /\ x.held = h /\ x.openAfter = o /\ x.gate = g
      BY <3>4, <3>5, ProxiedIs
    <3> QED
      BY <3>6, <3>1, <3>2, <3>3, <2>1 DEF Reregisters
  <2>2. CASE old # None
    <3>1. PICK m \in Nat, g \in Gates, h \in Held, o \in BOOLEAN : old = Proxied(m, g, h, o)
      BY <2>2, SubscriberIs
    <3>2. old.seq = m /\ old.gate = g /\ old.held = h /\ old.openAfter = o /\ (GateOK(old) <=> ProxyOK(g, h, o))
      BY <3>1, ProxiedIs
    <3>3. n2 \in Nat /\ g2 \in Gates
      BY <1>3, <1>4, <3>2 DEF Gates
    <3>4. x = Proxied(n2, g2, h, o)
      <4>1. PICK w : w = [old EXCEPT !.seq = n2]
        OBVIOUS
      <4>2. w = Proxied(n2, g, h, o)
        BY <3>1, <4>1 DEF Proxied
      <4>3. [w EXCEPT !.gate = g2] = Proxied(n2, g2, h, o)
        BY <4>2 DEF Proxied
      <4>4. x = [old EXCEPT !.seq = n2, !.gate = g2]
        BY <1>5, <2>2
      <4> QED
        BY <4>1, <4>3, <4>4
    <3>5. ProxyOK(g, h, o) => ProxyOK(g2, h, o)
      BY <1>3, <3>2 DEF ProxyOK
    <3>6. x \in Subscriber /\ x # None /\ x.held = h /\ x.openAfter = o /\ x.gate = g2 /\ (GateOK(x) <=> ProxyOK(g2, h, o))
      BY <3>3, <3>4, ProxiedIs
    <3> QED
      BY <3>2, <3>5, <3>6, <1>3, <2>2 DEF Reregisters
  <2> QED
    BY <2>1, <2>2
<1>8. x \in Subscriber
  BY <1>7 DEF Reregisters
<1>9. Keeps([s EXCEPT !.subs[c] = x], [a EXCEPT ![c] = x], p, b, e, l, f, n)
  BY <1>8, SetsOneSub
<1> QED
  BY <1>2, <1>6, <1>7, <1>8, <1>9 DEF RegistersAs

(* An attach registers one proxy and one command in flight under a new id.   *)
\* handle_request_checked.
LEMMA RegisterAttachIs ==
    ASSUME NEW s \in Session, NEW c \in Clients, NEW seq \in Nat
    PROVE  \E x \in Subscriber :
            /\ Reregisters(s.subs[c], x, TRUE)
            /\ Has(RegisterAttach(s, c, seq), [s.subs EXCEPT ![c] = x],
                   s.pending \cup {[id |-> s.nextId, client |-> c, seq |-> seq, effect |-> Effect(s.subs[c], TRUE)]},
                   s.barriers, TRUE, s.legacy, s.flow, s.nextId + 1)
<1>1. PICK a \in Proxies, p \in Commands, b \in Ids, e \in BOOLEAN, l \in BOOLEAN, f \in Flows, n \in Nat :
        /\ Keeps(s, a, p, b, e, l, f, n)
        /\ s.subs = a /\ s.pending = p /\ s.barriers = b /\ s.flow = f /\ s.nextId = n /\ s.legacy = l
  BY SessionIs
<1>2. PICK yes \in BOOLEAN : yes = TRUE
  OBVIOUS
<1>3. PICK s1 : s1 = [s EXCEPT !.explicit = yes]
  OBVIOUS
<1>4. Keeps(s1, a, p, b, yes, l, f, n)
  BY <1>1, <1>3, SetsExplicit
<1>5. PICK r : r = Registered(s1, c, seq, yes)
  OBVIOUS
<1>6. RegistersAs(r, c, yes, a, p, b, yes, l, f, n)
  BY <1>4, <1>5, RegisteredIs
<1>7. PICK x \in Subscriber :
        /\ r.effect = Effect(a[c], yes) /\ Reregisters(a[c], x, yes)
        /\ Keeps(r.sess, [a EXCEPT ![c] = x], p, b, yes, l, f, n)
  BY <1>6 DEF RegistersAs
<1>8. PICK cmd : cmd = [id |-> n, client |-> c, seq |-> seq, effect |-> r.effect]
  OBVIOUS
<1>9. cmd \in Relayed
  BY <1>7, <1>8 DEF Relayed, Effect
<1>10. PICK p2 \in Commands : p2 = p \cup {cmd}
  BY <1>9 DEF Commands
<1>11. PICK n2 \in Nat : n2 = n + 1
  OBVIOUS
<1>12. PICK a2 \in Proxies : a2 = [a EXCEPT ![c] = x]
  BY DEF Proxies
<1>13. PICK t : t = r.sess
  OBVIOUS
<1>14. Keeps(t, a2, p, b, yes, l, f, n)
  BY <1>7, <1>12, <1>13
<1>15. PICK t1 : t1 = [t EXCEPT !.pending = p2]
  OBVIOUS
<1>16. Keeps(t1, a2, p2, b, yes, l, f, n)
  BY <1>14, <1>15, SetsPending
<1>17. PICK t2 : t2 = [t1 EXCEPT !.nextId = n2]
  OBVIOUS
<1>18. Keeps(t2, a2, p2, b, yes, l, f, n2)
  BY <1>16, <1>17, SetsNextId
<1>19. Has(t2, a2, p2, b, yes, l, f, n2)
  BY <1>18, SessionHas
<1>20. t.pending = p /\ t.nextId = n
  BY <1>14 DEF Keeps
<1>21. RegisterAttach(s, c, seq) = [t EXCEPT !.pending = t.pending \cup {cmd}, !.nextId = t.nextId + 1]
  BY <1>1, <1>2, <1>3, <1>5, <1>8, <1>13 DEF RegisterAttach
<1>22. RegisterAttach(s, c, seq) = [t EXCEPT !.pending = p2, !.nextId = n2]
  BY <1>10, <1>11, <1>20, <1>21
<1>23. RegisterAttach(s, c, seq) = t2
  BY <1>15, <1>17, <1>22
<1>24. Has(RegisterAttach(s, c, seq), a2, p2, b, TRUE, l, f, n2)
  BY <1>2, <1>19, <1>23
<1>25. Reregisters(a[c], x, TRUE)
  BY <1>2, <1>7
<1>26. p2 = p \cup {[id |-> n, client |-> c, seq |-> seq, effect |-> Effect(a[c], TRUE)]}
  BY <1>2, <1>7, <1>8, <1>10
<1> QED
  BY <1>1, <1>11, <1>12, <1>24, <1>25, <1>26

(* An event subscription registers one proxy and marks the link's event      *)
(* subscription.                                                             *)
\* subscribe_forward.
LEMMA RegisterEventsIs ==
    ASSUME NEW s \in Session, NEW c \in Clients, NEW seq \in Nat
    PROVE  \E x \in Subscriber :
            /\ Reregisters(s.subs[c], x, FALSE)
            /\ Has(RegisterEvents(s, c, seq), [s.subs EXCEPT ![c] = x],
                   s.pending, s.barriers, s.explicit, TRUE, s.flow, s.nextId)
<1>1. PICK a \in Proxies, p \in Commands, b \in Ids, e \in BOOLEAN, l \in BOOLEAN, f \in Flows, n \in Nat :
        /\ Keeps(s, a, p, b, e, l, f, n)
        /\ s.subs = a /\ s.pending = p /\ s.barriers = b /\ s.flow = f /\ s.nextId = n /\ s.explicit = e
  BY SessionIs
<1>2. PICK yes \in BOOLEAN, no \in BOOLEAN : yes = TRUE /\ no = FALSE
  OBVIOUS
<1>3. PICK s1 : s1 = [s EXCEPT !.legacy = yes]
  OBVIOUS
<1>4. Keeps(s1, a, p, b, e, yes, f, n)
  BY <1>1, <1>3, SetsLegacy
<1>5. RegistersAs(Registered(s1, c, seq, no), c, no, a, p, b, e, yes, f, n)
  BY <1>4, RegisteredIs
<1>6. PICK x \in Subscriber :
        /\ Reregisters(a[c], x, no)
        /\ Keeps(Registered(s1, c, seq, no).sess, [a EXCEPT ![c] = x], p, b, e, yes, f, n)
  BY <1>5 DEF RegistersAs
<1>7. PICK a2 \in Proxies : a2 = [a EXCEPT ![c] = x]
  BY DEF Proxies
<1>8. PICK t : t = Registered(s1, c, seq, no).sess
  OBVIOUS
<1>9. Has(t, a2, p, b, e, yes, f, n)
  <2>1. Keeps(t, a2, p, b, e, yes, f, n)
    BY <1>6, <1>7, <1>8
  <2> QED
    BY <2>1, SessionHas
<1>10. t = RegisterEvents(s, c, seq)
  BY <1>2, <1>3, <1>8 DEF RegisterEvents
<1> QED
  BY <1>1, <1>2, <1>6, <1>7, <1>9, <1>10

(* A withdrawal removes one proxy and nothing else.                          *)
\* withdraw_terminal, withdraw_client.
LEMMA WithdrawnIs ==
    ASSUME NEW s \in Session, NEW c \in Clients
    PROVE  Has(Withdrawn(s, c), [s.subs EXCEPT ![c] = None], s.pending, s.barriers, s.explicit, s.legacy, s.flow, s.nextId)
<1>1. PICK a \in Proxies, p \in Commands, b \in Ids, e \in BOOLEAN, l \in BOOLEAN, f \in Flows, n \in Nat :
        /\ Keeps(s, a, p, b, e, l, f, n)
        /\ s.subs = a /\ s.pending = p /\ s.barriers = b /\ s.flow = f /\ s.nextId = n /\ s.explicit = e /\ s.legacy = l
  BY SessionIs
<1>2. PICK none \in Subscriber \cup {None} : none = None
  OBVIOUS
<1>3. PICK a2 \in Proxies : a2 = [a EXCEPT ![c] = none]
  BY DEF Proxies
<1>4. PICK t : t = [s EXCEPT !.subs[c] = none]
  OBVIOUS
<1>5. Keeps(t, a2, p, b, e, l, f, n)
  BY <1>1, <1>3, <1>4, SetsOneSub
<1>6. Has(t, a2, p, b, e, l, f, n)
  BY <1>5, SessionHas
<1>7. Withdrawn(s, c) = t
  BY <1>2, <1>4 DEF Withdrawn
<1> QED
  BY <1>1, <1>2, <1>3, <1>6, <1>7

(* The fields of a new session.                                              *)
\* RelaySession::new_negotiated.
LEMMA NewSessionIs ==
    /\ NewSession \in Session /\ NewSession.subs = [c \in Clients |-> None] /\ NewSession.pending = {}
    /\ NewSession.barriers = {} /\ ~NewSession.explicit /\ ~NewSession.legacy /\ NewSession.flow = None
    /\ NewSession.nextId = 1
  BY DEF NewSession, Session

(* The reply to a detach lifts its barrier and retires what the link         *)
(* carried.                                                                  *)
\* resolve_detach_reply.
LEMMA RepliesIs ==
    ASSUME NEW s \in Session, NEW i
    PROVE  Has([s EXCEPT !.barriers = @ \ {i}, !.flow = None],
               s.subs, s.pending, s.barriers \ {i}, s.explicit, s.legacy, None, s.nextId)
<1>1. PICK a \in Proxies, p \in Commands, b \in Ids, e \in BOOLEAN, l \in BOOLEAN, f \in Flows, n \in Nat :
        /\ Keeps(s, a, p, b, e, l, f, n)
        /\ s.subs = a /\ s.pending = p /\ s.barriers = b /\ s.explicit = e /\ s.legacy = l /\ s.nextId = n
  BY SessionIs
<1>2. PICK b2 \in Ids : b2 = b \ {i}
  BY DEF Ids
<1>3. PICK f2 \in Flows : f2 = None
  BY DEF Flows
<1>4. PICK s1 : s1 = [s EXCEPT !.barriers = b2]
  OBVIOUS
<1>5. Keeps(s1, a, p, b2, e, l, f, n)
  BY <1>1, <1>4, SetsBarriers
<1>6. PICK s2 : s2 = [s1 EXCEPT !.flow = f2]
  OBVIOUS
<1>7. Keeps(s2, a, p, b2, e, l, f2, n)
  BY <1>5, <1>6, SetsFlow
<1>8. Has(s2, a, p, b2, e, l, f2, n)
  BY <1>7, SessionHas
<1>9. [s EXCEPT !.barriers = @ \ {i}, !.flow = None] = [s EXCEPT !.barriers = b2, !.flow = f2]
  BY <1>1, <1>2, <1>3
<1>10. [s EXCEPT !.barriers = @ \ {i}, !.flow = None] = s2
  BY <1>4, <1>6, <1>9
<1> QED
  BY <1>1, <1>2, <1>3, <1>8, <1>10

(* The tick forgets commands and changes proxies, nothing else.              *)
\* maintain_relay_session.
LEMMA MaintainsIs ==
    ASSUME NEW s \in Session, NEW x, NEW a2 \in Proxies
    PROVE  Has([s EXCEPT !.pending = @ \ x, !.subs = a2],
               a2, s.pending \ x, s.barriers, s.explicit, s.legacy, s.flow, s.nextId)
<1>1. PICK a \in Proxies, p \in Commands, b \in Ids, e \in BOOLEAN, l \in BOOLEAN, f \in Flows, n \in Nat :
        /\ Keeps(s, a, p, b, e, l, f, n)
        /\ s.flow = f /\ s.pending = p /\ s.barriers = b /\ s.explicit = e /\ s.legacy = l /\ s.nextId = n
  BY SessionIs
<1>2. PICK p2 \in Commands : p2 = p \ x
  BY DEF Commands
<1>3. PICK s1 : s1 = [s EXCEPT !.pending = p2]
  OBVIOUS
<1>4. Keeps(s1, a, p2, b, e, l, f, n)
  BY <1>1, <1>3, SetsPending
<1>5. PICK s2 : s2 = [s1 EXCEPT !.subs = a2]
  OBVIOUS
<1>6. Keeps(s2, a2, p2, b, e, l, f, n)
  BY <1>4, <1>5, SetsSubs
<1>7. Has(s2, a2, p2, b, e, l, f, n)
  BY <1>6, SessionHas
<1>8. [s EXCEPT !.pending = @ \ x, !.subs = a2] = [s EXCEPT !.pending = p2, !.subs = a2]
  BY <1>1, <1>2
<1>9. [s EXCEPT !.pending = @ \ x, !.subs = a2] = s2
  BY <1>3, <1>5, <1>8
<1> QED
  BY <1>1, <1>2, <1>7, <1>9

\* A proxy before and after a refusal.
RollsBack(old, x, effect) ==
    /\ x \in Subscriber \cup {None}
    /\ effect = "New" \/ old = None => x = None
    /\ effect # "New" /\ old # None =>
        /\ x # None /\ x.held = old.held /\ (x.openAfter <=> old.openAfter)
        /\ GateOK(old) => GateOK(x)
        /\ x.gate = old.gate \/ (effect = "Regated" /\ old.gate = "Awaiting" /\ x.gate = "Open")

\* A session before and after a reply.
Resolves(s, t, p, ok) ==
    \E x \in Subscriber \cup {None} :
        /\ IF ok THEN x = s.subs[p.client] ELSE RollsBack(s.subs[p.client], x, p.effect)
        /\ Has(t, [s.subs EXCEPT ![p.client] = x], s.pending \ {p}, s.barriers, s.explicit, s.legacy, s.flow, s.nextId)

(* Setting a proxy to what it is.                                            *)
\* struct RelaySession.
LEMMA SetsNothing ==
    ASSUME NEW a \in Proxies, NEW c \in Clients
    PROVE  [a EXCEPT ![c] = a[c]] = a
  BY DEF Proxies

(* A re-gated proxy that still awaits opens again when its attach is         *)
(* refused.                                                                  *)
\* roll_back_subscription.
LEMMA ReopensIs ==
    ASSUME NEW old \in Subscriber, old.gate = "Awaiting"
    PROVE  /\ [old EXCEPT !.gate = "Open"] \in Subscriber
           /\ RollsBack(old, [old EXCEPT !.gate = "Open"], "Regated")
<1>1. PICK n \in Nat, g \in Gates, h \in Held, o \in BOOLEAN : old = Proxied(n, g, h, o)
  BY SubscriberIs
<1>2. PICK g2 \in Gates : g2 = "Open"
  BY DEF Gates
<1>3. PICK x : x = [old EXCEPT !.gate = "Open"]
  OBVIOUS
<1>4. x = Proxied(n, g2, h, o)
  BY <1>1, <1>2, <1>3 DEF Proxied
<1>5. x \in Subscriber /\ x # None /\ x.gate = g2 /\ x.held = h /\ x.openAfter = o /\ (GateOK(x) <=> ProxyOK(g2, h, o))
  BY <1>4, ProxiedIs
<1>6. old.gate = g /\ old.held = h /\ old.openAfter = o /\ (GateOK(old) <=> ProxyOK(g, h, o)) /\ old # None
  BY <1>1, ProxiedIs
<1>7. ProxyOK(g, h, o) => ProxyOK(g2, h, o)
  BY <1>2, <1>6 DEF ProxyOK
<1> QED
  BY <1>2, <1>3, <1>5, <1>6, <1>7 DEF RollsBack

(* A refusal undoes the registration it belongs to: a new proxy goes, a re-  *)
(* gated one opens.                                                          *)
\* roll_back_subscription.
LEMMA RollBackIs ==
    ASSUME NEW s \in Session, NEW p \in s.pending
    PROVE  \E x \in Subscriber \cup {None} :
            /\ RollsBack(s.subs[p.client], x, p.effect)
            /\ Keeps(RollBack(s, p), [s.subs EXCEPT ![p.client] = x], s.pending, s.barriers, s.explicit, s.legacy,
                     s.flow, s.nextId)
<1>1. PICK a \in Proxies, q \in Commands, b \in Ids, e \in BOOLEAN, l \in BOOLEAN, f \in Flows, n \in Nat :
        /\ Keeps(s, a, q, b, e, l, f, n)
        /\ s.subs = a /\ s.pending = q /\ s.barriers = b /\ s.flow = f /\ s.nextId = n /\ s.explicit = e /\ s.legacy = l
  BY SessionIs
<1>2. p.client \in Clients /\ p.effect \in {"New", "Regated", "Idempotent"}
  BY <1>1 DEF Commands, Relayed
<1>3. PICK c \in Clients : c = p.client
  BY <1>2
<1>4. PICK old \in Subscriber \cup {None} : old = a[c]
  BY DEF Proxies
<1>5. PICK x \in Subscriber \cup {None} :
        RollsBack(old, x, p.effect) /\ Keeps(RollBack(s, p), [a EXCEPT ![c] = x], q, b, e, l, f, n)
  <2>1. CASE p.effect = "New"
    <3>1. PICK x \in Subscriber \cup {None} : x = None
      OBVIOUS
    <3>2. RollBack(s, p) = [s EXCEPT !.subs[c] = x]
      BY <2>1, <3>1, <1>3 DEF RollBack, Withdrawn
    <3>3. Keeps([s EXCEPT !.subs[c] = x], [a EXCEPT ![c] = x], q, b, e, l, f, n)
      BY <1>1, SetsOneSub
    <3>4. RollsBack(old, x, p.effect)
      BY <2>1, <3>1 DEF RollsBack
    <3> QED
      BY <3>2, <3>3, <3>4
  <2>2. CASE p.effect = "Regated" /\ old # None /\ old.gate = "Awaiting"
    <3>1. PICK x : x = [old EXCEPT !.gate = "Open"]
      OBVIOUS
    <3>2. x \in Subscriber /\ RollsBack(old, x, p.effect)
      BY <2>2, <3>1, ReopensIs
    <3>3. RollBack(s, p) = [s EXCEPT !.subs[c].gate = "Open"]
      BY <2>2, <1>1, <1>3, <1>4 DEF RollBack
    <3>4. [s EXCEPT !.subs[c].gate = "Open"] = [s EXCEPT !.subs[c] = x]
      BY <1>1, <1>4, <3>1
    <3>5. Keeps([s EXCEPT !.subs[c] = x], [a EXCEPT ![c] = x], q, b, e, l, f, n)
      BY <1>1, <3>2, SetsOneSub
    <3> QED
      BY <3>2, <3>3, <3>4, <3>5
  <2>3. CASE p.effect # "New" /\ ~(p.effect = "Regated" /\ old # None /\ old.gate = "Awaiting")
    <3>1. RollBack(s, p) = s
      BY <2>3, <1>1, <1>3, <1>4 DEF RollBack
    <3>2. RollsBack(old, old, p.effect)
      BY <2>3 DEF RollsBack
    <3>3. [a EXCEPT ![c] = old] = a
      BY <1>4, SetsNothing
    <3> QED
      BY <3>1, <3>2, <3>3, <1>1
  <2> QED
    BY <2>1, <2>2, <2>3
<1> QED
  BY <1>1, <1>3, <1>4, <1>5

(* A reply settles its command and, if it is a refusal, undoes the           *)
(* registration.                                                             *)
\* resolve_pending.
LEMMA ResolvedIs ==
    ASSUME NEW s \in Session, NEW p \in s.pending, NEW ok \in BOOLEAN
    PROVE  Resolves(s, Resolved(s, p, ok), p, ok)
<1>1. PICK a \in Proxies, q \in Commands, b \in Ids, e \in BOOLEAN, l \in BOOLEAN, f \in Flows, n \in Nat :
        /\ Keeps(s, a, q, b, e, l, f, n)
        /\ s.subs = a /\ s.pending = q /\ s.barriers = b /\ s.flow = f /\ s.nextId = n /\ s.explicit = e /\ s.legacy = l
  BY SessionIs
<1>2. PICK c \in Clients : c = p.client
  BY <1>1 DEF Commands, Relayed
<1>3. PICK t : t = IF ok THEN s ELSE RollBack(s, p)
  OBVIOUS
<1>4. PICK x \in Subscriber \cup {None} :
        /\ IF ok THEN x = a[c] ELSE RollsBack(a[c], x, p.effect)
        /\ Keeps(t, [a EXCEPT ![c] = x], q, b, e, l, f, n)
  <2>1. CASE ok
    <3>1. a[c] \in Subscriber \cup {None} /\ [a EXCEPT ![c] = a[c]] = a
      BY SetsNothing DEF Proxies
    <3> QED
      BY <3>1, <2>1, <1>1, <1>3
  <2>2. CASE ~ok
    BY <2>2, <1>1, <1>2, <1>3, RollBackIs
  <2> QED
    BY <2>1, <2>2
<1>5. PICK a2 \in Proxies : a2 = [a EXCEPT ![c] = x]
  BY DEF Proxies
<1>6. PICK q2 \in Commands : q2 = q \ {p}
  BY DEF Commands
<1>7. PICK u : u = [t EXCEPT !.pending = q2]
  OBVIOUS
<1>8. Keeps(u, a2, q2, b, e, l, f, n)
  BY <1>4, <1>5, <1>7, SetsPending
<1>9. Has(u, a2, q2, b, e, l, f, n)
  BY <1>8, SessionHas
<1>10. t.pending = q
  BY <1>4 DEF Keeps
<1>11. Resolved(s, p, ok) = u
  BY <1>3, <1>6, <1>7, <1>10 DEF Resolved
<1> QED
  BY <1>1, <1>2, <1>4, <1>5, <1>6, <1>9, <1>11 DEF Resolves

(* What the link carries after a frame that was admitted.                    *)
\* begin_bootstrap_flow, finish_bootstrap_flow, retire_bootstrap_flow.
LEMMA FlowAfterIs ==
    ASSUME NEW flow \in Flows, NEW f \in LinkFrame, FlowAccepts(flow, f)
    PROVE  /\ FlowAfter(flow, f) \in Flows
           /\ f.kind = "Begin" => FlowAfter(flow, f) = [gen |-> f.gen, ready |-> FALSE] /\ FlowAfter(flow, f) # None
           /\ f.kind = "Ready" => flow # None /\ FlowAfter(flow, f) # None
                                  /\ FlowAfter(flow, f).gen = flow.gen /\ FlowAfter(flow, f).ready
           /\ f.kind \in {"Tombstone", "Closed"} => FlowAfter(flow, f) = None
           /\ f.kind \in {"Output", "Event", "Result"} => FlowAfter(flow, f) = flow
<1>1. CASE f.kind = "Begin"
  <2>1. f.gen \in Generations
    BY <1>1, Kinds
  <2>2. FlowAfter(flow, f) = [gen |-> f.gen, ready |-> FALSE]
    BY <1>1 DEF FlowAfter
  <2>3. [gen |-> f.gen, ready |-> FALSE] \in Flow
    BY <2>1 DEF Flow
  <2>4. FlowAfter(flow, f) # None
    BY <2>2, <2>3, NoneAssumption
  <2> QED
    BY <1>1, <2>2, <2>3, <2>4 DEF Flows
<1>2. CASE f.kind = "Ready"
  <2>1. flow \in Flow /\ flow # None
    BY <1>2 DEF FlowAccepts, Flows
  <2>2. FlowAfter(flow, f) = [flow EXCEPT !.ready = TRUE]
    BY <1>2 DEF FlowAfter
  <2>3. [flow EXCEPT !.ready = TRUE] \in Flow /\ [flow EXCEPT !.ready = TRUE].gen = flow.gen
        /\ [flow EXCEPT !.ready = TRUE].ready
    BY <2>1 DEF Flow
  <2>4. FlowAfter(flow, f) # None
    BY <2>2, <2>3, NoneAssumption
  <2> QED
    BY <1>2, <2>1, <2>2, <2>3, <2>4 DEF Flows
<1>3. CASE f.kind \in {"Tombstone", "Closed"}
  <2>1. FlowAfter(flow, f) = None
    BY <1>3 DEF FlowAfter
  <2> QED
    BY <1>3, <2>1 DEF Flows
<1>4. CASE f.kind \in {"Output", "Event", "Result"}
  <2>1. FlowAfter(flow, f) = flow
    BY <1>4 DEF FlowAfter
  <2> QED
    BY <1>4, <2>1
<1> QED
  BY <1>1, <1>2, <1>3, <1>4, Kinds

(* The session after a frame was handed on; a close reaps what the terminal  *)
(* owned.                                                                    *)
\* relay_stream_frame, relay_terminal_closed.
LEMMA AfterFrameIs ==
    ASSUME NEW s \in Session, NEW a2 \in Proxies, NEW fr \in LinkFrame, FlowAccepts(s.flow, fr)
    PROVE  IF fr.kind = "Closed"
           THEN Has(AfterFrame([s EXCEPT !.subs = a2], fr), [c \in Clients |-> None], s.pending, s.barriers,
                    FALSE, FALSE, FlowAfter(s.flow, fr), s.nextId)
           ELSE Has(AfterFrame([s EXCEPT !.subs = a2], fr), a2, s.pending, s.barriers,
                    s.explicit, s.legacy, FlowAfter(s.flow, fr), s.nextId)
<1>1. PICK a \in Proxies, q \in Commands, b \in Ids, e \in BOOLEAN, l \in BOOLEAN, f \in Flows, n \in Nat :
        /\ Keeps(s, a, q, b, e, l, f, n)
        /\ s.subs = a /\ s.pending = q /\ s.barriers = b /\ s.flow = f /\ s.nextId = n /\ s.explicit = e /\ s.legacy = l
  BY SessionIs
<1>2. PICK f2 \in Flows : f2 = FlowAfter(f, fr) /\ (fr.kind = "Closed" => f2 = None)
  BY <1>1, FlowAfterIs
<1>3. PICK t : t = [s EXCEPT !.subs = a2]
  OBVIOUS
<1>4. Keeps(t, a2, q, b, e, l, f, n)
  BY <1>1, <1>3, SetsSubs
<1>5. CASE fr.kind # "Closed"
  <2>1. PICK u : u = [t EXCEPT !.flow = f2]
    OBVIOUS
  <2>2. Keeps(u, a2, q, b, e, l, f2, n)
    BY <1>4, <2>1, SetsFlow
  <2>3. Has(u, a2, q, b, e, l, f2, n)
    BY <2>2, SessionHas
  <2>4. t.flow = f
    BY <1>4 DEF Keeps
  <2>5. AfterFrame(t, fr) = u
    BY <1>2, <1>5, <2>1, <2>4 DEF AfterFrame
  <2> QED
    BY <1>1, <1>2, <1>3, <1>5, <2>3, <2>5
<1>6. CASE fr.kind = "Closed"
  <2>1. PICK a3 \in Proxies : a3 = [c \in Clients |-> None]
    BY DEF Proxies
  <2>2. PICK no \in BOOLEAN : no = FALSE
    OBVIOUS
  <2>3. PICK u1 : u1 = [t EXCEPT !.subs = a3]
    OBVIOUS
  <2>4. Keeps(u1, a3, q, b, e, l, f, n)
    BY <1>4, <2>3, SetsSubs
  <2>5. PICK u2 : u2 = [u1 EXCEPT !.flow = f2]
    OBVIOUS
  <2>6. Keeps(u2, a3, q, b, e, l, f2, n)
    BY <2>4, <2>5, SetsFlow
  <2>7. PICK u3 : u3 = [u2 EXCEPT !.explicit = no]
    OBVIOUS
  <2>8. Keeps(u3, a3, q, b, no, l, f2, n)
    BY <2>6, <2>7, SetsExplicit
  <2>9. PICK u4 : u4 = [u3 EXCEPT !.legacy = no]
    OBVIOUS
  <2>10. Keeps(u4, a3, q, b, no, no, f2, n)
    BY <2>8, <2>9, SetsLegacy
  <2>11. Has(u4, a3, q, b, no, no, f2, n)
    BY <2>10, SessionHas
  <2>12. AfterFrame(t, fr) = [t EXCEPT !.subs = a3, !.flow = f2, !.explicit = no, !.legacy = no]
    BY <1>2, <1>6, <2>1, <2>2 DEF AfterFrame
  <2>13. AfterFrame(t, fr) = u4
    BY <2>3, <2>5, <2>7, <2>9, <2>12
  <2> QED
    BY <1>1, <1>2, <1>3, <1>6, <2>1, <2>2, <2>11, <2>13
<1> QED
  BY <1>5, <1>6

-----------------------------------------------------------------------------
(* The satellite.                                                            *)

Flags == BOOLEAN

\* A satellite, field by field.
SatIs(w, co, g, r, cn, ev, sq, op, tp, ru, rs) ==
    w = [conn |-> co, gen |-> g, reg |-> r, counter |-> cn, events |-> ev, seq |-> sq, open |-> op,
         top |-> tp, reused |-> ru, resynced |-> rs]

SatHas(w, co, g, r, cn, ev, sq, op, tp, ru, rs) ==
    /\ w \in Satellite /\ w.conn = co /\ w.gen = g /\ w.reg = r /\ w.counter = cn /\ w.events = ev /\ w.seq = sq
    /\ w.open = op /\ w.top = tp /\ w.reused = ru /\ w.resynced = rs

(* A satellite, field by field.                                              *)
\* The satellite's end of the connection.
LEMMA SatelliteIs ==
    ASSUME NEW w \in Satellite
    PROVE  /\ SatIs(w, w.conn, w.gen, w.reg, w.counter, w.events, w.seq, w.open, w.top, w.reused, w.resynced)
           /\ w.conn \in Nat /\ w.gen \in Named /\ w.reg \in Named /\ w.counter \in Nat /\ w.events \in Flags
           /\ w.seq \in Nat /\ w.open \in Flags /\ w.top \in Nat /\ w.reused \in Flags /\ w.resynced \in Flags
  BY DEF Satellite, SatIs, Named, Flags

(* The fields of a satellite, from its record.                               *)
\* The satellite's end of the connection.
LEMMA SatelliteHas ==
    ASSUME NEW co \in Nat, NEW g \in Named, NEW r \in Named, NEW cn \in Nat, NEW ev \in Flags, NEW sq \in Nat,
           NEW op \in Flags, NEW tp \in Nat, NEW ru \in Flags, NEW rs \in Flags,
           NEW w, SatIs(w, co, g, r, cn, ev, sq, op, tp, ru, rs)
    PROVE  SatHas(w, co, g, r, cn, ev, sq, op, tp, ru, rs)
<1>1. w \in Satellite
  BY DEF Satellite, SatIs, Named, Flags
<1>2. w.conn = co /\ w.gen = g /\ w.reg = r /\ w.counter = cn /\ w.events = ev /\ w.seq = sq
      /\ w.open = op /\ w.top = tp /\ w.reused = ru /\ w.resynced = rs
  BY DEF SatIs
<1> QED
  BY <1>1, <1>2 DEF SatHas

(* Setting this field of a satellite leaves the others.                      *)
\* The satellite's end of the connection.
LEMMA SatSetsConn ==
    ASSUME NEW w, NEW co, NEW g, NEW r, NEW cn, NEW ev, NEW sq, NEW op, NEW tp, NEW ru, NEW rs,
           SatIs(w, co, g, r, cn, ev, sq, op, tp, ru, rs), NEW x
    PROVE  SatIs([w EXCEPT !.conn = x], x, g, r, cn, ev, sq, op, tp, ru, rs)
  BY DEF SatIs

(* Setting this field of a satellite leaves the others.                      *)
\* The satellite's end of the connection.
LEMMA SatSetsGen ==
    ASSUME NEW w, NEW co, NEW g, NEW r, NEW cn, NEW ev, NEW sq, NEW op, NEW tp, NEW ru, NEW rs,
           SatIs(w, co, g, r, cn, ev, sq, op, tp, ru, rs), NEW x
    PROVE  SatIs([w EXCEPT !.gen = x], co, x, r, cn, ev, sq, op, tp, ru, rs)
  BY DEF SatIs

(* Setting this field of a satellite leaves the others.                      *)
\* The satellite's end of the connection.
LEMMA SatSetsReg ==
    ASSUME NEW w, NEW co, NEW g, NEW r, NEW cn, NEW ev, NEW sq, NEW op, NEW tp, NEW ru, NEW rs,
           SatIs(w, co, g, r, cn, ev, sq, op, tp, ru, rs), NEW x
    PROVE  SatIs([w EXCEPT !.reg = x], co, g, x, cn, ev, sq, op, tp, ru, rs)
  BY DEF SatIs

(* Setting this field of a satellite leaves the others.                      *)
\* The satellite's end of the connection.
LEMMA SatSetsCounter ==
    ASSUME NEW w, NEW co, NEW g, NEW r, NEW cn, NEW ev, NEW sq, NEW op, NEW tp, NEW ru, NEW rs,
           SatIs(w, co, g, r, cn, ev, sq, op, tp, ru, rs), NEW x
    PROVE  SatIs([w EXCEPT !.counter = x], co, g, r, x, ev, sq, op, tp, ru, rs)
  BY DEF SatIs

(* Setting this field of a satellite leaves the others.                      *)
\* The satellite's end of the connection.
LEMMA SatSetsEvents ==
    ASSUME NEW w, NEW co, NEW g, NEW r, NEW cn, NEW ev, NEW sq, NEW op, NEW tp, NEW ru, NEW rs,
           SatIs(w, co, g, r, cn, ev, sq, op, tp, ru, rs), NEW x
    PROVE  SatIs([w EXCEPT !.events = x], co, g, r, cn, x, sq, op, tp, ru, rs)
  BY DEF SatIs

(* Setting this field of a satellite leaves the others.                      *)
\* The satellite's end of the connection.
LEMMA SatSetsSeq ==
    ASSUME NEW w, NEW co, NEW g, NEW r, NEW cn, NEW ev, NEW sq, NEW op, NEW tp, NEW ru, NEW rs,
           SatIs(w, co, g, r, cn, ev, sq, op, tp, ru, rs), NEW x
    PROVE  SatIs([w EXCEPT !.seq = x], co, g, r, cn, ev, x, op, tp, ru, rs)
  BY DEF SatIs

(* Setting this field of a satellite leaves the others.                      *)
\* The satellite's end of the connection.
LEMMA SatSetsOpen ==
    ASSUME NEW w, NEW co, NEW g, NEW r, NEW cn, NEW ev, NEW sq, NEW op, NEW tp, NEW ru, NEW rs,
           SatIs(w, co, g, r, cn, ev, sq, op, tp, ru, rs), NEW x
    PROVE  SatIs([w EXCEPT !.open = x], co, g, r, cn, ev, sq, x, tp, ru, rs)
  BY DEF SatIs

(* Setting this field of a satellite leaves the others.                      *)
\* The satellite's end of the connection.
LEMMA SatSetsTop ==
    ASSUME NEW w, NEW co, NEW g, NEW r, NEW cn, NEW ev, NEW sq, NEW op, NEW tp, NEW ru, NEW rs,
           SatIs(w, co, g, r, cn, ev, sq, op, tp, ru, rs), NEW x
    PROVE  SatIs([w EXCEPT !.top = x], co, g, r, cn, ev, sq, op, x, ru, rs)
  BY DEF SatIs

(* Setting this field of a satellite leaves the others.                      *)
\* The satellite's end of the connection.
LEMMA SatSetsReused ==
    ASSUME NEW w, NEW co, NEW g, NEW r, NEW cn, NEW ev, NEW sq, NEW op, NEW tp, NEW ru, NEW rs,
           SatIs(w, co, g, r, cn, ev, sq, op, tp, ru, rs), NEW x
    PROVE  SatIs([w EXCEPT !.reused = x], co, g, r, cn, ev, sq, op, tp, x, rs)
  BY DEF SatIs

(* Setting this field of a satellite leaves the others.                      *)
\* The satellite's end of the connection.
LEMMA SatSetsResynced ==
    ASSUME NEW w, NEW co, NEW g, NEW r, NEW cn, NEW ev, NEW sq, NEW op, NEW tp, NEW ru, NEW rs,
           SatIs(w, co, g, r, cn, ev, sq, op, tp, ru, rs), NEW x
    PROVE  SatIs([w EXCEPT !.resynced = x], co, g, r, cn, ev, sq, op, tp, ru, x)
  BY DEF SatIs

(* A detach stops the stream and the events.                                 *)
\* DETACH_RESOURCE, on the satellite.
LEMMA SatDetached ==
    ASSUME NEW w \in Satellite
    PROVE  SatHas([w EXCEPT !.gen = None, !.reg = None, !.events = FALSE],
                  w.conn, None, None, w.counter, FALSE, w.seq, w.open, w.top, w.reused, w.resynced)
<1>1. PICK co \in Nat, g \in Named, r \in Named, cn \in Nat, ev \in Flags, sq \in Nat, op \in Flags, tp \in Nat,
           ru \in Flags, rs \in Flags :
        /\ SatIs(w, co, g, r, cn, ev, sq, op, tp, ru, rs)
        /\ w.conn = co /\ w.gen = g /\ w.reg = r /\ w.counter = cn /\ w.events = ev /\ w.seq = sq
        /\ w.open = op /\ w.top = tp /\ w.reused = ru /\ w.resynced = rs
  BY SatelliteIs
<1>2. PICK none \in Named, no \in Flags : none = None /\ no = FALSE
  BY DEF Named, Flags
<1>3. PICK w1 : w1 = [w EXCEPT !.gen = none]
  OBVIOUS
<1>4. SatIs(w1, co, none, r, cn, ev, sq, op, tp, ru, rs)
  BY <1>1, <1>3, SatSetsGen
<1>5. PICK w2 : w2 = [w1 EXCEPT !.reg = none]
  OBVIOUS
<1>6. SatIs(w2, co, none, none, cn, ev, sq, op, tp, ru, rs)
  BY <1>4, <1>5, SatSetsReg
<1>7. PICK w3 : w3 = [w2 EXCEPT !.events = no]
  OBVIOUS
<1>8. SatIs(w3, co, none, none, cn, no, sq, op, tp, ru, rs)
  BY <1>6, <1>7, SatSetsEvents
<1>9. SatHas(w3, co, none, none, cn, no, sq, op, tp, ru, rs)
  BY <1>8, SatelliteHas
<1>10. [w EXCEPT !.gen = None, !.reg = None, !.events = FALSE] = [w EXCEPT !.gen = none, !.reg = none, !.events = no]
  BY <1>1, <1>2
<1>11. [w EXCEPT !.gen = None, !.reg = None, !.events = FALSE] = w3
  BY <1>10, <1>3, <1>5, <1>7
<1> QED
  BY <1>1, <1>2, <1>9, <1>11

(* A closed terminal streams nothing and stays closed.                       *)
\* reap_terminal, on the satellite.
LEMMA SatClosed ==
    ASSUME NEW w \in Satellite
    PROVE  SatHas([w EXCEPT !.open = FALSE, !.gen = None, !.reg = None],
                  w.conn, None, None, w.counter, w.events, w.seq, FALSE, w.top, w.reused, w.resynced)
<1>1. PICK co \in Nat, g \in Named, r \in Named, cn \in Nat, ev \in Flags, sq \in Nat, op \in Flags, tp \in Nat,
           ru \in Flags, rs \in Flags :
        /\ SatIs(w, co, g, r, cn, ev, sq, op, tp, ru, rs)
        /\ w.conn = co /\ w.gen = g /\ w.reg = r /\ w.counter = cn /\ w.events = ev /\ w.seq = sq
        /\ w.open = op /\ w.top = tp /\ w.reused = ru /\ w.resynced = rs
  BY SatelliteIs
<1>2. PICK none \in Named, no \in Flags : none = None /\ no = FALSE
  BY DEF Named, Flags
<1>3. PICK w1 : w1 = [w EXCEPT !.open = no]
  OBVIOUS
<1>4. SatIs(w1, co, g, r, cn, ev, sq, no, tp, ru, rs)
  BY <1>1, <1>3, SatSetsOpen
<1>5. PICK w2 : w2 = [w1 EXCEPT !.gen = none]
  OBVIOUS
<1>6. SatIs(w2, co, none, r, cn, ev, sq, no, tp, ru, rs)
  BY <1>4, <1>5, SatSetsGen
<1>7. PICK w3 : w3 = [w2 EXCEPT !.reg = none]
  OBVIOUS
<1>8. SatIs(w3, co, none, none, cn, ev, sq, no, tp, ru, rs)
  BY <1>6, <1>7, SatSetsReg
<1>9. SatHas(w3, co, none, none, cn, ev, sq, no, tp, ru, rs)
  BY <1>8, SatelliteHas
<1>10. [w EXCEPT !.open = FALSE, !.gen = None, !.reg = None] = [w EXCEPT !.open = no, !.gen = none, !.reg = none]
  BY <1>1, <1>2
<1>11. [w EXCEPT !.open = FALSE, !.gen = None, !.reg = None] = w3
  BY <1>10, <1>3, <1>5, <1>7
<1> QED
  BY <1>1, <1>2, <1>9, <1>11

(* An attach whose bootstrap fails uses up an id and streams nothing.        *)
\* establish_generation, on the satellite.
LEMMA SatRefuses ==
    ASSUME NEW w \in Satellite
    PROVE  SatHas([w EXCEPT !.gen = None, !.reg = None, !.counter = @ + 1],
                  w.conn, None, None, w.counter + 1, w.events, w.seq, w.open, w.top, w.reused, w.resynced)
<1>1. PICK co \in Nat, g \in Named, r \in Named, cn \in Nat, ev \in Flags, sq \in Nat, op \in Flags, tp \in Nat,
           ru \in Flags, rs \in Flags :
        /\ SatIs(w, co, g, r, cn, ev, sq, op, tp, ru, rs)
        /\ w.conn = co /\ w.gen = g /\ w.reg = r /\ w.counter = cn /\ w.events = ev /\ w.seq = sq
        /\ w.open = op /\ w.top = tp /\ w.reused = ru /\ w.resynced = rs
  BY SatelliteIs
<1>2. PICK none \in Named, cn2 \in Nat : none = None /\ cn2 = w.counter + 1
  <2>1. w.counter + 1 \in Nat
    BY <1>1
  <2> QED
    BY <2>1 DEF Named, Flags
<1>3. PICK w1 : w1 = [w EXCEPT !.gen = none]
  OBVIOUS
<1>4. SatIs(w1, co, none, r, cn, ev, sq, op, tp, ru, rs)
  BY <1>1, <1>3, SatSetsGen
<1>5. PICK w2 : w2 = [w1 EXCEPT !.reg = none]
  OBVIOUS
<1>6. SatIs(w2, co, none, none, cn, ev, sq, op, tp, ru, rs)
  BY <1>4, <1>5, SatSetsReg
<1>7. PICK w3 : w3 = [w2 EXCEPT !.counter = cn2]
  OBVIOUS
<1>8. SatIs(w3, co, none, none, cn2, ev, sq, op, tp, ru, rs)
  BY <1>6, <1>7, SatSetsCounter
<1>9. SatHas(w3, co, none, none, cn2, ev, sq, op, tp, ru, rs)
  BY <1>8, SatelliteHas
<1>10. [w EXCEPT !.gen = None, !.reg = None, !.counter = @ + 1] = [w EXCEPT !.gen = none, !.reg = none, !.counter = cn2]
  BY <1>1, <1>2
<1>11. [w EXCEPT !.gen = None, !.reg = None, !.counter = @ + 1] = w3
  BY <1>10, <1>3, <1>5, <1>7
<1> QED
  BY <1>1, <1>2, <1>9, <1>11

(* A subscription to events.                                                 *)
\* SUBSCRIBE_EVENTS, on the satellite.
LEMMA SatHears ==
    ASSUME NEW w \in Satellite
    PROVE  SatHas([w EXCEPT !.events = TRUE],
                  w.conn, w.gen, w.reg, w.counter, TRUE, w.seq, w.open, w.top, w.reused, w.resynced)
<1>1. PICK co \in Nat, g \in Named, r \in Named, cn \in Nat, ev \in Flags, sq \in Nat, op \in Flags, tp \in Nat,
           ru \in Flags, rs \in Flags :
        /\ SatIs(w, co, g, r, cn, ev, sq, op, tp, ru, rs)
        /\ w.conn = co /\ w.gen = g /\ w.reg = r /\ w.counter = cn /\ w.events = ev /\ w.seq = sq
        /\ w.open = op /\ w.top = tp /\ w.reused = ru /\ w.resynced = rs
  BY SatelliteIs
<1>2. PICK yes \in Flags : yes = TRUE
  BY DEF Flags
<1>3. PICK w1 : w1 = [w EXCEPT !.events = yes]
  OBVIOUS
<1>4. SatIs(w1, co, g, r, cn, yes, sq, op, tp, ru, rs)
  BY <1>1, <1>3, SatSetsEvents
<1>5. SatHas(w1, co, g, r, cn, yes, sq, op, tp, ru, rs)
  BY <1>4, SatelliteHas
<1>6. [w EXCEPT !.events = TRUE] = [w EXCEPT !.events = yes]
  BY <1>1, <1>2
<1>7. [w EXCEPT !.events = TRUE] = w1
  BY <1>6, <1>3
<1> QED
  BY <1>1, <1>2, <1>5, <1>7

(* Output takes the next sequence number.                                    *)
\* forward_live, on the satellite.
LEMMA SatSpeaks ==
    ASSUME NEW w \in Satellite
    PROVE  SatHas([w EXCEPT !.seq = @ + 1],
                  w.conn, w.gen, w.reg, w.counter, w.events, w.seq + 1, w.open, w.top, w.reused, w.resynced)
<1>1. PICK co \in Nat, g \in Named, r \in Named, cn \in Nat, ev \in Flags, sq \in Nat, op \in Flags, tp \in Nat,
           ru \in Flags, rs \in Flags :
        /\ SatIs(w, co, g, r, cn, ev, sq, op, tp, ru, rs)
        /\ w.conn = co /\ w.gen = g /\ w.reg = r /\ w.counter = cn /\ w.events = ev /\ w.seq = sq
        /\ w.open = op /\ w.top = tp /\ w.reused = ru /\ w.resynced = rs
  BY SatelliteIs
<1>2. PICK sq2 \in Nat : sq2 = w.seq + 1
  <2>1. w.seq + 1 \in Nat
    BY <1>1
  <2> QED
    BY <2>1
<1>3. PICK w1 : w1 = [w EXCEPT !.seq = sq2]
  OBVIOUS
<1>4. SatIs(w1, co, g, r, cn, ev, sq2, op, tp, ru, rs)
  BY <1>1, <1>3, SatSetsSeq
<1>5. SatHas(w1, co, g, r, cn, ev, sq2, op, tp, ru, rs)
  BY <1>4, SatelliteHas
<1>6. [w EXCEPT !.seq = @ + 1] = [w EXCEPT !.seq = sq2]
  BY <1>1, <1>2
<1>7. [w EXCEPT !.seq = @ + 1] = w1
  BY <1>6, <1>3
<1> QED
  BY <1>1, <1>2, <1>5, <1>7

(* A new connection is a new client of the satellite and starts from         *)
(* nothing.                                                                  *)
\* detach, forget_connection, on the satellite.
LEMMA ReconnectedIs ==
    ASSUME NEW w \in Satellite
    PROVE  SatHas(Reconnected(w), w.conn + 1, None, None, 1, FALSE, w.seq, w.open, 0, w.reused, w.resynced)
<1>1. PICK co \in Nat, g \in Named, r \in Named, cn \in Nat, ev \in Flags, sq \in Nat, op \in Flags, tp \in Nat,
           ru \in Flags, rs \in Flags :
        /\ SatIs(w, co, g, r, cn, ev, sq, op, tp, ru, rs)
        /\ w.conn = co /\ w.gen = g /\ w.reg = r /\ w.counter = cn /\ w.events = ev /\ w.seq = sq
        /\ w.open = op /\ w.top = tp /\ w.reused = ru /\ w.resynced = rs
  BY SatelliteIs
<1>2. PICK co2 \in Nat, none \in Named, one \in Nat, no \in Flags, zero \in Nat :
        co2 = w.conn + 1 /\ none = None /\ one = 1 /\ no = FALSE /\ zero = 0
  <2>1. w.conn + 1 \in Nat
    BY <1>1
  <2> QED
    BY <2>1 DEF Named, Flags
<1>3. PICK w1 : w1 = [w EXCEPT !.conn = co2]
  OBVIOUS
<1>4. SatIs(w1, co2, g, r, cn, ev, sq, op, tp, ru, rs)
  BY <1>1, <1>3, SatSetsConn
<1>5. PICK w2 : w2 = [w1 EXCEPT !.gen = none]
  OBVIOUS
<1>6. SatIs(w2, co2, none, r, cn, ev, sq, op, tp, ru, rs)
  BY <1>4, <1>5, SatSetsGen
<1>7. PICK w3 : w3 = [w2 EXCEPT !.reg = none]
  OBVIOUS
<1>8. SatIs(w3, co2, none, none, cn, ev, sq, op, tp, ru, rs)
  BY <1>6, <1>7, SatSetsReg
<1>9. PICK w4 : w4 = [w3 EXCEPT !.counter = one]
  OBVIOUS
<1>10. SatIs(w4, co2, none, none, one, ev, sq, op, tp, ru, rs)
  BY <1>8, <1>9, SatSetsCounter
<1>11. PICK w5 : w5 = [w4 EXCEPT !.events = no]
  OBVIOUS
<1>12. SatIs(w5, co2, none, none, one, no, sq, op, tp, ru, rs)
  BY <1>10, <1>11, SatSetsEvents
<1>13. PICK w6 : w6 = [w5 EXCEPT !.top = zero]
  OBVIOUS
<1>14. SatIs(w6, co2, none, none, one, no, sq, op, zero, ru, rs)
  BY <1>12, <1>13, SatSetsTop
<1>15. SatHas(w6, co2, none, none, one, no, sq, op, zero, ru, rs)
  BY <1>14, SatelliteHas
<1>16. Reconnected(w) = [w EXCEPT !.conn = co2, !.gen = none, !.reg = none, !.counter = one, !.events = no, !.top = zero]
  BY <1>1, <1>2 DEF Reconnected
<1>17. Reconnected(w) = w6
  BY <1>16, <1>3, <1>5, <1>7, <1>9, <1>11, <1>13
<1> QED
  BY <1>1, <1>2, <1>15, <1>17

(* An attach registers and streams a generation of the connection's own.     *)
\* establish_generation, replace_pump, on the satellite.
LEMMA SatAttaches ==
    ASSUME NEW w \in Satellite, NEW h \in Generations
    PROVE  SatHas([Begins(w, h) EXCEPT !.reg = h, !.counter = @ + 1], w.conn, h, h,
                  w.counter + 1, w.events, w.seq, w.open,
                  IF h[1] = w.conn /\ h[2] > w.top THEN h[2] ELSE w.top,
                  w.reused \/ (h[1] = w.conn /\ h[2] <= w.top), w.resynced)
<1>1. PICK co \in Nat, g \in Named, r \in Named, cn \in Nat, ev \in Flags, sq \in Nat, op \in Flags, tp \in Nat,
           ru \in Flags, rs \in Flags :
        /\ SatIs(w, co, g, r, cn, ev, sq, op, tp, ru, rs)
        /\ w.conn = co /\ w.gen = g /\ w.reg = r /\ w.counter = cn /\ w.events = ev /\ w.seq = sq
        /\ w.open = op /\ w.top = tp /\ w.reused = ru /\ w.resynced = rs
  BY SatelliteIs
<1>2. PICK tp2 \in Nat, ru2 \in Flags, k \in Named, cn2 \in Nat :
        /\ tp2 = (IF h[1] = w.conn /\ h[2] > w.top THEN h[2] ELSE w.top)
        /\ ru2 = (w.reused \/ (h[1] = w.conn /\ h[2] <= w.top))
        /\ k = h /\ cn2 = w.counter + 1
  <2>1. (IF h[1] = w.conn /\ h[2] > w.top THEN h[2] ELSE w.top) \in Nat /\ h \in Named
    BY <1>1 DEF Generations, Named
  <2>2. w.counter + 1 \in Nat
    BY <1>1
  <2>3. (w.reused \/ (h[1] = w.conn /\ h[2] <= w.top)) \in Flags /\ TRUE \in Flags
    BY DEF Flags
  <2> QED
    BY <2>1, <2>2, <2>3
<1>3. PICK w1 : w1 = [w EXCEPT !.gen = k]
  OBVIOUS
<1>4. SatIs(w1, co, k, r, cn, ev, sq, op, tp, ru, rs)
  BY <1>1, <1>3, SatSetsGen
<1>5. PICK w2 : w2 = [w1 EXCEPT !.top = tp2]
  OBVIOUS
<1>6. SatIs(w2, co, k, r, cn, ev, sq, op, tp2, ru, rs)
  BY <1>4, <1>5, SatSetsTop
<1>7. PICK w3 : w3 = [w2 EXCEPT !.reused = ru2]
  OBVIOUS
<1>8. SatIs(w3, co, k, r, cn, ev, sq, op, tp2, ru2, rs)
  BY <1>6, <1>7, SatSetsReused
<1>9. PICK w4 : w4 = [w3 EXCEPT !.reg = k]
  OBVIOUS
<1>10. SatIs(w4, co, k, k, cn, ev, sq, op, tp2, ru2, rs)
  BY <1>8, <1>9, SatSetsReg
<1>11. PICK w5 : w5 = [w4 EXCEPT !.counter = cn2]
  OBVIOUS
<1>12. SatIs(w5, co, k, k, cn2, ev, sq, op, tp2, ru2, rs)
  BY <1>10, <1>11, SatSetsCounter
<1>13. SatHas(w5, co, k, k, cn2, ev, sq, op, tp2, ru2, rs)
  BY <1>12, SatelliteHas
<1>14. [Begins(w, h) EXCEPT !.reg = h, !.counter = @ + 1] = [w EXCEPT !.gen = k, !.top = tp2, !.reused = ru2, !.reg = k, !.counter = cn2]
  BY <1>1, <1>2 DEF Begins
<1>15. [Begins(w, h) EXCEPT !.reg = h, !.counter = @ + 1] = w5
  BY <1>14, <1>3, <1>5, <1>7, <1>9, <1>11
<1> QED
  BY <1>1, <1>2, <1>13, <1>15

(* A resync streams the generation after the one before, which nothing       *)
(* registers.                                                                *)
\* republish_generation, on the satellite.
LEMMA SatRepublished ==
    ASSUME NEW w \in Satellite, NEW h \in Generations
    PROVE  SatHas([Begins(w, h) EXCEPT !.resynced = TRUE], w.conn, h, w.reg,
                  w.counter, w.events, w.seq, w.open,
                  IF h[1] = w.conn /\ h[2] > w.top THEN h[2] ELSE w.top,
                  w.reused \/ (h[1] = w.conn /\ h[2] <= w.top), TRUE)
<1>1. PICK co \in Nat, g \in Named, r \in Named, cn \in Nat, ev \in Flags, sq \in Nat, op \in Flags, tp \in Nat,
           ru \in Flags, rs \in Flags :
        /\ SatIs(w, co, g, r, cn, ev, sq, op, tp, ru, rs)
        /\ w.conn = co /\ w.gen = g /\ w.reg = r /\ w.counter = cn /\ w.events = ev /\ w.seq = sq
        /\ w.open = op /\ w.top = tp /\ w.reused = ru /\ w.resynced = rs
  BY SatelliteIs
<1>2. PICK tp2 \in Nat, ru2 \in Flags, k \in Named, yes \in Flags :
        /\ tp2 = (IF h[1] = w.conn /\ h[2] > w.top THEN h[2] ELSE w.top)
        /\ ru2 = (w.reused \/ (h[1] = w.conn /\ h[2] <= w.top))
        /\ k = h /\ yes = TRUE
  <2>1. (IF h[1] = w.conn /\ h[2] > w.top THEN h[2] ELSE w.top) \in Nat /\ h \in Named
    BY <1>1 DEF Generations, Named
  <2>2. w.counter + 1 \in Nat
    BY <1>1
  <2>3. (w.reused \/ (h[1] = w.conn /\ h[2] <= w.top)) \in Flags /\ TRUE \in Flags
    BY DEF Flags
  <2> QED
    BY <2>1, <2>2, <2>3
<1>3. PICK w1 : w1 = [w EXCEPT !.gen = k]
  OBVIOUS
<1>4. SatIs(w1, co, k, r, cn, ev, sq, op, tp, ru, rs)
  BY <1>1, <1>3, SatSetsGen
<1>5. PICK w2 : w2 = [w1 EXCEPT !.top = tp2]
  OBVIOUS
<1>6. SatIs(w2, co, k, r, cn, ev, sq, op, tp2, ru, rs)
  BY <1>4, <1>5, SatSetsTop
<1>7. PICK w3 : w3 = [w2 EXCEPT !.reused = ru2]
  OBVIOUS
<1>8. SatIs(w3, co, k, r, cn, ev, sq, op, tp2, ru2, rs)
  BY <1>6, <1>7, SatSetsReused
<1>9. PICK w4 : w4 = [w3 EXCEPT !.resynced = yes]
  OBVIOUS
<1>10. SatIs(w4, co, k, r, cn, ev, sq, op, tp2, ru2, yes)
  BY <1>8, <1>9, SatSetsResynced
<1>11. SatHas(w4, co, k, r, cn, ev, sq, op, tp2, ru2, yes)
  BY <1>10, SatelliteHas
<1>12. [Begins(w, h) EXCEPT !.resynced = TRUE] = [w EXCEPT !.gen = k, !.top = tp2, !.reused = ru2, !.resynced = yes]
  BY <1>1, <1>2 DEF Begins
<1>13. [Begins(w, h) EXCEPT !.resynced = TRUE] = w4
  BY <1>12, <1>3, <1>5, <1>7, <1>9
<1> QED
  BY <1>1, <1>2, <1>11, <1>13

-----------------------------------------------------------------------------
(* What the satellite makes of the hub's commands.                           *)

Frames == Seq(LinkFrame)

(* What is put behind a part is put behind the whole.                        *)
\* The mailboxes and the link are queues.
LEMMA ConcatAppend ==
    ASSUME NEW S, NEW q \in Seq(S), NEW p \in Seq(S), NEW e \in S
    PROVE  q \o Append(p, e) = Append(q \o p, e)
<1>1. q \o p \in Seq(S) /\ Len(q \o p) = Len(q) + Len(p) /\ Len(q) \in Nat /\ Len(p) \in Nat
      /\ \A i \in 1 .. Len(q) + Len(p) : (q \o p)[i] = IF i <= Len(q) THEN q[i] ELSE p[i - Len(q)]
  OBVIOUS
<1>2. PICK pe : pe = Append(p, e)
  OBVIOUS
<1>3. pe \in Seq(S) /\ Len(pe) = Len(p) + 1 /\ (\A i \in 1 .. Len(p) : pe[i] = p[i]) /\ pe[Len(p) + 1] = e
  BY <1>2
<1>4. q \o pe \in Seq(S) /\ Len(q \o pe) = Len(q) + Len(pe)
      /\ \A i \in 1 .. Len(q) + Len(pe) : (q \o pe)[i] = IF i <= Len(q) THEN q[i] ELSE pe[i - Len(q)]
  BY <1>3
<1>5. PICK x : x = q \o p
  OBVIOUS
<1>6. PICK y : y = Append(x, e)
  OBVIOUS
<1>7. PICK z : z = q \o pe
  OBVIOUS
<1>8. y \in Seq(S) /\ Len(y) = Len(x) + 1 /\ (\A i \in 1 .. Len(x) : y[i] = x[i]) /\ y[Len(x) + 1] = e
  BY <1>1, <1>5, <1>6
<1>9. Len(y) = Len(z) /\ z \in Seq(S)
  BY <1>1, <1>3, <1>4, <1>5, <1>7, <1>8
<1>10. ASSUME NEW i \in 1 .. Len(y) PROVE y[i] = z[i]
  <2>1. CASE i <= Len(q)
    BY <2>1, <1>1, <1>3, <1>4, <1>5, <1>7, <1>8
  <2>2. CASE Len(q) < i /\ i <= Len(q) + Len(p)
    <3>1. i - Len(q) \in 1 .. Len(p) /\ i \in 1 .. Len(x) /\ i \in 1 .. Len(q) + Len(p) /\ i \in 1 .. Len(q) + Len(pe) /\ ~(i <= Len(q))
      BY <2>2, <1>1, <1>3, <1>5
    <3>2. y[i] = p[i - Len(q)]
      BY <3>1, <1>1, <1>5, <1>8
    <3>3. z[i] = pe[i - Len(q)]
      BY <3>1, <1>4, <1>7
    <3> QED
      BY <3>1, <3>2, <3>3, <1>3
  <2>3. CASE i = Len(q) + Len(p) + 1
    <3>1. i - Len(q) = Len(p) + 1 /\ i = Len(x) + 1 /\ i \in 1 .. Len(q) + Len(pe) /\ ~(i <= Len(q))
      BY <2>3, <1>1, <1>3, <1>5
    <3>2. y[i] = e
      BY <3>1, <1>8
    <3>3. z[i] = pe[i - Len(q)]
      BY <3>1, <1>4, <1>7
    <3> QED
      BY <3>1, <3>2, <3>3, <1>3
  <2>4. PICK m \in Nat, n \in Nat : m = Len(q) /\ n = Len(p)
    BY <1>1
  <2>5. Len(y) = m + n + 1
    BY <1>1, <1>5, <1>8, <2>4
  <2>6. i \in Nat /\ i <= m + n + 1
    BY <2>5
  <2> QED
    BY <2>1, <2>2, <2>3, <2>4, <2>6
<1>11. y = z
  BY <1>8, <1>9, <1>10
<1> QED
  BY <1>2, <1>5, <1>6, <1>7, <1>11

(* Nothing is put behind the rest.                                           *)
\* The mailboxes and the link are queues.
LEMMA ConcatNothing ==
    ASSUME NEW S, NEW q \in Seq(S)
    PROVE  q \o <<>> = q
  OBVIOUS

(* Short sequences, element by element.                                      *)
\* The mailboxes and the link are queues.
LEMMA AppendsTo ==
    ASSUME NEW e, NEW f, NEW g
    PROVE  Append(<<>>, e) = <<e>> /\ Append(<<e>>, f) = <<e, f>> /\ Append(<<e, f>>, g) = <<e, f, g>>
<1>1. PICK S : e \in S /\ f \in S /\ g \in S
  <2>1. e \in {e, f, g} /\ f \in {e, f, g} /\ g \in {e, f, g}
    OBVIOUS
  <2> QED
    BY <2>1
<1>2. <<>> \in Seq(S) /\ <<e>> \in Seq(S) /\ <<e, f>> \in Seq(S)
  BY <1>1
<1>3. Append(<<>>, e) = <<e>>
  OBVIOUS
<1>4. Append(<<e>>, f) = <<e, f>>
  <2>1. PICK x \in Seq(S) : x = <<e>> /\ Len(x) = 1 /\ x[1] = e
    BY <1>2
  <2>2. PICK y : y = Append(x, f)
    OBVIOUS
  <2>3. y \in Seq(S) /\ Len(y) = 2 /\ y[1] = e /\ y[2] = f
    BY <2>1, <2>2, <1>1
  <2>4. PICK z \in Seq(S) : z = <<e, f>> /\ Len(z) = 2 /\ z[1] = e /\ z[2] = f
    BY <1>2
  <2>5. \A i \in 1 .. 2 : y[i] = z[i]
    BY <2>3, <2>4
  <2>6. y = z
    BY <2>3, <2>4, <2>5
  <2> QED
    BY <2>1, <2>2, <2>4, <2>6
<1>5. Append(<<e, f>>, g) = <<e, f, g>>
  <2>1. PICK x \in Seq(S) : x = <<e, f>> /\ Len(x) = 2 /\ x[1] = e /\ x[2] = f
    BY <1>2
  <2>2. PICK y : y = Append(x, g)
    OBVIOUS
  <2>3. y \in Seq(S) /\ Len(y) = 3 /\ y[1] = e /\ y[2] = f /\ y[3] = g
    BY <2>1, <2>2, <1>1
  <2>4. <<e, f, g>> \in Seq(S)
    BY <1>1
  <2>5. PICK z \in Seq(S) : z = <<e, f, g>> /\ Len(z) = 3 /\ z[1] = e /\ z[2] = f /\ z[3] = g
    BY <2>4
  <2>6. \A i \in 1 .. 3 : y[i] = z[i]
    BY <2>3, <2>5
  <2>7. y = z
    BY <2>3, <2>5, <2>6
  <2> QED
    BY <2>1, <2>2, <2>5, <2>7
<1> QED
  BY <1>3, <1>4, <1>5

(* Up to three frames put behind the rest.                                   *)
\* The mailboxes and the link are queues.
LEMMA ConcatSome ==
    ASSUME NEW S, NEW q \in Seq(S), NEW e \in S, NEW f \in S, NEW g \in S
    PROVE  /\ q \o <<e>> = Append(q, e)
           /\ q \o <<e, f>> = Append(Append(q, e), f)
           /\ q \o <<e, f, g>> = Append(Append(Append(q, e), f), g)
<1>1. <<>> \in Seq(S) /\ <<e>> \in Seq(S) /\ <<e, f>> \in Seq(S)
  OBVIOUS
<1>2. Append(<<>>, e) = <<e>> /\ Append(<<e>>, f) = <<e, f>> /\ Append(<<e, f>>, g) = <<e, f, g>>
  BY AppendsTo
<1>3. q \o Append(<<>>, e) = Append(q \o <<>>, e)
  BY <1>1, ConcatAppend
<1>4. q \o Append(<<e>>, f) = Append(q \o <<e>>, f)
  BY <1>1, ConcatAppend
<1>5. q \o Append(<<e, f>>, g) = Append(q \o <<e, f>>, g)
  BY <1>1, ConcatAppend
<1>6. q \o <<>> = q
  BY ConcatNothing
<1> QED
  BY <1>2, <1>3, <1>4, <1>5, <1>6

\* A satellite that was told to stop, and its answer.
Silenced(w) == [w EXCEPT !.gen = None, !.reg = None, !.events = FALSE]

Answer(q, i) == Append(q, Result(i, TRUE))

(* What a detach does on the satellite: it stops everything, then answers.   *)
\* DETACH_RESOURCE, on the satellite.
LEMMA DetachDone ==
    ASSUME NEW s, NEW q, NEW i, NEW x
    PROVE  SatelliteDoes([sat |-> s, frames |-> q], [kind |-> "Detach", id |-> i], x)
            = [sat |-> Silenced(s), frames |-> Answer(q, i)]
  BY DEF SatelliteDoes, Silenced, Answer

(* What a subscription does on the satellite; it is not answered.            *)
\* SUBSCRIBE_EVENTS, on the satellite.
LEMMA EventsDone ==
    ASSUME NEW s, NEW q, NEW x
    PROVE  SatelliteDoes([sat |-> s, frames |-> q], [kind |-> "Events"], x)
            = [sat |-> [s EXCEPT !.events = TRUE], frames |-> q]
<1>1. PICK w : w = [sat |-> s, frames |-> q]
  OBVIOUS
<1>2. SatelliteDoes(w, [kind |-> "Events"], x) = [w EXCEPT !.sat.events = TRUE]
  BY DEF SatelliteDoes
<1>3. PICK t : t = [s EXCEPT !.events = TRUE]
  OBVIOUS
<1>4. [w EXCEPT !.sat.events = TRUE] = [w EXCEPT !.sat = [w.sat EXCEPT !.events = TRUE]]
  OBVIOUS
<1>5. w.sat = s
  BY <1>1
<1>6. [w EXCEPT !.sat = t] = [sat |-> t, frames |-> q]
  BY <1>1
<1> QED
  BY <1>1, <1>2, <1>3, <1>4, <1>5, <1>6

\* A generation in front of the next one is tombstoned.
Replaces(q, reg) == IF reg = None THEN q ELSE Append(q, Frame("Tombstone", reg, 0))

\* The bootstrap of h at base n, behind the rest.
Announces(q, h, n) == Append(Append(q, Frame("Begin", h, n)), Frame("Ready", h, n))

\* What the satellite does on an attach, as the link sees it.
Attached(q, s, i, x, t, q2) ==
    \/ ~s.open /\ t = s /\ q2 = Append(q, Result(i, FALSE))
    \/ /\ s.open /\ x
       /\ t = [s EXCEPT !.gen = None, !.reg = None, !.counter = @ + 1]
       /\ q2 = Append(Replaces(q, s.reg), Result(i, FALSE))
    \/ /\ s.open /\ ~x
       /\ t = [Begins(s, <<s.conn, s.counter>>) EXCEPT !.reg = <<s.conn, s.counter>>, !.counter = @ + 1]
       /\ q2 = Append(Announces(Replaces(q, s.reg), <<s.conn, s.counter>>, s.seq), Result(i, TRUE))

(* The frames of a stream and the answers, field by field.                   *)
\* FrameKind.
LEMMA FramesAre ==
    /\ \A h \in Generations, n \in Nat, k \in {"Begin", "Ready", "Output", "Tombstone"} :
        Frame(k, h, n) \in LinkFrame /\ Frame(k, h, n) \in StreamFrame /\ Frame(k, h, n).kind = k /\ Frame(k, h, n).gen = h
        /\ Frame(k, h, n).seq = n
    /\ \A i \in Nat, ok \in BOOLEAN :
        Result(i, ok) \in LinkFrame /\ Result(i, ok).kind = "Result" /\ Result(i, ok).id = i /\ (Result(i, ok).ok <=> ok)
<1>1. ASSUME NEW h \in Generations, NEW n \in Nat, NEW k \in {"Begin", "Ready", "Output", "Tombstone"}
      PROVE Frame(k, h, n) \in LinkFrame /\ Frame(k, h, n) \in StreamFrame /\ Frame(k, h, n).kind = k /\ Frame(k, h, n).gen = h
            /\ Frame(k, h, n).seq = n
  BY DEF Frame, LinkFrame, StreamFrame
<1>2. ASSUME NEW i \in Nat, NEW ok \in BOOLEAN
      PROVE Result(i, ok) \in LinkFrame /\ Result(i, ok).kind = "Result" /\ Result(i, ok).id = i /\ (Result(i, ok).ok <=> ok)
  BY DEF Result, LinkFrame
<1> QED
  BY <1>1, <1>2

(* The tombstone of the registered generation goes behind what is on its     *)
(* way.                                                                      *)
\* establish_generation, on the satellite.
LEMMA ReplacesOn ==
    ASSUME NEW q0 \in Frames, NEW p \in Frames, NEW reg \in Named
    PROVE  Replaces(p, reg) \in Frames /\ q0 \o Replaces(p, reg) = Replaces(q0 \o p, reg)
<1>1. CASE reg = None
  BY <1>1 DEF Replaces
<1>2. CASE reg # None
  <2>1. reg \in Generations
    BY <1>2 DEF Named
  <2>2. PICK f \in LinkFrame : f = Frame("Tombstone", reg, 0)
    BY <2>1, FramesAre
  <2>3. q0 \o Append(p, f) = Append(q0 \o p, f) /\ Append(p, f) \in Frames
    BY ConcatAppend, AppendOf DEF Frames
  <2> QED
    BY <1>2, <2>2, <2>3 DEF Replaces
<1> QED
  BY <1>1, <1>2

(* What an attach does on the satellite: it bounces off a closed terminal,   *)
(* is refused behind a tombstone, or is served behind one.                   *)
\* establish_generation, on the satellite.
LEMMA AttachDone ==
    ASSUME NEW s \in Satellite, NEW q0 \in Frames, NEW p \in Frames, NEW i \in Nat, NEW x \in BOOLEAN, NEW w,
           w = SatelliteDoes([sat |-> s, frames |-> p], [kind |-> "Attach", id |-> i], x)
    PROVE  Attached(q0 \o p, s, i, x, w.sat, q0 \o w.frames)
<1>1. s.conn \in Nat /\ s.counter \in Nat
  BY SatelliteIs
<1>2. <<s.conn, s.counter>> \in Generations
  BY <1>1 DEF Generations
<1>3. PICK h \in Generations : h = <<s.conn, s.counter>>
  BY <1>2
<1>4. PICK n \in Nat, reg \in Named : n = s.seq /\ reg = s.reg
  BY SatelliteIs
<1>5. PICK yes \in LinkFrame, no \in LinkFrame, b \in LinkFrame, r \in LinkFrame :
        yes = Result(i, TRUE) /\ no = Result(i, FALSE) /\ b = Frame("Begin", h, n) /\ r = Frame("Ready", h, n)
  BY FramesAre
<1>6. q0 \o p \in Frames
  BY DEF Frames
<1>7. PICK q \in Frames : q = q0 \o p
  BY <1>6
<1>8. CASE ~s.open
  <2>1. w = [[sat |-> s, frames |-> p] EXCEPT !.frames = Append(p, no)]
    BY <1>5, <1>8 DEF SatelliteDoes
  <2>2. w.sat = s /\ w.frames = Append(p, no)
    BY <2>1
  <2>3. q0 \o Append(p, no) = Append(q, no)
    BY <1>7, ConcatAppend DEF Frames
  <2> QED
    BY <1>5, <1>7, <1>8, <2>2, <2>3 DEF Attached
<1>9. PICK rep : rep = IF reg = None THEN <<>> ELSE <<Frame("Tombstone", reg, 0)>>
  OBVIOUS
<1>10. rep \in Frames /\ p \o rep = Replaces(p, reg)
  <2>1. CASE reg = None
    BY <2>1, <1>9, ConcatNothing DEF Frames, Replaces
  <2>2. CASE reg # None
    <3>1. reg \in Generations
      BY <2>2 DEF Named
    <3>2. PICK f \in LinkFrame : f = Frame("Tombstone", reg, 0)
      BY <3>1, FramesAre
    <3>3. <<f>> \in Frames /\ p \o <<f>> = Append(p, f)
      BY ConcatSome DEF Frames
    <3> QED
      BY <2>2, <1>9, <3>2, <3>3 DEF Replaces
  <2> QED
    BY <2>1, <2>2
<1>11. PICK p1 \in Frames : p1 = Replaces(p, reg) /\ q0 \o p1 = Replaces(q, reg)
  BY <1>7, ReplacesOn
<1>12. CASE s.open /\ x
  <2>1. w.sat = [s EXCEPT !.gen = None, !.reg = None, !.counter = @ + 1] /\ w.frames = p \o Append(rep, no)
    BY <1>4, <1>5, <1>9, <1>12 DEF SatelliteDoes
  <2>2. p \o Append(rep, no) = Append(p1, no)
    <3>1. p \o Append(rep, no) = Append(p \o rep, no)
      BY <1>10, ConcatAppend, SMTT(20) DEF Frames
    <3>2. p \o rep = p1
      BY <1>10, <1>11
    <3> QED
      BY <3>1, <3>2
  <2>3. q0 \o Append(p1, no) = Append(q0 \o p1, no)
    BY ConcatAppend DEF Frames
  <2> QED
    BY <1>4, <1>5, <1>7, <1>11, <1>12, <2>1, <2>2, <2>3 DEF Attached
<1>13. CASE s.open /\ ~x
  <2>1. w.sat = [Begins(s, h) EXCEPT !.reg = h, !.counter = @ + 1] /\ w.frames = p \o rep \o Append(<<b, r>>, yes)
    BY <1>3, <1>4, <1>5, <1>9, <1>13 DEF SatelliteDoes, Bootstrap
  <2>2. <<b, r>> \in Frames
    BY DEF Frames
  <2>3. p1 \o Append(<<b, r>>, yes) = Append(p1 \o <<b, r>>, yes)
    BY <2>2, ConcatAppend DEF Frames
  <2>4. p1 \o <<b, r>> = Append(Append(p1, b), r)
    BY ConcatSome, SMTT(20) DEF Frames
  <2>5. w.frames = Append(Append(Append(p1, b), r), yes)
    BY <2>1, <2>3, <2>4, <1>10, <1>11
  <2>6. PICK p2 \in Frames : p2 = Append(p1, b)
    BY AppendOf DEF Frames
  <2>7. PICK p3 \in Frames : p3 = Append(p2, r)
    BY AppendOf DEF Frames
  <2>8. q0 \o Append(p3, yes) = Append(q0 \o p3, yes)
    BY ConcatAppend, SMTT(20) DEF Frames
  <2>9. q0 \o Append(p2, r) = Append(q0 \o p2, r)
    BY ConcatAppend DEF Frames
  <2>10. q0 \o Append(p1, b) = Append(q0 \o p1, b)
    BY ConcatAppend DEF Frames
  <2>11. q0 \o w.frames = Append(Append(Append(Replaces(q, reg), b), r), yes)
    BY <1>11, <2>5, <2>6, <2>7, <2>8, <2>9, <2>10
  <2> QED
    BY <1>3, <1>4, <1>5, <1>7, <1>13, <2>1, <2>11 DEF Attached, Announces
<1> QED
  BY <1>8, <1>12, <1>13

-----------------------------------------------------------------------------
(* The frames of one turn of the supervisor.                                 *)

\* A satellite that has said nothing yet in this turn.
Nothing(w) == [sat |-> w, frames |-> <<>>]

(* The frames of one turn reach the satellite in order.                      *)
\* send_relay_request, send_bounded.
LEMMA SendsThree ==
    ASSUME NEW fr, NEW x, SendUpstream(fr, x),
           NEW w0, NEW w1, NEW w2, NEW w3, w0 = Nothing(sat),
           w1 = IF 1 \in DOMAIN fr THEN SatelliteDoes(w0, fr[1], x) ELSE w0,
           w2 = IF 2 \in DOMAIN fr THEN SatelliteDoes(w1, fr[2], x) ELSE w1,
           w3 = IF 3 \in DOMAIN fr THEN SatelliteDoes(w2, fr[3], x) ELSE w2
    PROVE  sat' = w3.sat /\ toHub' = toHub \o w3.frames
  BY Zenon DEF SendUpstream, Nothing

(* A turn of one frame.                                                      *)
\* send_relay_request, send_bounded.
LEMMA SendsOne ==
    ASSUME NEW e, NEW x, SendUpstream(<<e>>, x), NEW w, w = SatelliteDoes(Nothing(sat), e, x)
    PROVE  sat' = w.sat /\ toHub' = toHub \o w.frames
<1>1. PICK fr : fr = <<e>> /\ DOMAIN fr = {1} /\ fr[1] = e
  OBVIOUS
<1>2. PICK w0 : w0 = Nothing(sat)
  OBVIOUS
<1>3. /\ w = IF 1 \in DOMAIN fr THEN SatelliteDoes(w0, fr[1], x) ELSE w0
      /\ w = IF 2 \in DOMAIN fr THEN SatelliteDoes(w, fr[2], x) ELSE w
      /\ w = IF 3 \in DOMAIN fr THEN SatelliteDoes(w, fr[3], x) ELSE w
  BY <1>1, <1>2
<1>4. SendUpstream(fr, x)
  BY <1>1
<1> QED
  BY <1>2, <1>3, <1>4, SendsThree

(* A turn of two frames.                                                     *)
\* send_relay_request, send_bounded.
LEMMA SendsTwo ==
    ASSUME NEW d, NEW e, NEW x, SendUpstream(<<d, e>>, x),
           NEW w, w = SatelliteDoes(Nothing(sat), d, x), NEW v, v = SatelliteDoes(w, e, x)
    PROVE  sat' = v.sat /\ toHub' = toHub \o v.frames
<1>1. PICK fr : fr = <<d, e>> /\ DOMAIN fr = {1, 2} /\ fr[1] = d /\ fr[2] = e
  <2>1. DOMAIN <<d, e>> = 1 .. 2 /\ <<d, e>>[1] = d /\ <<d, e>>[2] = e
    OBVIOUS
  <2>2. 1 .. 2 = {1, 2}
    OBVIOUS
  <2> QED
    BY <2>1, <2>2
<1>2. PICK w0 : w0 = Nothing(sat)
  OBVIOUS
<1>3. /\ w = IF 1 \in DOMAIN fr THEN SatelliteDoes(w0, fr[1], x) ELSE w0
      /\ v = IF 2 \in DOMAIN fr THEN SatelliteDoes(w, fr[2], x) ELSE w
      /\ v = IF 3 \in DOMAIN fr THEN SatelliteDoes(v, fr[3], x) ELSE v
  BY <1>1, <1>2
<1>4. SendUpstream(fr, x)
  BY <1>1
<1> QED
  BY <1>2, <1>3, <1>4, SendsThree, SMTT(20)

(* A turn of three frames.                                                   *)
\* send_relay_request, send_bounded.
LEMMA SendsAll ==
    ASSUME NEW c, NEW d, NEW e, NEW x, SendUpstream(<<c, d, e>>, x),
           NEW w, w = SatelliteDoes(Nothing(sat), c, x), NEW v, v = SatelliteDoes(w, d, x),
           NEW u, u = SatelliteDoes(v, e, x)
    PROVE  sat' = u.sat /\ toHub' = toHub \o u.frames
<1>1. PICK fr : fr = <<c, d, e>> /\ 1 \in DOMAIN fr /\ 2 \in DOMAIN fr /\ 3 \in DOMAIN fr
                /\ fr[1] = c /\ fr[2] = d /\ fr[3] = e
  OBVIOUS
<1>2. PICK w0 : w0 = Nothing(sat)
  OBVIOUS
<1>3. /\ w = IF 1 \in DOMAIN fr THEN SatelliteDoes(w0, fr[1], x) ELSE w0
      /\ v = IF 2 \in DOMAIN fr THEN SatelliteDoes(w, fr[2], x) ELSE w
      /\ u = IF 3 \in DOMAIN fr THEN SatelliteDoes(v, fr[3], x) ELSE v
  BY <1>1, <1>2
<1>4. SendUpstream(fr, x)
  BY <1>1
<1> QED
  BY <1>2, <1>3, <1>4, SendsThree, SMTT(20)

(* The turn of an event subscription.                                        *)
\* subscribe_forward.
LEMMA SendsEvents ==
    ASSUME SendUpstream(<<[kind |-> "Events"]>>, FALSE), toHub \in Frames
    PROVE  sat' = [sat EXCEPT !.events = TRUE] /\ toHub' = toHub
<1>1. PICK e : e = [kind |-> "Events"]
  OBVIOUS
<1>2. PICK s, p, x : s = sat /\ p = <<>> /\ x = FALSE
  OBVIOUS
<1>3. PICK w1 : w1 = SatelliteDoes(Nothing(sat), e, x)
  OBVIOUS
<1>4. SatelliteDoes([sat |-> s, frames |-> p], [kind |-> "Events"], x) = [sat |-> [s EXCEPT !.events = TRUE], frames |-> p]
  BY EventsDone
<1>5. sat' = w1.sat /\ toHub' = toHub \o w1.frames
  BY <1>1, <1>2, <1>3, SendsOne
<1>6. Nothing(sat) = [sat |-> s, frames |-> p]
  BY <1>2 DEF Nothing
<1>7. w1 = [sat |-> [s EXCEPT !.events = TRUE], frames |-> p]
  BY <1>1, <1>6, <1>3, <1>4
<1>8. w1.sat = [s EXCEPT !.events = TRUE] /\ w1.frames = <<>>
  BY <1>2, <1>7
<1>9. toHub \o <<>> = toHub
  BY ConcatNothing DEF Frames
<1> QED
  BY <1>2, <1>5, <1>8, <1>9

(* The turn of a detach.                                                     *)
\* encode_terminal_detach.
LEMMA SendsDetach ==
    ASSUME NEW i \in Nat, SendUpstream(<<[kind |-> "Detach", id |-> i]>>, FALSE), toHub \in Frames
    PROVE  sat' = Silenced(sat) /\ toHub' = Append(toHub, Result(i, TRUE))
<1>1. PICK e : e = [kind |-> "Detach", id |-> i]
  OBVIOUS
<1>2. PICK s, p, x : s = sat /\ p = <<>> /\ x = FALSE
  OBVIOUS
<1>3. PICK w1 : w1 = SatelliteDoes(Nothing(sat), e, x)
  OBVIOUS
<1>4. SatelliteDoes([sat |-> s, frames |-> p], [kind |-> "Detach", id |-> i], x)
        = [sat |-> Silenced(s), frames |-> Answer(p, i)]
  BY DetachDone
<1>5. sat' = w1.sat /\ toHub' = toHub \o w1.frames
  BY <1>1, <1>2, <1>3, SendsOne
<1>6. PICK f \in LinkFrame : f = Result(i, TRUE)
  BY FramesAre
<1>7. Append(<<>>, f) = <<f>> /\ toHub \o <<f>> = Append(toHub, f)
  BY ConcatSome, AppendsTo DEF Frames
<1>8. Nothing(sat) = [sat |-> s, frames |-> p]
  BY <1>2 DEF Nothing
<1>9. w1 = [sat |-> Silenced(s), frames |-> Answer(p, i)]
  BY <1>1, <1>8, <1>3, <1>4
<1>10. w1.sat = Silenced(sat) /\ w1.frames = <<f>>
  BY <1>2, <1>6, <1>7, <1>9 DEF Answer
<1> QED
  BY <1>5, <1>6, <1>7, <1>10

(* The turn of an attach that needs no cut.                                  *)
\* send_relay_request, send_bounded.
LEMMA SendsAttach ==
    ASSUME NEW i \in Nat, NEW x \in BOOLEAN, SendUpstream(Append(<<>>, [kind |-> "Attach", id |-> i]), x),
           toHub \in Frames, sat \in Satellite
    PROVE  Attached(toHub, sat, i, x, sat', toHub')
<1>1. PICK e : e = [kind |-> "Attach", id |-> i]
  OBVIOUS
<1>2. Append(<<>>, e) = <<e>>
  BY AppendsTo
<1>3. PICK w1 : w1 = SatelliteDoes(Nothing(sat), e, x)
  OBVIOUS
<1>4. <<>> \in Frames
  BY DEF Frames
<1>5. PICK q \in Frames, s \in Satellite, p \in Frames : q = toHub /\ s = sat /\ p = <<>>
  BY <1>4
<1>6. Attached(q \o p, s, i, x, w1.sat, q \o w1.frames)
  BY <1>1, <1>3, <1>5, AttachDone DEF Nothing
<1>7. sat' = w1.sat /\ toHub' = toHub \o w1.frames
  BY <1>1, <1>2, <1>3, SendsOne
<1>8. q \o <<>> = q
  BY ConcatNothing DEF Frames
<1> QED
  BY <1>5, <1>6, <1>7, <1>8

\* A cut is a detach; the event subscription behind it is restored.
CutFrames(i, legacy) ==
    <<[kind |-> "Detach", id |-> i]>> \o IF legacy THEN <<[kind |-> "Events"]>> ELSE <<>>

\* The satellite after a cut.
Restored(w, legacy) == IF legacy THEN [Silenced(w) EXCEPT !.events = TRUE] ELSE Silenced(w)

(* The turn of an attach behind a cut: the detach, the event subscription if *)
(* the link has one, then the attach.                                        *)
\* prepare_content_cut, send_relay_request.
LEMMA SendsCut ==
    ASSUME NEW i \in Nat, NEW j \in Nat, NEW x \in BOOLEAN, NEW legacy \in BOOLEAN,
           SendUpstream(Append(CutFrames(j, legacy), [kind |-> "Attach", id |-> i]), x),
           toHub \in Frames, sat \in Satellite
    PROVE  Attached(Append(toHub, Result(j, TRUE)), Restored(sat, legacy), i, x, sat', toHub')
<1>1. PICK e, d, v : e = [kind |-> "Attach", id |-> i] /\ d = [kind |-> "Detach", id |-> j] /\ v = [kind |-> "Events"]
  OBVIOUS
<1>2. PICK w1, s0, p0 : w1 = SatelliteDoes(Nothing(sat), d, x) /\ s0 = sat /\ p0 = <<>>
  OBVIOUS
<1>3. PICK f \in LinkFrame : f = Result(j, TRUE)
  BY FramesAre
<1>4. Append(<<>>, f) = <<f>> /\ toHub \o <<f>> = Append(toHub, f) /\ <<f>> \in Frames
  BY ConcatSome, AppendsTo DEF Frames
<1>5. SatelliteDoes([sat |-> s0, frames |-> p0], [kind |-> "Detach", id |-> j], x)
        = [sat |-> Silenced(s0), frames |-> Answer(p0, j)]
  BY DetachDone
<1>6. w1 = [sat |-> Silenced(sat), frames |-> <<f>>]
  BY <1>1, <1>2, <1>3, <1>4, <1>5 DEF Answer, Nothing
<1>7. Silenced(sat) \in Satellite
  BY SatDetached DEF SatHas, Silenced
<1>8. PICK s \in Satellite, q \in Frames, t \in Frames : s = Silenced(sat) /\ q = toHub /\ t = <<f>>
  BY <1>4, <1>7
<1>9. CASE ~legacy
  <2>1. CutFrames(j, legacy) = <<d>>
    BY <1>1, <1>9 DEF CutFrames
  <2>2. Append(<<d>>, e) = <<d, e>>
    BY AppendsTo
  <2>3. PICK w2 : w2 = SatelliteDoes(w1, e, x)
    OBVIOUS
  <2>4. SendUpstream(<<d, e>>, x)
    BY <1>1, <2>1, <2>2
  <2>5. sat' = w2.sat /\ toHub' = toHub \o w2.frames
    BY <1>2, <2>3, <2>4, SendsTwo
  <2>6. Attached(q \o t, s, i, x, w2.sat, q \o w2.frames)
    BY <1>1, <1>6, <1>8, <2>3, AttachDone
  <2> QED
    BY <1>3, <1>4, <1>8, <1>9, <2>5, <2>6 DEF Restored
<1>10. CASE legacy
  <2>1. CutFrames(j, legacy) = <<d, v>>
    <3>1. PICK S : d \in S /\ v \in S
      <4>1. d \in {d, v} /\ v \in {d, v}
        OBVIOUS
      <4> QED
        BY <4>1
    <3>2. <<d>> \in Seq(S)
      BY <3>1
    <3>3. <<d>> \o <<v>> = Append(<<d>>, v)
      BY <3>1, <3>2, ConcatSome
    <3>4. Append(<<d>>, v) = <<d, v>>
      BY AppendsTo
    <3> QED
      BY <1>1, <1>10, <3>3, <3>4 DEF CutFrames
  <2>2. Append(<<d, v>>, e) = <<d, v, e>>
    BY AppendsTo
  <2>3. PICK w2, w3 : w2 = SatelliteDoes(w1, v, x) /\ w3 = SatelliteDoes(w2, e, x)
    OBVIOUS
  <2>4. SendUpstream(<<d, v, e>>, x)
    BY <1>1, <2>1, <2>2
  <2>5. sat' = w3.sat /\ toHub' = toHub \o w3.frames
    BY <1>2, <2>3, <2>4, SendsAll
  <2>6. w2 = [sat |-> [s EXCEPT !.events = TRUE], frames |-> t]
    BY <1>1, <1>6, <1>8, <2>3, EventsDone
  <2>7. PICK s2 \in Satellite : s2 = [s EXCEPT !.events = TRUE]
    BY SatHears DEF SatHas
  <2>8. Attached(q \o t, s2, i, x, w3.sat, q \o w3.frames)
    BY <1>1, <2>3, <2>6, <2>7, AttachDone
  <2> QED
    BY <1>3, <1>4, <1>8, <1>10, <2>5, <2>7, <2>8 DEF Restored
<1> QED
  BY <1>9, <1>10

(* A frame of the stream is no answer.                                       *)
\* resolve_pending, resolve_detach_reply: replies are matched by id.
LEMMA ResultsAppend ==
    ASSUME NEW q \in Frames, NEW f \in LinkFrame, NEW n \in Nat, ResultsOK(q, n), f.kind # "Result"
    PROVE  ResultsOK(Append(q, f), n)
<1>1. PICK q2 \in Frames : q2 = Append(q, f)
  BY AppendOf DEF Frames
<1>2. PICK m \in Nat : m = Len(q)
  BY DEF Frames
<1>3. Len(q2) = m + 1 /\ (\A i \in 1 .. m : q2[i] = q[i]) /\ q2[m + 1] = f
  BY <1>1, <1>2, AppendOf DEF Frames
<1>4. ASSUME NEW i \in 1 .. Len(q2), q2[i].kind = "Result" PROVE i \in 1 .. m
  BY <1>3, <1>4
<1> QED
  BY <1>1, <1>2, <1>3, <1>4 DEF ResultsOK

(* An answer under the newest id keeps the answers apart.                    *)
\* resolve_pending, resolve_detach_reply: replies are matched by id.
LEMMA ResultsAnswer ==
    ASSUME NEW q \in Frames, NEW n \in Nat, NEW ok \in BOOLEAN, ResultsOK(q, n)
    PROVE  ResultsOK(Append(q, Result(n, ok)), n + 1)
<1>1. PICK f \in LinkFrame : f = Result(n, ok) /\ f.kind = "Result" /\ f.id = n
  BY FramesAre
<1>2. PICK q2 \in Frames : q2 = Append(q, f)
  BY AppendOf DEF Frames
<1>3. PICK m \in Nat : m = Len(q)
  BY DEF Frames
<1>4. Len(q2) = m + 1 /\ (\A i \in 1 .. m : q2[i] = q[i]) /\ q2[m + 1] = f
  BY <1>2, <1>3, AppendOf DEF Frames
<1>5. \A i \in 1 .. m : q[i].kind = "Result" => q[i].id < n /\ q[i].id \in Nat
  BY <1>3, ElementOf, Kinds DEF ResultsOK, Frames
<1>6. ASSUME NEW i \in 1 .. Len(q2), q2[i].kind = "Result"
      PROVE  q2[i].id < n + 1 /\ \A j \in 1 .. Len(q2) : q2[j].kind = "Result" /\ q2[j].id = q2[i].id => i = j
  <2>1. CASE i = m + 1
    BY <2>1, <1>1, <1>4, <1>5
  <2>2. CASE i \in 1 .. m
    <3>1. q2[i] = q[i] /\ q[i].id < n /\ q[i].id \in Nat
      BY <2>2, <1>4, <1>5, <1>6
    <3>2. ASSUME NEW j \in 1 .. Len(q2), q2[j].kind = "Result", q2[j].id = q2[i].id PROVE i = j
      <4>1. j # m + 1
        BY <3>1, <3>2, <1>1, <1>4
      <4>2. j \in 1 .. m /\ q2[j] = q[j]
        BY <4>1, <1>4
      <4> QED
        BY <4>2, <3>1, <3>2, <2>2, <1>3, <1>6 DEF ResultsOK
    <3> QED
      BY <3>1, <3>2
  <2> QED
    BY <2>1, <2>2, <1>4
<1> QED
  BY <1>1, <1>2, <1>6 DEF ResultsOK

(* Once an answer is taken, no other on its way has its id.                  *)
\* resolve_pending, resolve_detach_reply: replies are matched by id.
LEMMA ResultsTail ==
    ASSUME NEW q \in Frames, q # <<>>, NEW n, ResultsOK(q, n)
    PROVE  /\ ResultsOK(Tail(q), n)
           /\ Head(q).kind = "Result" => \A i \in 1 .. Len(Tail(q)) : Tail(q)[i].kind = "Result" => Tail(q)[i].id # Head(q).id
<1>1. PICK t \in Frames : t = Tail(q)
  BY TailOf DEF Frames
<1>2. PICK m \in Nat, l \in Nat : m = Len(t) /\ l = Len(q) /\ l = m + 1
  BY <1>1, TailOf DEF Frames
<1>3. Head(q) = q[1] /\ \A i \in 1 .. m : i + 1 \in 1 .. l /\ t[i] = q[i + 1]
  BY <1>1, <1>2, TailOf DEF Frames
<1>4. ResultsOK(t, n)
  BY <1>2, <1>3 DEF ResultsOK
<1>5. ASSUME q[1].kind = "Result", NEW i \in 1 .. m, t[i].kind = "Result" PROVE t[i].id # q[1].id
  <2>1. 1 \in 1 .. l /\ i + 1 \in 1 .. l /\ i + 1 # 1
    BY <1>2, <1>3
  <2> QED
    BY <2>1, <1>2, <1>3, <1>5 DEF ResultsOK
<1> QED
  BY <1>1, <1>2, <1>3, <1>4, <1>5

-----------------------------------------------------------------------------
(* The link: a session, a satellite and what is on its way.                  *)

\* Gates are honest; no id is both a command's and a barrier's.
Gateful(s) == \A c \in Subscribed(s) : GateOK(s.subs[c])
Apart(s) == \A p \in s.pending : p.id \notin s.barriers

\* The types of the link, and its ids.
LinkTyped(s, w, q) ==
    s \in Session /\ w \in Satellite /\ q \in Frames /\ Gateful(s) /\ Apart(s) /\ IdsOK(s, q)

\* The hub tells the satellite to stop: the last proxy left, or a cut.
Detaches(s, w, q, a, l, s2, w2, q2) ==
    /\ Has(s2, a, s.pending, s.barriers \cup {s.nextId}, FALSE, l, s.flow, s.nextId + 1)
    /\ SatHas(w2, w.conn, None, None, w.counter, l, w.seq, w.open, w.top, w.reused, w.resynced)
    /\ q2 = Append(q, Result(s.nextId, TRUE))

\* An attach: its registration and what the satellite makes of it.
Attaches(s, w, q, c, seq, x, y, s2, w2, q2) ==
    /\ y \in Subscriber /\ Reregisters(s.subs[c], y, TRUE)
    /\ Has(s2, [s.subs EXCEPT ![c] = y],
           s.pending \cup {[id |-> s.nextId, client |-> c, seq |-> seq, effect |-> Effect(s.subs[c], TRUE)]},
           s.barriers, TRUE, s.legacy, s.flow, s.nextId + 1)
    /\ Attached(q, w, s.nextId, x, w2, q2)

(* A detach keeps the link's types and its ids apart.                        *)
\* encode_terminal_detach.
LEMMA DetachesTyped ==
    ASSUME NEW s, NEW w, NEW q, LinkTyped(s, w, q), NEW a \in Proxies, NEW l \in Flags,
           \A c \in Clients : a[c] # None => GateOK(a[c]),
           NEW s2, NEW w2, NEW q2, Detaches(s, w, q, a, l, s2, w2, q2)
    PROVE  LinkTyped(s2, w2, q2)
<1>1. s \in Session /\ q \in Frames /\ s.nextId \in Nat /\ s.barriers \in Ids /\ s.pending \in Commands
  BY SessionIs DEF LinkTyped
<1>2. s2 \in Session /\ w2 \in Satellite /\ s2.subs = a /\ s2.pending = s.pending
      /\ s2.barriers = s.barriers \cup {s.nextId} /\ s2.nextId = s.nextId + 1
  BY DEF Detaches, Has, SatHas
<1>3. q2 \in Frames /\ ResultsOK(q2, s2.nextId)
  <2>1. PICK n \in Nat : n = s.nextId
    BY <1>1
  <2>2. Result(n, TRUE) \in LinkFrame
    BY FramesAre
  <2>3. ResultsOK(Append(q, Result(n, TRUE)), n + 1)
    BY <1>1, <2>1, ResultsAnswer DEF LinkTyped, IdsOK
  <2>4. Append(q, Result(n, TRUE)) \in Frames
    BY <1>1, <2>2, AppendOf DEF Frames
  <2> QED
    BY <1>2, <2>1, <2>3, <2>4 DEF Detaches
<1>4. Gateful(s2)
  BY <1>2 DEF Gateful, Subscribed
<1>5. \A p \in s.pending : p.id \in Nat /\ p.id < s.nextId /\ p.id \notin s.barriers
  BY <1>1 DEF LinkTyped, IdsOK, Apart, Commands, Relayed
<1>6. Apart(s2)
  BY <1>1, <1>2, <1>5 DEF Apart
<1>7. \A b \in s.barriers : b \in Nat /\ b < s.nextId
  BY <1>1 DEF LinkTyped, IdsOK, Ids
<1>8. IdsOK(s2, q2)
  BY <1>1, <1>2, <1>3, <1>5, <1>7 DEF IdsOK
<1> QED
  BY <1>2, <1>3, <1>4, <1>6, <1>8 DEF LinkTyped

(* A tombstone is a frame of the link and no answer.                         *)
\* establish_generation, on the satellite.
LEMMA ReplacesTyped ==
    ASSUME NEW q \in Frames, NEW reg \in Named, NEW n \in Nat, ResultsOK(q, n)
    PROVE  Replaces(q, reg) \in Frames /\ ResultsOK(Replaces(q, reg), n)
<1>1. CASE reg = None
  BY <1>1 DEF Replaces
<1>2. CASE reg # None
  <2>1. PICK f \in LinkFrame : f = Frame("Tombstone", reg, 0) /\ f.kind = "Tombstone"
    BY <1>2, FramesAre DEF Named
  <2> QED
    BY <2>1, <1>2, AppendOf, ResultsAppend DEF Replaces, Frames
<1> QED
  BY <1>1, <1>2

(* A bootstrap is frames of the link and no answer.                          *)
\* synthesized_bootstrap_frames, on the satellite.
LEMMA AnnouncesTyped ==
    ASSUME NEW q \in Frames, NEW h \in Generations, NEW b \in Nat, NEW n \in Nat, ResultsOK(q, n)
    PROVE  Announces(q, h, b) \in Frames /\ ResultsOK(Announces(q, h, b), n)
<1>1. PICK f \in LinkFrame, r \in LinkFrame :
        f = Frame("Begin", h, b) /\ f.kind = "Begin" /\ r = Frame("Ready", h, b) /\ r.kind = "Ready"
  BY FramesAre
<1>2. PICK q1 \in Frames : q1 = Append(q, f) /\ ResultsOK(q1, n)
  BY <1>1, AppendOf, ResultsAppend DEF Frames
<1>3. Append(q1, r) \in Frames /\ ResultsOK(Append(q1, r), n)
  BY <1>1, <1>2, AppendOf, ResultsAppend DEF Frames
<1> QED
  BY <1>1, <1>2, <1>3 DEF Announces

(* An answer under the newest id is a frame of the link.                     *)
\* resolve_pending, resolve_detach_reply: replies are matched by id.
LEMMA AnswerTyped ==
    ASSUME NEW q \in Frames, NEW n \in Nat, NEW ok \in BOOLEAN, ResultsOK(q, n)
    PROVE  Append(q, Result(n, ok)) \in Frames /\ ResultsOK(Append(q, Result(n, ok)), n + 1)
<1>1. PICK f \in LinkFrame : f = Result(n, ok)
  BY FramesAre
<1> QED
  BY <1>1, AppendOf, ResultsAnswer DEF Frames

(* What the satellite says to an attach are frames of the link with one      *)
(* answer under the newest id.                                               *)
\* establish_generation, on the satellite.
LEMMA AttachedTyped ==
    ASSUME NEW q \in Frames, NEW w \in Satellite, NEW n \in Nat, NEW x \in BOOLEAN, ResultsOK(q, n),
           NEW w2, NEW q2, Attached(q, w, n, x, w2, q2)
    PROVE  w2 \in Satellite /\ q2 \in Frames /\ ResultsOK(q2, n + 1)
<1>1. w.conn \in Nat /\ w.counter \in Nat /\ w.seq \in Nat /\ w.reg \in Named
  BY SatelliteIs
<1>2. <<w.conn, w.counter>> \in Generations
  BY <1>1 DEF Generations
<1>3. PICK h \in Generations, b \in Nat, reg \in Named : h = <<w.conn, w.counter>> /\ b = w.seq /\ reg = w.reg
  BY <1>1, <1>2
<1>4. CASE ~w.open /\ w2 = w /\ q2 = Append(q, Result(n, FALSE))
  BY <1>4, AnswerTyped
<1>5. PICK q1 \in Frames : q1 = Replaces(q, reg) /\ ResultsOK(q1, n)
  BY ReplacesTyped
<1>6. CASE /\ w2 = [w EXCEPT !.gen = None, !.reg = None, !.counter = @ + 1]
           /\ q2 = Append(Replaces(q, w.reg), Result(n, FALSE))
  BY <1>3, <1>5, <1>6, AnswerTyped, SatRefuses DEF SatHas
<1>7. CASE /\ w2 = [Begins(w, <<w.conn, w.counter>>) EXCEPT !.reg = <<w.conn, w.counter>>, !.counter = @ + 1]
           /\ q2 = Append(Announces(Replaces(q, w.reg), <<w.conn, w.counter>>, w.seq), Result(n, TRUE))
  <2>1. PICK q3 \in Frames : q3 = Announces(q1, h, b) /\ ResultsOK(q3, n)
    BY <1>5, AnnouncesTyped
  <2>2. w2 \in Satellite
    BY <1>3, <1>7, SatAttaches DEF SatHas
  <2> QED
    BY <1>3, <1>5, <1>7, <2>1, <2>2, AnswerTyped
<1> QED
  BY <1>4, <1>6, <1>7 DEF Attached

(* An attach keeps the link's types and its ids apart.                       *)
\* handle_request_checked.
LEMMA AttachesTyped ==
    ASSUME NEW s, NEW w, NEW q, LinkTyped(s, w, q), NEW c \in Clients, NEW seq \in Nat, NEW x \in BOOLEAN,
           NEW y, NEW s2, NEW w2, NEW q2, Attaches(s, w, q, c, seq, x, y, s2, w2, q2)
    PROVE  LinkTyped(s2, w2, q2)
<1>1. s \in Session /\ q \in Frames /\ w \in Satellite /\ s.nextId \in Nat /\ s.barriers \in Ids /\ s.pending \in Commands
      /\ s.subs \in Proxies
  BY SessionIs DEF LinkTyped
<1>2. PICK e : e = Effect(s.subs[c], TRUE)
  OBVIOUS
<1>3. PICK p : p = [id |-> s.nextId, client |-> c, seq |-> seq, effect |-> e]
  OBVIOUS
<1>4. p = [id |-> s.nextId, client |-> c, seq |-> seq, effect |-> e] /\ p.id = s.nextId
  BY <1>3
<1>5. s2 \in Session /\ s2.subs = [s.subs EXCEPT ![c] = y] /\ s2.pending = s.pending \cup {p}
      /\ s2.barriers = s.barriers /\ s2.nextId = s.nextId + 1 /\ y \in Subscriber /\ Reregisters(s.subs[c], y, TRUE)
  BY <1>4, <1>2 DEF Attaches, Has
<1>6. q2 \in Frames /\ w2 \in Satellite /\ ResultsOK(q2, s2.nextId)
  <2>1. PICK n \in Nat : n = s.nextId
    BY <1>1
  <2>2. Attached(q, w, n, x, w2, q2)
    BY <2>1 DEF Attaches
  <2> QED
    BY <1>1, <1>5, <2>1, <2>2, AttachedTyped DEF LinkTyped, IdsOK
<1>7. Gateful(s2)
  <2>1. GateOK(y)
    BY <1>5 DEF LinkTyped, Gateful, Subscribed, Reregisters
  <2>2. s2.subs[c] = y /\ \A d \in Clients \ {c} : s2.subs[d] = s.subs[d]
    BY <1>1, <1>5 DEF Proxies
  <2> QED
    BY <2>1, <2>2 DEF LinkTyped, Gateful, Subscribed
<1>8. \A r \in s.pending : r.id \in Nat /\ r.id < s.nextId /\ r.id \notin s.barriers
  BY <1>1 DEF LinkTyped, IdsOK, Apart, Commands, Relayed
<1>9. \A b \in s.barriers : b \in Nat /\ b < s.nextId
  BY <1>1 DEF LinkTyped, IdsOK, Ids
<1>10. PICK n \in Nat : n = s.nextId
  BY <1>1
<1>11. n \notin s.barriers
  BY <1>9, <1>10
<1>12. ASSUME NEW r \in s2.pending PROVE r.id \notin s.barriers /\ r.id < n + 1
  BY <1>5, <1>8, <1>4, <1>10, <1>11, <1>12
<1>13. Apart(s2)
  BY <1>5, <1>12 DEF Apart
<1>14. \A b \in s.barriers : b < n + 1
  BY <1>9, <1>10
<1>15. IdsOK(s2, q2)
  BY <1>5, <1>6, <1>10, <1>12, <1>14 DEF IdsOK
<1> QED
  BY <1>5, <1>6, <1>7, <1>13, <1>15 DEF LinkTyped

-----------------------------------------------------------------------------
(* The type invariant, step by step.                                         *)

\* The parts of the type invariant.
QueueOK ==
    /\ mailbox \in Seq(Request) /\ Len(mailbox) <= MailboxCap
    /\ unsubs \in Seq(Withdrawal) /\ stamp \in Nat

CallerOK ==
    /\ call \in [Clients -> Call \cup {None}] /\ member \in [Clients -> Standing]
    /\ connected \subseteq Clients

SpentOK == spent \in [{"ops", "output", "faults"} -> Nat]

HistoryOK ==
    watchers \subseteq Clients /\ late \subseteq Clients /\ missed \subseteq Clients /\ blamed \in BOOLEAN

MailOK == unread \in [Slow -> 0 .. OutCap] /\ view \in [Clients -> Replica \cup {None}]

LinkIs == up \in BOOLEAN /\ LinkTyped(sess, sat, toHub)

Typed == QueueOK /\ CallerOK /\ SpentOK /\ HistoryOK /\ MailOK /\ LinkIs

(* The type invariant and the order of ids, in the parts that the steps      *)
(* touch.                                                                    *)
\* All of the hub's state.
LEMMA TypedIs ==
    HubTypeOK /\ IdsOK(sess, toHub) <=> Typed
  BY DEF HubTypeOK, Typed, QueueOK, CallerOK, SpentOK, HistoryOK, MailOK, LinkIs, LinkTyped, Frames, Gateful, Apart

(* A bound is used up one at a time.                                         *)
\* A bound of the model.
LEMMA SpendTyped ==
    ASSUME SpentOK, NEW k \in {"ops", "output", "faults"}, Spend(k)
    PROVE  SpentOK'
  BY DEF SpentOK, Spend

(* The room in a consumer's mailbox is what its unread frames leave.         *)
\* tokio::sync::mpsc: try_send.
LEMMA RoomIs ==
    ASSUME MailOK, NEW c \in Clients
    PROVE  /\ Room(c) \in Nat /\ Room(c) <= OutCap
           /\ c \in Slow => unread[c] \in Nat /\ unread[c] + Room(c) = OutCap
  BY HubAssumption DEF MailOK, Room

(* What fits a mailbox is delivered without going past its capacity, and its *)
(* consumer's replica sees it.                                               *)
\* try_send into a consumer's mailbox.
LEMMA DeliveredIs ==
    ASSUME MailOK, NEW sent, \A c \in Clients : sent[c] \in Frames /\ Len(sent[c]) \in Nat /\ Len(sent[c]) <= Room(c),
           Delivered(sent)
    PROVE  MailOK' /\ \A c \in Clients : view'[c] = SeesAll(view[c], sent[c])
<1>1. ASSUME NEW c \in Slow PROVE unread[c] + Len(sent[c]) \in 0 .. OutCap
  <2>1. c \in Clients
    BY HubAssumption
  <2>2. PICK n \in Nat, m \in Nat, k \in Nat : n = unread[c] /\ m = Len(sent[c]) /\ k = Room(c)
    BY <2>1, RoomIs
  <2>3. m <= k /\ n + k = OutCap /\ OutCap \in Nat
    BY <2>1, <2>2, RoomIs, HubAssumption
  <2> QED
    BY <2>2, <2>3
<1>2. ASSUME NEW c \in Clients PROVE SeesAll(view[c], sent[c]) \in Replica \cup {None}
  <2>1. PICK r \in Replica \cup {None}, q \in Seq(LinkFrame) : r = view[c] /\ q = sent[c]
    BY DEF MailOK, Frames
  <2> QED
    BY <2>1, SeesAllTyped
<1>3. unread' \in [Slow -> 0 .. OutCap]
  BY <1>1 DEF Delivered
<1>4. view' = [c \in Clients |-> SeesAll(view[c], sent[c])]
  BY DEF Delivered
<1>5. view' \in [Clients -> Replica \cup {None}]
  BY <1>2, <1>4
<1> QED
  BY <1>3, <1>4, <1>5 DEF MailOK

(* A typed ERROR is queued if there is room, and changes no replica.         *)
\* unreachable_error.
LEMMA NotifiedIs ==
    ASSUME MailOK, NEW cs, Notified(cs)
    PROVE  MailOK' /\ view' = view
<1>1. ASSUME NEW c \in Slow, Room(c) > 0 PROVE unread[c] + 1 \in 0 .. OutCap
  <2>1. c \in Clients
    BY HubAssumption
  <2> QED
    BY <1>1, <2>1, RoomIs, HubAssumption
<1>2. unread' \in [Slow -> 0 .. OutCap]
  BY <1>1 DEF Notified, MailOK
<1> QED
  BY <1>2 DEF Notified, MailOK

(* An answer ends calls and sets standings.                                  *)
\* relay_stream_establishing.
LEMMA AnsweredTyped ==
    ASSUME CallerOK, NEW cs, NEW st, \A c \in Clients : st[c] \in Standing, Answered(cs, st), UNCHANGED connected
    PROVE  CallerOK'
  BY DEF CallerOK, Answered

(* A refusal leaves a consumer its standing before the command.              *)
\* relay_stream_establishing.
LEMMA RefusedTyped ==
    ASSUME CallerOK
    PROVE  \A c \in Clients : Refused[c] = StandsAs(c) /\ Refused[c] \in Standing
<1>1. ASSUME NEW c \in Clients, call[c] # None PROVE call[c].prior \in Standing
  <2>1. call[c] \in Call
    BY <1>1 DEF CallerOK
  <2> QED
    BY <2>1 DEF Call
<1> QED
  BY <1>1 DEF Refused, CallerOK, StandsAs

(* The request at the head of the mailbox.                                   *)
\* RelayMailbox.
LEMMA RequestIs ==
    ASSUME QueueOK, mailbox # <<>>
    PROVE  /\ Head(mailbox).client \in Clients /\ Head(mailbox).seq \in Nat /\ Head(mailbox).kind \in {"Attach", "Events"}
           /\ Tail(mailbox) \in Seq(Request) /\ Len(Tail(mailbox)) <= MailboxCap
<1>1. Head(mailbox) \in Request /\ Tail(mailbox) \in Seq(Request) /\ Len(mailbox) \in Nat /\ Len(Tail(mailbox)) = Len(mailbox) - 1
  BY TailOf DEF QueueOK
<1> QED
  BY <1>1, HubAssumption DEF Request, QueueOK

(* The withdrawal at the head of its channel.                                *)
\* RelayMailbox.
LEMMA WithdrawalIs ==
    ASSUME QueueOK, unsubs # <<>>
    PROVE  /\ Head(unsubs).client \in Clients /\ Head(unsubs).seq \in Nat /\ Head(unsubs).kind \in {"Terminal", "Client"}
           /\ Tail(unsubs) \in Seq(Withdrawal)
<1>1. Head(unsubs) \in Withdrawal /\ Tail(unsubs) \in Seq(Withdrawal)
  BY TailOf DEF QueueOK
<1> QED
  BY <1>1 DEF Withdrawal

(* A step that does not touch the link keeps its types.                      *)
\* The consumers' side shares only the two channels with the link.
LEMMA LinkKept ==
    ASSUME LinkIs, UNCHANGED <<up, sess, sat, toHub>>
    PROVE  LinkIs'
  BY DEF LinkIs

(* A consumer's attach keeps the types.                                      *)
\* command_inner.
LEMMA TypedIssueAttach ==
    ASSUME Typed, NEW c \in Clients, IssueAttach(c)
    PROVE  Typed'
<1>1. SpentOK'
  BY SpendTyped DEF IssueAttach, MayIssue, Typed
<1>2. LinkIs' /\ MailOK' /\ HistoryOK'
  BY LinkKept DEF IssueAttach, linkVars, Typed, MailOK, HistoryOK
<1>3. PICK r \in Request : r = [kind |-> "Attach", client |-> c, seq |-> stamp]
  BY DEF Typed, QueueOK, Request
<1>4. PICK k \in Call : k = [kind |-> "Attach", seq |-> stamp, prior |-> member[c]]
  BY DEF Typed, QueueOK, CallerOK, Call
<1>5. stamp' \in Nat /\ unsubs' = unsubs /\ connected' = connected
  BY DEF IssueAttach, Typed, QueueOK
<1>6. CASE Len(mailbox) < MailboxCap /\ mailbox' = Append(mailbox, r) /\ call' = [call EXCEPT ![c] = k]
           /\ member' = [member EXCEPT ![c] = "In"]
  <2>1. mailbox' \in Seq(Request) /\ Len(mailbox') = Len(mailbox) + 1 /\ Len(mailbox) \in Nat
    BY <1>6, AppendOf DEF Typed, QueueOK
  <2>2. QueueOK'
    BY <2>1, <1>5, <1>6, HubAssumption DEF Typed, QueueOK
  <2>3. CallerOK'
    BY <1>5, <1>6 DEF Typed, CallerOK, Standing
  <2> QED
    BY <1>1, <1>2, <2>2, <2>3 DEF Typed
<1>7. CASE UNCHANGED <<mailbox, call, member>>
  BY <1>1, <1>2, <1>5, <1>7 DEF Typed, QueueOK, CallerOK
<1> QED
  BY <1>3, <1>4, <1>6, <1>7 DEF IssueAttach

(* A consumer's event subscription keeps the types.                          *)
\* subscribe.
LEMMA TypedIssueEvents ==
    ASSUME Typed, NEW c \in Clients, IssueEvents(c)
    PROVE  Typed'
<1>1. SpentOK'
  BY SpendTyped DEF IssueEvents, MayIssue, Typed
<1>2. LinkIs' /\ HistoryOK'
  BY LinkKept DEF IssueEvents, linkVars, Typed, HistoryOK
<1>3. PICK r \in Request : r = [kind |-> "Events", client |-> c, seq |-> stamp]
  BY DEF Typed, QueueOK, Request
<1>4. stamp' \in Nat /\ unsubs' = unsubs /\ connected' = connected /\ call' = call
  BY DEF IssueEvents, Typed, QueueOK
<1>5. CASE Len(mailbox) < MailboxCap /\ mailbox' = Append(mailbox, r)
           /\ member' = [member EXCEPT ![c] = "In"] /\ UNCHANGED <<unread, view>>
  <2>1. mailbox' \in Seq(Request) /\ Len(mailbox') = Len(mailbox) + 1 /\ Len(mailbox) \in Nat
    BY <1>5, AppendOf DEF Typed, QueueOK
  <2>2. QueueOK'
    BY <2>1, <1>4, <1>5, HubAssumption DEF Typed, QueueOK
  <2>3. CallerOK' /\ MailOK'
    BY <1>4, <1>5 DEF Typed, CallerOK, Standing, MailOK
  <2> QED
    BY <1>1, <1>2, <2>2, <2>3 DEF Typed
<1>6. CASE Notified({c}) /\ UNCHANGED <<mailbox, member>>
  BY <1>1, <1>2, <1>4, <1>6, NotifiedIs DEF Typed, QueueOK, CallerOK
<1> QED
  BY <1>3, <1>5, <1>6 DEF IssueEvents

(* A consumer's detach of one terminal keeps the types.                      *)
\* unsubscribe_terminal.
LEMMA TypedIssueDetach ==
    ASSUME Typed, NEW c \in Clients, IssueDetach(c)
    PROVE  Typed'
<1>1. SpentOK'
  BY SpendTyped DEF IssueDetach, MayIssue, Typed
<1>2. LinkIs' /\ HistoryOK' /\ MailOK'
  BY LinkKept DEF IssueDetach, linkVars, Typed, HistoryOK, MailOK
<1>3. PICK r \in Withdrawal : r = [kind |-> "Terminal", client |-> c, seq |-> stamp]
  BY DEF Typed, QueueOK, Withdrawal
<1>4. PICK k \in Call : k = [kind |-> "Detach", seq |-> stamp, prior |-> member[c]]
  BY DEF Typed, QueueOK, CallerOK, Call
<1>5. stamp' \in Nat /\ mailbox' = mailbox /\ connected' = connected /\ member' = member
      /\ unsubs' = Append(unsubs, r) /\ call' = [call EXCEPT ![c] = k]
  BY <1>3, <1>4 DEF IssueDetach, Typed, QueueOK
<1>6. unsubs' \in Seq(Withdrawal)
  BY <1>5, AppendOf DEF Typed, QueueOK
<1>7. QueueOK' /\ CallerOK'
  BY <1>5, <1>6 DEF Typed, QueueOK, CallerOK
<1> QED
  BY <1>1, <1>2, <1>7 DEF Typed

(* A consumer that detaches or goes keeps the types.                         *)
\* detach_and_release_consumer_state.
LEMMA TypedDetachClient ==
    ASSUME Typed, NEW c \in Clients, DetachClient(c)
    PROVE  Typed'
<1>1. SpentOK'
  BY SpendTyped DEF DetachClient, MayIssue, Typed
<1>2. LinkIs' /\ HistoryOK'
  BY LinkKept DEF DetachClient, linkVars, Typed, HistoryOK
<1>3. PICK r \in Withdrawal : r = [kind |-> "Client", client |-> c, seq |-> stamp]
  BY DEF Typed, QueueOK, Withdrawal
<1>4. stamp' = stamp /\ mailbox' = mailbox /\ connected' \subseteq Clients /\ member' = [member EXCEPT ![c] = "Leaving"]
      /\ unsubs' = Append(unsubs, r) /\ call' = call
  BY <1>3 DEF DetachClient, Typed, CallerOK
<1>5. unsubs' \in Seq(Withdrawal)
  BY <1>4, AppendOf DEF Typed, QueueOK
<1>6. QueueOK' /\ CallerOK'
  BY <1>4, <1>5 DEF Typed, QueueOK, CallerOK, Standing
<1>7. MailOK'
  BY HubAssumption DEF DetachClient, Typed, MailOK
<1> QED
  BY <1>1, <1>2, <1>6, <1>7 DEF Typed

(* A call that times out keeps the types.                                    *)
\* RELAY_COMMAND_TIMEOUT, WithdrawalReceipt.
LEMMA TypedTimesOut ==
    ASSUME Typed, NEW c \in Clients, TimesOut(c)
    PROVE  Typed'
<1>1. SpentOK'
  BY SpendTyped DEF TimesOut, Typed
<1>2. LinkIs' /\ HistoryOK' /\ MailOK'
  BY LinkKept DEF TimesOut, linkVars, Typed, HistoryOK, MailOK
<1>3. CallerOK'
  BY AnsweredTyped, RefusedTyped DEF TimesOut, Typed
<1>4. unsubs' \in Seq(Withdrawal)
  <2>1. CASE unsubs' = unsubs
    BY <2>1 DEF Typed, QueueOK
  <2>2. ASSUME NEW i \in DOMAIN unsubs, unsubs' = RemoveAt(unsubs, i) PROVE unsubs' \in Seq(Withdrawal)
    <3>1. PICK q \in Seq(Withdrawal) : q = unsubs
      BY DEF Typed, QueueOK
    <3>2. i \in 1 .. Len(q)
      BY <3>1
    <3> QED
      BY <2>2, <3>1, <3>2, RemoveAtOf
  <2> QED
    BY <2>1, <2>2 DEF TimesOut
<1>5. QueueOK'
  BY <1>4 DEF TimesOut, Typed, QueueOK
<1> QED
  BY <1>1, <1>2, <1>3, <1>5 DEF Typed

(* A consumer that reads keeps the types.                                    *)
\* A consumer's writer task.
LEMMA TypedReads ==
    ASSUME Typed, NEW c \in Clients, Reads(c)
    PROVE  Typed'
<1>1. LinkIs' /\ HistoryOK' /\ SpentOK' /\ QueueOK' /\ CallerOK'
  BY LinkKept DEF Reads, linkVars, handleVars, Typed, HistoryOK, QueueOK, CallerOK, SpentOK
<1>2. c \in Slow /\ unread[c] \in 0 .. OutCap /\ unread[c] > 0
  BY DEF Reads, Typed, MailOK
<1>3. unread[c] - 1 \in 0 .. OutCap
  BY <1>2, HubAssumption
<1>4. MailOK'
  BY <1>2, <1>3 DEF Reads, Typed, MailOK
<1> QED
  BY <1>1, <1>4 DEF Typed

(* Leaving is a detach with the proxies as they are.                         *)
\* encode_withdrawals.
LEMMA LeaveIs ==
    ASSUME NEW s, LinkTyped(s, sat, toHub), Leave(s)
    PROVE  Detaches(s, sat, toHub, s.subs, FALSE, sess', sat', toHub')
<1>1. s \in Session /\ s.nextId \in Nat /\ toHub \in Frames /\ sat \in Satellite
  BY SessionIs DEF LinkTyped
<1>2. PICK n \in Nat : n = s.nextId
  BY <1>1
<1>3. SendUpstream(<<[kind |-> "Detach", id |-> n]>>, FALSE) /\ sess' = DetachUpstream(s)
  BY <1>2 DEF Leave
<1>4. sat' = Silenced(sat) /\ toHub' = Append(toHub, Result(n, TRUE))
  BY <1>1, <1>3, SendsDetach
<1>5. PICK w \in Satellite : w = sat
  BY <1>1
<1>6. SatHas(Silenced(w), w.conn, None, None, w.counter, FALSE, w.seq, w.open, w.top, w.reused, w.resynced)
  BY SatDetached DEF Silenced
<1>7. Has(DetachUpstream(s), s.subs, s.pending, s.barriers \cup {s.nextId}, FALSE, FALSE, s.flow, s.nextId + 1)
  BY <1>1, DetachUpstreamIs
<1> QED
  BY <1>2, <1>3, <1>4, <1>5, <1>6, <1>7 DEF Detaches

(* A withdrawal keeps the link's types and leaves the other proxies.         *)
\* withdraw_terminal, withdraw_client.
LEMMA WithdrawnTyped ==
    ASSUME NEW s, NEW w, NEW q, LinkTyped(s, w, q), NEW c \in Clients
    PROVE  /\ LinkTyped(Withdrawn(s, c), w, q)
           /\ Withdrawn(s, c).subs[c] = None
           /\ \A d \in Clients \ {c} : Withdrawn(s, c).subs[d] = s.subs[d]
           /\ Withdrawn(s, c).pending = s.pending /\ Withdrawn(s, c).barriers = s.barriers
           /\ (Withdrawn(s, c).explicit <=> s.explicit) /\ (Withdrawn(s, c).legacy <=> s.legacy)
           /\ Withdrawn(s, c).flow = s.flow /\ Withdrawn(s, c).nextId = s.nextId
<1>1. s \in Session /\ s.subs \in Proxies
  BY SessionIs DEF LinkTyped
<1>2. PICK t : t = Withdrawn(s, c)
  OBVIOUS
<1>3. Has(t, [s.subs EXCEPT ![c] = None], s.pending, s.barriers, s.explicit, s.legacy, s.flow, s.nextId)
  BY <1>1, <1>2, WithdrawnIs
<1>4. t.subs[c] = None /\ \A d \in Clients \ {c} : t.subs[d] = s.subs[d]
  BY <1>1, <1>3 DEF Has, Proxies
<1>5. LinkTyped(t, w, q)
  BY <1>3, <1>4 DEF Has, LinkTyped, Gateful, Apart, IdsOK, Subscribed
<1> QED
  BY <1>2, <1>3, <1>4, <1>5 DEF Has

(* The satellite after a cut: nothing streams, and events are pushed if the  *)
(* link had subscribed to them.                                              *)
\* prepare_content_cut.
LEMMA RestoredIs ==
    ASSUME NEW w \in Satellite, NEW l \in Flags
    PROVE  SatHas(Restored(w, l), w.conn, None, None, w.counter, l, w.seq, w.open, w.top, w.reused, w.resynced)
<1>1. PICK v \in Satellite : v = Silenced(w)
  BY SatDetached DEF SatHas, Silenced
<1>2. SatHas(v, w.conn, None, None, w.counter, FALSE, w.seq, w.open, w.top, w.reused, w.resynced)
  BY <1>1, SatDetached DEF Silenced
<1>3. CASE l
  <2>1. SatHas([v EXCEPT !.events = TRUE], v.conn, v.gen, v.reg, v.counter, TRUE, v.seq, v.open, v.top, v.reused, v.resynced)
    BY SatHears
  <2> QED
    BY <1>1, <1>2, <1>3, <2>1 DEF SatHas, Restored, Flags
<1>4. CASE ~l
  BY <1>1, <1>2, <1>4 DEF SatHas, Restored, Flags
<1> QED
  BY <1>3, <1>4

\* What an attach is served from: the session, with the cut behind it if one was needed.
CutFirst(s1, w1, q1) ==
    IF NeedsCut(sess) THEN Detaches(sess, sat, toHub, sess.subs, sess.legacy, s1, w1, q1)
    ELSE s1 = sess /\ w1 = sat /\ q1 = toHub

\* An attach is served: x says that the satellite refuses it.
ServedAttach(c, seq, x, s1, w1, q1, y) ==
    /\ CutFirst(s1, w1, q1) /\ LinkTyped(s1, w1, q1)
    /\ Attaches(s1, w1, q1, c, seq, x, y, sess', sat', toHub')
    /\ missed' = IF MidStream(s1, c) THEN missed \cup {c} ELSE missed
    /\ IF x THEN sat.open /\ Spend("faults") ELSE UNCHANGED spent

(* An attach is served as a cut, if one is needed, and a registration with   *)
(* its command; the satellite refuses it or not.                             *)
\* prepare_request, send_relay_request.
LEMMA ServeAttachIs ==
    ASSUME Typed, ServeAttach
    PROVE  \E x \in BOOLEAN : \E s1, w1, q1, y :
                ServedAttach(Head(mailbox).client, Head(mailbox).seq, x, s1, w1, q1, y)
<1>1. PICK c \in Clients, seq \in Nat : c = Head(mailbox).client /\ seq = Head(mailbox).seq
  BY RequestIs DEF ServeAttach, Typed
<1>2. PICK s \in Session, w \in Satellite, q \in Frames :
        s = sess /\ w = sat /\ q = toHub /\ LinkTyped(s, w, q)
  BY DEF Typed, LinkIs, LinkTyped
<1>3. s.nextId \in Nat /\ s.legacy \in BOOLEAN /\ s.subs \in Proxies
  BY SessionIs
<1>4. PICK n \in Nat, l \in BOOLEAN : n = s.nextId /\ l = s.legacy
  BY <1>3
<1>5. PICK s1 : s1 = IF NeedsCut(sess) THEN ContentCut(sess).sess ELSE sess
  OBVIOUS
<1>6. PICK w1, q1 : w1 = (IF NeedsCut(sess) THEN Restored(w, l) ELSE w)
                    /\ q1 = (IF NeedsCut(sess) THEN Append(q, Result(n, TRUE)) ELSE q)
  OBVIOUS
<1>7. CutFirst(s1, w1, q1) /\ LinkTyped(s1, w1, q1)
  <2>1. CASE ~NeedsCut(sess)
    BY <2>1, <1>2, <1>5, <1>6 DEF CutFirst
  <2>2. CASE NeedsCut(sess)
    <3>1. Has(ContentCut(s).sess, s.subs, s.pending, s.barriers \cup {s.nextId}, FALSE, s.legacy, s.flow, s.nextId + 1)
      BY ContentCutIs
    <3>2. SatHas(Restored(w, l), w.conn, None, None, w.counter, l, w.seq, w.open, w.top, w.reused, w.resynced)
      BY RestoredIs DEF Flags
    <3>3. Detaches(s, w, q, s.subs, l, s1, w1, q1)
      BY <1>2, <1>4, <1>5, <1>6, <2>2, <3>1, <3>2 DEF Detaches
    <3>4. \A d \in Clients : s.subs[d] # None => GateOK(s.subs[d])
      BY <1>2 DEF LinkTyped, Gateful, Subscribed
    <3>5. LinkTyped(s1, w1, q1)
      BY <1>2, <1>3, <3>3, <3>4, DetachesTyped DEF Flags
    <3> QED
      BY <1>2, <1>4, <2>2, <3>3, <3>5 DEF CutFirst
  <2> QED
    BY <2>1, <2>2
<1>8. s1 \in Session /\ s1.nextId \in Nat
  BY <1>7, SessionIs DEF LinkTyped
<1>9. sess' = RegisterAttach(s1, c, seq)
  BY <1>1, <1>5 DEF ServeAttach
<1>10. PICK y \in Subscriber :
            /\ Reregisters(s1.subs[c], y, TRUE)
            /\ Has(RegisterAttach(s1, c, seq), [s1.subs EXCEPT ![c] = y],
                   s1.pending \cup {[id |-> s1.nextId, client |-> c, seq |-> seq, effect |-> Effect(s1.subs[c], TRUE)]},
                   s1.barriers, TRUE, s1.legacy, s1.flow, s1.nextId + 1)
  BY <1>8, RegisterAttachIs
<1>11. PICK fr : fr = IF NeedsCut(sess) THEN CutFrames(n, l) ELSE <<>>
  OBVIOUS
<1>12. PICK x \in BOOLEAN :
            /\ IF x THEN sat.open /\ Spend("faults") ELSE UNCHANGED spent
            /\ SendUpstream(Append(fr, [kind |-> "Attach", id |-> s1.nextId]), x)
  <2>1. fr = (IF NeedsCut(sess) THEN ContentCut(sess) ELSE [sess |-> sess, frames |-> <<>>]).frames
    BY <1>2, <1>4, <1>11 DEF ContentCut, CutFrames
  <2>2. s1 = (IF NeedsCut(sess) THEN ContentCut(sess) ELSE [sess |-> sess, frames |-> <<>>]).sess
    BY <1>5
  <2> QED
    BY <2>1, <2>2 DEF ServeAttach
<1>13. PICK k \in Nat : k = s1.nextId
  BY <1>8
<1>14. Attached(q1, w1, s1.nextId, x, sat', toHub')
  <2>1. CASE ~NeedsCut(sess)
    BY <2>1, <1>2, <1>6, <1>11, <1>12, <1>13, SendsAttach
  <2>2. CASE NeedsCut(sess)
    BY <2>2, <1>2, <1>6, <1>11, <1>12, <1>13, SendsCut
  <2> QED
    BY <2>1, <2>2
<1>15. missed' = IF MidStream(s1, c) THEN missed \cup {c} ELSE missed
  <2>1. s1 = (IF NeedsCut(sess) THEN ContentCut(sess) ELSE [sess |-> sess, frames |-> <<>>]).sess
    BY <1>5
  <2> QED
    BY <1>1, <2>1 DEF ServeAttach
<1>16. Attaches(s1, w1, q1, c, seq, x, y, sess', sat', toHub')
  BY <1>9, <1>10, <1>14 DEF Attaches
<1>17. ServedAttach(c, seq, x, s1, w1, q1, y)
  BY <1>7, <1>12, <1>15, <1>16 DEF ServedAttach
<1> QED
  BY <1>1, <1>17

\* The link takes a subscription to events.
ServedEvents(c, y) ==
    /\ y \in Subscriber /\ Reregisters(sess.subs[c], y, FALSE)
    /\ Has(sess', [sess.subs EXCEPT ![c] = y], sess.pending, sess.barriers, sess.explicit, TRUE, sess.flow, sess.nextId)
    /\ SatHas(sat', sat.conn, sat.gen, sat.reg, sat.counter, TRUE, sat.seq, sat.open, sat.top, sat.reused, sat.resynced)
    /\ toHub' = toHub

(* An event subscription registers a proxy and reaches the satellite, which  *)
(* does not answer.                                                          *)
\* subscribe_forward.
LEMMA ServeEventsIs ==
    ASSUME Typed, ServeEvents
    PROVE  \E y : ServedEvents(Head(mailbox).client, y)
<1>1. PICK c \in Clients, seq \in Nat : c = Head(mailbox).client /\ seq = Head(mailbox).seq
  BY RequestIs DEF ServeEvents, Typed
<1>2. PICK s \in Session, w \in Satellite : s = sess /\ w = sat /\ toHub \in Frames
  BY DEF Typed, LinkIs, LinkTyped
<1>3. PICK y \in Subscriber :
            /\ Reregisters(s.subs[c], y, FALSE)
            /\ Has(RegisterEvents(s, c, seq), [s.subs EXCEPT ![c] = y],
                   s.pending, s.barriers, s.explicit, TRUE, s.flow, s.nextId)
  BY RegisterEventsIs
<1>4. sat' = [sat EXCEPT !.events = TRUE] /\ toHub' = toHub
  BY <1>2, SendsEvents DEF ServeEvents
<1>5. SatHas([w EXCEPT !.events = TRUE], w.conn, w.gen, w.reg, w.counter, TRUE, w.seq, w.open, w.top, w.reused, w.resynced)
  BY SatHears
<1>6. sess' = RegisterEvents(s, c, seq)
  BY <1>1, <1>2 DEF ServeEvents
<1>7. ServedEvents(c, y)
  BY <1>2, <1>3, <1>4, <1>5, <1>6 DEF ServedEvents
<1> QED
  BY <1>1, <1>7

(* An event subscription keeps the link's types.                             *)
\* subscribe_forward.
LEMMA ServedEventsTyped ==
    ASSUME LinkTyped(sess, sat, toHub), NEW c \in Clients, NEW y, ServedEvents(c, y)
    PROVE  LinkTyped(sess', sat', toHub')
<1>1. sess' \in Session /\ sess'.subs = [sess.subs EXCEPT ![c] = y] /\ sess'.pending = sess.pending
      /\ sess'.barriers = sess.barriers /\ sess'.nextId = sess.nextId /\ y \in Subscriber
      /\ Reregisters(sess.subs[c], y, FALSE) /\ sat' \in Satellite /\ toHub' = toHub
  BY DEF ServedEvents, Has, SatHas
<1>2. sess.subs \in Proxies
  BY SessionIs DEF LinkTyped
<1>3. GateOK(y)
  BY <1>1 DEF LinkTyped, Gateful, Subscribed, Reregisters
<1>4. sess'.subs[c] = y /\ \A d \in Clients \ {c} : sess'.subs[d] = sess.subs[d]
  BY <1>1, <1>2 DEF Proxies
<1>5. Gateful(sess')
  BY <1>3, <1>4 DEF LinkTyped, Gateful, Subscribed
<1>6. Apart(sess') /\ IdsOK(sess', toHub')
  BY <1>1 DEF LinkTyped, Apart, IdsOK
<1> QED
  BY <1>1, <1>5, <1>6 DEF LinkTyped

(* Taking a frame off the link keeps its types.                              *)
\* handle_inbound.
LEMMA TailTyped ==
    ASSUME NEW s, NEW w, NEW q, LinkTyped(s, w, q), q # <<>>
    PROVE  LinkTyped(s, w, Tail(q)) /\ Head(q) \in LinkFrame
<1>1. q \in Frames
  BY DEF LinkTyped
<1>2. Tail(q) \in Frames /\ Head(q) \in LinkFrame
  BY <1>1, TailOf DEF Frames
<1>3. ResultsOK(Tail(q), s.nextId)
  BY <1>1, ResultsTail DEF LinkTyped, IdsOK
<1> QED
  BY <1>2, <1>3 DEF LinkTyped, IdsOK

(* A session that differs in its proxies and its flow, and lacks some        *)
(* commands or barriers, keeps the link's types.                             *)
\* prune_abandoned, resolve_pending, resolve_detach_reply.
LEMMA FewerTyped ==
    ASSUME NEW s, NEW w, NEW q, LinkTyped(s, w, q), NEW t, t \in Session, Gateful(t),
           t.pending \subseteq s.pending, t.barriers \subseteq s.barriers, t.nextId = s.nextId
    PROVE  LinkTyped(t, w, q)
  BY DEF LinkTyped, Apart, IdsOK

\* What fan_out leaves and sends, for one consumer.
PushedTo(c, f) ==
    IF sess.subs[c] = None THEN Left(None, <<>>)
    ELSE Push(sess.subs[c], f, c \in connected, Room(c))

(* What fan_out leaves of each proxy and sends to its consumer.              *)
\* fan_out.
LEMMA PushedIs ==
    ASSUME Typed, NEW f \in LinkFrame, f.kind # "Result", NEW c \in Clients
    PROVE  /\ Sent(PushedTo(c, f), Room(c))
           /\ sess.subs[c] = None => PushedTo(c, f).sub = None /\ PushedTo(c, f).sent = <<>>
           /\ sess.subs[c] # None =>
                \A r \in Replica \cup {None} : Pushes(PushedTo(c, f), sess.subs[c], f, r)
<1>1. PICK room \in Nat : room = Room(c)
  BY RoomIs DEF Typed
<1>2. PICK alive \in BOOLEAN : alive = (c \in connected)
  <2>1. CASE c \in connected
    <3>1. TRUE = (c \in connected)
      BY <2>1
    <3> QED
      BY <3>1
  <2>2. CASE c \notin connected
    <3>1. FALSE = (c \in connected)
      BY <2>2
    <3> QED
      BY <3>1
  <2> QED
    BY <2>1, <2>2
<1>3. CASE sess.subs[c] = None
  <2>1. PushedTo(c, f) = Left(None, <<>>)
    BY <1>3 DEF PushedTo
  <2>2. PushedTo(c, f).sub = None /\ PushedTo(c, f).sent = <<>>
    BY <2>1, LeftIs
  <2>3. <<>> \in Seq(LinkFrame) /\ Len(<<>>) = 0
    OBVIOUS
  <2>4. Sent(PushedTo(c, f), room)
    BY <2>2, <2>3 DEF Sent
  <2> QED
    BY <2>2, <2>4, <1>1, <1>3
<1>4. CASE sess.subs[c] # None
  <2>1. PICK sub \in Subscriber : sub = sess.subs[c] /\ GateOK(sub)
    BY <1>4, SessionIs DEF Typed, LinkIs, LinkTyped, Gateful, Subscribed, Proxies
  <2>2. PushedTo(c, f) = Push(sub, f, alive, room)
    BY <1>1, <1>2, <1>4, <2>1 DEF PushedTo
  <2>3. /\ Sent(Push(sub, f, alive, room), room)
        /\ \A r \in Replica \cup {None} : Pushes(Push(sub, f, alive, room), sub, f, r)
    BY <2>1, PushIs
  <2> QED
    BY <1>1, <1>4, <2>1, <2>2, <2>3
<1> QED
  BY <1>3, <1>4

\* The proxies after fan_out.
Fanned(f) == [c \in Clients |-> PushedTo(c, f).sub]

(* fan_out makes no proxy and keeps every gate honest.                       *)
\* fan_out.
LEMMA FannedIs ==
    ASSUME Typed, NEW f \in LinkFrame, f.kind # "Result"
    PROVE  Fanned(f) \in Proxies /\ \A c \in Clients : Fanned(f)[c] # None => GateOK(Fanned(f)[c]) /\ sess.subs[c] # None
<1>1. ASSUME NEW c \in Clients PROVE /\ PushedTo(c, f).sub \in Subscriber \cup {None}
                                     /\ PushedTo(c, f).sub # None => GateOK(PushedTo(c, f).sub) /\ sess.subs[c] # None
  BY PushedIs DEF Sent
<1> QED
  BY <1>1 DEF Fanned, Proxies

(* The session, the replicas and the history after a frame was handed on.    *)
\* relay_stream_frame, fan_out.
LEMMA ReceiveStreamIs ==
    ASSUME Typed, NEW f \in LinkFrame, ReceiveStream(f)
    PROVE  /\ IF f.kind = "Closed"
              THEN Has(sess', [c \in Clients |-> None], sess.pending, sess.barriers, FALSE, FALSE,
                       FlowAfter(sess.flow, f), sess.nextId)
              ELSE Has(sess', Fanned(f), sess.pending, sess.barriers, sess.explicit, sess.legacy,
                       FlowAfter(sess.flow, f), sess.nextId)
           /\ MailOK' /\ \A c \in Clients : view'[c] = SeesAll(view[c], PushedTo(c, f).sent)
           /\ missed' = missed \cup {c \in Clients : f.kind = "Output" /\ Fanned(f)[c] # None /\ Fanned(f)[c].openAfter}
<1>1. f.kind # "Result" /\ FlowAccepts(sess.flow, f)
  BY DEF ReceiveStream
<1>2. PICK pushed : pushed = [c \in Clients |-> PushedTo(c, f)]
  OBVIOUS
<1>3. /\ sess' = AfterFrame([sess EXCEPT !.subs = [c \in Clients |-> pushed[c].sub]], f)
      /\ Delivered([c \in Clients |-> pushed[c].sent])
      /\ missed' = missed \cup {c \in Clients :
                f.kind = "Output" /\ pushed[c].sub # None /\ pushed[c].sub.openAfter}
  BY <1>2 DEF ReceiveStream, PushedTo
<1>4. [c \in Clients |-> pushed[c].sub] = Fanned(f) /\ \A c \in Clients : pushed[c].sub = Fanned(f)[c]
  BY <1>2 DEF Fanned
<1>5. PICK a2 \in Proxies : a2 = Fanned(f)
  BY <1>1, FannedIs
<1>6. PICK s \in Session : s = sess /\ FlowAccepts(s.flow, f)
  BY <1>1 DEF Typed, LinkIs, LinkTyped
<1>7. IF f.kind = "Closed"
           THEN Has(AfterFrame([s EXCEPT !.subs = a2], f), [c \in Clients |-> None], s.pending, s.barriers,
                    FALSE, FALSE, FlowAfter(s.flow, f), s.nextId)
           ELSE Has(AfterFrame([s EXCEPT !.subs = a2], f), a2, s.pending, s.barriers,
                    s.explicit, s.legacy, FlowAfter(s.flow, f), s.nextId)
  BY <1>6, AfterFrameIs
<1>8. sess' = AfterFrame([s EXCEPT !.subs = a2], f)
  BY <1>3, <1>4, <1>5, <1>6
<1>9. MailOK' /\ \A c \in Clients : view'[c] = SeesAll(view[c], PushedTo(c, f).sent)
  <2>1. PICK sent : sent = [c \in Clients |-> pushed[c].sent]
    OBVIOUS
  <2>2. \A c \in Clients : sent[c] = PushedTo(c, f).sent
    BY <1>2, <2>1
  <2>3. \A c \in Clients : sent[c] \in Frames /\ Len(sent[c]) \in Nat /\ Len(sent[c]) <= Room(c)
    BY <1>1, <2>2, PushedIs DEF Sent, Frames
  <2>4. Delivered(sent)
    BY <1>3, <2>1
  <2>5. MailOK' /\ \A c \in Clients : view'[c] = SeesAll(view[c], sent[c])
    BY <2>3, <2>4, DeliveredIs DEF Typed
  <2> QED
    BY <2>2, <2>5
<1>10. missed' = missed \cup {c \in Clients : f.kind = "Output" /\ Fanned(f)[c] # None /\ Fanned(f)[c].openAfter}
  BY <1>3, <1>4
<1> QED
  BY <1>5, <1>6, <1>7, <1>8, <1>9, <1>10

(* What the tick leaves of each proxy and sends to its consumer.             *)
\* flush_pending_snapshots.
LEMMA TickFlushIs ==
    ASSUME Typed, NEW c \in Clients
    PROVE  /\ Sent(TickFlush(c), Room(c))
           /\ sess.subs[c] = None => TickFlush(c).sub = None /\ TickFlush(c).sent = <<>>
           /\ sess.subs[c] # None /\ TickFlush(c).sub = None => TickFlush(c).sent = <<>>
           /\ TickFlush(c).sub # None =>
                /\ OpensAfter(TickFlush(c).sub) <=> OpensAfter(sess.subs[c])
                /\ \A r : After(r, TickFlush(c)) = SeesAll(r, sess.subs[c].held)
<1>1. PICK room \in Nat : room = Room(c)
  BY RoomIs DEF Typed
<1>2. PICK alive \in BOOLEAN : alive = (c \in connected)
  <2>1. CASE c \in connected
    <3>1. TRUE = (c \in connected)
      BY <2>1
    <3> QED
      BY <3>1
  <2>2. CASE c \notin connected
    <3>1. FALSE = (c \in connected)
      BY <2>2
    <3> QED
      BY <3>1
  <2> QED
    BY <2>1, <2>2
<1>3. CASE sess.subs[c] = None
  <2>1. TickFlush(c) = Left(None, <<>>)
    BY <1>3 DEF TickFlush
  <2>2. TickFlush(c).sub = None /\ TickFlush(c).sent = <<>>
    BY <2>1, LeftIs
  <2>3. <<>> \in Seq(LinkFrame) /\ Len(<<>>) = 0
    OBVIOUS
  <2>4. Sent(TickFlush(c), room)
    BY <2>2, <2>3 DEF Sent
  <2> QED
    BY <2>2, <2>4, <1>1, <1>3
<1>4. CASE sess.subs[c] # None
  <2>1. PICK sub \in Subscriber : sub = sess.subs[c] /\ GateOK(sub)
    BY <1>4, SessionIs DEF Typed, LinkIs, LinkTyped, Gateful, Subscribed, Proxies
  <2>2. TickFlush(c) = Flush(sub, alive, room)
    BY <1>1, <1>2, <1>4, <2>1 DEF TickFlush
  <2>3. /\ Sent(Flush(sub, alive, room), room)
        /\ Flush(sub, alive, room).sub = None =>
             ~alive /\ sub.gate = "Retained" /\ Flush(sub, alive, room).sent = <<>>
        /\ Flush(sub, alive, room).sub # None =>
             /\ (OpensAfter(Flush(sub, alive, room).sub) <=> OpensAfter(sub))
             /\ \A r : After(r, Flush(sub, alive, room)) = SeesAll(r, sub.held)
    BY <2>1, FlushIs
  <2> QED
    BY <1>1, <1>4, <2>1, <2>2, <2>3
<1> QED
  BY <1>3, <1>4

\* The proxies after a tick.
Ticked == [c \in Clients |-> TickFlush(c).sub]

(* The session and the replicas after a tick.                                *)
\* maintain_relay_session.
LEMMA TickIs ==
    ASSUME Typed, Tick
    PROVE  /\ Has(sess', Ticked, sess.pending \ Abandoned, sess.barriers, sess.explicit, sess.legacy, sess.flow, sess.nextId)
           /\ Ticked \in Proxies /\ \A c \in Clients : Ticked[c] # None => GateOK(Ticked[c]) /\ sess.subs[c] # None
           /\ MailOK' /\ \A c \in Clients : view'[c] = SeesAll(view[c], TickFlush(c).sent)
<1>1. ASSUME NEW c \in Clients PROVE /\ TickFlush(c).sub \in Subscriber \cup {None}
                                     /\ TickFlush(c).sub # None => GateOK(TickFlush(c).sub) /\ sess.subs[c] # None
                                     /\ TickFlush(c).sent \in Frames /\ Len(TickFlush(c).sent) \in Nat
                                     /\ Len(TickFlush(c).sent) <= Room(c)
  BY TickFlushIs DEF Sent, Frames
<1>2. Ticked \in Proxies /\ \A c \in Clients : Ticked[c] # None => GateOK(Ticked[c]) /\ sess.subs[c] # None
  BY <1>1 DEF Ticked, Proxies
<1>3. PICK x : x = Abandoned
  OBVIOUS
<1>4. PICK a2 \in Proxies, s \in Session : a2 = Ticked /\ s = sess /\ x = Abandoned
  BY <1>2, <1>3 DEF Typed, LinkIs, LinkTyped
<1>5. Has([s EXCEPT !.pending = @ \ x, !.subs = a2],
               a2, s.pending \ x, s.barriers, s.explicit, s.legacy, s.flow, s.nextId)
  BY MaintainsIs
<1>6. sess' = [s EXCEPT !.pending = @ \ x, !.subs = a2]
  BY <1>4 DEF Tick, Ticked
<1>7. PICK sent : sent = [c \in Clients |-> TickFlush(c).sent]
  OBVIOUS
<1>8. Delivered(sent) /\ \A c \in Clients : sent[c] = TickFlush(c).sent
  BY <1>7 DEF Tick
<1>9. MailOK' /\ \A c \in Clients : view'[c] = SeesAll(view[c], sent[c])
  BY <1>1, <1>8, DeliveredIs DEF Typed
<1> QED
  BY <1>2, <1>4, <1>5, <1>6, <1>8, <1>9

(* A link without a session has its types.                                   *)
\* teardown.
LEMMA NewSessionTyped ==
    ASSUME NEW w \in Satellite
    PROVE  LinkTyped(NewSession, w, <<>>)
<1>1. <<>> \in Frames /\ ResultsOK(<<>>, 1)
  BY DEF Frames, ResultsOK
<1>2. Gateful(NewSession)
  BY NewSessionIs DEF Gateful, Subscribed
<1> QED
  BY <1>1, <1>2, NewSessionIs DEF LinkTyped, Apart, IdsOK

(* What a lost link leaves: no session, nothing on its way, a satellite that *)
(* waits for a new connection.                                               *)
\* teardown.
LEMMA TeardownIs ==
    ASSUME Typed, Teardown, UNCHANGED connected
    PROVE  /\ up' = FALSE /\ LinkIs' /\ MailOK' /\ view' = view /\ CallerOK' /\ watchers' = {}
           /\ sess' = NewSession /\ toHub' = <<>> /\ LinkTyped(sess', sat', toHub')
           /\ SatHas(sat', sat.conn + 1, None, None, 1, FALSE, sat.seq, sat.open, 0, sat.reused, sat.resynced)
<1>1. PICK w \in Satellite : w = sat
  BY DEF Typed, LinkIs, LinkTyped
<1>2. SatHas(Reconnected(w), w.conn + 1, None, None, 1, FALSE, w.seq, w.open, 0, w.reused, w.resynced)
  BY ReconnectedIs
<1>3. PICK w2 \in Satellite : w2 = sat'
  BY <1>1, <1>2 DEF Teardown, SatHas
<1>4. LinkTyped(NewSession, w2, <<>>)
  BY NewSessionTyped
<1>5. MailOK' /\ view' = view
  BY NotifiedIs DEF Teardown, Typed
<1>6. CallerOK'
  BY AnsweredTyped, RefusedTyped DEF Teardown, Typed
<1> QED
  BY <1>1, <1>2, <1>3, <1>4, <1>5, <1>6 DEF Teardown, LinkIs

(* Consumers are only added to those whose answer overtook a request.        *)
\* History.
LEMMA OverTyped ==
    ASSUME Typed, NEW u, u.client \in Clients, Overtakes(u)
    PROVE  late' \subseteq Clients /\ late \subseteq late'
  BY DEF Overtakes, Typed, HistoryOK

(* Consumers only leave those whose event subscription stands.               *)
\* History.
LEMMA StillTyped ==
    ASSUME Typed, StillSubscribed
    PROVE  watchers' \subseteq Clients /\ watchers' \subseteq watchers
  BY DEF StillSubscribed, Typed, HistoryOK

(* An attach taken from the mailbox keeps the types.                         *)
\* prepare_request, send_relay_request.
LEMMA TypedServeAttach ==
    ASSUME Typed, ServeAttach
    PROVE  Typed'
<1>1. PICK c \in Clients, seq \in Nat : c = Head(mailbox).client /\ seq = Head(mailbox).seq
  BY RequestIs DEF ServeAttach, Typed
<1>2. PICK x \in BOOLEAN : \E s1, w1, q1, y : ServedAttach(c, seq, x, s1, w1, q1, y)
  BY <1>1, ServeAttachIs
<1>3. PICK s1, w1, q1, y : ServedAttach(c, seq, x, s1, w1, q1, y)
  BY <1>2
<1>4. LinkTyped(sess', sat', toHub')
  BY <1>3, AttachesTyped DEF ServedAttach
<1>5. LinkIs'
  BY <1>4 DEF LinkIs, Typed, ServeAttach
<1>6. SpentOK'
  BY <1>3, SpendTyped DEF ServedAttach, Typed, SpentOK
<1>7. QueueOK'
  BY RequestIs DEF ServeAttach, Typed, QueueOK
<1>8. CallerOK'
  BY DEF ServeAttach, Typed, CallerOK
<1>9. HistoryOK'
  BY <1>3 DEF ServeAttach, ServedAttach, Typed, HistoryOK
<1>10. MailOK'
  <2>1. NoReplica \in Replica
    <3>1. NoReplica = Shows(None, 0, {}, 0, FALSE, {})
      <4>1. PICK m : m = MirrorInit(None, None)
        OBVIOUS
      <4>2. PICK t : t = {}
        OBVIOUS
      <4>3. PICK k \in Nat, z \in Nat, e \in BOOLEAN : k = 1 /\ z = 0 /\ e = FALSE /\ t = {}
        BY <4>2
      <4>4. m = [published |-> None, next |-> k, retired |-> t, content |-> z, geometry |-> None, error |-> e]
        BY <4>1, <4>3 DEF MirrorInit
      <4>5. [m EXCEPT !.next = z] = [published |-> None, next |-> z, retired |-> t, content |-> z, geometry |-> None, error |-> e]
        BY <4>4
      <4> QED
        BY <4>1, <4>5, <4>3 DEF NoReplica, Shows
    <3>2. None \in Named /\ {} \in Heard /\ {} \in Staging
      BY DEF Named, Heard, Staging
    <3> QED
      BY <3>1, <3>2, ShownIs
  <2> QED
    BY <1>1, <2>1 DEF ServeAttach, Typed, MailOK
<1> QED
  BY <1>5, <1>6, <1>7, <1>8, <1>9, <1>10 DEF Typed

(* An event subscription taken from the mailbox keeps the types.             *)
\* subscribe_forward.
LEMMA TypedServeEvents ==
    ASSUME Typed, ServeEvents
    PROVE  Typed'
<1>1. PICK c \in Clients : c = Head(mailbox).client
  BY RequestIs DEF ServeEvents, Typed
<1>2. PICK y : ServedEvents(c, y)
  BY <1>1, ServeEventsIs
<1>3. LinkTyped(sess', sat', toHub')
  BY <1>2, ServedEventsTyped DEF Typed, LinkIs
<1>4. LinkIs'
  BY <1>3 DEF LinkIs, Typed, ServeEvents
<1>5. QueueOK'
  BY RequestIs DEF ServeEvents, Typed, QueueOK
<1>6. CallerOK' /\ SpentOK' /\ MailOK'
  BY DEF ServeEvents, Typed, CallerOK, SpentOK, MailOK
<1>7. HistoryOK'
  BY <1>1 DEF ServeEvents, Typed, HistoryOK
<1> QED
  BY <1>4, <1>5, <1>6, <1>7 DEF Typed

(* Leaving or staying keeps the link's types.                                *)
\* encode_withdrawals.
LEMMA LeaveTyped ==
    ASSUME NEW s, LinkTyped(s, sat, toHub), Leave(s) \/ Stay(s)
    PROVE  LinkTyped(sess', sat', toHub')
<1>1. CASE Stay(s)
  BY <1>1 DEF Stay
<1>2. CASE Leave(s)
  <2>1. Detaches(s, sat, toHub, s.subs, FALSE, sess', sat', toHub')
    BY <1>2, LeaveIs
  <2>2. s.subs \in Proxies /\ \A d \in Clients : s.subs[d] # None => GateOK(s.subs[d])
    BY SessionIs DEF LinkTyped, Gateful, Subscribed
  <2>3. PICK a \in Proxies, l \in Flags : a = s.subs /\ l = FALSE
    BY <2>2 DEF Flags
  <2> QED
    BY <2>1, <2>2, <2>3, DetachesTyped
<1> QED
  BY <1>1, <1>2

(* A withdrawal taken from its channel keeps the types.                      *)
\* handle_unsubscribe, apply_terminal_withdrawal.
LEMMA TypedServeDetach ==
    ASSUME Typed, ServeDetach
    PROVE  Typed'
<1>1. PICK c \in Clients : c = Head(unsubs).client
  BY WithdrawalIs DEF ServeDetach, Typed
<1>2. PICK s : s = Withdrawn(sess, c) /\ LinkTyped(s, sat, toHub)
  BY WithdrawnTyped DEF Typed, LinkIs
<1>3. Stay(sess) \/ Leave(s) \/ Stay(s)
  BY <1>1, <1>2 DEF ServeDetach
<1>4. LinkTyped(sess, sat, toHub)
  BY DEF Typed, LinkIs
<1>5. LinkTyped(sess', sat', toHub')
  <2>1. CASE Stay(sess)
    BY <2>1, <1>4, LeaveTyped
  <2>2. CASE Leave(s) \/ Stay(s)
    BY <2>2, <1>2, LeaveTyped
  <2> QED
    BY <1>3, <2>1, <2>2
<1>6. LinkIs'
  BY <1>5 DEF LinkIs, Typed, ServeDetach
<1>7. QueueOK' /\ SpentOK'
  BY WithdrawalIs DEF ServeDetach, Typed, QueueOK, SpentOK
<1>8. CallerOK'
  <2>1. CASE Answered({c}, Refused)
    BY <2>1, AnsweredTyped, RefusedTyped DEF ServeDetach, Typed
  <2>2. CASE Answered({c}, [d \in Clients |-> "Out"])
    <3>1. PICK st : st = [d \in Clients |-> "Out"]
      OBVIOUS
    <3>2. \A d \in Clients : st[d] \in Standing
      BY <3>1 DEF Standing
    <3> QED
      BY <2>2, <3>1, <3>2, AnsweredTyped DEF ServeDetach, Typed
  <2> QED
    BY <1>1, <2>1, <2>2 DEF ServeDetach
<1>9. HistoryOK'
  <2>1. late' \subseteq Clients
    BY <1>1, OverTyped DEF ServeDetach, Typed, HistoryOK
  <2> QED
    BY <2>1, StillTyped DEF ServeDetach, Typed, HistoryOK
<1>10. MailOK'
  BY <1>1 DEF ServeDetach, Typed, MailOK
<1> QED
  BY <1>6, <1>7, <1>8, <1>9, <1>10 DEF Typed

(* The last withdrawal of a consumer that left makes it out.                 *)
\* withdraw_client.
LEMMA GoneTyped ==
    ASSUME CallerOK, NEW c \in Clients, Gone(c), UNCHANGED <<call, connected>>
    PROVE  CallerOK'
  BY DEF CallerOK, Gone, Standing

(* The withdrawal of a whole consumer keeps the types.                       *)
\* handle_unsubscribe, withdraw_client.
LEMMA TypedServeDetachClient ==
    ASSUME Typed, ServeDetachClient
    PROVE  Typed'
<1>1. PICK c \in Clients : c = Head(unsubs).client
  BY WithdrawalIs DEF ServeDetachClient, Typed
<1>2. PICK s : s = Withdrawn(sess, c) /\ LinkTyped(s, sat, toHub)
  BY WithdrawnTyped DEF Typed, LinkIs
<1>3. Leave(s) \/ Stay(s)
  BY <1>1, <1>2 DEF ServeDetachClient
<1>4. LinkTyped(sess', sat', toHub')
  BY <1>2, <1>3, LeaveTyped
<1>5. LinkIs'
  BY <1>4 DEF LinkIs, Typed, ServeDetachClient
<1>6. QueueOK' /\ SpentOK' /\ MailOK'
  BY WithdrawalIs DEF ServeDetachClient, Typed, QueueOK, SpentOK, MailOK
<1>7. CallerOK'
  BY <1>1, GoneTyped DEF ServeDetachClient, Typed
<1>8. HistoryOK'
  <2>1. late' \subseteq Clients
    BY <1>1, OverTyped DEF ServeDetachClient, Typed, HistoryOK
  <2> QED
    BY <2>1, StillTyped DEF ServeDetachClient, Typed, HistoryOK
<1> QED
  BY <1>5, <1>6, <1>7, <1>8 DEF Typed

(* Losing the link keeps the types.                                          *)
\* teardown.
LEMMA TypedTeardown ==
    ASSUME Typed, ReceiveFault \/ LinkLost
    PROVE  Typed' /\ up' = FALSE
<1>1. Teardown /\ UNCHANGED <<mailbox, unsubs, stamp, connected, late, missed>>
  BY DEF ReceiveFault, LinkLost
<1>2. up' = FALSE /\ LinkIs' /\ MailOK' /\ CallerOK' /\ watchers' = {}
  BY <1>1, TeardownIs
<1>3. SpentOK' /\ blamed' \in BOOLEAN
  BY SpendTyped DEF ReceiveFault, LinkLost, Typed, SpentOK, HistoryOK
<1> QED
  BY <1>1, <1>2, <1>3 DEF Typed, QueueOK, HistoryOK

(* The frame taken off the link, and what is behind it.                      *)
\* handle_inbound.
LEMMA ReceiveFrame ==
    ASSUME Typed, toHub # <<>>
    PROVE  Head(toHub) \in LinkFrame /\ LinkTyped(sess, sat, Tail(toHub))
  BY TailTyped DEF Typed, LinkIs

(* A reply settles one command, makes no proxy and keeps every gate honest.  *)
\* resolve_pending.
LEMMA ReplyIs ==
    ASSUME Typed, NEW f \in LinkFrame, f.kind = "Result", NEW p \in sess.pending, sess' = Resolved(sess, p, f.ok)
    PROVE  /\ Resolves(sess, sess', p, f.ok) /\ p \in Relayed /\ f.ok \in BOOLEAN
           /\ sess' \in Session /\ Gateful(sess') /\ sess'.pending = sess.pending \ {p}
           /\ sess'.barriers = sess.barriers /\ sess'.nextId = sess.nextId
           /\ \A d \in Clients : sess'.subs[d] # None => sess.subs[d] # None
<1>1. sess \in Session /\ sess.subs \in Proxies /\ sess.pending \in Commands
  BY SessionIs DEF Typed, LinkIs, LinkTyped
<1>2. PICK ok \in BOOLEAN : ok = f.ok
  BY Kinds
<1>3. Resolves(sess, sess', p, ok)
  BY <1>1, <1>2, ResolvedIs
<1>4. PICK x \in Subscriber \cup {None} :
        /\ IF ok THEN x = sess.subs[p.client] ELSE RollsBack(sess.subs[p.client], x, p.effect)
        /\ Has(sess', [sess.subs EXCEPT ![p.client] = x], sess.pending \ {p}, sess.barriers, sess.explicit, sess.legacy,
               sess.flow, sess.nextId)
  BY <1>3 DEF Resolves
<1>5. p \in Relayed /\ p.client \in Clients
  BY <1>1 DEF Commands, Relayed
<1>6. \A d \in Clients : sess'.subs[d] = IF d = p.client THEN x ELSE sess.subs[d]
  BY <1>1, <1>4, <1>5 DEF Has, Proxies
<1>7. x # None => sess.subs[p.client] # None /\ GateOK(x)
  <2>1. sess.subs[p.client] # None => GateOK(sess.subs[p.client])
    BY <1>5 DEF Typed, LinkIs, LinkTyped, Gateful, Subscribed
  <2> QED
    BY <1>4, <2>1 DEF RollsBack
<1>8. Gateful(sess')
  BY <1>6, <1>7 DEF Gateful, Subscribed, Typed, LinkIs, LinkTyped
<1> QED
  BY <1>2, <1>3, <1>4, <1>5, <1>6, <1>7, <1>8 DEF Has

(* The reply to a detach lifts its barrier.                                  *)
\* resolve_detach_reply.
LEMMA DetachReplyIs ==
    ASSUME Typed, NEW f, sess' = [sess EXCEPT !.barriers = @ \ {f.id}, !.flow = None]
    PROVE  Has(sess', sess.subs, sess.pending, sess.barriers \ {f.id}, sess.explicit, sess.legacy, None, sess.nextId)
<1>1. PICK i : i = f.id
  OBVIOUS
<1>2. PICK s \in Session : s = sess /\ i = f.id
  BY <1>1 DEF Typed, LinkIs, LinkTyped
<1>3. Has([s EXCEPT !.barriers = @ \ {i}, !.flow = None],
               s.subs, s.pending, s.barriers \ {i}, s.explicit, s.legacy, None, s.nextId)
  BY RepliesIs
<1> QED
  BY <1>2, <1>3

(* A frame of the link keeps the types.                                      *)
\* handle_inbound.
LEMMA TypedReceive ==
    ASSUME Typed, Receive
    PROVE  Typed'
<1>1. PICK f \in LinkFrame : f = Head(toHub) /\ LinkTyped(sess, sat, Tail(toHub))
  BY ReceiveFrame DEF Receive
<1>2. toHub' = Tail(toHub) /\ UNCHANGED <<mailbox, unsubs, stamp, connected, up, sat, spent, late, blamed>>
  BY DEF Receive
<1>3. QueueOK' /\ SpentOK'
  BY <1>2 DEF Typed, QueueOK, SpentOK
<1>4. CASE ReceiveDetachReply(f)
  <2>1. Has(sess', sess.subs, sess.pending, sess.barriers \ {f.id}, sess.explicit, sess.legacy, None, sess.nextId)
    BY <1>4, DetachReplyIs DEF ReceiveDetachReply
  <2>2. sess' \in Session /\ Gateful(sess')
    BY <2>1 DEF Has, Gateful, Subscribed, Typed, LinkIs, LinkTyped
  <2>3. LinkTyped(sess', sat, Tail(toHub))
    BY <1>1, <2>1, <2>2, FewerTyped DEF Has
  <2> QED
    BY <1>2, <1>3, <1>4, <2>3 DEF ReceiveDetachReply, NobodyAnswered, Typed, LinkIs, CallerOK, MailOK, HistoryOK
<1>5. CASE ReceiveReply(f)
  <2>1. PICK p \in sess.pending :
          /\ p.id = f.id
          /\ sess' = Resolved(sess, p, f.ok)
          /\ Answered({c \in {p.client} : Waits(c, p.seq)}, IF f.ok THEN member ELSE Refused)
    BY <1>5 DEF ReceiveReply
  <2>2. sess' \in Session /\ Gateful(sess') /\ sess'.pending = sess.pending \ {p}
        /\ sess'.barriers = sess.barriers /\ sess'.nextId = sess.nextId
    BY <1>5, <2>1, ReplyIs DEF ReceiveReply
  <2>3. LinkTyped(sess', sat, Tail(toHub))
    BY <1>1, <2>2, FewerTyped
  <2>4. CallerOK'
    <3>1. PICK cs, st : cs = {c \in {p.client} : Waits(c, p.seq)} /\ st = IF f.ok THEN member ELSE Refused
      OBVIOUS
    <3>2. \A d \in Clients : st[d] \in Standing
      BY <3>1, RefusedTyped DEF Typed, CallerOK
    <3> QED
      BY <1>2, <2>1, <3>1, <3>2, AnsweredTyped DEF Typed
  <2>5. HistoryOK'
    BY <1>2, <1>5, StillTyped DEF ReceiveReply, HistoryOK, Typed
  <2> QED
    BY <1>2, <1>3, <1>5, <2>3, <2>4, <2>5 DEF ReceiveReply, Typed, LinkIs, MailOK
<1>6. CASE ReceiveUnmatched(f) \/ ReceiveFenced(f)
  BY <1>1, <1>2, <1>3, <1>6
  DEF ReceiveUnmatched, ReceiveFenced, NobodyAnswered, Typed, LinkIs, CallerOK, MailOK, HistoryOK
<1>7. CASE ReceiveStream(f)
  <2>1. f.kind # "Result"
    BY <1>7 DEF ReceiveStream
  <2>2. sess' \in Session /\ sess'.pending = sess.pending /\ sess'.barriers = sess.barriers /\ sess'.nextId = sess.nextId
        /\ \A c \in Clients : sess'.subs[c] # None => GateOK(sess'.subs[c])
    <3>1. CASE f.kind = "Closed"
      BY <3>1, <1>7, ReceiveStreamIs DEF Has
    <3>2. CASE f.kind # "Closed"
      BY <3>2, <1>7, <2>1, ReceiveStreamIs, FannedIs DEF Has
    <3> QED
      BY <3>1, <3>2
  <2>3. LinkTyped(sess', sat, Tail(toHub))
    BY <1>1, <2>2, FewerTyped DEF Gateful, Subscribed
  <2>4. MailOK' /\ missed' \subseteq Clients
    BY <1>7, ReceiveStreamIs DEF Typed, HistoryOK
  <2>5. HistoryOK'
    BY <1>2, <1>7, <2>4, StillTyped DEF ReceiveStream, HistoryOK, Typed
  <2> QED
    BY <1>2, <1>3, <1>7, <2>3, <2>4, <2>5 DEF ReceiveStream, NobodyAnswered, Typed, LinkIs, CallerOK
<1> QED
  BY <1>1, <1>4, <1>5, <1>6, <1>7 DEF Receive

(* The tick keeps the types.                                                 *)
\* maintain_relay_session.
LEMMA TypedTick ==
    ASSUME Typed, Tick
    PROVE  Typed'
<1>1. Has(sess', Ticked, sess.pending \ Abandoned, sess.barriers, sess.explicit, sess.legacy, sess.flow, sess.nextId)
      /\ \A c \in Clients : Ticked[c] # None => GateOK(Ticked[c])
  BY TickIs
<1>2. MailOK'
  BY TickIs
<1>3. sess' \in Session /\ Gateful(sess')
  BY <1>1 DEF Has, Gateful, Subscribed
<1>4. LinkTyped(sess', sat, toHub)
  BY <1>1, <1>3, FewerTyped DEF Has, Typed, LinkIs
<1>5. HistoryOK'
  BY StillTyped DEF Tick, HistoryOK, Typed
<1>6. QueueOK' /\ CallerOK' /\ SpentOK'
  BY DEF Tick, handleVars, Typed, QueueOK, CallerOK, SpentOK
<1> QED
  BY <1>2, <1>4, <1>5, <1>6 DEF Tick, Typed, LinkIs

(* A request while the link is down keeps the types.                         *)
\* fail_fast.
LEMMA TypedFailFast ==
    ASSUME Typed, FailFast
    PROVE  Typed'
<1>1. QueueOK'
  BY RequestIs DEF FailFast, Typed, QueueOK
<1>2. LinkIs' /\ SpentOK' /\ HistoryOK' /\ connected' = connected
  BY LinkKept DEF FailFast, linkVars, Typed, SpentOK, HistoryOK
<1>3. PICK r : r = Head(mailbox)
  OBVIOUS
<1>4. CASE Answered({c \in {r.client} : Waits(c, r.seq)}, Refused) /\ UNCHANGED <<unread, view>>
  BY <1>1, <1>2, <1>4, AnsweredTyped, RefusedTyped DEF Typed, MailOK
<1>5. CASE NobodyAnswered /\ Notified({r.client})
  BY <1>1, <1>2, <1>5, NotifiedIs DEF NobodyAnswered, Typed, CallerOK
<1> QED
  BY <1>3, <1>4, <1>5 DEF FailFast

(* A withdrawal while the link is down keeps the types.                      *)
\* run_link, while it dials.
LEMMA TypedDropWithdrawal ==
    ASSUME Typed, DropWithdrawal
    PROVE  Typed'
<1>1. QueueOK'
  BY WithdrawalIs DEF DropWithdrawal, Typed, QueueOK
<1>2. LinkIs' /\ SpentOK' /\ connected' = connected /\ unread' = unread
  BY LinkKept DEF DropWithdrawal, linkVars, Typed, SpentOK
<1>3. PICK c \in Clients : c = Head(unsubs).client
  BY WithdrawalIs DEF DropWithdrawal, Typed
<1>4. HistoryOK'
  BY <1>3, OverTyped DEF DropWithdrawal, Typed, HistoryOK
<1>5. CASE Answered({c}, [d \in Clients |-> "Out"]) /\ view' = [view EXCEPT ![c] = None]
  <2>1. PICK st : st = [d \in Clients |-> "Out"]
    OBVIOUS
  <2>2. \A d \in Clients : st[d] \in Standing
    BY <2>1 DEF Standing
  <2>3. CallerOK'
    BY <1>2, <1>5, <2>1, <2>2, AnsweredTyped DEF Typed
  <2> QED
    BY <1>1, <1>2, <1>4, <1>5, <2>3 DEF Typed, MailOK
<1>6. CASE Gone(c) /\ UNCHANGED <<call, view>>
  BY <1>1, <1>2, <1>3, <1>4, <1>6, GoneTyped DEF Typed, MailOK
<1> QED
  BY <1>3, <1>5, <1>6 DEF DropWithdrawal

(* A new connection keeps the types.                                         *)
\* run_link.
LEMMA TypedRedial ==
    ASSUME Typed, Redial
    PROVE  Typed'
<1>1. LinkTyped(sess', sat', toHub') /\ up' = TRUE
  BY DEF Redial, Typed, LinkIs
<1> QED
  BY <1>1 DEF Redial, handleVars, Typed, LinkIs, QueueOK, CallerOK, SpentOK, HistoryOK, MailOK

(* A frame of the stream behind the rest keeps the link's types.             *)
\* The satellite's end of the connection.
LEMMA AppendTyped ==
    ASSUME NEW s, NEW w, NEW q, LinkTyped(s, w, q), NEW v \in Satellite, NEW f \in LinkFrame, f.kind # "Result"
    PROVE  LinkTyped(s, v, Append(q, f))
<1>1. q \in Frames /\ s.nextId \in Nat
  BY SessionIs DEF LinkTyped
<1>2. Append(q, f) \in Frames
  BY <1>1, AppendOf DEF Frames
<1>3. ResultsOK(Append(q, f), s.nextId)
  BY <1>1, ResultsAppend DEF LinkTyped, IdsOK
<1> QED
  BY <1>2, <1>3 DEF LinkTyped, IdsOK

(* An event and a close are frames of the link.                              *)
\* FrameKind.
LEMMA NotesAre ==
    /\ [kind |-> "Event"] \in LinkFrame /\ [kind |-> "Event"].kind = "Event"
    /\ [kind |-> "Closed"] \in LinkFrame /\ [kind |-> "Closed"].kind = "Closed"
  BY DEF LinkFrame

(* The satellite says one frame: it goes behind the rest.                    *)
\* The satellite's end of the connection.
LEMMA SaysOne ==
    ASSUME Typed, NEW f \in LinkFrame, f.kind # "Result", NEW w \in Satellite, Says(<<f>>, w), SpentOK'
    PROVE  Typed' /\ toHub' = Append(toHub, f)
<1>1. toHub \in Frames
  BY DEF Typed, LinkIs, LinkTyped
<1>2. toHub' = Append(toHub, f) /\ sat' = w
  BY <1>1, ConcatSome DEF Says, Frames
<1>3. LinkTyped(sess', sat', toHub')
  BY <1>2, AppendTyped DEF Typed, LinkIs, Says
<1> QED
  BY <1>2, <1>3 DEF Says, handleVars, Typed, LinkIs, QueueOK, CallerOK, HistoryOK, MailOK

\* The satellite says f.
Speaks(f) == toHub' = Append(toHub, f) /\ f \in LinkFrame

(* Output of the satellite carries its generation and the next sequence      *)
(* number.                                                                   *)
\* forward_live, on the satellite.
LEMMA SatOutputsIs ==
    ASSUME Typed, SatOutputs
    PROVE  /\ Typed' /\ sat.gen \in Generations /\ sat.gen # None
           /\ Speaks(Frame("Output", sat.gen, sat.seq + 1))
           /\ SatHas(sat', sat.conn, sat.gen, sat.reg, sat.counter, sat.events, sat.seq + 1, sat.open, sat.top,
                     sat.reused, sat.resynced)
<1>1. PICK w \in Satellite : w = sat
  BY DEF Typed, LinkIs, LinkTyped
<1>2. SatHas([w EXCEPT !.seq = @ + 1],
                  w.conn, w.gen, w.reg, w.counter, w.events, w.seq + 1, w.open, w.top, w.reused, w.resynced)
  BY SatSpeaks
<1>3. w.gen \in Generations /\ w.seq \in Nat
  BY <1>1, SatelliteIs DEF SatOutputs, Named
<1>4. PICK f \in LinkFrame : f = Frame("Output", w.gen, w.seq + 1) /\ f.kind = "Output"
  <2>1. w.seq + 1 \in Nat
    BY <1>3
  <2> QED
    BY <1>3, <2>1, FramesAre
<1>5. PICK v \in Satellite : v = [w EXCEPT !.seq = @ + 1]
  BY <1>2 DEF SatHas
<1>6. Says(<<f>>, v)
  BY <1>1, <1>4, <1>5 DEF SatOutputs
<1>7. SpentOK'
  BY SpendTyped DEF SatOutputs, Typed
<1>8. Typed' /\ toHub' = Append(toHub, f)
  BY <1>4, <1>6, <1>7, SaysOne
<1> QED
  BY <1>1, <1>2, <1>3, <1>4, <1>5, <1>6, <1>8 DEF Speaks, Says, SatOutputs

(* An event of the satellite.                                                *)
\* The satellite's event push.
LEMMA SatNotesIs ==
    ASSUME Typed, SatNotes
    PROVE  Typed' /\ Speaks([kind |-> "Event"]) /\ sat' = sat
<1>1. PICK w \in Satellite : w = sat
  BY DEF Typed, LinkIs, LinkTyped
<1>2. PICK f \in LinkFrame : f = [kind |-> "Event"] /\ f.kind = "Event"
  BY NotesAre
<1>3. Says(<<f>>, w)
  BY <1>1, <1>2 DEF SatNotes
<1>4. SpentOK'
  BY SpendTyped DEF SatNotes, Typed
<1>5. Typed' /\ toHub' = Append(toHub, f)
  BY <1>2, <1>3, <1>4, SaysOne
<1> QED
  BY <1>1, <1>2, <1>3, <1>5 DEF Speaks, Says

(* A close of the satellite's terminal ends its stream.                      *)
\* reap_terminal, on the satellite.
LEMMA SatClosesIs ==
    ASSUME Typed, SatCloses
    PROVE  /\ Typed' /\ Speaks([kind |-> "Closed"])
           /\ SatHas(sat', sat.conn, None, None, sat.counter, sat.events, sat.seq, FALSE, sat.top, sat.reused, sat.resynced)
<1>1. PICK w \in Satellite : w = sat
  BY DEF Typed, LinkIs, LinkTyped
<1>2. PICK f \in LinkFrame : f = [kind |-> "Closed"] /\ f.kind = "Closed"
  BY NotesAre
<1>3. SatHas([w EXCEPT !.open = FALSE, !.gen = None, !.reg = None],
                  w.conn, None, None, w.counter, w.events, w.seq, FALSE, w.top, w.reused, w.resynced)
  BY SatClosed
<1>4. PICK v \in Satellite : v = [w EXCEPT !.open = FALSE, !.gen = None, !.reg = None]
  BY <1>3 DEF SatHas
<1>5. Says(<<f>>, v)
  BY <1>1, <1>2, <1>4 DEF SatCloses
<1>6. SpentOK'
  BY SpendTyped DEF SatCloses, Typed
<1>7. Typed' /\ toHub' = Append(toHub, f)
  BY <1>2, <1>5, <1>6, SaysOne
<1> QED
  BY <1>1, <1>2, <1>5, <1>7, <1>3, <1>4 DEF Speaks, Says

\* The generation after g.
NextGen(g) == <<g[1], g[2] + 1>>

(* The generation after another, of the same stream.                         *)
\* republish_generation.
LEMMA NextGenIs ==
    ASSUME NEW g \in Generations
    PROVE  NextGen(g) \in Generations /\ g[1] \in Nat /\ g[2] \in Nat /\ NextGen(g)[1] = g[1] /\ NextGen(g)[2] = g[2] + 1
<1>1. g[1] \in Nat /\ g[2] \in Nat
  BY DEF Generations
<1>2. PICK a \in Nat, b \in Nat : a = g[1] /\ b = g[2] + 1
  BY <1>1
<1>3. <<a, b>> \in Generations /\ <<a, b>>[1] = a /\ <<a, b>>[2] = b
  BY DEF Generations
<1> QED
  BY <1>1, <1>2, <1>3 DEF NextGen

(* A resync says the end of one generation and the bootstrap of the next.    *)
\* republish_generation, on the satellite.
LEMMA SatRepublishesIs ==
    ASSUME Typed, SatRepublishes
    PROVE  /\ Typed' /\ sat.gen \in Generations /\ sat.gen # None
           /\ toHub' = Announces(Append(toHub, Frame("Tombstone", sat.gen, 0)), NextGen(sat.gen), sat.seq)
           /\ SatHas(sat', sat.conn, NextGen(sat.gen), sat.reg, sat.counter, sat.events, sat.seq, sat.open,
                     IF NextGen(sat.gen)[1] = sat.conn /\ NextGen(sat.gen)[2] > sat.top THEN NextGen(sat.gen)[2] ELSE sat.top,
                     sat.reused \/ (NextGen(sat.gen)[1] = sat.conn /\ NextGen(sat.gen)[2] <= sat.top), TRUE)
<1>1. PICK w \in Satellite : w = sat
  BY DEF Typed, LinkIs, LinkTyped
<1>2. w.gen \in Generations /\ w.seq \in Nat
  BY <1>1, SatelliteIs DEF SatRepublishes, Named
<1>3. PICK h \in Generations, g \in Generations, n \in Nat : h = NextGen(w.gen) /\ g = w.gen /\ n = w.seq
  BY <1>2, NextGenIs
<1>4. SatHas([Begins(w, h) EXCEPT !.resynced = TRUE], w.conn, h, w.reg,
                  w.counter, w.events, w.seq, w.open,
                  IF h[1] = w.conn /\ h[2] > w.top THEN h[2] ELSE w.top,
                  w.reused \/ (h[1] = w.conn /\ h[2] <= w.top), TRUE)
  BY SatRepublished
<1>5. PICK v \in Satellite : v = [Begins(w, h) EXCEPT !.resynced = TRUE]
  BY <1>4 DEF SatHas
<1>6. PICK f \in LinkFrame, b \in LinkFrame, r \in LinkFrame :
        /\ f = Frame("Tombstone", g, 0) /\ b = Frame("Begin", h, n) /\ r = Frame("Ready", h, n)
        /\ f.kind = "Tombstone" /\ b.kind = "Begin" /\ r.kind = "Ready"
  BY FramesAre
<1>7. PICK q \in Frames : q = toHub
  BY DEF Typed, LinkIs, LinkTyped
<1>8. sat' = v /\ toHub' = toHub \o (<<f>> \o <<b, r>>) /\ up /\ UNCHANGED sess
  BY <1>1, <1>3, <1>5, <1>6 DEF SatRepublishes, Says, Bootstrap, NextGen
<1>9. <<f>> \o <<b, r>> = <<f, b, r>>
  <2>1. <<f>> \in Seq(LinkFrame)
    OBVIOUS
  <2>2. <<f>> \o <<b, r>> = Append(Append(<<f>>, b), r)
    BY <2>1, ConcatSome
  <2> QED
    BY <2>2, AppendsTo
<1>10. q \o <<f, b, r>> = Append(Append(Append(q, f), b), r)
  BY ConcatSome DEF Frames
<1>11. PICK q1 : q1 = Append(q, f) /\ LinkTyped(sess, v, q1)
  BY <1>6, <1>7, AppendTyped DEF Typed, LinkIs
<1>12. PICK q2 : q2 = Append(q1, b) /\ LinkTyped(sess, v, q2)
  BY <1>6, <1>11, AppendTyped
<1>13. PICK q3 : q3 = Append(q2, r) /\ LinkTyped(sess, v, q3)
  BY <1>6, <1>12, AppendTyped
<1>14. toHub' = q3
  BY <1>7, <1>8, <1>9, <1>10, <1>11, <1>12, <1>13
<1>15. LinkIs'
  BY <1>8, <1>13, <1>14 DEF LinkIs, SatRepublishes, Says
<1>16. SpentOK'
  BY SpendTyped DEF SatRepublishes, Typed
<1>17. Typed'
  BY <1>15, <1>16 DEF SatRepublishes, Says, handleVars, Typed, QueueOK, CallerOK, HistoryOK, MailOK
<1>18. q3 = Announces(Append(toHub, Frame("Tombstone", w.gen, 0)), NextGen(w.gen), w.seq)
  BY <1>3, <1>6, <1>7, <1>11, <1>12, <1>13 DEF Announces
<1> QED
  BY <1>1, <1>2, <1>3, <1>4, <1>5, <1>8, <1>14, <1>17, <1>18 DEF SatRepublishes

-----------------------------------------------------------------------------
(* Types in every behaviour.                                                 *)

(* The generation of a SPAWN through the link.                               *)
\* A SPAWN's stream.
LEMMA SpawnIs ==
    /\ SpawnGen \in Generations /\ SpawnGen # None /\ SpawnGen[1] = 0 /\ SpawnGen[2] = 1
  BY NoneAssumption DEF SpawnGen, Generations

(* The satellite at the start.                                               *)
\* The satellite's end of the connection.
LEMMA InitSatellite ==
    ASSUME Init
    PROVE  SatHas(sat, 1, IF Spawned THEN SpawnGen ELSE None, None, 1, FALSE, 0, TRUE, 0, FALSE, FALSE)
<1>1. PICK g \in Named : g = IF Spawned THEN SpawnGen ELSE None
  BY SpawnIs DEF Named
<1>2. PICK one \in Nat, zero \in Nat, no \in Flags, yes \in Flags, none \in Named :
        one = 1 /\ zero = 0 /\ no = FALSE /\ yes = TRUE /\ none = None
  BY DEF Flags, Named
<1>3. SatIs(SatelliteInit, one, none, none, one, no, zero, yes, zero, no, no)
  BY <1>2 DEF SatIs, SatelliteInit
<1>4. PICK s0 : s0 = SatelliteInit
  OBVIOUS
<1>5. SatIs([s0 EXCEPT !.gen = g], one, g, none, one, no, zero, yes, zero, no, no)
  BY <1>3, <1>4, SatSetsGen
<1>6. PICK w : w = [s0 EXCEPT !.gen = g]
  OBVIOUS
<1>7. SatHas(w, one, g, none, one, no, zero, yes, zero, no, no)
  BY <1>5, <1>6, SatelliteHas
<1>8. sat = w
  BY <1>1, <1>4, <1>6 DEF Init
<1> QED
  BY <1>1, <1>2, <1>7, <1>8

(* What is on its way at the start.                                          *)
\* A SPAWN's stream.
LEMMA InitLink ==
    ASSUME Init
    PROVE  toHub = IF Spawned THEN Announces(<<>>, SpawnGen, 0) ELSE <<>>
<1>1. PICK b, r : b = Frame("Begin", SpawnGen, 0) /\ r = Frame("Ready", SpawnGen, 0)
  OBVIOUS
<1>2. Append(<<>>, b) = <<b>> /\ Append(<<b>>, r) = <<b, r>>
  BY AppendsTo
<1> QED
  BY <1>1, <1>2 DEF Init, Announces, Bootstrap

(* The types hold at the start.                                              *)
\* RelayMailbox, RelaySession::new_negotiated.
LEMMA InitTyped == Init => Typed /\ DownOK
<1> SUFFICES ASSUME Init PROVE Typed /\ DownOK
  OBVIOUS
<1>1. sat \in Satellite
  BY InitSatellite DEF SatHas
<1>2. toHub \in Frames /\ ResultsOK(toHub, 1)
  <2>1. <<>> \in Frames /\ ResultsOK(<<>>, 1)
    BY DEF Frames, ResultsOK
  <2>2. Announces(<<>>, SpawnGen, 0) \in Frames /\ ResultsOK(Announces(<<>>, SpawnGen, 0), 1)
    <3>1. PICK q \in Frames, h \in Generations, b \in Nat, n \in Nat : q = <<>> /\ h = SpawnGen /\ b = 0 /\ n = 1
      BY <2>1, SpawnIs
    <3> QED
      BY <2>1, <3>1, AnnouncesTyped
  <2> QED
    BY <2>1, <2>2, InitLink
<1>3. LinkIs
  <2>1. LinkTyped(NewSession, sat, <<>>)
    BY <1>1, NewSessionTyped
  <2> QED
    BY <1>1, <1>2, <2>1, NewSessionIs DEF Init, LinkIs, LinkTyped, IdsOK
<1>4. <<>> \in Seq(Request) /\ <<>> \in Seq(Withdrawal) /\ Len(<<>>) = 0 /\ 0 <= MailboxCap
  BY HubAssumption
<1>5. QueueOK
  BY <1>4 DEF Init, QueueOK
<1>6. QueueOK /\ HistoryOK
  BY <1>5 DEF Init, HistoryOK
<1>7. CallerOK
  BY DEF Init, CallerOK, Standing
<1>8. SpentOK
  BY DEF Init, SpentOK
<1>9. MailOK
  BY HubAssumption DEF Init, MailOK
<1> QED
  BY <1>3, <1>9, <1>6, <1>7, <1>8 DEF Typed, DownOK, Init

(* Every step keeps the types and the order of ids.                          *)
\* The consumers, the supervisor and the satellite.
LEMMA TypedStep == Typed /\ [Next]_vars => Typed'
<1> SUFFICES ASSUME Typed, [Next]_vars PROVE Typed'
  OBVIOUS
<1>1. CASE UNCHANGED vars
  BY <1>1 DEF vars, handleVars, linkVars, Typed, QueueOK, CallerOK, SpentOK, HistoryOK, MailOK, LinkIs
<1>2. ASSUME NEW c \in Clients,
             IssueAttach(c) \/ IssueEvents(c) \/ IssueDetach(c) \/ DetachClient(c) \/ TimesOut(c) \/ Reads(c)
      PROVE  Typed'
  BY <1>2, TypedIssueAttach, TypedIssueEvents, TypedIssueDetach, TypedDetachClient, TypedTimesOut, TypedReads
<1>3. CASE ServeRequest \/ ServeUnsubscribe
  BY <1>3, TypedServeAttach, TypedServeEvents, TypedFailFast, TypedServeDetach, TypedServeDetachClient,
     TypedDropWithdrawal DEF ServeRequest, ServeUnsubscribe
<1>4. CASE Receive \/ ReceiveFault \/ Tick \/ LinkLost \/ Redial
  BY <1>4, TypedReceive, TypedTeardown, TypedTick, TypedRedial
<1>5. CASE SatOutputs \/ SatNotes \/ SatRepublishes \/ SatCloses
  BY <1>5, SatOutputsIs, SatNotesIs, SatRepublishesIs, SatClosesIs
<1> QED
  BY <1>1, <1>2, <1>3, <1>4, <1>5 DEF Next

(* A link that is down has no session and nothing on it.                     *)
\* teardown, run_link.
LEMMA DownStep == Typed /\ DownOK /\ [Next]_vars => DownOK'
<1> SUFFICES ASSUME Typed, DownOK, [Next]_vars PROVE DownOK'
  OBVIOUS
<1>1. CASE UNCHANGED <<up, sess, toHub, sat, watchers>>
  BY <1>1 DEF DownOK
<1>2. CASE up' = TRUE
  BY <1>2 DEF DownOK
<1>3. CASE ReceiveFault \/ LinkLost
  <2>1. Teardown /\ UNCHANGED connected
    BY <1>3 DEF ReceiveFault, LinkLost
  <2> QED
    BY <2>1, TeardownIs DEF DownOK, SatHas
<1>4. CASE UNCHANGED vars
  BY <1>4, <1>1 DEF vars, linkVars
<1>5. ASSUME NEW c \in Clients,
             IssueAttach(c) \/ IssueEvents(c) \/ IssueDetach(c) \/ DetachClient(c) \/ TimesOut(c) \/ Reads(c)
      PROVE  UNCHANGED <<up, sess, toHub, sat, watchers>>
  BY <1>5 DEF IssueAttach, IssueEvents, IssueDetach, DetachClient, TimesOut, Reads, linkVars
<1>6. CASE FailFast \/ DropWithdrawal
  BY <1>6, <1>1 DEF FailFast, DropWithdrawal, linkVars
<1>7. CASE ServeAttach \/ ServeEvents \/ ServeDetach \/ ServeDetachClient
  <2>1. up' = TRUE
    BY <1>7 DEF ServeAttach, ServeEvents, ServeDetach, ServeDetachClient, Typed, LinkIs
  <2> QED
    BY <2>1, <1>2
<1>8. CASE Receive \/ Tick \/ Redial
  <2>1. up' = TRUE
    BY <1>8 DEF Receive, Tick, Redial, Typed, LinkIs
  <2> QED
    BY <2>1, <1>2
<1>9. CASE SatOutputs \/ SatNotes \/ SatRepublishes \/ SatCloses
  <2>1. up' = TRUE
    BY <1>9 DEF SatOutputs, SatNotes, SatRepublishes, SatCloses, Says, Typed, LinkIs
  <2> QED
    BY <2>1, <1>2
<1> QED
  BY <1>1, <1>3, <1>4, <1>5, <1>6, <1>7, <1>8, <1>9 DEF Next, ServeRequest, ServeUnsubscribe

(* In every behaviour the registries have their types, queues stay within    *)
(* their bounds, a gate says whether anything is retained, and an id is a    *)
(* command's or a barrier's.                                                 *)
\* The consumers, the supervisor and the satellite, for any number of
\* consumers and any bounds.
THEOREM TypesHold == Spec => []HubTypeOK
<1>1. Init => Typed
  BY InitTyped
<1>2. Typed /\ [Next]_vars => Typed'
  BY TypedStep
<1>3. Typed => HubTypeOK
  BY TypedIs
<1> QED
  BY <1>1, <1>2, <1>3, PTL DEF Spec

(* In every behaviour a link that is down has no session and nothing on it.  *)
\* teardown, run_link.
LEMMA LinkIsUpOrEmpty == Spec => [](Typed /\ DownOK)
<1>1. Init => Typed /\ DownOK
  BY InitTyped
<1>2. Typed /\ DownOK /\ [Next]_vars => Typed' /\ DownOK'
  BY TypedStep, DownStep
<1> QED
  BY <1>1, <1>2, PTL DEF Spec

-----------------------------------------------------------------------------
(* Events.                                                                   *)

\* The next generation a connection registers, and what an attach makes of the satellite.
OwnGen(w) == <<w.conn, w.counter>>

Refuses(w, w2) ==
    SatHas(w2, w.conn, None, None, w.counter + 1, w.events, w.seq, w.open, w.top, w.reused, w.resynced)

Serves(w, h, w2) ==
    SatHas(w2, w.conn, h, h, w.counter + 1, w.events, w.seq, w.open,
           IF h[1] = w.conn /\ h[2] > w.top THEN h[2] ELSE w.top,
           w.reused \/ (h[1] = w.conn /\ h[2] <= w.top), w.resynced)

\* An attach to a closed terminal, one whose bootstrap fails, and one that is served.
Bounces(q, w, n, w2, q2) == ~w.open /\ w2 = w /\ q2 = Append(q, Result(n, FALSE))

Denies(q, w, n, w2, q2) == w.open /\ Refuses(w, w2) /\ q2 = Append(Replaces(q, w.reg), Result(n, FALSE))

Grants(q, w, n, w2, q2) ==
    /\ w.open /\ Serves(w, OwnGen(w), w2)
    /\ q2 = Append(Announces(Replaces(q, w.reg), OwnGen(w), w.seq), Result(n, TRUE))

(* The next generation a connection registers.                               *)
\* next_bootstrap_id, on the satellite.
LEMMA OwnGenIs ==
    ASSUME NEW w \in Satellite
    PROVE  OwnGen(w) \in Generations /\ OwnGen(w)[1] = w.conn /\ OwnGen(w)[2] = w.counter
<1>1. PICK a \in Nat, b \in Nat : a = w.conn /\ b = w.counter
  BY SatelliteIs
<1>2. <<a, b>> \in Generations /\ <<a, b>>[1] = a /\ <<a, b>>[2] = b
  BY DEF Generations
<1> QED
  BY <1>1, <1>2 DEF OwnGen

(* An attach bounces, is denied or is granted.                               *)
\* establish_generation, on the satellite.
LEMMA AttachedIs ==
    ASSUME NEW q, NEW w \in Satellite, NEW n, NEW x \in BOOLEAN, NEW w2, NEW q2, Attached(q, w, n, x, w2, q2)
    PROVE  Bounces(q, w, n, w2, q2) \/ Denies(q, w, n, w2, q2) \/ Grants(q, w, n, w2, q2)
<1>1. CASE ~w.open /\ w2 = w /\ q2 = Append(q, Result(n, FALSE))
  BY <1>1 DEF Bounces
<1>2. CASE /\ w.open /\ x /\ w2 = [w EXCEPT !.gen = None, !.reg = None, !.counter = @ + 1]
           /\ q2 = Append(Replaces(q, w.reg), Result(n, FALSE))
  BY <1>2, SatRefuses DEF Refuses, Denies
<1>3. CASE /\ w.open /\ ~x /\ w2 = [Begins(w, <<w.conn, w.counter>>) EXCEPT !.reg = <<w.conn, w.counter>>, !.counter = @ + 1]
           /\ q2 = Append(Announces(Replaces(q, w.reg), <<w.conn, w.counter>>, w.seq), Result(n, TRUE))
  <2>1. PICK h \in Generations : h = OwnGen(w)
    BY OwnGenIs
  <2>2. w2 = [Begins(w, h) EXCEPT !.reg = h, !.counter = @ + 1]
    BY <1>3, <2>1 DEF OwnGen
  <2>3. Serves(w, h, w2)
    BY <2>2, SatAttaches DEF Serves
  <2> QED
    BY <1>3, <2>1, <2>3 DEF OwnGen, Grants
<1> QED
  BY <1>1, <1>2, <1>3 DEF Attached

(* An attach does not touch the event subscription.                          *)
\* establish_generation, on the satellite.
LEMMA AttachKeepsEvents ==
    ASSUME NEW q, NEW w \in Satellite, NEW n, NEW x \in BOOLEAN, NEW w2, NEW q2, Attached(q, w, n, x, w2, q2)
    PROVE  w2.events = w.events
<1>1. w2 = w \/ Refuses(w, w2) \/ Serves(w, OwnGen(w), w2)
  BY AttachedIs DEF Bounces, Denies, Grants
<1>2. Refuses(w, w2) => w2.events = w.events
  BY DEF Refuses, SatHas
<1>3. Serves(w, OwnGen(w), w2) => w2.events = w.events
  BY DEF Serves, SatHas
<1> QED
  BY <1>1, <1>2, <1>3

(* An attach keeps the event subscription, through the cut.                  *)
\* prepare_content_cut.
LEMMA EventsServeAttach ==
    ASSUME Typed, EventsOK, ServeAttach
    PROVE  EventsOK'
<1>1. PICK c \in Clients, seq \in Nat : c = Head(mailbox).client /\ seq = Head(mailbox).seq
  BY RequestIs DEF ServeAttach, Typed
<1>2. PICK x \in BOOLEAN : \E s1, w1, q1, y : ServedAttach(c, seq, x, s1, w1, q1, y)
  BY <1>1, ServeAttachIs
<1>3. PICK s1, w1, q1, y : ServedAttach(c, seq, x, s1, w1, q1, y)
  BY <1>2
<1>4. (s1.legacy <=> sess.legacy) /\ (sess.legacy => w1.events) /\ s1.subs = sess.subs /\ w1 \in Satellite
  BY <1>3 DEF ServedAttach, CutFirst, Detaches, Has, SatHas, EventsOK, LinkTyped
<1>5. (sess'.legacy <=> s1.legacy) /\ sess'.subs = [s1.subs EXCEPT ![c] = y] /\ y # None
      /\ Attached(q1, w1, s1.nextId, x, sat', toHub')
  BY <1>3, NoneAssumption DEF ServedAttach, Attaches, Has
<1>6. sat'.events = w1.events
  BY <1>4, <1>5, AttachKeepsEvents
<1>7. sess.subs \in Proxies
  BY SessionIs DEF Typed, LinkIs, LinkTyped
<1>8. Subscribed(sess) \subseteq Subscribed(sess')
  BY <1>4, <1>5, <1>7 DEF Subscribed, Proxies
<1> QED
  BY <1>4, <1>5, <1>6, <1>8 DEF EventsOK, ServeAttach

(* A new subscription is known at both ends.                                 *)
\* subscribe_forward.
LEMMA EventsServeEvents ==
    ASSUME Typed, EventsOK, ServeEvents
    PROVE  EventsOK'
<1>1. PICK c \in Clients : c = Head(mailbox).client
  BY RequestIs DEF ServeEvents, Typed
<1>2. PICK y : ServedEvents(c, y)
  BY <1>1, ServeEventsIs
<1>3. sess'.legacy /\ sat'.events /\ sess'.subs = [sess.subs EXCEPT ![c] = y] /\ y # None
  BY <1>2, NoneAssumption DEF ServedEvents, Has, SatHas
<1>4. sess.subs \in Proxies
  BY SessionIs DEF Typed, LinkIs, LinkTyped
<1>5. Subscribed(sess) \cup {c} \subseteq Subscribed(sess')
  BY <1>3, <1>4 DEF Subscribed, Proxies
<1>6. watchers' = watchers \cup {c}
  BY <1>1 DEF ServeEvents
<1> QED
  BY <1>3, <1>5, <1>6 DEF EventsOK

(* A step after which the consumers that stay subscribed were subscribed.    *)
\* The link's one event subscription, shared by its consumers.
LEMMA EventsStill ==
    ASSUME Typed, EventsOK, StillSubscribed, sess'.legacy => sat'.events,
           watchers' # {} => sess'.legacy
    PROVE  EventsOK'
<1>1. watchers' \subseteq Subscribed(sess')
  BY DEF StillSubscribed, Subscribed, Typed, HistoryOK
<1> QED
  BY <1>1 DEF EventsOK

(* A withdrawal tells the satellite to stop only when no proxy is left.      *)
\* encode_withdrawals.
LEMMA EventsWithdraw ==
    ASSUME Typed, EventsOK, StillSubscribed, NEW s, LinkTyped(s, sat, toHub), s.legacy <=> sess.legacy,
           \/ Leave(s) /\ Subscribed(s) = {}
           \/ Stay(s)
    PROVE  EventsOK'
<1>1. CASE Stay(s)
  BY <1>1, EventsStill DEF Stay, StillSubscribed, EventsOK
<1>2. CASE Leave(s) /\ Subscribed(s) = {}
  <2>1. Detaches(s, sat, toHub, s.subs, FALSE, sess', sat', toHub')
    BY <1>2, LeaveIs
  <2>2. sess'.subs = s.subs /\ ~sess'.legacy
    BY <2>1 DEF Detaches, Has
  <2>3. watchers' = {}
    BY <1>2, <2>2 DEF StillSubscribed, Subscribed, Typed, HistoryOK
  <2> QED
    BY <2>2, <2>3, EventsStill
<1> QED
  BY <1>1, <1>2

(* Withdrawals keep the events of those that stay.                           *)
\* handle_unsubscribe.
LEMMA EventsServeDetach ==
    ASSUME Typed, EventsOK, ServeDetach \/ ServeDetachClient
    PROVE  EventsOK'
<1>1. StillSubscribed /\ unsubs # <<>>
  BY DEF ServeDetach, ServeDetachClient
<1>2. PICK c \in Clients : c = Head(unsubs).client
  BY <1>1, WithdrawalIs DEF Typed
<1>3. PICK s : s = Withdrawn(sess, c) /\ LinkTyped(s, sat, toHub) /\ (s.legacy <=> sess.legacy)
               /\ s.subs[c] = None /\ \A d \in Clients \ {c} : s.subs[d] = sess.subs[d]
  BY WithdrawnTyped DEF Typed, LinkIs
<1>4. Subscribed(sess) = {c} => Subscribed(s) = {}
  BY <1>3 DEF Subscribed
<1>5. Stay(sess) \/ Stay(s) \/ (Leave(s) /\ Subscribed(s) = {})
  BY <1>2, <1>3, <1>4 DEF ServeDetach, ServeDetachClient
<1>6. LinkTyped(sess, sat, toHub)
  BY DEF Typed, LinkIs
<1> QED
  BY <1>1, <1>3, <1>5, <1>6, EventsWithdraw

(* A frame of the link keeps the events of those that stay.                  *)
\* handle_inbound.
LEMMA EventsReceive ==
    ASSUME Typed, EventsOK, Receive
    PROVE  EventsOK'
<1>1. PICK f \in LinkFrame : f = Head(toHub)
  BY ReceiveFrame DEF Receive
<1>2. sat' = sat
  BY DEF Receive
<1>3. CASE ReceiveDetachReply(f)
  <2>1. Has(sess', sess.subs, sess.pending, sess.barriers \ {f.id}, sess.explicit, sess.legacy, None, sess.nextId)
    BY <1>3, DetachReplyIs DEF ReceiveDetachReply
  <2> QED
    BY <1>2, <1>3, <2>1 DEF Has, EventsOK, ReceiveDetachReply, Subscribed
<1>4. CASE ReceiveReply(f)
  <2>1. PICK p \in sess.pending : sess' = Resolved(sess, p, f.ok)
    BY <1>4 DEF ReceiveReply
  <2>2. Resolves(sess, sess', p, f.ok)
    BY <1>4, <2>1, ReplyIs DEF ReceiveReply
  <2>3. sess'.legacy <=> sess.legacy
    BY <2>2 DEF Resolves, Has
  <2> QED
    BY <1>2, <1>4, <2>3, EventsStill DEF ReceiveReply, EventsOK, StillSubscribed
<1>5. CASE ReceiveUnmatched(f) \/ ReceiveFenced(f)
  BY <1>2, <1>5 DEF ReceiveUnmatched, ReceiveFenced, EventsOK
<1>6. CASE ReceiveStream(f)
  <2>0. StillSubscribed
    BY <1>6, Zenon DEF ReceiveStream
  <2>1. CASE f.kind = "Closed"
    <3>1. Has(sess', [c \in Clients |-> None], sess.pending, sess.barriers, FALSE, FALSE,
               FlowAfter(sess.flow, f), sess.nextId)
      BY <1>6, <2>1, ReceiveStreamIs
    <3>2. ~sess'.legacy /\ sess'.subs = [c \in Clients |-> None]
      BY <3>1 DEF Has
    <3>3. watchers' = {c \in watchers : sess'.subs[c] # None} /\ watchers \subseteq Clients
      BY <2>0 DEF StillSubscribed, Typed, HistoryOK
    <3>4. ASSUME NEW c \in watchers' PROVE FALSE
      <4>1. c \in Clients /\ sess'.subs[c] # None
        BY <3>3, <3>4
      <4> QED
        BY <3>2, <4>1
    <3>5. watchers' = {}
      BY <3>4
    <3> QED
      BY <2>0, <3>2, <3>5, EventsStill
  <2>2. CASE f.kind # "Closed"
    <3>1. sess'.legacy <=> sess.legacy
      BY <1>6, <2>2, ReceiveStreamIs DEF Has
    <3> QED
      BY <1>2, <2>0, <3>1, EventsStill DEF EventsOK, StillSubscribed
  <2> QED
    BY <2>1, <2>2
<1> QED
  BY <1>1, <1>3, <1>4, <1>5, <1>6 DEF Receive

(* Every step keeps the agreement about events.                              *)
\* The link's one event subscription, shared by its consumers.
LEMMA EventsStep == Typed /\ EventsOK /\ [Next]_vars => EventsOK'
<1> SUFFICES ASSUME Typed, EventsOK, [Next]_vars PROVE EventsOK'
  OBVIOUS
<1>1. ASSUME UNCHANGED <<sess, sat, watchers>> PROVE EventsOK'
  BY <1>1 DEF EventsOK
<1>2. CASE UNCHANGED vars
  BY <1>1, <1>2 DEF vars, linkVars
<1>3. ASSUME NEW c \in Clients,
             IssueAttach(c) \/ IssueEvents(c) \/ IssueDetach(c) \/ DetachClient(c) \/ TimesOut(c) \/ Reads(c)
      PROVE  EventsOK'
  BY <1>1, <1>3 DEF IssueAttach, IssueEvents, IssueDetach, DetachClient, TimesOut, Reads, linkVars
<1>4. CASE FailFast \/ DropWithdrawal \/ Redial
  BY <1>4, <1>1 DEF FailFast, DropWithdrawal, Redial, linkVars
<1>5. CASE ServeAttach \/ ServeEvents \/ ServeDetach \/ ServeDetachClient
  BY <1>5, EventsServeAttach, EventsServeEvents, EventsServeDetach
<1>6. CASE ReceiveFault \/ LinkLost
  <2>1. Teardown /\ UNCHANGED connected
    BY <1>6 DEF ReceiveFault, LinkLost
  <2> QED
    BY <2>1, TeardownIs, NewSessionIs DEF EventsOK
<1>7. CASE Receive
  BY <1>7, EventsReceive
<1>8. CASE Tick
  <2>1. sess'.legacy <=> sess.legacy
    BY <1>8, TickIs DEF Has
  <2> QED
    BY <1>8, <2>1, EventsStill DEF Tick, EventsOK, StillSubscribed
<1>9. CASE SatOutputs \/ SatNotes \/ SatRepublishes \/ SatCloses
  <2>1. sat'.events = sat.events
    BY <1>9, SatOutputsIs, SatNotesIs, SatRepublishesIs, SatClosesIs DEF SatHas
  <2>2. UNCHANGED <<sess, watchers>>
    BY <1>9 DEF SatOutputs, SatNotes, SatRepublishes, SatCloses, Says
  <2> QED
    BY <2>1, <2>2 DEF EventsOK
<1> QED
  BY <1>2, <1>3, <1>4, <1>5, <1>6, <1>7, <1>8, <1>9 DEF Next, ServeRequest, ServeUnsubscribe

(* In every behaviour the satellite pushes events as long as a consumer that *)
(* subscribed to them is registered: the cut of another consumer's attach    *)
(* and its withdrawal do not end them.                                       *)
\* prepare_content_cut, encode_withdrawals, subscribe_forward.
THEOREM EventsSurvive == Spec => []EventsSurviveTheCut
<1>1. Init => Typed /\ EventsOK
  BY InitTyped, NewSessionIs DEF Init, EventsOK
<1>2. Typed /\ EventsOK /\ [Next]_vars => Typed' /\ EventsOK'
  BY TypedStep, EventsStep
<1>3. EventsOK => EventsSurviveTheCut
  BY DEF EventsOK, EventsSurviveTheCut
<1> QED
  BY <1>1, <1>2, <1>3, PTL DEF Spec

-----------------------------------------------------------------------------
(* Calls.  A queue of which some elements were taken is a part of what it    *)
(* was.                                                                      *)

\* Each element of the first sequence is one of the second, at a place of its own.
Part(q2, q) ==
    \E h \in [1 .. Len(q2) -> 1 .. Len(q)] :
        /\ \A i, j \in 1 .. Len(q2) : h[i] = h[j] => i = j
        /\ \A i \in 1 .. Len(q2) : q2[i] = q[h[i]]

(* A queue is a part of itself.                                              *)
\* Requests and withdrawals are taken in order, cancelled ones from between.
LEMMA PartOfItself ==
    ASSUME NEW q
    PROVE  Part(q, q)
<1>1. PICK h : h = [i \in 1 .. Len(q) |-> i]
  OBVIOUS
<1>2. h \in [1 .. Len(q) -> 1 .. Len(q)] /\ \A i \in 1 .. Len(q) : h[i] = i
  BY <1>1
<1> QED
  BY <1>2 DEF Part

(* The rest of a queue is a part of it.                                      *)
\* Requests and withdrawals are taken in order, cancelled ones from between.
LEMMA TailPart ==
    ASSUME NEW S, NEW q \in Seq(S), q # <<>>
    PROVE  Part(Tail(q), q)
<1>1. PICK m \in Nat : m = Len(Tail(q)) /\ \A i \in 1 .. m : i + 1 \in 1 .. Len(q) /\ Tail(q)[i] = q[i + 1]
  <2>1. Len(Tail(q)) \in Nat
    BY TailOf
  <2> QED
    BY <2>1, TailOf
<1>2. PICK h : h = [i \in 1 .. m |-> i + 1]
  OBVIOUS
<1>3. h \in [1 .. m -> 1 .. Len(q)] /\ \A i \in 1 .. m : h[i] = i + 1
  BY <1>1, <1>2
<1>4. \A i, j \in 1 .. m : h[i] = h[j] => i = j
  BY <1>3
<1> QED
  BY <1>1, <1>3, <1>4 DEF Part

(* What stays behind when the first element goes.                            *)
\* Requests and withdrawals are taken in order, cancelled ones from between.
LEMMA TailKeeps ==
    ASSUME NEW S, NEW q \in Seq(S), NEW i \in 1 .. Len(q), i # 1
    PROVE  \E j \in 1 .. Len(Tail(q)) : Tail(q)[j] = q[i]
<1>1. q # <<>> /\ Len(q) \in Nat
  OBVIOUS
<1>2. Len(Tail(q)) = Len(q) - 1 /\ \A k \in 1 .. Len(Tail(q)) : Tail(q)[k] = q[k + 1]
  BY <1>1, TailOf
<1>3. i - 1 \in 1 .. Len(Tail(q)) /\ (i - 1) + 1 = i
  BY <1>1, <1>2
<1> QED
  BY <1>2, <1>3

(* Where the rest of a queue comes from.                                     *)
\* Requests and withdrawals are taken in order, cancelled ones from between.
LEMMA TailFrom ==
    ASSUME NEW S, NEW q \in Seq(S), q # <<>>, NEW j \in 1 .. Len(Tail(q))
    PROVE  \E i \in 1 .. Len(q) : i # 1 /\ Tail(q)[j] = q[i]
<1>1. j + 1 \in 1 .. Len(q) /\ Tail(q)[j] = q[j + 1]
  BY TailOf
<1> QED
  BY <1>1

(* A queue without one element is a part of it.                              *)
\* Requests and withdrawals are taken in order, cancelled ones from between.
LEMMA RemovePart ==
    ASSUME NEW S, NEW q \in Seq(S), NEW n \in 1 .. Len(q)
    PROVE  Part(RemoveAt(q, n), q)
<1>1. PICK r : r = RemoveAt(q, n)
  OBVIOUS
<1>2. PICK m \in Nat : r = RemoveAt(q, n) /\ m = Len(r) /\ Len(q) = m + 1
                       /\ \A i \in 1 .. m : r[i] = IF i < n THEN q[i] ELSE q[i + 1]
  <2>1. Len(q) \in Nat /\ Len(r) = Len(q) - 1 /\ \A i \in 1 .. Len(q) - 1 : r[i] = IF i < n THEN q[i] ELSE q[i + 1]
    BY <1>1, RemoveAtOf
  <2>2. Len(q) - 1 \in Nat /\ Len(q) = (Len(q) - 1) + 1
    BY <2>1
  <2> QED
    BY <1>1, <2>1, <2>2
<1>3. PICK h : h = [i \in 1 .. m |-> IF i < n THEN i ELSE i + 1]
  OBVIOUS
<1>4. h \in [1 .. m -> 1 .. Len(q)] /\ \A i \in 1 .. m : h[i] = IF i < n THEN i ELSE i + 1
  BY <1>2, <1>3
<1>5. \A i, j \in 1 .. m : h[i] = h[j] => i = j
  BY <1>4
<1>6. \A i \in 1 .. m : r[i] = q[h[i]]
  BY <1>2, <1>4
<1> QED
  BY <1>2, <1>4, <1>5, <1>6 DEF Part

(* What stays behind when one element goes.                                  *)
\* Requests and withdrawals are taken in order, cancelled ones from between.
LEMMA RemoveKeeps ==
    ASSUME NEW S, NEW q \in Seq(S), NEW n \in 1 .. Len(q), NEW i \in 1 .. Len(q), i # n
    PROVE  \E j \in 1 .. Len(RemoveAt(q, n)) : RemoveAt(q, n)[j] = q[i]
<1>1. PICK r : r = RemoveAt(q, n)
  OBVIOUS
<1>2. Len(q) \in Nat /\ Len(r) = Len(q) - 1 /\ \A k \in 1 .. Len(q) - 1 : r[k] = IF k < n THEN q[k] ELSE q[k + 1]
  BY <1>1, RemoveAtOf
<1>3. CASE i < n
  <2>1. i \in 1 .. Len(q) - 1
    BY <1>2, <1>3
  <2> QED
    BY <1>1, <1>2, <1>3, <2>1
<1>4. CASE ~(i < n)
  <2>1. i - 1 \in 1 .. Len(q) - 1 /\ ~(i - 1 < n) /\ (i - 1) + 1 = i
    BY <1>2, <1>4
  <2>2. r[i - 1] = q[i]
    BY <1>2, <2>1
  <2> QED
    BY <1>1, <1>2, <2>1, <2>2
<1> QED
  BY <1>3, <1>4

(* Where a queue without one element comes from.                             *)
\* Requests and withdrawals are taken in order, cancelled ones from between.
LEMMA RemoveFrom ==
    ASSUME NEW S, NEW q \in Seq(S), NEW n \in 1 .. Len(q), NEW j \in 1 .. Len(RemoveAt(q, n))
    PROVE  \E i \in 1 .. Len(q) : i # n /\ RemoveAt(q, n)[j] = q[i]
<1>1. PICK r : r = RemoveAt(q, n)
  OBVIOUS
<1>2. Len(q) \in Nat /\ Len(r) = Len(q) - 1 /\ \A k \in 1 .. Len(q) - 1 : r[k] = IF k < n THEN q[k] ELSE q[k + 1]
  BY <1>1, RemoveAtOf
<1>3. j \in 1 .. Len(q) - 1 /\ j \in 1 .. Len(q) /\ j + 1 \in 1 .. Len(q)
  BY <1>1, <1>2
<1> QED
  BY <1>1, <1>2, <1>3

(* Where an element of a part comes from.                                    *)
\* Requests and withdrawals are taken in order, cancelled ones from between.
LEMMA PartFrom ==
    ASSUME NEW q2, NEW q, Part(q2, q), NEW i \in 1 .. Len(q2)
    PROVE  \E k \in 1 .. Len(q) : q2[i] = q[k]
  BY DEF Part

(* The elements of the two channels, the commands in flight and the calls,   *)
(* field by field.                                                           *)
\* RelayMailbox, PendingCommand.
LEMMA QueueIs ==
    ASSUME Typed
    PROVE  /\ \A i \in 1 .. Len(mailbox) : mailbox[i].client \in Clients /\ mailbox[i].seq \in Nat
                                            /\ mailbox[i].kind \in {"Attach", "Events"}
           /\ \A i \in 1 .. Len(unsubs) : unsubs[i].client \in Clients /\ unsubs[i].seq \in Nat
                                           /\ unsubs[i].kind \in {"Terminal", "Client"}
           /\ \A p \in sess.pending : p.client \in Clients /\ p.seq \in Nat
           /\ stamp \in Nat
           /\ \A c \in Clients : call[c] # None => call[c].seq \in Nat /\ call[c].kind \in {"Attach", "Detach"}
<1>1. ASSUME NEW i \in 1 .. Len(mailbox) PROVE mailbox[i] \in Request
  BY <1>1, ElementOf DEF Typed, QueueOK
<1>2. ASSUME NEW i \in 1 .. Len(unsubs) PROVE unsubs[i] \in Withdrawal
  BY <1>2, ElementOf DEF Typed, QueueOK
<1>3. \A p \in sess.pending : p \in Relayed
  BY SessionIs DEF Typed, LinkIs, LinkTyped, Commands
<1>4. \A c \in Clients : call[c] # None => call[c] \in Call
  BY DEF Typed, CallerOK
<1>5. \A i \in 1 .. Len(mailbox) : mailbox[i].client \in Clients /\ mailbox[i].seq \in Nat
                                  /\ mailbox[i].kind \in {"Attach", "Events"}
  BY <1>1 DEF Request
<1>6. \A i \in 1 .. Len(unsubs) : unsubs[i].client \in Clients /\ unsubs[i].seq \in Nat
                                 /\ unsubs[i].kind \in {"Terminal", "Client"}
  BY <1>2 DEF Withdrawal
<1>7. \A p \in sess.pending : p.client \in Clients /\ p.seq \in Nat
  BY <1>3 DEF Relayed
<1>8. \A c \in Clients : call[c] # None => call[c].seq \in Nat /\ call[c].kind \in {"Attach", "Detach"}
  BY <1>4 DEF Call
<1> QED
  BY <1>5, <1>6, <1>7, <1>8 DEF Typed, QueueOK

-----------------------------------------------------------------------------
\* What is known of the calls.
Called == StampsOK /\ CallsOK /\ WaitedOK /\ OutOK

\* Waits, after the step.
WaitsNow(c, n) == call'[c] # None /\ call'[c].seq = n

\* The queues, the commands at the link and the calls only get fewer.
Fewer ==
    /\ Part(mailbox', mailbox) /\ Part(unsubs', unsubs)
    /\ sess'.pending \subseteq sess.pending /\ stamp' = stamp
    /\ \A c \in Clients : call'[c] = None \/ call'[c] = call[c]

(* Tokens stay unique when there are fewer.                                  *)
\* Steps that only take requests, withdrawals, commands and calls away.
LEMMA StampsFewer ==
    ASSUME Typed, Typed', StampsOK, Fewer
    PROVE  StampsOK'
<1>1. PICK h \in [1 .. Len(mailbox') -> 1 .. Len(mailbox)] :
        /\ \A i, j \in 1 .. Len(mailbox') : h[i] = h[j] => i = j
        /\ \A i \in 1 .. Len(mailbox') : mailbox'[i] = mailbox[h[i]]
  BY DEF Fewer, Part
<1>2. PICK g \in [1 .. Len(unsubs') -> 1 .. Len(unsubs)] :
        /\ \A i, j \in 1 .. Len(unsubs') : g[i] = g[j] => i = j
        /\ \A i \in 1 .. Len(unsubs') : unsubs'[i] = unsubs[g[i]]
  BY DEF Fewer, Part
<1>3. MailStamps'
  <2>1. ASSUME NEW i \in 1 .. Len(mailbox')
        PROVE  mailbox'[i].seq < stamp' /\ \A j \in 1 .. Len(mailbox') : mailbox'[j].seq = mailbox'[i].seq => i = j
    <3>1. h[i] \in 1 .. Len(mailbox) /\ mailbox'[i] = mailbox[h[i]]
      BY <1>1
    <3>2. mailbox[h[i]].seq < stamp /\ \A k \in 1 .. Len(mailbox) : mailbox[k].seq = mailbox[h[i]].seq => h[i] = k
      BY <3>1 DEF StampsOK, MailStamps
    <3>3. ASSUME NEW j \in 1 .. Len(mailbox'), mailbox'[j].seq = mailbox'[i].seq PROVE i = j
      BY <1>1, <3>1, <3>2, <3>3
    <3> QED
      BY <3>1, <3>2, <3>3 DEF Fewer
  <2> QED
    BY <2>1 DEF MailStamps
<1>4. PendingStamps'
  <2>1. ASSUME NEW p \in sess'.pending
        PROVE  /\ p.seq < stamp' /\ \A q \in sess'.pending : q.seq = p.seq => q = p
               /\ \A i \in 1 .. Len(mailbox') : mailbox'[i].seq # p.seq
    <3>1. p \in sess.pending /\ sess'.pending \subseteq sess.pending /\ stamp' = stamp
      BY DEF Fewer
    <3>2. ASSUME NEW i \in 1 .. Len(mailbox') PROVE mailbox'[i].seq # p.seq
      BY <1>1, <3>1 DEF StampsOK, PendingStamps
    <3> QED
      BY <3>1, <3>2 DEF StampsOK, PendingStamps
  <2> QED
    BY <2>1 DEF PendingStamps
<1>5. WithdrawalStamps'
  <2>1. ASSUME NEW i \in 1 .. Len(unsubs'), NEW j \in 1 .. Len(unsubs'), Detaching(unsubs'[i]), Detaching(unsubs'[j]),
               unsubs'[j].seq = unsubs'[i].seq
        PROVE  i = j
    <3>1. g[i] \in 1 .. Len(unsubs) /\ g[j] \in 1 .. Len(unsubs) /\ unsubs'[i] = unsubs[g[i]] /\ unsubs'[j] = unsubs[g[j]]
      BY <1>2
    <3>2. g[i] = g[j]
      BY <2>1, <3>1 DEF StampsOK, WithdrawalStamps
    <3> QED
      BY <1>2, <3>2
  <2> QED
    BY <2>1 DEF WithdrawalStamps, Detaching
<1>6. CallStamps'
  BY DEF StampsOK, CallStamps, Fewer
<1> QED
  BY <1>3, <1>4, <1>5, <1>6 DEF StampsOK

(* A queued or relayed attach that is waited for still is an attach.         *)
\* Steps that only take requests, withdrawals, commands and calls away.
LEMMA MailCallsFewer ==
    ASSUME Typed, Typed', CallsOK, Fewer
    PROVE  MailCalls' /\ PendingCalls'
<1>1. MailCalls'
  <2>1. ASSUME NEW i \in 1 .. Len(mailbox'), WaitsNow(mailbox'[i].client, mailbox'[i].seq)
        PROVE  mailbox'[i].kind = "Attach" /\ call'[mailbox'[i].client].kind = "Attach"
    <3>1. PICK k \in 1 .. Len(mailbox) : mailbox'[i] = mailbox[k]
      BY PartFrom DEF Fewer
    <3>2. PICK c \in Clients : c = mailbox[k].client
      BY QueueIs
    <3>3. call'[c] = call[c] /\ Waits(c, mailbox[k].seq)
      BY <2>1, <3>1, <3>2 DEF Fewer, Waits, WaitsNow
    <3> QED
      BY <3>1, <3>2, <3>3 DEF CallsOK, MailCalls
  <2> QED
    BY <2>1 DEF MailCalls, Waits, WaitsNow
<1>2. PendingCalls'
  <2>1. ASSUME NEW p \in sess'.pending, WaitsNow(p.client, p.seq) PROVE call'[p.client].kind = "Attach"
    <3>1. p \in sess.pending /\ p.client \in Clients
      BY QueueIs DEF Fewer
    <3>2. call'[p.client] = call[p.client] /\ Waits(p.client, p.seq)
      BY <2>1, <3>1 DEF Fewer, Waits, WaitsNow
    <3> QED
      BY <3>1, <3>2 DEF CallsOK, PendingCalls
  <2> QED
    BY <2>1 DEF PendingCalls, Waits, WaitsNow
<1> QED
  BY <1>1, <1>2

(* The withdrawals left are those of consumers that still wait.              *)
\* Steps that only take requests, withdrawals, commands and calls away.
LEMMA PlacesFewer ==
    ASSUME Typed, Typed', CallsOK, Fewer,
           \A c \in Clients : call'[c] # None /\ member[c] = "In" => member'[c] = "In",
           \A j \in 1 .. Len(unsubs') : Detaching(unsubs'[j]) => call'[unsubs'[j].client] # None,
           \A i \in 1 .. Len(unsubs) : Detaching(unsubs[i]) /\ call'[unsubs[i].client] # None
                => \E j \in 1 .. Len(unsubs') : unsubs'[j] = unsubs[i]
    PROVE  WithdrawalCalls' /\ CallPlaces'
<1>1. WithdrawalCalls'
  <2>1. ASSUME NEW j \in 1 .. Len(unsubs'), Detaching(unsubs'[j])
        PROVE  WaitsNow(unsubs'[j].client, unsubs'[j].seq) /\ call'[unsubs'[j].client].kind = "Detach"
    <3>1. PICK k \in 1 .. Len(unsubs) : unsubs'[j] = unsubs[k]
      BY PartFrom DEF Fewer
    <3>2. PICK c \in Clients : c = unsubs[k].client
      BY QueueIs
    <3>3. call'[c] = call[c]
      BY <2>1, <3>1, <3>2 DEF Fewer
    <3>4. Waits(c, unsubs[k].seq) /\ call[c].kind = "Detach"
      BY <2>1, <3>1, <3>2 DEF CallsOK, WithdrawalCalls
    <3> QED
      BY <3>1, <3>2, <3>3, <3>4 DEF Waits, WaitsNow
  <2> QED
    BY <2>1 DEF WithdrawalCalls, Detaching, Waits, WaitsNow
<1>2. ASSUME NEW c \in Clients, call'[c] # None
      PROVE  /\ \A i \in 1 .. Len(mailbox') : mailbox'[i].client = c => mailbox'[i].seq <= call'[c].seq
             /\ call'[c].kind = "Attach" => member'[c] = "In"
             /\ call'[c].kind = "Detach" =>
                \E i \in 1 .. Len(unsubs') : Detaching(unsubs'[i]) /\ unsubs'[i].client = c
  <2>1. call'[c] = call[c] /\ call[c] # None
    BY <1>2 DEF Fewer
  <2>2. \A i \in 1 .. Len(mailbox') : mailbox'[i].client = c => mailbox'[i].seq <= call'[c].seq
    BY <2>1, PartFrom DEF CallsOK, CallPlaces, Fewer
  <2>3. call'[c].kind = "Attach" => member'[c] = "In"
    BY <1>2, <2>1 DEF CallsOK, CallPlaces
  <2>4. call'[c].kind = "Detach" =>
                \E i \in 1 .. Len(unsubs') : Detaching(unsubs'[i]) /\ unsubs'[i].client = c
    BY <1>2, <2>1 DEF CallsOK, CallPlaces
  <2> QED
    BY <2>2, <2>3, <2>4
<1>3. CallPlaces'
  BY <1>2 DEF CallPlaces
<1> QED
  BY <1>1, <1>3

(* Unless an answer overtook it, what is left of a consumer's requests is    *)
(* waited for.                                                               *)
\* Steps that only take requests, withdrawals, commands and calls away.
LEMMA WaitedFewer ==
    ASSUME Typed, Typed', WaitedOK, Fewer, late \subseteq late',
           \A c \in Clients \ late' : call'[c] = call[c] \/
                /\ \A i \in 1 .. Len(mailbox') : mailbox'[i].client = c => mailbox'[i].kind # "Attach"
                /\ \A p \in sess'.pending : p.client # c
    PROVE  WaitedOK'
<1>1. MailWaited'
  <2>1. ASSUME NEW i \in 1 .. Len(mailbox'), mailbox'[i].client \notin late', mailbox'[i].kind = "Attach"
        PROVE  WaitsNow(mailbox'[i].client, mailbox'[i].seq)
    <3>1. PICK k \in 1 .. Len(mailbox) : mailbox'[i] = mailbox[k]
      BY PartFrom DEF Fewer
    <3>2. PICK c \in Clients : c = mailbox[k].client
      BY QueueIs
    <3>3. call'[c] = call[c]
      BY <2>1, <3>1, <3>2
    <3>4. Waits(c, mailbox[k].seq)
      BY <2>1, <3>1, <3>2 DEF WaitedOK, MailWaited
    <3> QED
      BY <3>1, <3>2, <3>3, <3>4 DEF Waits, WaitsNow
  <2> QED
    BY <2>1 DEF MailWaited, Waits, WaitsNow
<1>2. PendingWaited'
  <2>1. ASSUME NEW p \in sess'.pending, p.client \notin late' PROVE WaitsNow(p.client, p.seq)
    <3>1. p \in sess.pending /\ p.client \in Clients
      BY QueueIs DEF Fewer
    <3>2. call'[p.client] = call[p.client] /\ Waits(p.client, p.seq)
      BY <2>1, <3>1 DEF WaitedOK, PendingWaited
    <3> QED
      BY <3>2 DEF Waits, WaitsNow
  <2> QED
    BY <2>1 DEF PendingWaited, Waits, WaitsNow
<1> QED
  BY <1>1, <1>2 DEF WaitedOK

\* A consumer to which nothing happens.
Same(c) == call'[c] = call[c] /\ member'[c] = member[c]

(* A consumer to which nothing happens, and whose proxy and withdrawals are  *)
(* not touched, stands as it did.                                            *)
\* Steps that only take requests, withdrawals, commands and calls away.
LEMMA OutSame ==
    ASSUME OutOK, NEW c \in Clients \ late, Same(c), Part(mailbox', mailbox),
           sess'.subs[c] # None => sess.subs[c] # None,
           \A p \in sess.pending : p.client = c /\ sess'.subs[c] # None => p \in sess'.pending,
           \A i \in 1 .. Len(unsubs) : unsubs[i].client = c /\ unsubs[i].kind = "Client"
                => \E j \in 1 .. Len(unsubs') : unsubs'[j] = unsubs[i]
    PROVE  OutMail(c)' /\ OutProxy(c)' /\ LeavingMail(c)'
<1>1. OutMail(c) /\ OutProxy(c) /\ LeavingMail(c)
  BY DEF OutOK
<1>2. StandsAs(c)' = StandsAs(c) /\ \A n : WaitsNow(c, n) <=> Waits(c, n)
  BY DEF Same, StandsAs, Waits, WaitsNow
<1>3. OutMail(c)'
  <2>1. ASSUME StandsAs(c)' = "Out", NEW i \in 1 .. Len(mailbox'), mailbox'[i].client = c PROVE WaitsNow(c, mailbox'[i].seq)
    <3>1. PICK k \in 1 .. Len(mailbox) : mailbox'[i] = mailbox[k]
      BY <2>1, PartFrom
    <3>2. Waits(c, mailbox[k].seq)
      BY <1>1, <1>2, <2>1, <3>1 DEF OutMail
    <3> QED
      BY <1>2, <3>1, <3>2
  <2> QED
    BY <2>1 DEF OutMail, Waits, WaitsNow
<1>4. OutProxy(c)'
  BY <1>1, <1>2 DEF OutProxy
<1>5. LeavingMail(c)'
  <2>1. ASSUME StandsAs(c)' = "Leaving", NEW i \in 1 .. Len(mailbox'), mailbox'[i].client = c
        PROVE  \/ WaitsNow(c, mailbox'[i].seq)
               \/ \E j \in 1 .. Len(unsubs') :
                    unsubs'[j].kind = "Client" /\ unsubs'[j].client = c /\ mailbox'[i].seq < unsubs'[j].seq
    <3>1. PICK k \in 1 .. Len(mailbox) : mailbox[k] = mailbox'[i]
      BY <2>1, PartFrom
    <3>2. \/ Waits(c, mailbox[k].seq)
          \/ \E j \in 1 .. Len(unsubs) :
                unsubs[j].kind = "Client" /\ unsubs[j].client = c /\ mailbox[k].seq < unsubs[j].seq
      BY <1>1, <1>2, <2>1, <3>1 DEF LeavingMail
    <3>3. CASE Waits(c, mailbox[k].seq)
      BY <3>1, <3>3, <1>2
    <3>4. ASSUME NEW j \in 1 .. Len(unsubs), unsubs[j].kind = "Client", unsubs[j].client = c, mailbox[k].seq < unsubs[j].seq
          PROVE  \E l \in 1 .. Len(unsubs') :
                    unsubs'[l].kind = "Client" /\ unsubs'[l].client = c /\ mailbox'[i].seq < unsubs'[l].seq
      BY <3>1, <3>4
    <3> QED
      BY <3>2, <3>3, <3>4
  <2> QED
    BY <2>1 DEF LeavingMail, Waits, WaitsNow
<1> QED
  BY <1>3, <1>4, <1>5

(* A consumer that waits for its withdrawal has no other request that is     *)
(* waited for.                                                               *)
\* A command is awaited in the consumer's own read loop.
LEMMA DetachingAlone ==
    ASSUME Called, NEW c \in Clients, call[c] # None, call[c].kind = "Detach"
    PROVE  /\ \A i \in 1 .. Len(mailbox) : mailbox[i].client = c => ~Waits(c, mailbox[i].seq)
           /\ c \notin late =>
                /\ \A i \in 1 .. Len(mailbox) : mailbox[i].client = c => mailbox[i].kind # "Attach"
                /\ \A p \in sess.pending : p.client # c
<1>1. \A i \in 1 .. Len(mailbox) : mailbox[i].client = c => ~Waits(c, mailbox[i].seq)
  BY DEF Called, CallsOK, MailCalls
<1>2. \A p \in sess.pending : p.client = c => ~Waits(c, p.seq)
  BY DEF Called, CallsOK, PendingCalls
<1> QED
  BY <1>1, <1>2 DEF Called, WaitedOK, MailWaited, PendingWaited

(* One withdrawal answers a call.                                            *)
\* unsubscribe_terminal: one WithdrawalReceipt per call.
LEMMA DetachingOnce ==
    ASSUME Typed, Called, NEW c \in Clients, NEW i \in 1 .. Len(unsubs), Detaching(unsubs[i]),
           unsubs[i].client = c
    PROVE  /\ Waits(c, unsubs[i].seq) /\ call[c] # None /\ call[c].kind = "Detach"
           /\ \A j \in 1 .. Len(unsubs) : Detaching(unsubs[j]) /\ unsubs[j].client = c => j = i
<1>1. \A j \in 1 .. Len(unsubs) : Detaching(unsubs[j]) /\ unsubs[j].client = c =>
        Waits(c, unsubs[j].seq) /\ call[c].kind = "Detach"
  BY DEF Called, CallsOK, WithdrawalCalls
<1>2. \A j \in 1 .. Len(unsubs) : Detaching(unsubs[j]) /\ unsubs[j].client = c => unsubs[j].seq = unsubs[i].seq
  BY <1>1 DEF Waits
<1> QED
  BY <1>1, <1>2 DEF Called, StampsOK, WithdrawalStamps, Waits

(* A consumer that waits for an attach has no withdrawal of the terminal     *)
(* queued.                                                                   *)
\* A command is awaited in the consumer's own read loop.
LEMMA AttachingAlone ==
    ASSUME Typed, Called, NEW c \in Clients, call[c] # None, call[c].kind = "Attach"
    PROVE  \A i \in 1 .. Len(unsubs) : Detaching(unsubs[i]) => unsubs[i].client # c
  BY DEF Called, CallsOK, WithdrawalCalls

\* What is to be shown of one consumer after a step.
OutNow(c) == OutMail(c)' /\ OutProxy(c)' /\ LeavingMail(c)'

(* What is to be shown after a step, consumer by consumer.                   *)
\* Every consumer.
LEMMA OutNowAll ==
    ASSUME Typed', \A c \in Clients \ late' : OutNow(c)
    PROVE  OutOK'
  BY DEF OutOK, OutNow

(* A step that does not touch the calls keeps what is known of them.         *)
\* Steps of the link's stream.
LEMMA CalledKept ==
    ASSUME Called, UNCHANGED <<mailbox, unsubs, stamp, call, member, late>>,
           sess'.pending = sess.pending, sess'.subs = sess.subs
    PROVE  Called'
<1>1. StampsOK'
  BY DEF Called, StampsOK, MailStamps, PendingStamps, WithdrawalStamps, CallStamps
<1>2. CallsOK'
  BY DEF Called, CallsOK, MailCalls, PendingCalls, WithdrawalCalls, CallPlaces, Waits
<1>3. WaitedOK'
  BY DEF Called, WaitedOK, MailWaited, PendingWaited, Waits
<1>4. OutOK'
  BY DEF Called, OutOK, OutMail, OutProxy, LeavingMail, Waits, StandsAs
<1> QED
  BY <1>1, <1>2, <1>3, <1>4 DEF Called

(* The link forgets proxies, and commands nobody waits for.                  *)
\* prune_abandoned, fan_out's reaping.
LEMMA CalledLess ==
    ASSUME Typed, Typed', Called, UNCHANGED <<mailbox, unsubs, stamp, call, member, late>>,
           sess'.pending \subseteq sess.pending,
           \A p \in sess.pending : Waits(p.client, p.seq) => p \in sess'.pending,
           \A c \in Clients : sess'.subs[c] # None => sess.subs[c] # None
    PROVE  Called'
<1>1. Fewer
  <2>1. Part(mailbox, mailbox) /\ Part(unsubs, unsubs)
    BY PartOfItself
  <2> QED
    BY <2>1 DEF Fewer
<1>2. StampsOK' /\ WaitedOK'
  BY <1>1, StampsFewer, WaitedFewer DEF Called
<1>3. CallsOK'
  <2>1. \A j \in 1 .. Len(unsubs') : Detaching(unsubs'[j]) => call'[unsubs'[j].client] # None
    BY DEF Called, CallsOK, WithdrawalCalls, Waits
  <2>2. WithdrawalCalls' /\ CallPlaces'
    BY <1>1, <2>1, PlacesFewer DEF Called
  <2> QED
    BY <1>1, <2>2, MailCallsFewer DEF Called, CallsOK
<1>4. ASSUME NEW c \in Clients \ late PROVE OutNow(c)
  <2>1. Same(c) /\ Part(mailbox', mailbox)
    BY <1>1 DEF Same, Fewer
  <2>2. \A p \in sess.pending : p.client = c => Waits(p.client, p.seq)
    BY DEF Called, WaitedOK, PendingWaited
  <2> QED
    BY <2>1, <2>2, OutSame DEF Called, OutNow
<1> QED
  BY <1>2, <1>3, <1>4, OutNowAll DEF Called

-----------------------------------------------------------------------------
(* The supervisor takes a request.                                           *)

(* The head of the mailbox, and what follows it.                             *)
\* RelayMailbox.
LEMMA MailHead ==
    ASSUME Typed, Called, mailbox # <<>>
    PROVE  /\ 1 \in 1 .. Len(mailbox) /\ Head(mailbox) = mailbox[1]
           /\ Part(Tail(mailbox), mailbox)
           /\ \A j \in 1 .. Len(Tail(mailbox)) : \E i \in 1 .. Len(mailbox) : i # 1 /\ Tail(mailbox)[j] = mailbox[i]
           /\ \A j \in 1 .. Len(Tail(mailbox)) : Tail(mailbox)[j].seq # Head(mailbox).seq
<1>1. mailbox \in Seq(Request)
  BY DEF Typed, QueueOK
<1>2. 1 \in 1 .. Len(mailbox) /\ Head(mailbox) = mailbox[1]
  BY <1>1, TailOf
<1>3. Part(Tail(mailbox), mailbox)
  BY <1>1, TailPart
<1>4. \A j \in 1 .. Len(Tail(mailbox)) : \E i \in 1 .. Len(mailbox) : i # 1 /\ Tail(mailbox)[j] = mailbox[i]
  BY <1>1, TailFrom
<1>5. \A j \in 1 .. Len(Tail(mailbox)) : Tail(mailbox)[j].seq # Head(mailbox).seq
  BY <1>2, <1>4 DEF Called, StampsOK, MailStamps
<1> QED
  BY <1>2, <1>3, <1>4, <1>5

(* The head of the withdrawals, and what follows it.                         *)
\* RelayMailbox.
LEMMA UnsubsHead ==
    ASSUME Typed, unsubs # <<>>
    PROVE  /\ 1 \in 1 .. Len(unsubs) /\ Head(unsubs) = unsubs[1]
           /\ Part(Tail(unsubs), unsubs)
           /\ \A j \in 1 .. Len(Tail(unsubs)) : \E i \in 1 .. Len(unsubs) : i # 1 /\ Tail(unsubs)[j] = unsubs[i]
           /\ \A i \in 1 .. Len(unsubs) : i # 1 => \E j \in 1 .. Len(Tail(unsubs)) : Tail(unsubs)[j] = unsubs[i]
<1>1. unsubs \in Seq(Withdrawal)
  BY DEF Typed, QueueOK
<1>2. 1 \in 1 .. Len(unsubs) /\ Head(unsubs) = unsubs[1]
  BY <1>1, TailOf
<1>3. Part(Tail(unsubs), unsubs)
  BY <1>1, TailPart
<1>4. \A j \in 1 .. Len(Tail(unsubs)) : \E i \in 1 .. Len(unsubs) : i # 1 /\ Tail(unsubs)[j] = unsubs[i]
  BY <1>1, TailFrom
<1>5. \A i \in 1 .. Len(unsubs) : i # 1 => \E j \in 1 .. Len(Tail(unsubs)) : Tail(unsubs)[j] = unsubs[i]
  BY <1>1, TailKeeps
<1> QED
  BY <1>2, <1>3, <1>4, <1>5

(* A request leaves the mailbox for the link, with its command in its place. *)
\* handle_request_checked, subscribe_forward.
LEMMA CalledServe ==
    ASSUME Typed, Typed', Called, mailbox # <<>>, mailbox' = Tail(mailbox),
           UNCHANGED <<unsubs, stamp, call, member, late>>,
           NEW cmds, sess'.pending = sess.pending \cup cmds,
           \A x, y \in cmds : x = y,
           \A x \in cmds : Head(mailbox).kind = "Attach" /\ x.client = Head(mailbox).client /\ x.seq = Head(mailbox).seq
    PROVE  StampsOK' /\ CallsOK' /\ WaitedOK'
<1>1. 1 \in 1 .. Len(mailbox) /\ Head(mailbox) = mailbox[1] /\ Part(mailbox', mailbox)
      /\ \A j \in 1 .. Len(mailbox') : mailbox'[j].seq # Head(mailbox).seq
  BY MailHead
<1>2. \A j \in 1 .. Len(mailbox') : \E k \in 1 .. Len(mailbox) : mailbox'[j] = mailbox[k]
  BY <1>1, PartFrom
<1>3. PICK r : r = Head(mailbox)
  OBVIOUS
<1>4. r.seq < stamp /\ \A p \in sess.pending : p.seq # r.seq
  BY <1>1, <1>3 DEF Called, StampsOK, MailStamps, PendingStamps
<1>5. PICK h \in [1 .. Len(mailbox') -> 1 .. Len(mailbox)] :
        /\ \A i, j \in 1 .. Len(mailbox') : h[i] = h[j] => i = j
        /\ \A i \in 1 .. Len(mailbox') : mailbox'[i] = mailbox[h[i]]
  BY <1>1 DEF Part
<1>6. MailStamps'
  <2>1. ASSUME NEW i \in 1 .. Len(mailbox')
        PROVE  mailbox'[i].seq < stamp' /\ \A j \in 1 .. Len(mailbox') : mailbox'[j].seq = mailbox'[i].seq => i = j
    <3>1. h[i] \in 1 .. Len(mailbox) /\ mailbox'[i] = mailbox[h[i]]
      BY <1>5
    <3>2. mailbox[h[i]].seq < stamp /\ \A k \in 1 .. Len(mailbox) : mailbox[k].seq = mailbox[h[i]].seq => h[i] = k
      BY <3>1 DEF Called, StampsOK, MailStamps
    <3>3. ASSUME NEW j \in 1 .. Len(mailbox'), mailbox'[j].seq = mailbox'[i].seq PROVE i = j
      <4>1. h[j] \in 1 .. Len(mailbox) /\ mailbox'[j] = mailbox[h[j]]
        BY <1>5
      <4>2. h[i] = h[j]
        BY <3>1, <3>2, <3>3, <4>1
      <4> QED
        BY <1>5, <4>2
    <3> QED
      BY <3>1, <3>2, <3>3
  <2> QED
    BY <2>1 DEF MailStamps
<1>7. PendingStamps'
  <2>1. ASSUME NEW p \in sess'.pending
        PROVE  /\ p.seq < stamp' /\ \A q \in sess'.pending : q.seq = p.seq => q = p
               /\ \A i \in 1 .. Len(mailbox') : mailbox'[i].seq # p.seq
    <3>1. CASE p \in sess.pending
      <4>1. p.seq < stamp' /\ \A i \in 1 .. Len(mailbox) : mailbox[i].seq # p.seq
        BY <3>1 DEF Called, StampsOK, PendingStamps
      <4>2. ASSUME NEW q \in sess'.pending, q.seq = p.seq PROVE q = p
        <5>1. q \in sess.pending
          BY <4>2, <3>1, <1>3, <1>4
        <5> QED
          BY <5>1, <4>2, <3>1 DEF Called, StampsOK, PendingStamps
      <4> QED
        BY <4>1, <4>2, <1>2
    <3>2. CASE p \in cmds
      <4>1. p.seq = r.seq
        BY <3>2, <1>3
      <4>2. ASSUME NEW q \in sess'.pending, q.seq = p.seq PROVE q = p
        <5>1. q \in cmds
          BY <4>1, <4>2, <1>4
        <5> QED
          BY <5>1, <3>2
      <4> QED
        BY <4>1, <4>2, <1>1, <1>3, <1>4
    <3> QED
      BY <3>1, <3>2
  <2> QED
    BY <2>1 DEF PendingStamps
<1>8. WithdrawalStamps' /\ CallStamps'
  BY DEF Called, StampsOK, WithdrawalStamps, CallStamps
<1>9. MailCalls'
  <2>1. ASSUME NEW i \in 1 .. Len(mailbox'), WaitsNow(mailbox'[i].client, mailbox'[i].seq)
        PROVE  mailbox'[i].kind = "Attach" /\ call'[mailbox'[i].client].kind = "Attach"
    <3>1. PICK k \in 1 .. Len(mailbox) : mailbox'[i] = mailbox[k]
      BY <1>2
    <3>2. Waits(mailbox[k].client, mailbox[k].seq)
      BY <2>1, <3>1 DEF Waits, WaitsNow
    <3> QED
      BY <3>1, <3>2 DEF Called, CallsOK, MailCalls
  <2> QED
    BY <2>1 DEF MailCalls, Waits, WaitsNow
<1>10. PendingCalls'
  <2>1. ASSUME NEW p \in sess'.pending, WaitsNow(p.client, p.seq) PROVE call'[p.client].kind = "Attach"
    <3>1. Waits(p.client, p.seq)
      BY <2>1 DEF Waits, WaitsNow
    <3>2. CASE p \in sess.pending
      BY <3>1, <3>2 DEF Called, CallsOK, PendingCalls
    <3>3. CASE p \in cmds
      BY <3>1, <3>3, <1>1 DEF Called, CallsOK, MailCalls
    <3> QED
      BY <3>2, <3>3
  <2> QED
    BY <2>1 DEF PendingCalls, Waits, WaitsNow
<1>11. WithdrawalCalls'
  BY DEF Called, CallsOK, WithdrawalCalls, Waits
<1>12. CallPlaces'
  <2>1. ASSUME NEW c \in Clients, call[c] # None, NEW i \in 1 .. Len(mailbox'), mailbox'[i].client = c
        PROVE  mailbox'[i].seq <= call[c].seq
    BY <1>2, <2>1 DEF Called, CallsOK, CallPlaces
  <2> QED
    BY <2>1 DEF Called, CallsOK, CallPlaces
<1>13. MailWaited'
  <2>1. ASSUME NEW i \in 1 .. Len(mailbox'), mailbox'[i].client \notin late', mailbox'[i].kind = "Attach"
        PROVE  WaitsNow(mailbox'[i].client, mailbox'[i].seq)
    <3>1. PICK k \in 1 .. Len(mailbox) : mailbox'[i] = mailbox[k]
      BY <1>2
    <3>2. Waits(mailbox[k].client, mailbox[k].seq)
      BY <2>1, <3>1 DEF Called, WaitedOK, MailWaited
    <3> QED
      BY <3>1, <3>2 DEF Waits, WaitsNow
  <2> QED
    BY <2>1 DEF MailWaited, Waits, WaitsNow
<1>14. PendingWaited'
  <2>1. ASSUME NEW p \in sess'.pending, p.client \notin late' PROVE WaitsNow(p.client, p.seq)
    <3>1. CASE p \in sess.pending
      BY <2>1, <3>1 DEF Called, WaitedOK, PendingWaited, Waits, WaitsNow
    <3>2. CASE p \in cmds
      <4>1. Waits(p.client, p.seq)
        BY <2>1, <3>2, <1>1 DEF Called, WaitedOK, MailWaited
      <4> QED
        BY <4>1 DEF Waits, WaitsNow
    <3> QED
      BY <3>1, <3>2
  <2> QED
    BY <2>1 DEF PendingWaited, Waits, WaitsNow
<1> QED
  BY <1>6, <1>7, <1>8, <1>9, <1>10, <1>11, <1>12, <1>13, <1>14 DEF StampsOK, CallsOK, WaitedOK

(* An attach taken from the mailbox leaves a proxy only behind its command.  *)
\* prepare_request, send_relay_request.
LEMMA CalledServeAttach ==
    ASSUME Typed, Typed', Called, ServeAttach
    PROVE  Called'
<1>1. PICK c \in Clients, seq \in Nat : c = Head(mailbox).client /\ seq = Head(mailbox).seq
  BY RequestIs DEF ServeAttach, Typed
<1>2. PICK x \in BOOLEAN : \E s1, w1, q1, y : ServedAttach(c, seq, x, s1, w1, q1, y)
  BY <1>1, ServeAttachIs
<1>3. PICK s1, w1, q1, y : ServedAttach(c, seq, x, s1, w1, q1, y)
  BY <1>2
<1>4. s1.subs = sess.subs /\ s1.pending = sess.pending
  BY <1>3 DEF ServedAttach, CutFirst, Detaches, Has
<1>5. PICK cmd : cmd = [id |-> s1.nextId, client |-> c, seq |-> seq, effect |-> Effect(s1.subs[c], TRUE)]
  OBVIOUS
<1>6. sess'.pending = sess.pending \cup {cmd} /\ sess'.subs = [sess.subs EXCEPT ![c] = y]
  BY <1>3, <1>4, <1>5 DEF ServedAttach, Attaches, Has
<1>7. cmd.client = c /\ cmd.seq = seq /\ cmd.effect = Effect(sess.subs[c], TRUE)
  BY <1>4, <1>5
<1>8. mailbox # <<>> /\ mailbox' = Tail(mailbox) /\ Head(mailbox).kind = "Attach"
      /\ UNCHANGED <<unsubs, stamp, call, member, late>>
  BY DEF ServeAttach
<1>9. StampsOK' /\ CallsOK' /\ WaitedOK'
  <2>1. PICK cmds : cmds = {cmd}
    OBVIOUS
  <2>2. (\A a, b \in cmds : a = b) /\ sess'.pending = sess.pending \cup cmds
        /\ \A a \in cmds : Head(mailbox).kind = "Attach" /\ a.client = Head(mailbox).client /\ a.seq = Head(mailbox).seq
    BY <2>1, <1>1, <1>6, <1>7, <1>8
  <2> QED
    BY <2>2, <1>8, CalledServe
<1>10. sess.subs \in Proxies
  BY SessionIs DEF Typed, LinkIs, LinkTyped
<1>11. ASSUME NEW d \in Clients \ late PROVE OutNow(d)
  <2>1. Same(d) /\ Part(mailbox', mailbox)
    BY <1>8, MailHead DEF Same
  <2>2. CASE d # c
    <3>1. sess'.subs[d] = sess.subs[d]
      BY <1>6, <1>10, <2>2 DEF Proxies
    <3> QED
      BY <1>6, <1>8, <2>1, <3>1, OutSame DEF Called, OutNow
  <2>3. CASE d = c /\ sess.subs[c] # None
    BY <1>6, <1>8, <2>1, <2>3, OutSame DEF Called, OutNow
  <2>4. CASE d = c /\ sess.subs[c] = None
    <3>1. cmd.effect = "New" /\ cmd \in sess'.pending
      BY <1>6, <1>7, <2>4 DEF Effect
    <3>2. OutProxy(d)'
      BY <1>7, <2>4, <3>1 DEF OutProxy
    <3>3. OutMail(d) /\ LeavingMail(d)
      BY DEF Called, OutOK
    <3>4. StandsAs(d)' = StandsAs(d)
      BY <1>8 DEF StandsAs
    <3>5. \A j \in 1 .. Len(mailbox') : \E k \in 1 .. Len(mailbox) : mailbox'[j] = mailbox[k]
      BY <2>1, PartFrom
    <3>6. OutMail(d)'
      BY <1>8, <3>3, <3>4, <3>5 DEF OutMail, Waits
    <3>7. LeavingMail(d)'
      BY <1>8, <3>3, <3>4, <3>5 DEF LeavingMail, Waits
    <3> QED
      BY <3>2, <3>6, <3>7 DEF OutNow
  <2> QED
    BY <2>2, <2>3, <2>4
<1> QED
  BY <1>8, <1>9, <1>11, OutNowAll DEF Called

(* An event subscription is of a consumer that is in, or is late.            *)
\* subscribe_forward.
LEMMA CalledServeEvents ==
    ASSUME Typed, Typed', Called, ServeEvents
    PROVE  Called'
<1>1. PICK c \in Clients, seq \in Nat : c = Head(mailbox).client /\ seq = Head(mailbox).seq
  BY RequestIs DEF ServeEvents, Typed
<1>2. PICK y : ServedEvents(c, y)
  BY <1>1, ServeEventsIs
<1>3. sess'.pending = sess.pending /\ sess'.subs = [sess.subs EXCEPT ![c] = y]
  BY <1>2 DEF ServedEvents, Has
<1>4. mailbox # <<>> /\ mailbox' = Tail(mailbox) /\ Head(mailbox).kind = "Events"
      /\ UNCHANGED <<unsubs, stamp, call, member, late>>
  BY DEF ServeEvents
<1>5. StampsOK' /\ CallsOK' /\ WaitedOK'
  <2>1. PICK cmds : cmds = {}
    OBVIOUS
  <2>2. (\A a, b \in cmds : a = b) /\ sess'.pending = sess.pending \cup cmds
        /\ \A a \in cmds : Head(mailbox).kind = "Attach" /\ a.client = Head(mailbox).client /\ a.seq = Head(mailbox).seq
    BY <2>1, <1>3
  <2> QED
    BY <2>2, <1>4, CalledServe
<1>6. sess.subs \in Proxies
  BY SessionIs DEF Typed, LinkIs, LinkTyped
<1>7. 1 \in 1 .. Len(mailbox) /\ mailbox[1] = Head(mailbox) /\ Part(mailbox', mailbox)
  BY <1>4, MailHead
<1>8. StandsAs(c) = "Out" => c \in late
  <2>1. SUFFICES ASSUME StandsAs(c) = "Out", c \notin late PROVE FALSE
    OBVIOUS
  <2>2. Waits(c, mailbox[1].seq)
    BY <1>1, <1>7, <2>1 DEF Called, OutOK, OutMail
  <2> QED
    BY <1>1, <1>4, <1>7, <2>2 DEF Called, CallsOK, MailCalls
<1>9. ASSUME NEW d \in Clients \ late PROVE OutNow(d)
  <2>1. Same(d)
    BY <1>4 DEF Same
  <2>2. CASE d # c
    <3>1. sess'.subs[d] = sess.subs[d]
      BY <1>3, <1>6, <2>2 DEF Proxies
    <3> QED
      BY <1>3, <1>4, <1>7, <2>1, <3>1, OutSame DEF Called, OutNow
  <2>3. CASE d = c
    <3>1. OutMail(d) /\ LeavingMail(d)
      BY DEF Called, OutOK
    <3>2. StandsAs(d)' = StandsAs(d) /\ StandsAs(d) # "Out"
      BY <1>4, <1>8, <2>3 DEF StandsAs
    <3>3. \A j \in 1 .. Len(mailbox') : \E k \in 1 .. Len(mailbox) : mailbox'[j] = mailbox[k]
      BY <1>7, PartFrom
    <3>4. OutMail(d)' /\ OutProxy(d)'
      BY <3>2 DEF OutMail, OutProxy
    <3>5. LeavingMail(d)'
      BY <1>4, <3>1, <3>2, <3>3 DEF LeavingMail, Waits
    <3> QED
      BY <3>4, <3>5 DEF OutNow
  <2> QED
    BY <2>2, <2>3
<1> QED
  BY <1>4, <1>5, <1>9, OutNowAll DEF Called

-----------------------------------------------------------------------------
(* The consumers make requests.                                              *)

(* A new element of a queue of requests or withdrawals.                      *)
\* The mailboxes and the link are queues.
LEMMA Appended ==
    ASSUME NEW S, NEW q \in Seq(S), NEW e \in S, NEW q2, q2 = Append(q, e)
    PROVE  /\ Len(q) \in Nat /\ Len(q2) = Len(q) + 1 /\ q2[Len(q) + 1] = e /\ Len(q) + 1 \in 1 .. Len(q2)
           /\ \A i \in 1 .. Len(q2) : (i \in 1 .. Len(q) /\ q2[i] = q[i]) \/ (i = Len(q) + 1 /\ q2[i] = e)
           /\ \A i \in 1 .. Len(q) : i \in 1 .. Len(q2) /\ q2[i] = q[i]
<1>1. Len(q) \in Nat /\ Len(q2) = Len(q) + 1 /\ q2[Len(q) + 1] = e /\ \A i \in 1 .. Len(q) : q2[i] = q[i]
  BY AppendOf
<1>2. PICK n \in Nat : n = Len(q)
  BY <1>1
<1>3. \A i \in 1 .. n + 1 : i \in 1 .. n \/ i = n + 1
  BY <1>2
<1>4. \A i \in 1 .. n : i \in 1 .. n + 1
  BY <1>2
<1>5. n + 1 \in 1 .. n + 1
  BY <1>2
<1> QED
  BY <1>1, <1>2, <1>3, <1>4, <1>5

(* The token of a new request is above all others.                           *)
\* RelayHandle: the issue-order token.
LEMMA StampAbove ==
    ASSUME Typed, Called
    PROVE  /\ stamp \in Nat
           /\ \A i \in 1 .. Len(mailbox) : mailbox[i].seq < stamp /\ mailbox[i].seq # stamp
           /\ \A p \in sess.pending : p.seq < stamp /\ p.seq # stamp
           /\ \A c \in Clients : call[c] # None => call[c].seq < stamp /\ call[c].seq # stamp
           /\ \A i \in 1 .. Len(unsubs) : Detaching(unsubs[i]) => unsubs[i].seq # stamp
<1>1. /\ stamp \in Nat
      /\ \A i \in 1 .. Len(mailbox) : mailbox[i].seq \in Nat /\ mailbox[i].seq < stamp
  BY QueueIs DEF Called, StampsOK, MailStamps
<1>2. \A p \in sess.pending : p.seq \in Nat /\ p.seq < stamp
  BY QueueIs DEF Called, StampsOK, PendingStamps
<1>3. \A c \in Clients : call[c] # None => call[c].seq \in Nat /\ call[c].seq < stamp
  BY QueueIs DEF Called, StampsOK, CallStamps
<1>4. \A i \in 1 .. Len(unsubs) : Detaching(unsubs[i]) => unsubs[i].client \in Clients /\
         call[unsubs[i].client] # None /\ call[unsubs[i].client].seq = unsubs[i].seq
  BY QueueIs DEF Called, CallsOK, WithdrawalCalls, Waits
<1>5. \A n \in Nat : n < stamp => n # stamp
  BY <1>1
<1>6. \A i \in 1 .. Len(unsubs) : Detaching(unsubs[i]) => unsubs[i].seq # stamp
  BY <1>3, <1>4, <1>5
<1> QED
  BY <1>1, <1>2, <1>3, <1>5, <1>6

(* A consumer that waits for nothing has nothing queued that is waited for.  *)
\* A command is awaited in the consumer's own read loop.
LEMMA IdleAlone ==
    ASSUME Called, NEW c \in Clients, call[c] = None
    PROVE  /\ \A n : ~Waits(c, n)
           /\ \A i \in 1 .. Len(unsubs) : Detaching(unsubs[i]) => unsubs[i].client # c
           /\ c \notin late =>
                /\ \A i \in 1 .. Len(mailbox) : mailbox[i].client = c => mailbox[i].kind # "Attach"
                /\ \A p \in sess.pending : p.client # c
<1>1. \A n : ~Waits(c, n)
  BY DEF Waits
<1> QED
  BY <1>1 DEF Called, CallsOK, WithdrawalCalls, WaitedOK, MailWaited, PendingWaited

(* A token is used up by a request that was refused at once.                 *)
\* command_inner, with the mailbox full.
LEMMA CalledStamp ==
    ASSUME Typed, Called, stamp' = stamp + 1, UNCHANGED <<mailbox, unsubs, call, member, late, sess>>
    PROVE  Called'
<1>1. \A n \in Nat : n < stamp => n < stamp + 1
  BY QueueIs
<1>2. StampsOK'
  <2>1. MailStamps'
    BY <1>1, QueueIs DEF Called, StampsOK, MailStamps
  <2>2. PendingStamps'
    BY <1>1, QueueIs DEF Called, StampsOK, PendingStamps
  <2>3. CallStamps'
    BY <1>1, QueueIs DEF Called, StampsOK, CallStamps
  <2> QED
    BY <2>1, <2>2, <2>3 DEF Called, StampsOK, WithdrawalStamps
<1>3. CallsOK'
  BY DEF Called, CallsOK, MailCalls, PendingCalls, WithdrawalCalls, CallPlaces, Waits
<1>4. WaitedOK'
  BY DEF Called, WaitedOK, MailWaited, PendingWaited, Waits
<1>5. OutOK'
  BY DEF Called, OutOK, OutMail, OutProxy, LeavingMail, Waits, StandsAs
<1> QED
  BY <1>2, <1>3, <1>4, <1>5 DEF Called

(* A new attach is the only request of its consumer that is waited for.      *)
\* command_inner.
LEMMA CalledIssueAttach ==
    ASSUME Typed, Typed', Called, NEW c \in Clients, IssueAttach(c)
    PROVE  Called'
<1>1. stamp' = stamp + 1 /\ call[c] = None /\ UNCHANGED <<unsubs, late, sess>> /\ stamp \in Nat
  BY QueueIs DEF IssueAttach, MayIssue, linkVars
<1>2. CASE UNCHANGED <<mailbox, call, member>>
  BY <1>1, <1>2, CalledStamp
<1>3. PICK r \in Request : r = [kind |-> "Attach", client |-> c, seq |-> stamp]
  BY <1>1 DEF Request
<1>4. PICK k \in Call : k = [kind |-> "Attach", seq |-> stamp, prior |-> member[c]]
  BY <1>1 DEF Call, Typed, CallerOK
<1>5. r.kind = "Attach" /\ r.client = c /\ r.seq = stamp /\ k.kind = "Attach" /\ k.seq = stamp /\ k.prior = member[c]
      /\ k # None
  BY <1>3, <1>4, NoneAssumption
<1>6. CASE mailbox' = Append(mailbox, r) /\ call' = [call EXCEPT ![c] = k] /\ member' = [member EXCEPT ![c] = "In"]
  <2>1. /\ Len(mailbox) \in Nat
        /\ \A i \in 1 .. Len(mailbox') : (i \in 1 .. Len(mailbox) /\ mailbox'[i] = mailbox[i])
                                         \/ (i = Len(mailbox) + 1 /\ mailbox'[i] = r)
    BY <1>6, Appended DEF Typed, QueueOK
  <2>2. call'[c] = k /\ member'[c] = "In" /\ \A d \in Clients \ {c} : call'[d] = call[d] /\ member'[d] = member[d]
    BY <1>6 DEF Typed, CallerOK
  <2>3. \A n \in Nat : n < stamp => n < stamp + 1
    BY <1>1
  <2>4. stamp < stamp + 1
    BY <1>1
  <2>5. MailStamps'
    <3>1. ASSUME NEW i \in 1 .. Len(mailbox')
          PROVE  mailbox'[i].seq < stamp' /\ \A j \in 1 .. Len(mailbox') : mailbox'[j].seq = mailbox'[i].seq => i = j
      <4>1. CASE i \in 1 .. Len(mailbox) /\ mailbox'[i] = mailbox[i]
        <5>1. mailbox[i].seq < stamp + 1
          BY <4>1, <2>3, StampAbove, QueueIs
        <5>2. ASSUME NEW j \in 1 .. Len(mailbox'), mailbox'[j].seq = mailbox'[i].seq PROVE i = j
          BY <4>1, <5>2, <2>1, <1>5, StampAbove DEF Called, StampsOK, MailStamps
        <5> QED
          BY <4>1, <5>1, <5>2, <1>1
      <4>2. CASE i = Len(mailbox) + 1 /\ mailbox'[i] = r
        <5>1. ASSUME NEW j \in 1 .. Len(mailbox'), mailbox'[j].seq = mailbox'[i].seq PROVE i = j
          BY <4>2, <5>1, <2>1, <1>5, StampAbove
        <5> QED
          BY <4>2, <5>1, <1>1, <1>5, <2>4
      <4> QED
        BY <2>1, <4>1, <4>2
    <3> QED
      BY <3>1 DEF MailStamps
  <2>6. PendingStamps'
    <3>1. ASSUME NEW p \in sess.pending
          PROVE  /\ p.seq < stamp' /\ (\A q \in sess.pending : q.seq = p.seq => q = p)
                 /\ \A i \in 1 .. Len(mailbox') : mailbox'[i].seq # p.seq
      <4>1. p.seq < stamp + 1 /\ p.seq # stamp
        BY <2>3, StampAbove, QueueIs
      <4>2. ASSUME NEW i \in 1 .. Len(mailbox') PROVE mailbox'[i].seq # p.seq
        BY <2>1, <4>1, <1>5 DEF Called, StampsOK, PendingStamps
      <4> QED
        BY <4>1, <4>2, <1>1 DEF Called, StampsOK, PendingStamps
    <3> QED
      BY <1>1, <3>1 DEF PendingStamps
  <2>7. WithdrawalStamps'
    BY <1>1 DEF Called, StampsOK, WithdrawalStamps
  <2>8. CallStamps'
    <3>1. ASSUME NEW a \in Clients, call'[a] # None
          PROVE  call'[a].seq < stamp' /\ \A d \in Clients : call'[d] # None /\ call'[d].seq = call'[a].seq => a = d
      <4>1. CASE a = c
        BY <4>1, <1>1, <1>5, <2>2, <2>4, StampAbove
      <4>2. CASE a # c
        <5>1. call'[a] = call[a] /\ call[a].seq < stamp + 1 /\ call[a].seq # stamp
          BY <3>1, <4>2, <2>2, <2>3, StampAbove, QueueIs
        <5>2. ASSUME NEW d \in Clients, call'[d] # None, call'[d].seq = call'[a].seq PROVE a = d
          BY <3>1, <5>1, <5>2, <2>2, <1>5 DEF Called, StampsOK, CallStamps
        <5> QED
          BY <5>1, <5>2, <1>1
      <4> QED
        BY <4>1, <4>2
    <3> QED
      BY <3>1 DEF CallStamps
  <2>9. MailCalls'
    <3>1. ASSUME NEW i \in 1 .. Len(mailbox'), WaitsNow(mailbox'[i].client, mailbox'[i].seq)
          PROVE  mailbox'[i].kind = "Attach" /\ call'[mailbox'[i].client].kind = "Attach"
      <4>1. CASE mailbox'[i] = r
        BY <4>1, <1>5, <2>2
      <4>2. CASE i \in 1 .. Len(mailbox) /\ mailbox'[i] = mailbox[i]
        <5>1. PICK a \in Clients : a = mailbox[i].client
          BY <4>2, QueueIs
        <5>2. a # c
          BY <3>1, <4>2, <5>1, <1>5, <2>2, StampAbove DEF WaitsNow
        <5>3. Waits(a, mailbox[i].seq) /\ call'[a] = call[a]
          BY <3>1, <4>2, <5>1, <5>2, <2>2 DEF WaitsNow, Waits
        <5> QED
          BY <4>2, <5>1, <5>3 DEF Called, CallsOK, MailCalls
      <4> QED
        BY <2>1, <4>1, <4>2
    <3> QED
      BY <3>1 DEF MailCalls, Waits, WaitsNow
  <2>10. PendingCalls'
    <3>1. ASSUME NEW p \in sess.pending, WaitsNow(p.client, p.seq) PROVE call'[p.client].kind = "Attach"
      <4>1. p.client \in Clients
        BY QueueIs
      <4>2. CASE p.client = c
        BY <4>2, <2>2, <1>5
      <4>3. CASE p.client # c
        BY <3>1, <4>1, <4>3, <2>2 DEF Called, CallsOK, PendingCalls, Waits, WaitsNow
      <4> QED
        BY <4>2, <4>3
    <3> QED
      BY <1>1, <3>1 DEF PendingCalls, Waits, WaitsNow
  <2>11. WithdrawalCalls'
    <3>1. ASSUME NEW i \in 1 .. Len(unsubs), Detaching(unsubs[i])
          PROVE  WaitsNow(unsubs[i].client, unsubs[i].seq) /\ call'[unsubs[i].client].kind = "Detach"
      <4>1. unsubs[i].client \in Clients /\ unsubs[i].client # c
        BY <3>1, <1>1, QueueIs, IdleAlone
      <4> QED
        BY <3>1, <4>1, <2>2 DEF Called, CallsOK, WithdrawalCalls, Waits, WaitsNow
    <3> QED
      BY <1>1, <3>1 DEF WithdrawalCalls, Waits, WaitsNow
  <2>12. CallPlaces'
    <3>1. ASSUME NEW a \in Clients, call'[a] # None
          PROVE  /\ \A i \in 1 .. Len(mailbox') : mailbox'[i].client = a => mailbox'[i].seq <= call'[a].seq
                 /\ call'[a].kind = "Attach" => member'[a] = "In"
                 /\ call'[a].kind = "Detach" =>
                    \E i \in 1 .. Len(unsubs') : Detaching(unsubs'[i]) /\ unsubs'[i].client = a
      <4>1. CASE a = c
        <5>1. \A n \in Nat : n < stamp => n <= stamp
          BY <1>1
        <5>2. stamp <= stamp
          BY <1>1
        <5>3. ASSUME NEW i \in 1 .. Len(mailbox') PROVE mailbox'[i].seq <= stamp
          BY <5>1, <5>2, <2>1, <1>5, StampAbove, QueueIs
        <5> QED
          BY <4>1, <5>3, <2>2, <1>5
      <4>2. CASE a # c
        BY <3>1, <4>2, <1>1, <2>1, <2>2, <1>5 DEF Called, CallsOK, CallPlaces
      <4> QED
        BY <4>1, <4>2
    <3> QED
      BY <3>1 DEF CallPlaces, Detaching
  <2>13. MailWaited'
    <3>1. ASSUME NEW i \in 1 .. Len(mailbox'), mailbox'[i].client \notin late', mailbox'[i].kind = "Attach"
          PROVE  WaitsNow(mailbox'[i].client, mailbox'[i].seq)
      <4>1. CASE mailbox'[i] = r
        BY <4>1, <1>5, <2>2 DEF WaitsNow
      <4>2. CASE i \in 1 .. Len(mailbox) /\ mailbox'[i] = mailbox[i]
        <5>1. PICK a \in Clients : a = mailbox[i].client
          BY <4>2, QueueIs
        <5>2. a # c
          BY <3>1, <4>2, <5>1, <1>1, IdleAlone
        <5> QED
          BY <3>1, <4>2, <5>1, <5>2, <1>1, <2>2 DEF Called, WaitedOK, MailWaited, Waits, WaitsNow
      <4> QED
        BY <2>1, <4>1, <4>2
    <3> QED
      BY <3>1 DEF MailWaited, Waits, WaitsNow
  <2>14. PendingWaited'
    <3>1. ASSUME NEW p \in sess.pending, p.client \notin late PROVE WaitsNow(p.client, p.seq)
      <4>1. p.client \in Clients /\ p.client # c
        BY <3>1, <1>1, QueueIs, IdleAlone
      <4> QED
        BY <3>1, <4>1, <2>2 DEF Called, WaitedOK, PendingWaited, Waits, WaitsNow
    <3> QED
      BY <1>1, <3>1 DEF PendingWaited, Waits, WaitsNow
  <2>15. ASSUME NEW d \in Clients \ late PROVE OutNow(d)
    <3>1. StandsAs(d)' = StandsAs(d)
      BY <1>1, <1>5, <2>2 DEF StandsAs
    <3>2. OutMail(d) /\ OutProxy(d) /\ LeavingMail(d)
      BY DEF Called, OutOK
    <3>3. ASSUME NEW i \in 1 .. Len(mailbox'), mailbox'[i].client = d
          PROVE  \/ WaitsNow(d, mailbox'[i].seq)
                 \/ i \in 1 .. Len(mailbox) /\ mailbox'[i] = mailbox[i] /\ (Waits(d, mailbox[i].seq) => WaitsNow(d, mailbox'[i].seq))
      <4>1. CASE mailbox'[i] = r
        BY <3>3, <4>1, <1>5, <2>2 DEF WaitsNow
      <4>2. CASE i \in 1 .. Len(mailbox) /\ mailbox'[i] = mailbox[i]
        BY <4>2, <1>1, <2>2 DEF Waits, WaitsNow
      <4> QED
        BY <2>1, <4>1, <4>2
    <3>4. OutMail(d)'
      BY <3>1, <3>2, <3>3 DEF OutMail, Waits, WaitsNow
    <3>5. OutProxy(d)'
      BY <1>1, <3>1, <3>2 DEF OutProxy
    <3>6. LeavingMail(d)'
      BY <1>1, <3>1, <3>2, <3>3 DEF LeavingMail, Waits, WaitsNow
    <3> QED
      BY <3>4, <3>5, <3>6 DEF OutNow
  <2> QED
    BY <1>1, <2>5, <2>6, <2>7, <2>8, <2>9, <2>10, <2>11, <2>12, <2>13, <2>14, <2>15, OutNowAll
    DEF Called, StampsOK, CallsOK, WaitedOK
<1> QED
  BY <1>2, <1>3, <1>4, <1>6 DEF IssueAttach

(* A new event subscription makes its consumer one that is in.               *)
\* subscribe.
LEMMA CalledIssueEvents ==
    ASSUME Typed, Typed', Called, NEW c \in Clients, IssueEvents(c)
    PROVE  Called'
<1>1. stamp' = stamp + 1 /\ call[c] = None /\ UNCHANGED <<unsubs, late, sess, call>> /\ stamp \in Nat
  BY QueueIs DEF IssueEvents, MayIssue, linkVars
<1>2. CASE UNCHANGED <<mailbox, member>>
  BY <1>1, <1>2, CalledStamp
<1>3. PICK r \in Request : r = [kind |-> "Events", client |-> c, seq |-> stamp]
  BY <1>1 DEF Request
<1>4. r.kind = "Events" /\ r.client = c /\ r.seq = stamp
  BY <1>3
<1>5. CASE mailbox' = Append(mailbox, r) /\ member' = [member EXCEPT ![c] = "In"]
  <2>1. /\ Len(mailbox) \in Nat
        /\ \A i \in 1 .. Len(mailbox') : (i \in 1 .. Len(mailbox) /\ mailbox'[i] = mailbox[i])
                                         \/ (i = Len(mailbox) + 1 /\ mailbox'[i] = r)
    BY <1>5, Appended DEF Typed, QueueOK
  <2>2. member'[c] = "In" /\ \A d \in Clients \ {c} : member'[d] = member[d]
    BY <1>5 DEF Typed, CallerOK
  <2>3. \A n \in Nat : n < stamp => n < stamp + 1
    BY <1>1
  <2>4. stamp < stamp + 1
    BY <1>1
  <2>5. MailStamps'
    <3>1. ASSUME NEW i \in 1 .. Len(mailbox')
          PROVE  mailbox'[i].seq < stamp' /\ \A j \in 1 .. Len(mailbox') : mailbox'[j].seq = mailbox'[i].seq => i = j
      <4>1. CASE i \in 1 .. Len(mailbox) /\ mailbox'[i] = mailbox[i]
        <5>1. mailbox[i].seq < stamp + 1
          BY <4>1, <2>3, StampAbove, QueueIs
        <5>2. ASSUME NEW j \in 1 .. Len(mailbox'), mailbox'[j].seq = mailbox'[i].seq PROVE i = j
          BY <4>1, <5>2, <2>1, <1>4, StampAbove DEF Called, StampsOK, MailStamps
        <5> QED
          BY <4>1, <5>1, <5>2, <1>1
      <4>2. CASE i = Len(mailbox) + 1 /\ mailbox'[i] = r
        <5>1. ASSUME NEW j \in 1 .. Len(mailbox'), mailbox'[j].seq = mailbox'[i].seq PROVE i = j
          BY <4>2, <5>1, <2>1, <1>4, StampAbove
        <5> QED
          BY <4>2, <5>1, <1>1, <1>4, <2>4
      <4> QED
        BY <2>1, <4>1, <4>2
    <3> QED
      BY <3>1 DEF MailStamps
  <2>6. PendingStamps'
    <3>1. ASSUME NEW p \in sess.pending
          PROVE  /\ p.seq < stamp' /\ (\A q \in sess.pending : q.seq = p.seq => q = p)
                 /\ \A i \in 1 .. Len(mailbox') : mailbox'[i].seq # p.seq
      <4>1. p.seq < stamp + 1 /\ p.seq # stamp
        BY <2>3, StampAbove, QueueIs
      <4>2. ASSUME NEW i \in 1 .. Len(mailbox') PROVE mailbox'[i].seq # p.seq
        BY <2>1, <4>1, <1>4 DEF Called, StampsOK, PendingStamps
      <4> QED
        BY <4>1, <4>2, <1>1 DEF Called, StampsOK, PendingStamps
    <3> QED
      BY <1>1, <3>1 DEF PendingStamps
  <2>7. WithdrawalStamps' /\ CallStamps'
    <3>1. WithdrawalStamps'
      BY <1>1 DEF Called, StampsOK, WithdrawalStamps
    <3>2. CallStamps'
      BY <1>1, <2>3, QueueIs DEF Called, StampsOK, CallStamps
    <3> QED
      BY <3>1, <3>2
  <2>8. ASSUME NEW i \in 1 .. Len(mailbox'), WaitsNow(mailbox'[i].client, mailbox'[i].seq)
        PROVE  i \in 1 .. Len(mailbox) /\ mailbox'[i] = mailbox[i] /\ Waits(mailbox[i].client, mailbox[i].seq)
    <3>1. mailbox'[i] # r
      BY <2>8, <1>1, <1>4 DEF WaitsNow
    <3> QED
      BY <2>1, <2>8, <3>1, <1>1 DEF WaitsNow, Waits
  <2>9. MailCalls'
    BY <1>1, <2>8 DEF Called, CallsOK, MailCalls, Waits, WaitsNow
  <2>10. PendingCalls' /\ WithdrawalCalls'
    BY <1>1 DEF Called, CallsOK, PendingCalls, WithdrawalCalls, Waits
  <2>11. CallPlaces'
    <3>1. ASSUME NEW a \in Clients, call[a] # None
          PROVE  /\ \A i \in 1 .. Len(mailbox') : mailbox'[i].client = a => mailbox'[i].seq <= call[a].seq
                 /\ call[a].kind = "Attach" => member'[a] = "In"
                 /\ call[a].kind = "Detach" =>
                    \E i \in 1 .. Len(unsubs) : Detaching(unsubs[i]) /\ unsubs[i].client = a
      BY <3>1, <1>1, <2>1, <2>2, <1>4 DEF Called, CallsOK, CallPlaces
    <3> QED
      BY <3>1, <1>1 DEF CallPlaces, Detaching
  <2>12. MailWaited'
    BY <1>1, <1>4, <2>1 DEF Called, WaitedOK, MailWaited, Waits
  <2>13. PendingWaited'
    BY <1>1 DEF Called, WaitedOK, PendingWaited, Waits
  <2>14. ASSUME NEW d \in Clients \ late PROVE OutNow(d)
    <3>1. CASE d = c
      <4>1. StandsAs(d)' = "In"
        BY <3>1, <1>1, <2>2 DEF StandsAs
      <4> QED
        BY <4>1 DEF OutNow, OutMail, OutProxy, LeavingMail
    <3>2. CASE d # c
      <4>1. StandsAs(d)' = StandsAs(d)
        BY <1>1, <2>2, <3>2 DEF StandsAs
      <4>2. OutMail(d) /\ OutProxy(d) /\ LeavingMail(d)
        BY DEF Called, OutOK
      <4>3. ASSUME NEW i \in 1 .. Len(mailbox'), mailbox'[i].client = d
            PROVE  i \in 1 .. Len(mailbox) /\ mailbox'[i] = mailbox[i]
        BY <4>3, <3>2, <1>4, <2>1
      <4>4. OutMail(d)'
        BY <1>1, <4>1, <4>2, <4>3 DEF OutMail, Waits
      <4>5. OutProxy(d)'
        BY <1>1, <4>1, <4>2 DEF OutProxy
      <4>6. LeavingMail(d)'
        BY <1>1, <4>1, <4>2, <4>3 DEF LeavingMail, Waits
      <4> QED
        BY <4>4, <4>5, <4>6 DEF OutNow
    <3> QED
      BY <3>1, <3>2
  <2> QED
    BY <1>1, <2>5, <2>6, <2>7, <2>9, <2>10, <2>11, <2>12, <2>13, <2>14, OutNowAll
    DEF Called, StampsOK, CallsOK, WaitedOK
<1> QED
  BY <1>2, <1>3, <1>5 DEF IssueEvents

(* A new withdrawal is the only request of its consumer that is waited for.  *)
\* unsubscribe_terminal.
LEMMA CalledIssueDetach ==
    ASSUME Typed, Typed', Called, NEW c \in Clients, IssueDetach(c)
    PROVE  Called'
<1>1. stamp' = stamp + 1 /\ call[c] = None /\ UNCHANGED <<mailbox, late, sess, member>> /\ stamp \in Nat
  BY QueueIs DEF IssueDetach, MayIssue, linkVars
<1>2. PICK u \in Withdrawal : u = [kind |-> "Terminal", client |-> c, seq |-> stamp]
  BY <1>1 DEF Withdrawal
<1>3. PICK k \in Call : k = [kind |-> "Detach", seq |-> stamp, prior |-> member[c]]
  BY <1>1 DEF Call, Typed, CallerOK
<1>4. Detaching(u) /\ u.client = c /\ u.seq = stamp /\ k.kind = "Detach" /\ k.seq = stamp /\ k.prior = member[c]
      /\ k # None
  BY <1>2, <1>3, NoneAssumption DEF Detaching
<1>5. unsubs' = Append(unsubs, u) /\ call' = [call EXCEPT ![c] = k]
  BY <1>2, <1>3 DEF IssueDetach
<1>6. /\ Len(unsubs) \in Nat /\ Len(unsubs) + 1 \in 1 .. Len(unsubs') /\ unsubs'[Len(unsubs) + 1] = u
      /\ \A i \in 1 .. Len(unsubs') : (i \in 1 .. Len(unsubs) /\ unsubs'[i] = unsubs[i])
                                      \/ (i = Len(unsubs) + 1 /\ unsubs'[i] = u)
      /\ \A i \in 1 .. Len(unsubs) : i \in 1 .. Len(unsubs') /\ unsubs'[i] = unsubs[i]
  BY <1>5, Appended DEF Typed, QueueOK
<1>7. call'[c] = k /\ \A d \in Clients \ {c} : call'[d] = call[d]
  BY <1>5 DEF Typed, CallerOK
<1>8. \A n \in Nat : n < stamp => n < stamp + 1 /\ n <= stamp
  BY <1>1
<1>9. stamp < stamp + 1
  BY <1>1
<1>10. MailStamps' /\ PendingStamps'
  <2>1. MailStamps'
    BY <1>1, <1>8, QueueIs DEF Called, StampsOK, MailStamps
  <2>2. PendingStamps'
    BY <1>1, <1>8, QueueIs DEF Called, StampsOK, PendingStamps
  <2> QED
    BY <2>1, <2>2
<1>11. WithdrawalStamps'
  <2>1. ASSUME NEW i \in 1 .. Len(unsubs'), NEW j \in 1 .. Len(unsubs'), Detaching(unsubs'[i]), Detaching(unsubs'[j]),
               unsubs'[j].seq = unsubs'[i].seq
        PROVE  i = j
    <3>1. CASE i \in 1 .. Len(unsubs) /\ unsubs'[i] = unsubs[i]
      BY <2>1, <3>1, <1>4, <1>6, StampAbove DEF Called, StampsOK, WithdrawalStamps
    <3>2. CASE i = Len(unsubs) + 1 /\ unsubs'[i] = u
      BY <2>1, <3>2, <1>4, <1>6, StampAbove
    <3> QED
      BY <1>6, <3>1, <3>2
  <2> QED
    BY <2>1 DEF WithdrawalStamps, Detaching
<1>12. CallStamps'
  <2>1. ASSUME NEW a \in Clients, call'[a] # None
        PROVE  call'[a].seq < stamp' /\ \A d \in Clients : call'[d] # None /\ call'[d].seq = call'[a].seq => a = d
    <3>1. CASE a = c
      BY <3>1, <1>1, <1>4, <1>7, <1>9, StampAbove
    <3>2. CASE a # c
      <4>1. call'[a] = call[a] /\ call[a].seq < stamp + 1 /\ call[a].seq # stamp
        BY <2>1, <3>2, <1>7, <1>8, StampAbove, QueueIs
      <4>2. ASSUME NEW d \in Clients, call'[d] # None, call'[d].seq = call'[a].seq PROVE a = d
        BY <2>1, <4>1, <4>2, <1>7, <1>4 DEF Called, StampsOK, CallStamps
      <4> QED
        BY <4>1, <4>2, <1>1
    <3> QED
      BY <3>1, <3>2
  <2> QED
    BY <2>1 DEF CallStamps
<1>13. MailCalls'
  <2>1. ASSUME NEW i \in 1 .. Len(mailbox), WaitsNow(mailbox[i].client, mailbox[i].seq)
        PROVE  mailbox[i].kind = "Attach" /\ call'[mailbox[i].client].kind = "Attach"
    <3>1. PICK a \in Clients : a = mailbox[i].client
      BY QueueIs
    <3>2. a # c
      BY <2>1, <3>1, <1>4, <1>7, StampAbove DEF WaitsNow
    <3>3. Waits(a, mailbox[i].seq) /\ call'[a] = call[a]
      BY <2>1, <3>1, <3>2, <1>7 DEF WaitsNow, Waits
    <3> QED
      BY <3>1, <3>3 DEF Called, CallsOK, MailCalls
  <2> QED
    BY <1>1, <2>1 DEF MailCalls, Waits, WaitsNow
<1>14. PendingCalls'
  <2>1. ASSUME NEW p \in sess.pending, WaitsNow(p.client, p.seq) PROVE call'[p.client].kind = "Attach"
    <3>1. PICK a \in Clients : a = p.client
      BY QueueIs
    <3>2. a # c
      BY <2>1, <3>1, <1>4, <1>7, StampAbove DEF WaitsNow
    <3>3. Waits(a, p.seq) /\ call'[a] = call[a]
      BY <2>1, <3>1, <3>2, <1>7 DEF WaitsNow, Waits
    <3> QED
      BY <3>1, <3>3 DEF Called, CallsOK, PendingCalls
  <2> QED
    BY <1>1, <2>1 DEF PendingCalls, Waits, WaitsNow
<1>15. WithdrawalCalls'
  <2>1. ASSUME NEW i \in 1 .. Len(unsubs'), Detaching(unsubs'[i])
        PROVE  WaitsNow(unsubs'[i].client, unsubs'[i].seq) /\ call'[unsubs'[i].client].kind = "Detach"
    <3>1. CASE unsubs'[i] = u
      BY <3>1, <1>4, <1>7 DEF WaitsNow
    <3>2. CASE i \in 1 .. Len(unsubs) /\ unsubs'[i] = unsubs[i]
      <4>1. unsubs[i].client \in Clients /\ unsubs[i].client # c
        BY <2>1, <3>2, <1>1, QueueIs, IdleAlone
      <4> QED
        BY <2>1, <3>2, <4>1, <1>7 DEF Called, CallsOK, WithdrawalCalls, Waits, WaitsNow
    <3> QED
      BY <1>6, <3>1, <3>2
  <2> QED
    BY <2>1 DEF WithdrawalCalls, Detaching, Waits, WaitsNow
<1>16. CallPlaces'
  <2>1. ASSUME NEW a \in Clients, call'[a] # None
        PROVE  /\ \A i \in 1 .. Len(mailbox) : mailbox[i].client = a => mailbox[i].seq <= call'[a].seq
               /\ call'[a].kind = "Attach" => member[a] = "In"
               /\ call'[a].kind = "Detach" =>
                  \E i \in 1 .. Len(unsubs') : Detaching(unsubs'[i]) /\ unsubs'[i].client = a
    <3>1. CASE a = c
      <4>1. \A i \in 1 .. Len(mailbox) : mailbox[i].seq <= stamp
        BY <1>8, StampAbove, QueueIs
      <4>2. \E i \in 1 .. Len(unsubs') : Detaching(unsubs'[i]) /\ unsubs'[i].client = c
        BY <1>4, <1>6
      <4> QED
        BY <3>1, <4>1, <4>2, <1>4, <1>7
    <3>2. CASE a # c
      BY <2>1, <3>2, <1>6, <1>7 DEF Called, CallsOK, CallPlaces
    <3> QED
      BY <3>1, <3>2
  <2> QED
    BY <1>1, <2>1 DEF CallPlaces, Detaching
<1>17. MailWaited'
  <2>1. ASSUME NEW i \in 1 .. Len(mailbox), mailbox[i].client \notin late, mailbox[i].kind = "Attach"
        PROVE  WaitsNow(mailbox[i].client, mailbox[i].seq)
    <3>1. mailbox[i].client \in Clients /\ mailbox[i].client # c
      BY <2>1, <1>1, QueueIs, IdleAlone
    <3> QED
      BY <2>1, <3>1, <1>7 DEF Called, WaitedOK, MailWaited, Waits, WaitsNow
  <2> QED
    BY <1>1, <2>1 DEF MailWaited, Waits, WaitsNow
<1>18. PendingWaited'
  <2>1. ASSUME NEW p \in sess.pending, p.client \notin late PROVE WaitsNow(p.client, p.seq)
    <3>1. p.client \in Clients /\ p.client # c
      BY <2>1, <1>1, QueueIs, IdleAlone
    <3> QED
      BY <2>1, <3>1, <1>7 DEF Called, WaitedOK, PendingWaited, Waits, WaitsNow
  <2> QED
    BY <1>1, <2>1 DEF PendingWaited, Waits, WaitsNow
<1>19. ASSUME NEW d \in Clients \ late PROVE OutNow(d)
  <2>1. StandsAs(d)' = StandsAs(d)
    BY <1>1, <1>4, <1>7 DEF StandsAs
  <2>2. OutMail(d) /\ OutProxy(d) /\ LeavingMail(d)
    BY DEF Called, OutOK
  <2>3. \A n : Waits(d, n) => WaitsNow(d, n)
    BY <1>1, <1>7 DEF Waits, WaitsNow
  <2>4. OutMail(d)'
    BY <1>1, <2>1, <2>2, <2>3 DEF OutMail, Waits, WaitsNow
  <2>5. OutProxy(d)'
    BY <1>1, <2>1, <2>2 DEF OutProxy
  <2>6. LeavingMail(d)'
    BY <1>1, <1>6, <2>1, <2>2, <2>3 DEF LeavingMail, Waits, WaitsNow
  <2> QED
    BY <2>4, <2>5, <2>6 DEF OutNow
<1> QED
  BY <1>1, <1>10, <1>11, <1>12, <1>13, <1>14, <1>15, <1>16, <1>17, <1>18, <1>19, OutNowAll
  DEF Called, StampsOK, CallsOK, WaitedOK

(* A consumer that leaves has its withdrawal behind all its requests.        *)
\* detach_and_release_consumer_state.
LEMMA CalledDetachClient ==
    ASSUME Typed, Typed', Called, NEW c \in Clients, DetachClient(c)
    PROVE  Called'
<1>1. call[c] = None /\ UNCHANGED <<mailbox, stamp, call, late, sess>> /\ stamp \in Nat
  BY QueueIs DEF DetachClient, MayIssue, linkVars
<1>2. PICK u \in Withdrawal : u = [kind |-> "Client", client |-> c, seq |-> stamp]
  BY <1>1 DEF Withdrawal
<1>3. u.kind = "Client" /\ ~Detaching(u) /\ u.client = c /\ u.seq = stamp
  BY <1>2 DEF Detaching
<1>4. unsubs' = Append(unsubs, u) /\ member' = [member EXCEPT ![c] = "Leaving"]
  BY <1>2 DEF DetachClient
<1>5. /\ Len(unsubs) \in Nat /\ Len(unsubs) + 1 \in 1 .. Len(unsubs') /\ unsubs'[Len(unsubs) + 1] = u
      /\ \A i \in 1 .. Len(unsubs') : (i \in 1 .. Len(unsubs) /\ unsubs'[i] = unsubs[i])
                                      \/ (i = Len(unsubs) + 1 /\ unsubs'[i] = u)
      /\ \A i \in 1 .. Len(unsubs) : i \in 1 .. Len(unsubs') /\ unsubs'[i] = unsubs[i]
  BY <1>4, Appended DEF Typed, QueueOK
<1>6. member'[c] = "Leaving" /\ \A d \in Clients \ {c} : member'[d] = member[d]
  BY <1>4 DEF Typed, CallerOK
<1>7. ASSUME NEW i \in 1 .. Len(unsubs'), Detaching(unsubs'[i]) PROVE i \in 1 .. Len(unsubs) /\ unsubs'[i] = unsubs[i]
  BY <1>3, <1>5, <1>7
<1>8. MailStamps' /\ PendingStamps' /\ CallStamps'
  BY <1>1 DEF Called, StampsOK, MailStamps, PendingStamps, CallStamps
<1>9. WithdrawalStamps'
  <2>1. ASSUME NEW i \in 1 .. Len(unsubs'), NEW j \in 1 .. Len(unsubs'), Detaching(unsubs'[i]), Detaching(unsubs'[j]),
               unsubs'[j].seq = unsubs'[i].seq
        PROVE  i = j
    BY <2>1, <1>7 DEF Called, StampsOK, WithdrawalStamps
  <2> QED
    BY <2>1 DEF WithdrawalStamps, Detaching
<1>10. MailCalls' /\ PendingCalls'
  BY <1>1 DEF Called, CallsOK, MailCalls, PendingCalls, Waits
<1>11. WithdrawalCalls'
  <2>1. ASSUME NEW i \in 1 .. Len(unsubs'), Detaching(unsubs'[i])
        PROVE  WaitsNow(unsubs'[i].client, unsubs'[i].seq) /\ call'[unsubs'[i].client].kind = "Detach"
    BY <2>1, <1>1, <1>7 DEF Called, CallsOK, WithdrawalCalls, Waits, WaitsNow
  <2> QED
    BY <2>1 DEF WithdrawalCalls, Detaching, Waits, WaitsNow
<1>12. CallPlaces'
  <2>1. ASSUME NEW a \in Clients, call[a] # None
        PROVE  /\ \A i \in 1 .. Len(mailbox) : mailbox[i].client = a => mailbox[i].seq <= call[a].seq
               /\ call[a].kind = "Attach" => member'[a] = "In"
               /\ call[a].kind = "Detach" =>
                  \E i \in 1 .. Len(unsubs') : Detaching(unsubs'[i]) /\ unsubs'[i].client = a
    BY <2>1, <1>1, <1>5, <1>6 DEF Called, CallsOK, CallPlaces
  <2> QED
    BY <1>1, <2>1 DEF CallPlaces, Detaching
<1>13. WaitedOK'
  BY <1>1 DEF Called, WaitedOK, MailWaited, PendingWaited, Waits
<1>14. ASSUME NEW d \in Clients \ late PROVE OutNow(d)
  <2>1. CASE d # c
    <3>1. StandsAs(d)' = StandsAs(d)
      BY <1>1, <1>6, <2>1 DEF StandsAs
    <3>2. OutMail(d) /\ OutProxy(d) /\ LeavingMail(d)
      BY DEF Called, OutOK
    <3>3. OutMail(d)' /\ OutProxy(d)'
      BY <1>1, <3>1, <3>2 DEF OutMail, OutProxy, Waits
    <3>4. LeavingMail(d)'
      BY <1>1, <1>5, <3>1, <3>2 DEF LeavingMail, Waits
    <3> QED
      BY <3>3, <3>4 DEF OutNow
  <2>2. CASE d = c
    <3>1. StandsAs(d)' = "Leaving"
      BY <2>2, <1>1, <1>6 DEF StandsAs
    <3>2. ASSUME NEW i \in 1 .. Len(mailbox)
          PROVE  \E j \in 1 .. Len(unsubs') :
                    unsubs'[j].kind = "Client" /\ unsubs'[j].client = c /\ mailbox[i].seq < unsubs'[j].seq
      BY <1>3, <1>5, StampAbove
    <3>3. LeavingMail(d)'
      BY <2>2, <3>2, <1>1 DEF LeavingMail
    <3> QED
      BY <3>1, <3>3 DEF OutNow, OutMail, OutProxy
  <2> QED
    BY <2>1, <2>2
<1> QED
  BY <1>1, <1>8, <1>9, <1>10, <1>11, <1>12, <1>13, <1>14, OutNowAll
  DEF Called, StampsOK, CallsOK, WaitedOK

-----------------------------------------------------------------------------
(* Consumers are answered.                                                   *)

\* Withdrawals left are of consumers that still wait.
OnlyWaiting == \A j \in 1 .. Len(unsubs') : Detaching(unsubs'[j]) => call'[unsubs'[j].client] # None

\* Withdrawals waited for are left.
StillThere ==
    \A i \in 1 .. Len(unsubs) : Detaching(unsubs[i]) /\ call'[unsubs[i].client] # None
        => \E j \in 1 .. Len(unsubs') : unsubs'[j] = unsubs[i]

\* A consumer that was answered has nothing else on its way.
Settled(c) ==
    /\ \A i \in 1 .. Len(mailbox') : mailbox'[i].client = c => mailbox'[i].kind # "Attach"
    /\ \A p \in sess'.pending : p.client # c

(* Consumers are answered: what is known of the calls holds if those left    *)
(* have their withdrawals, and each consumer stands as it should.            *)
\* relay_stream_establishing, WithdrawalReceipt.
LEMMA CalledAnswers ==
    ASSUME Typed, Typed', Called, Fewer, late \subseteq late', OnlyWaiting, StillThere,
           \A c \in Clients : call'[c] # None /\ member[c] = "In" => member'[c] = "In",
           \A c \in Clients \ late' : (call'[c] = call[c] \/ Settled(c)) /\ OutNow(c)
    PROVE  Called'
<1>1. StampsOK'
  BY StampsFewer DEF Called
<1>2. WithdrawalCalls' /\ CallPlaces'
  BY PlacesFewer DEF Called, OnlyWaiting, StillThere
<1>3. CallsOK'
  BY <1>2, MailCallsFewer DEF Called, CallsOK
<1>4. WaitedOK'
  BY WaitedFewer DEF Called, Settled
<1> QED
  BY <1>1, <1>3, <1>4, OutNowAll DEF Called

(* What an answer does to one consumer.                                      *)
\* relay_stream_establishing.
LEMMA AnsweredIs ==
    ASSUME NEW cs, NEW st, Answered(cs, st), NEW c \in Clients
    PROVE  /\ c \in cs => call'[c] = None /\ member'[c] = st[c]
           /\ c \notin cs => Same(c)
  BY DEF Answered, Same

(* A consumer that is refused stands as it did.                              *)
\* relay_stream_establishing.
LEMMA RefusedIs ==
    ASSUME Typed, NEW cs, Answered(cs, Refused), NEW c \in Clients, c \in cs
    PROVE  call'[c] = None /\ StandsAs(c)' = StandsAs(c)
<1>1. call'[c] = None /\ member'[c] = StandsAs(c)
  BY AnsweredIs, RefusedTyped DEF Typed
<1> QED
  BY <1>1 DEF StandsAs

(* What a consumer is left with when its command was refused and nothing     *)
(* else of it is waited for.                                                 *)
\* relay_stream_establishing.
LEMMA OutRefused ==
    ASSUME Called, NEW c \in Clients \ late, call'[c] = None, StandsAs(c)' = StandsAs(c),
           Part(mailbox', mailbox),
           \A i \in 1 .. Len(mailbox') : mailbox'[i].client = c => ~Waits(c, mailbox'[i].seq),
           StandsAs(c) = "Out" => sess'.subs[c] = None,
           \A i \in 1 .. Len(unsubs) : unsubs[i].client = c /\ unsubs[i].kind = "Client"
                => \E j \in 1 .. Len(unsubs') : unsubs'[j] = unsubs[i]
    PROVE  OutNow(c)
<1>1. OutMail(c) /\ LeavingMail(c)
  BY DEF Called, OutOK
<1>2. \A j \in 1 .. Len(mailbox') : \E k \in 1 .. Len(mailbox) : mailbox'[j] = mailbox[k]
  BY PartFrom
<1>3. OutMail(c)'
  <2>1. ASSUME StandsAs(c) = "Out", NEW i \in 1 .. Len(mailbox'), mailbox'[i].client = c PROVE FALSE
    BY <1>1, <1>2, <2>1 DEF OutMail
  <2> QED
    BY <2>1 DEF OutMail
<1>4. OutProxy(c)'
  BY DEF OutProxy
<1>5. LeavingMail(c)'
  <2>1. ASSUME StandsAs(c) = "Leaving", NEW i \in 1 .. Len(mailbox'), mailbox'[i].client = c
        PROVE  \E j \in 1 .. Len(unsubs') :
                    unsubs'[j].kind = "Client" /\ unsubs'[j].client = c /\ mailbox'[i].seq < unsubs'[j].seq
    <3>1. PICK k \in 1 .. Len(mailbox) : mailbox[k] = mailbox'[i]
      BY <1>2
    <3>2. PICK l \in 1 .. Len(unsubs) : unsubs[l].kind = "Client" /\ unsubs[l].client = c /\ mailbox[k].seq < unsubs[l].seq
      BY <1>1, <2>1, <3>1 DEF LeavingMail
    <3> QED
      BY <3>1, <3>2
  <2> QED
    BY <2>1 DEF LeavingMail
<1> QED
  BY <1>3, <1>4, <1>5 DEF OutNow

(* A withdrawal that a newer request overtook is refused and removes         *)
(* nothing.                                                                  *)
\* withdraw_terminal, its seq check.
LEMMA CalledSuperseded ==
    ASSUME Typed, Typed', Called, unsubs # <<>>, unsubs' = Tail(unsubs), Head(unsubs).kind = "Terminal",
           Answered({Head(unsubs).client}, Refused), UNCHANGED <<mailbox, stamp, late, sess>>
    PROVE  Called'
<1>1. PICK c \in Clients : c = Head(unsubs).client
  BY WithdrawalIs DEF Typed
<1>2. 1 \in 1 .. Len(unsubs) /\ unsubs[1] = Head(unsubs) /\ Part(unsubs', unsubs)
      /\ (\A j \in 1 .. Len(unsubs') : \E i \in 1 .. Len(unsubs) : i # 1 /\ unsubs'[j] = unsubs[i])
      /\ \A i \in 1 .. Len(unsubs) : i # 1 => \E j \in 1 .. Len(unsubs') : unsubs'[j] = unsubs[i]
  BY UnsubsHead
<1>3. call[c] # None /\ call[c].kind = "Detach" /\ \A j \in 1 .. Len(unsubs) : Detaching(unsubs[j]) /\ unsubs[j].client = c => j = 1
  <2>1. 1 \in 1 .. Len(unsubs) /\ Detaching(unsubs[1]) /\ unsubs[1].client = c
    BY <1>1, <1>2 DEF Detaching
  <2> QED
    BY <2>1, DetachingOnce
<1>4. call'[c] = None /\ StandsAs(c)' = StandsAs(c) /\ \A d \in Clients \ {c} : Same(d)
  BY <1>1, RefusedIs, AnsweredIs
<1>5. Part(mailbox', mailbox)
  BY PartOfItself
<1>6. Fewer
  BY <1>2, <1>4, <1>5 DEF Fewer, Same
<1>7. OnlyWaiting
  <2>1. ASSUME NEW j \in 1 .. Len(unsubs'), Detaching(unsubs'[j]) PROVE call'[unsubs'[j].client] # None
    <3>1. PICK i \in 1 .. Len(unsubs) : i # 1 /\ unsubs'[j] = unsubs[i]
      BY <1>2
    <3>2. unsubs[i].client \in Clients /\ unsubs[i].client # c
      BY <1>3, <2>1, <3>1, QueueIs
    <3>3. call[unsubs[i].client] # None
      BY <2>1, <3>1 DEF Called, CallsOK, WithdrawalCalls, Waits
    <3> QED
      BY <1>4, <3>1, <3>2, <3>3 DEF Same
  <2> QED
    BY <2>1 DEF OnlyWaiting
<1>8. StillThere
  BY <1>1, <1>2, <1>4 DEF StillThere
<1>9. ASSUME NEW d \in Clients \ late PROVE (call'[d] = call[d] \/ Settled(d)) /\ OutNow(d)
  <2>1. CASE d = c
    <3>1. Settled(c)
      BY <1>3, <2>1, DetachingAlone DEF Settled
    <3>2. \A p \in sess.pending : p.client # c
      BY <1>3, <2>1, DetachingAlone
    <3>3. StandsAs(c) = "Out" => sess'.subs[c] = None
      BY <2>1, <3>2 DEF Called, OutOK, OutProxy
    <3>4. \A i \in 1 .. Len(mailbox') : mailbox'[i].client = c => ~Waits(c, mailbox'[i].seq)
      BY <1>3, DetachingAlone
    <3>5. \A i \in 1 .. Len(unsubs) : unsubs[i].client = c /\ unsubs[i].kind = "Client"
                => \E j \in 1 .. Len(unsubs') : unsubs'[j] = unsubs[i]
      BY <1>2
    <3> QED
      BY <1>4, <1>5, <2>1, <3>1, <3>3, <3>4, <3>5, OutRefused
  <2>2. CASE d # c
    <3>1. Same(d)
      BY <1>4, <2>2
    <3>2. \A i \in 1 .. Len(unsubs) : unsubs[i].client = d /\ unsubs[i].kind = "Client"
                => \E j \in 1 .. Len(unsubs') : unsubs'[j] = unsubs[i]
      BY <1>1, <1>2, <2>2
    <3> QED
      BY <1>5, <3>1, <3>2, OutSame DEF Called, OutNow, Same
  <2> QED
    BY <2>1, <2>2
<1>10. \A d \in Clients : call'[d] # None /\ member[d] = "In" => member'[d] = "In"
  BY <1>4 DEF Same
<1> QED
  BY <1>6, <1>7, <1>8, <1>9, <1>10, CalledAnswers

(* A withdrawal takes effect, or counts as success because the link is down. *)
\* withdraw_terminal; run_link drops the receipt.
LEMMA CalledDetached ==
    ASSUME Typed, Typed', Called, unsubs # <<>>, unsubs' = Tail(unsubs), Head(unsubs).kind = "Terminal",
           Answered({Head(unsubs).client}, [d \in Clients |-> "Out"]), Overtakes(Head(unsubs)),
           UNCHANGED <<mailbox, stamp>>, sess'.pending = sess.pending,
           sess'.subs[Head(unsubs).client] = None,
           \A d \in Clients : sess'.subs[d] # None => sess.subs[d] # None
    PROVE  Called'
<1>1. PICK c \in Clients : c = Head(unsubs).client
  BY WithdrawalIs DEF Typed
<1>2. 1 \in 1 .. Len(unsubs) /\ unsubs[1] = Head(unsubs) /\ Part(unsubs', unsubs)
      /\ (\A j \in 1 .. Len(unsubs') : \E i \in 1 .. Len(unsubs) : i # 1 /\ unsubs'[j] = unsubs[i])
      /\ \A i \in 1 .. Len(unsubs) : i # 1 => \E j \in 1 .. Len(unsubs') : unsubs'[j] = unsubs[i]
  BY UnsubsHead
<1>3. Waits(c, unsubs[1].seq) /\ call[c] # None /\ call[c].kind = "Detach"
      /\ \A j \in 1 .. Len(unsubs) : Detaching(unsubs[j]) /\ unsubs[j].client = c => j = 1
  BY <1>1, <1>2, DetachingOnce DEF Detaching
<1>4. call'[c] = None /\ member'[c] = "Out" /\ \A d \in Clients \ {c} : Same(d)
  BY <1>1, AnsweredIs
<1>5. Part(mailbox', mailbox)
  BY PartOfItself
<1>6. Fewer
  BY <1>2, <1>4, <1>5 DEF Fewer, Same
<1>7. OnlyWaiting
  <2>1. ASSUME NEW j \in 1 .. Len(unsubs'), Detaching(unsubs'[j]) PROVE call'[unsubs'[j].client] # None
    <3>1. PICK i \in 1 .. Len(unsubs) : i # 1 /\ unsubs'[j] = unsubs[i]
      BY <1>2
    <3>2. unsubs[i].client \in Clients /\ unsubs[i].client # c
      BY <1>3, <2>1, <3>1, QueueIs
    <3>3. call[unsubs[i].client] # None
      BY <2>1, <3>1 DEF Called, CallsOK, WithdrawalCalls, Waits
    <3> QED
      BY <1>4, <3>1, <3>2, <3>3 DEF Same
  <2> QED
    BY <2>1 DEF OnlyWaiting
<1>8. StillThere
  BY <1>1, <1>2, <1>4 DEF StillThere
<1>9. late \subseteq late'
  BY DEF Overtakes
<1>10. ASSUME NEW d \in Clients \ late' PROVE (call'[d] = call[d] \/ Settled(d)) /\ OutNow(d)
  <2>1. d \notin late
    BY <1>9
  <2>2. CASE d = c
    <3>1. Settled(c)
      BY <1>3, <2>1, <2>2, DetachingAlone DEF Settled
    <3>2. ASSUME NEW i \in 1 .. Len(mailbox), mailbox[i].client = c PROVE FALSE
      <4>1. ~(mailbox[i].seq < unsubs[1].seq)
        <5>1. DOMAIN mailbox = 1 .. Len(mailbox)
          BY DEF Typed, QueueOK
        <5> QED
          BY <1>1, <1>2, <2>2, <3>2, <5>1 DEF Overtakes
      <4>2. mailbox[i].seq <= unsubs[1].seq
        BY <1>3, <3>2 DEF Called, CallsOK, CallPlaces, Waits
      <4>3. mailbox[i].seq = unsubs[1].seq
        <5>1. PICK m \in Nat, n \in Nat : m = mailbox[i].seq /\ n = unsubs[1].seq
          BY <1>2, QueueIs
        <5> QED
          BY <4>1, <4>2, <5>1
      <4>4. ~Waits(c, mailbox[i].seq)
        BY <1>3, <3>2, DetachingAlone
      <4> QED
        BY <1>3, <4>3, <4>4
    <3>3. StandsAs(c)' = "Out"
      BY <1>4 DEF StandsAs
    <3>4. OutMail(c)'
      BY <3>2 DEF OutMail
    <3>5. OutProxy(c)' /\ LeavingMail(c)'
      BY <1>1, <3>3 DEF OutProxy, LeavingMail
    <3> QED
      BY <2>2, <3>1, <3>4, <3>5 DEF OutNow
  <2>3. CASE d # c
    <3>1. Same(d)
      BY <1>4, <2>3
    <3>2. \A i \in 1 .. Len(unsubs) : unsubs[i].client = d /\ unsubs[i].kind = "Client"
                => \E j \in 1 .. Len(unsubs') : unsubs'[j] = unsubs[i]
      BY <1>1, <1>2, <2>3
    <3> QED
      BY <1>5, <2>1, <3>1, <3>2, OutSame DEF Called, OutNow, Same
  <2> QED
    BY <2>2, <2>3
<1>11. \A d \in Clients : call'[d] # None /\ member[d] = "In" => member'[d] = "In"
  BY <1>4 DEF Same
<1> QED
  BY <1>6, <1>7, <1>8, <1>10, <1>11, <1>9, CalledAnswers

(* The withdrawal of a whole consumer leaves it without a proxy.             *)
\* withdraw_client.
LEMMA CalledGone ==
    ASSUME Typed, Typed', Called, unsubs # <<>>, unsubs' = Tail(unsubs), Head(unsubs).kind = "Client",
           Gone(Head(unsubs).client), Overtakes(Head(unsubs)),
           UNCHANGED <<mailbox, stamp, call>>, sess'.pending = sess.pending,
           sess'.subs[Head(unsubs).client] = None,
           \A d \in Clients : sess'.subs[d] # None => sess.subs[d] # None
    PROVE  Called'
<1>1. PICK c \in Clients : c = Head(unsubs).client
  BY WithdrawalIs DEF Typed
<1>2. 1 \in 1 .. Len(unsubs) /\ unsubs[1] = Head(unsubs) /\ Part(unsubs', unsubs)
      /\ \A i \in 1 .. Len(unsubs) : i # 1 => \E j \in 1 .. Len(unsubs') : unsubs'[j] = unsubs[i]
  BY UnsubsHead
<1>3. /\ member'[c] = member[c] \/ (member[c] = "Leaving" /\ member'[c] = "Out"
                                    /\ \A i \in 2 .. Len(unsubs) : unsubs[i].client # c)
      /\ \A d \in Clients \ {c} : member'[d] = member[d]
  BY <1>1 DEF Gone, Typed, CallerOK
<1>4. \A i \in 1 .. Len(unsubs) : i # 1 => i \in 2 .. Len(unsubs)
  <2>1. Len(unsubs) \in Nat
    BY DEF Typed, QueueOK
  <2> QED
    BY <2>1
<1>5. Part(mailbox', mailbox)
  BY PartOfItself
<1>6. Fewer
  BY <1>2, <1>5 DEF Fewer
<1>7. OnlyWaiting
  <2>1. ASSUME NEW j \in 1 .. Len(unsubs'), Detaching(unsubs'[j]) PROVE call'[unsubs'[j].client] # None
    <3>1. PICK i \in 1 .. Len(unsubs) : unsubs'[j] = unsubs[i]
      BY <1>2, PartFrom
    <3> QED
      BY <2>1, <3>1 DEF Called, CallsOK, WithdrawalCalls, Waits
  <2> QED
    BY <2>1 DEF OnlyWaiting
<1>8. StillThere
  BY <1>2 DEF StillThere, Detaching
<1>9. late \subseteq late'
  BY DEF Overtakes
<1>10. DOMAIN mailbox = 1 .. Len(mailbox)
  BY DEF Typed, QueueOK
<1>11. ASSUME NEW d \in Clients \ late' PROVE OutNow(d)
  <2>1. d \notin late
    BY <1>9
  <2>2. CASE d = c
    <3>1. \A i \in 1 .. Len(mailbox) : mailbox[i].client = c => ~(mailbox[i].seq < unsubs[1].seq)
      BY <1>1, <1>2, <1>10, <2>2 DEF Overtakes
    <3>2. OutMail(c) /\ LeavingMail(c)
      BY <2>1, <2>2 DEF Called, OutOK
    <3>3. OutProxy(c)'
      BY <1>1 DEF OutProxy
    <3>4. CASE member'[c] = member[c]
      <4>1. StandsAs(c)' = StandsAs(c)
        BY <3>4 DEF StandsAs
      <4>2. OutMail(c)'
        BY <3>2, <4>1 DEF OutMail, Waits
      <4>3. LeavingMail(c)'
        <5>1. ASSUME StandsAs(c) = "Leaving", NEW i \in 1 .. Len(mailbox), mailbox[i].client = c, ~Waits(c, mailbox[i].seq)
              PROVE  \E j \in 1 .. Len(unsubs') :
                        unsubs'[j].kind = "Client" /\ unsubs'[j].client = c /\ mailbox[i].seq < unsubs'[j].seq
          <6>1. PICK k \in 1 .. Len(unsubs) : unsubs[k].kind = "Client" /\ unsubs[k].client = c /\ mailbox[i].seq < unsubs[k].seq
            BY <3>2, <5>1 DEF LeavingMail
          <6>2. k # 1
            BY <3>1, <5>1, <6>1
          <6>3. PICK j \in 1 .. Len(unsubs') : unsubs'[j] = unsubs[k]
            BY <1>2, <6>2
          <6> QED
            BY <6>1, <6>3
        <5> QED
          BY <4>1, <5>1 DEF LeavingMail, Waits
      <4> QED
        BY <2>2, <3>3, <4>2, <4>3 DEF OutNow
    <3>5. CASE member[c] = "Leaving" /\ member'[c] = "Out" /\ \A i \in 2 .. Len(unsubs) : unsubs[i].client # c
      <4>1. call[c] = None
        <5>1. SUFFICES ASSUME call[c] # None PROVE FALSE
          OBVIOUS
        <5>2. call[c].kind = "Detach"
          BY <5>1, <3>5, QueueIs DEF Called, CallsOK, CallPlaces
        <5>3. PICK i \in 1 .. Len(unsubs) : Detaching(unsubs[i]) /\ unsubs[i].client = c
          BY <5>1, <5>2 DEF Called, CallsOK, CallPlaces
        <5>4. i # 1
          BY <1>2, <5>3 DEF Detaching
        <5> QED
          BY <1>4, <3>5, <5>3, <5>4
      <4>2. StandsAs(c) = "Leaving" /\ StandsAs(c)' = "Out"
        BY <3>5, <4>1 DEF StandsAs
      <4>3. ASSUME NEW i \in 1 .. Len(mailbox), mailbox[i].client = c PROVE FALSE
        <5>1. PICK j \in 1 .. Len(unsubs) : unsubs[j].client = c /\ mailbox[i].seq < unsubs[j].seq
          BY <3>2, <4>1, <4>2, <4>3 DEF LeavingMail, Waits
        <5>2. j = 1
          BY <1>4, <3>5, <5>1
        <5> QED
          BY <3>1, <4>3, <5>1, <5>2
      <4>4. OutMail(c)' /\ LeavingMail(c)'
        BY <4>2, <4>3 DEF OutMail, LeavingMail
      <4> QED
        BY <2>2, <3>3, <4>4 DEF OutNow
    <3> QED
      BY <1>3, <3>4, <3>5
  <2>3. CASE d # c
    <3>1. Same(d)
      BY <1>3, <2>3 DEF Same
    <3>2. \A i \in 1 .. Len(unsubs) : unsubs[i].client = d /\ unsubs[i].kind = "Client"
                => \E j \in 1 .. Len(unsubs') : unsubs'[j] = unsubs[i]
      BY <1>1, <1>2, <2>3
    <3> QED
      BY <1>5, <2>1, <3>1, <3>2, OutSame DEF Called, OutNow
  <2> QED
    BY <2>2, <2>3
<1>12. \A d \in Clients : call'[d] # None /\ member[d] = "In" => member'[d] = "In"
  BY <1>3
<1> QED
  BY <1>6, <1>7, <1>8, <1>11, <1>12, <1>9, CalledAnswers

(* A request that fails fast leaves no proxy: there is no session.           *)
\* fail_fast.
LEMMA CalledFailFast ==
    ASSUME Typed, Typed', DownOK, Called, FailFast
    PROVE  Called'
<1>1. mailbox # <<>> /\ mailbox' = Tail(mailbox) /\ UNCHANGED <<unsubs, stamp, late, sess>> /\ sess = NewSession
  BY DEF FailFast, linkVars, DownOK
<1>2. PICK c \in Clients, n \in Nat : c = Head(mailbox).client /\ n = Head(mailbox).seq
  BY <1>1, RequestIs DEF Typed
<1>3. 1 \in 1 .. Len(mailbox) /\ mailbox[1] = Head(mailbox) /\ Part(mailbox', mailbox)
      /\ \A j \in 1 .. Len(mailbox') : mailbox'[j].seq # n
  BY <1>1, <1>2, MailHead
<1>4. sess.pending = {} /\ \A d \in Clients : sess.subs[d] = None
  BY <1>1, NewSessionIs
<1>5. \/ \A d \in Clients : Same(d)
      \/ /\ Waits(c, n) /\ call'[c] = None /\ StandsAs(c)' = StandsAs(c)
         /\ \A d \in Clients \ {c} : Same(d)
  <2>1. CASE NobodyAnswered
    BY <2>1 DEF NobodyAnswered, Same
  <2>2. CASE Answered({d \in {c} : Waits(d, n)}, Refused)
    <3>1. PICK cs : cs = {d \in {c} : Waits(d, n)}
      OBVIOUS
    <3>2. CASE Waits(c, n)
      BY <2>2, <3>1, <3>2, RefusedIs, AnsweredIs
    <3>3. CASE ~Waits(c, n)
      BY <2>2, <3>1, <3>3, AnsweredIs
    <3> QED
      BY <3>2, <3>3
  <2> QED
    BY <1>2, <2>1, <2>2 DEF FailFast
<1>6. Part(unsubs', unsubs)
  BY <1>1, PartOfItself
<1>7. Fewer
  BY <1>1, <1>3, <1>5, <1>6 DEF Fewer, Same
<1>8. OnlyWaiting /\ \A d \in Clients : call'[d] # None => Same(d)
  <2>1. ASSUME NEW j \in 1 .. Len(unsubs), Detaching(unsubs[j]) PROVE call'[unsubs[j].client] # None
    <3>1. PICK d \in Clients : d = unsubs[j].client
      BY QueueIs
    <3>2. call[d] # None /\ call[d].kind = "Detach"
      BY <2>1, <3>1, DetachingOnce
    <3>3. Waits(c, n) => call[c].kind = "Attach"
      BY <1>2, <1>3 DEF Called, CallsOK, MailCalls
    <3>4. Same(d)
      BY <1>5, <3>2, <3>3
    <3> QED
      BY <3>1, <3>2, <3>4 DEF Same
  <2> QED
    BY <1>1, <1>5, <2>1 DEF OnlyWaiting
<1>9. StillThere
  BY <1>1 DEF StillThere
<1>10. ASSUME NEW d \in Clients \ late PROVE (call'[d] = call[d] \/ Settled(d)) /\ OutNow(d)
  <2>1. CASE Same(d)
    <3>1. OutNow(d)
      BY <1>1, <1>3, <2>1, OutSame DEF Called, OutNow
    <3> QED
      BY <2>1, <3>1 DEF Same
  <2>2. CASE d = c /\ Waits(c, n) /\ call'[c] = None /\ StandsAs(c)' = StandsAs(c)
    <3>1. \A i \in 1 .. Len(mailbox') : ~Waits(c, mailbox'[i].seq)
      BY <1>3, <2>2 DEF Waits
    <3>2. \A i \in 1 .. Len(mailbox') : \E k \in 1 .. Len(mailbox) : mailbox'[i] = mailbox[k]
      BY <1>3, PartFrom
    <3>3. Settled(c)
      BY <1>1, <1>4, <2>2, <3>1, <3>2 DEF Settled, Called, WaitedOK, MailWaited
    <3>4. OutNow(c)
      BY <1>1, <1>3, <1>4, <2>2, <3>1, OutRefused
    <3> QED
      BY <2>2, <3>3, <3>4
  <2> QED
    BY <1>5, <2>1, <2>2
<1>11. \A d \in Clients : call'[d] # None /\ member[d] = "In" => member'[d] = "In"
  BY <1>8 DEF Same
<1> QED
  BY <1>1, <1>7, <1>8, <1>9, <1>10, <1>11, CalledAnswers

(* An attach that is relayed and waited for is the only thing of its         *)
(* consumer.                                                                 *)
\* A command is awaited in the consumer's own read loop.
LEMMA PendingAlone ==
    ASSUME Typed, Called, NEW p \in sess.pending, Waits(p.client, p.seq)
    PROVE  /\ call[p.client].kind = "Attach" /\ member[p.client] = "In"
           /\ \A i \in 1 .. Len(unsubs) : Detaching(unsubs[i]) => unsubs[i].client # p.client
           /\ \A i \in 1 .. Len(mailbox) : ~Waits(p.client, mailbox[i].seq)
           /\ \A q \in sess.pending : q.client = p.client /\ Waits(q.client, q.seq) => q = p
           /\ p.client \notin late =>
                /\ \A i \in 1 .. Len(mailbox) : mailbox[i].client = p.client => mailbox[i].kind # "Attach"
                /\ \A q \in sess.pending : q.client = p.client => q = p
<1>1. PICK c \in Clients : c = p.client
  BY QueueIs
<1>2. call[c] # None /\ call[c].kind = "Attach" /\ member[c] = "In" /\ call[c].seq = p.seq
  BY <1>1 DEF Called, CallsOK, PendingCalls, CallPlaces, Waits
<1>3. \A i \in 1 .. Len(unsubs) : Detaching(unsubs[i]) => unsubs[i].client # c
  <2>1. call[c] # None /\ call[c].kind = "Attach"
    BY <1>2
  <2> QED
    BY <2>1, AttachingAlone
<1>4. \A i \in 1 .. Len(mailbox) : ~Waits(c, mailbox[i].seq)
  BY <1>2 DEF Called, StampsOK, PendingStamps, Waits
<1>5. ASSUME NEW q \in sess.pending, q.client = c, Waits(q.client, q.seq) PROVE q = p
  <2>1. q.seq = p.seq
    BY <1>2, <1>5 DEF Waits
  <2> QED
    BY <2>1 DEF Called, StampsOK, PendingStamps
<1>6. c \notin late =>
        /\ \A i \in 1 .. Len(mailbox) : mailbox[i].client = c => mailbox[i].kind # "Attach"
        /\ \A q \in sess.pending : q.client = c => q = p
  BY <1>4, <1>5 DEF Called, WaitedOK, MailWaited, PendingWaited
<1> QED
  BY <1>1, <1>2, <1>3, <1>4, <1>5, <1>6

(* A refusal removes the proxy its attach made, and leaves one that was      *)
(* there before.                                                             *)
\* resolve_pending, roll_back_subscription.
LEMMA CalledReply ==
    ASSUME Typed, Typed', Called, NEW f \in LinkFrame, ReceiveReply(f), UNCHANGED <<mailbox, unsubs, stamp, late>>
    PROVE  Called'
<1>1. PICK p \in sess.pending :
        /\ sess' = Resolved(sess, p, f.ok)
        /\ Answered({d \in {p.client} : Waits(d, p.seq)}, IF f.ok THEN member ELSE Refused)
  BY DEF ReceiveReply
<1>2. Resolves(sess, sess', p, f.ok) /\ sess'.pending = sess.pending \ {p} /\ f.ok \in BOOLEAN
      /\ \A d \in Clients : sess'.subs[d] # None => sess.subs[d] # None
  BY <1>1, ReplyIs DEF ReceiveReply
<1>3. PICK c \in Clients : c = p.client
  BY QueueIs
<1>4. \/ ~Waits(c, p.seq) /\ \A d \in Clients : Same(d)
      \/ /\ Waits(c, p.seq) /\ call'[c] = None
         /\ f.ok => member'[c] = member[c]
         /\ ~f.ok => StandsAs(c)' = StandsAs(c)
         /\ \A d \in Clients \ {c} : Same(d)
  <2>1. PICK cs : cs = {d \in {p.client} : Waits(d, p.seq)}
    OBVIOUS
  <2>2. CASE Waits(c, p.seq)
    <3>1. c \in cs
      BY <2>1, <2>2, <1>3
    <3>2. CASE f.ok
      <4>1. Answered(cs, member)
        BY <1>1, <2>1, <3>2
      <4> QED
        BY <1>3, <2>1, <2>2, <3>1, <3>2, <4>1, AnsweredIs
    <3>3. CASE ~f.ok
      <4>1. Answered(cs, Refused)
        BY <1>1, <2>1, <3>3
      <4> QED
        BY <1>3, <2>1, <2>2, <3>1, <3>3, <4>1, AnsweredIs, RefusedIs
    <3> QED
      BY <3>2, <3>3
  <2>3. CASE ~Waits(c, p.seq)
    <3>1. PICK st : st = IF f.ok THEN member ELSE Refused
      OBVIOUS
    <3>2. Answered(cs, st) /\ \A d \in Clients : d \notin cs
      BY <1>1, <1>3, <2>1, <2>3, <3>1
    <3> QED
      BY <2>3, <3>2, AnsweredIs
  <2> QED
    BY <2>2, <2>3
<1>5. Part(unsubs', unsubs) /\ Part(mailbox', mailbox)
  BY PartOfItself
<1>6. Fewer
  BY <1>2, <1>4, <1>5 DEF Fewer, Same
<1>7. OnlyWaiting /\ \A d \in Clients : call'[d] # None => Same(d)
  <2>1. ASSUME NEW j \in 1 .. Len(unsubs), Detaching(unsubs[j]) PROVE call'[unsubs[j].client] # None
    <3>1. PICK d \in Clients : d = unsubs[j].client
      BY QueueIs
    <3>2. call[d] # None
      BY <2>1, <3>1, DetachingOnce
    <3>3. Waits(c, p.seq) => d # c
      BY <1>3, <2>1, <3>1, PendingAlone
    <3>4. Same(d)
      BY <1>4, <3>3
    <3> QED
      BY <3>1, <3>2, <3>4 DEF Same
  <2> QED
    BY <1>4, <2>1 DEF OnlyWaiting
<1>8. StillThere
  BY DEF StillThere
<1>9. ASSUME NEW d \in Clients \ late PROVE (call'[d] = call[d] \/ Settled(d)) /\ OutNow(d)
  <2>1. CASE Same(d) /\ (d = c => ~Waits(c, p.seq))
    <3>1. p.client # d
      BY <1>3, <2>1 DEF Called, WaitedOK, PendingWaited
    <3>2. OutNow(d)
      BY <1>2, <1>5, <2>1, <3>1, OutSame DEF Called, OutNow
    <3> QED
      BY <2>1, <3>2 DEF Same
  <2>2. CASE d = c /\ Waits(c, p.seq) /\ call'[c] = None
    <3>1. Settled(c)
      BY <1>2, <1>3, <2>2, PendingAlone DEF Settled
    <3>2. CASE f.ok
      <4>1. StandsAs(c)' = "In"
        BY <1>3, <1>4, <2>2, <3>2, PendingAlone DEF StandsAs
      <4> QED
        BY <2>2, <3>1, <4>1 DEF OutNow, OutMail, OutProxy, LeavingMail
    <3>3. CASE ~f.ok
      <4>1. StandsAs(c)' = StandsAs(c)
        BY <1>4, <2>2, <3>3
      <4>2. StandsAs(c) = "Out" => sess'.subs[c] = None
        <5>1. SUFFICES ASSUME StandsAs(c) = "Out", sess'.subs[c] # None PROVE FALSE
          OBVIOUS
        <5>2. sess.subs[c] # None
          BY <5>1, <1>2
        <5>3. PICK q \in sess.pending : q.client = c /\ q.effect = "New"
          BY <2>2, <5>1, <5>2 DEF Called, OutOK, OutProxy
        <5>4. q = p
          BY <1>3, <2>2, <5>3, PendingAlone
        <5>5. PICK x \in Subscriber \cup {None} :
                /\ RollsBack(sess.subs[p.client], x, p.effect)
                /\ sess'.subs = [sess.subs EXCEPT ![p.client] = x]
          BY <1>2, <3>3 DEF Resolves, Has
        <5>6. x = None
          BY <5>3, <5>4, <5>5 DEF RollsBack
        <5>7. sess.subs \in Proxies
          BY SessionIs DEF Typed, LinkIs, LinkTyped
        <5> QED
          BY <1>3, <5>1, <5>5, <5>6, <5>7 DEF Proxies
      <4>3. \A i \in 1 .. Len(mailbox') : ~Waits(c, mailbox'[i].seq)
        BY <1>3, <2>2, PendingAlone
      <4>4. OutNow(c)
        BY <1>5, <2>2, <4>1, <4>2, <4>3, OutRefused
      <4> QED
        BY <2>2, <3>1, <4>4
    <3> QED
      BY <1>2, <3>2, <3>3
  <2> QED
    BY <1>4, <2>1, <2>2
<1>10. \A d \in Clients : call'[d] # None /\ member[d] = "In" => member'[d] = "In"
  BY <1>7 DEF Same
<1> QED
  BY <1>6, <1>7, <1>8, <1>9, <1>10, CalledAnswers

(* A lost link refuses what was on it and leaves no proxy.                   *)
\* teardown.
LEMMA CalledTeardown ==
    ASSUME Typed, Typed', Called, Teardown, UNCHANGED <<mailbox, unsubs, stamp, late>>
    PROVE  Called'
<1>1. PICK cs : cs = {c \in Clients : \E p \in sess.pending : p.client = c /\ Waits(c, p.seq)}
  OBVIOUS
<1>2. Answered(cs, Refused) /\ sess' = NewSession
  BY <1>1 DEF Teardown
<1>3. sess'.pending = {} /\ \A d \in Clients : sess'.subs[d] = None
  BY <1>2, NewSessionIs
<1>4. \A d \in Clients : \/ d \notin cs /\ Same(d)
                         \/ d \in cs /\ call'[d] = None /\ StandsAs(d)' = StandsAs(d)
  BY <1>2, AnsweredIs, RefusedIs
<1>5. Part(unsubs', unsubs) /\ Part(mailbox', mailbox)
  BY PartOfItself
<1>6. Fewer
  BY <1>3, <1>4, <1>5 DEF Fewer, Same
<1>7. OnlyWaiting /\ \A d \in Clients : call'[d] # None => Same(d)
  <2>1. ASSUME NEW j \in 1 .. Len(unsubs), Detaching(unsubs[j]) PROVE call'[unsubs[j].client] # None
    <3>1. PICK d \in Clients : d = unsubs[j].client
      BY QueueIs
    <3>2. call[d] # None
      BY <2>1, <3>1, DetachingOnce
    <3>3. d \notin cs
      BY <1>1, <2>1, <3>1, PendingAlone
    <3>4. Same(d)
      BY <1>4, <3>3
    <3> QED
      BY <3>1, <3>2, <3>4 DEF Same
  <2> QED
    BY <1>4, <2>1 DEF OnlyWaiting
<1>8. StillThere
  BY DEF StillThere
<1>9. ASSUME NEW d \in Clients \ late PROVE (call'[d] = call[d] \/ Settled(d)) /\ OutNow(d)
  <2>1. CASE Same(d)
    <3>1. OutNow(d)
      BY <1>3, <1>5, <2>1, OutSame DEF Called, OutNow
    <3> QED
      BY <2>1, <3>1 DEF Same
  <2>2. CASE d \in cs /\ call'[d] = None /\ StandsAs(d)' = StandsAs(d)
    <3>1. PICK p \in sess.pending : p.client = d /\ Waits(d, p.seq)
      BY <1>1, <2>2
    <3>2. \A i \in 1 .. Len(mailbox') : ~Waits(d, mailbox'[i].seq)
      BY <3>1, PendingAlone
    <3>3. Settled(d)
      BY <1>3, <3>1, PendingAlone DEF Settled
    <3>4. OutNow(d)
      BY <1>3, <1>5, <2>2, <3>2, OutRefused
    <3> QED
      BY <3>3, <3>4
  <2> QED
    BY <1>4, <2>1, <2>2
<1>10. \A d \in Clients : call'[d] # None /\ member[d] = "In" => member'[d] = "In"
  BY <1>7 DEF Same
<1> QED
  BY <1>6, <1>7, <1>8, <1>9, <1>10, CalledAnswers

-----------------------------------------------------------------------------
(* Every step keeps what is known of the calls.                              *)

(* A call that times out makes its consumer late, and a withdrawal not yet   *)
(* applied is cancelled.                                                     *)
\* RELAY_COMMAND_TIMEOUT, WithdrawalReceipt.
LEMMA CalledTimesOut ==
    ASSUME Typed, Typed', Called, NEW c \in Clients, TimesOut(c)
    PROVE  Called'
<1>1. call[c] # None /\ late' = late \cup {c} /\ Answered({c}, Refused) /\ UNCHANGED <<mailbox, stamp, sess>>
  BY DEF TimesOut, linkVars
<1>2. call'[c] = None /\ \A d \in Clients \ {c} : Same(d)
  BY <1>1, AnsweredIs
<1>3. unsubs \in Seq(Withdrawal) /\ DOMAIN unsubs = 1 .. Len(unsubs)
  BY DEF Typed, QueueOK
<1>4. \A i \in 1 .. Len(unsubs) : Detaching(unsubs[i]) /\ unsubs[i].client = c => Cancels(c, unsubs[i])
  BY DetachingOnce DEF Cancels, Detaching, Waits
<1>5. \A i \in 1 .. Len(unsubs) : Cancels(c, unsubs[i]) => unsubs[i].client = c /\ Detaching(unsubs[i])
  <2>1. ASSUME NEW i \in 1 .. Len(unsubs), Cancels(c, unsubs[i]) PROVE unsubs[i].client = c /\ Detaching(unsubs[i])
    <3>1. PICK d \in Clients : d = unsubs[i].client
      BY QueueIs
    <3>2. Detaching(unsubs[i]) /\ unsubs[i].seq = call[c].seq
      BY <2>1 DEF Cancels, Detaching
    <3>3. call[d] # None /\ call[d].seq = unsubs[i].seq
      BY <3>1, <3>2, DetachingOnce DEF Waits
    <3>4. d = c
      BY <1>1, <3>2, <3>3 DEF Called, StampsOK, CallStamps
    <3> QED
      BY <3>1, <3>2, <3>4
  <2> QED
    BY <2>1
<1>6. /\ Part(unsubs', unsubs)
      /\ \A j \in 1 .. Len(unsubs') : \E i \in 1 .. Len(unsubs) : unsubs'[j] = unsubs[i]
                                        /\ ~(Detaching(unsubs[i]) /\ unsubs[i].client = c)
      /\ \A i \in 1 .. Len(unsubs) : unsubs[i].client # c => \E j \in 1 .. Len(unsubs') : unsubs'[j] = unsubs[i]
  <2>1. CASE (\A i \in DOMAIN unsubs : ~Cancels(c, unsubs[i])) /\ UNCHANGED unsubs
    BY <2>1, <1>3, <1>4, PartOfItself
  <2>2. ASSUME NEW n \in DOMAIN unsubs, Cancels(c, unsubs[n]), unsubs' = RemoveAt(unsubs, n)
        PROVE  /\ Part(unsubs', unsubs)
               /\ \A j \in 1 .. Len(unsubs') : \E i \in 1 .. Len(unsubs) : unsubs'[j] = unsubs[i]
                                        /\ ~(Detaching(unsubs[i]) /\ unsubs[i].client = c)
               /\ \A i \in 1 .. Len(unsubs) : unsubs[i].client # c => \E j \in 1 .. Len(unsubs') : unsubs'[j] = unsubs[i]
    <3>1. n \in 1 .. Len(unsubs) /\ unsubs[n].client = c /\ Detaching(unsubs[n])
      BY <1>3, <1>5, <2>2
    <3>2. Part(unsubs', unsubs)
      BY <1>3, <2>2, <3>1, RemovePart
    <3>3. ASSUME NEW j \in 1 .. Len(unsubs') PROVE \E i \in 1 .. Len(unsubs) : unsubs'[j] = unsubs[i]
                                        /\ ~(Detaching(unsubs[i]) /\ unsubs[i].client = c)
      <4>1. PICK i \in 1 .. Len(unsubs) : i # n /\ unsubs'[j] = unsubs[i]
        BY <1>3, <2>2, <3>1, RemoveFrom
      <4>2. ~(Detaching(unsubs[i]) /\ unsubs[i].client = c)
        BY <3>1, <4>1, DetachingOnce
      <4> QED
        BY <4>1, <4>2
    <3>4. ASSUME NEW i \in 1 .. Len(unsubs), unsubs[i].client # c PROVE \E j \in 1 .. Len(unsubs') : unsubs'[j] = unsubs[i]
      BY <1>3, <2>2, <3>1, <3>4, RemoveKeeps
    <3> QED
      BY <3>2, <3>3, <3>4
  <2> QED
    BY <2>1, <2>2 DEF TimesOut
<1>7. Fewer
  <2>1. Part(mailbox', mailbox)
    BY <1>1, PartOfItself
  <2> QED
    BY <1>1, <1>2, <1>6, <2>1 DEF Fewer, Same
<1>8. OnlyWaiting
  <2>1. ASSUME NEW j \in 1 .. Len(unsubs'), Detaching(unsubs'[j]) PROVE call'[unsubs'[j].client] # None
    <3>1. PICK i \in 1 .. Len(unsubs) : unsubs'[j] = unsubs[i] /\ ~(Detaching(unsubs[i]) /\ unsubs[i].client = c)
      BY <1>6
    <3>2. PICK d \in Clients : d = unsubs[i].client /\ d # c
      BY <2>1, <3>1, QueueIs
    <3>3. call[d] # None
      BY <2>1, <3>1, <3>2, DetachingOnce
    <3> QED
      BY <1>2, <3>1, <3>2, <3>3 DEF Same
  <2> QED
    BY <2>1 DEF OnlyWaiting
<1>9. StillThere
  BY <1>2, <1>6 DEF StillThere
<1>10. ASSUME NEW d \in Clients \ late' PROVE (call'[d] = call[d] \/ Settled(d)) /\ OutNow(d)
  <2>1. d # c /\ d \notin late
    BY <1>1
  <2>2. Same(d)
    BY <1>2, <2>1
  <2>3. \A i \in 1 .. Len(unsubs) : unsubs[i].client = d /\ unsubs[i].kind = "Client"
                => \E j \in 1 .. Len(unsubs') : unsubs'[j] = unsubs[i]
    BY <1>6, <2>1
  <2>4. OutNow(d)
    BY <1>1, <1>7, <2>1, <2>2, <2>3, OutSame DEF Called, OutNow, Fewer
  <2> QED
    BY <2>2, <2>4 DEF Same
<1>11. \A d \in Clients : call'[d] # None /\ member[d] = "In" => member'[d] = "In"
  BY <1>2 DEF Same
<1> QED
  BY <1>1, <1>7, <1>8, <1>9, <1>10, <1>11, CalledAnswers

(* Withdrawals keep what is known of the calls.                              *)
\* handle_unsubscribe.
LEMMA CalledWithdraw ==
    ASSUME Typed, Typed', Called, ServeDetach \/ ServeDetachClient
    PROVE  Called'
<1>1. unsubs # <<>> /\ unsubs' = Tail(unsubs) /\ UNCHANGED <<mailbox, stamp>>
  BY DEF ServeDetach, ServeDetachClient
<1>2. PICK c \in Clients : c = Head(unsubs).client
  BY <1>1, WithdrawalIs DEF Typed
<1>3. PICK s : s = Withdrawn(sess, c) /\ LinkTyped(s, sat, toHub) /\ s.pending = sess.pending
               /\ s.subs[c] = None /\ \A d \in Clients \ {c} : s.subs[d] = sess.subs[d]
  BY WithdrawnTyped DEF Typed, LinkIs
<1>4. ASSUME Leave(s) \/ Stay(s)
      PROVE  sess'.pending = sess.pending /\ sess'.subs[c] = None
             /\ \A d \in Clients : sess'.subs[d] # None => sess.subs[d] # None
  <2>1. sess'.pending = s.pending /\ sess'.subs = s.subs
    <3>1. CASE Stay(s)
      BY <3>1 DEF Stay
    <3>2. CASE Leave(s)
      BY <3>2, <1>3, LeaveIs DEF Detaches, Has
    <3> QED
      BY <1>4, <3>1, <3>2
  <2> QED
    BY <1>3, <2>1
<1>5. CASE ServeDetach
  <2>1. Head(unsubs).kind = "Terminal"
    BY <1>5 DEF ServeDetach
  <2>2. CASE Superseded(sess, c, Head(unsubs).seq)
    <3>1. Stay(sess) /\ Answered({c}, Refused) /\ UNCHANGED late
      BY <1>2, <1>5, <2>2 DEF ServeDetach
    <3> QED
      BY <1>1, <1>2, <2>1, <3>1, CalledSuperseded DEF Stay
  <2>3. CASE ~Superseded(sess, c, Head(unsubs).seq)
    <3>1. (Leave(s) \/ Stay(s)) /\ Answered({c}, [d \in Clients |-> "Out"]) /\ Overtakes(Head(unsubs))
      BY <1>2, <1>3, <1>5, <2>3 DEF ServeDetach
    <3> QED
      BY <1>1, <1>2, <1>4, <2>1, <3>1, CalledDetached
  <2> QED
    BY <2>2, <2>3
<1>6. CASE ServeDetachClient
  <2>1. Head(unsubs).kind = "Client" /\ UNCHANGED call
    BY <1>6 DEF ServeDetachClient
  <2>2. (Leave(s) \/ Stay(s)) /\ Gone(c) /\ Overtakes(Head(unsubs))
    BY <1>2, <1>3, <1>6 DEF ServeDetachClient
  <2> QED
    BY <1>1, <1>2, <1>4, <2>1, <2>2, CalledGone
<1> QED
  BY <1>5, <1>6

(* A withdrawal dropped while the link is down keeps what is known of the    *)
(* calls.                                                                    *)
\* run_link, the unsubscribe arms.
LEMMA CalledDropWithdrawal ==
    ASSUME Typed, Typed', DownOK, Called, DropWithdrawal
    PROVE  Called'
<1>1. unsubs # <<>> /\ unsubs' = Tail(unsubs) /\ UNCHANGED <<mailbox, stamp, sess>> /\ sess = NewSession
      /\ Overtakes(Head(unsubs))
  BY DEF DropWithdrawal, linkVars, DownOK
<1>2. Head(unsubs).client \in Clients /\ Head(unsubs).kind \in {"Terminal", "Client"}
  BY <1>1, WithdrawalIs DEF Typed
<1>3. \A d \in Clients : sess.subs[d] = None
  BY <1>1, NewSessionIs
<1>4. CASE Head(unsubs).kind = "Terminal"
  <2>1. Answered({Head(unsubs).client}, [d \in Clients |-> "Out"])
    BY <1>4 DEF DropWithdrawal
  <2> QED
    BY <1>1, <1>2, <1>3, <1>4, <2>1, CalledDetached
<1>5. CASE Head(unsubs).kind = "Client"
  <2>1. Gone(Head(unsubs).client) /\ UNCHANGED call
    BY <1>5 DEF DropWithdrawal
  <2> QED
    BY <1>1, <1>2, <1>3, <1>5, <2>1, CalledGone
<1> QED
  BY <1>2, <1>4, <1>5

(* A frame of the link keeps what is known of the calls.                     *)
\* handle_inbound.
LEMMA CalledReceive ==
    ASSUME Typed, Typed', Called, Receive
    PROVE  Called'
<1>1. PICK f \in LinkFrame : f = Head(toHub)
  BY ReceiveFrame DEF Receive
<1>2. UNCHANGED <<mailbox, unsubs, stamp, late>>
  BY DEF Receive
<1>3. CASE ReceiveDetachReply(f)
  <2>1. Has(sess', sess.subs, sess.pending, sess.barriers \ {f.id}, sess.explicit, sess.legacy, None, sess.nextId)
    BY <1>3, DetachReplyIs DEF ReceiveDetachReply
  <2>2. sess'.subs = sess.subs /\ sess'.pending = sess.pending
    BY <2>1 DEF Has
  <2> QED
    BY <1>2, <1>3, <2>2, CalledKept DEF ReceiveDetachReply, NobodyAnswered
<1>4. CASE ReceiveReply(f)
  BY <1>2, <1>4, CalledReply
<1>5. CASE ReceiveUnmatched(f) \/ ReceiveFenced(f)
  BY <1>2, <1>5, CalledKept DEF ReceiveUnmatched, ReceiveFenced, NobodyAnswered
<1>6. CASE ReceiveStream(f)
  <2>1. f.kind # "Result" /\ UNCHANGED <<call, member>>
    BY <1>6 DEF ReceiveStream, NobodyAnswered
  <2>2. sess'.pending = sess.pending /\ \A c \in Clients : sess'.subs[c] # None => sess.subs[c] # None
    <3>1. CASE f.kind = "Closed"
      BY <3>1, <1>6, ReceiveStreamIs DEF Has
    <3>2. CASE f.kind # "Closed"
      BY <3>2, <1>6, <2>1, ReceiveStreamIs, FannedIs DEF Has
    <3> QED
      BY <3>1, <3>2
  <2> QED
    BY <1>2, <2>1, <2>2, CalledLess
<1> QED
  BY <1>1, <1>3, <1>4, <1>5, <1>6 DEF Receive

(* The tick keeps what is known of the calls.                                *)
\* maintain_relay_session.
LEMMA CalledTick ==
    ASSUME Typed, Typed', Called, Tick
    PROVE  Called'
<1>1. sess'.subs = Ticked /\ sess'.pending = sess.pending \ Abandoned
  BY TickIs DEF Has
<1>2. \A c \in Clients : Ticked[c] # None => sess.subs[c] # None
  BY TickIs
<1>3. UNCHANGED <<mailbox, unsubs, stamp, call, member, late>>
  BY DEF Tick, handleVars
<1>4. \A p \in sess.pending : Waits(p.client, p.seq) => p \in sess'.pending
  BY <1>1 DEF Abandoned
<1> QED
  BY <1>1, <1>2, <1>3, <1>4, CalledLess

(* Every step keeps what is known of the calls.                              *)
\* The relay handle and the supervisor.
LEMMA CalledStep == Typed /\ Typed' /\ DownOK /\ Called /\ [Next]_vars => Called'
<1> SUFFICES ASSUME Typed, Typed', DownOK, Called, [Next]_vars PROVE Called'
  OBVIOUS
<1>1. ASSUME UNCHANGED <<mailbox, unsubs, stamp, call, member, late, sess>> PROVE Called'
  BY <1>1, CalledKept
<1>2. CASE UNCHANGED vars
  BY <1>1, <1>2 DEF vars, handleVars, linkVars
<1>3. ASSUME NEW c \in Clients,
             IssueAttach(c) \/ IssueEvents(c) \/ IssueDetach(c) \/ DetachClient(c) \/ TimesOut(c)
      PROVE  Called'
  BY <1>3, CalledIssueAttach, CalledIssueEvents, CalledIssueDetach, CalledDetachClient, CalledTimesOut
<1>4. ASSUME NEW c \in Clients, Reads(c) PROVE Called'
  BY <1>1, <1>4 DEF Reads, handleVars, linkVars
<1>5. CASE ServeRequest \/ ServeUnsubscribe
  BY <1>5, CalledServeAttach, CalledServeEvents, CalledFailFast, CalledWithdraw, CalledDropWithdrawal
  DEF ServeRequest, ServeUnsubscribe
<1>6. CASE ReceiveFault \/ LinkLost
  <2>1. Teardown /\ UNCHANGED <<mailbox, unsubs, stamp, late>>
    BY <1>6 DEF ReceiveFault, LinkLost
  <2> QED
    BY <2>1, CalledTeardown
<1>7. CASE Receive \/ Tick
  BY <1>7, CalledReceive, CalledTick
<1>8. CASE Redial
  BY <1>1, <1>8 DEF Redial, handleVars
<1>9. CASE SatOutputs \/ SatNotes \/ SatRepublishes \/ SatCloses
  BY <1>1, <1>9 DEF SatOutputs, SatNotes, SatRepublishes, SatCloses, Says, handleVars
<1> QED
  BY <1>2, <1>3, <1>4, <1>5, <1>6, <1>7, <1>8, <1>9 DEF Next

(* Nobody waits at the start.                                                *)
\* RelayHandle.
LEMMA InitCalled == Init => Called
<1> SUFFICES ASSUME Init PROVE Called
  OBVIOUS
<1>1. mailbox = <<>> /\ unsubs = <<>> /\ call = [c \in Clients |-> None] /\ sess = NewSession
  BY DEF Init
<1>2. Len(mailbox) = 0 /\ Len(unsubs) = 0 /\ 1 .. 0 = {}
  BY <1>1
<1>3. sess.pending = {} /\ (\A c \in Clients : sess.subs[c] = None) /\ \A c \in Clients : call[c] = None
  BY <1>1, NewSessionIs
<1>4. StampsOK
  BY <1>2, <1>3 DEF StampsOK, MailStamps, PendingStamps, WithdrawalStamps, CallStamps
<1>5. CallsOK
  BY <1>2, <1>3 DEF CallsOK, MailCalls, PendingCalls, WithdrawalCalls, CallPlaces
<1>6. WaitedOK
  BY <1>2, <1>3 DEF WaitedOK, MailWaited, PendingWaited
<1>7. OutOK
  BY <1>2, <1>3 DEF OutOK, OutMail, OutProxy, LeavingMail
<1> QED
  BY <1>4, <1>5, <1>6, <1>7 DEF Called

(* A consumer that is out, waits for nothing and is not late has no proxy.   *)
\* withdraw_terminal, roll_back_subscription.
LEMMA CalledOut == Called => OnlyALateRequestIsNotWithdrawn
<1> SUFFICES ASSUME Called, NEW c \in Clients \ late, member[c] = "Out", call[c] = None PROVE sess.subs[c] = None
  BY DEF OnlyALateRequestIsNotWithdrawn
<1>1. StandsAs(c) = "Out" /\ OutProxy(c)
  BY DEF StandsAs, Called, OutOK
<1>2. \A p \in sess.pending : p.client # c
  BY IdleAlone
<1> QED
  BY <1>1, <1>2 DEF OutProxy

(* In every behaviour a consumer that knows itself out and waits for nothing *)
(* has no proxy on the link, through refusals, closes and lost links, unless *)
(* an answer overtook an older request of its own.                           *)
\* command_inner, unsubscribe_terminal, roll_back_subscription, teardown.
THEOREM LateRequests == Spec => []OnlyALateRequestIsNotWithdrawn
<1>1. Init => Typed /\ DownOK /\ Called
  BY InitTyped, InitCalled
<1>2. Typed /\ DownOK /\ Called /\ [Next]_vars => Typed' /\ DownOK' /\ Called'
  BY TypedStep, DownStep, CalledStep
<1>3. Called => OnlyALateRequestIsNotWithdrawn
  BY CalledOut
<1> QED
  BY <1>1, <1>2, <1>3, PTL DEF Spec

====
