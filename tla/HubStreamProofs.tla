---- MODULE HubStreamProofs ----
(* Proofs about the stream a federation hub relays: until a resync the hub   *)
(* never finds the link at fault, and no consumer's kernel fails unless it   *)
(* missed a frame.                                                           *)
(*                                                                           *)
(* The frames on their way are a run from the stream the hub has followed so *)
(* far to the one the satellite is at now; a replica, with what is retained  *)
(* for it, is where the hub is.  Every step continues the run at one of its  *)
(* ends.                                                                     *)
EXTENDS HubRelayProofs

-----------------------------------------------------------------------------
(* The link as a run.                                                        *)

\* A stream, part by part.
At(a, g, d, n) == a \in Stream /\ a.gen = g /\ a.ready = d /\ a.next = n

(* The fields of a stream, from its record.                                  *)
\* The frames between the satellite and handle_inbound.
LEMMA StreamAt ==
    ASSUME NEW g \in Named, NEW d \in Flags, NEW n \in Nat, NEW a, a = [gen |-> g, ready |-> d, next |-> n]
    PROVE  At(a, g, d, n)
  BY DEF At, Stream, Named, Flags

(* A stream, field by field.                                                 *)
\* The frames between the satellite and handle_inbound.
LEMMA StreamIs ==
    ASSUME NEW a \in Stream
    PROVE  a.gen \in Named /\ a.ready \in Flags /\ a.next \in Nat /\ a = [gen |-> a.gen, ready |-> a.ready, next |-> a.next]
  BY DEF Stream, Named, Flags

(* What the satellite streams now.                                           *)
\* forward_live, on the satellite.
LEMMA StreamingIs ==
    ASSUME NEW w \in Satellite
    PROVE  At(Streaming(w), w.gen, TRUE, w.seq + 1)
<1>1. w.gen \in Named /\ w.seq + 1 \in Nat /\ TRUE \in Flags
  BY SatelliteIs DEF Flags
<1> QED
  BY <1>1, StreamAt DEF Streaming

(* A frame may be said after a resync if it may be said before one, and      *)
(* whatever barriers it does not answer.                                     *)
\* The frames between the satellite and handle_inbound.
LEMMA EmitsMore ==
    ASSUME NEW f \in LinkFrame, NEW a, NEW e, NEW b, NEW c, NEW x, NEW y, Emits(f, a, e, b, x),
           x => y, f.kind = "Result" => (f.id \in b <=> f.id \in c)
    PROVE  Emits(f, a, e, c, y)
<1>1. f.kind \in {"Begin", "Ready", "Output", "Tombstone", "Event", "Closed", "Result"}
  BY Kinds
<1> QED
  BY <1>1 DEF Emits

\* The barriers change only by ids that nothing on its way answers.
SameAnswers(q, b, c) == \A i \in 1 .. Len(q) : q[i].kind = "Result" => (q[i].id \in b <=> q[i].id \in c)

(* The same of all that is on its way.                                       *)
\* The frames between the satellite and handle_inbound.
LEMMA LedMore ==
    ASSUME NEW a, NEW q \in Frames, NEW b, NEW c, NEW x, NEW y, NEW e, Led(a, q, b, x, e), x => y, SameAnswers(q, b, c)
    PROVE  Led(a, q, c, y, e)
<1>1. PICK r : Runs(r, q, b, x, e) /\ r[1] = a
  BY DEF Led
<1>2. \A i \in 1 .. Len(q) : Emits(q[i], r[i], r[i + 1], c, y)
  <2> TAKE i \in 1 .. Len(q)
  <2>1. q[i] \in LinkFrame
    BY ElementOf DEF Frames
  <2>2. PICK f \in LinkFrame : f = q[i]
    BY <2>1
  <2>3. f.kind = "Result" => (f.id \in b <=> f.id \in c)
    BY <2>2 DEF SameAnswers
  <2>4. Emits(f, r[i], r[i + 1], b, x)
    BY <1>1, <2>2 DEF Runs
  <2> QED
    BY <2>2, <2>3, <2>4, EmitsMore
<1> QED
  BY <1>1, <1>2 DEF Runs, Led

(* With nothing on its way the hub is where the satellite is.                *)
\* The frames between the satellite and handle_inbound.
LEMMA LedNowhere ==
    ASSUME NEW a \in Stream, NEW b, NEW x
    PROVE  Led(a, <<>>, b, x, a)
<1>1. PICK r : r = [i \in 1 .. 1 |-> a]
  OBVIOUS
<1>2. Len(<<>>) = 0
  OBVIOUS
<1>3. Runs(r, <<>>, b, x, a) /\ r[1] = a
  BY <1>1, <1>2 DEF Runs
<1> QED
  BY <1>3 DEF Led

(* Both ends of a run are streams; they are one if nothing is on its way.    *)
\* The frames between the satellite and handle_inbound.
LEMMA LedEnds ==
    ASSUME NEW a, NEW q \in Frames, NEW b, NEW x, NEW e, Led(a, q, b, x, e)
    PROVE  a \in Stream /\ e \in Stream /\ (q = <<>> => a = e)
<1>1. PICK r : Runs(r, q, b, x, e) /\ r[1] = a
  BY DEF Led
<1>2. PICK m \in Nat : m = Len(q)
  BY DEF Frames
<1>3. 1 \in 1 .. m + 1 /\ m + 1 \in 1 .. m + 1
  BY <1>2
<1>4. q = <<>> => m + 1 = 1
  BY <1>2
<1> QED
  BY <1>1, <1>2, <1>3, <1>4 DEF Runs

(* The satellite says one more frame.                                        *)
\* The frames between the satellite and handle_inbound.
LEMMA LedAppend ==
    ASSUME NEW a, NEW q \in Frames, NEW b, NEW x, NEW e, Led(a, q, b, x, e),
           NEW f \in LinkFrame, NEW e2 \in Stream, Emits(f, e, e2, b, x)
    PROVE  Led(a, Append(q, f), b, x, e2)
<1>1. PICK r : Runs(r, q, b, x, e) /\ r[1] = a
  BY DEF Led
<1>2. PICK m \in Nat : m = Len(q)
  BY DEF Frames
<1>3. PICK q2 : q2 = Append(q, f)
  OBVIOUS
<1>4. Len(q2) = m + 1 /\ q2[m + 1] = f /\ \A i \in 1 .. m : q2[i] = q[i]
  BY <1>2, <1>3, AppendOf DEF Frames
<1>5. PICK r2 : r2 = [i \in 1 .. (m + 1) + 1 |-> IF i = (m + 1) + 1 THEN e2 ELSE r[i]]
  OBVIOUS
<1>6. r \in [1 .. m + 1 -> Stream] /\ r[m + 1] = e /\ \A i \in 1 .. m : Emits(q[i], r[i], r[i + 1], b, x)
  BY <1>1, <1>2 DEF Runs
<1>7. r2 \in [1 .. (m + 1) + 1 -> Stream] /\ r2[(m + 1) + 1] = e2 /\ \A i \in 1 .. m + 1 : r2[i] = r[i]
  BY <1>5, <1>6
<1>8. \A i \in 1 .. m + 1 : Emits(q2[i], r2[i], r2[i + 1], b, x)
  <2> TAKE i \in 1 .. m + 1
  <2>1. CASE i \in 1 .. m
    <3>1. i + 1 \in 1 .. m + 1
      BY <2>1
    <3> QED
      BY <1>4, <1>6, <1>7, <2>1, <3>1
  <2>2. CASE i = m + 1
    BY <1>4, <1>6, <1>7, <2>2
  <2> QED
    BY <2>1, <2>2
<1>9. r2[1] = a
  <2>1. 1 \in 1 .. m + 1
    OBVIOUS
  <2> QED
    BY <1>1, <1>7, <2>1
<1>10. Runs(r2, q2, b, x, e2)
  BY <1>4, <1>7, <1>8 DEF Runs
<1> QED
  BY <1>3, <1>9, <1>10 DEF Led

(* The hub takes the next frame.                                             *)
\* handle_inbound.
LEMMA LedTail ==
    ASSUME NEW a, NEW q \in Frames, q # <<>>, NEW b, NEW x, NEW e, Led(a, q, b, x, e)
    PROVE  \E a2 : Emits(Head(q), a, a2, b, x) /\ Led(a2, Tail(q), b, x, e)
<1>1. PICK r : Runs(r, q, b, x, e) /\ r[1] = a
  BY DEF Led
<1>2. PICK q2 : q2 = Tail(q)
  OBVIOUS
<1>3. PICK m \in Nat : m = Len(q2) /\ Len(q) = m + 1 /\ Head(q) = q[1]
                       /\ \A i \in 1 .. m : i + 1 \in 1 .. m + 1 /\ q2[i] = q[i + 1]
  <2>1. Len(q2) \in Nat /\ Len(q) = Len(q2) + 1
    BY <1>2, TailOf DEF Frames
  <2> QED
    BY <1>2, <2>1, TailOf DEF Frames
<1>4. r \in [1 .. (m + 1) + 1 -> Stream] /\ r[(m + 1) + 1] = e /\ \A i \in 1 .. m + 1 : Emits(q[i], r[i], r[i + 1], b, x)
  BY <1>1, <1>3 DEF Runs
<1>5. PICK r2 : r2 = [i \in 1 .. m + 1 |-> r[i + 1]]
  OBVIOUS
<1>6. r2 \in [1 .. m + 1 -> Stream] /\ r2[m + 1] = e /\ \A i \in 1 .. m + 1 : r2[i] = r[i + 1]
  BY <1>4, <1>5
<1>7. \A i \in 1 .. m : Emits(q2[i], r2[i], r2[i + 1], b, x)
  <2> TAKE i \in 1 .. m
  <2>1. i \in 1 .. m + 1 /\ i + 1 \in 1 .. m + 1
    OBVIOUS
  <2>2. Emits(q[i + 1], r[i + 1], r[(i + 1) + 1], b, x)
    BY <1>4, <2>1
  <2> QED
    BY <1>3, <1>6, <2>1, <2>2
<1>8. Emits(Head(q), a, r2[1], b, x)
  <2>1. 1 \in 1 .. m + 1 /\ 1 + 1 = 2
    OBVIOUS
  <2>2. Emits(q[1], r[1], r[1 + 1], b, x)
    BY <1>4, <2>1
  <2> QED
    BY <1>1, <1>3, <1>6, <2>1, <2>2
<1>9. Runs(r2, q2, b, x, e)
  BY <1>3, <1>6, <1>7 DEF Runs
<1> QED
  BY <1>2, <1>8, <1>9 DEF Led

\* The stream g at its base n.
On(g, n) == [gen |-> g, ready |-> TRUE, next |-> n + 1]

(* A generation at its base.                                                 *)
\* The frames between the satellite and handle_inbound.
LEMMA OnIs ==
    ASSUME NEW g \in Named, NEW n \in Nat
    PROVE  At(On(g, n), g, TRUE, n + 1)
<1>1. TRUE \in Flags /\ n + 1 \in Nat
  BY DEF Flags
<1> QED
  BY <1>1, StreamAt DEF On

(* The satellite is at the base of its generation plus what it has said.     *)
\* The frames between the satellite and handle_inbound.
LEMMA StreamingOn ==
    ASSUME NEW w
    PROVE  Streaming(w) = On(w.gen, w.seq)
  BY DEF Streaming, On

(* No generation is the absent one.                                          *)
\* The frames between the satellite and handle_inbound.
LEMMA NoneNamed == None \in Named /\ \A g \in Generations : g \in Named /\ g # None
  BY NoneAssumption DEF Named

(* The bootstrap of a generation goes behind the end of the one before.      *)
\* synthesized_bootstrap_frames, on the satellite.
LEMMA AnnouncesLed ==
    ASSUME NEW a, NEW q \in Frames, NEW b, NEW x, NEW e, Led(a, q, b, x, e), ~x => e.gen = None,
           NEW h \in Generations, NEW n \in Nat
    PROVE  Led(a, Announces(q, h, n), b, x, On(h, n))
<1>1. PICK f \in LinkFrame : f = Frame("Begin", h, n)
  BY FramesAre
<1>2. PICK d \in LinkFrame : d = Frame("Ready", h, n)
  BY FramesAre
<1>3. f.kind = "Begin" /\ f.gen = h /\ f.seq = n /\ d.kind = "Ready" /\ d.gen = h
  BY <1>1, <1>2, FramesAre
<1>4. PICK u : u = [gen |-> h, ready |-> FALSE, next |-> n + 1]
  OBVIOUS
<1>5. At(u, h, FALSE, n + 1) /\ u \in Stream
  <2>1. h \in Named /\ FALSE \in Flags /\ n + 1 \in Nat
    BY NoneNamed DEF Flags
  <2>2. At(u, h, FALSE, n + 1)
    BY <1>4, <2>1, StreamAt
  <2> QED
    BY <2>2 DEF At
<1>6. Emits(f, e, u, b, x)
  BY <1>3, <1>4 DEF Emits
<1>7. PICK q1 : q1 = Append(q, f)
  OBVIOUS
<1>8. q1 \in Frames
  BY <1>7, AppendOf DEF Frames
<1>9. Led(a, q1, b, x, u)
  BY <1>5, <1>6, <1>7, LedAppend
<1>10. PICK v : v = On(h, n)
  OBVIOUS
<1>11. v \in Stream
  BY <1>10, OnIs, NoneNamed DEF At
<1>12. Emits(d, u, v, b, x)
  <2>1. v = [gen |-> h, ready |-> TRUE, next |-> u.next]
    BY <1>5, <1>10 DEF At, On
  <2>2. u.gen = h /\ ~u.ready
    BY <1>5 DEF At
  <2> QED
    BY <1>3, <2>1, <2>2 DEF Emits
<1>13. Led(a, Append(q1, d), b, x, v)
  BY <1>8, <1>9, <1>11, <1>12, LedAppend
<1> QED
  BY <1>1, <1>2, <1>7, <1>10, <1>13 DEF Announces

(* An answer that lifts no barrier leaves the stream as it is; a refusal     *)
(* says that nothing streams.                                                *)
\* establish_generation, on the satellite.
LEMMA AnswerLed ==
    ASSUME NEW a, NEW q \in Frames, NEW b, NEW x, NEW e, Led(a, q, b, x, e), NEW i \in Nat, NEW ok \in BOOLEAN,
           i \notin b, ~ok => e.gen = None
    PROVE  Led(a, Append(q, Result(i, ok)), b, x, e)
<1>1. PICK f \in LinkFrame : f = Result(i, ok)
  BY FramesAre
<1>2. f.kind = "Result" /\ f.id = i /\ (f.ok <=> ok)
  BY <1>1, FramesAre
<1>3. e \in Stream
  BY LedEnds
<1>4. Emits(f, e, e, b, x)
  BY <1>2 DEF Emits
<1>5. Led(a, Append(q, f), b, x, e)
  BY <1>3, <1>4, LedAppend
<1> QED
  BY <1>1, <1>5

\* What an explicit attach finds.
Follows(w) == (w.gen # None => w.reg # None /\ w.open) /\ (~w.resynced => w.gen = w.reg)

(* A tombstone ends the generation that streams.                             *)
\* establish_generation, on the satellite.
LEMMA TombstoneLed ==
    ASSUME NEW a, NEW q \in Frames, NEW b, NEW x, NEW e, Led(a, q, b, x, e), NEW g \in Generations, ~x => e.gen = g,
           NEW n \in Nat
    PROVE  Led(a, Append(q, Frame("Tombstone", g, 0)), b, x, On(None, n))
<1>1. PICK f \in LinkFrame : f = Frame("Tombstone", g, 0)
  BY FramesAre
<1>2. f.kind = "Tombstone" /\ f.gen = g
  BY <1>1, FramesAre
<1>3. PICK v : v = On(None, n)
  OBVIOUS
<1>4. v \in Stream /\ v.gen = None
  BY <1>3, OnIs, NoneNamed DEF At
<1>5. Emits(f, e, v, b, x)
  BY <1>2, <1>4 DEF Emits
<1>6. Led(a, Append(q, f), b, x, v)
  BY <1>4, <1>5, LedAppend
<1> QED
  BY <1>1, <1>3, <1>6

(* An explicit attach ends what was registered, and that was all that        *)
(* streamed.                                                                 *)
\* establish_generation, replace_pump, on the satellite.
LEMMA ReplacesLed ==
    ASSUME NEW a, NEW q \in Frames, NEW b, NEW w \in Satellite, Led(a, q, b, w.resynced, Streaming(w)), Follows(w)
    PROVE  Led(a, Replaces(q, w.reg), b, w.resynced, On(None, w.seq))
<1>1. CASE w.reg = None
  <2>1. w.gen = None
    BY <1>1 DEF Follows
  <2>2. Streaming(w) = On(None, w.seq)
    BY <2>1, StreamingOn
  <2> QED
    BY <1>1, <2>2 DEF Replaces
<1>2. CASE w.reg # None
  <2>1. w.reg \in Generations /\ w.seq \in Nat
    BY <1>2, SatelliteIs DEF Named
  <2>2. PICK g \in Generations : g = w.reg
    BY <2>1
  <2>3. PICK n \in Nat : n = w.seq
    BY <2>1
  <2>4. PICK x : x = w.resynced
    OBVIOUS
  <2>5. PICK e : e = Streaming(w)
    OBVIOUS
  <2>6. ~x => e.gen = g
    BY <2>2, <2>4, <2>5, StreamingIs DEF Follows, At
  <2>7. Led(a, Append(q, Frame("Tombstone", g, 0)), b, x, On(None, n))
    BY <2>4, <2>5, <2>6, TombstoneLed
  <2> QED
    BY <1>2, <2>2, <2>3, <2>4, <2>7 DEF Replaces
<1> QED
  BY <1>1, <1>2

(* What the satellite says to an explicit attach continues the run.          *)
\* establish_generation, on the satellite.
LEMMA AttachedLed ==
    ASSUME NEW a, NEW q \in Frames, NEW b, NEW w \in Satellite, Led(a, q, b, w.resynced, Streaming(w)), Follows(w),
           NEW i \in Nat, i \notin b, NEW x \in BOOLEAN, NEW w2, NEW q2, Attached(q, w, i, x, w2, q2)
    PROVE  Led(a, q2, b, w2.resynced, Streaming(w2))
<1>1. PICK rs : rs = w.resynced
  OBVIOUS
<1>2. PICK n \in Nat : n = w.seq
  BY SatelliteIs
<1>3. PICK q1 : q1 = Replaces(q, w.reg)
  OBVIOUS
<1>4. q1 \in Frames
  <2>1. w.reg \in Named
    BY SatelliteIs
  <2>2. <<>> \in Frames
    BY DEF Frames
  <2> QED
    BY <1>3, <2>1, <2>2, ReplacesOn
<1>5. PICK u : u = On(None, n)
  OBVIOUS
<1>6. Led(a, q1, b, rs, u) /\ u.gen = None
  BY <1>1, <1>2, <1>3, <1>5, ReplacesLed, OnIs, NoneNamed DEF At
<1>7. CASE Bounces(q, w, i, w2, q2)
  <2>1. PICK e : e = Streaming(w)
    OBVIOUS
  <2>2. e.gen = None
    BY <1>7, <2>1, StreamingIs DEF Follows, At, Bounces
  <2>3. Led(a, q, b, rs, e)
    BY <1>1, <2>1
  <2>4. Led(a, Append(q, Result(i, FALSE)), b, rs, e)
    BY <2>2, <2>3, AnswerLed
  <2> QED
    BY <1>1, <1>7, <2>1, <2>4 DEF Bounces
<1>8. CASE Denies(q, w, i, w2, q2)
  <2>1. w2.resynced = rs /\ Streaming(w2) = u
    BY <1>1, <1>2, <1>5, <1>8, StreamingOn DEF Refuses, SatHas, Denies
  <2>2. Led(a, Append(q1, Result(i, FALSE)), b, rs, u)
    BY <1>4, <1>6, AnswerLed
  <2> QED
    BY <1>3, <1>8, <2>1, <2>2 DEF Denies
<1>9. CASE Grants(q, w, i, w2, q2)
  <2>1. OwnGen(w) \in Generations
    BY OwnGenIs
  <2>2. PICK h \in Generations : h = OwnGen(w)
    BY <2>1
  <2>3. w2.resynced = rs /\ Streaming(w2) = On(h, n)
    BY <1>1, <1>2, <1>9, <2>2, StreamingOn DEF Serves, SatHas, Grants
  <2>4. Led(a, Announces(q1, h, n), b, rs, On(h, n))
    BY <1>4, <1>6, AnnouncesLed
  <2>5. PICK q3 : q3 = Announces(q1, h, n)
    OBVIOUS
  <2>6. q3 \in Frames
    <3>1. PICK f \in LinkFrame : f = Frame("Begin", h, n)
      BY FramesAre
    <3>2. PICK d \in LinkFrame : d = Frame("Ready", h, n)
      BY FramesAre
    <3>3. PICK q4 : q4 = Append(q1, f)
      OBVIOUS
    <3>4. q4 \in Frames
      BY <1>4, <3>3, AppendOf DEF Frames
    <3>5. Append(q4, d) \in Frames
      BY <3>4, AppendOf DEF Frames
    <3> QED
      BY <2>5, <3>1, <3>2, <3>3, <3>5 DEF Announces
  <2>7. PICK v : v = On(h, n)
    OBVIOUS
  <2>8. Led(a, q3, b, rs, v)
    BY <2>4, <2>5, <2>7
  <2>9. Led(a, Append(q3, Result(i, TRUE)), b, rs, v)
    BY <2>6, <2>8, AnswerLed
  <2>10. q2 = Append(q3, Result(i, TRUE))
    BY <1>2, <1>3, <1>9, <2>2, <2>5 DEF Grants
  <2>11. w2.resynced = rs /\ Streaming(w2) = v
    BY <2>3, <2>7
  <2> QED
    BY <2>9, <2>10, <2>11
<1>10. Bounces(q, w, i, w2, q2) \/ Denies(q, w, i, w2, q2) \/ Grants(q, w, i, w2, q2)
  BY AttachedIs
<1> QED
  BY <1>7, <1>8, <1>9, <1>10

(* A new barrier is one that nothing on its way answers.                     *)
\* encode_terminal_detach: ids are handed out in order.
LEMMA AnswersAbove ==
    ASSUME NEW q \in Frames, NEW n, NEW b, ResultsOK(q, n), NEW m, m = n, n \in Nat
    PROVE  SameAnswers(q, b, b \cup {m})
<1> SUFFICES ASSUME NEW i \in 1 .. Len(q), q[i].kind = "Result"
             PROVE  q[i].id # n
  BY DEF SameAnswers
<1>1. q[i].id < n
  BY DEF ResultsOK
<1> QED
  BY <1>1

(* A detach continues the run: all that streams in front of its answer is    *)
(* behind the barrier.                                                       *)
\* encode_terminal_detach, relay_stream_frame.
LEMMA DetachesLeads ==
    ASSUME NEW s, NEW w, NEW q, LinkTyped(s, w, q), NEW a, SatelliteOK(s, w), Leads(a, s, w, q),
           NEW u, NEW l, NEW s2, NEW w2, NEW q2, Detaches(s, w, q, u, l, s2, w2, q2)
    PROVE  SatelliteOK(s2, w2) /\ Leads(a, s2, w2, q2) /\ s2.barriers # {}
<1>1. PICK n \in Nat : n = s.nextId
  BY SessionIs DEF LinkTyped
<1>2. PICK b : b = s.barriers \cup {n}
  OBVIOUS
<1>3. PICK x : x = w.resynced
  OBVIOUS
<1>4. w \in Satellite /\ q \in Frames /\ ResultsOK(q, n)
  BY <1>1 DEF LinkTyped, IdsOK
<1>5. s2.barriers = b /\ w2.resynced = x /\ w2 \in Satellite /\ w2.gen = None /\ w2.reg = None /\ w2.conn = w.conn
  BY <1>1, <1>2, <1>3 DEF Detaches, Has, SatHas
<1>6. SatelliteOK(s2, w2)
  BY <1>5 DEF SatelliteOK
<1>7. n \in b
  BY <1>2
<1>8. Led(a, q, b, x, Streaming(w))
  <2>1. Led(a, q, s.barriers, x, Streaming(w))
    BY <1>3 DEF Leads
  <2>2. SameAnswers(q, s.barriers, b)
    BY <1>2, <1>4, AnswersAbove
  <2> QED
    BY <1>4, <2>1, <2>2, LedMore
<1>9. PICK e : e = Streaming(w)
  OBVIOUS
<1>10. PICK e2 : e2 = Streaming(w2)
  OBVIOUS
<1>11. e2 \in Stream /\ e2.gen = None
  BY <1>5, <1>10, StreamingIs DEF At
<1>12. PICK f \in LinkFrame : f = Result(n, TRUE)
  BY FramesAre
<1>13. f.kind = "Result" /\ f.id = n
  BY <1>12, FramesAre
<1>14. Emits(f, e, e2, b, x)
  BY <1>7, <1>11, <1>13 DEF Emits
<1>15. Led(a, Append(q, f), b, x, e2)
  BY <1>4, <1>8, <1>9, <1>11, <1>14, LedAppend
<1>16. q2 = Append(q, f)
  BY <1>1, <1>12 DEF Detaches
<1>17. Led(a, q2, s2.barriers, w2.resynced, Streaming(w2))
  BY <1>5, <1>10, <1>15, <1>16
<1>18. s2.barriers # {}
  BY <1>5, <1>7
<1> QED
  BY <1>6, <1>17, <1>18 DEF Leads, Carries

\* What the satellite streams is the hub's doing.
Owned(s) == s.explicit \/ s.barriers # {}

(* After an explicit attach the satellite streams what it registered.        *)
\* establish_generation, on the satellite.
LEMMA AttachedSteady ==
    ASSUME NEW q, NEW w \in Satellite, NEW n, NEW x \in BOOLEAN, NEW w2, NEW q2, Attached(q, w, n, x, w2, q2),
           NEW s, SatelliteOK(s, w), Owned(s), NEW s2
    PROVE  SatelliteOK(s2, w2) /\ w2.resynced = w.resynced /\ w2 \in Satellite
<1>1. CASE Bounces(q, w, n, w2, q2)
  <2>1. w2 = w
    BY <1>1 DEF Bounces
  <2> QED
    BY <2>1 DEF SatelliteOK, Owned
<1>2. CASE Denies(q, w, n, w2, q2)
  <2>1. w2.gen = None /\ w2.reg = None /\ w2.conn = w.conn /\ w2.resynced = w.resynced /\ w2 \in Satellite
    BY <1>2 DEF Denies, Refuses, SatHas
  <2> QED
    BY <2>1 DEF SatelliteOK
<1>3. CASE Grants(q, w, n, w2, q2)
  <2>1. PICK h : h = OwnGen(w)
    OBVIOUS
  <2>2. h[1] = w.conn /\ h # None
    BY <2>1, OwnGenIs, NoneNamed
  <2>3. w2.gen = h /\ w2.reg = h /\ w2.conn = w.conn /\ w2.resynced = w.resynced /\ w2 \in Satellite /\ w2.open = w.open /\ w.open
    BY <1>3, <2>1 DEF Grants, Serves, SatHas
  <2> QED
    BY <2>2, <2>3 DEF SatelliteOK
<1>4. Bounces(q, w, n, w2, q2) \/ Denies(q, w, n, w2, q2) \/ Grants(q, w, n, w2, q2)
  BY AttachedIs
<1> QED
  BY <1>1, <1>2, <1>3, <1>4

(* An explicit attach continues the run.                                     *)
\* handle_request_checked.
LEMMA AttachesLeads ==
    ASSUME NEW s, NEW w, NEW q, LinkTyped(s, w, q), NEW a, SatelliteOK(s, w), Leads(a, s, w, q),
           Owned(s), NEW c, NEW seq, NEW x \in BOOLEAN,
           NEW y, NEW s2, NEW w2, NEW q2, Attaches(s, w, q, c, seq, x, y, s2, w2, q2)
    PROVE  SatelliteOK(s2, w2) /\ Leads(a, s2, w2, q2)
<1>1. PICK n \in Nat : n = s.nextId
  BY SessionIs DEF LinkTyped
<1>2. PICK b : b = s.barriers
  OBVIOUS
<1>3. w \in Satellite /\ q \in Frames /\ n \notin b
  <2>1. n \notin b
    <3>1. \A i \in b : i < n
      BY <1>1, <1>2 DEF LinkTyped, IdsOK
    <3> QED
      BY <3>1
  <2> QED
    BY <2>1 DEF LinkTyped
<1>4. Attached(q, w, n, x, w2, q2)
  BY <1>1 DEF Attaches
<1>5. SatelliteOK(s2, w2) /\ w2.resynced = w.resynced
  BY <1>3, <1>4, AttachedSteady
<1>6. Follows(w)
  <2>1. w.gen # None => w.open
    BY DEF SatelliteOK
  <2>2. (w.gen # None => w.reg # None) /\ (~w.resynced => w.gen = w.reg)
    BY DEF SatelliteOK, Owned
  <2> QED
    BY <2>1, <2>2 DEF Follows
<1>7. Led(a, q, b, w.resynced, Streaming(w))
  BY <1>2 DEF Leads
<1>8. Led(a, q2, b, w2.resynced, Streaming(w2))
  BY <1>3, <1>4, <1>6, <1>7, AttachedLed
<1>9. s2.barriers = b /\ s2.flow = s.flow
  BY <1>2 DEF Attaches, Has
<1>10. Carries(s2, w2, a)
  BY <1>2, <1>5, <1>9 DEF Carries, Leads
<1> QED
  BY <1>5, <1>8, <1>9, <1>10 DEF Leads

\* a is the stream the hub has followed so far.
Steady(a) == SatelliteOK(sess, sat) /\ Leads(a, sess, sat, toHub)

(* The cut continues the run, and what streams behind it is the hub's doing. *)
\* prepare_request, prepare_content_cut.
LEMMA CutLeads ==
    ASSUME Typed, NEW a, Steady(a), NEW s1, NEW w1, NEW q1, CutFirst(s1, w1, q1)
    PROVE  SatelliteOK(s1, w1) /\ Leads(a, s1, w1, q1) /\ Owned(s1)
<1>1. LinkTyped(sess, sat, toHub) /\ SatelliteOK(sess, sat) /\ Leads(a, sess, sat, toHub)
  BY DEF Typed, LinkIs, Steady
<1>2. CASE NeedsCut(sess)
  <2>1. Detaches(sess, sat, toHub, sess.subs, sess.legacy, s1, w1, q1)
    BY <1>2 DEF CutFirst
  <2> QED
    BY <1>1, <2>1, DetachesLeads DEF Owned
<1>3. CASE ~NeedsCut(sess)
  BY <1>1, <1>3 DEF CutFirst, NeedsCut, Owned
<1> QED
  BY <1>2, <1>3

(* An attach taken from the mailbox continues the run.                       *)
\* prepare_request, send_relay_request.
LEMMA SteadyServeAttach ==
    ASSUME Typed, NEW a, Steady(a), ServeAttach
    PROVE  Steady(a)'
<1>1. PICK x \in BOOLEAN : \E s1, w1, q1, y : ServedAttach(Head(mailbox).client, Head(mailbox).seq, x, s1, w1, q1, y)
  BY ServeAttachIs
<1>2. PICK s1, w1, q1, y : ServedAttach(Head(mailbox).client, Head(mailbox).seq, x, s1, w1, q1, y)
  BY <1>1
<1>3. PICK c : c = Head(mailbox).client
  OBVIOUS
<1>4. PICK n : n = Head(mailbox).seq
  OBVIOUS
<1>5. CutFirst(s1, w1, q1) /\ LinkTyped(s1, w1, q1) /\ Attaches(s1, w1, q1, c, n, x, y, sess', sat', toHub')
  BY <1>2, <1>3, <1>4 DEF ServedAttach
<1>6. SatelliteOK(s1, w1) /\ Leads(a, s1, w1, q1) /\ Owned(s1)
  BY <1>5, CutLeads
<1>7. SatelliteOK(sess', sat') /\ Leads(a, sess', sat', toHub')
  BY <1>5, <1>6, AttachesLeads
<1> QED
  BY <1>7 DEF Steady

(* A step that touches neither what the satellite streams nor what the hub   *)
(* has followed continues the run.                                           *)
\* The frames between the satellite and handle_inbound.
LEMMA LeadsSame ==
    ASSUME NEW s, NEW w \in Satellite, NEW q, NEW a, SatelliteOK(s, w), Leads(a, s, w, q),
           NEW s2, NEW w2 \in Satellite, s2.barriers = s.barriers, s2.explicit => s.explicit, s2.flow = s.flow,
           w2.conn = w.conn, w2.gen = w.gen, w2.reg = w.reg, w2.open = w.open, w2.seq = w.seq, w2.resynced = w.resynced
    PROVE  SatelliteOK(s2, w2) /\ Leads(a, s2, w2, q)
<1>1. Streaming(w2) = Streaming(w)
  BY DEF Streaming
<1>2. SatelliteOK(s2, w2)
  BY DEF SatelliteOK
<1> QED
  BY <1>1, <1>2 DEF Leads, Carries

(* An event subscription taken from the mailbox continues the run.           *)
\* subscribe_forward.
LEMMA SteadyServeEvents ==
    ASSUME Typed, NEW a, Steady(a), ServeEvents
    PROVE  Steady(a)'
<1>1. PICK y : ServedEvents(Head(mailbox).client, y)
  BY ServeEventsIs
<1>2. PICK s2, w2, q2 : s2 = sess' /\ w2 = sat' /\ q2 = toHub'
  OBVIOUS
<1>3. s2.barriers = sess.barriers /\ (s2.explicit <=> sess.explicit) /\ s2.flow = sess.flow /\ q2 = toHub
  BY <1>1, <1>2 DEF ServedEvents, Has
<1>4. w2 \in Satellite /\ w2.conn = sat.conn /\ w2.gen = sat.gen /\ w2.reg = sat.reg /\ w2.open = sat.open
      /\ w2.seq = sat.seq /\ w2.resynced = sat.resynced
  BY <1>1, <1>2 DEF ServedEvents, SatHas
<1>5. sat \in Satellite /\ SatelliteOK(sess, sat) /\ Leads(a, sess, sat, toHub)
  BY DEF Steady, Typed, LinkIs, LinkTyped
<1>6. SatelliteOK(s2, w2) /\ Leads(a, s2, w2, toHub)
  BY <1>3, <1>4, <1>5, LeadsSame
<1> QED
  BY <1>2, <1>3, <1>6 DEF Steady

(* Leaving or staying continues the run.                                     *)
\* encode_withdrawals.
LEMMA SteadyWithdraw ==
    ASSUME Typed, NEW a, Steady(a), NEW s, LinkTyped(s, sat, toHub), s.barriers = sess.barriers,
           s.explicit <=> sess.explicit, s.flow = sess.flow, Leave(s) \/ Stay(s)
    PROVE  Steady(a)' /\ sat'.resynced = sat.resynced
<1>1. sat \in Satellite /\ SatelliteOK(sess, sat) /\ Leads(a, sess, sat, toHub)
  BY DEF Steady, Typed, LinkIs, LinkTyped
<1>2. SatelliteOK(s, sat) /\ Leads(a, s, sat, toHub)
  BY <1>1, LeadsSame
<1>3. CASE Stay(s)
  BY <1>2, <1>3 DEF Stay, Steady
<1>4. CASE Leave(s)
  <2>1. Detaches(s, sat, toHub, s.subs, FALSE, sess', sat', toHub')
    BY <1>4, LeaveIs
  <2>2. SatelliteOK(sess', sat') /\ Leads(a, sess', sat', toHub')
    BY <1>2, <2>1, DetachesLeads
  <2> QED
    BY <2>1, <2>2 DEF Steady, Detaches, SatHas
<1> QED
  BY <1>3, <1>4

(* A withdrawal taken from its channel continues the run.                    *)
\* handle_unsubscribe.
LEMMA SteadyServeDetach ==
    ASSUME Typed, NEW a, Steady(a), ServeDetach \/ ServeDetachClient
    PROVE  Steady(a)' /\ sat'.resynced = sat.resynced
<1>1. LinkTyped(sess, sat, toHub)
  BY DEF Typed, LinkIs
<1>2. PICK c : c = Head(unsubs).client
  OBVIOUS
<1>3. unsubs # <<>>
  BY DEF ServeDetach, ServeDetachClient
<1>4. c \in Clients
  BY <1>2, <1>3, WithdrawalIs DEF Typed
<1>5. PICK s : s = Withdrawn(sess, c)
  OBVIOUS
<1>6. LinkTyped(s, sat, toHub) /\ s.barriers = sess.barriers /\ (s.explicit <=> sess.explicit) /\ s.flow = sess.flow
  BY <1>1, <1>4, <1>5, WithdrawnTyped
<1>7. Leave(s) \/ Stay(s) \/ Stay(sess)
  BY <1>2, <1>5 DEF ServeDetach, ServeDetachClient
<1>8. CASE Stay(sess)
  BY <1>8 DEF Stay, Steady
<1> QED
  BY <1>6, <1>7, <1>8, SteadyWithdraw

\* The hub's flow and the stream it has followed.
Agrees(flow, x, a) ==
    /\ flow # None => a.gen = flow.gen /\ a.ready = flow.ready
    /\ ~x /\ a.gen # None => flow # None

(* A frame that the hub admits keeps its flow and the stream it has followed *)
(* together.                                                                 *)
\* enforce_stream_frame_flow, begin_bootstrap_flow, finish_bootstrap_flow,
\* retire_bootstrap_flow.
LEMMA AgreesOn ==
    ASSUME NEW flow \in Flows, NEW f \in LinkFrame, f.kind # "Result", FlowAccepts(flow, f),
           NEW a \in Stream, NEW a2 \in Stream, NEW b, NEW x, Emits(f, a, a2, b, x), Agrees(flow, x, a)
    PROVE  Agrees(FlowAfter(flow, f), x, a2)
<1>1. PICK h : h = FlowAfter(flow, f)
  OBVIOUS
<1>2. /\ f.kind = "Begin" => h = [gen |-> f.gen, ready |-> FALSE] /\ h # None
      /\ f.kind = "Ready" => flow # None /\ h # None /\ h.gen = flow.gen /\ h.ready
      /\ f.kind \in {"Tombstone", "Closed"} => h = None
      /\ f.kind \in {"Output", "Event", "Result"} => h = flow
      /\ h \in Flows
  BY <1>1, FlowAfterIs
<1>3. CASE f.kind = "Begin"
  <2>1. a2 = [gen |-> f.gen, ready |-> FALSE, next |-> f.seq + 1]
    BY <1>3 DEF Emits
  <2>2. a2.gen = f.gen /\ a2.ready = FALSE
    BY <2>1
  <2>3. h = [gen |-> f.gen, ready |-> FALSE] /\ h # None
    BY <1>2, <1>3
  <2>4. h.gen = f.gen /\ h.ready = FALSE
    BY <2>3
  <2> QED
    BY <1>1, <2>2, <2>3, <2>4 DEF Agrees
<1>4. CASE f.kind = "Ready"
  <2>1. a2 = [gen |-> f.gen, ready |-> TRUE, next |-> a.next] /\ a.gen = f.gen
    BY <1>4 DEF Emits
  <2>2. flow # None /\ flow.gen = a.gen
    BY <1>2, <1>4 DEF Agrees
  <2>3. h.ready = TRUE
    <3>1. h \in Flow
      BY <1>2, <1>4 DEF Flows
    <3>2. h.ready \in BOOLEAN
      BY <3>1 DEF Flow
    <3> QED
      BY <1>2, <1>4, <3>2
  <2>4. a2.gen = h.gen /\ a2.ready = h.ready /\ h # None
    BY <1>2, <1>4, <2>1, <2>2, <2>3
  <2> QED
    BY <1>1, <2>4 DEF Agrees
<1>5. CASE f.kind = "Output"
  <2>1. a2 = [gen |-> f.gen, ready |-> TRUE, next |-> f.seq + 1] /\ a.gen = f.gen /\ a.ready
    BY <1>5 DEF Emits
  <2>2. a.ready = TRUE
    <3>1. a.ready \in BOOLEAN
      BY StreamIs DEF Flags
    <3> QED
      BY <2>1, <3>1
  <2>3. h = flow
    BY <1>2, <1>5
  <2>4. a2.gen = a.gen /\ a2.ready = a.ready
    BY <2>1, <2>2
  <2> QED
    BY <1>1, <2>3, <2>4 DEF Agrees
<1>6. CASE f.kind \in {"Tombstone", "Closed"}
  <2>1. a2.gen = None
    BY <1>6 DEF Emits
  <2>2. h = None
    BY <1>2, <1>6
  <2> QED
    BY <1>1, <2>1, <2>2 DEF Agrees
<1>7. CASE f.kind = "Event"
  <2>1. a2 = a /\ h = flow
    BY <1>2, <1>7 DEF Emits
  <2> QED
    BY <1>1, <2>1
<1>8. f.kind \in {"Begin", "Ready", "Output", "Tombstone", "Event", "Closed", "Result"}
  BY Kinds
<1> QED
  BY <1>3, <1>4, <1>5, <1>6, <1>7, <1>8

(* Until a resync the hub admits whatever the satellite says.                *)
\* enforce_stream_frame_flow.
LEMMA Admits ==
    ASSUME NEW flow \in Flows, NEW f \in LinkFrame, f.kind # "Result",
           NEW a \in Stream, NEW a2, NEW b, NEW x, ~x, Emits(f, a, a2, b, x), Agrees(flow, x, a)
    PROVE  FlowAccepts(flow, f)
<1>1. f.kind \in {"Begin", "Ready", "Output", "Tombstone", "Event", "Closed", "Result"}
  BY Kinds
<1>2. f.kind \in {"Begin", "Ready", "Output", "Tombstone"} => f.gen \in Generations /\ f.gen # None
  BY Kinds, NoneNamed
<1>3. CASE f.kind = "Begin"
  <2>1. a.gen = None
    BY <1>3 DEF Emits
  <2>2. flow # None => flow.gen \in Generations
    BY DEF Flows, Flow
  <2>3. flow = None
    BY <2>1, <2>2, NoneNamed DEF Agrees
  <2> QED
    BY <1>3, <2>3 DEF FlowAccepts
<1>4. CASE f.kind = "Ready"
  <2>1. a.gen = f.gen /\ ~a.ready
    BY <1>4 DEF Emits
  <2>2. flow # None /\ flow.gen = f.gen /\ ~flow.ready
    BY <1>2, <1>4, <2>1 DEF Agrees
  <2> QED
    BY <1>4, <2>2 DEF FlowAccepts
<1>5. CASE f.kind = "Output"
  <2>1. a.gen = f.gen /\ a.ready
    BY <1>5 DEF Emits
  <2>2. flow # None /\ flow.gen = f.gen /\ flow.ready
    BY <1>2, <1>5, <2>1 DEF Agrees
  <2> QED
    BY <1>5, <2>2 DEF FlowAccepts
<1>6. CASE f.kind = "Tombstone"
  <2>1. a.gen = f.gen
    BY <1>6 DEF Emits
  <2>2. flow # None /\ flow.gen = f.gen
    BY <1>2, <1>6, <2>1 DEF Agrees
  <2> QED
    BY <1>6, <2>2 DEF FlowAccepts
<1>7. CASE f.kind \in {"Event", "Closed"}
  BY <1>7 DEF FlowAccepts
<1> QED
  BY <1>1, <1>3, <1>4, <1>5, <1>6, <1>7

(* The hub's idea of what the link carries counts while there is no barrier. *)
\* relay_stream_frame.
LEMMA CarriesIs ==
    ASSUME NEW s, NEW w, NEW a
    PROVE  Carries(s, w, a) <=> (s.barriers = {} => Agrees(s.flow, w.resynced, a))
  BY DEF Carries, Agrees

\* The hub takes the next frame of the link.
Followed(a, a2) == Emits(Head(toHub), a, a2, sess.barriers, sat.resynced)

(* The next frame of the link is one of the run.                             *)
\* handle_inbound.
LEMMA Follow ==
    ASSUME Typed, NEW a, Steady(a), toHub # <<>>
    PROVE  \E a2 : /\ Followed(a, a2) /\ a \in Stream /\ a2 \in Stream
                   /\ Led(a2, Tail(toHub), sess.barriers, sat.resynced, Streaming(sat))
<1>1. PICK q \in Frames : q = toHub
  BY DEF Typed, LinkIs, LinkTyped
<1>2. PICK b, x, e : b = sess.barriers /\ x = sat.resynced /\ e = Streaming(sat)
  OBVIOUS
<1>3. Led(a, q, b, x, e)
  BY <1>1, <1>2 DEF Steady, Leads
<1>4. PICK a2 : Emits(Head(q), a, a2, b, x) /\ Led(a2, Tail(q), b, x, e)
  BY <1>1, <1>3, LedTail
<1>5. Tail(q) \in Frames
  BY <1>1, TailOf DEF Frames
<1>6. PICK t \in Frames : t = Tail(q)
  BY <1>5
<1>7. a2 \in Stream /\ a \in Stream
  <2>1. Led(a2, t, b, x, e)
    BY <1>4, <1>6
  <2> QED
    BY <1>3, <2>1, LedEnds
<1> QED
  BY <1>1, <1>2, <1>4, <1>7 DEF Followed

(* The run goes on from where the frame leaves it.                           *)
\* handle_inbound.
LEMMA SteadyOn ==
    ASSUME Typed, NEW a, Steady(a), NEW a2, Led(a2, Tail(toHub), sess.barriers, sat.resynced, Streaming(sat)),
           toHub' = Tail(toHub), sat' = sat, toHub # <<>>,
           SameAnswers(Tail(toHub), sess.barriers, sess'.barriers), sess'.barriers \subseteq sess.barriers,
           sess'.explicit => sess.explicit, Carries(sess', sat, a2)
    PROVE  Steady(a2)'
<1>1. Tail(toHub) \in Frames
  BY TailOf DEF Typed, LinkIs, LinkTyped, Frames
<1>2. PICK t \in Frames : t = Tail(toHub)
  BY <1>1
<1>3. PICK b, c, x, e : b = sess.barriers /\ c = sess'.barriers /\ x = sat.resynced /\ e = Streaming(sat)
  OBVIOUS
<1>4. Led(a2, t, b, x, e) /\ SameAnswers(t, b, c)
  BY <1>2, <1>3
<1>5. Led(a2, t, c, x, e)
  BY <1>4, LedMore
<1>6. SatelliteOK(sess', sat)
  BY DEF SatelliteOK, Steady
<1> QED
  BY <1>2, <1>3, <1>5, <1>6 DEF Steady, Leads

(* A frame of the link is followed.                                          *)
\* handle_inbound.
LEMMA SteadyReceive ==
    ASSUME Typed, NEW a, Steady(a), Receive
    PROVE  \E a2 : Followed(a, a2) /\ Steady(a2)'
<1>1. toHub # <<>> /\ toHub' = Tail(toHub) /\ sat' = sat
  BY DEF Receive
<1>2. PICK a2 : /\ Followed(a, a2) /\ a \in Stream /\ a2 \in Stream
                /\ Led(a2, Tail(toHub), sess.barriers, sat.resynced, Streaming(sat))
  BY <1>1, Follow
<1>3. PICK f \in LinkFrame : f = Head(toHub)
  BY <1>1, ReceiveFrame
<1>4. Emits(f, a, a2, sess.barriers, sat.resynced)
  BY <1>2, <1>3 DEF Followed
<1>5. SameAnswers(Tail(toHub), sess.barriers, sess.barriers)
  BY DEF SameAnswers
<1>6. Carries(sess, sat, a)
  BY DEF Steady, Leads
<1>7. sess \in Session /\ sess.flow \in Flows
  BY SessionIs DEF Typed, LinkIs, LinkTyped
<1>8. CASE ReceiveDetachReply(f)
  <2>1. Has(sess', sess.subs, sess.pending, sess.barriers \ {f.id}, sess.explicit, sess.legacy, None, sess.nextId)
    BY <1>8, DetachReplyIs DEF ReceiveDetachReply
  <2>2. sess'.barriers = sess.barriers \ {f.id} /\ (sess'.explicit <=> sess.explicit) /\ sess'.flow = None
    BY <2>1 DEF Has
  <2>3. f.kind = "Result" /\ f.id \in sess.barriers
    BY <1>8 DEF ReceiveDetachReply
  <2>4. a2.gen = None
    BY <1>4, <2>3 DEF Emits
  <2>5. Carries(sess', sat, a2)
    BY <2>2, <2>4 DEF Carries
  <2>6. SameAnswers(Tail(toHub), sess.barriers, sess'.barriers)
    <3>1. ResultsOK(toHub, sess.nextId) /\ toHub \in Frames
      BY DEF Typed, LinkIs, LinkTyped, IdsOK
    <3>2. \A i \in 1 .. Len(Tail(toHub)) : Tail(toHub)[i].kind = "Result" => Tail(toHub)[i].id # f.id
      BY <1>1, <1>3, <2>3, <3>1, ResultsTail
    <3> QED
      BY <2>2, <3>2 DEF SameAnswers
  <2>7. Steady(a2)'
    BY <1>1, <1>2, <2>2, <2>5, <2>6, SteadyOn
  <2> QED
    BY <1>2, <2>7
<1>9. CASE ReceiveReply(f)
  <2>1. PICK p \in sess.pending : p.id = f.id /\ sess' = Resolved(sess, p, f.ok)
    BY <1>9 DEF ReceiveReply
  <2>2. f.kind = "Result"
    BY <1>9 DEF ReceiveReply
  <2>3. Resolves(sess, sess', p, f.ok)
    BY <2>1, <2>2, ReplyIs
  <2>4. sess'.barriers = sess.barriers /\ (sess'.explicit <=> sess.explicit) /\ sess'.flow = sess.flow
    BY <2>3 DEF Resolves, Has
  <2>5. f.id \notin sess.barriers
    BY <2>1 DEF Typed, LinkIs, LinkTyped, Apart
  <2>6. a2 = a
    BY <1>4, <2>2, <2>5 DEF Emits
  <2>7. Carries(sess', sat, a2)
    BY <1>6, <2>4, <2>6 DEF Carries
  <2>8. Steady(a2)'
    BY <1>1, <1>2, <1>5, <2>4, <2>7, SteadyOn
  <2> QED
    BY <1>2, <2>8
<1>10. CASE ReceiveUnmatched(f)
  <2>1. f.kind = "Result" /\ f.id \notin sess.barriers /\ sess' = sess
    BY <1>10 DEF ReceiveUnmatched
  <2>2. a2 = a
    BY <1>4, <2>1 DEF Emits
  <2>3. Carries(sess', sat, a2)
    BY <1>6, <2>1, <2>2
  <2>4. Steady(a2)'
    BY <1>1, <1>2, <1>5, <2>1, <2>3, SteadyOn
  <2> QED
    BY <1>2, <2>4
<1>11. CASE ReceiveFenced(f)
  <2>1. sess.barriers # {} /\ sess' = sess
    BY <1>11 DEF ReceiveFenced, Fenced
  <2>2. Carries(sess', sat, a2)
    BY <2>1 DEF Carries
  <2>3. Steady(a2)'
    BY <1>1, <1>2, <1>5, <2>1, <2>2, SteadyOn
  <2> QED
    BY <1>2, <2>3
<1>12. CASE ReceiveStream(f)
  <2>1. f.kind # "Result" /\ FlowAccepts(sess.flow, f)
    BY <1>12 DEF ReceiveStream
  <2>2. sess'.barriers = sess.barriers /\ (sess'.explicit => sess.explicit) /\ sess'.flow = FlowAfter(sess.flow, f)
    BY <1>12, ReceiveStreamIs DEF Has
  <2>3. Carries(sess', sat, a2)
    <3>1. sess.barriers = {} => Agrees(sess.flow, sat.resynced, a)
      BY <1>6, CarriesIs
    <3>2. PICK b, x : b = sess.barriers /\ x = sat.resynced
      OBVIOUS
    <3>3. PICK flow \in Flows : flow = sess.flow /\ b = sess.barriers /\ x = sat.resynced
      BY <1>7, <3>2
    <3>4. Agrees(flow, x, a) => Agrees(FlowAfter(flow, f), x, a2)
      BY <1>2, <1>4, <2>1, <3>3, AgreesOn
    <3>5. sess'.barriers = {} => Agrees(sess'.flow, sat.resynced, a2)
      BY <2>2, <3>1, <3>3, <3>4
    <3>6. PICK s2 : s2 = sess'
      OBVIOUS
    <3>7. Carries(s2, sat, a2)
      BY <3>5, <3>6, CarriesIs
    <3> QED
      BY <3>6, <3>7
  <2>4. Steady(a2)'
    BY <1>1, <1>2, <1>5, <2>2, <2>3, SteadyOn
  <2> QED
    BY <1>2, <2>4
<1> QED
  BY <1>3, <1>8, <1>9, <1>10, <1>11, <1>12 DEF Receive

(* A new connection starts a new run.                                        *)
\* teardown.
LEMMA SteadyTeardown ==
    ASSUME Typed, NEW a, Steady(a), Teardown, UNCHANGED connected
    PROVE  \E a2 \in Stream : a2.gen = None /\ Steady(a2)'
<1>1. /\ sess' = NewSession /\ toHub' = <<>>
      /\ SatHas(sat', sat.conn + 1, None, None, 1, FALSE, sat.seq, sat.open, 0, sat.reused, sat.resynced)
  BY TeardownIs
<1>2. PICK w2, s2 : w2 = sat' /\ s2 = sess'
  OBVIOUS
<1>3. w2 \in Satellite /\ w2.gen = None /\ w2.reg = None /\ w2.conn = sat.conn + 1
  BY <1>1, <1>2 DEF SatHas
<1>4. PICK a2 : a2 = Streaming(w2)
  OBVIOUS
<1>5. a2 \in Stream /\ a2.gen = None
  BY <1>3, <1>4, StreamingIs DEF At
<1>6. PICK b, x : b = s2.barriers /\ x = w2.resynced
  OBVIOUS
<1>7. Led(a2, <<>>, b, x, a2)
  BY <1>5, LedNowhere
<1>8. s2.flow = None
  BY <1>1, <1>2, NewSessionIs
<1>9. SatelliteOK(s2, w2)
  <2>1. sat.conn \in Nat
    BY SatelliteIs DEF Typed, LinkIs, LinkTyped
  <2>2. w2.conn > 0
    BY <1>3, <2>1
  <2> QED
    BY <1>3, <2>2 DEF SatelliteOK
<1>10. Leads(a2, s2, w2, <<>>)
  BY <1>4, <1>5, <1>6, <1>7, <1>8 DEF Leads, Carries
<1>11. Steady(a2)'
  BY <1>1, <1>2, <1>9, <1>10 DEF Steady
<1> QED
  BY <1>5, <1>11

(* A frame the hub does not admit comes after a resync.                      *)
\* enforce_stream_frame_flow, run_relay_session.
LEMMA NoBlame ==
    ASSUME Typed, NEW a, Steady(a), ReceiveFault
    PROVE  sat.resynced
<1>1. toHub # <<>> /\ Head(toHub).kind # "Result" /\ ~Fenced(sess, Head(toHub)) /\ ~FlowAccepts(sess.flow, Head(toHub))
  BY DEF ReceiveFault
<1>2. PICK f \in LinkFrame : f = Head(toHub)
  BY <1>1, ReceiveFrame
<1>3. PICK a2 : Followed(a, a2) /\ a \in Stream
  BY <1>1, Follow
<1>4. PICK b, x : b = sess.barriers /\ x = sat.resynced
  OBVIOUS
<1>5. Emits(f, a, a2, b, x)
  BY <1>2, <1>3, <1>4 DEF Followed
<1>6. f.kind \in {"Begin", "Ready", "Output", "Tombstone"}
  <2>1. f.kind \in {"Begin", "Ready", "Output", "Tombstone", "Event", "Closed", "Result"}
    BY Kinds
  <2>2. f.kind \in {"Event", "Closed"} => FlowAccepts(sess.flow, f)
    BY DEF FlowAccepts
  <2> QED
    BY <1>1, <1>2, <2>1, <2>2
<1>7. b = {}
  BY <1>1, <1>2, <1>4, <1>6 DEF Fenced
<1>8. sess.flow \in Flows
  BY SessionIs DEF Typed, LinkIs, LinkTyped
<1>9. PICK flow \in Flows : flow = sess.flow
  BY <1>8
<1>10. Agrees(flow, x, a)
  BY <1>4, <1>7, <1>9, CarriesIs DEF Steady, Leads
<1>11. x
  BY <1>1, <1>2, <1>3, <1>5, <1>9, <1>10, Admits
<1> QED
  BY <1>4, <1>11

(* The tick continues the run.                                               *)
\* maintain_relay_session.
LEMMA SteadyTick ==
    ASSUME Typed, NEW a, Steady(a), Tick
    PROVE  Steady(a)'
<1>1. sess'.barriers = sess.barriers /\ (sess'.explicit <=> sess.explicit) /\ sess'.flow = sess.flow
  BY TickIs DEF Has
<1>2. UNCHANGED <<sat, toHub>>
  BY DEF Tick
<1>3. PICK s2 : s2 = sess'
  OBVIOUS
<1>4. sat \in Satellite
  BY DEF Typed, LinkIs, LinkTyped
<1>5. SatelliteOK(s2, sat) /\ Leads(a, s2, sat, toHub)
  BY <1>1, <1>3, <1>4, LeadsSame DEF Steady
<1> QED
  BY <1>2, <1>3, <1>5 DEF Steady

(* The satellite said something: the run is longer.                          *)
\* The frames between the satellite and handle_inbound.
LEMMA SteadySays ==
    ASSUME Typed, NEW a, Steady(a), sess' = sess, SatelliteOK(sess, sat'), sat.resynced => sat'.resynced,
           Led(a, toHub', sess.barriers, sat'.resynced, Streaming(sat'))
    PROVE  Steady(a)'
  BY DEF Steady, Leads, Carries

(* One more frame of the satellite, if it may be said.                       *)
\* The frames between the satellite and handle_inbound.
LEMMA SaysLed ==
    ASSUME Typed, NEW a, Steady(a), NEW f \in LinkFrame, toHub' = Append(toHub, f), sat'.resynced = sat.resynced,
           Streaming(sat') \in Stream, Emits(f, Streaming(sat), Streaming(sat'), sess.barriers, sat.resynced)
    PROVE  Led(a, toHub', sess.barriers, sat'.resynced, Streaming(sat'))
<1>1. PICK q \in Frames : q = toHub
  BY DEF Typed, LinkIs, LinkTyped
<1>2. PICK e2 \in Stream : e2 = Streaming(sat')
  OBVIOUS
<1>3. PICK b, x, e : b = sess.barriers /\ x = sat.resynced /\ e = Streaming(sat)
  OBVIOUS
<1>4. Led(a, q, b, x, e)
  BY <1>1, <1>3 DEF Steady, Leads
<1>5. Emits(f, e, e2, b, x)
  BY <1>2, <1>3
<1>6. Led(a, Append(q, f), b, x, e2)
  BY <1>4, <1>5, LedAppend
<1> QED
  BY <1>1, <1>2, <1>3, <1>6

(* What the satellite streams after a step.                                  *)
\* The frames between the satellite and handle_inbound.
LEMMA SatStreaming ==
    ASSUME Typed'
    PROVE  Streaming(sat') \in Stream /\ Streaming(sat').gen = sat'.gen
<1>1. PICK w \in Satellite : w = sat'
  BY DEF Typed, LinkIs, LinkTyped
<1> QED
  BY <1>1, StreamingIs DEF At

(* Output of the satellite continues the run.                                *)
\* forward_live, on the satellite.
LEMMA SteadySatOutputs ==
    ASSUME Typed, NEW a, Steady(a), SatOutputs
    PROVE  Steady(a)'
<1>1. /\ Typed' /\ sat.gen \in Generations /\ sat.gen # None
      /\ Speaks(Frame("Output", sat.gen, sat.seq + 1))
      /\ SatHas(sat', sat.conn, sat.gen, sat.reg, sat.counter, sat.events, sat.seq + 1, sat.open, sat.top,
                sat.reused, sat.resynced)
  BY SatOutputsIs
<1>2. PICK n \in Nat : n = sat.seq
  BY SatelliteIs DEF Typed, LinkIs, LinkTyped
<1>3. PICK h \in Generations : h = sat.gen
  BY <1>1
<1>4. PICK m \in Nat : m = n + 1
  OBVIOUS
<1>5. PICK f \in LinkFrame : f = Frame("Output", h, m)
  BY FramesAre
<1>6. f.kind = "Output" /\ f.gen = h /\ f.seq = m
  BY <1>5, FramesAre
<1>7. toHub' = Append(toHub, f)
  BY <1>1, <1>2, <1>3, <1>4, <1>5 DEF Speaks
<1>8. sat'.gen = h /\ sat'.seq = m /\ sat'.resynced = sat.resynced /\ sat'.reg = sat.reg /\ sat'.conn = sat.conn
      /\ sat'.open = sat.open
  BY <1>1, <1>2, <1>3, <1>4 DEF SatHas
<1>9. Streaming(sat') = [gen |-> h, ready |-> TRUE, next |-> m + 1]
  BY <1>8 DEF Streaming
<1>10. Streaming(sat).gen = h /\ Streaming(sat).ready /\ Streaming(sat).next = m
  BY <1>2, <1>3, <1>4 DEF Streaming
<1>11. Emits(f, Streaming(sat), Streaming(sat'), sess.barriers, sat.resynced)
  BY <1>6, <1>9, <1>10 DEF Emits
<1>12. Led(a, toHub', sess.barriers, sat'.resynced, Streaming(sat'))
  BY <1>1, <1>7, <1>8, <1>11, SaysLed, SatStreaming
<1>13. SatelliteOK(sess, sat')
  BY <1>3, <1>8 DEF SatelliteOK, Steady
<1>14. sess' = sess
  BY DEF SatOutputs, Says
<1> QED
  BY <1>8, <1>12, <1>13, <1>14, SteadySays

(* An event of the satellite continues the run.                              *)
\* The satellite's event push.
LEMMA SteadySatNotes ==
    ASSUME Typed, NEW a, Steady(a), SatNotes
    PROVE  Steady(a)'
<1>1. Typed' /\ Speaks([kind |-> "Event"]) /\ sat' = sat
  BY SatNotesIs
<1>2. PICK f \in LinkFrame : f = [kind |-> "Event"]
  BY NotesAre
<1>3. toHub' = Append(toHub, f) /\ f.kind = "Event"
  BY <1>1, <1>2, NotesAre DEF Speaks
<1>4. Emits(f, Streaming(sat), Streaming(sat'), sess.barriers, sat.resynced)
  BY <1>1, <1>3 DEF Emits
<1>5. Led(a, toHub', sess.barriers, sat'.resynced, Streaming(sat'))
  BY <1>1, <1>3, <1>4, SaysLed, SatStreaming
<1>6. SatelliteOK(sess, sat')
  BY <1>1 DEF Steady
<1>7. sess' = sess
  BY DEF SatNotes, Says
<1> QED
  BY <1>1, <1>5, <1>6, <1>7, SteadySays

(* A close of the satellite's terminal continues the run.                    *)
\* reap_terminal, on the satellite.
LEMMA SteadySatCloses ==
    ASSUME Typed, NEW a, Steady(a), SatCloses
    PROVE  Steady(a)'
<1>1. /\ Typed' /\ Speaks([kind |-> "Closed"])
      /\ SatHas(sat', sat.conn, None, None, sat.counter, sat.events, sat.seq, FALSE, sat.top, sat.reused, sat.resynced)
  BY SatClosesIs
<1>2. PICK f \in LinkFrame : f = [kind |-> "Closed"]
  BY NotesAre
<1>3. toHub' = Append(toHub, f) /\ f.kind = "Closed"
  BY <1>1, <1>2, NotesAre DEF Speaks
<1>4. sat'.gen = None /\ sat'.reg = None /\ sat'.conn = sat.conn /\ sat'.resynced = sat.resynced
  BY <1>1 DEF SatHas
<1>5. Streaming(sat') \in Stream /\ Streaming(sat').gen = None
  BY <1>1, <1>4, SatStreaming
<1>6. Emits(f, Streaming(sat), Streaming(sat'), sess.barriers, sat.resynced)
  BY <1>3, <1>5 DEF Emits
<1>7. Led(a, toHub', sess.barriers, sat'.resynced, Streaming(sat'))
  BY <1>3, <1>4, <1>5, <1>6, SaysLed
<1>8. SatelliteOK(sess, sat')
  BY <1>4 DEF SatelliteOK, Steady
<1>9. sess' = sess
  BY DEF SatCloses, Says
<1> QED
  BY <1>4, <1>7, <1>8, <1>9, SteadySays

(* A resync of the satellite continues the run.                              *)
\* republish_generation, on the satellite.
LEMMA SteadySatRepublishes ==
    ASSUME Typed, NEW a, Steady(a), SatRepublishes
    PROVE  Steady(a)' /\ sat'.resynced
<1>1. /\ Typed' /\ sat.gen \in Generations /\ sat.gen # None
      /\ toHub' = Announces(Append(toHub, Frame("Tombstone", sat.gen, 0)), NextGen(sat.gen), sat.seq)
      /\ SatHas(sat', sat.conn, NextGen(sat.gen), sat.reg, sat.counter, sat.events, sat.seq, sat.open,
                IF NextGen(sat.gen)[1] = sat.conn /\ NextGen(sat.gen)[2] > sat.top THEN NextGen(sat.gen)[2] ELSE sat.top,
                sat.reused \/ (NextGen(sat.gen)[1] = sat.conn /\ NextGen(sat.gen)[2] <= sat.top), TRUE)
  BY SatRepublishesIs
<1>2. PICK n \in Nat : n = sat.seq
  BY SatelliteIs DEF Typed, LinkIs, LinkTyped
<1>3. PICK g \in Generations : g = sat.gen
  BY <1>1
<1>4. PICK h \in Generations : h = NextGen(g) /\ h[1] = g[1]
  BY NextGenIs
<1>5. sat'.gen = h /\ sat'.seq = n /\ sat'.resynced = TRUE /\ sat'.reg = sat.reg /\ sat'.conn = sat.conn /\ sat'.open = sat.open
  BY <1>1, <1>2, <1>3, <1>4 DEF SatHas
<1>6. PICK q \in Frames : q = toHub
  BY DEF Typed, LinkIs, LinkTyped
<1>7. PICK b, x, e : b = sess.barriers /\ x = sat.resynced /\ e = Streaming(sat)
  OBVIOUS
<1>8. Led(a, q, b, x, e)
  BY <1>6, <1>7 DEF Steady, Leads
<1>9. Led(a, q, b, TRUE, e)
  <2>1. SameAnswers(q, b, b)
    BY DEF SameAnswers
  <2> QED
    BY <1>8, <2>1, LedMore
<1>10. Led(a, Append(q, Frame("Tombstone", g, 0)), b, TRUE, On(None, n))
  BY <1>9, TombstoneLed
<1>11. PICK q1 : q1 = Append(q, Frame("Tombstone", g, 0))
  OBVIOUS
<1>12. q1 \in Frames
  BY <1>11, FramesAre, AppendOf DEF Frames
<1>13. PICK u : u = On(None, n)
  OBVIOUS
<1>14. Led(a, q1, b, TRUE, u)
  BY <1>10, <1>11, <1>13
<1>15. Led(a, Announces(q1, h, n), b, TRUE, On(h, n))
  BY <1>12, <1>14, AnnouncesLed
<1>16. toHub' = Announces(q1, h, n)
  BY <1>1, <1>2, <1>3, <1>4, <1>6, <1>11
<1>17. Streaming(sat') = On(h, n)
  BY <1>5 DEF Streaming, On
<1>18. Led(a, toHub', sess.barriers, sat'.resynced, Streaming(sat'))
  BY <1>5, <1>7, <1>15, <1>16, <1>17
<1>19. SatelliteOK(sess, sat')
  <2>1. h # None
    BY NoneNamed
  <2> QED
    BY <1>3, <1>4, <1>5, <2>1, NoneNamed DEF SatelliteOK, Steady
<1>20. sess' = sess
  BY DEF SatRepublishes, Says
<1>21. sat'.resynced
  BY <1>5
<1> QED
  BY <1>18, <1>19, <1>20, <1>21, SteadySays

(* At the start the hub has followed nothing, and a SPAWN's bootstrap may be *)
(* on its way.                                                               *)
\* A SPAWN's stream.
LEMMA SteadyInit ==
    ASSUME Init
    PROVE  Steady(On(None, 0))
<1>1. SatHas(sat, 1, IF Spawned THEN SpawnGen ELSE None, None, 1, FALSE, 0, TRUE, 0, FALSE, FALSE)
  BY InitSatellite
<1>2. toHub = IF Spawned THEN Announces(<<>>, SpawnGen, 0) ELSE <<>>
  BY InitLink
<1>3. sess = NewSession
  BY DEF Init
<1>4. sess.barriers = {} /\ ~sess.explicit /\ sess.flow = None
  BY <1>3, NewSessionIs
<1>5. PICK a : a = On(None, 0)
  OBVIOUS
<1>6. a \in Stream /\ a.gen = None
  BY <1>5, OnIs, NoneNamed DEF At
<1>7. PICK b, x : b = sess.barriers /\ x = sat.resynced
  OBVIOUS
<1>8. Led(a, <<>>, b, x, a)
  BY <1>6, LedNowhere
<1>9. Led(a, toHub, b, x, Streaming(sat))
  <2>1. CASE Spawned
    <3>1. <<>> \in Frames /\ SpawnGen \in Generations
      BY SpawnIs DEF Frames
    <3>2. PICK q \in Frames, h \in Generations : q = <<>> /\ h = SpawnGen
      BY <3>1
    <3>3. Led(a, Announces(q, h, 0), b, x, On(h, 0))
      BY <1>6, <1>8, <3>2, AnnouncesLed
    <3>4. Streaming(sat) = On(h, 0)
      BY <1>1, <2>1, <3>2, StreamingOn DEF SatHas
    <3> QED
      BY <1>2, <2>1, <3>2, <3>3, <3>4
  <2>2. CASE ~Spawned
    <3>1. Streaming(sat) = a
      BY <1>1, <1>5, <2>2, StreamingOn DEF SatHas
    <3> QED
      BY <1>2, <1>8, <2>2, <3>1
  <2> QED
    BY <2>1, <2>2
<1>10. Leads(a, sess, sat, toHub)
  BY <1>4, <1>6, <1>7, <1>9 DEF Leads, Carries
<1>11. SatelliteOK(sess, sat)
  <2>1. sat.conn = 1 /\ sat.reg = None /\ sat.open = TRUE /\ (sat.gen # None => sat.gen[1] = 0)
    BY <1>1, SpawnIs DEF SatHas
  <2> QED
    BY <1>4, <2>1 DEF SatelliteOK
<1> QED
  BY <1>5, <1>10, <1>11 DEF Steady

\* A run of the link goes on under every step.
SteadyLink == \E a : Steady(a)

\* The link is found at fault only after a resync.
Blameless == blamed => sat.resynced

(* Every step continues the run, and the link is not blamed before a resync. *)
\* The supervisor and the satellite.
LEMMA SteadyStep == Typed /\ SteadyLink /\ Blameless /\ [Next]_vars => SteadyLink' /\ Blameless'
<1> SUFFICES ASSUME Typed, SteadyLink, Blameless, [Next]_vars
             PROVE  SteadyLink' /\ Blameless'
  OBVIOUS
<1>1. PICK a : Steady(a)
  BY DEF SteadyLink
<1>2. ASSUME UNCHANGED <<sess, sat, toHub, blamed>> PROVE SteadyLink' /\ Blameless'
  BY <1>1, <1>2 DEF Steady, SteadyLink, Blameless
<1>3. CASE UNCHANGED vars
  BY <1>2, <1>3 DEF vars, linkVars
<1>4. ASSUME NEW c \in Clients,
             IssueAttach(c) \/ IssueEvents(c) \/ IssueDetach(c) \/ DetachClient(c) \/ TimesOut(c) \/ Reads(c)
      PROVE  SteadyLink' /\ Blameless'
  BY <1>2, <1>4 DEF IssueAttach, IssueEvents, IssueDetach, DetachClient, TimesOut, Reads, linkVars
<1>5. CASE FailFast \/ DropWithdrawal \/ Redial
  BY <1>5, <1>2 DEF FailFast, DropWithdrawal, Redial, linkVars
<1>6. CASE ServeAttach
  <2>1. PICK x \in BOOLEAN : \E s1, w1, q1, y : ServedAttach(Head(mailbox).client, Head(mailbox).seq, x, s1, w1, q1, y)
    BY <1>6, ServeAttachIs
  <2>2. PICK s1, w1, q1, y : ServedAttach(Head(mailbox).client, Head(mailbox).seq, x, s1, w1, q1, y)
    BY <2>1
  <2>3. sat'.resynced = sat.resynced
    <3>1. CutFirst(s1, w1, q1) /\ LinkTyped(s1, w1, q1) /\ Attached(q1, w1, s1.nextId, x, sat', toHub')
      BY <2>2 DEF ServedAttach, Attaches
    <3>2. w1.resynced = sat.resynced
      BY <3>1 DEF CutFirst, Detaches, SatHas
    <3>3. SatelliteOK(s1, w1) /\ Owned(s1)
      BY <1>1, <3>1, CutLeads
    <3>4. w1 \in Satellite
      BY <3>1 DEF LinkTyped
    <3>5. PICK n, w2, q2 : n = s1.nextId /\ w2 = sat' /\ q2 = toHub'
      OBVIOUS
    <3>6. w2.resynced = w1.resynced
      BY <3>1, <3>3, <3>4, <3>5, AttachedSteady
    <3> QED
      BY <3>2, <3>5, <3>6
  <2>4. blamed' = blamed
    BY <1>6 DEF ServeAttach
  <2> QED
    BY <1>1, <1>6, <2>3, <2>4, SteadyServeAttach DEF SteadyLink, Blameless
<1>7. CASE ServeEvents
  <2>1. PICK y : ServedEvents(Head(mailbox).client, y)
    BY <1>7, ServeEventsIs
  <2>2. sat'.resynced = sat.resynced
    BY <2>1 DEF ServedEvents, SatHas
  <2>3. blamed' = blamed
    BY <1>7 DEF ServeEvents
  <2> QED
    BY <1>1, <1>7, <2>2, <2>3, SteadyServeEvents DEF SteadyLink, Blameless
<1>8. CASE ServeDetach \/ ServeDetachClient
  <2>1. blamed' = blamed
    BY <1>8 DEF ServeDetach, ServeDetachClient
  <2> QED
    BY <1>1, <1>8, <2>1, SteadyServeDetach DEF SteadyLink, Blameless
<1>9. CASE ReceiveFault \/ LinkLost
  <2>1. Teardown /\ UNCHANGED connected
    BY <1>9 DEF ReceiveFault, LinkLost
  <2>2. sat'.resynced = sat.resynced
    BY <2>1, TeardownIs DEF SatHas
  <2>3. LinkLost => blamed' = blamed
    BY DEF LinkLost
  <2>4. ReceiveFault => sat.resynced
    BY <1>1, NoBlame
  <2> QED
    BY <1>1, <1>9, <2>1, <2>2, <2>3, <2>4, SteadyTeardown DEF SteadyLink, Blameless
<1>10. CASE Receive
  <2>1. UNCHANGED <<sat, blamed>>
    BY <1>10 DEF Receive
  <2> QED
    BY <1>1, <1>10, <2>1, SteadyReceive DEF SteadyLink, Blameless
<1>11. CASE Tick
  <2>1. UNCHANGED <<sat, blamed>>
    BY <1>11 DEF Tick
  <2> QED
    BY <1>1, <1>11, <2>1, SteadyTick DEF SteadyLink, Blameless
<1>12. CASE SatOutputs \/ SatNotes \/ SatCloses
  <2>1. sat'.resynced = sat.resynced
    BY <1>12, SatOutputsIs, SatNotesIs, SatClosesIs DEF SatHas
  <2>2. blamed' = blamed
    BY <1>12 DEF SatOutputs, SatNotes, SatCloses, Says
  <2> QED
    BY <1>1, <1>12, <2>1, <2>2, SteadySatOutputs, SteadySatNotes, SteadySatCloses DEF SteadyLink, Blameless
<1>13. CASE SatRepublishes
  BY <1>1, <1>13, SteadySatRepublishes DEF SteadyLink, Blameless
<1> QED
  BY <1>3, <1>4, <1>5, <1>6, <1>7, <1>8, <1>9, <1>10, <1>11, <1>12, <1>13 DEF Next, ServeRequest, ServeUnsubscribe

(* In every behaviour the hub finds the link at fault only after the         *)
(* satellite replaced a generation by itself: cuts, barriers, refusals,      *)
(* closes and new connections keep the generations of a link apart.          *)
\* enforce_stream_frame_flow, prepare_content_cut, resolve_detach_reply,
\* against establish_generation and republish_generation.
THEOREM OnlyARepublishResets == Spec => []OnlyARepublishResetsTheLink
<1>1. Init => Typed /\ SteadyLink /\ Blameless
  BY InitTyped, SteadyInit DEF Init, SteadyLink, Blameless
<1>2. Typed /\ SteadyLink /\ Blameless /\ [Next]_vars
        => Typed' /\ SteadyLink' /\ Blameless'
  BY TypedStep, SteadyStep
<1>3. Blameless => OnlyARepublishResetsTheLink
  BY DEF OnlyARepublishResetsTheLink, Blameless
<1> QED
  BY <1>1, <1>2, <1>3, PTL DEF Spec

-----------------------------------------------------------------------------
(* What a replica makes of the frame it expects.                             *)

(* A replica's published part, field by field.                               *)
\* Replica, TerminalState.
LEMMA MirrorOf ==
    ASSUME NEW r \in Replica
    PROVE  \E k : /\ MirrorIs(r.mirror, r.mirror.published, r.mirror.next, r.mirror.retired, k, None, r.mirror.error)
                  /\ r.mirror.published \in Named /\ r.mirror.next \in Nat /\ r.mirror.retired \in Heard
                  /\ r.mirror.error \in BOOLEAN /\ r.staging \in Staging
                  /\ r = [mirror |-> r.mirror, staging |-> r.staging]
<1>1. PICK p \in Named, n \in Nat, t \in Heard, k \in Nat,
           e \in BOOLEAN, st \in Staging : r = Shows(p, n, t, k, e, st)
  BY ReplicaIs
<1>2. r.mirror = [published |-> p, next |-> n, retired |-> t, content |-> k, geometry |-> None, error |-> e]
      /\ r.staging = st /\ r = [mirror |-> r.mirror, staging |-> r.staging]
  BY <1>1 DEF Shows
<1>3. PICK m : m = r.mirror
  OBVIOUS
<1>4. m.published = p /\ m.next = n /\ m.retired = t /\ m.error = e
  BY <1>2, <1>3
<1>5. MirrorIs(m, m.published, m.next, m.retired, k, None, m.error)
  BY <1>2, <1>3, <1>4 DEF MirrorIs
<1> QED
  BY <1>2, <1>3, <1>4, <1>5

(* The generations a replica mentions are generations.                       *)
\* Replica, Staging.
LEMMA MentionedIs ==
    ASSUME NEW r \in Replica
    PROVE  /\ Mentioned(r) = (r.mirror.retired \cup {r.mirror.published} \cup Gens(r.staging)) \ {None}
           /\ Mentioned(r) \subseteq Generations
<1>1. r.mirror.published \in Named /\ r.mirror.retired \in Heard /\ r.staging \in Staging
  BY MirrorOf
<1>2. \A x \in r.staging : x.gen \in Named
  BY <1>1 DEF Staging, Named
<1>3. Mentioned(r) = (r.mirror.retired \cup {r.mirror.published} \cup Gens(r.staging)) \ {None}
  BY DEF Mentioned, Gens
<1>4. Gens(r.staging) \subseteq Named
  BY <1>2 DEF Gens
<1> QED
  BY <1>1, <1>3, <1>4 DEF Heard, Named

\* A replica in good order whose generations are all among G.
Good(r, G) == r \in Replica /\ ~r.mirror.error /\ Mentioned(r) \subseteq G

\* A replica that is told of h from b on, and one that shows h and expects n next.
Boots(r, h, b) == r.staging = {[gen |-> h, base |-> b]} /\ h \notin r.mirror.retired \cup {r.mirror.published}
\* A replica that shows h and expects n next.
Plays(r, h, n) == r.mirror.published = h /\ h \notin r.mirror.retired /\ r.mirror.next = n

(* A replica takes the BEGIN of a generation it has not heard of, and is     *)
(* told of it.                                                               *)
\* bootstrap_begin.
LEMMA BeginTaken ==
    ASSUME NEW r \in Replica, ~r.mirror.error, NEW h \in Generations, h \notin Mentioned(r), NEW b \in Nat,
           NEW r2, r2 = StageBegin(r, h, b)
    PROVE  /\ Good(r2, Mentioned(r) \cup {h})
           /\ Boots(r2, h, b)
<1>1. PICK k : MirrorIs(r.mirror, r.mirror.published, r.mirror.next, r.mirror.retired, k, None, r.mirror.error)
  BY MirrorOf
<1>2. PICK m, p, t, u : m = r.mirror /\ p = m.published /\ t = m.retired /\ u = t \cup Gens(r.staging)
  OBVIOUS
<1>3. h \notin t /\ h # p /\ h \notin Gens(r.staging)
  BY <1>2, MentionedIs, NoneNamed
<1>4. ~RefusesBegin(m, h) /\ ~Stages(r, h)
  BY <1>2, <1>3 DEF RefusesBegin, Stages, Gens
<1>5. r2 = [mirror |-> [m EXCEPT !.retired = u], staging |-> {[gen |-> h, base |-> b]}]
  BY <1>2, <1>4 DEF StageBegin, Gens
<1>6. [m EXCEPT !.retired = u].retired = u /\ [m EXCEPT !.retired = u].published = p
      /\ [m EXCEPT !.retired = u].error = m.error
  BY <1>1, <1>2 DEF MirrorIs
<1>7. r2.mirror.retired = u /\ r2.mirror.published = p /\ r2.mirror.error = m.error /\ r2.staging = {[gen |-> h, base |-> b]}
  <2>1. PICK m2, sv : m2 = [m EXCEPT !.retired = u] /\ sv = {[gen |-> h, base |-> b]}
    OBVIOUS
  <2>2. m2.retired = u /\ m2.published = p /\ m2.error = m.error
    BY <1>6, <2>1
  <2>3. r2 = [mirror |-> m2, staging |-> sv]
    BY <1>5, <2>1
  <2>4. r2.mirror = m2 /\ r2.staging = sv
    BY <2>3
  <2> QED
    BY <2>1, <2>2, <2>4
<1>8. r2 \in Replica
  BY BeginSeen
<1>9. Gens(r2.staging) = {h}
  BY <1>7 DEF Gens
<1>10. Mentioned(r2) \subseteq Mentioned(r) \cup {h}
  <2>1. Mentioned(r2) = (r2.mirror.retired \cup {r2.mirror.published} \cup Gens(r2.staging)) \ {None}
    BY <1>8, MentionedIs
  <2>2. Mentioned(r) = (t \cup {p} \cup Gens(r.staging)) \ {None}
    BY <1>2, MentionedIs
  <2>3. Mentioned(r2) = (u \cup {p} \cup {h}) \ {None}
    BY <1>7, <1>9, <2>1
  <2> QED
    BY <1>2, <2>2, <2>3
<1> QED
  BY <1>2, <1>3, <1>7, <1>8, <1>10 DEF Good, Boots

(* A replica takes the READY of the generation it was told of, and shows it. *)
\* bootstrap_ready, publish.
LEMMA ReadyTaken ==
    ASSUME NEW r \in Replica, ~r.mirror.error, NEW h \in Generations, NEW n \in Nat,
           Boots(r, h, n), NEW r2, r2 = StageReady(r, h)
    PROVE  Good(r2, Mentioned(r)) /\ Plays(r2, h, n + 1)
<1> r.staging = {[gen |-> h, base |-> n]} /\ h \notin r.mirror.retired \cup {r.mirror.published}
  BY DEF Boots
<1>1. PICK k : MirrorIs(r.mirror, r.mirror.published, r.mirror.next, r.mirror.retired, k, None, r.mirror.error)
  BY MirrorOf
<1>2. PICK m, p, t, u, e, o, j : /\ m = r.mirror /\ p = m.published /\ t = m.retired /\ u = t \cup {p} /\ e = m.error
                                 /\ o = n + 1 /\ j = m.next
  OBVIOUS
<1>3. MirrorIs(m, p, j, t, k, None, e)
  BY <1>1, <1>2
<1>4. h \notin t /\ Stages(r, h)
  BY <1>2 DEF Stages
<1>5. (CHOOSE st \in r.staging : st.gen = h).base = n
  <2>1. \A st \in r.staging : st = [gen |-> h, base |-> n]
    OBVIOUS
  <2>2. \E st \in r.staging : st.gen = h
    OBVIOUS
  <2>3. (CHOOSE st \in r.staging : st.gen = h) \in r.staging
    BY <2>2
  <2> QED
    BY <2>1, <2>3
<1>6. r2 = [mirror |-> [m EXCEPT !.published = h, !.next = n + 1, !.retired = @ \cup {m.published},
                                 !.content = n, !.geometry = m.geometry], staging |-> {}]
  BY <1>2, <1>4, <1>5 DEF StageReady, Published
<1>7. m.retired = t /\ m.published = p /\ m.geometry = None
  BY <1>3 DEF MirrorIs
<1>8. MirrorIs([m EXCEPT !.published = h, !.next = o, !.retired = u, !.content = n, !.geometry = None], h, o, u, n, None, e)
  BY <1>3, MirrorPublishes
<1>9. r2 = [mirror |-> [m EXCEPT !.published = h, !.next = o, !.retired = u, !.content = n, !.geometry = None], staging |-> {}]
  BY <1>2, <1>6, <1>7
<1>10. r2.mirror.published = h /\ r2.mirror.next = o /\ r2.mirror.retired = u /\ r2.mirror.error = e /\ r2.staging = {}
  <2>1. PICK m2 : m2 = [m EXCEPT !.published = h, !.next = o, !.retired = u, !.content = n, !.geometry = None]
    OBVIOUS
  <2>2. MirrorIs(m2, h, o, u, n, None, e)
    BY <1>8, <2>1
  <2>3. m2.published = h /\ m2.next = o /\ m2.retired = u /\ m2.error = e
    BY <2>2 DEF MirrorIs
  <2>4. r2.mirror = m2 /\ r2.staging = {}
    BY <1>9, <2>1
  <2> QED
    BY <2>3, <2>4
<1>11. r2 \in Replica
  BY ReadySeen
<1>12. Gens(r2.staging) = {} /\ h \in Gens(r.staging)
  BY <1>10 DEF Gens
<1>13. Mentioned(r2) \subseteq Mentioned(r)
  <2>1. Mentioned(r2) = (r2.mirror.retired \cup {r2.mirror.published} \cup Gens(r2.staging)) \ {None}
    BY <1>11, MentionedIs
  <2>2. Mentioned(r) = (t \cup {p} \cup Gens(r.staging)) \ {None}
    BY <1>2, MentionedIs
  <2>3. Mentioned(r2) = (u \cup {h} \cup {}) \ {None}
    BY <1>10, <1>12, <2>1
  <2> QED
    BY <1>2, <1>12, <2>2, <2>3
<1> QED
  BY <1>2, <1>10, <1>11, <1>13 DEF Good, Plays

(* A replica takes the output it expects of the generation it shows.         *)
\* terminal_output, expect_next_seq.
LEMMA OutputTaken ==
    ASSUME NEW r \in Replica, ~r.mirror.error, NEW h \in Generations, NEW n \in Nat,
           Plays(r, h, n), NEW r2, r2 = [r EXCEPT !.mirror = ApplyOutput(@, h, n)]
    PROVE  Good(r2, Mentioned(r)) /\ Plays(r2, h, n + 1)
<1> r.mirror.published = h /\ h \notin r.mirror.retired /\ r.mirror.next = n
  BY DEF Plays
<1>1. PICK k : /\ MirrorIs(r.mirror, r.mirror.published, r.mirror.next, r.mirror.retired, k, None, r.mirror.error)
               /\ r = [mirror |-> r.mirror, staging |-> r.staging]
  BY MirrorOf
<1>2. PICK m, t, e, o, l : /\ m = r.mirror /\ t = m.retired /\ e = m.error /\ o = n + 1 /\ l = IF k = n - 1 THEN n ELSE k
  OBVIOUS
<1>3. MirrorIs(m, h, n, t, k, None, e)
  BY <1>1, <1>2
<1>4. ApplyOutput(m, h, n) = [m EXCEPT !.next = n + 1, !.content = IF @ = n - 1 THEN n ELSE @]
  BY <1>2 DEF ApplyOutput, Expects
<1>5. MirrorIs([m EXCEPT !.next = o, !.content = l], h, o, t, l, None, e)
  BY <1>3, MirrorMoves
<1>6. m.content = k
  BY <1>3 DEF MirrorIs
<1>7. MirrorIs(ApplyOutput(m, h, n), h, o, t, l, None, e)
  BY <1>2, <1>4, <1>5, <1>6
<1>8. r2.mirror = ApplyOutput(m, h, n) /\ r2.staging = r.staging
  BY <1>1, <1>2
<1>9. r2.mirror.published = h /\ r2.mirror.next = o /\ r2.mirror.retired = t /\ r2.mirror.error = e
  BY <1>7, <1>8 DEF MirrorIs
<1>10. r2 \in Replica
  BY OutputSeen
<1>11. Mentioned(r2) = Mentioned(r)
  BY <1>2, <1>8, <1>9, <1>10, MentionedIs
<1> QED
  BY <1>2, <1>9, <1>10, <1>11 DEF Good, Plays

(* A replica takes any tombstone.                                            *)
\* tombstone_generation.
LEMMA TombstoneTaken ==
    ASSUME NEW r \in Replica, ~r.mirror.error, NEW h \in Generations, NEW r2, r2 = StageTombstone(r, h)
    PROVE  Good(r2, Mentioned(r) \cup {h})
<1>1. PICK k : MirrorIs(r.mirror, r.mirror.published, r.mirror.next, r.mirror.retired, k, None, r.mirror.error)
  BY MirrorOf
<1>2. PICK m, p, t, u : m = r.mirror /\ p = m.published /\ t = m.retired /\ u = t \cup {h}
  OBVIOUS
<1>3. r2 = [mirror |-> [m EXCEPT !.retired = u], staging |-> {st \in r.staging : st.gen # h}]
  BY <1>2 DEF StageTombstone, ApplyTombstone
<1>4. [m EXCEPT !.retired = u].retired = u /\ [m EXCEPT !.retired = u].published = p
      /\ [m EXCEPT !.retired = u].error = m.error
  BY <1>1, <1>2 DEF MirrorIs
<1>5. r2.mirror.retired = u /\ r2.mirror.published = p /\ r2.mirror.error = m.error /\ r2.staging \subseteq r.staging
  <2>1. PICK m2, sv : m2 = [m EXCEPT !.retired = u] /\ sv = {st \in r.staging : st.gen # h}
    OBVIOUS
  <2>2. m2.retired = u /\ m2.published = p /\ m2.error = m.error /\ sv \subseteq r.staging
    BY <1>4, <2>1
  <2>3. r2 = [mirror |-> m2, staging |-> sv]
    BY <1>3, <2>1
  <2>4. r2.mirror = m2 /\ r2.staging = sv
    BY <2>3
  <2> QED
    BY <2>2, <2>4
<1>6. r2 \in Replica
  BY TombstoneSeen
<1>7. Gens(r2.staging) \subseteq Gens(r.staging)
  BY <1>5 DEF Gens
<1>8. Mentioned(r2) \subseteq Mentioned(r) \cup {h}
  BY <1>2, <1>5, <1>6, <1>7, MentionedIs
<1> QED
  BY <1>2, <1>5, <1>6, <1>8 DEF Good

-----------------------------------------------------------------------------
(* Generations are named once.                                               *)

\* What is on its way names generations that were begun, each once.
Told(w, q) ==
    /\ \A i \in 1 .. Len(q) : q[i] \in StreamFrame => Begun(w, q[i].gen)
    /\ \A i, j \in 1 .. Len(q) : q[i] \in StreamFrame /\ i < j /\ q[j].kind = "Begin" => q[j].gen # q[i].gen

(* Generations are named once, in parts.                                     *)
\* BootstrapId, next_bootstrap_id and republish_generation, on the satellite.
LEMMA BegunIs ==
    ASSUME NEW w, NEW q
    PROVE  BegunOK(w, q) <=> /\ Told(w, q)
                             /\ w.gen # None => Begun(w, w.gen)
                             /\ w.reg # None => Begun(w, w.reg)
  BY DEF BegunOK, Told

\* All that was begun stays begun.
Ahead(w, w2) == \A g \in Generations : Begun(w, g) => Begun(w2, g)

(* What is on its way names generations that were begun, also later.         *)
\* BootstrapId, next_bootstrap_id and republish_generation, on the satellite.
LEMMA ToldAhead ==
    ASSUME NEW w, NEW w2, NEW q \in Frames, Told(w, q), Ahead(w, w2)
    PROVE  Told(w2, q)
<1>1. ASSUME NEW i \in 1 .. Len(q), q[i] \in StreamFrame PROVE Begun(w2, q[i].gen)
  <2>1. q[i].gen \in Generations
    BY <1>1 DEF StreamFrame
  <2> QED
    BY <1>1, <2>1 DEF Told, Ahead
<1> QED
  BY <1>1 DEF Told

\* Nothing but h is begun between the two.
PastOn(q, q2, h) == \A g : g # h /\ Past(q, g) => Past(q2, g)

(* Nothing but h is begun in two steps if it is so in each.                  *)
\* BootstrapId, next_bootstrap_id and republish_generation, on the satellite.
LEMMA PastFurther ==
    ASSUME NEW q, NEW q1, NEW q2, NEW h, PastOn(q, q1, h), PastOn(q1, q2, h)
    PROVE  PastOn(q, q2, h)
  BY DEF PastOn

(* One more frame begins what it begins.                                     *)
\* BootstrapId, next_bootstrap_id and republish_generation, on the satellite.
LEMMA PastAppend ==
    ASSUME NEW q \in Frames, NEW f \in LinkFrame, NEW h, f.kind = "Begin" => f.gen = h
    PROVE  PastOn(q, Append(q, f), h)
<1>1. PICK m \in Nat : m = Len(q)
  BY DEF Frames
<1>2. PICK p : p = Append(q, f)
  OBVIOUS
<1>3. Len(p) = m + 1 /\ p[m + 1] = f /\ \A i \in 1 .. m : p[i] = q[i]
  BY <1>1, <1>2, AppendOf DEF Frames
<1>4. ASSUME NEW g, g # h, Past(q, g), NEW i \in 1 .. Len(p), p[i].kind = "Begin" PROVE p[i].gen # g
  <2>1. CASE i \in 1 .. m
    BY <1>1, <1>3, <1>4, <2>1 DEF Past
  <2>2. CASE i = m + 1
    BY <1>3, <1>4, <2>2
  <2> QED
    BY <1>1, <1>3, <1>4, <2>1, <2>2
<1> QED
  BY <1>2, <1>4 DEF PastOn, Past

\* No frame on its way names h.
Unnamed(q, h) == \A i \in 1 .. Len(q) : q[i] \in StreamFrame => q[i].gen # h

(* One more frame, of a generation that was begun and, for a BEGIN, that no  *)
(* frame in front of it names.                                               *)
\* BootstrapId, next_bootstrap_id and republish_generation, on the satellite.
LEMMA ToldAppend ==
    ASSUME NEW w, NEW q \in Frames, NEW f \in LinkFrame, Told(w, q), f \in StreamFrame => Begun(w, f.gen),
           f.kind = "Begin" => Unnamed(q, f.gen)
    PROVE  Told(w, Append(q, f))
<1>1. PICK m \in Nat : m = Len(q)
  BY DEF Frames
<1>2. PICK p : p = Append(q, f)
  OBVIOUS
<1>3. Len(p) = m + 1 /\ p[m + 1] = f /\ \A i \in 1 .. m : p[i] = q[i]
  BY <1>1, <1>2, AppendOf DEF Frames
<1>4. ASSUME NEW i \in 1 .. m + 1, p[i] \in StreamFrame PROVE Begun(w, p[i].gen)
  <2>1. CASE i \in 1 .. m
    BY <1>1, <1>3, <1>4, <2>1 DEF Told
  <2>2. CASE i = m + 1
    BY <1>3, <1>4, <2>2
  <2> QED
    BY <2>1, <2>2
<1>5. ASSUME NEW i \in 1 .. m + 1, NEW j \in 1 .. m + 1, p[i] \in StreamFrame, i < j, p[j].kind = "Begin"
      PROVE  p[j].gen # p[i].gen
  <2>1. i \in 1 .. m
    BY <1>5
  <2>2. CASE j \in 1 .. m
    BY <1>1, <1>3, <1>5, <2>1, <2>2 DEF Told
  <2>3. CASE j = m + 1
    BY <1>1, <1>3, <1>5, <2>1, <2>3 DEF Unnamed
  <2> QED
    BY <2>2, <2>3
<1> QED
  BY <1>2, <1>3, <1>4, <1>5 DEF Told

(* What is not begun on the link is not begun behind its next frame.         *)
\* BootstrapId, next_bootstrap_id and republish_generation, on the satellite.
LEMMA PastTail ==
    ASSUME NEW q \in Frames, q # <<>>, NEW g, Past(q, g)
    PROVE  Past(Tail(q), g) /\ (Head(q).kind = "Begin" => Head(q).gen # g)
<1>1. PICK p : p = Tail(q)
  OBVIOUS
<1>2. PICK m \in Nat : m = Len(p) /\ Len(q) = m + 1 /\ Head(q) = q[1] /\ \A i \in 1 .. m : i + 1 \in 1 .. m + 1 /\ p[i] = q[i + 1]
  <2>1. Len(p) \in Nat /\ Len(q) = Len(p) + 1
    BY <1>1, TailOf DEF Frames
  <2> QED
    BY <1>1, <2>1, TailOf DEF Frames
<1>3. 1 \in 1 .. m + 1
  OBVIOUS
<1> QED
  BY <1>1, <1>2, <1>3 DEF Past

(* The generation of the next frame is not begun behind it.                  *)
\* BootstrapId, next_bootstrap_id and republish_generation, on the satellite.
LEMMA ToldTail ==
    ASSUME NEW w, NEW q \in Frames, q # <<>>, Told(w, q)
    PROVE  Told(w, Tail(q)) /\ (Head(q) \in StreamFrame => Begun(w, Head(q).gen) /\ Past(Tail(q), Head(q).gen))
<1>1. PICK p : p = Tail(q)
  OBVIOUS
<1>2. PICK m \in Nat : m = Len(p) /\ Len(q) = m + 1 /\ Head(q) = q[1] /\ \A i \in 1 .. m : i + 1 \in 1 .. m + 1 /\ p[i] = q[i + 1]
  <2>1. Len(p) \in Nat /\ Len(q) = Len(p) + 1
    BY <1>1, TailOf DEF Frames
  <2> QED
    BY <1>1, <2>1, TailOf DEF Frames
<1>3. 1 \in 1 .. m + 1 /\ \A i \in 1 .. m : 1 < i + 1 /\ \A j \in 1 .. m : i < j => i + 1 < j + 1
  OBVIOUS
<1>4. \A i \in 1 .. m : p[i] \in StreamFrame => Begun(w, p[i].gen)
  BY <1>2 DEF Told
<1>5. ASSUME NEW i \in 1 .. m, NEW j \in 1 .. m, p[i] \in StreamFrame, i < j, p[j].kind = "Begin"
      PROVE  p[j].gen # p[i].gen
  <2>1. PICK k, l \in 1 .. Len(q) : k = i + 1 /\ l = j + 1 /\ k < l /\ p[i] = q[k] /\ p[j] = q[l]
    BY <1>2, <1>3, <1>5
  <2> QED
    BY <1>5, <2>1 DEF Told
<1>6. ASSUME q[1] \in StreamFrame PROVE Begun(w, q[1].gen) /\ Past(p, q[1].gen)
  <2>1. Begun(w, q[1].gen)
    BY <1>2, <1>3, <1>6 DEF Told
  <2>2. ASSUME NEW i \in 1 .. m, p[i].kind = "Begin" PROVE p[i].gen # q[1].gen
    <3>1. PICK k, l \in 1 .. Len(q) : k = 1 /\ l = i + 1 /\ k < l /\ p[i] = q[l]
      BY <1>2, <1>3
    <3> QED
      BY <1>6, <2>2, <3>1 DEF Told
  <2> QED
    BY <1>2, <2>1, <2>2 DEF Past
<1>7. Told(w, p)
  BY <1>2, <1>4, <1>5 DEF Told
<1> QED
  BY <1>1, <1>2, <1>6, <1>7

(* A generation that was not begun is named by nothing on its way.           *)
\* BootstrapId, next_bootstrap_id and republish_generation, on the satellite.
LEMMA NewNameUnnamed ==
    ASSUME NEW w, NEW q, Told(w, q), NEW h, ~Begun(w, h)
    PROVE  Unnamed(q, h)
  BY DEF Told, Unnamed

(* The tombstone of a generation that was begun.                             *)
\* establish_generation, on the satellite.
LEMMA ReplacesTold ==
    ASSUME NEW w, NEW q \in Frames, Told(w, q), NEW reg \in Named, reg # None => Begun(w, reg), NEW h
    PROVE  Replaces(q, reg) \in Frames /\ Told(w, Replaces(q, reg)) /\ PastOn(q, Replaces(q, reg), h)
<1>1. CASE reg = None
  <2>1. Replaces(q, reg) = q
    BY <1>1 DEF Replaces
  <2> QED
    BY <2>1 DEF PastOn
<1>2. CASE reg # None
  <2>1. PICK g \in Generations : g = reg
    BY <1>2 DEF Named
  <2>2. PICK f \in LinkFrame : f = Frame("Tombstone", g, 0)
    BY FramesAre
  <2>3. f.kind = "Tombstone" /\ f.gen = g
    BY <2>2, FramesAre
  <2>4. Replaces(q, reg) = Append(q, f)
    BY <1>2, <2>1, <2>2 DEF Replaces
  <2>5. Append(q, f) \in Frames
    BY AppendOf DEF Frames
  <2>6. Told(w, Append(q, f))
    BY <1>2, <2>1, <2>3, ToldAppend
  <2>7. PastOn(q, Append(q, f), h)
    BY <2>3, PastAppend
  <2> QED
    BY <2>4, <2>5, <2>6, <2>7
<1> QED
  BY <1>1, <1>2

(* The bootstrap of a new generation.                                        *)
\* synthesized_bootstrap_frames, on the satellite.
LEMMA AnnouncesTold ==
    ASSUME NEW w, NEW q \in Frames, Told(w, q), NEW h \in Generations, NEW n \in Nat, Begun(w, h), Unnamed(q, h)
    PROVE  Announces(q, h, n) \in Frames /\ Told(w, Announces(q, h, n)) /\ PastOn(q, Announces(q, h, n), h)
<1>1. PICK f \in LinkFrame : f = Frame("Begin", h, n)
  BY FramesAre
<1>2. PICK d \in LinkFrame : d = Frame("Ready", h, n)
  BY FramesAre
<1>3. f.kind = "Begin" /\ f.gen = h /\ d.kind = "Ready" /\ d.gen = h
  BY <1>1, <1>2, FramesAre
<1>4. PICK q1 : q1 = Append(q, f)
  OBVIOUS
<1>5. q1 \in Frames
  BY <1>4, AppendOf DEF Frames
<1>6. Told(w, q1) /\ PastOn(q, q1, h)
  BY <1>3, <1>4, ToldAppend, PastAppend
<1>7. PICK q2 : q2 = Append(q1, d)
  OBVIOUS
<1>8. q2 \in Frames
  BY <1>5, <1>7, AppendOf DEF Frames
<1>9. Told(w, q2) /\ PastOn(q1, q2, h)
  BY <1>3, <1>5, <1>6, <1>7, ToldAppend, PastAppend
<1>10. PastOn(q, q2, h)
  BY <1>6, <1>9, PastFurther
<1>11. Announces(q, h, n) = q2
  BY <1>1, <1>2, <1>4, <1>7 DEF Announces
<1> QED
  BY <1>8, <1>9, <1>10, <1>11

(* Frames that begin nothing and name nothing.                               *)
\* Events, closes and answers.
LEMMA PlainTold ==
    ASSUME NEW w, NEW q \in Frames, Told(w, q), NEW f \in LinkFrame, f.kind \in {"Event", "Closed", "Result"}, NEW h
    PROVE  Told(w, Append(q, f)) /\ PastOn(q, Append(q, f), h)
<1>1. f \notin StreamFrame /\ f.kind # "Begin"
  BY Kinds
<1> QED
  BY <1>1, ToldAppend, PastAppend

-----------------------------------------------------------------------------
(* When a satellite's generation is a new one.                               *)

(* On one connection, what was begun stays begun while the ids go up.        *)
\* BootstrapId, next_bootstrap_id and republish_generation, on the satellite.
LEMMA AheadIs ==
    ASSUME NEW w \in Satellite, NEW w2 \in Satellite, w2.conn = w.conn, w.top <= w2.top,
           w2.gen = None \/ w2.gen[1] # 0 \/ (w.gen # None /\ w.gen[1] = 0 /\ w.gen[2] <= w2.gen[2] /\ w2.gen \in Generations
                                                /\ w.gen \in Generations)
    PROVE  Ahead(w, w2)
<1> SUFFICES ASSUME NEW g \in Generations, Begun(w, g) PROVE Begun(w2, g)
  BY DEF Ahead
<1>1. g[1] \in Nat /\ g[2] \in Nat /\ w.top \in Nat /\ w2.top \in Nat
  BY SatelliteIs DEF Generations
<1>2. CASE g[1] = 0 /\ (w.gen # None /\ w.gen[1] = 0 => g[2] <= w.gen[2])
  <2>1. CASE w2.gen = None \/ w2.gen[1] # 0
    BY <1>2, <2>1 DEF Begun
  <2>2. CASE w.gen # None /\ w.gen[1] = 0 /\ w.gen[2] <= w2.gen[2] /\ w2.gen \in Generations /\ w.gen \in Generations
    <3>1. PICK k, l \in Nat : k = w.gen[2] /\ l = w2.gen[2]
      BY <2>2 DEF Generations
    <3>2. g[2] <= l
      BY <1>1, <1>2, <2>2, <3>1
    <3> QED
      BY <1>2, <3>1, <3>2 DEF Begun
  <2> QED
    BY <2>1, <2>2
<1>3. CASE 0 < g[1] /\ g[1] < w.conn
  BY <1>3 DEF Begun
<1>4. CASE g[1] = w.conn /\ g[2] <= w.top
  <2>1. g[2] <= w2.top
    BY <1>1, <1>4
  <2> QED
    BY <1>4, <2>1 DEF Begun
<1> QED
  BY <1>2, <1>3, <1>4 DEF Begun

(* What was begun stays begun on a new connection.                           *)
\* forget_connection, on the satellite.
LEMMA AheadReconnected ==
    ASSUME NEW w \in Satellite, NEW w2 \in Satellite, w.conn > 0, w2.conn = w.conn + 1, w2.gen = None
    PROVE  Ahead(w, w2)
<1> SUFFICES ASSUME NEW g \in Generations, Begun(w, g) PROVE Begun(w2, g)
  BY DEF Ahead
<1>1. PICK k \in Nat : k = g[1]
  BY DEF Generations
<1>2. PICK m \in Nat : m = w.conn
  BY SatelliteIs
<1>3. k = 0 \/ (0 < k /\ k < m) \/ k = m
  BY <1>1, <1>2 DEF Begun
<1>4. k = 0 \/ (0 < k /\ k < m + 1)
  BY <1>2, <1>3
<1> QED
  BY <1>1, <1>2, <1>4 DEF Begun

(* An id of the connection above the highest begun is new.                   *)
\* next_bootstrap_id, on the satellite.
LEMMA NewOwnName ==
    ASSUME NEW w \in Satellite, w.conn > 0, NEW h \in Generations, h[1] = w.conn, ~(h[2] <= w.top)
    PROVE  ~Begun(w, h)
<1>1. PICK m \in Nat : m = w.conn
  BY SatelliteIs
<1>2. h[1] # 0 /\ ~(h[1] < w.conn)
  BY <1>1
<1> QED
  BY <1>2 DEF Begun

(* The id after that of a SPAWN's generation is new.                         *)
\* republish_generation, on the satellite.
LEMMA NewSpawnedName ==
    ASSUME NEW w \in Satellite, w.conn > 0, NEW h \in Generations, h[1] = 0, w.gen # None, w.gen[1] = 0, ~(h[2] <= w.gen[2])
    PROVE  ~Begun(w, h)
<1>1. PICK m \in Nat : m = w.conn
  BY SatelliteIs
<1>2. h[1] # m /\ ~(0 < h[1])
  BY <1>1
<1> QED
  BY <1>1, <1>2 DEF Begun

\* What is said next takes nothing back and begins nothing again.
Adds(w, q, w2, q2) ==
    Ahead(w, w2) /\ \A g \in Generations : Begun(w, g) /\ Past(q, g) => Past(q2, g)

(* A bootstrap of a new generation takes nothing back.                       *)
\* BootstrapId, next_bootstrap_id and republish_generation, on the satellite.
LEMMA AddsIs ==
    ASSUME NEW w, NEW w2, NEW q, NEW q2, NEW h, Ahead(w, w2), PastOn(q, q2, h), h = None \/ ~Begun(w, h)
    PROVE  Adds(w, q, w2, q2)
<1>1. ASSUME NEW g \in Generations, Begun(w, g), Past(q, g) PROVE Past(q2, g)
  <2>1. g # h
    BY <1>1, NoneNamed
  <2> QED
    BY <1>1, <2>1 DEF PastOn
<1> QED
  BY <1>1 DEF Adds

(* Nothing happened.                                                         *)
\* BootstrapId, next_bootstrap_id and republish_generation, on the satellite.
LEMMA AddsNothing ==
    ASSUME NEW w, NEW q
    PROVE  Adds(w, q, w, q)
  BY DEF Adds, Ahead

(* Taking nothing back twice is taking nothing back.                         *)
\* BootstrapId, next_bootstrap_id and republish_generation, on the satellite.
LEMMA AddsMore ==
    ASSUME NEW w, NEW q, NEW w1, NEW q1, NEW w2, NEW q2, Adds(w, q, w1, q1), Adds(w1, q1, w2, q2)
    PROVE  Adds(w, q, w2, q2)
  BY DEF Adds, Ahead

(* The end of a stream, with an answer or a close, takes nothing back.       *)
\* DETACH_RESOURCE and reap_terminal, on the satellite.
LEMMA Stops ==
    ASSUME NEW w \in Satellite, NEW w2 \in Satellite, NEW q \in Frames, BegunOK(w, q), NEW f \in LinkFrame,
           f.kind \in {"Closed", "Result"}, NEW q2, q2 = Append(q, f),
           w2.conn = w.conn, w2.top = w.top, w2.gen = None, w2.reg = None
    PROVE  BegunOK(w2, q2) /\ Adds(w, q, w2, q2)
<1>1. Told(w, q)
  BY BegunIs
<1>2. Ahead(w, w2)
  <2>1. w.top <= w2.top
    BY SatelliteIs
  <2> QED
    BY <2>1, AheadIs
<1>3. Told(w, q2) /\ PastOn(q, q2, None)
  BY <1>1, PlainTold
<1>4. q2 \in Frames
  BY AppendOf DEF Frames
<1>5. Told(w2, q2)
  BY <1>2, <1>3, <1>4, ToldAhead
<1>6. Adds(w, q, w2, q2)
  BY <1>2, <1>3, AddsIs
<1> QED
  BY <1>5, <1>6, BegunIs

(* A detach keeps generations named once.                                    *)
\* encode_terminal_detach.
LEMMA DetachesNamed ==
    ASSUME NEW s, NEW w, NEW q, LinkTyped(s, w, q), BegunOK(w, q),
           NEW u, NEW l, NEW s2, NEW w2, NEW q2, Detaches(s, w, q, u, l, s2, w2, q2)
    PROVE  BegunOK(w2, q2) /\ Adds(w, q, w2, q2) /\ w2.reused = w.reused
<1>1. w \in Satellite /\ q \in Frames
  BY DEF LinkTyped
<1>2. PICK n \in Nat : n = s.nextId
  BY SessionIs DEF LinkTyped
<1>3. PICK f \in LinkFrame : f = Result(n, TRUE)
  BY FramesAre
<1>4. f.kind = "Result"
  BY <1>3, FramesAre
<1>5. q2 = Append(q, f)
  BY <1>2, <1>3 DEF Detaches
<1>6. w2 \in Satellite /\ w2.conn = w.conn /\ w2.top = w.top /\ w2.gen = None /\ w2.reg = None /\ w2.reused = w.reused
  BY DEF Detaches, SatHas
<1> QED
  BY <1>1, <1>4, <1>5, <1>6, Stops

(* An attach to a closed terminal keeps generations named once.              *)
\* establish_generation, on the satellite.
LEMMA BouncesNamed ==
    ASSUME NEW q \in Frames, NEW w \in Satellite, BegunOK(w, q), NEW n \in Nat,
           NEW w2, NEW q2, Bounces(q, w, n, w2, q2)
    PROVE  BegunOK(w2, q2) /\ Adds(w, q, w2, q2)
<1>1. PICK f \in LinkFrame : f = Result(n, FALSE)
  BY FramesAre
<1>2. f.kind = "Result"
  BY <1>1, FramesAre
<1>3. w2 = w /\ q2 = Append(q, f)
  BY <1>1 DEF Bounces
<1>4. Told(w, q)
  BY BegunIs
<1>5. Told(w, q2) /\ PastOn(q, q2, None)
  BY <1>2, <1>3, <1>4, PlainTold
<1>6. Ahead(w, w)
  BY DEF Ahead
<1>7. Adds(w, q, w, q2)
  BY <1>5, <1>6, AddsIs
<1> QED
  BY <1>3, <1>5, <1>7, BegunIs

(* The tombstone in front of an answer names what was registered.            *)
\* establish_generation, on the satellite.
LEMMA ReplacedTold ==
    ASSUME NEW q \in Frames, NEW w \in Satellite, BegunOK(w, q), NEW h
    PROVE  Replaces(q, w.reg) \in Frames /\ Told(w, Replaces(q, w.reg)) /\ PastOn(q, Replaces(q, w.reg), h)
<1>1. PICK reg \in Named : reg = w.reg
  BY SatelliteIs
<1>2. Told(w, q) /\ (reg # None => Begun(w, reg))
  BY <1>1, BegunIs
<1>3. Replaces(q, reg) \in Frames /\ Told(w, Replaces(q, reg)) /\ PastOn(q, Replaces(q, reg), h)
  BY <1>2, ReplacesTold
<1> QED
  BY <1>1, <1>3

(* A refused attach keeps generations named once.                            *)
\* establish_generation, on the satellite.
LEMMA DeniesNamed ==
    ASSUME NEW q \in Frames, NEW w \in Satellite, BegunOK(w, q), NEW n \in Nat,
           NEW w2, NEW q2, Denies(q, w, n, w2, q2)
    PROVE  BegunOK(w2, q2) /\ Adds(w, q, w2, q2)
<1>1. PICK f \in LinkFrame : f = Result(n, FALSE)
  BY FramesAre
<1>2. f.kind = "Result"
  BY <1>1, FramesAre
<1>3. PICK q1 : q1 = Replaces(q, w.reg)
  OBVIOUS
<1>4. q1 \in Frames /\ Told(w, q1) /\ PastOn(q, q1, None)
  BY <1>3, ReplacedTold
<1>5. q2 = Append(q1, f)
  BY <1>1, <1>3 DEF Denies
<1>6. Told(w, q2) /\ PastOn(q1, q2, None)
  BY <1>2, <1>4, <1>5, PlainTold
<1>7. PastOn(q, q2, None)
  BY <1>4, <1>6, PastFurther
<1>8. w2 \in Satellite /\ w2.conn = w.conn /\ w2.top = w.top /\ w2.gen = None /\ w2.reg = None
  BY DEF Denies, Refuses, SatHas
<1>9. Ahead(w, w2)
  <2>1. w.top <= w2.top
    BY <1>8, SatelliteIs
  <2> QED
    BY <1>8, <2>1, AheadIs
<1>10. q2 \in Frames
  BY <1>4, <1>5, AppendOf DEF Frames
<1>11. Told(w2, q2)
  BY <1>6, <1>9, <1>10, ToldAhead
<1>12. Adds(w, q, w2, q2)
  BY <1>7, <1>9, AddsIs
<1> QED
  BY <1>8, <1>11, <1>12, BegunIs

(* An attach that is served keeps generations named once, unless it reuses   *)
(* an id.                                                                    *)
\* establish_generation, next_bootstrap_id, on the satellite.
LEMMA GrantsNamed ==
    ASSUME NEW q \in Frames, NEW w \in Satellite, w.conn > 0, BegunOK(w, q), NEW n \in Nat,
           NEW w2, NEW q2, Grants(q, w, n, w2, q2), ~w2.reused
    PROVE  BegunOK(w2, q2) /\ Adds(w, q, w2, q2) /\ ~w.reused
<1>1. OwnGen(w) \in Generations /\ OwnGen(w)[1] = w.conn
  BY OwnGenIs
<1>2. PICK h \in Generations : h = OwnGen(w)
  BY <1>1
<1>3. /\ w2 \in Satellite /\ w2.conn = w.conn /\ w2.gen = h /\ w2.reg = h
      /\ w2.top = IF h[1] = w.conn /\ h[2] > w.top THEN h[2] ELSE w.top
      /\ w2.reused = (w.reused \/ (h[1] = w.conn /\ h[2] <= w.top))
  BY <1>2 DEF Grants, Serves, SatHas
<1>4. PICK k, t \in Nat : k = h[2] /\ t = w.top
  <2>1. h[2] \in Nat /\ w.top \in Nat
    BY SatelliteIs DEF Generations
  <2> QED
    BY <2>1
<1>5. h[1] = w.conn
  BY <1>1, <1>2
<1>6. ~w.reused /\ ~(h[2] <= w.top)
  BY <1>3, <1>5
<1>7. w2.top = k /\ t <= k
  BY <1>3, <1>4, <1>5, <1>6
<1>8. ~Begun(w, h)
  BY <1>5, <1>6, NewOwnName
<1>9. Begun(w2, h)
  <2>1. h[1] = w2.conn /\ h[2] <= w2.top
    BY <1>3, <1>4, <1>5, <1>7
  <2> QED
    BY <2>1 DEF Begun
<1>10. Ahead(w, w2)
  <2>1. PICK m \in Nat : m = w.conn
    BY SatelliteIs
  <2>2. w2.gen[1] # 0
    BY <1>3, <1>5, <2>1
  <2>3. w.top <= w2.top
    BY <1>4, <1>7
  <2> QED
    BY <1>3, <2>2, <2>3, AheadIs
<1>11. PICK q1 : q1 = Replaces(q, w.reg)
  OBVIOUS
<1>12. q1 \in Frames /\ Told(w, q1) /\ PastOn(q, q1, h)
  BY <1>11, ReplacedTold
<1>13. Told(w2, q1) /\ Unnamed(q1, h)
  BY <1>8, <1>10, <1>12, ToldAhead, NewNameUnnamed
<1>14. PICK b \in Nat : b = w.seq
  BY SatelliteIs
<1>15. PICK q3 : q3 = Announces(q1, h, b)
  OBVIOUS
<1>16. q3 \in Frames /\ Told(w2, q3) /\ PastOn(q1, q3, h)
  BY <1>9, <1>12, <1>13, <1>15, AnnouncesTold
<1>17. PICK f \in LinkFrame : f = Result(n, TRUE)
  BY FramesAre
<1>18. f.kind = "Result"
  BY <1>17, FramesAre
<1>19. q2 = Append(q3, f)
  BY <1>2, <1>11, <1>14, <1>15, <1>17 DEF Grants
<1>20. Told(w2, q2) /\ PastOn(q3, q2, h)
  BY <1>16, <1>18, <1>19, PlainTold
<1>21. PastOn(q, q2, h)
  BY <1>12, <1>16, <1>20, PastFurther
<1>22. Adds(w, q, w2, q2)
  BY <1>8, <1>10, <1>21, AddsIs
<1> QED
  BY <1>3, <1>6, <1>9, <1>20, <1>22, BegunIs

(* Any attach keeps generations named once, unless it reuses an id.          *)
\* establish_generation, on the satellite.
LEMMA AttachedNamed ==
    ASSUME NEW q \in Frames, NEW w \in Satellite, w.conn > 0, BegunOK(w, q), NEW n \in Nat, NEW x \in BOOLEAN,
           NEW w2, NEW q2, Attached(q, w, n, x, w2, q2), ~w2.reused
    PROVE  BegunOK(w2, q2) /\ Adds(w, q, w2, q2)
<1>1. Bounces(q, w, n, w2, q2) \/ Denies(q, w, n, w2, q2) \/ Grants(q, w, n, w2, q2)
  BY AttachedIs
<1> QED
  BY <1>1, BouncesNamed, DeniesNamed, GrantsNamed

(* A reused id is not forgotten.                                             *)
\* History.
LEMMA AttachedReuses ==
    ASSUME NEW q, NEW w \in Satellite, NEW n, NEW x \in BOOLEAN, NEW w2, NEW q2, Attached(q, w, n, x, w2, q2), ~w2.reused
    PROVE  ~w.reused
<1>1. Bounces(q, w, n, w2, q2) \/ Denies(q, w, n, w2, q2) \/ Grants(q, w, n, w2, q2)
  BY AttachedIs
<1>2. CASE Bounces(q, w, n, w2, q2)
  BY <1>2 DEF Bounces
<1>3. CASE Denies(q, w, n, w2, q2)
  BY <1>3 DEF Denies, Refuses, SatHas
<1>4. CASE Grants(q, w, n, w2, q2)
  BY <1>4 DEF Grants, Serves, SatHas
<1> QED
  BY <1>1, <1>2, <1>3, <1>4

-----------------------------------------------------------------------------
(* A consumer's replica and its proxy.                                       *)

(* A replica whose generations cannot be begun again stays one while nothing *)
(* is taken back.                                                            *)
\* A consumer's kernel behind its proxy.
LEMMA SoundAdds ==
    ASSUME NEW r \in Replica, NEW w, NEW q, NEW w2, NEW q2, Sound(r, w, q), Adds(w, q, w2, q2)
    PROVE  Sound(r, w2, q2)
<1>1. Mentioned(r) \subseteq Generations
  BY MentionedIs
<1> QED
  BY <1>1 DEF Sound, Adds, Ahead

(* A replica is in order if it is so with more frames applied.               *)
\* A consumer's kernel behind its proxy.
LEMMA SoundLess ==
    ASSUME NEW r, NEW v, r # None, Grows(r, v), NEW w, NEW q, Sound(v, w, q)
    PROVE  Sound(r, w, q)
  BY DEF Grows, Sound

\* A replica once it has what is retained for it.
Whole(r, sub) == IF sub = None THEN r ELSE SeesAll(r, sub.held)

(* A replica with what is retained for it is a replica that has forgotten    *)
(* nothing.                                                                  *)
\* flush_pending_snapshot.
LEMMA WholeIs ==
    ASSUME NEW r \in Replica, NEW sub \in Subscriber \cup {None}
    PROVE  Whole(r, sub) \in Replica /\ Grows(r, Whole(r, sub)) /\ r # None
<1>1. r # None
  BY NoneAssumption
<1>2. CASE sub = None
  BY <1>1, <1>2 DEF Whole, Grows
<1>3. CASE sub # None
  <2>1. PICK n \in Nat, g \in Gates, h \in Held, o \in BOOLEAN : sub = Proxied(n, g, h, o)
    BY <1>3, SubscriberIs
  <2>2. sub.held = h /\ h \in Seq(LinkFrame)
    BY <2>1, ProxiedIs, HeldSeen
  <2>3. SeesAll(r, h) \in Replica \cup {None} /\ Grows(r, SeesAll(r, h))
    BY <2>2, SeesAllTyped
  <2> QED
    BY <1>1, <1>3, <2>2, <2>3 DEF Whole, Grows
<1> QED
  BY <1>2, <1>3

(* What is known of a replica, said of the replica with what is retained for *)
(* it.                                                                       *)
\* A consumer's kernel behind its proxy.
LEMMA ViewIs ==
    ASSUME NEW r \in Replica \cup {None}, NEW sub \in Subscriber \cup {None}, NEW s, NEW w, NEW q, NEW a
    PROVE  ViewOK(r, sub, s, w, q, a) <=>
            (r # None => Sound(Whole(r, sub), w, q) /\ (sub # None => InStep(Whole(r, sub), sub, s, a)))
  BY DEF ViewOK, Whole

\* A proxy that retains what it did, and opens no sooner.
Retains(sub, sub2) ==
    \/ sub = None /\ sub2 = None
    \/ sub # None /\ sub2 # None /\ sub2.held = sub.held /\ (OpensAfter(sub2) => OpensAfter(sub))

\* A session whose flow, where it counts, is the same.
Slack(s, s2) == s2.barriers = {} /\ s2.flow # None => s.barriers = {} /\ s2.flow = s.flow

(* A replica stays in step if its proxy retains what it did and the link     *)
(* carries what it did.                                                      *)
\* A consumer's kernel behind its proxy.
LEMMA ViewKept ==
    ASSUME NEW r \in Replica \cup {None}, NEW sub \in Subscriber \cup {None}, NEW sub2 \in Subscriber \cup {None},
           NEW s, NEW w, NEW q, NEW a, ViewOK(r, sub, s, w, q, a), Retains(sub, sub2),
           NEW s2, Slack(s, s2), NEW w2, NEW q2, Adds(w, q, w2, q2)
    PROVE  ViewOK(r, sub2, s2, w2, q2, a)
<1>1. CASE r = None
  BY <1>1 DEF ViewOK
<1>2. CASE r # None
  <2>1. PICK v : v = Whole(r, sub)
    OBVIOUS
  <2>2. v \in Replica
    BY <1>2, <2>1, WholeIs
  <2>3. Sound(v, w, q) /\ (sub # None => InStep(v, sub, s, a))
    BY <1>2, <2>1, ViewIs
  <2>4. Sound(v, w2, q2)
    BY <2>2, <2>3, SoundAdds
  <2>5. Whole(r, sub2) = v
    BY <2>1 DEF Retains, Whole
  <2>6. ASSUME sub2 # None PROVE InStep(v, sub2, s2, a)
    <3>1. sub # None /\ (OpensAfter(sub2) => OpensAfter(sub))
      BY <2>6 DEF Retains
    <3>2. InStep(v, sub, s, a)
      BY <2>3, <3>1
    <3>3. ASSUME s2.barriers = {}, s2.flow # None PROVE s.barriers = {} /\ s2.flow = s.flow /\ s.flow # None
      BY <3>3 DEF Slack
    <3> QED
      BY <3>1, <3>2, <3>3 DEF InStep
  <2> QED
    BY <2>4, <2>5, <2>6, ViewIs
<1> QED
  BY <1>1, <1>2

\* Nothing is due to a replica: it has no proxy, or the link carries nothing.
Due(sub, sub2, s2) ==
    sub2 = None \/ (sub # None /\ sub2 # None /\ sub2.held = sub.held /\ (s2.barriers = {} => s2.flow = None))

(* A replica without a proxy, or on a link that carries nothing, is owed     *)
(* nothing.                                                                  *)
\* A consumer's kernel behind its proxy.
LEMMA ViewIdle ==
    ASSUME NEW r \in Replica \cup {None}, NEW sub \in Subscriber \cup {None}, NEW sub2 \in Subscriber \cup {None},
           NEW s, NEW w, NEW q, NEW a, ViewOK(r, sub, s, w, q, a),
           NEW s2, Due(sub, sub2, s2), NEW w2, NEW q2, Adds(w, q, w2, q2), NEW a2
    PROVE  ViewOK(r, sub2, s2, w2, q2, a2)
<1>1. CASE r = None
  BY <1>1 DEF ViewOK
<1>2. CASE r # None
  <2>1. PICK v : v = Whole(r, sub)
    OBVIOUS
  <2>2. v \in Replica /\ Grows(r, v)
    BY <1>2, <2>1, WholeIs
  <2>3. Sound(v, w, q)
    BY <1>2, <2>1, ViewIs
  <2>4. Sound(v, w2, q2)
    BY <2>2, <2>3, SoundAdds
  <2>5. Sound(r, w2, q2)
    BY <1>2, <2>2, <2>4, SoundLess
  <2>6. CASE sub2 = None
    BY <2>5, <2>6 DEF ViewOK
  <2>7. CASE sub2 # None
    <3>1. sub # None /\ sub2.held = sub.held /\ (s2.barriers = {} => s2.flow = None)
      BY <2>7 DEF Due
    <3>2. Whole(r, sub2) = v
      BY <2>1, <2>7, <3>1 DEF Whole
    <3>3. InStep(v, sub2, s2, a2)
      BY <3>1 DEF InStep
    <3> QED
      BY <2>4, <3>2, <3>3, ViewIs
  <2> QED
    BY <2>6, <2>7
<1> QED
  BY <1>1, <1>2

(* A new registration, with nothing retained and the gate shut, is owed      *)
(* nothing until the next bootstrap.                                         *)
\* register_subscriber.
LEMMA ViewFresh ==
    ASSUME NEW r \in Replica, NEW w, NEW q, Sound(r, w, q), NEW y \in Subscriber, y.held = <<>>, ~OpensAfter(y),
           NEW s, s.barriers = {} /\ s.flow # None => s.flow.ready, NEW a
    PROVE  ViewOK(r, y, s, w, q, a)
<1>1. SeesAll(r, y.held) = r
  BY SeesNothing
<1>2. InStep(r, y, s, a)
  BY DEF InStep
<1>3. y # None
  BY NoneAssumption
<1> QED
  BY <1>1, <1>2, <1>3 DEF ViewOK

(* An empty replica has heard of nothing.                                    *)
\* SessionKernel, before the first BEGIN.
LEMMA NoReplicaIs ==
    NoReplica \in Replica /\ ~NoReplica.mirror.error /\ Mentioned(NoReplica) = {}
<1>1. PICK p \in Named, t \in Heard, e \in BOOLEAN, st \in Staging, n \in Nat :
        p = None /\ t = {} /\ e = FALSE /\ st = {} /\ n = 0
  <2>1. None \in Named /\ {} \in Heard /\ {} \in Staging
    BY DEF Named, Heard, Staging
  <2> QED
    BY <2>1
<1>2. NoReplica = Shows(p, n, t, n, e, st)
  <2>1. PICK one : one = 1
    OBVIOUS
  <2>2. PICK m : m = [published |-> p, next |-> one, retired |-> t, content |-> n, geometry |-> p, error |-> e]
    OBVIOUS
  <2>3. [m EXCEPT !.next = n] = [published |-> p, next |-> n, retired |-> t, content |-> n, geometry |-> p, error |-> e]
    BY <2>2
  <2>4. m = MirrorInit(None, None)
    BY <1>1, <2>1, <2>2 DEF MirrorInit
  <2>5. NoReplica = [mirror |-> [m EXCEPT !.next = n], staging |-> st]
    BY <1>1, <2>4 DEF NoReplica
  <2> QED
    BY <1>1, <2>3, <2>5 DEF Shows
<1>3. NoReplica \in Replica /\ Mentioned(NoReplica) = (t \cup {p} \cup Gens(st)) \ {None}
  BY <1>2, ShownIs
<1>4. ~NoReplica.mirror.error
  BY <1>1, <1>2 DEF Shows
<1>5. Gens(st) = {}
  BY <1>1 DEF Gens
<1> QED
  BY <1>1, <1>3, <1>4, <1>5

\* The rest of a prefix goes to a replica that did not see its BEGIN.
Joins(s, old, r) ==
    \/ (old = None \/ r = None) /\ s.barriers = {} /\ s.flow # None /\ ~s.flow.ready
    \/ r = None /\ old # None /\ old.gate = "Retained"

(* Registered in the middle of a stream: said of the proxy and the replica.  *)
\* register_subscriber.
LEMMA MidStreamIs ==
    ASSUME NEW s, NEW c
    PROVE  MidStream(s, c) <=> Joins(s, s.subs[c], view[c])
  BY DEF MidStream, Joins

(* A registration that awaits keeps the old proxy's retained prefix, or has  *)
(* none and a shut gate.                                                     *)
\* register_subscriber.
LEMMA Awaits ==
    ASSUME NEW old \in Subscriber \cup {None}, old # None => GateOK(old), NEW y, Reregisters(old, y, TRUE)
    PROVE  /\ y \in Subscriber
           /\ old # None => Retains(old, y)
           /\ old = None \/ old.gate # "Retained" => y.held = <<>> /\ ~OpensAfter(y)
<1>1. y \in Subscriber /\ y # None
  BY DEF Reregisters
<1>2. CASE old = None
  <2>1. y.held = <<>> /\ ~y.openAfter /\ y.gate = Gated(~TRUE)
    BY <1>2 DEF Reregisters
  <2> QED
    BY <1>1, <1>2, <2>1 DEF OpensAfter, Gated
<1>3. CASE old # None
  <2>1. PICK m \in Nat, g \in Gates, h \in Held, o \in BOOLEAN : old = Proxied(m, g, h, o)
    BY <1>3, SubscriberIs
  <2>2. old.gate = g /\ old.held = h /\ old.openAfter = o /\ (GateOK(old) <=> ProxyOK(g, h, o))
    BY <2>1, ProxiedIs
  <2>3. ProxyOK(g, h, o)
    BY <1>3, <2>2
  <2>4. y.held = h /\ (y.openAfter <=> o) /\ y.gate = IF g = "Open" THEN "Awaiting" ELSE g
    BY <1>3, <2>2 DEF Reregisters
  <2>5. OpensAfter(y) => OpensAfter(old)
    BY <2>2, <2>4 DEF OpensAfter
  <2>6. g # "Retained" => h = <<>> /\ ~o /\ y.gate # "Open"
    BY <2>3, <2>4 DEF ProxyOK, Gates
  <2> QED
    BY <1>1, <1>3, <2>2, <2>4, <2>5, <2>6 DEF Retains, OpensAfter
<1> QED
  BY <1>2, <1>3

(* A registration that is not in the middle of a stream keeps the replica in *)
(* step.                                                                     *)
\* register_subscriber, handle_request_checked.
LEMMA ViewRegisters ==
    ASSUME NEW r \in Replica \cup {None}, NEW old \in Subscriber \cup {None}, old # None => GateOK(old),
           NEW s, NEW w, NEW q, NEW a, ViewOK(r, old, s, w, q, a), NEW y, Reregisters(old, y, TRUE),
           ~Joins(s, old, r), NEW s2, s2.barriers = s.barriers, s2.flow = s.flow,
           NEW w2, NEW q2, Adds(w, q, w2, q2), NEW r2, r2 = IF r = None THEN NoReplica ELSE r
    PROVE  ViewOK(r2, y, s2, w2, q2, a)
<1>1. /\ y \in Subscriber /\ (old # None => Retains(old, y))
      /\ old = None \/ old.gate # "Retained" => y.held = <<>> /\ ~OpensAfter(y)
  BY Awaits
<1>2. CASE r # None /\ old # None
  <2>1. Retains(old, y)
    BY <1>1, <1>2
  <2>2. Slack(s, s2)
    BY DEF Slack
  <2>3. ViewOK(r, y, s2, w2, q2, a)
    BY <1>1, <2>1, <2>2, ViewKept
  <2> QED
    BY <1>2, <2>3
<1>3. CASE r # None /\ old = None
  <2>1. Sound(r, w, q)
    BY <1>3 DEF ViewOK
  <2>2. Sound(r, w2, q2)
    BY <1>3, <2>1, SoundAdds
  <2>3. s2.barriers = {} /\ s2.flow # None => s2.flow.ready
    BY <1>3 DEF Joins
  <2>4. y.held = <<>> /\ ~OpensAfter(y)
    BY <1>1, <1>3
  <2>5. ViewOK(r, y, s2, w2, q2, a)
    BY <1>1, <1>3, <2>2, <2>3, <2>4, ViewFresh
  <2> QED
    BY <1>3, <2>5
<1>4. CASE r = None
  <2>1. Sound(NoReplica, w2, q2)
    BY NoReplicaIs DEF Sound
  <2>2. s2.barriers = {} /\ s2.flow # None => s2.flow.ready
    BY <1>4 DEF Joins
  <2>3. y.held = <<>> /\ ~OpensAfter(y)
    BY <1>1, <1>4 DEF Joins
  <2>4. PICK v \in Replica : v = NoReplica
    BY NoReplicaIs
  <2>5. ViewOK(v, y, s2, w2, q2, a)
    BY <1>1, <2>1, <2>2, <2>3, <2>4, ViewFresh
  <2> QED
    BY <1>4, <2>4, <2>5
<1> QED
  BY <1>2, <1>3, <1>4

(* The rest of the link names and begins nothing new.                        *)
\* handle_inbound.
LEMMA TailAdds ==
    ASSUME NEW w, NEW q \in Frames, q # <<>>
    PROVE  Adds(w, q, w, Tail(q))
  BY PastTail DEF Adds, Ahead

(* A replica that has heard only of what was begun is in order.              *)
\* A consumer's kernel behind its proxy.
LEMMA GoodSound ==
    ASSUME NEW v, NEW v2, NEW G, NEW w, NEW q, Sound(v, w, q), Good(v2, G),
           \A g \in G : g \in Mentioned(v) \/ (Begun(w, g) /\ Past(q, g))
    PROVE  Sound(v2, w, q)
  BY DEF Sound, Good

-----------------------------------------------------------------------------
(* The next frame of the link, for a replica that has what is retained.      *)

(* BEGIN finds every replica ready for it: its generation is one no replica  *)
(* has heard of.                                                             *)
\* bootstrap_begin, behind fan_out.
LEMMA BeginInStep ==
    ASSUME NEW v \in Replica, NEW w, NEW q \in Frames, q # <<>>, Told(w, q), Sound(v, w, q), NEW f, f = Head(q),
           f.kind = "Begin", NEW a, NEW a2, NEW b, NEW x, Emits(f, a, a2, b, x),
           NEW s2, s2.flow = [gen |-> f.gen, ready |-> FALSE], NEW sub2
    PROVE  Sound(Sees(v, f), w, Tail(q)) /\ InStep(Sees(v, f), sub2, s2, a2)
<1>1. f \in LinkFrame
  BY TailOf DEF Frames
<1>2. f \in StreamFrame /\ f.gen \in Generations /\ f.seq \in Nat
  BY <1>1, Kinds
<1>3. PICK h \in Generations, n \in Nat : h = f.gen /\ n = f.seq
  BY <1>2
<1>4. v # None
  BY NoneAssumption
<1>5. Sees(v, f) = StageBegin(v, h, n)
  BY <1>3, <1>4 DEF Sees
<1>6. PICK v2 : v2 = StageBegin(v, h, n)
  OBVIOUS
<1>7. h \notin Mentioned(v)
  <2>1. \A g \in Mentioned(v) : Past(q, g)
    BY DEF Sound
  <2>2. \A g \in Mentioned(v) : h # g
    BY <1>3, <2>1, PastTail
  <2> QED
    BY <2>2
<1>8. ~v.mirror.error
  BY DEF Sound
<1>9. Good(v2, Mentioned(v) \cup {h}) /\ Boots(v2, h, n)
  BY <1>6, <1>7, <1>8, BeginTaken
<1>10. Adds(w, q, w, Tail(q))
  BY TailAdds
<1>11. Sound(v, w, Tail(q))
  BY <1>10, SoundAdds
<1>12. Begun(w, h) /\ Past(Tail(q), h)
  BY <1>2, <1>3, ToldTail
<1>13. Sound(v2, w, Tail(q))
  BY <1>9, <1>11, <1>12, GoodSound
<1>14. a2 = [gen |-> h, ready |-> FALSE, next |-> n + 1]
  BY <1>3 DEF Emits
<1>15. a2.gen = h /\ a2.next - 1 = n
  BY <1>14
<1>16. ~s2.flow.ready
  OBVIOUS
<1>17. InStep(v2, sub2, s2, a2)
  BY <1>9, <1>15, <1>16 DEF InStep, Boots
<1> QED
  BY <1>5, <1>6, <1>13, <1>17

(* READY finds every replica told of its generation, and leaves it at the    *)
(* base.                                                                     *)
\* bootstrap_ready, behind fan_out.
LEMMA ReadyInStep ==
    ASSUME NEW v \in Replica, NEW w, NEW q \in Frames, q # <<>>, Sound(v, w, q), NEW f, f = Head(q),
           f.kind = "Ready", NEW a \in Stream, NEW a2, NEW b, NEW x, Emits(f, a, a2, b, x),
           NEW s, s.barriers = {}, FlowAccepts(s.flow, f), NEW sub, InStep(v, sub, s, a),
           NEW s2, s2.flow.ready, NEW sub2
    PROVE  Sound(Sees(v, f), w, Tail(q)) /\ InStep(Sees(v, f), sub2, s2, a2)
<1>1. f \in LinkFrame
  BY TailOf DEF Frames
<1>2. f \in StreamFrame /\ f.gen \in Generations /\ f.seq \in Nat
  BY <1>1, Kinds
<1>3. PICK h \in Generations : h = f.gen
  BY <1>2
<1>4. v # None
  BY NoneAssumption
<1>5. Sees(v, f) = StageReady(v, h)
  BY <1>3, <1>4 DEF Sees
<1>6. PICK v2 : v2 = StageReady(v, h)
  OBVIOUS
<1>7. a.gen = h /\ a2 = [gen |-> h, ready |-> TRUE, next |-> a.next]
  BY <1>3 DEF Emits
<1>8. s.flow # None /\ ~s.flow.ready
  BY DEF FlowAccepts
<1>9. v.staging = {[gen |-> h, base |-> a.next - 1]} /\ h \notin v.mirror.retired \cup {v.mirror.published}
  BY <1>7, <1>8 DEF InStep
<1>10. PICK n : n = a.next - 1
  OBVIOUS
<1>11. n \in Nat
  <2>1. v.staging \in Staging
    BY MirrorOf
  <2>2. [gen |-> h, base |-> n] \in v.staging
    BY <1>9, <1>10
  <2>3. [gen |-> h, base |-> n] \in [gen : Generations, base : Nat]
    BY <2>1, <2>2 DEF Staging
  <2> QED
    BY <2>3
<1>12. a.next \in Nat
  BY StreamIs
<1>13. ~v.mirror.error
  BY DEF Sound
<1>14. Boots(v, h, n)
  BY <1>9, <1>10 DEF Boots
<1>15. Good(v2, Mentioned(v)) /\ Plays(v2, h, n + 1)
  BY <1>6, <1>11, <1>13, <1>14, ReadyTaken
<1>16. Adds(w, q, w, Tail(q))
  BY TailAdds
<1>17. Sound(v, w, Tail(q))
  BY <1>16, SoundAdds
<1>18. Sound(v2, w, Tail(q))
  BY <1>15, <1>17, GoodSound
<1>19. a2.gen = h /\ a2.next = n + 1
  <2>1. a2.gen = h /\ a2.next = a.next
    BY <1>7
  <2> QED
    BY <2>1, <1>10, <1>12
<1>20. InStep(v2, sub2, s2, a2)
  BY <1>15, <1>19 DEF InStep, Plays
<1> QED
  BY <1>5, <1>6, <1>18, <1>20

(* Output finds every replica whose gate opens at the sequence number before *)
(* it.                                                                       *)
\* terminal_output, behind fan_out.
LEMMA OutputInStep ==
    ASSUME NEW v \in Replica, NEW w, NEW q \in Frames, q # <<>>, Sound(v, w, q), NEW f, f = Head(q),
           f.kind = "Output", NEW a \in Stream, NEW a2, NEW b, NEW x, Emits(f, a, a2, b, x),
           NEW s, s.barriers = {}, FlowAccepts(s.flow, f), NEW sub, InStep(v, sub, s, a), OpensAfter(sub),
           NEW s2, s2.flow = s.flow, NEW sub2
    PROVE  Sound(Sees(v, f), w, Tail(q)) /\ InStep(Sees(v, f), sub2, s2, a2)
<1>1. f \in LinkFrame
  BY TailOf DEF Frames
<1>2. f \in StreamFrame /\ f.gen \in Generations /\ f.seq \in Nat
  BY <1>1, Kinds
<1>3. PICK h \in Generations, n \in Nat : h = f.gen /\ n = f.seq
  BY <1>2
<1>4. v # None
  BY NoneAssumption
<1>5. Sees(v, f) = [v EXCEPT !.mirror = ApplyOutput(@, h, n)]
  BY <1>3, <1>4 DEF Sees
<1>6. PICK v2 : v2 = [v EXCEPT !.mirror = ApplyOutput(@, h, n)]
  OBVIOUS
<1>7. a.gen = h /\ a.next = n /\ a2 = [gen |-> h, ready |-> TRUE, next |-> n + 1]
  BY <1>3 DEF Emits
<1>8. s.flow # None /\ s.flow.ready
  BY DEF FlowAccepts
<1>9. Plays(v, h, n)
  BY <1>7, <1>8 DEF InStep, Plays
<1>10. ~v.mirror.error
  BY DEF Sound
<1>11. Good(v2, Mentioned(v)) /\ Plays(v2, h, n + 1)
  BY <1>6, <1>9, <1>10, OutputTaken
<1>12. Adds(w, q, w, Tail(q))
  BY TailAdds
<1>13. Sound(v, w, Tail(q))
  BY <1>12, SoundAdds
<1>14. Sound(v2, w, Tail(q))
  BY <1>11, <1>13, GoodSound
<1>15. a2.gen = h /\ a2.next = n + 1
  BY <1>7
<1>16. InStep(v2, sub2, s2, a2)
  BY <1>8, <1>11, <1>15 DEF InStep, Plays
<1> QED
  BY <1>5, <1>6, <1>14, <1>16

(* A tombstone leaves every replica in order.                                *)
\* tombstone_generation, behind fan_out.
LEMMA TombstoneSound ==
    ASSUME NEW v \in Replica, NEW w, NEW q \in Frames, q # <<>>, Told(w, q), Sound(v, w, q), NEW f, f = Head(q),
           f.kind = "Tombstone"
    PROVE  Sound(Sees(v, f), w, Tail(q))
<1>1. f \in LinkFrame
  BY TailOf DEF Frames
<1>2. f \in StreamFrame /\ f.gen \in Generations /\ f.seq \in Nat
  BY <1>1, Kinds
<1>3. PICK h \in Generations : h = f.gen
  BY <1>2
<1>4. v # None
  BY NoneAssumption
<1>5. Sees(v, f) = StageTombstone(v, h)
  BY <1>3, <1>4 DEF Sees
<1>6. PICK v2 : v2 = StageTombstone(v, h)
  OBVIOUS
<1>7. ~v.mirror.error
  BY DEF Sound
<1>8. Good(v2, Mentioned(v) \cup {h})
  BY <1>6, <1>7, TombstoneTaken
<1>9. Adds(w, q, w, Tail(q))
  BY TailAdds
<1>10. Sound(v, w, Tail(q))
  BY <1>9, SoundAdds
<1>11. Begun(w, h) /\ Past(Tail(q), h)
  BY <1>2, <1>3, ToldTail
<1>12. Sound(v2, w, Tail(q))
  BY <1>8, <1>10, <1>11, GoodSound
<1> QED
  BY <1>5, <1>6, <1>12

\* The hub hands a frame to a proxy that survives it, and drops no output.
Hands(s, f, p, s2) ==
    /\ f.kind # "Result" /\ f.kind # "Closed" /\ ~Fenced(s, f) /\ FlowAccepts(s.flow, f)
    /\ p.sub # None /\ (f.kind = "Output" => ~p.sub.openAfter)
    /\ s2.barriers = s.barriers /\ s2.flow = FlowAfter(s.flow, f)

\* The next frame of the link, and a replica that is up to it.
Comes(f, w, q) == q \in Frames /\ q # <<>> /\ Told(w, q) /\ f = Head(q)
\* A replica, with what is retained for it, that is up to the next frame.
UpTo(v, r, sub, s, w, q, a) ==
    v \in Replica /\ v = SeesAll(r, sub.held) /\ Sound(v, w, q) /\ InStep(v, sub, s, a)

(* Any frame that is handed on and not dropped keeps a replica in step.      *)
\* fan_out, push_bootstrap_frame.
LEMMA FrameTaken ==
    ASSUME NEW s \in Session, NEW w, NEW q, NEW f, Comes(f, w, q),
           NEW a \in Stream, NEW a2 \in Stream, NEW b, NEW x, Emits(f, a, a2, b, x),
           NEW sub, NEW r, NEW v, UpTo(v, r, sub, s, w, q, a),
           NEW p, Pushes(p, sub, f, r), NEW s2, Hands(s, f, p, s2)
    PROVE  Sound(After(r, p), w, Tail(q)) /\ InStep(After(r, p), p.sub, s2, a2)
<1>1. PICK y, v2 : y = p.sub /\ v2 = After(r, p)
  OBVIOUS
<1> USE <1>1 DEF Comes, UpTo
<1> SUFFICES Sound(v2, w, Tail(q)) /\ InStep(v2, y, s2, a2)
  OBVIOUS
<1> USE DEF Hands
<1>2. f \in LinkFrame
  BY TailOf DEF Frames
<1>3. f.kind \in {"Begin", "Ready", "Output", "Tombstone", "Event"}
  BY <1>2, Kinds
<1>4. s.flow \in Flows
  BY SessionIs
<1>5. PICK flow2 : flow2 = FlowAfter(s.flow, f)
  OBVIOUS
<1>6. /\ f.kind = "Begin" => flow2 = [gen |-> f.gen, ready |-> FALSE]
      /\ f.kind = "Ready" => flow2.ready
      /\ f.kind = "Tombstone" => flow2 = None
      /\ f.kind \in {"Output", "Event"} => flow2 = s.flow
  BY <1>2, <1>4, <1>5, FlowAfterIs
<1>7. f.kind # "Event" => s.barriers = {}
  BY <1>3 DEF Fenced
<1>8. Adds(w, q, w, Tail(q))
  BY TailAdds
<1>9. Sound(v, w, Tail(q))
  BY <1>8, SoundAdds
<1>10. CASE f.kind = "Begin"
  <2>1. v2 = Sees(v, f)
    BY <1>10 DEF Pushes
  <2>2. s2.flow = [gen |-> f.gen, ready |-> FALSE]
    BY <1>5, <1>6, <1>10
  <2>3. Sound(Sees(v, f), w, Tail(q)) /\ InStep(Sees(v, f), y, s2, a2)
    BY <1>10, <2>2, BeginInStep
  <2> QED
    BY <2>1, <2>3
<1>11. CASE f.kind = "Ready"
  <2>1. v2 = Sees(v, f)
    BY <1>11 DEF Pushes
  <2>2. s2.flow.ready
    BY <1>5, <1>6, <1>11
  <2>3. s.barriers = {}
    BY <1>7, <1>11
  <2>4. Sound(Sees(v, f), w, Tail(q)) /\ InStep(Sees(v, f), y, s2, a2)
    BY <1>11, <2>2, <2>3, ReadyInStep
  <2> QED
    BY <2>1, <2>4
<1>12. CASE f.kind = "Output"
  <2>1. (OpensAfter(y) <=> OpensAfter(sub)) /\ v2 = IF y.gate = "Open" THEN Sees(v, f) ELSE v
    BY <1>12 DEF Pushes
  <2>2. s2.flow = s.flow /\ s.barriers = {}
    BY <1>5, <1>6, <1>7, <1>12
  <2>3. CASE y.gate = "Open"
    <3>1. OpensAfter(sub)
      BY <2>1, <2>3 DEF OpensAfter
    <3>2. Sound(Sees(v, f), w, Tail(q)) /\ InStep(Sees(v, f), y, s2, a2)
      BY <1>12, <2>2, <3>1, OutputInStep
    <3> QED
      BY <2>1, <2>3, <3>2
  <2>4. CASE y.gate # "Open"
    <3>1. ~OpensAfter(y)
      BY <1>12, <2>4 DEF OpensAfter
    <3>2. s.flow.ready
      BY <1>12 DEF FlowAccepts
    <3>3. InStep(v, y, s2, a2)
      BY <2>2, <3>1, <3>2 DEF InStep
    <3> QED
      BY <1>9, <2>1, <2>4, <3>3
  <2> QED
    BY <2>3, <2>4
<1>13. CASE f.kind = "Tombstone"
  <2>1. v2 = Sees(v, f)
    BY <1>13 DEF Pushes
  <2>2. s2.flow = None
    BY <1>5, <1>6, <1>13
  <2>3. Sound(Sees(v, f), w, Tail(q))
    BY <1>13, TombstoneSound
  <2>4. InStep(v2, y, s2, a2)
    BY <2>2 DEF InStep
  <2> QED
    BY <2>1, <2>3, <2>4
<1>14. CASE f.kind = "Event"
  <2>1. (OpensAfter(y) <=> OpensAfter(sub)) /\ v2 = IF y.gate = "Open" THEN Sees(v, f) ELSE v
    BY <1>14 DEF Pushes
  <2>2. Sees(v, f) = v
    BY <1>14, IgnoresEvents
  <2>3. s2.flow = s.flow /\ s2.barriers = s.barriers
    BY <1>5, <1>6, <1>14
  <2>4. a2 = a
    BY <1>14 DEF Emits
  <2>5. InStep(v, y, s2, a2)
    BY <2>1, <2>3, <2>4 DEF InStep
  <2> QED
    BY <1>9, <2>1, <2>2, <2>5
<1> QED
  BY <1>3, <1>10, <1>11, <1>12, <1>13, <1>14

(* A frame of the link keeps each consumer in step that has missed nothing.  *)
\* relay_stream_frame, fan_out.
LEMMA ViewTakes ==
    ASSUME Typed, NEW a \in Stream, NEW a2 \in Stream, Followed(a, a2), toHub # <<>>, BegunOK(sat, toHub),
           ReceiveStream(Head(toHub)), NEW c \in Clients, c \notin missed',
           ViewOK(view[c], sess.subs[c], sess, sat, toHub, a)
    PROVE  ViewOK(view'[c], sess'.subs[c], sess', sat, Tail(toHub), a2)
<1>1. PICK f \in LinkFrame : f = Head(toHub)
  BY ReceiveFrame
<1>2. f.kind # "Result" /\ ~Fenced(sess, f) /\ FlowAccepts(sess.flow, f)
  BY <1>1 DEF ReceiveStream
<1>3. sess \in Session /\ toHub \in Frames /\ sat \in Satellite /\ view \in [Clients -> Replica \cup {None}]
  BY DEF Typed, LinkIs, LinkTyped, MailOK
<1>4. PICK r \in Replica \cup {None}, sub \in Subscriber \cup {None} : r = view[c] /\ sub = sess.subs[c]
  BY <1>3, SessionIs DEF Proxies
<1>5. PICK p : p = PushedTo(c, f)
  OBVIOUS
<1>6. /\ Sent(p, Room(c)) /\ (sub = None => p.sub = None /\ p.sent = <<>>)
      /\ sub # None => \A e \in Replica \cup {None} : Pushes(p, sub, f, e)
  BY <1>2, <1>4, <1>5, PushedIs
<1>7. ReceiveStream(f)
  BY <1>1
<1>8. /\ IF f.kind = "Closed"
         THEN Has(sess', [d \in Clients |-> None], sess.pending, sess.barriers, FALSE, FALSE,
                  FlowAfter(sess.flow, f), sess.nextId)
         ELSE Has(sess', Fanned(f), sess.pending, sess.barriers, sess.explicit, sess.legacy,
                  FlowAfter(sess.flow, f), sess.nextId)
      /\ view'[c] = SeesAll(r, p.sent)
      /\ missed' = missed \cup {d \in Clients : f.kind = "Output" /\ Fanned(f)[d] # None /\ Fanned(f)[d].openAfter}
  BY <1>4, <1>5, <1>7, ReceiveStreamIs
<1>9. Fanned(f)[c] = p.sub
  BY <1>5 DEF Fanned
<1>10. PICK s2, y, r2 : s2 = sess' /\ y = sess'.subs[c] /\ r2 = view'[c]
  OBVIOUS
<1>11. s2.barriers = sess.barriers /\ s2.flow = FlowAfter(sess.flow, f) /\ y = IF f.kind = "Closed" THEN None ELSE p.sub
  BY <1>8, <1>9, <1>10 DEF Has
<1>12. f.kind = "Output" /\ p.sub # None => ~p.sub.openAfter
  BY <1>8, <1>9
<1>13. r2 = SeesAll(r, p.sent) /\ p.sent \in Frames
  BY <1>6, <1>8, <1>10 DEF Sent, Frames
<1>14. r2 \in Replica \cup {None} /\ Grows(r, r2)
  BY <1>13, SeesAllTyped DEF Frames
<1>15. y \in Subscriber \cup {None}
  BY <1>6, <1>11 DEF Sent
<1>16. Adds(sat, toHub, sat, Tail(toHub))
  BY <1>3, TailAdds
<1>17. ViewOK(r, sub, sess, sat, toHub, a)
  BY <1>4
<1>18. CASE r = None
  <2>1. r2 = None
    BY <1>14, <1>18 DEF Grows
  <2> QED
    BY <1>10, <2>1 DEF ViewOK
<1>19. CASE r # None /\ sub = None
  <2>1. r2 = r
    BY <1>6, <1>13, <1>19, SeesNothing
  <2>2. y = None
    BY <1>6, <1>11, <1>19
  <2>3. Due(sub, y, s2)
    BY <2>2 DEF Due
  <2>4. ViewOK(r, y, s2, sat, Tail(toHub), a2)
    BY <1>15, <1>16, <1>17, <2>3, ViewIdle
  <2> QED
    BY <1>10, <2>1, <2>4
<1>20. CASE r # None /\ sub # None
  <2>1. PICK v : v = SeesAll(r, sub.held)
    OBVIOUS
  <2>2. Sound(v, sat, toHub) /\ InStep(v, sub, sess, a)
    BY <1>17, <1>20, <2>1 DEF ViewOK
  <2>3. v \in Replica
    BY <1>20, <2>1, WholeIs DEF Whole
  <2>4. Pushes(p, sub, f, r)
    BY <1>6, <1>20
  <2>5. CASE y = None
    <3>1. p.sub = None \/ f.kind = "Closed"
      BY <1>11, <2>5
    <3>2. Grows(r2, v)
      BY <1>13, <2>1, <2>4, <3>1 DEF Pushes
    <3>3. Sound(v, sat, Tail(toHub))
      BY <1>16, <2>2, <2>3, SoundAdds
    <3>4. r2 # None
      BY <1>14, <1>20 DEF Grows
    <3>5. Sound(r2, sat, Tail(toHub))
      BY <3>2, <3>3, <3>4, SoundLess
    <3> QED
      BY <1>10, <2>5, <3>5 DEF ViewOK
  <2>6. CASE y # None
    <3>1. f.kind # "Closed" /\ y = p.sub /\ p.sub # None
      BY <1>11, <2>6
    <3>2. PICK v2 : v2 = After(r, p)
      OBVIOUS
    <3>3. v2 = SeesAll(r2, y.held)
      BY <1>13, <3>1, <3>2 DEF After
    <3>4. Told(sat, toHub)
      BY BegunIs
    <3>5. Emits(f, a, a2, sess.barriers, sat.resynced)
      BY <1>1 DEF Followed
    <3>6. Hands(sess, f, p, s2)
      BY <1>2, <1>11, <1>12, <3>1 DEF Hands
    <3>7. Sound(v2, sat, Tail(toHub)) /\ InStep(v2, y, s2, a2)
      <4>1. PICK s0 \in Session : s0 = sess
        BY <1>3
      <4>2. PICK b0, x0, w0, q0 : b0 = sess.barriers /\ x0 = sat.resynced /\ w0 = sat /\ q0 = toHub
        OBVIOUS
      <4>3. Emits(f, a, a2, b0, x0) /\ Hands(s0, f, p, s2)
        BY <3>5, <3>6, <4>1, <4>2
      <4>4. Comes(f, w0, q0)
        BY <1>1, <1>3, <3>4, <4>2 DEF Comes
      <4>5. UpTo(v, r, sub, s0, w0, q0, a)
        BY <2>1, <2>2, <2>3, <4>1, <4>2 DEF UpTo
      <4>6. Sound(After(r, p), w0, Tail(q0)) /\ InStep(After(r, p), p.sub, s2, a2)
        BY <2>4, <4>3, <4>4, <4>5, FrameTaken
      <4> QED
        BY <3>1, <3>2, <4>2, <4>6
    <3> QED
      BY <1>10, <2>6, <3>3, <3>7 DEF ViewOK
  <2> QED
    BY <2>5, <2>6
<1> QED
  BY <1>18, <1>19, <1>20

-----------------------------------------------------------------------------
(* Every replica under every step.                                           *)

\* Until the satellite reuses an id.
Faithful(a) == ~sat.reused => BegunOK(sat, toHub) /\ ViewsOK(a)

(* The types of the replicas and the proxies.                                *)
\* A consumer's kernel behind its proxy.
LEMMA TypedViews ==
    ASSUME Typed
    PROVE  /\ sess \in Session /\ sat \in Satellite /\ toHub \in Frames
           /\ \A c \in Clients : /\ view[c] \in Replica \cup {None} /\ sess.subs[c] \in Subscriber \cup {None}
                                 /\ sess.subs[c] # None => GateOK(sess.subs[c])
<1>1. sess \in Session /\ sat \in Satellite /\ toHub \in Frames /\ Gateful(sess) /\ view \in [Clients -> Replica \cup {None}]
  BY DEF Typed, LinkIs, LinkTyped, MailOK
<1>2. sess.subs \in Proxies
  BY <1>1, SessionIs
<1> QED
  BY <1>1, <1>2 DEF Proxies, Gateful, Subscribed

(* A proxy that is not touched retains what it did.                          *)
\* A consumer's kernel behind its proxy.
LEMMA RetainsSame ==
    ASSUME NEW sub
    PROVE  Retains(sub, sub)
  BY DEF Retains

(* Replicas are dropped, and nothing else happens to the link.               *)
\* detach_and_release_consumer_state.
LEMMA FaithfulQuiet ==
    ASSUME NEW a, Faithful(a), UNCHANGED <<sess, toHub, sat, missed>>,
           \A c \in Clients : view'[c] = view[c] \/ view'[c] = None
    PROVE  Faithful(a)'
<1>1. ASSUME ~sat'.reused PROVE BegunOK(sat', toHub') /\ ViewsOK(a)'
  <2>1. BegunOK(sat, toHub) /\ ViewsOK(a)
    BY <1>1 DEF Faithful
  <2>2. ASSUME NEW c \in Clients \ missed' PROVE ViewOK(view'[c], sess'.subs[c], sess', sat', toHub', a)
    <3>1. ViewOK(view[c], sess.subs[c], sess, sat, toHub, a)
      BY <2>1 DEF ViewsOK
    <3>2. CASE view'[c] = None
      BY <3>2 DEF ViewOK
    <3>3. CASE view'[c] = view[c]
      BY <3>1, <3>3
    <3> QED
      BY <3>2, <3>3
  <2> QED
    BY <2>1, <2>2 DEF ViewsOK
<1> QED
  BY <1>1 DEF Faithful

(* The link is longer, and the proxies are as they were or gone.             *)
\* withdraw_terminal, withdraw_client, encode_terminal_detach.
LEMMA FaithfulAdds ==
    ASSUME Typed, NEW a, Faithful(a), ~sat.reused, BegunOK(sat', toHub'), Adds(sat, toHub, sat', toHub'),
           Slack(sess, sess'), missed' = missed, \A c \in Clients : view'[c] = view[c] \/ view'[c] = None,
           \A c \in Clients : sess'.subs[c] = sess.subs[c] \/ sess'.subs[c] = None
    PROVE  Faithful(a)'
<1>1. ASSUME NEW c \in Clients \ missed' PROVE ViewOK(view'[c], sess'.subs[c], sess', sat', toHub', a)
  <2>1. ViewOK(view[c], sess.subs[c], sess, sat, toHub, a)
    BY DEF ViewsOK, Faithful
  <2>2. PICK r \in Replica \cup {None}, sub \in Subscriber \cup {None} : r = view[c] /\ sub = sess.subs[c]
    BY TypedViews
  <2>3. PICK s2, w2, q2, y : s2 = sess' /\ w2 = sat' /\ q2 = toHub' /\ y = sess'.subs[c]
    OBVIOUS
  <2>4. PICK s0, w0, q0 : s0 = sess /\ w0 = sat /\ q0 = toHub
    OBVIOUS
  <2>5. ViewOK(r, sub, s0, w0, q0, a) /\ Adds(w0, q0, w2, q2) /\ Slack(s0, s2) /\ (y = sub \/ y = None)
    BY <2>1, <2>2, <2>3, <2>4
  <2>6. CASE y = sub
    <3>1. Retains(sub, y)
      BY <2>6, RetainsSame
    <3>2. ViewOK(r, y, s2, w2, q2, a)
      BY <2>5, <2>6, <3>1, ViewKept
    <3>3. view'[c] = r \/ view'[c] = None
      BY <2>2
    <3> QED
      BY <2>3, <3>2, <3>3 DEF ViewOK
  <2>7. CASE y = None
    <3>1. Due(sub, y, s2) /\ y \in Subscriber \cup {None}
      BY <2>7 DEF Due
    <3>2. ViewOK(r, y, s2, w2, q2, a)
      BY <2>5, <3>1, ViewIdle
    <3>3. view'[c] = r \/ view'[c] = None
      BY <2>2
    <3> QED
      BY <2>3, <3>2, <3>3 DEF ViewOK
  <2> QED
    BY <2>5, <2>6, <2>7
<1> QED
  BY <1>1 DEF ViewsOK, Faithful

(* A satellite that is the same as far as names go.                          *)
\* BootstrapId, next_bootstrap_id and republish_generation, on the satellite.
LEMMA SameNames ==
    ASSUME NEW w, NEW q, BegunOK(w, q), NEW w2, w2.conn = w.conn, w2.gen = w.gen, w2.reg = w.reg, w2.top = w.top
    PROVE  BegunOK(w2, q) /\ Adds(w, q, w2, q)
<1>1. \A g : Begun(w, g) => Begun(w2, g)
  BY DEF Begun
<1> QED
  BY <1>1 DEF BegunOK, Adds, Ahead

-----------------------------------------------------------------------------
(* The cut keeps generations named once.                                     *)
\* prepare_content_cut.
LEMMA CutNamed ==
    ASSUME Typed, BegunOK(sat, toHub), NEW s1, NEW w1, NEW q1, CutFirst(s1, w1, q1)
    PROVE  BegunOK(w1, q1) /\ Adds(sat, toHub, w1, q1) /\ w1.reused = sat.reused /\ Slack(sess, s1) /\ s1.subs = sess.subs
<1>1. CASE NeedsCut(sess)
  <2>1. Detaches(sess, sat, toHub, sess.subs, sess.legacy, s1, w1, q1)
    BY <1>1 DEF CutFirst
  <2>2. LinkTyped(sess, sat, toHub)
    BY DEF Typed, LinkIs
  <2>3. BegunOK(w1, q1) /\ Adds(sat, toHub, w1, q1) /\ w1.reused = sat.reused
    BY <2>1, <2>2, DetachesNamed
  <2>4. s1.subs = sess.subs /\ s1.barriers = sess.barriers \cup {sess.nextId}
    BY <2>1 DEF Detaches, Has
  <2> QED
    BY <2>3, <2>4 DEF Slack
<1>2. CASE ~NeedsCut(sess)
  <2>1. s1 = sess /\ w1 = sat /\ q1 = toHub
    BY <1>2 DEF CutFirst
  <2> QED
    BY <2>1, AddsNothing DEF Slack
<1> QED
  BY <1>1, <1>2

(* The cut reuses no id.                                                     *)
\* prepare_content_cut.
LEMMA CutReuses ==
    ASSUME NEW s1, NEW w1, NEW q1, CutFirst(s1, w1, q1)
    PROVE  w1.reused = sat.reused
  BY DEF CutFirst, Detaches, SatHas

(* An attach taken from the mailbox keeps every replica in step.             *)
\* prepare_request, send_relay_request.
LEMMA FaithfulServeAttach ==
    ASSUME Typed, NEW a, Steady(a), Faithful(a), ServeAttach
    PROVE  Faithful(a)'
<1>1. PICK c \in Clients, seq \in Nat : c = Head(mailbox).client /\ seq = Head(mailbox).seq
  BY RequestIs DEF ServeAttach, Typed
<1>2. PICK x \in BOOLEAN : \E s1, w1, q1, y : ServedAttach(c, seq, x, s1, w1, q1, y)
  BY <1>1, ServeAttachIs
<1>3. PICK s1, w1, q1, y : ServedAttach(c, seq, x, s1, w1, q1, y)
  BY <1>2
<1>4. /\ CutFirst(s1, w1, q1) /\ LinkTyped(s1, w1, q1)
      /\ Attaches(s1, w1, q1, c, seq, x, y, sess', sat', toHub')
      /\ missed' = IF MidStream(s1, c) THEN missed \cup {c} ELSE missed
  BY <1>3 DEF ServedAttach
<1>5. view' = [view EXCEPT ![c] = IF @ = None THEN NoReplica ELSE @]
  BY <1>1 DEF ServeAttach
<1>6. /\ Reregisters(s1.subs[c], y, TRUE) /\ Attached(q1, w1, s1.nextId, x, sat', toHub')
      /\ sess'.subs = [s1.subs EXCEPT ![c] = y] /\ sess'.barriers = s1.barriers /\ sess'.flow = s1.flow
  BY <1>4 DEF Attaches, Has
<1>7. SatelliteOK(s1, w1)
  BY <1>4, CutLeads
<1>8. w1 \in Satellite /\ q1 \in Frames /\ s1 \in Session /\ Gateful(s1)
  BY <1>4 DEF LinkTyped
<1>9. s1.nextId \in Nat /\ s1.subs \in Proxies
  BY <1>8, SessionIs
<1>10. SUFFICES ASSUME ~sat'.reused PROVE BegunOK(sat', toHub') /\ ViewsOK(a)'
  BY DEF Faithful
<1>11. PICK s2, w2, q2, n : s2 = sess' /\ w2 = sat' /\ q2 = toHub' /\ n = s1.nextId
  OBVIOUS
<1>12. Attached(q1, w1, n, x, w2, q2) /\ ~w2.reused /\ n \in Nat
  BY <1>6, <1>9, <1>10, <1>11
<1>13. ~w1.reused
  BY <1>8, <1>12, AttachedReuses
<1>14. ~sat.reused
  BY <1>4, <1>13, CutReuses
<1>15. BegunOK(sat, toHub) /\ ViewsOK(a)
  BY <1>14 DEF Faithful
<1>16. BegunOK(w1, q1) /\ Adds(sat, toHub, w1, q1) /\ Slack(sess, s1) /\ s1.subs = sess.subs
  BY <1>4, <1>15, CutNamed
<1>17. w1.conn > 0
  BY <1>7 DEF SatelliteOK
<1>18. BegunOK(w2, q2) /\ Adds(w1, q1, w2, q2)
  BY <1>8, <1>12, <1>16, <1>17, AttachedNamed
<1>19. ASSUME NEW d \in Clients \ missed' PROVE ViewOK(view'[d], sess'.subs[d], sess', sat', toHub', a)
  <2>1. d \in Clients \ missed
    BY <1>4
  <2>2. ViewOK(view[d], sess.subs[d], sess, sat, toHub, a)
    BY <1>15, <2>1 DEF ViewsOK
  <2>3. PICK r \in Replica \cup {None}, sub \in Subscriber \cup {None} : r = view[d] /\ sub = sess.subs[d]
    BY TypedViews
  <2>4. PICK s0, w0, q0 : s0 = sess /\ w0 = sat /\ q0 = toHub
    OBVIOUS
  <2>5. ViewOK(r, sub, s0, w0, q0, a) /\ Adds(w0, q0, w1, q1) /\ Slack(s0, s1)
    BY <1>16, <2>2, <2>3, <2>4
  <2>6. Retains(sub, sub)
    BY RetainsSame
  <2>7. ViewOK(r, sub, s1, w1, q1, a)
    BY <2>5, <2>6, ViewKept
  <2>8. s1.subs[d] = sub
    BY <1>16, <2>3
  <2>9. s2.barriers = s1.barriers /\ s2.flow = s1.flow
    BY <1>6, <1>11
  <2>10. CASE d = c
    <3>1. ~MidStream(s1, c)
      BY <1>4, <2>10
    <3>2. ~Joins(s1, sub, r)
      BY <2>3, <2>8, <2>10, <3>1, MidStreamIs
    <3>3. Reregisters(sub, y, TRUE)
      BY <1>6, <2>8, <2>10
    <3>4. sub # None => GateOK(sub)
      BY <1>8, <2>8 DEF Gateful, Subscribed
    <3>5. PICK r2 : r2 = IF r = None THEN NoReplica ELSE r
      OBVIOUS
    <3>6. ViewOK(r2, y, s2, w2, q2, a)
      BY <1>18, <2>7, <2>9, <3>2, <3>3, <3>4, <3>5, ViewRegisters
    <3>7. view'[c] = r2
      BY <1>5, <2>3, <2>10, <3>5 DEF Typed, MailOK
    <3>8. sess'.subs[c] = y
      BY <1>6, <1>9 DEF Proxies
    <3> QED
      BY <1>11, <2>10, <3>6, <3>7, <3>8
  <2>11. CASE d # c
    <3>1. Slack(s1, s2)
      BY <2>9 DEF Slack
    <3>2. ViewOK(r, sub, s2, w2, q2, a)
      BY <1>18, <2>6, <2>7, <3>1, ViewKept
    <3>3. view'[d] = r
      BY <1>5, <2>3, <2>11 DEF Typed, MailOK
    <3>4. sess'.subs[d] = sub
      BY <1>6, <1>9, <2>8, <2>11 DEF Proxies
    <3> QED
      BY <1>11, <3>2, <3>3, <3>4
  <2> QED
    BY <2>10, <2>11
<1> QED
  BY <1>11, <1>18, <1>19 DEF ViewsOK

(* An event subscription taken from the mailbox keeps every replica in step. *)
\* subscribe_forward.
LEMMA FaithfulServeEvents ==
    ASSUME Typed, NEW a, Faithful(a), ServeEvents
    PROVE  Faithful(a)'
<1>1. PICK c \in Clients : c = Head(mailbox).client
  BY RequestIs DEF ServeEvents, Typed
<1>2. PICK y : ServedEvents(c, y)
  BY <1>1, ServeEventsIs
<1>3. /\ y \in Subscriber /\ Reregisters(sess.subs[c], y, FALSE)
      /\ sess'.subs = [sess.subs EXCEPT ![c] = y] /\ sess'.barriers = sess.barriers /\ sess'.flow = sess.flow
      /\ sat'.conn = sat.conn /\ sat'.gen = sat.gen /\ sat'.reg = sat.reg /\ sat'.top = sat.top /\ sat'.reused = sat.reused
      /\ toHub' = toHub
  BY <1>2 DEF ServedEvents, Has, SatHas
<1>4. view' = view /\ missed' = IF sess.subs[c] = None /\ view[c] # None THEN missed \cup {c} ELSE missed
  BY <1>1 DEF ServeEvents
<1>5. SUFFICES ASSUME ~sat'.reused PROVE BegunOK(sat', toHub') /\ ViewsOK(a)'
  BY DEF Faithful
<1>6. BegunOK(sat, toHub) /\ ViewsOK(a)
  BY <1>3, <1>5 DEF Faithful
<1>7. PICK w0, q0, w2, s2, s0 : w0 = sat /\ q0 = toHub /\ w2 = sat' /\ s2 = sess' /\ s0 = sess
  OBVIOUS
<1>8. BegunOK(w2, q0) /\ Adds(w0, q0, w2, q0)
  BY <1>3, <1>6, <1>7, SameNames
<1>9. Slack(s0, s2)
  BY <1>3, <1>7 DEF Slack
<1>10. sess.subs \in Proxies
  BY TypedViews, SessionIs
<1>11. ASSUME NEW d \in Clients \ missed' PROVE ViewOK(view'[d], sess'.subs[d], sess', sat', toHub', a)
  <2>1. d \in Clients \ missed
    BY <1>4
  <2>2. ViewOK(view[d], sess.subs[d], sess, sat, toHub, a)
    BY <1>6, <2>1 DEF ViewsOK
  <2>3. PICK r \in Replica \cup {None}, sub \in Subscriber \cup {None} : r = view[d] /\ sub = sess.subs[d]
    BY TypedViews
  <2>4. PICK y2 \in Subscriber \cup {None} : y2 = sess'.subs[d]
    BY <1>3, <1>10 DEF Proxies
  <2>5. ViewOK(r, sub, s0, w0, q0, a)
    BY <1>7, <2>2, <2>3
  <2>6. CASE r = None
    BY <1>4, <2>3, <2>6 DEF ViewOK
  <2>7. CASE r # None
    <3>1. Retains(sub, y2)
      <4>1. CASE d = c
        <5>1. sub # None /\ y2 = y
          BY <1>3, <1>4, <1>10, <2>3, <2>4, <2>7, <4>1 DEF Proxies
        <5>2. Reregisters(sub, y, FALSE)
          BY <1>3, <2>3, <4>1
        <5>3. y # None /\ y.held = sub.held /\ (y.openAfter <=> sub.openAfter) /\ y.gate = sub.gate
          BY <5>1, <5>2 DEF Reregisters
        <5> QED
          BY <5>1, <5>3 DEF Retains, OpensAfter
      <4>2. CASE d # c
        <5>1. y2 = sub
          BY <1>3, <1>10, <2>3, <2>4, <4>2 DEF Proxies
        <5> QED
          BY <5>1, RetainsSame
      <4> QED
        BY <4>1, <4>2
    <3>2. ViewOK(r, y2, s2, w2, q0, a)
      BY <1>8, <1>9, <2>5, <3>1, ViewKept
    <3> QED
      BY <1>3, <1>4, <1>7, <2>3, <2>4, <3>2
  <2> QED
    BY <2>6, <2>7
<1> QED
  BY <1>3, <1>7, <1>8, <1>11 DEF ViewsOK

(* Leaving or staying keeps every replica in step.                           *)
\* encode_withdrawals.
LEMMA FaithfulWithdraw ==
    ASSUME Typed, NEW a, Faithful(a), NEW s, LinkTyped(s, sat, toHub), s.barriers = sess.barriers, s.flow = sess.flow,
           \A c \in Clients : s.subs[c] = sess.subs[c] \/ s.subs[c] = None, Leave(s) \/ Stay(s),
           missed' = missed, \A c \in Clients : view'[c] = view[c] \/ view'[c] = None
    PROVE  Faithful(a)'
<1>1. CASE Leave(s)
  <2>1. Detaches(s, sat, toHub, s.subs, FALSE, sess', sat', toHub')
    BY <1>1, LeaveIs
  <2>2. sess'.subs = s.subs /\ sess'.barriers = s.barriers \cup {s.nextId} /\ sat'.reused = sat.reused
    BY <2>1 DEF Detaches, Has, SatHas
  <2>3. CASE sat.reused
    BY <2>2, <2>3 DEF Faithful
  <2>4. CASE ~sat.reused
    <3>1. BegunOK(sat, toHub)
      BY <2>4 DEF Faithful
    <3>2. PICK w0, q0, w2, q2, s2, u, l : /\ w0 = sat /\ q0 = toHub /\ w2 = sat' /\ q2 = toHub' /\ s2 = sess' /\ u = s.subs
                                          /\ l = FALSE
      OBVIOUS
    <3>3. BegunOK(w0, q0) /\ LinkTyped(s, w0, q0) /\ Detaches(s, w0, q0, u, l, s2, w2, q2)
      BY <2>1, <3>1, <3>2
    <3>4. BegunOK(w2, q2) /\ Adds(w0, q0, w2, q2)
      BY <3>3, DetachesNamed
    <3>5. Slack(sess, sess')
      BY <2>2 DEF Slack
    <3>6. \A c \in Clients : sess'.subs[c] = sess.subs[c] \/ sess'.subs[c] = None
      BY <2>2
    <3>7. BegunOK(sat', toHub') /\ Adds(sat, toHub, sat', toHub')
      BY <3>2, <3>4
    <3> QED
      BY <2>4, <3>5, <3>6, <3>7, FaithfulAdds
  <2> QED
    BY <2>3, <2>4
<1>2. CASE Stay(s)
  <2>1. sess' = s /\ toHub' = toHub /\ sat' = sat
    BY <1>2 DEF Stay
  <2>2. CASE sat.reused
    BY <2>1, <2>2 DEF Faithful
  <2>3. CASE ~sat.reused
    <3>1. BegunOK(sat', toHub')
      BY <2>1, <2>3 DEF Faithful
    <3>2. Adds(sat, toHub, sat', toHub')
      BY <2>1, AddsNothing
    <3>3. Slack(sess, sess')
      BY <2>1 DEF Slack
    <3>4. \A c \in Clients : sess'.subs[c] = sess.subs[c] \/ sess'.subs[c] = None
      BY <2>1
    <3> QED
      BY <2>3, <3>1, <3>2, <3>3, <3>4, FaithfulAdds
  <2> QED
    BY <2>2, <2>3
<1> QED
  BY <1>1, <1>2

(* A withdrawal taken from its channel keeps every replica in step.          *)
\* handle_unsubscribe.
LEMMA FaithfulServeDetach ==
    ASSUME Typed, NEW a, Faithful(a), ServeDetach \/ ServeDetachClient
    PROVE  Faithful(a)'
<1>1. PICK c \in Clients : c = Head(unsubs).client
  BY WithdrawalIs DEF ServeDetach, ServeDetachClient, Typed
<1>2. LinkTyped(sess, sat, toHub)
  BY DEF Typed, LinkIs
<1>3. PICK s : s = Withdrawn(sess, c)
  OBVIOUS
<1>4. /\ LinkTyped(s, sat, toHub) /\ s.subs[c] = None /\ (\A d \in Clients \ {c} : s.subs[d] = sess.subs[d])
      /\ s.barriers = sess.barriers /\ s.flow = sess.flow
  BY <1>2, <1>3, WithdrawnTyped
<1>5. \A d \in Clients : s.subs[d] = sess.subs[d] \/ s.subs[d] = None
  BY <1>4
<1>6. missed' = missed
  BY DEF ServeDetach, ServeDetachClient
<1>7. view' = view \/ view' = [view EXCEPT ![c] = None]
  BY <1>1 DEF ServeDetach, ServeDetachClient
<1>8. \A d \in Clients : view'[d] = view[d] \/ view'[d] = None
  BY <1>7 DEF Typed, MailOK
<1>9. Leave(s) \/ Stay(s) \/ Stay(sess)
  BY <1>1, <1>3 DEF ServeDetach, ServeDetachClient
<1>10. CASE Leave(s) \/ Stay(s)
  BY <1>4, <1>5, <1>6, <1>8, <1>10, FaithfulWithdraw
<1>11. CASE Stay(sess)
  <2>1. PICK s0 : s0 = sess
    OBVIOUS
  <2>2. /\ LinkTyped(s0, sat, toHub) /\ s0.barriers = sess.barriers /\ s0.flow = sess.flow
        /\ \A d \in Clients : s0.subs[d] = sess.subs[d] \/ s0.subs[d] = None
        /\ Leave(s0) \/ Stay(s0)
    BY <1>2, <1>11, <2>1
  <2> QED
    BY <1>6, <1>8, <2>2, FaithfulWithdraw
<1> QED
  BY <1>9, <1>10, <1>11

(* A lost link leaves replicas that are owed nothing.                        *)
\* teardown.
LEMMA FaithfulTeardown ==
    ASSUME Typed, NEW a, Steady(a), Faithful(a), Teardown, UNCHANGED <<connected, missed>>, NEW a2
    PROVE  Faithful(a2)'
<1>1. /\ view' = view /\ sess' = NewSession /\ toHub' = <<>>
      /\ SatHas(sat', sat.conn + 1, None, None, 1, FALSE, sat.seq, sat.open, 0, sat.reused, sat.resynced)
  BY TeardownIs
<1>2. /\ sat' \in Satellite /\ sat'.conn = sat.conn + 1 /\ sat'.gen = None /\ sat'.reg = None /\ sat'.reused = sat.reused
  BY <1>1 DEF SatHas
<1>3. SUFFICES ASSUME ~sat'.reused PROVE BegunOK(sat', toHub') /\ ViewsOK(a2)'
  BY DEF Faithful
<1>4. BegunOK(sat, toHub) /\ ViewsOK(a)
  BY <1>2, <1>3 DEF Faithful
<1>5. sat.conn > 0
  BY DEF Steady, SatelliteOK
<1>6. PICK w0 \in Satellite : w0 = sat
  BY TypedViews
<1>7. PICK w2 \in Satellite : w2 = sat'
  BY <1>2
<1>8. Ahead(w0, w2)
  BY <1>2, <1>5, <1>6, <1>7, AheadReconnected
<1>9. \A g : Past(<<>>, g)
  BY DEF Past
<1>10. PICK q0, q2 : q0 = toHub /\ q2 = toHub'
  OBVIOUS
<1>11. Adds(w0, q0, w2, q2)
  BY <1>1, <1>8, <1>9, <1>10 DEF Adds
<1>12. BegunOK(w2, q2)
  BY <1>1, <1>2, <1>7, <1>10 DEF BegunOK
<1>13. ASSUME NEW d \in Clients \ missed' PROVE ViewOK(view'[d], sess'.subs[d], sess', sat', toHub', a2)
  <2>1. ViewOK(view[d], sess.subs[d], sess, sat, toHub, a)
    BY <1>4 DEF ViewsOK
  <2>2. PICK r \in Replica \cup {None}, sub \in Subscriber \cup {None} : r = view[d] /\ sub = sess.subs[d]
    BY TypedViews
  <2>3. PICK y : y = sess'.subs[d]
    OBVIOUS
  <2>4. y = None
    BY <1>1, <2>3, NewSessionIs
  <2>5. PICK s0, s2 : s0 = sess /\ s2 = sess'
    OBVIOUS
  <2>6. ViewOK(r, sub, s0, w0, q0, a)
    BY <1>6, <1>10, <2>1, <2>2, <2>5
  <2>7. Due(sub, y, s2) /\ y \in Subscriber \cup {None}
    BY <2>4 DEF Due
  <2>8. ViewOK(r, y, s2, w2, q2, a2)
    BY <1>11, <2>6, <2>7, ViewIdle
  <2> QED
    BY <1>1, <1>7, <1>10, <2>2, <2>3, <2>5, <2>8
<1> QED
  BY <1>7, <1>10, <1>12, <1>13 DEF ViewsOK

(* A link that carries nothing owes nothing.                                 *)
\* resolve_detach_reply.
LEMMA DueSame ==
    ASSUME NEW sub, NEW s2, s2.barriers = {} => s2.flow = None
    PROVE  Due(sub, sub, s2)
  BY DEF Due

(* A hub that has followed a stream to its end takes the link to carry       *)
(* nothing.                                                                  *)
\* retire_bootstrap_flow.
LEMMA RefusedIdle ==
    ASSUME Typed, NEW a, Steady(a), a.gen = None
    PROVE  sess.barriers = {} => sess.flow = None
<1>1. SUFFICES ASSUME sess.barriers = {}, sess.flow # None PROVE FALSE
  OBVIOUS
<1>2. a.gen = sess.flow.gen
  BY <1>1 DEF Steady, Leads, Carries
<1>3. sess.flow \in Flow
  BY <1>1, TypedViews, SessionIs DEF Flows
<1>4. sess.flow.gen \in Generations
  BY <1>3 DEF Flow
<1> QED
  BY <1>2, <1>4, NoneNamed

(* A reply keeps every replica in step: when a refusal opens a gate, the     *)
(* link carries nothing.                                                     *)
\* resolve_pending, roll_back_subscription.
LEMMA ViewReply ==
    ASSUME Typed, NEW a, Steady(a), NEW a2, toHub # <<>>, Followed(a, a2), ReceiveReply(Head(toHub)),
           NEW c \in Clients, NEW r \in Replica \cup {None}, NEW sub \in Subscriber \cup {None}, sub = sess.subs[c],
           NEW q, NEW q2, Adds(sat, q, sat, q2), ViewOK(r, sub, sess, sat, q, a)
    PROVE  ViewOK(r, sess'.subs[c], sess', sat, q2, a2)
<1>1. PICK f \in LinkFrame : f = Head(toHub) /\ f.kind = "Result"
  BY ReceiveFrame DEF ReceiveReply
<1>2. PICK p \in sess.pending : p.id = f.id /\ sess' = Resolved(sess, p, f.ok)
  BY <1>1 DEF ReceiveReply
<1>3. Resolves(sess, sess', p, f.ok) /\ p \in Relayed /\ f.ok \in BOOLEAN
  BY <1>1, <1>2, ReplyIs
<1>4. PICK x \in Subscriber \cup {None} :
        /\ IF f.ok THEN x = sess.subs[p.client] ELSE RollsBack(sess.subs[p.client], x, p.effect)
        /\ sess'.subs = [sess.subs EXCEPT ![p.client] = x] /\ sess'.barriers = sess.barriers /\ sess'.flow = sess.flow
  BY <1>3 DEF Resolves, Has
<1>5. p.client \in Clients
  BY <1>3 DEF Relayed
<1>6. f.id \notin sess.barriers
  BY <1>2 DEF Typed, LinkIs, LinkTyped, Apart
<1>7. a2 = a /\ (~f.ok => a2.gen = None)
  BY <1>1, <1>6 DEF Followed, Emits
<1>8. sess.subs \in Proxies
  BY TypedViews, SessionIs
<1>9. PICK y \in Subscriber \cup {None} : y = sess'.subs[c]
  BY <1>4, <1>5, <1>8 DEF Proxies
<1>10. PICK s0, s2, w0 : s0 = sess /\ s2 = sess' /\ w0 = sat
  OBVIOUS
<1>11. ViewOK(r, sub, s0, w0, q, a) /\ Adds(w0, q, w0, q2)
  BY <1>10
<1>12. CASE f.ok
  <2>1. y = sub
    BY <1>4, <1>5, <1>8, <1>9, <1>12 DEF Proxies
  <2>2. Retains(sub, y)
    BY <2>1, RetainsSame
  <2>3. Slack(s0, s2)
    BY <1>4, <1>10 DEF Slack
  <2>4. ViewOK(r, y, s2, w0, q2, a)
    BY <1>11, <2>2, <2>3, ViewKept
  <2> QED
    BY <1>7, <1>9, <1>10, <2>4
<1>13. CASE ~f.ok
  <2>1. sess.barriers = {} => sess.flow = None
    BY <1>7, <1>13, RefusedIdle
  <2>2. s2.barriers = {} => s2.flow = None
    BY <1>4, <1>10, <2>1
  <2>3. Due(sub, y, s2)
    <3>1. CASE c = p.client
      <4>1. y = x /\ RollsBack(sub, x, p.effect)
        BY <1>4, <1>5, <1>8, <1>9, <1>13, <3>1 DEF Proxies
      <4>2. x = None \/ (sub # None /\ x # None /\ x.held = sub.held)
        BY <4>1 DEF RollsBack
      <4> QED
        BY <2>2, <4>1, <4>2 DEF Due
    <3>2. CASE c # p.client
      <4>1. y = sub
        BY <1>4, <1>5, <1>8, <1>9, <3>2 DEF Proxies
      <4> QED
        BY <2>2, <4>1, DueSame
    <3> QED
      BY <3>1, <3>2
  <2>4. ViewOK(r, y, s2, w0, q2, a2)
    BY <1>11, <2>3, ViewIdle
  <2> QED
    BY <1>9, <1>10, <2>4
<1> QED
  BY <1>3, <1>12, <1>13

(* A frame of the link keeps every replica in step.                          *)
\* handle_inbound.
LEMMA FaithfulReceive ==
    ASSUME Typed, NEW a \in Stream, Steady(a), Faithful(a), Receive, NEW a2 \in Stream, Followed(a, a2)
    PROVE  Faithful(a2)'
<1>1. toHub # <<>> /\ toHub' = Tail(toHub) /\ sat' = sat
  BY DEF Receive
<1>2. PICK f \in LinkFrame : f = Head(toHub)
  BY <1>1, ReceiveFrame
<1>3. SUFFICES ASSUME ~sat.reused PROVE BegunOK(sat', toHub') /\ ViewsOK(a2)'
  BY <1>1 DEF Faithful
<1>4. BegunOK(sat, toHub) /\ ViewsOK(a)
  BY <1>3 DEF Faithful
<1>5. toHub \in Frames
  BY TypedViews
<1>6. BegunOK(sat, Tail(toHub))
  <2>1. Told(sat, toHub) /\ (sat.gen # None => Begun(sat, sat.gen)) /\ (sat.reg # None => Begun(sat, sat.reg))
    BY <1>4, BegunIs
  <2>2. Told(sat, Tail(toHub))
    BY <1>1, <1>5, <2>1, ToldTail
  <2> QED
    BY <2>1, <2>2, BegunIs
<1>7. PICK q0 \in Frames : q0 = toHub
  BY <1>5
<1>8. PICK q2 : q2 = Tail(q0)
  OBVIOUS
<1>9. Adds(sat, q0, sat, q2)
  BY <1>1, <1>7, <1>8, TailAdds
<1>10. ReceiveDetachReply(f) \/ ReceiveReply(f) \/ ReceiveUnmatched(f) \/ ReceiveFenced(f) \/ ReceiveStream(f)
  BY <1>2 DEF Receive
<1>11. ASSUME NEW c \in Clients \ missed' PROVE ViewOK(view'[c], sess'.subs[c], sess', sat, q2, a2)
  <2>1. c \in Clients \ missed
    BY <1>10 DEF ReceiveDetachReply, ReceiveReply, ReceiveUnmatched, ReceiveFenced, ReceiveStream
  <2>2. ViewOK(view[c], sess.subs[c], sess, sat, q0, a)
    BY <1>4, <1>7, <2>1 DEF ViewsOK
  <2>3. PICK r \in Replica \cup {None}, sub \in Subscriber \cup {None} : r = view[c] /\ sub = sess.subs[c]
    BY <2>1, TypedViews
  <2>4. PICK s0, s2, w0 : s0 = sess /\ s2 = sess' /\ w0 = sat
    OBVIOUS
  <2>5. ViewOK(r, sub, s0, w0, q0, a) /\ Adds(w0, q0, w0, q2)
    BY <1>9, <2>2, <2>3, <2>4
  <2>6. CASE ReceiveDetachReply(f)
    <3>1. sess' = [sess EXCEPT !.barriers = @ \ {f.id}, !.flow = None] /\ view' = view
      BY <2>6 DEF ReceiveDetachReply
    <3>2. Has(sess', sess.subs, sess.pending, sess.barriers \ {f.id}, sess.explicit, sess.legacy, None, sess.nextId)
      BY <3>1, DetachReplyIs
    <3>3. sess'.subs = sess.subs /\ sess'.flow = None
      BY <3>2 DEF Has
    <3>4. Due(sub, sub, s2)
      BY <2>4, <3>3, DueSame
    <3>5. ViewOK(r, sub, s2, w0, q2, a2)
      BY <2>5, <3>4, ViewIdle
    <3> QED
      BY <2>3, <2>4, <3>1, <3>3, <3>5
  <2>7. CASE ReceiveReply(f)
    <3>1. view' = view /\ ReceiveReply(Head(toHub))
      BY <1>2, <2>7 DEF ReceiveReply
    <3>2. ViewOK(r, sub, sess, sat, q0, a)
      BY <2>2, <2>3
    <3>3. ViewOK(r, sess'.subs[c], sess', sat, q2, a2)
      BY <1>1, <1>9, <2>1, <2>3, <3>1, <3>2, ViewReply
    <3> QED
      BY <2>3, <3>1, <3>3
  <2>8. CASE ReceiveUnmatched(f)
    <3>1. view' = view /\ sess' = sess /\ f.kind = "Result" /\ f.id \notin sess.barriers
      BY <2>8 DEF ReceiveUnmatched
    <3>2. a2 = a
      BY <1>2, <3>1 DEF Followed, Emits
    <3>3. Retains(sub, sub)
      BY RetainsSame
    <3>4. Slack(s0, s2)
      BY <2>4, <3>1 DEF Slack
    <3>5. ViewOK(r, sub, s2, w0, q2, a)
      BY <2>5, <3>3, <3>4, ViewKept
    <3> QED
      BY <2>3, <2>4, <3>1, <3>2, <3>5
  <2>9. CASE ReceiveFenced(f)
    <3>1. view' = view /\ sess' = sess /\ sess.barriers # {}
      BY <2>9 DEF ReceiveFenced, Fenced
    <3>2. Due(sub, sub, s2)
      BY <2>4, <3>1, DueSame
    <3>3. ViewOK(r, sub, s2, w0, q2, a2)
      BY <2>5, <3>2, ViewIdle
    <3> QED
      BY <2>3, <2>4, <3>1, <3>3
  <2>10. CASE ReceiveStream(f)
    <3>1. ViewOK(view[c], sess.subs[c], sess, sat, toHub, a) /\ ReceiveStream(Head(toHub)) /\ c \in Clients /\ c \notin missed'
      BY <1>2, <1>7, <2>2, <2>10, <1>11
    <3>2. ViewOK(view'[c], sess'.subs[c], sess', sat, Tail(toHub), a2)
      BY <1>1, <1>4, <3>1, ViewTakes
    <3> QED
      BY <1>7, <1>8, <3>2
  <2> QED
    BY <1>10, <2>6, <2>7, <2>8, <2>9, <2>10
<1>12. \A c \in Clients \ missed' : ViewOK(view'[c], sess'.subs[c], sess', sat', toHub', a2)
  BY <1>1, <1>7, <1>8, <1>11
<1> QED
  BY <1>1, <1>6, <1>12 DEF ViewsOK

(* The tick keeps every replica in step.                                     *)
\* maintain_relay_session.
LEMMA FaithfulTick ==
    ASSUME Typed, NEW a, Faithful(a), Tick
    PROVE  Faithful(a)'
<1>1. toHub' = toHub /\ sat' = sat /\ missed' = missed
  BY DEF Tick
<1>2. /\ Has(sess', Ticked, sess.pending \ Abandoned, sess.barriers, sess.explicit, sess.legacy, sess.flow, sess.nextId)
      /\ \A c \in Clients : view'[c] = SeesAll(view[c], TickFlush(c).sent)
  BY TickIs
<1>3. sess'.subs = Ticked /\ sess'.barriers = sess.barriers /\ sess'.flow = sess.flow
  BY <1>2 DEF Has
<1>4. SUFFICES ASSUME ~sat.reused PROVE BegunOK(sat', toHub') /\ ViewsOK(a)'
  BY <1>1 DEF Faithful
<1>5. BegunOK(sat, toHub) /\ ViewsOK(a)
  BY <1>4 DEF Faithful
<1>6. ASSUME NEW c \in Clients \ missed PROVE ViewOK(view'[c], sess'.subs[c], sess', sat, toHub, a)
  <2>1. ViewOK(view[c], sess.subs[c], sess, sat, toHub, a)
    BY <1>5 DEF ViewsOK
  <2>2. PICK r \in Replica \cup {None}, sub \in Subscriber \cup {None} : r = view[c] /\ sub = sess.subs[c]
    BY TypedViews
  <2>3. PICK p : p = TickFlush(c)
    OBVIOUS
  <2>4. /\ Sent(p, Room(c)) /\ (sub = None => p.sub = None /\ p.sent = <<>>)
        /\ (sub # None /\ p.sub = None => p.sent = <<>>)
        /\ p.sub # None => (OpensAfter(p.sub) <=> OpensAfter(sub)) /\ \A e : After(e, p) = SeesAll(e, sub.held)
    BY <2>2, <2>3, TickFlushIs
  <2>5. PICK y : y = sess'.subs[c]
    OBVIOUS
  <2>6. y = p.sub
    BY <1>3, <2>3, <2>5 DEF Ticked
  <2>7. y \in Subscriber \cup {None}
    BY <2>4, <2>6 DEF Sent
  <2>8. PICK s0, s2, w0, q0, r2 : s0 = sess /\ s2 = sess' /\ w0 = sat /\ q0 = toHub /\ r2 = view'[c]
    OBVIOUS
  <2>9. ViewOK(r, sub, s0, w0, q0, a) /\ Adds(w0, q0, w0, q0) /\ r2 = SeesAll(r, p.sent)
    BY <1>2, <2>1, <2>2, <2>3, <2>8, AddsNothing
  <2>10. CASE y = None
    <3>1. r2 = r
      BY <2>4, <2>6, <2>9, <2>10, SeesNothing
    <3>2. Due(sub, y, s2)
      BY <2>10 DEF Due
    <3>3. ViewOK(r, y, s2, w0, q0, a)
      BY <2>7, <2>9, <3>2, ViewIdle
    <3> QED
      BY <2>5, <2>8, <3>1, <3>3
  <2>11. CASE y # None
    <3>1. sub # None
      BY <2>4, <2>6, <2>11
    <3>2. (OpensAfter(y) <=> OpensAfter(sub)) /\ After(r, p) = SeesAll(r, sub.held)
      BY <2>4, <2>6, <2>11
    <3>3. SeesAll(r2, y.held) = SeesAll(r, sub.held)
      BY <2>6, <2>9, <2>11, <3>2 DEF After
    <3>4. s2.barriers = s0.barriers /\ s2.flow = s0.flow
      BY <1>3, <2>8
    <3>5. ASSUME r2 # None PROVE Sound(SeesAll(r2, y.held), w0, q0) /\ InStep(SeesAll(r2, y.held), y, s2, a)
      <4>1. PICK v : v = SeesAll(r, sub.held)
        OBVIOUS
      <4>2. r # None
        <5>1. r = None => r2 = None
          <6>1. p.sent \in Seq(LinkFrame)
            BY <2>4 DEF Sent
          <6>2. Grows(r, SeesAll(r, p.sent))
            BY <6>1, SeesAllTyped
          <6> QED
            BY <2>9, <6>2 DEF Grows
        <5> QED
          BY <3>5, <5>1
      <4>3. Sound(v, w0, q0) /\ InStep(v, sub, s0, a)
        BY <2>9, <3>1, <4>1, <4>2 DEF ViewOK
      <4>4. InStep(v, y, s2, a)
        BY <3>2, <3>4, <4>3 DEF InStep
      <4> QED
        BY <3>3, <4>1, <4>3, <4>4
    <3>6. ViewOK(r2, y, s2, w0, q0, a)
      BY <2>11, <3>5 DEF ViewOK
    <3> QED
      BY <2>5, <2>8, <3>6
  <2> QED
    BY <2>10, <2>11
<1>7. \A c \in Clients \ missed' : ViewOK(view'[c], sess'.subs[c], sess', sat', toHub', a)
  BY <1>1, <1>6
<1> QED
  BY <1>1, <1>5, <1>7 DEF ViewsOK

(* The satellite speaks: only the link is longer.                            *)
\* The satellite's end of the connection.
LEMMA FaithfulSays ==
    ASSUME Typed, NEW a, Faithful(a), ~sat.reused, BegunOK(sat', toHub'), Adds(sat, toHub, sat', toHub'),
           UNCHANGED <<sess, view, missed>>
    PROVE  Faithful(a)'
<1>1. Slack(sess, sess')
  BY DEF Slack
<1>2. \A c \in Clients : view'[c] = view[c] \/ view'[c] = None
  OBVIOUS
<1>3. \A c \in Clients : sess'.subs[c] = sess.subs[c] \/ sess'.subs[c] = None
  OBVIOUS
<1>4. missed' = missed
  OBVIOUS
<1> QED
  BY <1>1, <1>2, <1>3, <1>4, FaithfulAdds

(* Output of the satellite keeps every replica in step.                      *)
\* forward_live, on the satellite.
LEMMA FaithfulSatOutputs ==
    ASSUME Typed, NEW a, Faithful(a), SatOutputs
    PROVE  Faithful(a)'
<1>1. /\ sat.gen \in Generations /\ sat.gen # None /\ Speaks(Frame("Output", sat.gen, sat.seq + 1))
      /\ SatHas(sat', sat.conn, sat.gen, sat.reg, sat.counter, sat.events, sat.seq + 1, sat.open, sat.top,
                sat.reused, sat.resynced)
  BY SatOutputsIs
<1>2. sat'.conn = sat.conn /\ sat'.gen = sat.gen /\ sat'.reg = sat.reg /\ sat'.top = sat.top /\ sat'.reused = sat.reused
  BY <1>1 DEF SatHas
<1>3. UNCHANGED <<sess, view, missed>>
  BY DEF SatOutputs, Says
<1>4. CASE sat.reused
  BY <1>2, <1>4 DEF Faithful
<1>5. CASE ~sat.reused
  <2>1. BegunOK(sat, toHub)
    BY <1>5 DEF Faithful
  <2>2. PICK g \in Generations : g = sat.gen
    BY <1>1
  <2>3. PICK w0, w2 : w0 = sat /\ w2 = sat'
    OBVIOUS
  <2>4. PICK q0 \in Frames : q0 = toHub
    BY TypedViews
  <2>5. PICK q2 : q2 = toHub'
    OBVIOUS
  <2>6. PICK n \in Nat : n = sat.seq + 1
    BY TypedViews, SatelliteIs
  <2>7. PICK f \in LinkFrame : f = Frame("Output", g, n)
    BY FramesAre
  <2>8. f.kind = "Output" /\ f.gen = g /\ q2 = Append(q0, f)
    BY <1>1, <2>2, <2>4, <2>5, <2>6, <2>7, FramesAre DEF Speaks
  <2>9. BegunOK(w2, q0) /\ Adds(w0, q0, w2, q0)
    BY <1>2, <2>1, <2>3, <2>4, SameNames
  <2>10. Told(w2, q0) /\ (w2.gen # None => Begun(w2, w2.gen)) /\ (w2.reg # None => Begun(w2, w2.reg))
    BY <2>9, BegunIs
  <2>11. Begun(w2, g)
    BY <1>1, <1>2, <2>2, <2>3, <2>10
  <2>12. Told(w2, q2)
    BY <2>8, <2>10, <2>11, ToldAppend
  <2>13. BegunOK(w2, q2)
    BY <2>10, <2>12, BegunIs
  <2>14. PastOn(q0, q2, None)
    BY <2>8, PastAppend
  <2>15. Ahead(w0, w2)
    BY <2>9 DEF Adds
  <2>16. Adds(w0, q0, w2, q2)
    BY <2>14, <2>15, AddsIs
  <2> QED
    BY <1>3, <1>5, <2>3, <2>4, <2>5, <2>13, <2>16, FaithfulSays
<1> QED
  BY <1>4, <1>5

(* An event of the satellite keeps every replica in step.                    *)
\* The satellite's event push.
LEMMA FaithfulSatNotes ==
    ASSUME Typed, NEW a, Faithful(a), SatNotes
    PROVE  Faithful(a)'
<1>1. Speaks([kind |-> "Event"]) /\ sat' = sat
  BY SatNotesIs
<1>2. UNCHANGED <<sess, view, missed>>
  BY DEF SatNotes, Says
<1>3. CASE sat.reused
  BY <1>1, <1>3 DEF Faithful
<1>4. CASE ~sat.reused
  <2>1. BegunOK(sat, toHub)
    BY <1>4 DEF Faithful
  <2>2. PICK w0 : w0 = sat
    OBVIOUS
  <2>3. PICK q0 \in Frames : q0 = toHub
    BY TypedViews
  <2>4. PICK f \in LinkFrame : f = [kind |-> "Event"]
    BY NotesAre
  <2>5. PICK q2 : q2 = toHub'
    OBVIOUS
  <2>6. f.kind = "Event" /\ q2 = Append(q0, f)
    BY <1>1, <2>3, <2>4, <2>5 DEF Speaks
  <2>7. Told(w0, q0) /\ (w0.gen # None => Begun(w0, w0.gen)) /\ (w0.reg # None => Begun(w0, w0.reg))
    BY <2>1, <2>2, <2>3, BegunIs
  <2>8. Told(w0, q2) /\ PastOn(q0, q2, None)
    BY <2>6, <2>7, PlainTold
  <2>9. BegunOK(w0, q2)
    BY <2>7, <2>8, BegunIs
  <2>10. Ahead(w0, w0)
    BY DEF Ahead
  <2>11. Adds(w0, q0, w0, q2)
    BY <2>8, <2>10, AddsIs
  <2> QED
    BY <1>1, <1>2, <1>4, <2>2, <2>3, <2>5, <2>9, <2>11, FaithfulSays
<1> QED
  BY <1>3, <1>4

(* A close of the satellite's terminal keeps every replica in step.          *)
\* reap_terminal, on the satellite.
LEMMA FaithfulSatCloses ==
    ASSUME Typed, NEW a, Faithful(a), SatCloses
    PROVE  Faithful(a)'
<1>1. /\ Speaks([kind |-> "Closed"])
      /\ SatHas(sat', sat.conn, None, None, sat.counter, sat.events, sat.seq, FALSE, sat.top, sat.reused, sat.resynced)
  BY SatClosesIs
<1>2. /\ sat' \in Satellite /\ sat'.conn = sat.conn /\ sat'.gen = None /\ sat'.reg = None /\ sat'.top = sat.top
      /\ sat'.reused = sat.reused
  BY <1>1 DEF SatHas
<1>3. UNCHANGED <<sess, view, missed>>
  BY DEF SatCloses, Says
<1>4. CASE sat.reused
  BY <1>2, <1>4 DEF Faithful
<1>5. CASE ~sat.reused
  <2>1. BegunOK(sat, toHub)
    BY <1>5 DEF Faithful
  <2>2. PICK w0 \in Satellite, q0 \in Frames : w0 = sat /\ q0 = toHub
    BY TypedViews
  <2>3. PICK w2 \in Satellite : w2 = sat'
    BY <1>2
  <2>4. PICK f \in LinkFrame : f = [kind |-> "Closed"]
    BY NotesAre
  <2>5. PICK q2 : q2 = toHub'
    OBVIOUS
  <2>6. f.kind = "Closed" /\ q2 = Append(q0, f)
    BY <1>1, <2>2, <2>4, <2>5 DEF Speaks
  <2>7. BegunOK(w2, q2) /\ Adds(w0, q0, w2, q2)
    BY <1>2, <2>1, <2>2, <2>3, <2>6, Stops
  <2> QED
    BY <1>3, <1>5, <2>2, <2>3, <2>5, <2>7, FaithfulSays
<1> QED
  BY <1>4, <1>5

\* What a resync makes of the satellite.
Moves(w, h, w2) ==
    /\ w2 \in Satellite /\ w2.conn = w.conn /\ w2.gen = h /\ w2.reg = w.reg
    /\ w2.top = IF h[1] = w.conn /\ h[2] > w.top THEN h[2] ELSE w.top
    /\ w2.reused = (w.reused \/ (h[1] = w.conn /\ h[2] <= w.top))

(* A resync begins a new generation, unless it reuses an id.                 *)
\* republish_generation, on the satellite.
LEMMA MovesOn ==
    ASSUME NEW w \in Satellite, w.conn > 0, NEW g \in Generations, w.gen = g, g[1] = 0 \/ g[1] = w.conn,
           NEW h \in Generations, h = NextGen(g), NEW w2, Moves(w, h, w2), ~w2.reused
    PROVE  ~w.reused /\ ~Begun(w, h) /\ Begun(w2, h) /\ Ahead(w, w2)
<1>1. g[1] \in Nat /\ g[2] \in Nat /\ h[1] = g[1] /\ h[2] = g[2] + 1 /\ g # None /\ h # None
  BY NextGenIs, NoneNamed
<1>2. w.conn \in Nat /\ w.top \in Nat
  BY SatelliteIs
<1>3. /\ w2 \in Satellite /\ w2.conn = w.conn /\ w2.gen = h /\ ~(h[1] = w.conn /\ h[2] <= w.top) /\ ~w.reused
      /\ w2.top = IF h[1] = w.conn /\ h[2] > w.top THEN h[2] ELSE w.top
  BY DEF Moves
<1>4. h[1] \in Nat /\ h[2] \in Nat
  BY <1>1
<1>5. CASE g[1] = 0
  <2>1. h[1] = 0 /\ ~(h[2] <= w.gen[2]) /\ w.gen # None /\ w.gen[1] = 0
    BY <1>1, <1>5
  <2>2. ~Begun(w, h)
    BY <2>1, NewSpawnedName
  <2>3. Begun(w2, h)
    BY <1>3, <1>4, <2>1 DEF Begun
  <2>4. w.top <= w2.top
    BY <1>2, <1>3, <1>4
  <2>5. w.gen[2] <= w2.gen[2] /\ w2.gen \in Generations /\ w.gen \in Generations
    BY <1>1, <1>3
  <2>6. Ahead(w, w2)
    BY <1>3, <2>1, <2>4, <2>5, AheadIs
  <2> QED
    BY <1>3, <2>2, <2>3, <2>6
<1>6. CASE g[1] = w.conn
  <2>1. h[1] = w.conn /\ ~(h[2] <= w.top)
    BY <1>1, <1>3, <1>6
  <2>2. ~Begun(w, h)
    BY <2>1, NewOwnName
  <2>3. w2.top = h[2]
    BY <1>2, <1>3, <1>4, <2>1
  <2>4. Begun(w2, h)
    BY <1>3, <1>4, <2>1, <2>3 DEF Begun
  <2>5. w.top <= w2.top
    BY <1>2, <1>4, <2>1, <2>3
  <2>6. w2.gen[1] # 0
    BY <1>2, <1>3, <2>1
  <2>7. Ahead(w, w2)
    BY <1>3, <2>5, <2>6, AheadIs
  <2> QED
    BY <1>3, <2>2, <2>4, <2>7
<1> QED
  BY <1>5, <1>6

(* A resync of the satellite keeps every replica in step.                    *)
\* republish_generation, on the satellite.
LEMMA FaithfulSatRepublishes ==
    ASSUME Typed, NEW a, Steady(a), Faithful(a), SatRepublishes
    PROVE  Faithful(a)'
<1>1. /\ sat.gen \in Generations /\ sat.gen # None
      /\ toHub' = Announces(Append(toHub, Frame("Tombstone", sat.gen, 0)), NextGen(sat.gen), sat.seq)
      /\ SatHas(sat', sat.conn, NextGen(sat.gen), sat.reg, sat.counter, sat.events, sat.seq, sat.open,
                IF NextGen(sat.gen)[1] = sat.conn /\ NextGen(sat.gen)[2] > sat.top THEN NextGen(sat.gen)[2] ELSE sat.top,
                sat.reused \/ (NextGen(sat.gen)[1] = sat.conn /\ NextGen(sat.gen)[2] <= sat.top), TRUE)
  BY SatRepublishesIs
<1>2. UNCHANGED <<sess, view, missed>>
  BY DEF SatRepublishes, Says
<1>3. PICK g \in Generations : g = sat.gen
  BY <1>1
<1>4. PICK h \in Generations : h = NextGen(g)
  BY NextGenIs
<1>5. PICK w0 \in Satellite, q0 \in Frames : w0 = sat /\ q0 = toHub
  BY TypedViews
<1>6. PICK w2, q2 : w2 = sat' /\ q2 = toHub'
  OBVIOUS
<1>7. PICK n \in Nat : n = sat.seq
  BY TypedViews, SatelliteIs
<1>8. Moves(w0, h, w2)
  BY <1>1, <1>3, <1>4, <1>5, <1>6 DEF SatHas, Moves
<1>9. w0.conn > 0 /\ (g[1] = 0 \/ g[1] = w0.conn)
  BY <1>1, <1>3, <1>5 DEF Steady, SatelliteOK
<1>10. CASE w2.reused
  BY <1>6, <1>10 DEF Faithful
<1>11. CASE ~w2.reused
  <2>1. ~w0.reused /\ ~Begun(w0, h) /\ Begun(w2, h) /\ Ahead(w0, w2)
    BY <1>3, <1>4, <1>5, <1>8, <1>9, <1>11, MovesOn
  <2>2. BegunOK(w0, q0)
    BY <1>5, <2>1 DEF Faithful
  <2>3. Told(w0, q0) /\ (w0.gen # None => Begun(w0, w0.gen)) /\ (w0.reg # None => Begun(w0, w0.reg))
    BY <2>2, BegunIs
  <2>4. Begun(w0, g)
    BY <1>1, <1>3, <1>5, <2>3
  <2>5. PICK f \in LinkFrame : f = Frame("Tombstone", g, 0)
    BY FramesAre
  <2>6. f.kind = "Tombstone" /\ f.gen = g
    BY <2>5, FramesAre
  <2>7. PICK q1 : q1 = Append(q0, f)
    OBVIOUS
  <2>8. q1 \in Frames
    BY <2>7, AppendOf DEF Frames
  <2>9. Told(w0, q1)
    BY <2>3, <2>4, <2>6, <2>7, ToldAppend
  <2>10. PastOn(q0, q1, h)
    BY <2>6, <2>7, PastAppend
  <2>11. Told(w2, q1)
    BY <2>1, <2>8, <2>9, ToldAhead
  <2>12. Unnamed(q1, h)
    BY <2>1, <2>9, NewNameUnnamed
  <2>13. q2 = Announces(q1, h, n)
    BY <1>1, <1>3, <1>4, <1>5, <1>6, <1>7, <2>5, <2>7
  <2>14. Told(w2, q2) /\ PastOn(q1, q2, h)
    BY <2>1, <2>8, <2>11, <2>12, <2>13, AnnouncesTold
  <2>15. PastOn(q0, q2, h)
    BY <2>10, <2>14, PastFurther
  <2>16. Adds(w0, q0, w2, q2)
    BY <2>1, <2>15, AddsIs
  <2>17. w2.gen = h /\ w2.reg = w0.reg
    BY <1>8 DEF Moves
  <2>18. w2.reg # None => Begun(w2, w2.reg)
    <3>1. w0.reg \in Named
      BY SatelliteIs
    <3> QED
      BY <2>1, <2>3, <2>17, <3>1 DEF Ahead, Named
  <2>19. BegunOK(w2, q2)
    BY <2>1, <2>14, <2>17, <2>18, BegunIs
  <2>20. ~sat.reused
    BY <1>5, <2>1
  <2> QED
    BY <1>2, <1>5, <1>6, <2>16, <2>19, <2>20, FaithfulSays
<1> QED
  BY <1>10, <1>11

(* There is no replica at the start.                                         *)
\* SessionKernel, before the first BEGIN.
LEMMA FaithfulInit ==
    ASSUME Init, NEW a
    PROVE  Faithful(a)
<1>1. SatHas(sat, 1, IF Spawned THEN SpawnGen ELSE None, None, 1, FALSE, 0, TRUE, 0, FALSE, FALSE)
  BY InitSatellite
<1>2. toHub = IF Spawned THEN Announces(<<>>, SpawnGen, 0) ELSE <<>>
  BY InitLink
<1>3. sat.gen = (IF Spawned THEN SpawnGen ELSE None) /\ sat.reg = None
  BY <1>1 DEF SatHas
<1>4. \A c \in Clients : view[c] = None
  BY DEF Init
<1>5. ViewsOK(a)
  BY <1>4 DEF ViewsOK, ViewOK
<1>6. \A w : Told(w, <<>>)
  BY DEF Told
<1>7. CASE ~Spawned
  <2>1. BegunOK(sat, toHub)
    BY <1>2, <1>3, <1>6, <1>7, BegunIs
  <2> QED
    BY <1>5, <2>1 DEF Faithful
<1>8. CASE Spawned
  <2>1. <<>> \in Frames /\ SpawnGen \in Generations
    BY SpawnIs DEF Frames
  <2>2. PICK q \in Frames, h \in Generations : q = <<>> /\ h = SpawnGen
    BY <2>1
  <2>3. PICK w : w = sat
    OBVIOUS
  <2>4. h[1] = 0 /\ h[2] = 1 /\ w.gen = h /\ h # None /\ w.reg = None
    BY <1>3, <1>8, <2>2, <2>3, SpawnIs
  <2>5. Begun(w, h)
    BY <2>4 DEF Begun
  <2>6. Unnamed(q, h)
    BY <2>2 DEF Unnamed
  <2>7. Told(w, Announces(q, h, 0))
    BY <1>6, <2>2, <2>5, <2>6, AnnouncesTold
  <2>8. BegunOK(w, Announces(q, h, 0))
    BY <2>4, <2>5, <2>7, BegunIs
  <2> QED
    BY <1>2, <1>5, <1>8, <2>2, <2>3, <2>8 DEF Faithful
<1> QED
  BY <1>7, <1>8
-----------------------------------------------------------------------------
\* Somewhere between the hub and the satellite every replica is in step.
Fed == \E a : Steady(a) /\ Faithful(a)

(* What the hub has followed is a stream.                                    *)
\* The frames between the satellite and handle_inbound.
LEMMA SteadyStream ==
    ASSUME Typed, NEW a, Steady(a)
    PROVE  a \in Stream
<1>1. Led(a, toHub, sess.barriers, sat.resynced, Streaming(sat))
  BY DEF Steady, Leads
<1>2. toHub \in Frames
  BY TypedViews
<1>3. PICK q \in Frames : q = toHub
  BY <1>2
<1>4. PICK b, x, e : b = sess.barriers /\ x = sat.resynced /\ e = Streaming(sat)
  OBVIOUS
<1>5. Led(a, q, b, x, e)
  BY <1>1, <1>3, <1>4
<1> QED
  BY <1>5, LedEnds

(* The same after a step.                                                    *)
\* The frames between the satellite and handle_inbound.
LEMMA SteadyStreamNext ==
    ASSUME Typed', NEW a, Steady(a)'
    PROVE  a \in Stream
<1>1. Led(a, toHub', sess'.barriers, sat'.resynced, Streaming(sat'))
  BY DEF Steady, Leads
<1>2. toHub' \in Frames
  BY DEF Typed, LinkIs, LinkTyped
<1>3. PICK q \in Frames : q = toHub'
  BY <1>2
<1>4. PICK b, x, e : b = sess'.barriers /\ x = sat'.resynced /\ e = Streaming(sat')
  OBVIOUS
<1>5. Led(a, q, b, x, e)
  BY <1>1, <1>3, <1>4
<1> QED
  BY <1>5, LedEnds

(* Every step keeps every replica in step, for one run of the link.          *)
\* The consumers, the supervisor and the satellite.
LEMMA FedStep == Typed /\ Fed /\ [Next]_vars => Fed'
<1> SUFFICES ASSUME Typed, Fed, [Next]_vars
             PROVE  Fed'
  OBVIOUS
<1>1. PICK a : Steady(a) /\ Faithful(a)
  BY DEF Fed
<1>2. ASSUME UNCHANGED <<sess, sat, toHub, missed>>, \A c \in Clients : view'[c] = view[c] \/ view'[c] = None
      PROVE  Fed'
  <2>1. Steady(a)'
    BY <1>1, <1>2 DEF Steady
  <2>2. Faithful(a)'
    BY <1>1, <1>2, FaithfulQuiet
  <2> QED
    BY <2>1, <2>2 DEF Fed
<1>3. CASE UNCHANGED vars
  BY <1>2, <1>3 DEF vars, linkVars
<1>4. ASSUME NEW c \in Clients, IssueAttach(c) \/ IssueDetach(c) \/ TimesOut(c) \/ Reads(c)
      PROVE  Fed'
  BY <1>2, <1>4 DEF IssueAttach, IssueDetach, TimesOut, Reads, linkVars
<1>5. ASSUME NEW c \in Clients, IssueEvents(c)
      PROVE  Fed'
  <2>1. view' = view
    BY <1>5 DEF IssueEvents, Notified
  <2> QED
    BY <1>2, <1>5, <2>1 DEF IssueEvents, linkVars
<1>6. ASSUME NEW c \in Clients, DetachClient(c)
      PROVE  Fed'
  <2>1. view' = [view EXCEPT ![c] = None] /\ UNCHANGED <<sess, sat, toHub, missed>>
    BY <1>6 DEF DetachClient, linkVars
  <2>2. \A d \in Clients : view'[d] = view[d] \/ view'[d] = None
    BY <2>1 DEF Typed, MailOK
  <2> QED
    BY <1>2, <2>1, <2>2
<1>7. CASE FailFast
  <2>1. view' = view
    BY <1>7 DEF FailFast, Notified
  <2> QED
    BY <1>2, <1>7, <2>1 DEF FailFast, linkVars
<1>8. CASE DropWithdrawal
  <2>1. \/ view' = view
        \/ view' = [view EXCEPT ![Head(unsubs).client] = None]
    BY <1>8 DEF DropWithdrawal
  <2>2. \A d \in Clients : view'[d] = view[d] \/ view'[d] = None
    BY <2>1 DEF Typed, MailOK
  <2> QED
    BY <1>2, <1>8, <2>2 DEF DropWithdrawal, linkVars
<1>9. CASE Redial
  BY <1>2, <1>9 DEF Redial
<1>10. CASE ServeAttach
  BY <1>1, <1>10, SteadyServeAttach, FaithfulServeAttach DEF Fed
<1>11. CASE ServeEvents
  BY <1>1, <1>11, SteadyServeEvents, FaithfulServeEvents DEF Fed
<1>12. CASE ServeDetach \/ ServeDetachClient
  BY <1>1, <1>12, SteadyServeDetach, FaithfulServeDetach DEF Fed
<1>13. CASE ReceiveFault \/ LinkLost
  <2>1. Teardown /\ UNCHANGED <<connected, missed>>
    BY <1>13 DEF ReceiveFault, LinkLost
  <2>2. PICK a2 : Steady(a2)'
    BY <1>1, <2>1, SteadyTeardown
  <2>3. Faithful(a2)'
    BY <1>1, <2>1, FaithfulTeardown
  <2> QED
    BY <2>2, <2>3 DEF Fed
<1>14. CASE Receive
  <2>1. PICK a2 : Followed(a, a2) /\ Steady(a2)'
    BY <1>1, <1>14, SteadyReceive
  <2>2. Typed'
    BY <1>14, TypedReceive
  <2>3. a \in Stream /\ a2 \in Stream
    BY <1>1, <2>1, <2>2, SteadyStream, SteadyStreamNext
  <2>4. Faithful(a2)'
    BY <1>1, <1>14, <2>1, <2>3, FaithfulReceive
  <2> QED
    BY <2>1, <2>4 DEF Fed
<1>15. CASE Tick
  BY <1>1, <1>15, SteadyTick, FaithfulTick DEF Fed
<1>16. CASE SatOutputs
  BY <1>1, <1>16, SteadySatOutputs, FaithfulSatOutputs DEF Fed
<1>17. CASE SatNotes
  BY <1>1, <1>17, SteadySatNotes, FaithfulSatNotes DEF Fed
<1>18. CASE SatCloses
  BY <1>1, <1>18, SteadySatCloses, FaithfulSatCloses DEF Fed
<1>19. CASE SatRepublishes
  BY <1>1, <1>19, SteadySatRepublishes, FaithfulSatRepublishes DEF Fed
<1> QED
  BY <1>3, <1>4, <1>5, <1>6, <1>7, <1>8, <1>9, <1>10, <1>11, <1>12, <1>13, <1>14, <1>15, <1>16, <1>17, <1>18, <1>19
     DEF Next, ServeRequest, ServeUnsubscribe

(* A replica in step has no error.                                           *)
\* A consumer's kernel behind its proxy.
LEMMA FedUnbroken == Typed /\ Fed => OnlyAMissedFrameBreaksAReplica
<1> SUFFICES ASSUME Typed, Fed, ~sat.reused, NEW c \in Broken, c \notin missed
             PROVE  FALSE
  BY DEF OnlyAMissedFrameBreaksAReplica
<1>1. PICK a : Faithful(a)
  BY DEF Fed
<1>2. c \in Clients /\ view[c] # None /\ view[c].mirror.error
  BY DEF Broken
<1>3. PICK r \in Replica \cup {None}, sub \in Subscriber \cup {None} : r = view[c] /\ sub = sess.subs[c]
  BY <1>2, TypedViews
<1>4. ViewOK(r, sub, sess, sat, toHub, a)
  BY <1>1, <1>2, <1>3 DEF Faithful, ViewsOK
<1>5. Sound(Whole(r, sub), sat, toHub)
  BY <1>2, <1>3, <1>4, ViewIs
<1>6. Grows(r, Whole(r, sub))
  BY <1>2, <1>3, WholeIs
<1> QED
  BY <1>2, <1>3, <1>5, <1>6 DEF Sound, Grows

(* The run of the link at the start.                                         *)
\* A SPAWN's stream.
LEMMA FedInit == Init => Fed
  BY SteadyInit, FaithfulInit DEF Fed

(* In every behaviour, until the satellite reuses an id, no frame the hub    *)
(* hands on makes a consumer's kernel fail, unless the consumer was          *)
(* registered in the middle of a stream or output behind a retained READY    *)
(* was dropped for it.                                                       *)
\* fan_out, push_bootstrap_frame, flush_pending_snapshot, register_subscriber,
\* against bootstrap_begin, bootstrap_ready and terminal_output.
THEOREM OnlyAMissedFrameBreaks == Spec => []OnlyAMissedFrameBreaksAReplica
<1>1. Init => Typed /\ Fed
  BY InitTyped, FedInit
<1>2. Typed /\ Fed /\ [Next]_vars => Typed' /\ Fed'
  BY TypedStep, FedStep
<1>3. Typed /\ Fed => OnlyAMissedFrameBreaksAReplica
  BY FedUnbroken
<1> QED
  BY <1>1, <1>2, <1>3, PTL DEF Spec

-----------------------------------------------------------------------------
(* The whole invariant.                                                      *)

(* The inductive invariant, in the parts the step lemmas are about.          *)
\* The consumers, the supervisor and the satellite.
LEMMA HubInvIs ==
    HubInv <=> Typed /\ DownOK /\ EventsOK /\ Called /\ Fed /\ Blameless
<1>1. Fed <=> SatelliteOK(sess, sat) /\ LinkOK
  BY DEF Fed, Steady, Faithful, LinkOK
<1>2. HubTypeOK /\ IdsOK(sess, toHub) <=> Typed
  BY TypedIs
<1> QED
  BY <1>1, <1>2 DEF HubInv, Called, Blameless

(* In every behaviour the whole invariant of the hub holds: types, ids,      *)
(* events, calls, the run of the link and the replicas behind it.            *)
\* The consumers, the supervisor and the satellite.
THEOREM HubInvariant == Spec => []HubInv
<1>1. Init => HubInv
  <2>1. Init => Typed /\ DownOK /\ Called /\ Fed
    BY InitTyped, InitCalled, FedInit
  <2>2. Init => EventsOK /\ Blameless
    BY NewSessionIs DEF Init, EventsOK, Blameless
  <2> QED
    BY <2>1, <2>2, HubInvIs
<1>2. HubInv /\ [Next]_vars => HubInv'
  <2> SUFFICES ASSUME HubInv, [Next]_vars PROVE HubInv'
    OBVIOUS
  <2>1. Typed /\ DownOK /\ EventsOK /\ Called /\ Fed /\ Blameless
    BY HubInvIs
  <2>2. SteadyLink
    BY <2>1 DEF Fed, SteadyLink
  <2>3. Typed' /\ DownOK' /\ EventsOK'
    BY <2>1, TypedStep, DownStep, EventsStep
  <2>4. Called' /\ Fed' /\ Blameless'
    BY <2>1, <2>2, <2>3, CalledStep, FedStep, SteadyStep
  <2>5. HubInv' <=> (Typed /\ DownOK /\ EventsOK /\ Called /\ Fed /\ Blameless)'
    BY HubInvIs, PTL
  <2> QED
    BY <2>3, <2>4, <2>5
<1> QED
  BY <1>1, <1>2, PTL DEF Spec

====
