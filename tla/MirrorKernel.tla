---------------------------- MODULE MirrorKernel ----------------------------
(* A client's replica of one terminal as its session kernel keeps it         *)
(* (crates/phux-client-core/src/session.rs).  The replica is replaced at     *)
(* BOOTSTRAP_READY.  PaneOutput applies BOOTSTRAP_BEGIN, its chunks and      *)
(* READY as one step, ApplyBootstrap; where another sender may speak between *)
(* them, BEGIN and READY are two, and the generation begun waits in          *)
(* `staging`, a set of at most one record.                                   *)
(*                                                                           *)
(* `content` and `geometry` are what the screen shows: the last sequence up  *)
(* to which nothing is missing from it, and the grid it is drawn at.         *)
EXTENDS Naturals

Mirror(Seqs, Ids, Geometries) ==
    [published: Ids, next: Seqs, retired: SUBSET Ids,
     content: Seqs, geometry: Geometries, error: BOOLEAN]

MirrorInit(id, geometry) ==
    [published |-> id, next |-> 1, retired |-> {},
     content |-> 0, geometry |-> geometry, error |-> FALSE]

(* bootstrap_begin: a generation that was retired or is already shown.       *)
RefusesBegin(m, id) == id \in m.retired \/ id = m.published

(* publish: the generation replaced is retired with it.                      *)
Published(m, id, boot) ==
    [m EXCEPT !.published = id, !.next = boot.base + 1,
              !.retired = @ \cup {m.published},
              !.content = boot.content, !.geometry = boot.geometry]

ApplyBootstrap(m, id, boot) ==
    IF RefusesBegin(m, id) THEN [m EXCEPT !.error = TRUE] ELSE Published(m, id, boot)

(* published_replica and expect_next_seq: live output is exactly sequenced.  *)
Expects(m, id, s) == id \notin m.retired /\ id = m.published /\ s = m.next

(* Anything but the next sequence of the published, unretired generation is  *)
(* a protocol error.                                                         *)
ApplyOutput(m, id, s) ==
    IF Expects(m, id, s)
    THEN [m EXCEPT !.next = s + 1, !.content = IF @ = s - 1 THEN s ELSE @]
    ELSE [m EXCEPT !.error = TRUE]

ApplyTombstone(m, id) == [m EXCEPT !.retired = @ \cup {id}]

-----------------------------------------------------------------------------
(* The same frame by frame: r is [mirror, staging].                          *)

Fails(r) == [r EXCEPT !.mirror.error = TRUE]

Stages(r, id) == \E st \in r.staging : st.gen = id

(* A BEGIN in the middle of another generation's bootstrap retires that one. *)
StageBegin(r, id, base) ==
    IF RefusesBegin(r.mirror, id) \/ Stages(r, id) THEN Fails(r)
    ELSE [mirror |-> [r.mirror EXCEPT !.retired = @ \cup {st.gen : st \in r.staging}],
          staging |-> {[gen |-> id, base |-> base]}]

StageReady(r, id) ==
    IF id \in r.mirror.retired \/ ~Stages(r, id) THEN Fails(r)
    ELSE LET base == (CHOOSE st \in r.staging : st.gen = id).base IN
         [mirror |-> Published(r.mirror, id, [base |-> base, content |-> base,
                                              geometry |-> r.mirror.geometry]),
          staging |-> {}]

StageTombstone(r, id) ==
    [mirror |-> ApplyTombstone(r.mirror, id),
     staging |-> {st \in r.staging : st.gen # id}]

(* The screen shows a retired generation: input is refused.                  *)
Frozen(m) == m.published \in m.retired
=============================================================================
