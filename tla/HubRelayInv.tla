----------------------------- MODULE HubRelayInv -----------------------------
(* The inductive invariant of HubRelay: state predicates only.               *)
EXTENDS HubRelay

-----------------------------------------------------------------------------
(* The link's session.                                                       *)

(* A link that is down has no session, and nothing on it.                    *)
DownOK == ~up => sess = NewSession /\ toHub = <<>> /\ watchers = {} /\ sat.gen = None

(* Ids are handed out in order; each is answered at most once.  (s is the    *)
(* session, w the satellite and q what is on its way between them.)          *)
ResultsOK(q, n) ==
    \A i \in 1 .. Len(q) : q[i].kind = "Result" =>
        /\ q[i].id < n
        /\ \A j \in 1 .. Len(q) : q[j].kind = "Result" /\ q[j].id = q[i].id => i = j

IdsOK(s, q) ==
    /\ \A p \in s.pending : p.id < s.nextId
    /\ \A b \in s.barriers : b < s.nextId
    /\ ResultsOK(q, s.nextId)

(* The hub and the satellite agree about the link's event subscription.      *)
EventsOK ==
    /\ watchers \subseteq Subscribed(sess)
    /\ watchers # {} => sess.legacy
    /\ sess.legacy => sat.events

-----------------------------------------------------------------------------
(* The consumers' calls.                                                     *)

(* Tokens are unique where they are compared.                                *)
MailStamps ==
    \A i \in 1 .. Len(mailbox) :
        /\ mailbox[i].seq < stamp
        /\ \A j \in 1 .. Len(mailbox) : mailbox[j].seq = mailbox[i].seq => i = j

PendingStamps ==
    \A p \in sess.pending :
        /\ p.seq < stamp
        /\ \A i \in 1 .. Len(mailbox) : mailbox[i].seq # p.seq
        /\ \A q \in sess.pending : q.seq = p.seq => q = p

Detaching(u) == u.kind = "Terminal"

WithdrawalStamps ==
    \A i, j \in 1 .. Len(unsubs) :
        Detaching(unsubs[i]) /\ Detaching(unsubs[j]) /\ unsubs[j].seq = unsubs[i].seq => i = j

CallStamps ==
    \A c \in Clients : call[c] # None =>
        /\ call[c].seq < stamp
        /\ \A d \in Clients : call[d] # None /\ call[d].seq = call[c].seq => c = d

StampsOK == MailStamps /\ PendingStamps /\ WithdrawalStamps /\ CallStamps

(* An attach is somewhere on its way, and a withdrawal is queued, for as     *)
(* long as its consumer waits.                                               *)
MailCalls ==
    \A i \in 1 .. Len(mailbox) :
        Waits(mailbox[i].client, mailbox[i].seq)
            => mailbox[i].kind = "Attach" /\ call[mailbox[i].client].kind = "Attach"

PendingCalls ==
    \A p \in sess.pending : Waits(p.client, p.seq) => call[p.client].kind = "Attach"

WithdrawalCalls ==
    \A i \in 1 .. Len(unsubs) : Detaching(unsubs[i]) =>
        Waits(unsubs[i].client, unsubs[i].seq) /\ call[unsubs[i].client].kind = "Detach"

CallPlaces ==
    \A c \in Clients : call[c] # None =>
        /\ \A i \in 1 .. Len(mailbox) : mailbox[i].client = c => mailbox[i].seq <= call[c].seq
        /\ call[c].kind = "Attach" => member[c] = "In"
        /\ call[c].kind = "Detach" =>
            \E i \in 1 .. Len(unsubs) : Detaching(unsubs[i]) /\ unsubs[i].client = c

CallsOK == MailCalls /\ PendingCalls /\ WithdrawalCalls /\ CallPlaces

(* Unless an answer overtook it, a request of a consumer is waited for.      *)
MailWaited ==
    \A i \in 1 .. Len(mailbox) : mailbox[i].client \notin late /\ mailbox[i].kind = "Attach"
        => Waits(mailbox[i].client, mailbox[i].seq)

PendingWaited == \A p \in sess.pending : p.client \notin late => Waits(p.client, p.seq)

WaitedOK == MailWaited /\ PendingWaited

(* What a consumer takes its standing to be if its command is refused.       *)
StandsAs(c) == IF call[c] = None THEN member[c] ELSE call[c].prior

(* A consumer that is out has nothing queued but what it waits for, and a    *)
(* proxy only while the attach that made it is unanswered.                   *)
OutMail(c) ==
    StandsAs(c) = "Out" =>
        \A i \in 1 .. Len(mailbox) : mailbox[i].client = c => Waits(c, mailbox[i].seq)

OutProxy(c) ==
    StandsAs(c) = "Out" /\ sess.subs[c] # None =>
        \E p \in sess.pending : p.client = c /\ p.effect = "New"

LeavingMail(c) ==
    StandsAs(c) = "Leaving" =>
        \A i \in 1 .. Len(mailbox) : mailbox[i].client = c =>
            \/ Waits(c, mailbox[i].seq)
            \/ \E j \in 1 .. Len(unsubs) :
                unsubs[j].kind = "Client" /\ unsubs[j].client = c /\ mailbox[i].seq < unsubs[j].seq

OutOK == \A c \in Clients \ late : OutMail(c) /\ OutProxy(c) /\ LeavingMail(c)

-----------------------------------------------------------------------------
(* The stream on the link.                                                   *)

(* An explicit attach follows a detach, so what the satellite streams after  *)
(* it was registered, and is what was registered until a resync.             *)
SatelliteOK(s, w) ==
    /\ w.conn > 0
    /\ w.reg # None => w.gen # None /\ w.reg[1] = w.conn
    /\ w.gen # None => w.open /\ w.gen[1] \in {0, w.conn}
    /\ s.explicit \/ s.barriers # {} =>
        /\ w.gen # None => w.reg # None
        /\ ~w.resynced => w.gen = w.reg

Stream == [gen : Generations \cup {None}, ready : BOOLEAN, next : Nat]

(* What the satellite streams now.                                           *)
Streaming(w) == [gen |-> w.gen, ready |-> TRUE, next |-> w.seq + 1]

(* The stream before and after one frame of it; until a resync the satellite *)
(* begins a generation only after the end of the one before.                 *)
Emits(f, a, b, barriers, resynced) ==
    CASE f.kind = "Begin" ->
            /\ b = [gen |-> f.gen, ready |-> FALSE, next |-> f.seq + 1]
            /\ ~resynced => a.gen = None
      [] f.kind = "Ready" ->
            a.gen = f.gen /\ ~a.ready /\ b = [gen |-> f.gen, ready |-> TRUE, next |-> a.next]
      [] f.kind = "Output" ->
            /\ a.gen = f.gen /\ a.ready /\ a.next = f.seq
            /\ b = [gen |-> f.gen, ready |-> TRUE, next |-> f.seq + 1]
      [] f.kind = "Tombstone" -> b.gen = None /\ (~resynced => a.gen = f.gen)
      [] f.kind = "Closed" -> b.gen = None
      [] f.kind = "Event" -> b = a
      [] f.kind = "Result" ->
            /\ IF f.id \in barriers THEN b.gen = None ELSE b = a
            /\ ~f.ok => b.gen = None

(* The link as a run: a stream before and after each frame on its way.       *)
Runs(r, q, barriers, resynced, end) ==
    /\ r \in [1 .. Len(q) + 1 -> Stream]
    /\ r[Len(q) + 1] = end
    /\ \A i \in 1 .. Len(q) : Emits(q[i], r[i], r[i + 1], barriers, resynced)

(* The hub's idea of what the link carries.                                  *)
Carries(s, w, a) ==
    s.barriers = {} =>
        /\ s.flow # None => a.gen = s.flow.gen /\ a.ready = s.flow.ready
        /\ ~w.resynced /\ a.gen # None => s.flow # None

(* From a, the stream the hub has followed so far, to what the satellite     *)
(* streams now.                                                              *)
Led(a, q, barriers, resynced, end) == \E r : Runs(r, q, barriers, resynced, end) /\ r[1] = a

Leads(a, s, w, q) == Led(a, q, s.barriers, w.resynced, Streaming(w)) /\ Carries(s, w, a)

-----------------------------------------------------------------------------
(* Generations are named once.                                               *)

Begun(w, g) ==
    \/ g[1] = 0 /\ (w.gen # None /\ w.gen[1] = 0 => g[2] <= w.gen[2])
    \/ 0 < g[1] /\ g[1] < w.conn
    \/ g[1] = w.conn /\ g[2] <= w.top

(* The generation of no BEGIN that is on its way.                            *)
Past(q, g) == \A i \in 1 .. Len(q) : q[i].kind = "Begin" => q[i].gen # g

BegunOK(w, q) ==
    /\ w.gen # None => Begun(w, w.gen)
    /\ w.reg # None => Begun(w, w.reg)
    /\ \A i \in 1 .. Len(q) : q[i] \in StreamFrame =>
        /\ Begun(w, q[i].gen)
        /\ \A j \in 1 .. Len(q) : i < j /\ q[j].kind = "Begin" => q[j].gen # q[i].gen

(* What a replica has heard of cannot be begun again.                        *)
Mentioned(r) == (r.mirror.retired \cup {r.mirror.published} \cup {st.gen : st \in r.staging}) \ {None}

Sound(r, w, q) ==
    /\ ~r.mirror.error
    /\ \A g \in Mentioned(r) : Begun(w, g) /\ Past(q, g)

OpensAfter(sub) == sub.gate = "Open" \/ sub.openAfter

(* A replica that has what is retained for it is where the link's stream is. *)
InStep(r, sub, s, a) ==
    s.barriers = {} /\ s.flow # None =>
        IF s.flow.ready
        THEN OpensAfter(sub) =>
                r.mirror.published = a.gen /\ a.gen \notin r.mirror.retired /\ r.mirror.next = a.next
        ELSE /\ r.staging = {[gen |-> a.gen, base |-> a.next - 1]}
             /\ a.gen \notin r.mirror.retired \cup {r.mirror.published}

(* A consumer's replica and its proxy.                                       *)
ViewOK(r, sub, s, w, q, a) ==
    r # None =>
        IF sub = None THEN Sound(r, w, q)
        ELSE Sound(SeesAll(r, sub.held), w, q) /\ InStep(SeesAll(r, sub.held), sub, s, a)

ViewsOK(a) == \A c \in Clients \ missed : ViewOK(view[c], sess.subs[c], sess, sat, toHub, a)

LinkOK ==
    \E a : Leads(a, sess, sat, toHub) /\ (~sat.reused => BegunOK(sat, toHub) /\ ViewsOK(a))

HubInv ==
    /\ HubTypeOK /\ DownOK /\ IdsOK(sess, toHub) /\ EventsOK
    /\ StampsOK /\ CallsOK /\ WaitedOK /\ OutOK
    /\ SatelliteOK(sess, sat) /\ LinkOK /\ (blamed => sat.resynced)
=============================================================================
