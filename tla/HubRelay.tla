------------------------------ MODULE HubRelay ------------------------------
(* A federation hub and one satellite: the hub's consumers, the relay handle *)
(* they call, the supervisor task that owns the link, and the satellite at   *)
(* its far end, for one terminal of the satellite.                           *)
(*                                                                           *)
(* Source: crates/phux-server/src/hub/{relay,link}.rs, and the callers in    *)
(* crates/phux-server/src/runtime/{commands,client}.rs.  Requests ride a     *)
(* bounded mailbox and withdrawals an unbounded one; the supervisor selects  *)
(* between the two, the link and its tick in any order.  A consumer's        *)
(* command is awaited in its own read loop, so it has at most one.           *)
(*                                                                           *)
(* The satellite is the server of AttachStreams seen from the link.  It      *)
(* serves its connection in order and what it does of itself does not depend *)
(* on what is still on its way, so a command is carried out when it is sent; *)
(* the answers and the stream wait in `toHub`.  A bootstrap enters the link  *)
(* in one piece, since nothing of the terminal can come between.  A          *)
(* generation is named by its stream, which the connection gives, and its    *)
(* bootstrap id.                                                             *)
EXTENDS RelaySession, MirrorKernel

CONSTANTS
    MailboxCap,         \* RELAY_MAILBOX
    OutCap,             \* capacity of a consumer's outbound mailbox
    Spawned,            \* the terminal was made by a SPAWN through this link
    Slow,               \* consumers that may leave frames unread; others keep up
    MaxOps,             \* bound: requests the consumers make
    MaxOutput,          \* bound: output and event frames the satellite sends
    MaxFaults           \* bound: timeouts, lost links, refused bootstraps,
                        \* closed terminals and generations replaced by resyncs

ASSUME HubAssumption ==
    /\ MailboxCap \in Nat \ {0} /\ OutCap \in Nat \ {0}
    /\ Slow \subseteq Clients /\ Spawned \in BOOLEAN
    /\ {MaxOps, MaxOutput, MaxFaults} \subseteq Nat

Request == [kind : {"Attach", "Events"}, client : Clients, seq : Nat]
Withdrawal == [kind : {"Terminal", "Client"}, client : Clients, seq : Nat]
Standing == {"In", "Leaving", "Out"}
Call == [kind : {"Attach", "Detach"}, seq : Nat, prior : Standing]

LinkFrame ==
    StreamFrame \cup [kind : {"Event", "Closed"}] \cup [kind : {"Result"}, id : Nat, ok : BOOLEAN]

Satellite ==
    [conn : Nat, gen : Generations \cup {None}, reg : Generations \cup {None}, counter : Nat,
     events : BOOLEAN, seq : Nat, open : BOOLEAN, top : Nat, reused : BOOLEAN, resynced : BOOLEAN]

Staging == {begun \in SUBSET [gen : Generations, base : Nat] : \A x, y \in begun : x = y}

Replica == [mirror : Mirror(Nat, Generations \cup {None}, {None}), staging : Staging]

(* The absent value is no generation, proxy, flow, command or replica.       *)
ASSUME NoneAssumption ==
    None \notin Generations \cup Subscriber \cup Flow \cup Call \cup Replica

VARIABLES
    mailbox,        \* requests queued for the link
    unsubs,         \* withdrawals queued for the link
    stamp,          \* the next issue-order token
    call,           \* consumer -> the command it waits for
    connected,      \* consumers whose connection is open
    unread,         \* slow consumer -> frames in its outbound mailbox
    view,           \* consumer -> its replica, applied as frames are queued
    up,             \* the link is connected
    sess,           \* the RelaySession
    toHub,          \* frames on their way from the satellite
    sat,            \* the satellite's side
    spent,          \* how much of each bound is used up
    member,         \* history: consumer -> "In", "Leaving" or "Out", as it knows
    watchers,       \* history: consumers whose event subscription stands
    late,           \* history: consumers answered while a request of theirs was on its way
    missed,         \* history: consumers registered in the middle of a stream, or
                    \* for which output of one was dropped
    blamed          \* history: the hub found the link at fault and reset it

handleVars == <<mailbox, unsubs, stamp, call>>
linkVars == <<up, sess, toHub>>
vars == <<handleVars, connected, unread, view, linkVars, sat, spent,
          member, watchers, late, missed, blamed>>

Bounds == [ops |-> MaxOps, output |-> MaxOutput, faults |-> MaxFaults]

(* A consumer whose kernel refused a frame drops its connection; nothing is  *)
(* started after that.                                                       *)
Broken == {c \in Clients : view[c] # None /\ view[c].mirror.error}

Spend(what) ==
    /\ spent[what] < Bounds[what] /\ Broken = {}
    /\ spent' = [spent EXCEPT ![what] = @ + 1]

Frame(kind, gen, seq) == [kind |-> kind, gen |-> gen, seq |-> seq]
Bootstrap(gen, base) == <<Frame("Begin", gen, base), Frame("Ready", gen, base)>>
Result(id, ok) == [kind |-> "Result", id |-> id, ok |-> ok]

NoReplica == [mirror |-> [MirrorInit(None, None) EXCEPT !.next = 0], staging |-> {}]

SpawnGen == <<0, 1>>

(* The satellite's end of a connection: what it streams, the generation it   *)
(* registered, its next bootstrap id and whether it pushes events; `top`,    *)
(* `reused` and `resynced` are history: the highest id begun, whether one    *)
(* was begun twice, and whether a generation was ever replaced by a resync.  *)
SatelliteInit ==
    [conn |-> 1, gen |-> None, reg |-> None, counter |-> 1, events |-> FALSE,
     seq |-> 0, open |-> TRUE, top |-> 0, reused |-> FALSE, resynced |-> FALSE]

(* A new connection is a new client of the satellite.                        *)
Reconnected(s) ==
    [s EXCEPT !.conn = @ + 1, !.gen = None, !.reg = None, !.counter = 1,
              !.events = FALSE, !.top = 0]

Begins(s, gen) ==
    [s EXCEPT !.gen = gen,
              !.top = IF gen[1] = s.conn /\ gen[2] > @ THEN gen[2] ELSE @,
              !.reused = @ \/ (gen[1] = s.conn /\ gen[2] <= s.top)]

(* The generation of a SPAWN through this link is on its way to a hub where  *)
(* nobody asked for it.                                                      *)
Init ==
    /\ mailbox = <<>> /\ unsubs = <<>> /\ stamp = 1
    /\ call = [c \in Clients |-> None]
    /\ connected = Clients
    /\ unread = [c \in Slow |-> 0]
    /\ view = [c \in Clients |-> None]
    /\ up = TRUE /\ sess = NewSession
    /\ toHub = IF Spawned THEN Bootstrap(SpawnGen, 0) ELSE <<>>
    /\ sat = [SatelliteInit EXCEPT !.gen = IF Spawned THEN SpawnGen ELSE None]
    /\ spent = [what \in {"ops", "output", "faults"} |-> 0]
    /\ member = [c \in Clients |-> "Out"]
    /\ watchers = {} /\ late = {} /\ missed = {} /\ blamed = FALSE

-----------------------------------------------------------------------------
(* Delivery into the consumers' mailboxes, and the answer to a call.         *)

Room(c) == IF c \in Slow THEN OutCap - unread[c] ELSE OutCap

(* The satellite carries out one command of the hub: w is [sat, frames].     *)
(* ATTACH_RESOURCE tombstones the registered generation and publishes the    *)
(* next; when the bootstrap cannot be captured, or the terminal is gone, it  *)
(* is refused and nothing streams.  DETACH_RESOURCE stops every pump and     *)
(* drops the event subscription before it answers.                           *)
SatelliteDoes(w, frame, refused) ==
    LET s == w.sat
        gen == <<s.conn, s.counter>>
        replaced == IF s.reg = None THEN <<>> ELSE <<Frame("Tombstone", s.reg, 0)>>
    IN CASE frame.kind = "Attach" /\ ~s.open ->
                [w EXCEPT !.frames = Append(@, Result(frame.id, FALSE))]
         [] frame.kind = "Attach" /\ s.open /\ refused ->
                [sat |-> [s EXCEPT !.gen = None, !.reg = None, !.counter = @ + 1],
                 frames |-> w.frames \o Append(replaced, Result(frame.id, FALSE))]
         [] frame.kind = "Attach" /\ s.open /\ ~refused ->
                [sat |-> [Begins(s, gen) EXCEPT !.reg = gen, !.counter = @ + 1],
                 frames |-> w.frames \o replaced \o Append(Bootstrap(gen, s.seq), Result(frame.id, TRUE))]
         [] frame.kind = "Detach" ->
                [sat |-> [s EXCEPT !.gen = None, !.reg = None, !.events = FALSE],
                 frames |-> Append(w.frames, Result(frame.id, TRUE))]
         [] frame.kind = "Events" -> [w EXCEPT !.sat.events = TRUE]

(* One turn of the supervisor sends at most three frames.                    *)
SendUpstream(frames, refused) ==
    LET Done(w, i) == IF i \in DOMAIN frames THEN SatelliteDoes(w, frames[i], refused) ELSE w
        w == Done(Done(Done([sat |-> sat, frames |-> <<>>], 1), 2), 3)
    IN sat' = w.sat /\ toHub' = toHub \o w.frames

(* One frame reaches a consumer's kernel.  A consumer none of whose attaches *)
(* was registered has no replica and looks at no content.                    *)
Sees(r, frame) ==
    IF r = None THEN r
    ELSE CASE frame.kind = "Begin" -> StageBegin(r, frame.gen, frame.seq)
           [] frame.kind = "Ready" -> StageReady(r, frame.gen)
           [] frame.kind = "Output" -> [r EXCEPT !.mirror = ApplyOutput(@, frame.gen, frame.seq)]
           [] frame.kind = "Tombstone" -> StageTombstone(r, frame.gen)
           [] OTHER -> r

SeesAll(r, frames) ==
    LET seen[i \in 0 .. Len(frames)] == IF i = 0 THEN r ELSE Sees(seen[i - 1], frames[i])
    IN seen[Len(frames)]

Delivered(sent) ==
    /\ unread' = [c \in Slow |-> unread[c] + Len(sent[c])]
    /\ view' = [c \in Clients |-> SeesAll(view[c], sent[c])]

(* A typed ERROR is tried on each of these consumers.                        *)
Notified(cs) ==
    /\ unread' = [c \in Slow |->
                    IF c \in cs \cap connected /\ Room(c) > 0 THEN unread[c] + 1 ELSE unread[c]]
    /\ UNCHANGED view

Waits(c, seq) == call[c] # None /\ call[c].seq = seq

(* Who is answered, and what each then takes its standing to be: a refusal   *)
(* leaves it as it was before the command.                                   *)
Answered(cs, standing) ==
    /\ call' = [c \in Clients |-> IF c \in cs THEN None ELSE call[c]]
    /\ member' = [c \in Clients |-> IF c \in cs THEN standing[c] ELSE member[c]]

Refused == [c \in Clients |-> IF call[c] = None THEN member[c] ELSE call[c].prior]

NobodyAnswered == UNCHANGED <<call, member>>

(* A withdrawal takes effect; an older request may still be in the mailbox.  *)
Overtakes(u) ==
    late' = IF \E i \in DOMAIN mailbox : mailbox[i].client = u.client /\ mailbox[i].seq < u.seq
            THEN late \cup {u.client} ELSE late

(* The last withdrawal of a consumer that left.                              *)
Gone(c) ==
    member' = [member EXCEPT ![c] =
        IF @ = "Leaving" /\ \A i \in 2 .. Len(unsubs) : unsubs[i].client # c THEN "Out" ELSE @]

StillSubscribed == watchers' = {c \in watchers : sess'.subs[c] # None}

-----------------------------------------------------------------------------
(* The consumers, and the relay handle in their read loops.                  *)

MayIssue(c) == c \in connected /\ call[c] = None /\ Spend("ops")

(* command_inner: stamped, then queued or refused at once.                   *)
IssueAttach(c) ==
    /\ MayIssue(c)
    /\ stamp' = stamp + 1
    /\ \/ /\ Len(mailbox) < MailboxCap
          /\ mailbox' = Append(mailbox, [kind |-> "Attach", client |-> c, seq |-> stamp])
          /\ call' = [call EXCEPT ![c] = [kind |-> "Attach", seq |-> stamp, prior |-> member[c]]]
          /\ member' = [member EXCEPT ![c] = "In"]
       \/ /\ Len(mailbox) = MailboxCap
          /\ UNCHANGED <<mailbox, call, member>>
    /\ UNCHANGED <<unsubs, connected, unread, view, linkVars, sat, watchers, late, missed, blamed>>

(* subscribe: there is no reply, so nobody waits.                            *)
IssueEvents(c) ==
    /\ MayIssue(c)
    /\ stamp' = stamp + 1
    /\ \/ /\ Len(mailbox) < MailboxCap
          /\ mailbox' = Append(mailbox, [kind |-> "Events", client |-> c, seq |-> stamp])
          /\ member' = [member EXCEPT ![c] = "In"]
          /\ UNCHANGED <<unread, view>>
       \/ /\ Len(mailbox) = MailboxCap
          /\ Notified({c})
          /\ UNCHANGED <<mailbox, member>>
    /\ UNCHANGED <<unsubs, call, connected, linkVars, sat, watchers, late, missed, blamed>>

(* unsubscribe_terminal                                                      *)
IssueDetach(c) ==
    /\ MayIssue(c)
    /\ stamp' = stamp + 1
    /\ unsubs' = Append(unsubs, [kind |-> "Terminal", client |-> c, seq |-> stamp])
    /\ call' = [call EXCEPT ![c] = [kind |-> "Detach", seq |-> stamp, prior |-> member[c]]]
    /\ UNCHANGED <<mailbox, connected, unread, view, linkVars, sat,
                   member, watchers, late, missed, blamed>>

(* DETACH, or the end of the connection: unsubscribe_client.  The withdrawal *)
(* has no token; its `seq` is history.  As a bound, only of a consumer with  *)
(* something to give up.                                                     *)
DetachClient(c) ==
    /\ MayIssue(c) /\ (member[c] = "In" \/ c \in late)
    /\ connected' \in {connected, connected \ {c}}
    /\ unsubs' = Append(unsubs, [kind |-> "Client", client |-> c, seq |-> stamp])
    /\ member' = [member EXCEPT ![c] = "Leaving"]
    /\ view' = [view EXCEPT ![c] = None]
    /\ unread' = [d \in Slow |-> IF d \in connected' THEN unread[d] ELSE 0]
    /\ UNCHANGED <<mailbox, stamp, call, linkVars, sat, watchers, late, missed, blamed>>

(* RELAY_COMMAND_TIMEOUT.  An attach is only waited for no longer; a         *)
(* withdrawal not yet applied is cancelled under its lock.                   *)
Cancels(c, u) == u.kind = "Terminal" /\ u.seq = call[c].seq

TimesOut(c) ==
    /\ call[c] # None
    /\ Spend("faults")
    /\ late' = late \cup {c}
    /\ \/ (\A i \in DOMAIN unsubs : ~Cancels(c, unsubs[i])) /\ UNCHANGED unsubs
       \/ \E i \in DOMAIN unsubs : Cancels(c, unsubs[i]) /\ unsubs' = RemoveAt(unsubs, i)
    /\ Answered({c}, Refused)
    /\ UNCHANGED <<mailbox, stamp, connected, unread, view, linkVars, sat,
                   watchers, missed, blamed>>

Reads(c) ==
    /\ c \in Slow /\ unread[c] > 0
    /\ unread' = [unread EXCEPT ![c] = @ - 1]
    /\ UNCHANGED <<handleVars, connected, view, linkVars, sat, spent,
                   member, watchers, late, missed, blamed>>

-----------------------------------------------------------------------------
(* run_relay_session: the supervisor while the link is connected.            *)

(* The consumer has not seen the BEGIN of a prefix whose rest it will get:   *)
(* the link is in the middle of one, or its own proxy, which was there for   *)
(* events, retains the end of one.                                           *)
MidStream(s, c) ==
    \/ /\ s.subs[c] = None \/ view[c] = None
       /\ s.barriers = {} /\ s.flow # None /\ ~s.flow.ready
    \/ view[c] = None /\ s.subs[c] # None /\ s.subs[c].gate = "Retained"

(* send_relay_request for ATTACH_RESOURCE: the cut, if one is needed, then   *)
(* registration and command.                                                 *)
ServeAttach ==
    /\ up /\ mailbox # <<>> /\ Head(mailbox).kind = "Attach"
    /\ mailbox' = Tail(mailbox)
    /\ LET c == Head(mailbox).client
           cut == IF NeedsCut(sess) THEN ContentCut(sess) ELSE [sess |-> sess, frames |-> <<>>]
       IN /\ sess' = RegisterAttach(cut.sess, c, Head(mailbox).seq)
          /\ \E refused \in BOOLEAN :
                /\ IF refused THEN sat.open /\ Spend("faults") ELSE UNCHANGED spent
                /\ SendUpstream(Append(cut.frames, [kind |-> "Attach", id |-> cut.sess.nextId]),
                                refused)
          /\ view' = [view EXCEPT ![c] = IF @ = None THEN NoReplica ELSE @]
          /\ missed' = IF MidStream(cut.sess, c) THEN missed \cup {c} ELSE missed
    /\ UNCHANGED <<unsubs, stamp, call, connected, unread, up, member, watchers, late, blamed>>

(* subscribe_forward                                                         *)
ServeEvents ==
    /\ up /\ mailbox # <<>> /\ Head(mailbox).kind = "Events"
    /\ mailbox' = Tail(mailbox)
    /\ LET c == Head(mailbox).client IN
        /\ sess' = RegisterEvents(sess, c, Head(mailbox).seq)
        /\ watchers' = watchers \cup {c}
        /\ missed' = IF sess.subs[c] = None /\ view[c] # None THEN missed \cup {c} ELSE missed
    /\ SendUpstream(<<[kind |-> "Events"]>>, FALSE)
    /\ UNCHANGED <<unsubs, stamp, call, connected, unread, view, up, spent, member, late, blamed>>

(* The last proxy is gone, or there was none: the satellite is told to stop. *)
Leave(s) ==
    /\ sess' = DetachUpstream(s)
    /\ SendUpstream(<<[kind |-> "Detach", id |-> s.nextId]>>, FALSE)

Stay(s) == sess' = s /\ UNCHANGED <<toHub, sat>>

(* handle_unsubscribe, DETACH_RESOURCE.  A consumer told it is detached      *)
(* drops its replica.                                                        *)
ServeDetach ==
    /\ up /\ unsubs # <<>> /\ Head(unsubs).kind = "Terminal"
    /\ unsubs' = Tail(unsubs)
    /\ LET c == Head(unsubs).client
           s == Withdrawn(sess, c)
       IN IF Superseded(sess, c, Head(unsubs).seq)
          THEN /\ Stay(sess)
               /\ Answered({c}, Refused)
               /\ UNCHANGED <<view, late>>
          ELSE /\ IF Subscribed(s) = {} THEN Leave(s) ELSE Stay(s)
               /\ Answered({c}, [d \in Clients |-> "Out"])
               /\ view' = [view EXCEPT ![c] = None]
               /\ Overtakes(Head(unsubs))
    /\ StillSubscribed
    /\ UNCHANGED <<mailbox, stamp, connected, unread, up, spent, missed, blamed>>

(* handle_unsubscribe for a consumer that detached or is gone.               *)
ServeDetachClient ==
    /\ up /\ unsubs # <<>> /\ Head(unsubs).kind = "Client"
    /\ unsubs' = Tail(unsubs)
    /\ LET c == Head(unsubs).client
           s == Withdrawn(sess, c)
       IN /\ IF Subscribed(sess) = {c} THEN Leave(s) ELSE Stay(s)
          /\ Gone(c)
    /\ Overtakes(Head(unsubs))
    /\ StillSubscribed
    /\ UNCHANGED <<mailbox, stamp, call, connected, unread, view, up, spent, missed, blamed>>

(* Mutant of Teardown: the pending commands are cleared, not failed.         *)
TeardownSilent ==
    /\ up' = FALSE /\ sess' = NewSession /\ toHub' = <<>>
    /\ NobodyAnswered
    /\ Notified(Subscribed(sess))
    /\ watchers' = {}
    /\ sat' = Reconnected(sat)

(* teardown: calls in flight fail, subscribed consumers are notified once,   *)
(* the registries are cleared; the satellite sees its peer go.               *)
Teardown ==
    /\ up' = FALSE /\ sess' = NewSession /\ toHub' = <<>>
    /\ Answered({c \in Clients : \E p \in sess.pending : p.client = c /\ Waits(c, p.seq)}, Refused)
    /\ Notified(Subscribed(sess))
    /\ watchers' = {}
    /\ sat' = Reconnected(sat)

(* handle_inbound: a reply to a detach lifts the barrier and retires what    *)
(* the link carried.                                                         *)
ReceiveDetachReply(f) ==
    /\ f.kind = "Result" /\ f.id \in sess.barriers
    /\ sess' = [sess EXCEPT !.barriers = @ \ {f.id}, !.flow = None]
    /\ NobodyAnswered
    /\ UNCHANGED <<unread, view, watchers, missed>>

(* resolve_pending: a consumer that stopped waiting is not told.             *)
ReceiveReply(f) ==
    /\ f.kind = "Result"
    /\ \E p \in sess.pending :
        /\ p.id = f.id
        /\ sess' = Resolved(sess, p, f.ok)
        /\ Answered({c \in {p.client} : Waits(c, p.seq)},
                    IF f.ok THEN member ELSE Refused)
    /\ StillSubscribed
    /\ UNCHANGED <<unread, view, missed>>

(* The reply to a command that was pruned.                                   *)
ReceiveUnmatched(f) ==
    /\ f.kind = "Result" /\ f.id \notin sess.barriers
    /\ \A p \in sess.pending : p.id # f.id
    /\ NobodyAnswered
    /\ UNCHANGED <<sess, unread, view, watchers, missed>>

(* relay_stream_frame behind a barrier.                                      *)
ReceiveFenced(f) ==
    /\ f.kind # "Result" /\ Fenced(sess, f)
    /\ NobodyAnswered
    /\ UNCHANGED <<sess, unread, view, watchers, missed>>

(* fan_out to every proxy; one without room never holds up the next.  Output *)
(* behind a READY that is still retained is dropped, and what follows the    *)
(* READY is not.                                                             *)
ReceiveStream(f) ==
    /\ f.kind # "Result" /\ ~Fenced(sess, f) /\ FlowAccepts(sess.flow, f)
    /\ LET pushed == [c \in Clients |->
               IF sess.subs[c] = None THEN Left(None, <<>>)
               ELSE Push(sess.subs[c], f, c \in connected, Room(c))]
       IN /\ sess' = AfterFrame([sess EXCEPT !.subs = [c \in Clients |-> pushed[c].sub]], f)
          /\ Delivered([c \in Clients |-> pushed[c].sent])
          /\ missed' = missed \cup {c \in Clients :
                f.kind = "Output" /\ pushed[c].sub # None /\ pushed[c].sub.openAfter}
    /\ NobodyAnswered
    /\ StillSubscribed

Receive ==
    /\ up /\ toHub # <<>>
    /\ toHub' = Tail(toHub)
    /\ LET f == Head(toHub) IN
        \/ ReceiveDetachReply(f)
        \/ ReceiveReply(f)
        \/ ReceiveUnmatched(f)
        \/ ReceiveFenced(f)
        \/ ReceiveStream(f)
    /\ UNCHANGED <<mailbox, unsubs, stamp, connected, up, sat, spent, late, blamed>>

(* A frame the flow does not admit resets the link.                          *)
ReceiveFault ==
    /\ up /\ toHub # <<>>
    /\ LET f == Head(toHub) IN
        f.kind # "Result" /\ ~Fenced(sess, f) /\ ~FlowAccepts(sess.flow, f)
    /\ Teardown
    /\ blamed' = TRUE
    /\ UNCHANGED <<mailbox, unsubs, stamp, connected, spent, late, missed>>

(* Mutant of TickFlush: the tick leaves what is retained to the next frame.  *)
TickFlushNot(c) == Left(sess.subs[c], <<>>)

(* flush_pending_snapshots, for one proxy.                                   *)
TickFlush(c) ==
    IF sess.subs[c] = None THEN Left(None, <<>>)
    ELSE Flush(sess.subs[c], c \in connected, Room(c))

Abandoned == {p \in sess.pending : ~Waits(p.client, p.seq)}

(* maintain_relay_session: no barrier is overdue; calls nobody waits for are *)
(* forgotten and retained prefixes retried.                                  *)
Tick ==
    /\ up
    /\ Abandoned # {} \/ \E c \in Clients : TickFlush(c).sub # sess.subs[c]
    /\ sess' = [sess EXCEPT !.pending = @ \ Abandoned,
                            !.subs = [c \in Clients |-> TickFlush(c).sub]]
    /\ Delivered([c \in Clients |-> TickFlush(c).sent])
    /\ StillSubscribed
    /\ UNCHANGED <<handleVars, connected, up, toHub, sat, spent,
                   member, late, missed, blamed>>

(* The connection is lost, a write to it stalls, or the tick finds a barrier *)
(* past its deadline.                                                        *)
LinkLost ==
    /\ up /\ Spend("faults")
    /\ Teardown
    /\ UNCHANGED <<mailbox, unsubs, stamp, connected, late, missed, blamed>>

-----------------------------------------------------------------------------
(* run_link while it dials and backs off: requests fail fast, withdrawals    *)
(* are dropped, and a dropped receipt counts as success.                     *)

FailFast ==
    /\ ~up /\ mailbox # <<>>
    /\ mailbox' = Tail(mailbox)
    /\ LET r == Head(mailbox) IN
        IF r.kind = "Attach"
        THEN /\ Answered({c \in {r.client} : Waits(c, r.seq)}, Refused)
             /\ UNCHANGED <<unread, view>>
        ELSE NobodyAnswered /\ Notified({r.client})
    /\ UNCHANGED <<unsubs, stamp, connected, linkVars, sat, spent, watchers, late, missed, blamed>>

DropWithdrawal ==
    /\ ~up /\ unsubs # <<>>
    /\ unsubs' = Tail(unsubs)
    /\ LET u == Head(unsubs) IN
        IF u.kind = "Terminal"
        THEN /\ Answered({u.client}, [d \in Clients |-> "Out"])
             /\ view' = [view EXCEPT ![u.client] = None]
        ELSE Gone(u.client) /\ UNCHANGED <<call, view>>
    /\ Overtakes(Head(unsubs))
    /\ UNCHANGED <<mailbox, stamp, connected, unread, linkVars, sat, spent,
                   watchers, missed, blamed>>

Redial ==
    /\ ~up
    /\ up' = TRUE
    /\ UNCHANGED <<handleVars, connected, unread, view, sess, toHub, sat, spent,
                   member, watchers, late, missed, blamed>>

-----------------------------------------------------------------------------
(* What the satellite does of itself.                                        *)

Says(frames, s) ==
    /\ up
    /\ toHub' = toHub \o frames
    /\ sat' = s
    /\ UNCHANGED <<handleVars, connected, unread, view, up, sess,
                   member, watchers, late, missed, blamed>>

SatOutputs ==
    /\ sat.gen # None /\ Spend("output")
    /\ Says(<<Frame("Output", sat.gen, sat.seq + 1)>>, [sat EXCEPT !.seq = @ + 1])

SatNotes ==
    /\ sat.events /\ sat.open /\ Spend("output")
    /\ Says(<<[kind |-> "Event"]>>, sat)

(* A resync: the pump leaves its generation for the next one, which nothing  *)
(* registers (AttachStreams, GenerationsAreFresh).                           *)
SatRepublishes ==
    /\ sat.gen # None /\ Spend("faults")
    /\ LET gen == <<sat.gen[1], sat.gen[2] + 1>> IN
        Says(<<Frame("Tombstone", sat.gen, 0)>> \o Bootstrap(gen, sat.seq),
                [Begins(sat, gen) EXCEPT !.resynced = TRUE])

SatCloses ==
    /\ sat.open /\ Spend("faults")
    /\ Says(<<[kind |-> "Closed"]>>, [sat EXCEPT !.open = FALSE, !.gen = None, !.reg = None])

-----------------------------------------------------------------------------
ServeRequest == ServeAttach \/ ServeEvents \/ FailFast
ServeUnsubscribe == ServeDetach \/ ServeDetachClient \/ DropWithdrawal

Next ==
    \/ \E c \in Clients :
        IssueAttach(c) \/ IssueEvents(c) \/ IssueDetach(c) \/ DetachClient(c)
        \/ TimesOut(c) \/ Reads(c)
    \/ ServeRequest \/ ServeUnsubscribe \/ Receive \/ ReceiveFault \/ Tick
    \/ LinkLost \/ Redial
    \/ SatOutputs \/ SatNotes \/ SatRepublishes \/ SatCloses

Spec == Init /\ [][Next]_vars

(* What goes on without new requests, output or failures: the supervisor's   *)
(* loop and its redial, and consumers reading.                               *)
System ==
    \/ \E c \in Slow : Reads(c)
    \/ Redial \/ ServeUnsubscribe \/ ServeRequest \/ Receive \/ ReceiveFault \/ Tick

(* The executor runs some task that is ready; nothing more is asked of the   *)
(* supervisor's select, since each step uses up what it is taken for.        *)
Fairness == WF_vars(System)

FairSpec == Spec /\ Fairness

-----------------------------------------------------------------------------
(* Properties.                                                               *)

GateOK(sub) ==
    /\ sub.gate = "Retained" <=> sub.held # <<>>
    /\ sub.openAfter => sub.gate = "Retained"
    /\ Len(sub.held) <= MaxRetained

(* Types, and what the registries keep beyond them: queues within their      *)
(* bounds, a gate that says whether anything is retained, and an id that is  *)
(* either a command's or a barrier's.                                        *)
HubTypeOK ==
    /\ mailbox \in Seq(Request) /\ Len(mailbox) <= MailboxCap
    /\ unsubs \in Seq(Withdrawal) /\ stamp \in Nat
    /\ call \in [Clients -> Call \cup {None}]
    /\ connected \subseteq Clients
    /\ unread \in [Slow -> 0 .. OutCap]
    /\ view \in [Clients -> Replica \cup {None}]
    /\ up \in BOOLEAN /\ sess \in Session /\ toHub \in Seq(LinkFrame) /\ sat \in Satellite
    /\ spent \in [{"ops", "output", "faults"} -> Nat]
    /\ member \in [Clients -> Standing]
    /\ watchers \subseteq Clients /\ late \subseteq Clients /\ missed \subseteq Clients
    /\ blamed \in BOOLEAN
    /\ \A c \in Subscribed(sess) : GateOK(sess.subs[c])
    /\ \A p \in sess.pending : p.id \notin sess.barriers

(* "After that success no unsolicited terminal stream frame may be queued    *)
(* for the withdrawn proxy" (docs/spec/L1.md), and a refused attach leaves   *)
(* no registration: a consumer that knows itself out and asked for nothing   *)
(* since has no proxy.                                                       *)
OutMeansNoProxy ==
    \A c \in Clients : member[c] = "Out" /\ call[c] = None => sess.subs[c] = None

(* "Otherwise a same-(client, terminal) re-attach that the request mailbox    *)
(* delivered first would be torn down by this stale detach" (relay.rs:199):  *)
(* a withdrawal never removes a registration issued after it.                *)
NoStaleWithdrawal ==
    [][\A c \in Clients : unsubs # <<>> /\ unsubs' = Tail(unsubs) /\ Head(unsubs).client = c
            /\ Superseded(sess, c, Head(unsubs).seq) /\ up' => sess'.subs[c] # None]_vars

(* ... and it holds through refusals, closes and link losses, unless the     *)
(* answer overtook an older request of the same consumer.                    *)
OnlyALateRequestIsNotWithdrawn ==
    \A c \in Clients \ late :
        member[c] = "Out" /\ call[c] = None => sess.subs[c] = None

(* "The READY fence and contiguous base_seq + 1 live release survive the     *)
(* hop" (docs/spec/L1.md): whatever is queued for a consumer since its       *)
(* attach was registered is a stream its kernel accepts.                     *)
FenceSurvivesTheHop == Broken = {}

(* ... and it holds across second consumers, detaches, re-attaches, full     *)
(* mailboxes, resyncs and link losses for all but the consumers that missed  *)
(* a frame, until the satellite reuses an id (AttachStreams,                 *)
(* GenerationsAreFresh).                                                     *)
OnlyAMissedFrameBreaksAReplica == Broken \subseteq missed \/ sat.reused

(* The barrier keeps the generations of one link apart: with a satellite     *)
(* that follows the protocol the hub never finds the link at fault, unless   *)
(* the satellite replaced a generation by itself.                            *)
OnlyARepublishResetsTheLink == blamed => sat.resynced

(* "event delivery survive[s] this content barrier" (docs/spec/L1.md): the   *)
(* satellite pushes events as long as a consumer that subscribed to them is  *)
(* registered, whoever attaches or leaves.                                   *)
EventsSurviveTheCut == up /\ sat.open /\ watchers # {} => sat.events

(* Every relayed command and every detach is answered, whether the link      *)
(* answers, refuses, is reset or stays down: the deadline is not needed.     *)
EveryCallIsAnswered == \A c \in Clients : []<>(call[c] = None)

(* A retained prefix is delivered or given up, even when the satellite has   *)
(* nothing more to say.                                                      *)
RetainedIsNotStranded ==
    \A c \in Slow : []<>(c \in Subscribed(sess) => sess.subs[c].gate # "Retained")
=============================================================================
