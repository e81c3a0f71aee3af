---------------------------- MODULE PaneOutputInv ----------------------------
(* The inductive strengthening of PaneOutput's promises: what may be in a    *)
(* receiver, a replay, a reply and a request at each step of a pump.         *)
(*                                                                           *)
(* The argument in one sentence: the broadcast as one receiver sees it is an *)
(* unbroken run of sequences up to the actor's own, every snapshot in it is  *)
(* labelled with the sequence at its place, and a pump that forwards stands  *)
(* exactly at the front of that run, while a pump that does not is known to  *)
(* its consumer as one whose generation is void.                             *)
EXTENDS PaneOutput

Target == [pump: Pumps, id: Nat]
Item == [kind: {"Live"}, seq: Nat] \cup [kind: {"Tombstone"}, owner: Pumps, id: Nat]
        \cup [kind: {"History"}, owner: Pumps]
        \cup [kind: {"Resync"}, audience: Audience(Target), boot: Boot]
Request == [kind: {"Gap"}, target: Target] \cup [kind: {"Live", "Attach"}, geometry: Geometries]
Receiver == [lagged: BOOLEAN, items: Seq(Item)]
Binding == [id: Nat, waiting: BOOLEAN, replay: Seq(Nat)]
Steps == Ended \cup {"Run", "Request", "Capture", "Activate", "Replay"}

(* The actor's own state has its shape.                                      *)
ActorShape ==
    /\ seq \in Seqs /\ applied \in 0..seq /\ geometry \in Geometries
    /\ debounce \in Debounce(Target)
    /\ mailbox \in Seq(Request) /\ Len(mailbox) <= MailboxCapacity
    /\ capture # None => capture \in Capture
    /\ backlog \in Seq(Native)
    /\ resizes \in Nat

(* So has what is kept of each pump.                                         *)
PumpShape ==
    /\ binding \in [Pumps -> {None} \cup Binding]
    /\ rx \in [Pumps -> Receiver]
    /\ gen \in [Pumps -> Generation(Nat, Nat)]
    /\ pc \in [Pumps -> Steps]
    /\ asked \in [Pumps -> {None, "Bootstrap", "Publication"}]
    /\ reply = [p \in Pumps |-> reply[p]]
    /\ held \in [Pumps -> [cut: Nat, replay: Seq(Nat)]]
    /\ mirror \in [Pumps -> Mirror(Nat, Nat, Geometries)]
    /\ gaps \in [Pumps -> Nat]

Shape == ActorShape /\ PumpShape

-----------------------------------------------------------------------------
(* Where the one request of a native pump can be.                            *)

InCapture(p) == capture # None /\ p \in capture.waiters
Queued(p) == \E i \in 1..Len(backlog) : backlog[i] = p
Wants(p) == asked[p] = "Bootstrap" \/ InCapture(p) \/ Queued(p)
Waiting(p) == binding[p] # None /\ binding[p].waiting
Answered(p) == reply[p] # None /\ reply[p].ok

RequestOK(p) ==
    /\ asked[p] = "Bootstrap" => p \in Native /\ ~InCapture(p) /\ ~Queued(p)
    /\ InCapture(p) => ~Queued(p)
    /\ Wants(p) => pc[p] \in Ended \cup {"Capture"} /\ ~Waiting(p)
    /\ Wants(p) /\ ~Stopped(p) => reply[p] = None
    /\ asked[p] = "Publication" => Stopped(p) \/ (pc[p] = "Activate" /\ reply[p] = None)
    /\ reply[p] # None => pc[p] \in Ended \cup {"Capture", "Activate"}
    /\ pc[p] \in {"Capture", "Activate", "Replay"} => p \in Native
    /\ binding[p] # None => p \in Native /\ binding[p].id <= gen[p].id
    /\ Waiting(p) => binding[p].id = gen[p].id
    /\ Waiting(p) => \/ pc[p] \in Ended \cup {"Capture"}
                     \/ pc[p] = "Activate" /\ asked[p] = "Publication"

BacklogIsASet == \A i, j \in 1..Len(backlog) : backlog[i] = backlog[j] => i = j

(* A native pump's request is in one place at a time: the actor's mailbox,   *)
(* the capture it joined, the backlog behind it, or its answer; so an answer *)
(* is the one the pump waits for, whatever was asked, refused, released or   *)
(* voided before.                                                            *)
\* handle_native_bootstrap, finish_native_bootstrap, start_next_native_bootstrap.
OneRequestOnePlace == BacklogIsASet /\ \A p \in Pumps : RequestOK(p)

-----------------------------------------------------------------------------
(* What a snapshot shows and what was deferred since.                        *)

(* r holds the sequences after lo up to hi.                                  *)
Run(r, lo, hi) == hi = lo + Len(r) /\ \A i \in 1..Len(r) : r[i] = lo + i

BootOK(boot) == boot \in Boot /\ boot.content = boot.base /\ boot.base <= seq

(* The terminal lacks exactly what a capture in progress defers, and the     *)
(* checkpoint with the replay behind it is the whole of the output.          *)
CaptureOK ==
    /\ capture = None => applied = seq
    /\ capture # None =>
        /\ BootOK(capture.boot) /\ Run(capture.replay, capture.boot.base, seq)
        /\ Len(capture.replay) <= ReplayCapacity

(* The same of the checkpoint a pump was answered with, the publication it   *)
(* waits for, and the replay it was given.                                   *)
CutOK(p) ==
    /\ binding[p] # None => Len(binding[p].replay) <= ReplayCapacity
    /\ pc[p] = "Capture" /\ Answered(p) => BootOK(reply[p].boot)
    /\ pc[p] = "Capture" /\ Waiting(p) =>
        Answered(p) /\ Run(binding[p].replay, reply[p].boot.base, seq)
    /\ pc[p] = "Activate" => held[p].cut <= seq
    /\ pc[p] = "Activate" /\ Waiting(p) => Run(binding[p].replay, held[p].cut, seq)
    /\ pc[p] = "Activate" /\ Answered(p) =>
        /\ reply[p].replay \in Seq(Nat)
        /\ Run(reply[p].replay, held[p].cut, held[p].cut + Len(reply[p].replay))
        /\ held[p].cut + Len(reply[p].replay) <= seq
    /\ pc[p] = "Replay" =>
        /\ Run(held[p].replay, gen[p].last, gen[p].last + Len(held[p].replay))
        /\ gen[p].last + Len(held[p].replay) <= seq

-----------------------------------------------------------------------------
(* What a receiver holds.                                                    *)

(* One item moves a reader that has seen the output up to a to b; a snapshot *)
(* is of the place it is at.                                                 *)
Moves(item, a, b) ==
    \/ item.kind = "Live" /\ b = a + 1 /\ item.seq = b
    \/ item.kind # "Live" /\ b = a
       /\ (item.kind = "Resync" => item.boot.base = a /\ item.boot.content = a)

(* The items lead a reader from lo to hi: c[i] is where it stands after the  *)
(* first i of them.                                                          *)
Flow(items, lo, hi) ==
    \E c \in [0..Len(items) -> lo..hi] :
        /\ c[0] = lo /\ c[Len(items)] = hi
        /\ \A i \in 1..Len(items) : Moves(items[i], c[i - 1], c[i])
        /\ \A i, j \in 0..Len(items) : i <= j => c[i] <= c[j]

(* The pump forwards, or is about to, what its receiver holds next.          *)
Tracks(p) ==
    /\ ~rx[p].lagged
    /\ \/ pc[p] = "Run" /\ gen[p].active /\ ~gen[p].gap
       \/ pc[p] = "Replay"
       \/ pc[p] = "Activate" /\ Answered(p)

(* Where it will stand when it turns to the receiver.                        *)
Position(p) ==
    IF pc[p] = "Activate" THEN held[p].cut + Len(reply[p].replay)
    ELSE IF pc[p] = "Replay" THEN gen[p].last + Len(held[p].replay)
    ELSE gen[p].last

FlowOK(p) ==
    /\ Len(rx[p].items) <= RingCapacity
    /\ ~Stopped(p) => \E m \in 0..seq :
        /\ Flow(rx[p].items, m, seq)
        /\ Tracks(p) => m = Position(p)

(* What a pump will still receive leads without a break to the output of     *)
(* now, and starts where the pump stands unless the pump is fenced, told of  *)
(* an overrun, or replacing its generation.                                  *)
\* The broadcast subscription, handle_native_publication, PumpGeneration.
NothingIsSkipped == \A p \in Pumps : FlowOK(p)

-----------------------------------------------------------------------------
(* What the pump and its consumer know of the generation.                    *)

GenerationOK(p) ==
    /\ gen[p].cut <= gen[p].last /\ gen[p].last <= seq
    /\ ~gen[p].gap => gen[p].attempts = 0
    /\ pc[p] = "Request" => gen[p].gap
    /\ pc[p] = "Replay" => gen[p].active /\ ~gen[p].gap

MirrorOK(p) ==
    /\ ~mirror[p].error
    /\ mirror[p].content = mirror[p].next - 1
    /\ mirror[p].next \in 1 .. (seq + 1)
    /\ mirror[p].published <= gen[p].id
    /\ \A r \in mirror[p].retired : r <= gen[p].id
    /\ pc[p] = "Capture" => \A r \in mirror[p].retired : r < gen[p].id
    /\ pc[p] \in {"Run", "Request", "Replay"} /\ gen[p].active =>
        /\ mirror[p].published = gen[p].id /\ ~Frozen(mirror[p])
        /\ mirror[p].next = gen[p].last + 1
    /\ pc[p] = "Capture" \/ (pc[p] \in {"Run", "Request"} /\ ~gen[p].active) => Frozen(mirror[p])
    /\ pc[p] = "Activate" =>
        /\ mirror[p].published = gen[p].id /\ ~Frozen(mirror[p])
        /\ mirror[p].next = held[p].cut + 1

-----------------------------------------------------------------------------
(* Whom the resyncs under way are for.                                       *)

(* t names a generation its pump has published, and, until a resize is asked *)
(* for, one the pump fenced itself on if it is still its own.                *)
Known(t) ==
    /\ t.id <= gen[t.pump].id
    /\ resizes = 0 /\ t.id = gen[t.pump].id => t.id <= gaps[t.pump]

AudienceKnown(a) == (\A t \in a.only : Known(t)) /\ (resizes = 0 => ~a.everyone)

DebounceOK ==
    /\ \A t \in debounce.targets : debounce.pending /\ Known(t)
    /\ resizes = 0 => ~debounce.everyone

MailboxOK ==
    \A i \in 1..Len(mailbox) :
        IF mailbox[i].kind = "Gap" THEN Known(mailbox[i].target) ELSE resizes > 0

AudiencesOK(p) ==
    \A i \in 1..Len(rx[p].items) :
        rx[p].items[i].kind = "Resync" => AudienceKnown(rx[p].items[i].audience)

CountOK(p) ==
    resizes = 0 =>
        /\ gen[p].id <= 1 + gaps[p]
        /\ pc[p] \in {"Run", "Request"} /\ gen[p].gap => gen[p].id <= gaps[p]

(* Every resync asked for, owed or broadcast names generations pumps have    *)
(* published; without resizes, only ones their pump found a gap in.          *)
\* ResyncTarget, ResyncDebounce, ResyncAudience.
ResyncsAreOwed ==
    /\ DebounceOK /\ MailboxOK
    /\ \A p \in Pumps : AudiencesOK(p) /\ CountOK(p)

-----------------------------------------------------------------------------
(* All of it, of the actor and of one pump.                                  *)
ActorOK == BacklogIsASet /\ CaptureOK /\ DebounceOK /\ MailboxOK

PumpOK(p) ==
    /\ RequestOK(p) /\ CutOK(p) /\ FlowOK(p) /\ GenerationOK(p) /\ MirrorOK(p)
    /\ AudiencesOK(p) /\ CountOK(p)

Inv == Shape /\ ActorOK /\ \A p \in Pumps : PumpOK(p)
=============================================================================
