---------------------------- MODULE RelaySession ----------------------------
(* What a hub keeps about one satellite link, for one of the satellite's     *)
(* terminals (struct RelaySession, crates/phux-server/src/hub/relay.rs), and *)
(* how it hands the satellite's stream on to its own consumers: pure         *)
(* operators, driven by HubRelay.                                            *)
(*                                                                           *)
(* A consumer's outbound mailbox is seen through two facts: whether it is    *)
(* alive and how much room it has.  Pushing a frame returns the proxy that   *)
(* is left (None once it is reaped) and the frames that entered the mailbox. *)
(* A BOOTSTRAP_CHUNK takes BEGIN's path and is left out; byte budgets and    *)
(* the connection-wide ones act as the frame budget of a subscriber does.    *)
EXTENDS Naturals, Sequences, SequencesExt, FiniteSets

CONSTANTS
    Clients,            \* the hub's consumers
    None,
    MaxRetained         \* MAX_RELAY_SUBSCRIBER_RETAINED_FRAMES

ASSUME RelaySessionAssumption ==
    /\ None \notin Clients
    /\ MaxRetained \in Nat \ {0}

-----------------------------------------------------------------------------
(* One proxy subscriber and its snapshot gate.                               *)

Generations == Nat \X Nat

StreamFrame == [kind : {"Begin", "Ready", "Output", "Tombstone"}, gen : Generations, seq : Nat]

Subscriber ==
    [seq : Nat, gate : {"Awaiting", "Open", "Retained"}, held : Seq(StreamFrame), openAfter : BOOLEAN]

Proxy(seq, gate) == [seq |-> seq, gate |-> gate, held |-> <<>>, openAfter |-> FALSE]

Gated(openAfter) == IF openAfter THEN "Open" ELSE "Awaiting"

Left(sub, sent) == [sub |-> sub, sent |-> sent]

Holds(sub, frame) ==
    [sub EXCEPT !.gate = "Retained", !.held = Append(@, frame),
                !.openAfter = @ \/ frame.kind = "Ready"]

(* Mutant of PushBootstrap: the bound is tested after the frame is retained. *)
PushBootstrapOver(sub, frame, alive, room) ==
    IF sub.gate = "Retained"
    THEN Left(IF Len(sub.held) <= MaxRetained THEN Holds(sub, frame) ELSE None, <<>>)
    ELSE IF ~alive THEN Left(None, <<>>)
    ELSE IF room > 0 THEN Left([sub EXCEPT !.gate = Gated(frame.kind = "Ready")], <<frame>>)
    ELSE Left(Holds(sub, frame), <<>>)

(* push_bootstrap_frame: what is already retained goes first, so a frame     *)
(* behind it is retained too and no attempt is made to send.                 *)
PushBootstrap(sub, frame, alive, room) ==
    IF sub.gate = "Retained"
    THEN Left(IF Len(sub.held) < MaxRetained THEN Holds(sub, frame) ELSE None, <<>>)
    ELSE IF ~alive THEN Left(None, <<>>)
    ELSE IF room > 0 THEN Left([sub EXCEPT !.gate = Gated(frame.kind = "Ready")], <<frame>>)
    ELSE Left(Holds(sub, frame), <<>>)

(* flush_pending_snapshot                                                    *)
Flush(sub, alive, room) ==
    LET n == IF room < Len(sub.held) THEN room ELSE Len(sub.held)
        rest == SubSeq(sub.held, n + 1, Len(sub.held))
    IN IF sub.gate # "Retained" THEN Left(sub, <<>>)
       ELSE IF ~alive THEN Left(None, <<>>)
       ELSE Left([sub EXCEPT !.held = rest,
                             !.gate = IF rest # <<>> THEN "Retained" ELSE Gated(sub.openAfter),
                             !.openAfter = rest # <<>> /\ sub.openAfter],
                 SubSeq(sub.held, 1, n))

(* Mutant of PushDelta: live output does not wait for the gate.              *)
PushDeltaUngated(sub, frame, alive, room) ==
    LET f == Flush(sub, alive, room) IN
    IF f.sub = None THEN f
    ELSE IF alive /\ room > Len(f.sent) THEN Left(f.sub, Append(f.sent, frame))
    ELSE Left(None, f.sent)

(* fan_out, for output and events: the retained prefix first; a consumer     *)
(* whose mailbox refuses the frame itself is reaped.                         *)
PushDelta(sub, frame, alive, room) ==
    LET f == Flush(sub, alive, room) IN
    IF f.sub = None \/ f.sub.gate # "Open" THEN f
    ELSE IF alive /\ room > Len(f.sent) THEN Left(f.sub, Append(f.sent, frame))
    ELSE Left(None, f.sent)

(* fan_out_ungated                                                           *)
PushUngated(sub, frame, alive, room) ==
    IF alive /\ room > 0 THEN Left(sub, <<frame>>) ELSE Left(None, <<>>)

Push(sub, frame, alive, room) ==
    CASE frame.kind \in {"Begin", "Ready", "Tombstone"} -> PushBootstrap(sub, frame, alive, room)
      [] frame.kind \in {"Output", "Event"} -> PushDelta(sub, frame, alive, room)
      [] frame.kind = "Closed" -> PushUngated(sub, frame, alive, room)

-----------------------------------------------------------------------------
(* The session.                                                              *)

(* What the link carries, and a relayed command awaiting its reply.          *)
Flow == [gen : Generations, ready : BOOLEAN]

Relayed == [id : Nat, client : Clients, seq : Nat, effect : {"New", "Regated", "Idempotent"}]

Session ==
    [subs : [Clients -> Subscriber \cup {None}], pending : SUBSET Relayed, barriers : SUBSET Nat,
     explicit : BOOLEAN, legacy : BOOLEAN, flow : Flow \cup {None}, nextId : Nat]

NewSession ==
    [subs |-> [c \in Clients |-> None],
     pending |-> {},            \* relayed commands awaiting their reply
     barriers |-> {},           \* pending_detaches
     explicit |-> FALSE,        \* explicit_content holds the terminal
     legacy |-> FALSE,          \* legacy_events holds the terminal
     flow |-> None,             \* the generation the link carries
     nextId |-> 1]

Subscribed(s) == {c \in Clients : s.subs[c] # None}

(* encode_terminal_detach                                                    *)
DetachUpstream(s) ==
    [s EXCEPT !.explicit = FALSE, !.legacy = FALSE,
              !.barriers = @ \cup {s.nextId}, !.nextId = @ + 1]

(* Mutant of NeedsCut: any subscriber counts as owning the content.          *)
NeedsCutUnlessShared(s) == ~s.explicit /\ s.barriers = {} /\ Subscribed(s) = {}

(* prepare_request: the first explicit attach cuts off what the satellite    *)
(* publishes to the link by itself.                                          *)
NeedsCut(s) == ~s.explicit /\ s.barriers = {}

(* Mutant of ContentCut: the event subscription is not restored.             *)
ContentCutOnly(s) == [sess |-> DetachUpstream(s), frames |-> <<[kind |-> "Detach", id |-> s.nextId]>>]

(* prepare_content_cut: the satellite's detach also drops the link's event   *)
(* subscription, which is sent again behind it.                              *)
ContentCut(s) ==
    [sess |-> [DetachUpstream(s) EXCEPT !.legacy = s.legacy],
     frames |-> <<[kind |-> "Detach", id |-> s.nextId]>>
                \o IF s.legacy THEN <<[kind |-> "Events"]>> ELSE <<>>]

(* register_subscriber, and the effect a refusal has to undo.                *)
Registered(s, c, seq, awaits) ==
    LET old == s.subs[c]
        regated == old # None /\ awaits /\ old.gate = "Open"
    IN [effect |-> IF old = None THEN "New" ELSE IF regated THEN "Regated" ELSE "Idempotent",
        sess |-> [s EXCEPT !.subs[c] =
            IF old = None THEN Proxy(seq, Gated(~awaits))
            ELSE [old EXCEPT !.seq = IF seq > @ THEN seq ELSE @,
                             !.gate = IF regated THEN "Awaiting" ELSE @]]]

(* handle_request_checked for ATTACH_RESOURCE: registration and command in   *)
(* one step.                                                                 *)
RegisterAttach(s, c, seq) ==
    LET r == Registered([s EXCEPT !.explicit = TRUE], c, seq, TRUE) IN
    [r.sess EXCEPT
        !.pending = @ \cup {[id |-> s.nextId, client |-> c, seq |-> seq, effect |-> r.effect]},
        !.nextId = @ + 1]

(* subscribe_forward                                                         *)
RegisterEvents(s, c, seq) == Registered([s EXCEPT !.legacy = TRUE], c, seq, FALSE).sess

(* withdraw_terminal and withdraw_client.                                    *)
Superseded(s, c, seq) == s.subs[c] # None /\ s.subs[c].seq >= seq

Withdrawn(s, c) == [s EXCEPT !.subs[c] = None]

(* Mutant of RollBack: the registration stays.                               *)
RollBackNot(s, p) == s

(* roll_back_subscription                                                    *)
RollBack(s, p) ==
    CASE p.effect = "New" -> Withdrawn(s, p.client)
      [] p.effect = "Regated" /\ s.subs[p.client] # None /\ s.subs[p.client].gate = "Awaiting" ->
            [s EXCEPT !.subs[p.client].gate = "Open"]
      [] OTHER -> s

(* resolve_pending                                                           *)
Resolved(s, p, ok) ==
    [IF ok THEN s ELSE RollBack(s, p) EXCEPT !.pending = @ \ {p}]

(* enforce_stream_frame_flow: what the link may carry next.                  *)
FlowAccepts(flow, frame) ==
    CASE frame.kind = "Begin" -> flow = None
      [] frame.kind = "Ready" -> flow # None /\ flow.gen = frame.gen /\ ~flow.ready
      [] frame.kind = "Output" -> flow # None /\ flow.gen = frame.gen /\ flow.ready
      [] frame.kind = "Tombstone" -> flow # None /\ flow.gen = frame.gen
      [] OTHER -> TRUE

FlowAfter(flow, frame) ==
    CASE frame.kind = "Begin" -> [gen |-> frame.gen, ready |-> FALSE]
      [] frame.kind = "Ready" -> [flow EXCEPT !.ready = TRUE]
      [] frame.kind \in {"Tombstone", "Closed"} -> None
      [] OTHER -> flow

(* relay_stream_frame: content in front of the satellite's detach reply.     *)
Fenced(s, frame) ==
    frame.kind \in {"Begin", "Ready", "Output", "Tombstone"} /\ s.barriers # {}

(* relay_terminal_closed reaps everything the terminal owned on the link.    *)
AfterFrame(s, frame) ==
    IF frame.kind = "Closed"
    THEN [s EXCEPT !.subs = [c \in Clients |-> None], !.flow = None,
                   !.explicit = FALSE, !.legacy = FALSE]
    ELSE [s EXCEPT !.flow = FlowAfter(@, frame)]
=============================================================================
