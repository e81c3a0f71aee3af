----------------------------- MODULE PaneOutput -----------------------------
(* The output path of one pane: the pane actor that numbers and broadcasts   *)
(* PTY output, the bounded broadcast, one output pump per attached consumer, *)
(* and each consumer's replica of the screen.                                *)
(*                                                                           *)
(*   PTY -> actor -> broadcast (bounded) -> pump -> client mailbox -> mirror *)
(*                ^                          |                               *)
(*                +-- resize mailbox <-------+  gap resync requests          *)
(*                +-- native mailbox <-------+  checkpoint, publication      *)
(*                                                                           *)
(* A pump the broadcast overran, or whose chunk is stale, fences itself and  *)
(* asks for an in-band resync; a reflow of the grid owes one to everybody.   *)
(* A pump that takes it replaces the generation it publishes: a pump of a    *)
(* synthesized profile sends the resync's own snapshot, a native pump has    *)
(* the actor capture a checkpoint, publishes it, and activates the           *)
(* publication to get what was output meanwhile and a fresh receiver.        *)
(*                                                                           *)
(* Source: crates/phux-server/src/runtime/{pump,attach,commands}.rs and      *)
(* crates/phux-server/src/resource/terminal/{run_loop,io,native}.rs.  The    *)
(* actor and the pumps are tasks that interleave at every await; a step is   *)
(* what one of them does between two.  Frames reach the mirror in the order  *)
(* they are queued, so queueing one and applying it are one step, and a slow *)
(* client is a pump that is not scheduled.                                   *)
EXTENDS PumpGeneration, ResyncDebounce, MirrorKernel, Sequences, SequencesExt, FiniteSets

CONSTANTS
    Pumps,              \* one per attached consumer, each with its own client
    Native,             \* those with the native checkpoint profile
    Interactive,        \* ATTACH pumps: they fence stale output; ATTACH_RESOURCE ones do not
    Narrow,             \* native pumps that negotiated other limits than the rest
    MaxWaiters,         \* MAX_NATIVE_HISTORY_CLIENTS
    Geometries,         \* the sizes a client may ask for
    ResizeKinds,        \* subset of {"Live", "Attach"}
    CursorEnds,         \* how history cursors end: subset of {"Paged", "Expired"}
    Faults,             \* subset of {"Synthesis", "Capture", "Closed"}
    RingCapacity,       \* DEFAULT_OUTPUT_BROADCAST
    MailboxCapacity,    \* DEFAULT_INPUT_MAILBOX, of the resize mailbox
    ReplayCapacity,     \* MAX_NATIVE_REPLAY_BYTES, in chunks
    None,               \* no capture, no binding, no reply
    MaxSeq,             \* bound: chunks the PTY outputs
    MaxResizes          \* bound: resizes clients ask for

ASSUME PaneAssumption ==
    /\ Native \subseteq Pumps /\ Interactive \subseteq Pumps /\ Narrow \subseteq Native
    /\ ResizeKinds \subseteq {"Live", "Attach"}
    /\ CursorEnds \subseteq {"Paged", "Expired"}
    /\ Faults \subseteq {"Synthesis", "Capture", "Closed"}
    /\ Geometries # {} /\ IsFiniteSet(Pumps)
    /\ RingCapacity \in Nat \ {0} /\ MailboxCapacity \in Nat \ {0}
    /\ ReplayCapacity \in Nat /\ MaxWaiters \in Nat \ {0}
    /\ MaxSeq \in Nat /\ MaxResizes \in Nat

Seqs == 0 .. MaxSeq
Boot == [base: Seqs, content: Seqs, geometry: Geometries]
Capture == [boot: Boot, replay: Seq(Seqs), waiters: SUBSET Native, narrow: BOOLEAN]
Checkpoint == [ok: {TRUE}, boot: Boot]

(* The absent value is no value a slot may hold.                             *)
ASSUME NoneAssumption == None \notin Capture \cup Checkpoint \cup {"Bootstrap", "Publication"}

VARIABLES
    seq,            \* the actor's output sequence
    applied,        \* output written to the canonical terminal
    geometry,       \* the canonical terminal's size
    debounce,       \* the resync the actor owes
    mailbox,        \* its resize mailbox
    capture,        \* pending_native_bootstrap
    backlog,        \* native_bootstrap_backlog
    binding,        \* pump -> its cursor binding and, while waiting, publication
    rx,             \* pump -> its broadcast receiver
    gen,            \* pump -> PumpGeneration
    pc,             \* pump -> what it does next
    asked,          \* pump -> its request in the actor's native mailbox
    reply,          \* pump -> the actor's answer to it
    held,           \* pump -> the cut it published and the replay still to forward
    mirror,         \* pump -> its consumer's replica
    resizes,        \* resizes asked for so far
    gaps,           \* history: pump -> times it fenced itself
    passedOver      \* history: pumps not bound when an attach-time reflow came,
                    \* until a live reflow or a checkpoint of their own

actorVars == <<seq, applied, geometry, debounce>>
nativeVars == <<capture, backlog, binding>>
pumpVars == <<gen, pc, asked, reply, held, mirror, gaps, passedOver>>
vars == <<actorVars, mailbox, nativeVars, rx, pumpVars, resizes>>

Ended == {"Lost", "NotActivated", "Closed"}
Stopped(p) == pc[p] \in Ended

-----------------------------------------------------------------------------
(* The broadcast: a receiver that falls more than the capacity behind loses  *)
(* the oldest items and is told so once, before what is left.                *)

LiveItem(s) == [kind |-> "Live", seq |-> s]
TombstoneItem(p, id) == [kind |-> "Tombstone", owner |-> p, id |-> id]
HistoryItem(p) == [kind |-> "History", owner |-> p]
ResyncItem(audience, boot) == [kind |-> "Resync", audience |-> audience, boot |-> boot]

Subscribed == [lagged |-> FALSE, items |-> <<>>]

Deliver(r, items) ==
    LET all == r.items \o items
        over == Len(all) - RingCapacity
    IN IF over > 0
       THEN [lagged |-> TRUE, items |-> SubSeq(all, over + 1, Len(all))]
       ELSE [r EXCEPT !.items = all]

Broadcast(items) ==
    [p \in Pumps |-> IF Stopped(p) THEN Subscribed ELSE Deliver(rx[p], items)]

(* What a snapshot taken now would show, and the sequence it is labelled     *)
(* with.                                                                     *)
Snapshot == [base |-> seq, content |-> applied, geometry |-> geometry]

Unbound == [p \in Pumps |-> None]

Init ==
    /\ seq = 0 /\ applied = 0
    /\ geometry \in Geometries
    /\ debounce = Idle
    /\ mailbox = <<>>
    /\ capture = None /\ backlog = <<>>
    /\ binding = [p \in Pumps |->
                    IF p \in Native THEN [id |-> 1, waiting |-> FALSE, replay |-> <<>>] ELSE None]
    /\ rx = [p \in Pumps |-> Subscribed]
    /\ gen = [p \in Pumps |-> OpenedAt(0, 1)]
    /\ pc = [p \in Pumps |-> "Run"]
    /\ asked = Unbound /\ reply = Unbound
    /\ held = [p \in Pumps |-> [cut |-> 0, replay |-> <<>>]]
    /\ mirror = [p \in Pumps |-> MirrorInit(1, geometry)]
    /\ resizes = 0
    /\ gaps = [p \in Pumps |-> 0]
    /\ passedOver = {}

-----------------------------------------------------------------------------
(* The actor: PTY output, the resize mailbox and the owed resync.            *)

(* Mutant of ReplayFull: the chunk in hand is not counted.                   *)
ReplayFullLate(r) == Len(r) > ReplayCapacity

(* replay_bytes would pass MAX_NATIVE_REPLAY_BYTES.                          *)
ReplayFull(r) == Len(r) >= ReplayCapacity

(* Every waiter's reply channel is answered with an error, or dropped.       *)
FailAll(pumps) ==
    [p \in Pumps |-> IF p \in pumps THEN [ok |-> FALSE] ELSE reply[p]]

(* buffer_native_live_output on the publications not activated yet: the      *)
(* chunk joins their replay, or the owner is released.                       *)
BufferedBindings(s) ==
    [p \in Pumps |->
        IF binding[p] = None \/ ~binding[p].waiting THEN binding[p]
        ELSE IF ReplayFull(binding[p].replay) THEN None
        ELSE [binding[p] EXCEPT !.replay = Append(@, s)]]

PtyOutput ==
    /\ seq < MaxSeq
    /\ seq' = seq + 1
    /\ \/ /\ capture = None
          /\ applied' = seq'
          /\ UNCHANGED <<capture, reply>>
       \/ /\ capture # None /\ ~ReplayFull(capture.replay)
          /\ capture' = [capture EXCEPT !.replay = Append(@, seq')]
          /\ UNCHANGED <<applied, reply>>
       \/ /\ capture # None /\ ReplayFull(capture.replay)
          /\ capture' = None
          /\ reply' = FailAll(capture.waiters)
          /\ applied' = seq'
    /\ binding' = BufferedBindings(seq')
    /\ rx' = Broadcast(<<LiveItem(seq')>>)
    /\ UNCHANGED <<geometry, debounce, mailbox, backlog, resizes>>
    /\ UNCHANGED <<gen, pc, asked, held, mirror, gaps, passedOver>>

(* A client's VIEWPORT_RESIZE, RESIZE_TERMINAL or ATTACH; try_send drops it  *)
(* when the mailbox is full.                                                 *)
AskResize ==
    /\ resizes < MaxResizes
    /\ resizes' = resizes + 1
    /\ \E kind \in ResizeKinds, g \in Geometries :
        mailbox' = IF Len(mailbox) < MailboxCapacity
                   THEN Append(mailbox, [kind |-> kind, geometry |-> g])
                   ELSE mailbox
    /\ UNCHANGED <<actorVars, nativeVars, rx, pumpVars>>

Bound == {p \in Pumps : binding[p] # None}
BoundTargets == {[pump |-> p, id |-> binding[p].id] : p \in Bound}

(* invalidate_all_native_cursors: every binding is drained and its pump told *)
(* on the broadcast, in the order of a hash map; no capture is pending, the  *)
(* backlog is dropped.                                                       *)
Reflow(g) ==
    /\ geometry' = g
    /\ binding' = Unbound
    /\ backlog' = <<>>
    /\ reply' = FailAll(Range(backlog))
    /\ \E order \in SetToSeqs(Bound) :
        rx' = Broadcast([i \in DOMAIN order |->
                            TombstoneItem(order[i], binding[order[i]].id)])

(* service_resize_request, not served while a capture is pending.            *)
ServiceResize ==
    /\ mailbox # <<>> /\ capture = None
    /\ mailbox' = Tail(mailbox)
    /\ LET req == Head(mailbox) IN
        \/ /\ req.kind = "Gap"
           /\ debounce' = ArmFor(debounce, {req.target})
           /\ UNCHANGED <<geometry, binding, backlog, reply, rx, passedOver>>
        \/ /\ req.kind # "Gap" /\ req.geometry = geometry
           /\ UNCHANGED <<geometry, binding, backlog, reply, rx, debounce, passedOver>>
        \/ /\ req.kind = "Live" /\ req.geometry # geometry
           /\ Reflow(req.geometry)
           /\ debounce' = ArmForEveryone(debounce)
           /\ passedOver' = {}
        \/ /\ req.kind = "Attach" /\ req.geometry # geometry
           /\ Reflow(req.geometry)
           /\ debounce' = ArmFor(debounce, BoundTargets)
           /\ passedOver' = passedOver \cup (Pumps \ Bound)
    /\ UNCHANGED <<seq, applied, capture, resizes>>
    /\ UNCHANGED <<gen, pc, asked, held, mirror, gaps>>

(* The deadline lands: one broadcast, unless nobody is subscribed or the     *)
(* grid cannot be synthesized.                                               *)
FireResync ==
    /\ MayFire(debounce, capture # None)
    /\ debounce' = Idle
    /\ \/ /\ \E p \in Pumps : ~Stopped(p)
          /\ rx' = Broadcast(<<ResyncItem(Take(debounce), Snapshot)>>)
       \/ /\ "Synthesis" \in Faults \/ \A p \in Pumps : Stopped(p)
          /\ UNCHANGED rx
    /\ UNCHANGED <<seq, applied, geometry, mailbox, nativeVars, pumpVars, resizes>>

-----------------------------------------------------------------------------
(* The actor: native checkpoints.                                            *)

(* A capture for p of a terminal that shows the output up to `shown`.        *)
Starts(p, shown) ==
    [boot |-> [Snapshot EXCEPT !.content = shown], replay |-> <<>>,
     waiters |-> {p}, narrow |-> p \in Narrow]

(* A request may join the capture in progress.                               *)
Joins(p) ==
    /\ capture.narrow = (p \in Narrow)
    /\ Cardinality(capture.waiters) < MaxWaiters

(* handle_native_bootstrap: whatever the owner was bound to is void; the     *)
(* request joins the capture in progress, queues behind it, or starts one,   *)
(* which may fail at once.                                                   *)
HandleBootstrap(p) ==
    /\ asked[p] = "Bootstrap"
    /\ asked' = [asked EXCEPT ![p] = None]
    /\ binding' = [binding EXCEPT ![p] = None]
    /\ rx' = IF binding[p] = None THEN rx ELSE Broadcast(<<TombstoneItem(p, binding[p].id)>>)
    /\ \/ /\ capture # None /\ Joins(p)
          /\ capture' = [capture EXCEPT !.waiters = @ \cup {p}]
          /\ UNCHANGED <<backlog, reply>>
       \/ /\ capture # None /\ ~Joins(p)
          /\ backlog' = Append(backlog, p)
          /\ UNCHANGED <<capture, reply>>
       \/ /\ capture = None
          /\ capture' = Starts(p, applied)
          /\ UNCHANGED <<backlog, reply>>
       \/ /\ capture = None /\ "Capture" \in Faults
          /\ reply' = FailAll({p})
          /\ UNCHANGED <<capture, backlog>>
    /\ UNCHANGED <<actorVars, mailbox, resizes, gen, pc, held, mirror, gaps, passedOver>>

(* Mutant of StartNext: the next capture starts before the output the last   *)
(* one deferred is written to the terminal.                                  *)
StartNextEarly(replies) ==
    \/ backlog = <<>> /\ capture' = None /\ reply' = replies /\ UNCHANGED backlog
    \/ /\ backlog # <<>>
       /\ capture' = Starts(Head(backlog), applied)
       /\ backlog' = Tail(backlog) /\ reply' = replies

(* Mutant of StartNext: the request served next stays in the backlog.        *)
StartNextKeepsHead(replies) ==
    /\ UNCHANGED backlog /\ reply' = replies
    /\ capture' = IF backlog = <<>> THEN None ELSE Starts(Head(backlog), seq)

(* start_next_native_bootstrap.  A start that fails leaves the rest of the   *)
(* backlog where it is.                                                      *)
StartNext(replies) ==
    \/ /\ backlog = <<>>
       /\ capture' = None /\ reply' = replies
       /\ UNCHANGED backlog
    \/ /\ backlog # <<>>
       /\ capture' = Starts(Head(backlog), seq)
       /\ backlog' = Tail(backlog) /\ reply' = replies
    \/ /\ backlog # <<>> /\ "Capture" \in Faults
       /\ capture' = None
       /\ backlog' = Tail(backlog)
       /\ reply' = [replies EXCEPT ![Head(backlog)] = [ok |-> FALSE]]

(* finish_native_bootstrap: the waiters are bound to the checkpoint and      *)
(* parked on its publication, which holds the output deferred so far.        *)
ParkedOn(waiters) ==
    [p \in Pumps |->
        IF p \in waiters
        THEN [id |-> gen[p].id, waiting |-> TRUE, replay |-> capture.replay]
        ELSE binding[p]]

(* The capture ends (step_native_bootstrap to READY, or a failure of it or   *)
(* of some waiter's reply): the deferred output goes to the terminal, and    *)
(* each waiter is refused, or bound and answered.  A waiter that is gone gets *)
(* nothing.                                                                  *)
EndCapture ==
    /\ capture # None
    /\ applied' = seq
    /\ \E refused \in IF "Capture" \in Faults THEN SUBSET capture.waiters ELSE {{}} :
        LET served == {p \in capture.waiters \ refused : ~Stopped(p)} IN
        /\ binding' = ParkedOn(served)
        /\ StartNext([p \in Pumps |->
                IF p \in served THEN [ok |-> TRUE, boot |-> capture.boot]
                ELSE FailAll(refused)[p]])
    /\ UNCHANGED <<seq, geometry, debounce, mailbox, rx, resizes>>
    /\ UNCHANGED <<gen, pc, asked, held, mirror, gaps, passedOver>>

(* Mutant of FreshReceiver: the pump goes on with the receiver it had.       *)
OldReceiver(p) == rx

(* The subscription taken when a publication is activated.                   *)
FreshReceiver(p) == [rx EXCEPT ![p] = Subscribed]

(* handle_native_publication: the replay and a receiver that starts after it.*)
HandlePublication(p) ==
    /\ asked[p] = "Publication"
    /\ asked' = [asked EXCEPT ![p] = None]
    /\ IF binding[p] # None /\ binding[p].id = gen[p].id /\ binding[p].waiting
       THEN /\ reply' = [reply EXCEPT ![p] = [ok |-> TRUE, replay |-> binding[p].replay]]
            /\ binding' = [binding EXCEPT ![p].waiting = FALSE, ![p].replay = <<>>]
            /\ rx' = FreshReceiver(p)
       ELSE /\ reply' = FailAll({p})
            /\ UNCHANGED <<binding, rx>>
    /\ UNCHANGED <<actorVars, mailbox, capture, backlog, resizes>>
    /\ UNCHANGED <<gen, pc, held, mirror, gaps, passedOver>>

(* handle_native_history: the client pages the history of the generation it  *)
(* shows.  Once the last page is served, or the request fails, the binding   *)
(* goes and nobody is told on the broadcast.                                 *)
LastPage(p) ==
    /\ "Paged" \in CursorEnds
    /\ binding[p] # None /\ binding[p].id = mirror[p].published
    /\ binding' = [binding EXCEPT ![p] = None]
    /\ UNCHANGED <<actorVars, mailbox, capture, backlog, rx, pumpVars, resizes>>

(* expire_native_cursors: a history cursor nobody used for NATIVE_HISTORY_TTL*)
(* is dropped, and the binding with it.                                      *)
ExpireCursor(p) ==
    /\ "Expired" \in CursorEnds
    /\ capture = None /\ binding[p] # None
    /\ binding' = [binding EXCEPT ![p] = None]
    /\ rx' = Broadcast(<<HistoryItem(p)>>)
    /\ UNCHANGED <<actorVars, mailbox, capture, backlog, pumpVars, resizes>>

(* release_native_owner, when the consumer of a pump that ended is detached. *)
(* A pump is in the backlog at most once.                                    *)
ReleaseOwner(p) ==
    /\ Stopped(p)
    /\ \/ binding[p] # None \/ p \in Range(backlog)
       \/ capture # None /\ p \in capture.waiters
    /\ binding' = [binding EXCEPT ![p] = None]
    /\ \/ p \notin Range(backlog) /\ UNCHANGED backlog
       \/ \E i \in DOMAIN backlog : backlog[i] = p /\ backlog' = RemoveAt(backlog, i)
    /\ capture' = IF capture = None THEN None ELSE [capture EXCEPT !.waiters = @ \ {p}]
    /\ UNCHANGED <<actorVars, mailbox, rx, pumpVars, resizes>>

ActorStep ==
    \/ ServiceResize \/ FireResync \/ EndCapture
    \/ \E p \in Pumps : HandleBootstrap(p) \/ HandlePublication(p)
                         \/ LastPage(p) \/ ExpireCursor(p) \/ ReleaseOwner(p)

-----------------------------------------------------------------------------
(* The pumps.                                                                *)

Stop(p, how) ==
    /\ pc' = [pc EXCEPT ![p] = how]
    /\ rx' = [rx EXCEPT ![p] = Subscribed]

(* The pump awaits the broadcast; one whose budget is spent does not.        *)
Listens(p) == pc[p] = "Run" /\ ~BudgetSpent(gen[p])

HasItem(p, kinds) ==
    /\ Listens(p) /\ ~rx[p].lagged /\ rx[p].items # <<>>
    /\ Head(rx[p].items).kind \in kinds

Consume(p) == rx' = [rx EXCEPT ![p].items = Tail(@)]

(* request_gap_resync: the fence goes up before the request goes out.        *)
RequestGapResync(p) ==
    /\ gen' = [gen EXCEPT ![p] = NoteResyncRequested(FenceForGap(@))]
    /\ pc' = [pc EXCEPT ![p] = "Request"]
    /\ gaps' = IF gen[p].gap THEN gaps ELSE [gaps EXCEPT ![p] = @ + 1]
    /\ UNCHANGED <<asked, reply, held, mirror, passedOver>>

RecvLagged(p) ==
    /\ Listens(p) /\ rx[p].lagged
    /\ rx' = [rx EXCEPT ![p].lagged = FALSE]
    /\ RequestGapResync(p)
    /\ UNCHANGED <<actorVars, mailbox, nativeVars, resizes>>

(* forward_live.                                                             *)
RecvLive(p) ==
    /\ HasItem(p, {"Live"})
    /\ Consume(p)
    /\ LET s == Head(rx[p].items).seq IN
        IF Forwards(gen[p], s)
        THEN /\ mirror' = [mirror EXCEPT ![p] = ApplyOutput(@, gen[p].id, s)]
             /\ gen' = [gen EXCEPT ![p] = NoteForwarded(@, s)]
        ELSE UNCHANGED <<mirror, gen>>
    /\ UNCHANGED <<actorVars, mailbox, nativeVars, resizes, pc, asked, reply, held, gaps, passedOver>>

(* An interactive pump finds a chunk it would forward past the staleness     *)
(* budget: the chunk is dropped and the gap is the pump's own.               *)
RecvStale(p) ==
    /\ p \in Interactive
    /\ HasItem(p, {"Live"}) /\ Forwards(gen[p], Head(rx[p].items).seq)
    /\ Consume(p)
    /\ RequestGapResync(p)
    /\ UNCHANGED <<actorVars, mailbox, nativeVars, resizes>>

(* forward_control: only a frame for this owner and generation is forwarded, *)
(* and only a bootstrap tombstone retires it.                                *)
RecvControl(p) ==
    /\ HasItem(p, {"Tombstone", "History"})
    /\ Consume(p)
    /\ LET item == Head(rx[p].items) IN
        IF item.kind = "Tombstone" /\ item.owner = p /\ item.id = gen[p].id
        THEN /\ mirror' = [mirror EXCEPT ![p] = ApplyTombstone(@, item.id)]
             /\ gen' = [gen EXCEPT ![p] = Retire(@)]
        ELSE UNCHANGED <<mirror, gen>>
    /\ UNCHANGED <<actorVars, mailbox, nativeVars, resizes, pc, asked, reply, held, gaps, passedOver>>

(* republish_synthesized_generation.                                         *)
RepublishSynthesized(p, boot) ==
    LET id == gen[p].id + 1 IN
    /\ mirror' = [mirror EXCEPT ![p] = ApplyBootstrap(@, id, boot)]
    /\ gen' = [gen EXCEPT ![p] = RepublishedAt(SetBootstrapId(@, id), boot.base)]
    /\ UNCHANGED <<pc, asked>>

(* Mutant of RepublishNative: the generation replaced is not tombstoned.     *)
RepublishNativeQuietly(p) ==
    /\ gen' = [gen EXCEPT ![p] = SetBootstrapId(@, @.id + 1)]
    /\ pc' = [pc EXCEPT ![p] = "Capture"]
    /\ asked' = [asked EXCEPT ![p] = "Bootstrap"]
    /\ UNCHANGED mirror

(* republish_native_generation up to its first await on the actor: the old   *)
(* generation is tombstoned unless it is retired already.                    *)
RepublishNative(p) ==
    /\ mirror' = IF gen[p].active
                 THEN [mirror EXCEPT ![p] = ApplyTombstone(@, gen[p].id)] ELSE mirror
    /\ gen' = [gen EXCEPT ![p] = SetBootstrapId(@, @.id + 1)]
    /\ pc' = [pc EXCEPT ![p] = "Capture"]
    /\ asked' = [asked EXCEPT ![p] = "Bootstrap"]

RecvResync(p) ==
    /\ HasItem(p, {"Resync"})
    /\ Consume(p)
    /\ LET item == Head(rx[p].items) IN
        IF TakesResync(gen[p], item.audience, ResyncTarget(p, gen[p]))
        THEN IF p \in Native THEN RepublishNative(p) ELSE RepublishSynthesized(p, item.boot)
        ELSE UNCHANGED <<mirror, gen, pc, asked>>
    /\ UNCHANGED <<actorVars, mailbox, nativeVars, resizes, reply, held, gaps, passedOver>>

(* enqueue_output_resync has room.                                           *)
EnqueueResync(p) ==
    /\ pc[p] = "Request" /\ Len(mailbox) < MailboxCapacity
    /\ mailbox' = Append(mailbox, [kind |-> "Gap", target |-> ResyncTarget(p, gen[p])])
    /\ pc' = [pc EXCEPT ![p] = "Run"]
    /\ UNCHANGED <<actorVars, nativeVars, rx, resizes, gen, asked, reply, held, mirror, gaps, passedOver>>

(* It stayed full for a second: the consumer gets an ERROR.                  *)
RequestTimesOut(p) ==
    /\ pc[p] = "Request" /\ Len(mailbox) >= MailboxCapacity
    /\ Stop(p, "Lost")
    /\ UNCHANGED <<actorVars, mailbox, nativeVars, resizes, gen, asked, reply, held, mirror, gaps, passedOver>>

(* A fenced pump's backoff elapses with nothing to receive.                  *)
RetryResync(p) ==
    /\ Listens(p) /\ gen[p].gap
    /\ ~rx[p].lagged /\ rx[p].items = <<>>
    /\ gen' = [gen EXCEPT ![p] = NoteResyncRequested(@)]
    /\ pc' = [pc EXCEPT ![p] = "Request"]
    /\ UNCHANGED <<actorVars, mailbox, nativeVars, rx, resizes, asked, reply, held, mirror, gaps, passedOver>>

(* Mutant of AbandonGap: a gap is never given up.                            *)
AbandonGapNever(p) == FALSE /\ UNCHANGED vars

(* The budget is spent: ERROR, whatever the channel holds.                   *)
AbandonGap(p) ==
    /\ pc[p] = "Run" /\ BudgetSpent(gen[p])
    /\ Stop(p, "Lost")
    /\ UNCHANGED <<actorVars, mailbox, nativeVars, resizes, gen, asked, reply, held, mirror, gaps, passedOver>>

(* The captured checkpoint is sent, and its publication asked for; a refused *)
(* capture costs the consumer its connection.                                *)
PublishCheckpoint(p) ==
    /\ pc[p] = "Capture" /\ reply[p] # None
    /\ IF reply[p].ok
       THEN /\ mirror' = [mirror EXCEPT ![p] = ApplyBootstrap(@, gen[p].id, reply[p].boot)]
            /\ held' = [held EXCEPT ![p].cut = reply[p].boot.base]
            /\ pc' = [pc EXCEPT ![p] = "Activate"]
            /\ asked' = [asked EXCEPT ![p] = "Publication"]
            /\ passedOver' = passedOver \ {p}
            /\ UNCHANGED rx
       ELSE /\ Stop(p, "Lost")
            /\ UNCHANGED <<mirror, held, asked, passedOver>>
    /\ reply' = [reply EXCEPT ![p] = None]
    /\ UNCHANGED <<actorVars, mailbox, nativeVars, resizes, gen, gaps>>

(* The publication is active: the pump unfences at the checkpoint's cut and  *)
(* turns to the replay.  A refused activation ends the connection.           *)
AdoptPublication(p) ==
    /\ pc[p] = "Activate" /\ reply[p] # None
    /\ IF reply[p].ok
       THEN /\ gen' = [gen EXCEPT ![p] = RepublishedAt(@, held[p].cut)]
            /\ held' = [held EXCEPT ![p].replay = reply[p].replay]
            /\ pc' = [pc EXCEPT ![p] = "Replay"]
            /\ UNCHANGED rx
       ELSE /\ Stop(p, "NotActivated")
            /\ UNCHANGED <<gen, held>>
    /\ reply' = [reply EXCEPT ![p] = None]
    /\ UNCHANGED <<actorVars, mailbox, nativeVars, resizes, asked, mirror, gaps, passedOver>>

(* One chunk of the replay, through the same gate as any live delta.         *)
ForwardReplay(p) ==
    /\ pc[p] = "Replay"
    /\ IF held[p].replay = <<>>
       THEN /\ pc' = [pc EXCEPT ![p] = "Run"]
            /\ UNCHANGED <<gen, mirror, held>>
       ELSE /\ held' = [held EXCEPT ![p].replay = Tail(@)]
            /\ UNCHANGED pc
            /\ LET s == Head(held[p].replay) IN
               IF Forwards(gen[p], s)
               THEN /\ mirror' = [mirror EXCEPT ![p] = ApplyOutput(@, gen[p].id, s)]
                    /\ gen' = [gen EXCEPT ![p] = NoteForwarded(@, s)]
               ELSE UNCHANGED <<gen, mirror>>
    /\ UNCHANGED <<actorVars, mailbox, nativeVars, rx, resizes, asked, reply, gaps, passedOver>>

(* The client goes away: its mailbox closes under the pump.                  *)
OutboundClosed(p) ==
    /\ "Closed" \in Faults /\ ~Stopped(p)
    /\ Stop(p, "Closed")
    /\ UNCHANGED <<actorVars, mailbox, nativeVars, resizes, gen, asked, reply, held, mirror, gaps, passedOver>>

PumpStep(p) ==
    \/ RecvLagged(p) \/ RecvLive(p) \/ RecvStale(p) \/ RecvControl(p) \/ RecvResync(p)
    \/ EnqueueResync(p) \/ RequestTimesOut(p) \/ RetryResync(p) \/ AbandonGap(p)
    \/ PublishCheckpoint(p) \/ AdoptPublication(p) \/ ForwardReplay(p)

Next ==
    \/ PtyOutput \/ AskResize \/ ActorStep
    \/ \E p \in Pumps : PumpStep(p) \/ OutboundClosed(p)

Spec == Init /\ [][Next]_vars

(* The actor's select loop and every pump task keep running: a ready branch  *)
(* is taken.  The PTY and the clients owe nothing.                           *)
FairSpec == Spec /\ WF_vars(ActorStep) /\ \A p \in Pumps : WF_vars(PumpStep(p))

-----------------------------------------------------------------------------
(* What the output path promises.                                            *)

(* Every variable keeps its shape; the pump, its request, its reply and its  *)
(* receiver are told apart by the step the pump is at.                       *)
TypeOK ==
    /\ seq \in Seqs /\ applied \in 0 .. seq /\ geometry \in Geometries
    /\ \A t \in debounce.targets : debounce.pending /\ t.pump \in Pumps /\ t.id <= gen[t.pump].id
    /\ Len(mailbox) <= MailboxCapacity
    /\ Range(backlog) \subseteq Native
    /\ capture # None => capture.boot \in Boot /\ capture.waiters \subseteq Native
    /\ \A p \in Pumps :
        /\ Len(rx[p].items) <= RingCapacity
        /\ gen[p].attempts \in 0 .. GapBudget /\ gen[p].last \in gen[p].cut .. seq
        /\ pc[p] \in Ended \cup {"Run", "Request", "Capture", "Activate", "Replay"}
        /\ asked[p] \in {None, "Bootstrap", "Publication"}
        /\ binding[p] # None => p \in Native /\ Len(binding[p].replay) <= ReplayCapacity
        /\ mirror[p].next \in 1 .. (seq + 1) /\ mirror[p].content \in Seqs
    /\ passedOver \subseteq Pumps

(* What the session kernel calls SequenceGap, DuplicateSequence or a stale   *)
(* generation, and detaches on, never reaches it: overruns, stale chunks,    *)
(* reflows and republications in any order leave each consumer exactly the   *)
(* next sequence of the generation it shows.                                 *)
StreamIsExact == \A p \in Pumps : ~mirror[p].error

(* A checkpoint or snapshot labelled with a sequence shows all the output up *)
(* to it: the screen never lacks a chunk its sequence numbers say it has,    *)
(* although output is withheld from the terminal while a capture runs.       *)
CheckpointIsComplete == \A p \in Pumps : mirror[p].content = mirror[p].next - 1

(* The pump and its consumer agree on the generation: one the pump may       *)
(* forward on is the one the screen shows, at the sequence the pump reached; *)
(* one it may not forward on, because it is retired or being replaced, is    *)
(* one the consumer was told is void.                                        *)
ConsumerKnowsItsGeneration ==
    \A p \in Pumps :
        /\ pc[p] \in {"Run", "Request", "Replay"} /\ gen[p].active =>
            /\ mirror[p].published = gen[p].id /\ ~Frozen(mirror[p])
            /\ mirror[p].next = gen[p].last + 1
        /\ pc[p] = "Capture" \/ (pc[p] \in {"Run", "Request"} /\ ~gen[p].active) =>
            Frozen(mirror[p])

(* A gap costs its consumer one new generation and the others none: repeated *)
(* requests, late answers and answers to other pumps replace nothing.        *)
OneRepublishPerGap ==
    resizes = 0 => \A p \in Pumps : gen[p].id <= 1 + gaps[p]

(* A consumer is not left on a screen that can never change: a fenced pump   *)
(* is unfenced by a new generation or ends, and says so.                     *)
GapIsAnswered == \A p \in Pumps : gen[p].gap ~> (~gen[p].gap \/ Stopped(p))

(* When output and resizes cease, every consumer still served shows all the  *)
(* output, and shows it at the pane's own size unless an attach-time reflow  *)
(* passed it over: apply_resize_request names only the native pumps bound at *)
(* that moment, not the synthesized ones nor those whose history cursor has  *)
(* ended (ReflowReachesEveryStream, refuted, is the wire specification's     *)
(* word on it).                                                              *)
EventuallyCurrent ==
    <>[](\A p \in Pumps :
            \/ Stopped(p)
            \/ /\ mirror[p].content = seq
               /\ mirror[p].geometry = geometry \/ p \in passedOver)
-----------------------------------------------------------------------------
(* What the repository says of the output path and the code does not do.     *)

(* "The server sends a bootstrap tombstone before any replacement BEGIN."    *)
TombstoneBeforeReplacement ==
    [][\A p \in Pumps : mirror'[p].published # mirror[p].published => Frozen(mirror[p])]_vars

(* Nothing is on its way: no resync owed, no request, no capture, nothing to *)
(* receive.                                                                  *)
Settled ==
    /\ ~debounce.pending /\ mailbox = <<>> /\ capture = None
    /\ \A p \in Pumps : Stopped(p) \/ (pc[p] = "Run" /\ ~gen[p].gap /\ rx[p] = Subscribed)

(* "If policy resolution changes authoritative geometry, ... every affected  *)
(* stream receives BOOTSTRAP_TOMBSTONE, and each desired subscription takes  *)
(* a fresh post-resize cut."                                                 *)
ReflowReachesEveryStream ==
    Settled => \A p \in Pumps : Stopped(p) \/ mirror[p].geometry = geometry

(* The same promise, of a pump the reflow catches between the READY of its   *)
(* checkpoint and the activation of the publication.                         *)
ReflowSparesTheConnection == \A p \in Pumps : pc[p] # "NotActivated"

(* "Overflow tombstones the affected generation; other consumers ...         *)
(* continue": a pump that waits for a checkpoint gets it or is refused.      *)
CaptureIsAnswered == \A p \in Pumps : pc[p] = "Capture" ~> pc[p] # "Capture"

(* The PTY has more to say.                                                  *)
TalkingSpec == FairSpec /\ WF_vars(PtyOutput)

(* "snapshot synthesis failed; clients recover on next output".              *)
RecoversOnNextOutput ==
    \A p \in Pumps : (Frozen(mirror[p]) /\ seq < MaxSeq) ~> (~Frozen(mirror[p]) \/ Stopped(p))
=============================================================================
