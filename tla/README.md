# phux: a TLA+ verification project

phux is a terminal multiplexer: a server owns PTYs and their screens, clients
(TUI, CLI, agents, web, mobile) attach over Unix sockets, QUIC or WebSocket and
share them.  This directory models the part of it where a mistake is hardest to
see and to test, checks it with TLC on small instances, and proves the central
invariants with TLAPS for every instance.

Paths below are relative to `src/`; `server/` is `crates/phux-server/src/`.

## 1. The system

| Part | State it keeps | Operations | What makes it correct |
|---|---|---|---|
| Input lane (`server/runtime/input_lane/mod.rs`) | one bounded queue, one thread, per-pane encoders | `route`, `route_command`, `apply_input`; gate, encode, gate again, hand off | wire order across the three surfaces; a lease is honoured at the instant of hand-off; every correlated input is answered |
| Acknowledged input (`.../input_lane/acknowledged.rs`) | slot per Terminal, dedupe cache with expiry queue, tickets, pending set of the completion-waiter thread | reserve, bind, register, complete, abandon, expire, finalise | an operation id is handed out once per retention; OK means written; a refusal is a proof; slots and records never leak |
| Input authority (`server/state/lease_table.rs`, `leases.rs`, gates in `runtime/commands.rs`) | subscribers and lease holder per resource | attach, detach, acquire (cooperative, seize), release, reap | at most one writer while leased; detach frees everything |
| Pane input path (`server/resource/terminal/{requests,io,spawn,run_loop}.rs`) | actor mailbox, writer queue, PTY | service, write, refuse, fail, drop | every lost request is reported with the strongest outcome that is true |
| Replay journal (`crates/phux-client/src/attach/input_replay.rs`) | queue of unresolved pastes, connection, request in flight | submit, next_frame, resolve, begin_connection, connection_lost, drain | one id per paste, no double write, honest reports, order kept |
| Attach driver (`crates/phux-tui/.../driver`, `crates/phux/src/commands/attach.rs`) | the reconnect loop around the journal | dial, lose, switch session, give up, exit | nothing is dropped in silence |
| Output pumps (`server/runtime/pump.rs`, loops in `attach.rs`, `commands.rs`) | generation, cut, fence and request budget per consumer | forward, fence, ask for a resync, retry, give up, republish | an exact stream per generation; a gap is answered or ends the connection |
| Pane actor, output side (`server/resource/terminal/{run_loop,io}.rs`) | output sequence, grid, owed resync | number and broadcast output, reflow, debounce and broadcast a resync | every consumer converges on the screen after a gap or a reflow |
| Native checkpoints (`server/resource/terminal/native.rs`) | capture in progress, waiters, backlog, bindings, publications | capture, defer output, publish, activate, invalidate, expire, release | a checkpoint shows all output up to its sequence; every request is answered |
| Session kernel (`crates/phux-client-core/src/session.rs`) | replica, staging, retired generations | BEGIN to READY, output, tombstone | a replica is replaced only by a newer generation and fed only its next sequence |
| Establishment (`server/state/resource_table.rs`, `runtime/{attach,commands,client,pump}.rs`) | pumps and generations per consumer and pane, the next bootstrap id | SPAWN_RESOURCE, ATTACH, ATTACH_RESOURCE, DETACH_RESOURCE, DETACH: stop, tombstone, capture, publish, release | no gap after a bootstrap, one pump speaks, no id twice, an answered detach silences the pane |
| State sync and resume (`server/runtime/resume.rs`, `resource/terminal/{consumers,tick,sync}.rs`) | diff state, resume proof | diff, acknowledge, resume | the diff reaches the screen, a resume hides no gap |
| Sessions and windows (`server/state`, `phux-core`) | the session tree, ids | create, move, kill, reap | no dangling id, empty containers reaped |
| Agent sessions, metadata, conditional kill, upload, upgrade | see `PROJECT.json` | | |
| Hub and satellites (`server/hub/{relay,link}.rs`) | per link: proxies with their snapshot gates, commands awaiting a reply, detach barriers, the generation carried | attach, subscribe, detach, withdraw, relay a reply or a stream frame, tick, tear down, redial | every call is answered, a withdrawn proxy gets nothing, no live bytes before their snapshot, one consumer's slowness or departure is its own |
| Client kernel, prediction, layout (`phux-client-core`) | mirrored screens, predictions | apply, confirm, roll back | the mirror converges to the server |
| Relay, transports, wire codec, UI, CLI, other clients | | | outside the model |

**How they interact.**  A client's frames are read by one task per connection on
the server's main thread.  Input goes to the lane thread through one queue; the
lane takes the `ServerState` mutex for its two gates and hands encoded bytes to
the pane actor's mailbox; the actor passes them to the pane's writer thread.  An
acknowledged batch also carries a sink: whatever happens to the bytes ends as a
message in the queue of the completion-waiter thread, which writes the dedupe
record, frees the Terminal's slot and answers the client task.  On the client the
replay journal sends one operation at a time and resends it under the same id
after a reconnect.

Output goes the other way.  The pane actor numbers each chunk, writes it to the
screen and broadcasts it to one pump per consumer; the pump labels it with its
generation and queues it for the client, whose kernel accepts exactly the next
sequence.  A pump the broadcast overran, or (ATTACH) whose chunk is older than
250 ms, fences itself and asks the actor, through the resize mailbox, for a
resync; a reflow owes one to everyone.  The actor debounces what it owes and
broadcasts one resync with an audience.  A pump that takes it starts a new
generation: from the resync's own snapshot, or, with the native profile, from a
checkpoint the actor captures over several turns while it withholds output from
the terminal.

A stream begins and ends with a command of the connection's read loop, which
awaits each command before it reads the next; the pumps of earlier commands run
beside it into the same outbound mailbox.  A command parks its pump on a
receiver, captures the cut, queues BEGIN and READY and releases the pump at the
cut.  Behind a hub the consumer's command goes through a relay handle to the
link's supervisor task, which registers a proxy and sends the command on; what
the satellite streams comes back on the link once and is fanned out to the
proxies.  Requests ride a bounded mailbox, withdrawals an unbounded one, and a
token taken when each is issued orders the two.

**What is hard.**  Four kinds of threads touch one batch; the lease can change
while it is being encoded; the pane can die at every point; the deadline races
the write; the reply can be lost with its connection while the batch lives; the
server can be replaced under a live pane; a pump of one command may speak
between the BEGIN and the READY of another; two channels, the link's replies and
its stream reach a hub's supervisor in any order; and the client's idea of "too
old to resend" must agree with the server's idea of "forgotten".  `PROJECT.json`
lists these hazards at their lines, with the properties that cover them.

## 2. Modules

| Module | Models | Notes |
|---|---|---|
| `OperationCache` | `OperationCache` of `acknowledged.rs` | `entries` and `expiry` are its two collections; `BindAt` prunes, answers, inserts; `SetFinal` |
| `InputAuthority` | subscribers, leases and the two gates | one step per critical section of the state mutex |
| `InputLane` | client tasks, lane thread, waiter thread, pane actors, writer threads | extends both; `attempts` is the history of frames taken off the wire with the answer each has had |
| `InputLaneInv` | who owes an answer: the inductive invariant of `InputLane` | state predicates only |
| `InputHandedInv` | its strengthening about handed and written bytes | state predicates only |
| `InputReplay` | the client journal and its driver glue | one action per method |
| `AckSession` | client, network and server together | instantiates `InputReplay`, extends `InputLane` |
| `AckSessionInv` | the inductive invariant of `AckSession` | state predicates only |
| `AckContract` | what the user is promised | abstract specification that `AckSession` refines (`Contract == INSTANCE AckContract WITH ...`, property `KeepsContract`) |
| `PaneOutputInv` | the inductive invariant of `PaneOutput` | state predicates only |
| `OperationCacheProofs`, `InputLaneProofs`, `InputHandedProofs`, `AckSessionProofs`, `PaneOutputProofs`, `HubRelayProofs`, `HubStreamProofs` | theorems | section 4 |
| `PumpGeneration` | `PumpGeneration`, `ResyncTarget`, `ResyncAudience` | pure operators, shared by both pumps |
| `ResyncDebounce` | `ResyncDebounce` of `run_loop.rs` | the deadline is any later moment |
| `MirrorKernel` | a replica in the client's session kernel | pure operators; `content` is the last sequence up to which nothing is missing; `StageBegin` and `StageReady` are the two frames `PaneOutput` takes as one |
| `PaneOutput` | actor, broadcast, pumps and replicas of one pane | extends the three; its variables are the actor's, the broadcast receivers, and one of each per pump |
| `AttachStreams` | one connection's commands and the pumps they start and stop, on one pane | extends `PumpGeneration` and `MirrorKernel` |
| `AttachStreamsInv`, `AttachStreamsProofs` | its inductive invariant, and the theorems | extend `AttachStreams` |
| `PaneView` | what a consumer of a pane is promised | abstract specification that `AttachStreams` refines (`View == INSTANCE PaneView WITH ...`, property `ShowsThePane`) |
| `RelaySession` | struct `RelaySession` of the hub, for one terminal | pure operators: proxies, gates, barriers, flow |
| `HubRelay` | consumers, relay handle, supervisor, link and satellite | extends `RelaySession` and `MirrorKernel` |
| `HubRelayInv` | the inductive invariant of `HubRelay` | state predicates only |
| `MCInputLane`, `MCAckSession`, `MCPaneOutput` | instances for TLC | constant values only |

### Correspondence with the code

* **Threads and atomicity.**  An action is what one thread does under one lock or
  with one channel operation.  `LaneBind`, `LaneRegister` and `LaneHandoff` split
  `process_apply_input` at the dedupe mutex, at registration (before which the
  first gate and the encoding run) and at the second gate, whose `try_send`
  happens under the same state lock.  `RecordFinal` and `ReleaseAndReply` split
  `PendingCompletion::finalize`, whose comment says the order matters.
* **Completion.**  `waitq` is the waiter's channel: `Registered`, `Completed`,
  `Abandoned`.  A request carries its sink as the ticket it reports under (0 for
  fire-and-forget); dropping a request is the `Failed` report of
  `WriteCompletionSink::drop`.  A refused `try_send` produces the three messages
  the code sends: the abandon inside the branch, `Failed` from the dropped
  request, and the outer abandon.
* **Time.**  One clock, used for retention and the retry horizon (both ten
  minutes).  The completion wait is five seconds, far below the clock's unit, so a
  deadline may pass at any look of the waiter; deadlines follow ticket order, so
  any prefix of the pending tickets may have expired.
* **Panes.**  `ActorStops` / `ActorExits` separate leaving the loop (mailbox open,
  nobody reads) from dropping the receiver.  A pane without a PTY behaves as one
  whose writer has stopped.  `ReapResource` has no guard: the exit watcher reaps at
  the PTY's end of file with the actor still running, and after a killed actor is
  gone; both orders occur.  Batching of up to `MAX_INPUT_COALESCE` requests is
  several steps of `ServiceEncodedInput`.
* **Payloads.**  `Malformed` stands for every check made before the id is bound
  (event count, unsupported event), `Unencodable` for every refusal of the
  encoder.  An unacknowledged event that encodes to no bytes is the disjunct of
  `LaneHandoffUnacked` that changes no mailbox.
* **Client.**  `NextFrame` is `next_frame` and the send that follows it.  Request
  ids restart at 1 with each attach session.  `SwitchSession` takes the drain of
  `detach_and_drain` with it: it waits for the outstanding reply and discards it.
  Connections are numbered; a frame of an abandoned connection may be taken up to
  `MaxTransit` later.  An operation is `late` once the server took a frame of it
  whose horizon had not passed when it was sent and has passed now (`Overtaken`).
  `attach` tells the two ends of the command apart: giving up drains the journal and
  reports, DETACHED ends the process as it is.  `ServerRestart` is the in-place
  upgrade: PTYs survive under new actors and writers,
  queues, leases, sockets and the dedupe record do not; the history keeps what the
  old frames carried (`Forgotten`), so that bytes in a PTY can still be told apart.
  The sweep of `begin_connection` keeps the survivors in their order: `Listings` is
  the one increasing enumeration of them.
* **Broadcast.**  `rx[p]` is what pump p has yet to receive: at most
  `RingCapacity` items, and a flag when older ones were lost, which is received
  first (`RecvLagged`).  A resync, a tombstone and a chunk take one place each.
* **Pump.**  `pc` is the await the pump is at: the broadcast (`Run`), room in the
  resize mailbox (`Request`), the captured checkpoint (`Capture`), the activation
  (`Activate`), the replay.  `Lost`, `NotActivated` and `Closed` are the faults it
  ends with.  A frame is queued for the client and applied by it in one step,
  since nothing reorders them; a slow client is a pump that is not scheduled.
  A chunk may be found stale whenever it would be forwarded.
* **Capture.**  `step_native_bootstrap` runs once per turn until READY; the model
  has its start and its end (`EndCapture`), and everything else may happen between
  them except what the select loop's guards exclude: resizes, the owed resync,
  expiry.  A history cursor, and with it the binding, ends by the last page
  (`LastPage`) or by expiry (`ExpireCursor`); the pages before it change nothing a
  property speaks of.  `passedOver` is who was not bound when an attach-time reflow
  came and has not been republished since.  A replay is counted in chunks.  Waiters may be refused one by one.
* **Establishment.**  In `PaneOutput` a consumer starts with an opened generation
  at sequence 0, the state after the publication gate of its attach; how it gets
  there is `AttachStreams`.  All tasks of a connection share one thread and
  interleave at their awaits: `cmd.step` is the await of the command being handled
  (`Tombstone`, `Capture`, `Begin`, `Ready`, `Detached`), `phase` that of a pump
  (`Parked` on its gate, `Run`, `Begin`, `Ready`).  What the pane broadcast is
  `log`, a receiver is a position in it; a native pump is handed the output since
  its cut and a new receiver when it is activated, so it misses the resyncs
  broadcast before (`live`, `PumpMissesResync`).  `stop_output` and the connection's
  `JoinSet` are two different sets of tasks, as in the code.  `quiet`, `begins`,
  `twoSpeakers` and `rewound` are history.
* **Hub.**  A step is one turn of the supervisor's `select!`: a request
  (`Serve...`), a withdrawal, a frame of the link (`Receive`), the tick, or the end
  of the link; while it dials it fails requests fast and drops withdrawals.  A
  consumer's mailbox is seen as alive or not and as the room it has: consumers in
  `Slow` leave frames unread, the others keep up.  The satellite carries a command
  out when it is sent; its answer and its stream wait in `toHub` in order, so what
  the hub sees is what an in-order connection can show it.  `DetachClient` is
  DETACH as well as the end of a connection, both of which withdraw the client
  from every link; it is taken only by a consumer the hub may still know.
  `member`, `watchers`, `late`, `missed` and `blamed` are history: what each
  consumer was told, whose events stand, whose request was overtaken, who was
  registered in mid-stream or lost output behind a retained READY, and whether
  the hub reset the link.
* **Operation ids** are random in the code; `AckSession` names them in minting
  order.

## 3. Runs

| Run | Result | Question |
|---|---|---|
| `input_apply` | holds, about 2.6 million states | Three frames, batches over two ids and keys, record and queues of length one, one expiry, a refusal before the record, a full lane. `SlotHeldWhileUnanswered`, `HandedOncePerRetention`, `PendingMeansNotHanded`, `OkMeansWritten`, `RefusalIsProof`, `EveryRecordExpires`, `OneAnswerOneSlot` |
| `input_shared` | holds, 432,543 | Two clients, three surfaces, payloads refused before and after the dedupe record, leases and subscriptions changing. `TypeOK`, `WireOrder`, `LeaseExcludes`, `RefusalIsProof`, and `EveryInputIsAnswered` under fairness |
| `ack_replay` | holds, 678,075 | One paste, two connections, one restart, horizon equal to retention, frames that may be late: `KeepsContract`, `RefusedAtOnceMeansNothingWritten`, `SessionTypeOK`, and `EveryPasteIsReported` under fairness |
| `ack_queue` | holds, about 3.4 million | Two pastes, a reconnect, a switch: `DeliveredInOrder`, `KeepsContract` |
| `ack_horizon` | violated | `WrittenAtMostOnce` |
| `ack_exit` | violated | `ExitsWithEmptyJournal` |
| `pane_gap` | holds, 974,125 | A native and a synthesized consumer that fall behind, synthesis that may fail. `StreamIsExact`, `OneRepublishPerGap` |
| `pane_backlog` | holds, about 1.9 million | Captures that cannot be shared, fail, or lose their client, and a resize. `TypeOK`, `NothingIsSkipped`, `CheckpointIsComplete`, `OneRequestOnePlace` |
| `pane_shared` | holds, 534,490 | A native and a synthesized consumer, a live or attach-time reflow, cursors that end. `ConsumerKnowsItsGeneration`, and `EventuallyCurrent`, `GapIsAnswered` under fairness |
| `attach_streams` | holds, about 1.1 million | One connection, four commands of five kinds, two chunks, one resync, captures and pumps that fail. `TypeOK`, `OnlyReuseOrTwoSpeakersBreakTheReplica`, `OnlyAttachLeavesAPump`, `DetachIsAFence`, the refinement `ShowsThePane`, and `AttachCatchesUp` under fairness |
| `attach_reuse` | violated | `GenerationsAreFresh` |
| `hub_relay` | holds, about 1.2 million | Two consumers of a satellite's terminal, one slow; three requests, one frame, one fault. `HubTypeOK`, `OnlyALateRequestIsNotWithdrawn`, `OnlyAMissedFrameBreaksAReplica`, `OnlyARepublishResetsTheLink`, `EventsSurviveTheCut`, and `EveryCallIsAnswered`, `RetainedIsNotStranded` under fairness |

**What the passing runs say.**  Within one retention an operation id is handed to
a pane once, whatever the timing of deadlines, failures and retries; OK is said
only of bytes that are in the PTY; a refusal is said only when nothing under the
same record is in the pane or on its way; leases hold at the instant of hand-off;
across reconnects, late frames, switches and restarts a paste is written at
most once unless its horizon passed while a frame of it was on its way; and every
paste is reported unless the attach ends by DETACHED.  On the output side no order of overruns, stale chunks, retries, reflows,
expiries and failures gives a client a sequence it must detach on, or a screen
that lacks a chunk its label covers; a gap costs one generation; and when output
and resizes cease, every consumer that is still served has all the output, and the
size of the pane unless an attach-time reflow passed it over, as long as synthesis
succeeds and captures can be shared (what happens otherwise is
`ReflowReachesEveryStream`, `RecoversOnNextOutput` and `CaptureIsAnswered` below).

Around a stream: across spawns, attaches, re-attaches, detaches and failures a
client's kernel refuses a frame for two reasons only, an id used twice and two
pumps of one pane speaking at once; two pumps speak only where an ATTACH was
answered beside a pump it does not stop; otherwise the screen is always the pane's
as of some moment and that moment moves forward, but for a synthesized stream that
republishes a resync from before its cut (`PaneView` is that promise without any
of the machinery); an answered detach is a fence; and a lone pump catches up with
the pane.  Through a hub, every command is answered
without help from its deadline; a consumer told it is out has no proxy, unless
the answer overtook an older request of its own; a consumer registered before its
stream begins gets a stream its kernel accepts, with full mailboxes, other
consumers, resyncs and lost links around it, unless output reached the hub while
the READY was still retained for it; the detach barrier keeps the
generations of the link apart, so that only a resync on the satellite can make the
hub reset it; and events go on through the cut of another consumer's attach.

**What the violated runs say.**

`ack_horizon`.  The journal's horizon *equals* the retention, and its comment says
that this prevents the double write (`crates/phux-client/src/attach/input_replay.rs:57-61`).
Age is compared when the frame is built (`:275`), the record's age when the server
admits it; a resend on its way across the expiry is bound as new and written again.
`OnlyLateIsWrittenTwice` is what holds and is proved (section 4): the refutation
needs a frame overtaken by its horizon.  A horizon shorter than the retention by the
longest transit would close the gap.

`ack_exit`.  `crates/phux/src/commands/attach.rs:546-552` calls silence "the one
dishonest outcome" and says that the exit after `DETACHED` has an empty journal;
`exit_after_detach` (`crates/phux-tui/src/attach/driver/terminal.rs:492`) ends the
process with whatever is queued or unanswered, and nothing is reported.
`EveryPasteIsReported` excuses this exit and no other.

`attach_reuse`.  The table's counter is called
monotonic, "so a tombstoned generation's id is never reused".  A pump that takes a
resync counts its own id on and tells neither the counter nor the registration, so
the next ATTACH_RESOURCE of the same client begins under the id the pump has just
used, on the same stream: the client's kernel refuses the BEGIN and the
connection ends.  `OnlyReuseOrTwoSpeakersBreakTheReplica` is what does hold.

**Other statements TLC refutes.**  More sentences of the repository are stated
as definitions, without a run of their own.  Adding the name to the cfg given
(and nothing else, unless it is said) shows the behaviour.

* `RefusedMeansNothingWritten` (`AckExit.cfg`, in place of its property).  The journal reads
  `RESOURCE_EXHAUSTED` as "nothing was written; retyping the input is safe",
  arguing that it never manufactures the refusal itself
  (`crates/phux-client/src/attach/input_replay.rs:32`, `:105`).  It does: after a
  reconnect the resend meets the first attempt, still unresolved in the Terminal's
  slot.  The user is told to retype, and the first attempt is written.  The
  contract checked is therefore weaker: `Refused` promises nothing once a paste has
  been sent twice (`RefusedAtOnceMeansNothingWritten` is what does hold).
* `CaptureIsAnswered` (a property, `PaneBacklog.cfg` with `FairSpec` and
  `Faults = {}`).  `docs/spec/proto.md:932` says that after an overflow "other
  consumers and panes continue".  An overflow of deferred output
  (`server/resource/terminal/native.rs:638`) drops the capture without starting the
  next request of the backlog, whose pump waits without a deadline.
* `OnePumpSpeaks` (`AttachStreams.cfg`).  `server/state/resource_table.rs:152` lets
  a staged and a published pump coexist until the commit.  The commit of an ATTACH
  stops nothing when it is the connection's first, and never a pump of
  ATTACH_RESOURCE: the pane is then streamed twice, under two streams.
* `SpawnPumpOwnsItsPane` (`AttachStreams.cfg`).  `server/runtime/attach.rs:2420`
  argues that nothing else is subscribed when a SPAWN pump reaps its pane; the pump
  lives as long as the attachment, and others attach meanwhile.
* `FenceSurvivesTheHop` (`HubRelay.cfg`).  `docs/spec/L1.md:2198` says the READY
  fence survives the hop.  A consumer registered between the BEGIN and the READY of
  another's generation is sent the READY alone; one that only watched events, and
  then attaches, is sent a prefix retained from before.  And output that arrives while
  a READY is still retained for a slow consumer is dropped: `fan_out`
  (`server/hub/relay.rs:2214-2220`) keeps the subscriber and forwards the output after
  it, where `docs/spec/L1.md:2198` has "contiguous `base_seq + 1` live release survive
  the hop" and promises that the hub "never lets later live bytes bypass a missing
  prefix".  The consumer's kernel then refuses the gap; TLC shows it with
  `MaxOutput = 2`.  `missed` is who these can happen to.
* `OutMeansNoProxy` (`HubRelay.cfg`).  `docs/spec/L1.md:2213`: after the success of
  a detach nothing of the stream may be queued.  A SUBSCRIBE_EVENTS or a timed-out
  ATTACH of the same consumer may still be in the request mailbox when its
  withdrawal, on the other channel, is carried out; it then registers a proxy
  nobody withdraws.
* `NoStaleWithdrawal` (a property, `HubRelay.cfg`).  `server/hub/relay.rs:196-201`
  gives a withdrawal a token so that it cannot tear down a newer registration; the
  withdrawal of a whole client (`Unsubscribe::Client`) carries none, so a DETACH
  followed by a re-attach on the same connection may remove the new proxy.

* `UnknownOnlyAfterWriterTookJob` (`InputLaneApply.cfg`).  The specification's
  change log (`docs/spec/CHANGELOG.md:50`) narrows `INPUT_DELIVERY_UNKNOWN` to
  batches a writer thread took; the deadline also gives it to a batch that still
  waits in the pane's mailbox.  (The answer is conservative, the text is not
  accurate.)
* `TombstoneBeforeReplacement` (a property, `PaneGap.cfg`).  The wire specification
  (`docs/spec/L1.md:898`) promises a tombstone before every replacement BEGIN; a
  synthesized generation is replaced without one.  The kernel copes: publishing
  retires the generation it replaces.
* `ReflowReachesEveryStream` (`PaneShared.cfg`).  `docs/spec/L1.md:2440` promises
  every affected stream a cut after a reflow.  When another client's ATTACH changes
  the size, only native consumers with a live history binding get one
  (`server/resource/terminal/run_loop.rs:970-977`): a native consumer that was served
  its last history page (`native.rs:878`), or whose binding expired (30 s without
  history requests), keeps the old size until the next live resize or gap, and so
  does every synthesized consumer.  `passedOver` is who these are.
* `ReflowSparesTheConnection` (`PaneShared.cfg` with `Pumps`, `Interactive = {n1}`
  and `MaxResizes = 2`).  A reflow between a checkpoint's
  READY and its activation voids the binding; the pump treats the refusal as fatal
  and its connection is cancelled.  Two resizes in quick succession are enough.
* `RecoversOnNextOutput` (a property, `PaneShared.cfg` with `Pumps`,
  `Interactive = {n1}`, `Faults = {"Synthesis"}` and `TalkingSpec`).  When
  the resync after a reflow cannot be synthesized, the log says clients recover on
  next output; a native pump, retired by the reflow, forwards none and asks for
  nothing.

* `OkMeansWritten` with a client that breaks the protocol (`InputLaneApply.cfg`
  with `Resources = {t1, t2}`, `Retention = 2`, `LaneCapacity = 2`,
  `MaxAttempts = 5`, `MaxTime = 4` and without the symmetry; `tlc -simulate` finds
  it).  `docs/spec/L1.md:1605` says an operation id names one immutable payload.
  When a batch is unanswered for longer than the retention and its id is bound
  again by a different batch, `set_final` writes the result of the first into the
  record of the second: the record is found by id alone.  A resend of the second is
  then told OK although it was not written.  `OkIsTrue` (section 4) is what holds.

Three more facts the models show.  `ScreenNeverGoesBack` (`AttachStreams.cfg`): a
synthesized pump's receiver is older than its cut, and a resync broadcast between
the two is published over the newer screen; the chunks behind it then bring the
screen forward again, at the price of one more bootstrap.  Through a hub, a delta
that finds a mailbox full reaps the subscriber; and a resync on the satellite
followed by a second consumer's attach (which reuses the id, see `attach_reuse`)
resets the link for every terminal on it.

**Bounds.**  `MaxAttempts` frames, `MaxTime` ticks, `MaxConnections`,
`MaxSwitches`, `MaxIncarnations`.  Queues of length one are full as soon as they
are used, so every overflow branch runs; `input_shared` has length two so that
reordering could show.  Three attempts are needed for "first, resend, and one that
must not profit from either"; two clock units for an expiry during an operation.
`MaxAttempts >= MaxConnections + MaxSwitches` in the session runs, so no bound
stops a resend.  `Horizon = Retention = 1` and `MaxTransit = 1`: a frame sent in the
last unit of its horizon may be taken in the next, when its record has expired.
`ack_queue` has no time: it is about order, and lateness is `ack_replay`'s.  For a pane: `MaxSeq` chunks and `MaxResizes` resizes.  A gap, its
resync and a chunk under the new generation need two chunks; a capture overtaken
by a reflow, one resize; a second one (`ReflowSparesTheConnection`) is left to the
proofs, which bound nothing.  A broadcast of two or
three items is overrun by what two consumers cause, a resize mailbox of one is full with
one request in it, a replay of one chunk overflows with the second.  `GapBudget`
is 3 in `pane_gap` so that a retry can cross an answer.  Two consumers suffice: a
pump meets another only through the mailbox, the owed resync and the capture.
For `AttachStreams`: four commands are a spawn, an attach, a replacement and a
detach; the two chunks and the resync may each fall before, between or after any
of their steps.  For `HubRelay`: `MaxOps` 3 is attach, detach and re-attach of one
consumer, or a second consumer between them; `MailboxCap`, `OutCap` 1 and
`MaxRetained` 2 put every queue at its limit; `MaxFaults` 1 is any one of a
timeout, a lost link, a refused bootstrap, a closed terminal and a resync;
`Spawned` starts the link with a generation on it that no consumer asked for,
which is what the content cut is for.
Deadlock checking is off because a run ends when its bounds are
used up, or when the process has exited.

**Fairness.**  `FairSpec`: the lane thread and the waiter thread run (each blocks
only on its own queue, the waiter at most to the next deadline).  Panes, writers
and clients are not assumed to move: `EveryInputIsAnswered` is about them not
moving.  `FairSession` adds that a live link carries its frames and replies, that
a dead one is noticed (keep-alive of the transport), and that the reconnect loop
is bounded by `reconnect_policy`'s deadline.
`PaneOutput`'s `FairSpec`: the actor and each pump take a step when they can.  The
actor's `select!` is biased towards PTY output, so a PTY that never pauses may
starve resizes and resyncs; fairness is claimed for an output that ends
(`MaxSeq`).  A pump is held up only by its client, and a client that does not read
is closed.  `TalkingSpec` adds that the PTY goes on talking.
`AttachStreams`' `FairSpec`: the read loop goes on with its command, and each pump
that can step does; the executor polls every woken task.  Nothing is assumed of the
pane, of resyncs or of the client's next command.  `HubRelay`'s `FairSpec`: as long
as the supervisor, its redial or a reading consumer can take a step, some step is
taken.  It is the weakest such assumption, and enough because each of these steps
uses up a message; losing the link, timeouts and the satellite's own steps are never
forced.

## 4. Proofs

Every theorem holds for all values of the constants that the named assumptions
allow: any sets of clients, resources, payloads, consumers and geometries, every
queue capacity, retention, budget and bound.

### Who owes the answer (`InputLaneProofs`)

About `InputLane`'s `Spec`, from `CacheAssumption`, `AuthorityAssumption` and
`LaneAssumption`.

* `TypeCorrect`: `Spec => []TypeOK`.
* `AnswerHasOneOwner`: `Spec => []OneAnswerOneSlot`.
* `SlotSafety`: `Spec => []SlotHeldWhileUnanswered`.
* `RecordsExpire`: `Spec => []EveryRecordExpires`.
* `LeaseSafety`: `Spec => LeaseExcludes`.

**Argument.**  `SlotHeldWhileUnanswered` is not inductive: to see that an answer
frees the right slot one must know that nobody else will answer the same batch.
`InputLaneInv` therefore says where the one thing that answers a batch can be: in
the lane queue, on the lane thread before registration, in a `Registered`
message, in the pending set, or in the waiter's hands (`closing`), and in no two of
these at once, with no repetition inside any of them (`LaneOK`, `ThreadOK`,
`AnnouncedOK`, `PendingOK`, `ClosingOK`).  `Inv == TypeOK /\ OneAnswerOneSlot` is
checked by `input_apply` and `input_shared` and proved inductive by one lemma per
action group (`PaneKeepsInv`, `ClientKeepsInv`, `BindKeepsInv`,
`RegisterKeepsInv`, `HandoffKeepsInv`, ..., `ReplyKeepsInv`).  Lemmas shared by
many actions: `ResultChange` (what writing an answer leaves alone),
`ReportsMoveNothing` (a completion message moves no answer), `AnswerFreesSlot`.
`OperationCacheProofs` proves that pruning, binding and recording keep types and
keep every record queued for expiry.

### What happened to the bytes (`InputHandedProofs`)

About the same `Spec`, from the same assumptions and the invariant above.

* `HandedInvHolds`: `Spec => []HandedInv`, the strengthening.
* `InputInWireOrder`: `Spec => []WireOrder`.
* `Idempotent`: `Spec => []HandedOncePerRetention`.
* `PendingIsSafe`: `Spec => []PendingMeansNotHanded`.
* `RefusalsAreProofs`: `Spec => RefusalIsProof`, an action property.
* `OkRecordsAreTrue`: `Spec => []OkIsWritten`.  OK, in a record or in a reply, is
  said only of an operation id under which a batch is in a PTY in full.
* `OkIsTrue`: `Spec => [](OneDigestPerId => OkMeansWritten)`.  In a state where no
  client has used one id for two different batches, OK means that this batch, with
  this payload, is in its own Terminal's PTY.  The premise is the protocol's rule
  for clients; without it the conclusion is false (section 3).

**Argument.**  None of these is inductive: whether a late report, a deadline or a
second attempt under an old id does harm depends on the other threads.
`HandedInv` has three parts.

1. `OrderOK`.  The PTY, the writer's queue, the mailbox, the batch on the lane
   thread and the lane's queue are, one after the other, ascending in wire order
   (`PaneOrderOK`, `LaneOrderOK`), and so are the instants of admission (`ClockOK`).
   `WireOrder` is one conjunct of it.
2. `FatesOK`.  A ticket belongs to one sink and one waiting batch, which are the
   same batch (`TicketsOK`); a report is the last word under its ticket, and what
   it says of the batch that waits for it is true: a refusal of one that is in no
   pane, a delivery of one that is in the PTY (`ReportsOK`); so are the verdicts
   the waiter has drawn and not yet announced (`VerdictsOK`).
3. `RecordsOK`.  The record a batch was bound to is in the cache with its digest,
   or a whole retention has passed, also for everything still queued (`BoundOK`); a
   batch that has been answered and may be written has left its result in the
   record (`ResultKept`); under one record at most one batch may be written, and
   none while another waits (`OneCopy`).

Most actions touch one part only, and three step lemmas (`OrderStep`, `FatesStep`,
`RecordsStep`) say what a step must leave alone for a part to survive.  The three
actions where the parts meet have proofs of their own: the dedupe lookup
(`BindRecords`, `BindFates`, where admission order and retention meet), the hand-off
(`HandoffKeepsHanded`, `UnackedHandoffKeepsHanded`) and the waiter
(`WaiterStepKeepsHanded`, `TimeoutKeepsHanded`, `RecordKeepsHanded`).  The three
parts and `OkIsWritten` were checked by TLC with the constants of `input_apply`,
the parts also with those of `input_shared` and by simulation
with two Terminals, before they were proved.

### From the paste to the PTY (`AckSessionProofs`)

About `AckSession`'s `SessionSpec`, from the assumptions above and
`SessionAssumption` (the horizon is at most the retention, which the code's equal
values satisfy; bounds are numbers; the absent link is no link).  Nothing is assumed
of how long a frame is on its way.

* `SessionInvariant`: `SessionSpec => []SessionInv`; `SessionTypes`:
  `SessionSpec => []SessionTypeOK`.
* `RefusalIsFinal`: `SessionSpec => []RefusedAtOnceMeansNothingWritten`.
* `HandedOnce`, `PasteIsWrittenOnce`: `SessionSpec => []OnceOK`,
  `SessionSpec => []OnlyLateIsWrittenTwice`.
* `DeliveredAhead`, `PastesLandInOrder`: `SessionSpec => []AheadOK`,
  `SessionSpec => []DeliveredInOrder`.
* `SessionImplementsContract`: `SessionSpec => KeepsContract`, the refinement of
  `AckContract`.

**Late pastes.**  With horizon and retention both ten minutes (`input_replay.rs:62`,
`acknowledged.rs:49`) `WrittenAtMostOnce` is false (`ack_horizon`).  The theorems say
how false: only of a paste in `late`, one that the server took after its horizon had
passed under way.  `AckContract` has the exception as actions of its own (`Overtake`,
`WriteAgain`), so the refinement says that nothing else writes twice, and that a late
paste breaks no other promise.

**Argument.**  `ServerStep` is a step of `InputLane`, so `Inv`, `HandedInv` and
`OkIsWritten` carry over by the lemmas of the two modules above (`StepKeepsServer`);
a restart, which is no step of `InputLane`, is shown to keep them
(`RestartKeepsServer`).  The other half of `SessionInv` is about the journal:

* one operation at a time: what was ever sent is no newer than what is queued
  (`FrontOK`), and the queue is in minting order (`QueueOK`);
* a reply that carries the request in flight answers the operation at the front
  (`LinkOK`), so `resolve` reports on the right paste although request ids restart
  with each attach session;
* each operation was made at one instant and is bound to one server process; all
  its frames are of that process and were sent within the horizon, and all its
  attempts were admitted within it unless the operation is late (`Bounded`,
  `BoundedOK`);
* what the user was told is so (`ToldOK`): a delivered paste is in a PTY in full, a
  refused one was never sent or has an attempt that can do nothing any more.
  `RefusalsOK` is the server's side of it.

For an operation that is not late the records cover every attempt: were two attempts
of one process handed out a retention apart, the second would have been admitted no
earlier than its making plus the retention, which is past the horizon.  So
`HandedOncePerRetention` becomes `OnceOK` (`LiveOnce`); an attempt of an earlier
process is never followed by one of a later.  `AheadOK` follows the moment of the report: when a paste is reported
delivered its bytes are handed over, and a later paste is sent only afterwards.
For the refinement a step of the client is `Judge`, a write to a PTY is `Write` of
its operation (`LandingIsWrite`), the rest stutters.  TLC checked `SessionInv`,
`OnceOK`, `AheadOK` and `OnlyLateIsWrittenTwice` with the constants of `ack_replay` and
`ack_queue` before they were proved.

### A consumer's stream (`PaneOutputProofs`)

About `PaneOutput`'s `Spec`, from `PaneAssumption`, `GapBudgetAssumption` and
`NoneAssumption` (the absent value is no capture, checkpoint or request).

* `InvHolds`: `Spec => []Inv`; `TypeCorrect`: `Spec => []TypeOK`.
* `StreamExact`: `Spec => []StreamIsExact`.
* `CheckpointComplete`: `Spec => []CheckpointIsComplete`.
* `GenerationAgreed`: `Spec => []ConsumerKnowsItsGeneration`.
* `RepublishedOncePerGap`: `Spec => []OneRepublishPerGap`.
* `RequestInOnePlace`: `Spec => []OneRequestOnePlace`.
* `NothingSkipped`: `Spec => []NothingIsSkipped`.

**Argument.**  That a kernel refuses no frame depends on everything still under way
to the pump.  `PaneOutputInv` describes it, for the actor and for each pump:

* a native pump's request is in one place: the mailbox, the capture, the backlog,
  or answered (`RequestOK`, `BacklogIsASet`);
* a checkpoint and the output recorded behind it are together the whole output
  (`Run`, `CaptureOK`, `CutOK`);
* what is in a receiver is an unbroken run of sequences from where the pump stands
  (`Position`) to the output of now, unless a loss flag or a resync makes up for the
  hole (`Flow`, `FlowOK`, which is `NothingIsSkipped`);
* the pump and its consumer agree on generation and sequence, or the consumer
  knows that its generation is void (`GenerationOK`, `MirrorOK`);
* a resync that is owed, asked for or broadcast names a generation its pump has, or
  had, and was caused by a gap the pump counted (`Known`, `AudiencesOK`, `CountOK`).

The operators come first (`FlowConcat`, `FlowSuffix`, `DeliverFlow`, `OutputStep`,
`BootstrapStep`, ...); then two frame lemmas, `LocalStep` (a pump's step leaves
the actor and the other pumps as they are) and `SharedStep` (the actor's step seen
from one pump); then a lemma per action (`ResyncKeepsInv`, `ReplayKeepsInv`,
`OutputKeepsInv`, `ServiceKeepsInv`, `PublicationKeepsInv`, `EndKeepsInv`, ...),
`PumpKeepsInv` and `NextInv`.  TLC checked `Inv` on the pane
configurations before it was proved.

### Getting and giving up a stream (`AttachStreamsProofs`)

About `AttachStreams`' `Spec`, from `StreamsAssumption` (ids and bounds are
numbers) and `NoneAssumption` (the absent value is no id, generation, pump or
command).

* `InvHolds`: `Spec => []Inv`; `TypeCorrect`: `Spec => []TypeOK`.
* `AttachLeavesAPump`: `Spec => []OnlyAttachLeavesAPump`.
* `ReplicaIsSound`: `Spec => []OnlyReuseOrTwoSpeakersBreakTheReplica`.
* `Fence`: `Spec => DetachIsAFence`, an action property.
* `ImplementsPaneView`: `Spec => ShowsThePane`, the refinement of `PaneView`.

**Argument.**  A kernel's error is the end of a long story: the id a command took,
where its receiver was subscribed, what the actor broadcast before the cut, who was
stopped in between.  `AttachStreamsInv` keeps the whole story:

* the broadcast numbers output without a break (`LogOK`), so a receiver's position
  and a sequence say the same thing (`At`);
* only the command being handled has a parked pump, ATTACH_RESOURCE and SPAWN have no
  pump beside their own, an ATTACH none of another ATTACH once it has its cut
  (`TableOK`, `CommandOK`); an answered detach leaves none (`quiet`), which is the
  fence;
* nothing is shown, staged, retired or registered that was not begun (`BegunOK`),
  so a BEGIN under a fresh id is new to the kernel too; ids stay within the commands
  sent and the resyncs taken (`CountOK`);
* a pump has forwarded what its receiver has passed, or what its cut shows,
  whichever is more (`PumpOK`, `PositionOK`): the output between the subscription
  and the cut is skipped, that after it is not;
* as long as no id was reused and one task spoke (`Sound`), that task is in step
  with the replica: a running pump forwarded last what the screen shows, a task
  between BEGIN and READY has its generation staged at its own base (`StreamOK`).

A pump's five steps are instances of one (`PumpMoves`), for which `PumpStepInv` and
`PumpSpeaks` say what has to be kept; four actions that stop everything are
instances of `GivesUp`, the two that park a pump of `Starts`; the other commands have
a lemma each (`ReplaceInv`, `CaptureInv`, `SendBeginInv`, `SendReadyInv`,
`TakeDetachInv`, `TakeAttachResourceInv`).  The refinement uses the invariant before
and after a step: a stream that can be trusted afterwards could be before
(`TrustedBefore`), and then no step takes output off the screen (`ContentGrows`).
TLC checked `Inv` with the constants of `attach_streams`, and with three commands and
two resyncs, before it was proved.

### Through a hub (`HubRelayProofs`, `HubStreamProofs`)

About `HubRelay`'s `Spec`, from `RelaySessionAssumption` and `HubAssumption` (bounds
are numbers, a mailbox and a retained prefix hold at least one item) and
`NoneAssumption` (the absent value is no generation, proxy, flow, call or replica).
`HubRelayProofs` has the link's bookkeeping, `HubStreamProofs` what it carries.

* `TypesHold`: `Spec => []HubTypeOK`, which bounds both mailboxes and what is retained.
* `EventsSurvive`: `Spec => []EventsSurviveTheCut`.
* `LateRequests`: `Spec => []OnlyALateRequestIsNotWithdrawn`.
* `OnlyARepublishResets`: `Spec => []OnlyARepublishResetsTheLink`.
* `OnlyAMissedFrameBreaks`: `Spec => []OnlyAMissedFrameBreaksAReplica`.
* `HubInvariant`: `Spec => []HubInv`, all of it at once.

**Argument.**  Three stories that need different facts, kept in `HubRelayInv`:

* *Calls.*  Tokens and ids are unique where they are compared (`StampsOK`, `IdsOK`).
  A consumer that waits has its request in one place, the mailbox, the link or the
  withdrawals (`CallsOK`), and, unless it was answered early, nothing of it is under
  way that it does not wait for (`WaitedOK`).  A consumer that is out therefore has a
  proxy only while an attach that made it is pending, and the refusal of that attach
  removes it (`OutOK`).
* *Events.*  The hub's record of the subscription is never ahead of the satellite's,
  since every detach it sends clears it or sends it again behind (`EventsOK`); a
  link that is down has no subscription (`DownOK`).
* *The stream.*  `LinkOK` reads the frames on their way as a run (`Runs`): a stream
  before and after each frame, from the one the hub has followed so far to what the
  satellite streams now.  The hub's `flow` agrees with the start of that run when no
  barrier is out (`Carries`), so it never meets a frame it must refuse, until a
  resync begins a generation beside another.  For the replicas, a generation that was
  heard of is not begun again (`Begun`, `Past`, `BegunOK`), until an id is reused; and a
  replica *that has also seen what is retained for it* is where the link's stream
  is (`InStep`, `Sound`, `ViewOK`).  That formulation makes retaining, flushing and
  sending the same step for the replica.

Frames enter and leave the link in few ways, each with a lemma about runs (dropping
the first frame, appending frames, a satellite that goes from one stream to another),
and an action is a combination of those; what happens to one consumer's proxy and
replica is a lemma per operation of `RelaySession`.  Where a fact about a whole queue
is needed, it is proved by its least counterexample, which needs no induction
principle with an operator parameter.

A proof attempt corrected the property.  It used to excuse only consumers registered
in mid-stream; the case of `PushDelta` in which output finds a retained READY could not
be proved, and TLC found the gap with one more frame of output than the run allows.
TLC then checked every conjunct of `HubInv`, with the start of the run computed backwards
from the satellite's stream, on the constants of `hub_relay` with two requests and two
frames of output, and on random behaviours with larger bounds, before it was proved.

### Only model-checked

Liveness (`EveryInputIsAnswered`, `EveryPasteIsReported`, `EventuallyCurrent`,
`GapIsAnswered`, `AttachCatchesUp`, `EveryCallIsAnswered`, `RetainedIsNotStranded`):
the provers do not handle fairness.  That ids are in fact reused, that two pumps do speak at once and that a screen can go back are
runs' and section 3's business: the proofs say what holds until then.  `OkMeansWritten` without the premise of
`OkIsTrue` is false in general, and holds in `input_apply` because one Terminal
with one payload that can be bound leaves nothing to confuse.

## 5. Not modelled, and why

* Encoding of keys, paste sanitising, screen contents: pure data; a payload is an
  opaque value that encodes, does not, or encodes to nothing.
* Server shutdown (`InputLane::drop`, `WaiterMessage::Shutdown`): every client is
  going away with the process.
* The `same_channel` check (actor replaced between the gates): a resource's handle
  is registered once in its life (`server/state/terminals.rs`), so it cannot fail.
* Hooks, session touch times, the uncorrelated ERROR frame, metrics, logging.
* The contents of history pages: only the end of the paging releases anything
  (`LastPage`).
* An agent session as the target of input is in `InputLane` and in the proofs; the
  runs have Terminals only.
* `process_headless` refusing an event (`input_lane/mod.rs:569-572`): an event that
  came off the wire as input always converts, so the arm is not reached.
* The step between freeing the slot and sending the reply (`acknowledged.rs:313-314`):
  the reply channel is private to the one caller, and who sees the slot free before
  the caller has read its reply sees it in `ReleaseAndReply` too.
* State sync (`RESOURCE_DIFF`), resume proofs, the end of a pane while its pumps
  run: `AttachStreams` ends a pane only when a SPAWN pump or a failed SPAWN reaps it.
* A publication that cannot be activated after its READY was queued
  (`server/runtime/attach.rs:2646-2658`, `:3525-3540`), and the faults of a SPAWN pump
  that end it, or its connection, without reaping the pane (`:2443-2454`): `PumpLost`
  is `GenerationLost` only.
* An ATTACH that switches to another session, and a session of several panes:
  establishment is modelled for one pane.
* On a hub link, what is answered at the hub without touching the link: a profile or
  limits mismatch (`subscription_rejection`, `server/hub/relay.rs:1077`, `:1256-1279`).
  SUBSCRIBE_RESOURCE_EVENTS, a rider of the proxy without a gate
  (`runtime/commands.rs:2836`, `relay.rs:1121-1136`).  A satellite whose reply never
  comes on a live link (`relay.rs:411-415`): the deadline then
  answers, as `TimesOut` may at any time, and `EveryCallIsAnswered` is not about it.  A synthesized pump's republication, which comes without a
  tombstone and which the hub takes for an overlapping BEGIN (`relay.rs:1992-1996`):
  it resets the link as the reuse that `resynced` stands for does.
* On a hub link: relayed leases, spawns, listings and kills; the QUIC stream bind;
  byte budgets and the connection-wide budget, which act as the frame budget of a
  subscriber does; commands of the hub's own clients to local panes.
* The kernel's error on a sequence at `u64::MAX`, and engine failures of a replica.
* Satellite-routed input, dispatched before the lane by the hub relay.
* The parts listed as `not_modelled` in `PROJECT.json`.

## 6. Plan

Done: acknowledged input from the client's journal to the PTY, leases, wire order;
the output path of a pane with established consumers; how a connection establishes,
replaces and gives up a stream; the hub's relay of one terminal.

1. *State sync* (`consumers.rs`, `tick.rs`, `sync.rs`) and resume; `PaneOutput`
   as a second implementation of `PaneView`.
2. *Lease broadcast*: `LeaseChanged` events through the pane actor against the
   lease table; do subscribers converge on the true holder?
3. *Session tree and reaping*, conditional kill, metadata watches.
4. *Upgrade*: blob, re-exec, adoption of PTYs.
5. *Hub*: relayed leases, spawns and kills.
6. *Prediction* and *upload*.
