---------------------------- MODULE AttachStreams ----------------------------
(* How one connection gets, replaces and gives up the output stream of one   *)
(* pane: the commands SPAWN_RESOURCE, ATTACH, ATTACH_RESOURCE,               *)
(* DETACH_RESOURCE and DETACH, each of which the connection's read loop      *)
(* awaits before it reads the next, against the output pumps they start and  *)
(* stop, which run beside them into the same outbound mailbox.               *)
(*                                                                           *)
(* Source: crates/phux-server/src/runtime/{commands,attach,client,pump}.rs   *)
(* and crates/phux-server/src/state/resource_table.rs.  The tasks share one  *)
(* thread and interleave at every await; a task that is aborted does not run *)
(* again.  As in PaneOutput a frame is applied by the client's kernel when   *)
(* it is queued, but here BOOTSTRAP_BEGIN and BOOTSTRAP_READY are two frames:*)
(* another pump may speak between them.  Lag, gaps and resizes are           *)
(* PaneOutput's; here a resync for everyone may simply be broadcast.         *)
EXTENDS PumpGeneration, MirrorKernel, Sequences, SequencesExt, FiniteSets

CONSTANTS
    ClientId,           \* the connection's client id
    AttachIds,          \* the attach ids it uses, each once (used_attach_ids)
    SpawnIds,           \* the request ids of a SPAWN that makes the pane
    Faults,             \* subset of {"Capture", "Lost"}
    None,
    MaxCommands,        \* bound: commands the client sends
    MaxOutput,          \* bound: chunks the pane outputs
    MaxResyncs          \* bound: resyncs broadcast

ASSUME StreamsAssumption ==
    /\ ClientId \in Nat \ {0} /\ AttachIds \subseteq Nat \ {0} /\ SpawnIds \subseteq Nat
    /\ Faults \subseteq {"Capture", "Lost"}
    /\ MaxCommands \in Nat /\ MaxOutput \in Nat /\ MaxResyncs \in Nat

(* What a pump and a command being handled may look like.                    *)
PumpTask(Streams, Seqs, Ids, Positions) ==
    [kind: {"Attach", "AttachResource", "Spawn"}, stream: Streams,
     gen: Generation(Seqs, Ids), pos: Positions, live: Positions,
     phase: {"Parked", "Run", "Begin", "Ready"}, base: Seqs]

Command(Pumps, Ids) ==
    [kind: {"Attach", "AttachResource", "Spawn"}, step: {"Tombstone", "Capture", "Begin", "Ready"},
     prior: Ids \cup {None}, pump: Pumps, reattach: BOOLEAN]
    \cup [kind: {"Detach"}, step: {"Detached"}]

(* The absent value is no id, no generation, no pump and no command.         *)
ASSUME NoneAssumption ==
    LET Pumps == PumpTask(Nat, Nat, Nat, Nat)
    IN  None \notin Nat \cup (Nat \X Nat) \cup Pumps \cup Command(Pumps, Nat)

VARIABLES
    native,         \* HELLO negotiated the native checkpoint profile
    pane,           \* "Absent", "Live" or "Reaped"
    log,            \* what the pane broadcast; a receiver is a position in it
    seq,            \* the pane's output sequence
    counter,        \* next_bootstrap, the client's next bootstrap id
    entry,          \* pumps: the registered ATTACH_RESOURCE generation
    task,           \* output_pumps: command number -> the pump it started
    cmd,            \* the command being handled
    sent,           \* commands taken so far
    attached,       \* the client holds a session attachment
    usedIds,        \* used_attach_ids
    others,         \* another client is subscribed to the pane
    mirror,         \* the client's replica (MirrorKernel)
    staging,        \* the generation its kernel is staging
    closed,         \* the connection token is cancelled
    quiet,          \* history: the last command given up the stream and was answered
    begins,         \* history: the generations begun, in order
    twoSpeakers,    \* history: two tasks could queue a frame of the pane
    rewound         \* history: a pump took a resync older than its own cut

serverVars == <<native, pane, counter, entry, task, attached, usedIds>>
clientVars == <<mirror, staging, begins>>
paneVars == <<log, seq>>
vars == <<serverVars, paneVars, cmd, sent, others, clientVars, closed, quiet,
          twoSpeakers, rewound>>

Commands == 1 .. MaxCommands
Seqs == 0 .. MaxOutput + 1
Live == {n \in Commands : task[n] # None}
Running(tasks) == {n \in Commands : tasks[n] # None /\ tasks[n].phase # "Parked"}

(* stream_id_from                                                            *)
StreamIdFrom(raw) == raw + 1

(* Mutant of InitialBootstrapId: ids count from zero, which is malformed.    *)
InitialBootstrapIdZero == 0

(* initial_bootstrap_id: every ATTACH and SPAWN starts with it.              *)
InitialBootstrapId == 1

NoTasks == [n \in Commands |-> None]

Init ==
    /\ native \in BOOLEAN
    /\ pane \in {"Absent", "Live"}
    /\ log = <<>> /\ seq = 0
    /\ counter = 1 /\ entry = None /\ task = NoTasks
    /\ cmd = None /\ sent = 0
    /\ attached = FALSE /\ usedIds = {} /\ others = FALSE
    /\ mirror = [MirrorInit(None, None) EXCEPT !.next = 0]
    /\ staging = {}
    /\ closed = FALSE
    /\ quiet = FALSE
    /\ begins = <<>>
    /\ twoSpeakers = FALSE
    /\ rewound = FALSE

Open == ~closed /\ ~mirror.error

-----------------------------------------------------------------------------
(* The client's kernel, frame by frame.                                      *)

Replica == [mirror |-> mirror, staging |-> staging]

Becomes(r) == mirror' = r.mirror /\ staging' = r.staging

BeginFrame(g, base) ==
    /\ Becomes(StageBegin(Replica, g, base))
    /\ begins' = Append(begins, g)

ReadyFrame(g) == Becomes(StageReady(Replica, g)) /\ UNCHANGED begins

OutputFrame(g, s) ==
    /\ mirror' = ApplyOutput(mirror, g, s)
    /\ UNCHANGED <<staging, begins>>

TombstoneFrame(g) == Becomes(StageTombstone(Replica, g)) /\ UNCHANGED begins

-----------------------------------------------------------------------------
(* The tables.                                                               *)

Pump(kind, stream, id) ==
    [kind |-> kind, stream |-> stream, gen |-> OpenedAt(0, id), pos |-> Len(log),
     live |-> 0, phase |-> "Parked", base |-> 0]

(* Dropping an OutputPumpTask aborts the task wherever it awaits.            *)
Without(dead) == [n \in Commands |-> IF n \in dead THEN None ELSE task[n]]

(* Mutant of StopOutput: only the registered generation's own pump.          *)
StopRegisteredOnly ==
    [n \in Commands |-> IF task[n] # None /\ task[n].kind = "AttachResource" THEN None ELSE task[n]]

(* stop_output: every output task of the pair, whichever command started it. *)
StopOutput == NoTasks

(* The connection's JoinSet holds the pumps of ATTACH and SPAWN, not those   *)
(* of ATTACH_RESOURCE.                                                       *)
JoinSetTasks == {n \in Live : task[n].kind # "AttachResource"}

(* detach: every pump of the client is cancelled and its counter forgotten.  *)
DetachState ==
    /\ attached' = FALSE
    /\ task' = NoTasks
    /\ entry' = None
    /\ counter' = 1

(* forget_resource                                                           *)
ReapState ==
    /\ pane' = "Reaped"
    /\ task' = NoTasks
    /\ entry' = None

(* Who may queue a frame of the pane next: an unparked pump, and a command   *)
(* between its BEGIN and its READY.                                          *)
Speakers(tasks, c, n) ==
    Running(tasks) \cup (IF c # None /\ c.step = "Ready" THEN {n} ELSE {})

(* The history variables.                                                    *)
Witness ==
    /\ twoSpeakers' = (twoSpeakers \/ Cardinality(Speakers(task', cmd', sent')) > 1)
    /\ quiet' = IF sent' # sent THEN cmd' = None
               ELSE quiet \/ (cmd # None /\ cmd.kind = "Detach" /\ cmd' = None)
    /\ rewound' = (rewound \/ \E n \in Live : ~native /\ task[n].phase = "Run"
                        /\ task'[n] # None /\ task'[n].phase = "Begin"
                        /\ task'[n].base < task[n].gen.cut)

-----------------------------------------------------------------------------
(* Commands.  Each is taken when the one before it was answered; `step` is   *)
(* the await it has reached.                                                 *)

MayTake == Open /\ cmd = None /\ sent < MaxCommands

(* bootstrap_attach_terminal up to the first await of establish_generation:  *)
(* subscribe, allocate the id, subscribe to the broadcast, stop every pump   *)
(* of the pair and register the generation in place of the prior one.        *)
TakeAttachResource ==
    /\ MayTake /\ pane = "Live"
    /\ sent' = sent + 1
    /\ counter' = counter + 1
    /\ task' = StopOutput
    /\ entry' = counter
    /\ cmd' = [kind |-> "AttachResource", step |-> "Tombstone", prior |-> entry,
               pump |-> Pump("AttachResource", StreamIdFrom(ClientId), counter),
               reattach |-> FALSE]
    /\ UNCHANGED <<native, pane, attached, usedIds, paneVars, others, clientVars, closed>>
    /\ Witness

(* The consumer is registered with the actor, the prior generation is        *)
(* tombstoned under the id it was registered with, and the pump is spawned   *)
(* on the receiver subscribed above, parked until the cut is published.      *)
Replace ==
    /\ Open /\ cmd # None /\ cmd.step = "Tombstone"
    /\ IF cmd.prior = None THEN UNCHANGED clientVars
       ELSE TombstoneFrame(<<cmd.pump.stream, cmd.prior>>)
    /\ task' = [task EXCEPT ![sent] = cmd.pump]
    /\ cmd' = [cmd EXCEPT !.step = "Capture"]
    /\ UNCHANGED <<native, pane, counter, entry, attached, usedIds, paneVars, sent, others, closed>>
    /\ Witness

(* handle_attach up to capture_panes: the new pump is parked beside whatever *)
(* pump the client already has.  Which fresh id it uses makes no difference. *)
TakeAttach ==
    /\ MayTake /\ pane = "Live"
    /\ \E id \in AttachIds \ usedIds :
        /\ \A other \in AttachIds \ usedIds : id <= other
        /\ usedIds' = usedIds \cup {id}
        /\ LET pump == Pump("Attach", StreamIdFrom(id), InitialBootstrapId) IN
            /\ task' = [task EXCEPT ![sent + 1] = pump]
            /\ cmd' = [kind |-> "Attach", step |-> "Capture", prior |-> None,
                       pump |-> pump, reattach |-> attached]
    /\ sent' = sent + 1
    /\ attached' = TRUE
    /\ UNCHANGED <<native, pane, counter, entry, paneVars, others, clientVars, closed>>
    /\ Witness

(* SpawnPublication::publish: the pane exists, its pump is parked.           *)
TakeSpawn ==
    /\ MayTake /\ pane = "Absent"
    /\ pane' = "Live"
    /\ \E id \in SpawnIds :
        LET pump == Pump("Spawn", StreamIdFrom(id), InitialBootstrapId) IN
            /\ task' = [task EXCEPT ![sent + 1] = pump]
            /\ cmd' = [kind |-> "Spawn", step |-> "Capture", prior |-> None,
                       pump |-> pump, reattach |-> FALSE]
    /\ sent' = sent + 1
    /\ UNCHANGED <<native, counter, entry, attached, usedIds, paneVars, others, clientVars, closed>>
    /\ Witness

(* Mutant of CommitTasks: the replaced attachment's pumps are left running.  *)
CommitKeepsTasks == task

(* A replacement ATTACH aborts the JoinSet once every pane is captured; the  *)
(* first ATTACH of a connection aborts nothing.                              *)
CommitTasks == IF cmd.reattach THEN Without(JoinSetTasks \ {sent}) ELSE task

(* Mutant of CutAt: the pump is not told the cut.                            *)
CutNowhere(g, s) == g

(* OutputPumpStart: the generation opens at the sequence the snapshot shows. *)
CutAt(g, s) == OpenedAt(s, g.id)

(* The actor answers the capture: the cut is fixed.                          *)
Capture ==
    /\ Open /\ cmd # None /\ cmd.step = "Capture"
    /\ cmd' = [cmd EXCEPT !.step = "Begin", !.pump.gen = CutAt(@, seq)]
    /\ task' = CommitTasks
    /\ UNCHANGED <<native, pane, counter, entry, attached, usedIds, paneVars, sent, others, clientVars, closed>>
    /\ Witness

(* The capture fails: ATTACH_RESOURCE rolls its generation back and refuses, *)
(* SPAWN reaps the pane and refuses, ATTACH aborts everything and ends the   *)
(* connection.                                                               *)
CaptureFails ==
    /\ Open /\ cmd # None /\ cmd.step = "Capture"
    /\ "Capture" \in Faults
    /\ cmd' = None
    /\ \/ /\ cmd.kind = "AttachResource"
          /\ task' = StopOutput /\ entry' = None
          /\ UNCHANGED <<pane, counter, attached, closed>>
       \/ /\ cmd.kind = "Spawn"
          /\ ReapState
          /\ UNCHANGED <<counter, attached, closed>>
       \/ /\ cmd.kind = "Attach"
          /\ DetachState
          /\ closed' = TRUE
          /\ UNCHANGED pane
    /\ UNCHANGED <<native, usedIds, paneVars, sent, others, clientVars>>
    /\ Witness

SendBegin ==
    /\ Open /\ cmd # None /\ cmd.step = "Begin"
    /\ BeginFrame(<<cmd.pump.stream, cmd.pump.gen.id>>, cmd.pump.gen.cut)
    /\ cmd' = [cmd EXCEPT !.step = "Ready"]
    /\ UNCHANGED <<serverVars, paneVars, sent, others, closed>>
    /\ Witness

(* activate_native_publication: the actor hands over the output since the    *)
(* cut and a new receiver, which has none of the resyncs broadcast so far.   *)
LiveFrom(t) == IF native THEN Len(log) ELSE t.live

(* Mutant of Released: a new receiver, and no output handed over.            *)
ReleasedOnANewReceiver(t, g) ==
    [t EXCEPT !.gen = g, !.phase = "Run", !.live = LiveFrom(t), !.pos = Len(log)]

(* The gate opens: the pump reads on from where its receiver was subscribed, *)
(* or from the cut.                                                          *)
Released(t, g) == [t EXCEPT !.gen = g, !.phase = "Run", !.live = LiveFrom(t)]

(* READY is queued, the pump is released at the published cut, and the       *)
(* command is answered.                                                      *)
SendReady ==
    /\ Open /\ cmd # None /\ cmd.step = "Ready"
    /\ ReadyFrame(<<cmd.pump.stream, cmd.pump.gen.id>>)
    /\ task' = [task EXCEPT ![sent] = Released(@, cmd.pump.gen)]
    /\ cmd' = None
    /\ UNCHANGED <<native, pane, counter, entry, attached, usedIds, paneVars, sent, others, closed>>
    /\ Witness

(* handle_detach_terminal: every pump of the pair is stopped and joined, the *)
(* registration dropped, and only then OK is queued.                         *)
TakeDetachResource ==
    /\ MayTake /\ pane = "Live"
    /\ sent' = sent + 1
    /\ task' = StopOutput /\ entry' = None
    /\ UNCHANGED <<native, pane, counter, attached, usedIds, paneVars, cmd, others, clientVars, closed>>
    /\ Witness

(* detach_on_request: the JoinSet is aborted and joined first ...            *)
TakeDetach ==
    /\ MayTake
    /\ sent' = sent + 1
    /\ task' = Without(JoinSetTasks)
    /\ cmd' = [kind |-> "Detach", step |-> "Detached"]
    /\ UNCHANGED <<native, pane, counter, entry, attached, usedIds, paneVars, others, clientVars, closed>>
    /\ Witness

(* ... then DETACHED is queued and the rest given up.                        *)
FinishDetach ==
    /\ Open /\ cmd # None /\ cmd.step = "Detached"
    /\ DetachState
    /\ cmd' = None
    /\ UNCHANGED <<native, pane, usedIds, paneVars, sent, others, clientVars, closed>>
    /\ Witness

-----------------------------------------------------------------------------
(* The pane, and the pumps that forward it.                                  *)

Output ==
    /\ Open /\ pane = "Live" /\ seq < MaxOutput
    /\ log' = Append(log, [kind |-> "Live", seq |-> seq + 1])
    /\ seq' = seq + 1
    /\ UNCHANGED <<serverVars, cmd, sent, others, clientVars, closed>>
    /\ Witness

(* A resize by anybody: the resync is for every pump.                        *)
Resync ==
    /\ Open /\ pane = "Live" /\ Len(log) - seq < MaxResyncs
    /\ log' = Append(log, [kind |-> "Resync", seq |-> seq])
    /\ UNCHANGED <<seq, serverVars, cmd, sent, others, clientVars, closed>>
    /\ Witness

Reads(n) == Open /\ n \in Running(task) /\ task[n].phase = "Run" /\ task[n].pos < Len(log)
Item(n) == log[task[n].pos + 1]
Gen(n) == <<task[n].stream, task[n].gen.id>>

PumpForwards(n) ==
    /\ Reads(n) /\ Item(n).kind = "Live"
    /\ IF Forwards(task[n].gen, Item(n).seq)
       THEN /\ OutputFrame(Gen(n), Item(n).seq)
            /\ task' = [task EXCEPT ![n].pos = @ + 1,
                                    ![n].gen = NoteForwarded(@, Item(n).seq)]
       ELSE /\ task' = [task EXCEPT ![n].pos = @ + 1]
            /\ UNCHANGED clientVars
    /\ UNCHANGED <<native, pane, counter, entry, attached, usedIds, paneVars, cmd, sent, others, closed>>
    /\ Witness

(* republish_generation: the pump counts its own id on; the registration and *)
(* the client's counter keep theirs.  A native pump tombstones the           *)
(* generation it leaves and asks for a checkpoint, a synthesized one         *)
(* publishes the snapshot the resync carries.                                *)
PumpTakesResync(n) ==
    /\ Reads(n) /\ Item(n).kind = "Resync" /\ task[n].pos >= task[n].live
    /\ TakesResync(task[n].gen, [everyone |-> TRUE, only |-> {}], ResyncTarget(n, task[n].gen))
    /\ IF native THEN TombstoneFrame(Gen(n)) ELSE UNCHANGED clientVars
    /\ task' = [task EXCEPT ![n].pos = @ + 1, ![n].phase = "Begin", ![n].base = Item(n).seq,
                            ![n].gen = SetBootstrapId(@, @.id + 1)]
    /\ UNCHANGED <<native, pane, counter, entry, attached, usedIds, paneVars, cmd, sent, others, closed>>
    /\ Witness

(* The resync was broadcast before the receiver was handed over.             *)
PumpMissesResync(n) ==
    /\ Reads(n) /\ Item(n).kind = "Resync" /\ task[n].pos < task[n].live
    /\ task' = [task EXCEPT ![n].pos = @ + 1]
    /\ UNCHANGED <<native, pane, counter, entry, attached, usedIds, paneVars, cmd, sent, others,
                   clientVars, closed>>
    /\ Witness

PumpBegins(n) ==
    /\ Open /\ n \in Live /\ task[n].phase = "Begin"
    /\ LET base == IF native THEN seq ELSE task[n].base IN
        /\ BeginFrame(Gen(n), base)
        /\ task' = [task EXCEPT ![n].phase = "Ready", ![n].base = base]
    /\ UNCHANGED <<native, pane, counter, entry, attached, usedIds, paneVars, cmd, sent, others, closed>>
    /\ Witness

PumpReadies(n) ==
    /\ Open /\ n \in Live /\ task[n].phase = "Ready"
    /\ ReadyFrame(Gen(n))
    /\ task' = [task EXCEPT ![n].phase = "Run", ![n].live = LiveFrom(task[n]),
                            ![n].gen = RepublishedAt(@, task[n].base)]
    /\ UNCHANGED <<native, pane, counter, entry, attached, usedIds, paneVars, cmd, sent, others, closed>>
    /\ Witness

(* PumpFault::GenerationLost, or abandon_connection: the generation cannot   *)
(* be replaced.  The pump of a SPAWN reaps the pane, whoever else is         *)
(* subscribed; the others only detach the client.  Both end the connection.  *)
PumpLost(n) ==
    /\ Open /\ n \in Running(task) /\ "Lost" \in Faults
    /\ closed' = TRUE
    /\ \/ /\ task[n].kind = "Spawn"
          /\ ReapState
          /\ UNCHANGED <<counter, attached>>
       \/ /\ task[n].kind # "Spawn"
          /\ DetachState
          /\ UNCHANGED pane
    /\ UNCHANGED <<native, usedIds, paneVars, cmd, sent, others, clientVars>>
    /\ Witness

(* Another connection attaches the pane; it matters only while the pump that *)
(* may reap the pane runs.                                                   *)
OtherAttaches ==
    /\ Open /\ ~others /\ \E n \in Live : task[n].kind = "Spawn"
    /\ others' = TRUE
    /\ UNCHANGED <<serverVars, paneVars, cmd, sent, clientVars, closed>>
    /\ Witness

CommandStep == Replace \/ Capture \/ SendBegin \/ SendReady \/ FinishDetach

PumpStep(n) ==
    PumpForwards(n) \/ PumpTakesResync(n) \/ PumpMissesResync(n) \/ PumpBegins(n) \/ PumpReadies(n)

Next ==
    \/ TakeAttachResource \/ TakeAttach \/ TakeSpawn \/ TakeDetachResource \/ TakeDetach
    \/ CommandStep \/ CaptureFails
    \/ Output \/ Resync \/ OtherAttaches
    \/ \E n \in Commands : PumpStep(n) \/ PumpLost(n)

Spec == Init /\ [][Next]_vars

(* The read loop awaits its command and the executor polls every task that   *)
(* can go on.                                                                *)
Fairness ==
    /\ WF_vars(CommandStep)
    /\ \A n \in Commands : WF_vars(PumpStep(n))

FairSpec == Spec /\ Fairness

-----------------------------------------------------------------------------
(* Properties.                                                               *)

Streams == {StreamIdFrom(raw) : raw \in AttachIds \cup SpawnIds \cup {ClientId}}
BootIds == 1 .. MaxCommands + MaxResyncs + 1
Gens == Streams \X BootIds
Tasks == PumpTask(Streams, Seqs, BootIds, 0 .. MaxOutput + MaxResyncs)

(* Every variable keeps its type.                                            *)
TypeOK ==
    /\ pane \in {"Absent", "Live", "Reaped"}
    /\ log \in Seq([kind: {"Live", "Resync"}, seq: Seqs]) /\ seq \in Seqs
    /\ counter \in BootIds /\ entry \in BootIds \cup {None}
    /\ task \in [Commands -> Tasks \cup {None}]
    /\ cmd \in Command(Tasks, BootIds) \cup {None}
    /\ sent \in 0 .. MaxCommands /\ usedIds \subseteq AttachIds
    /\ native \in BOOLEAN /\ attached \in BOOLEAN /\ others \in BOOLEAN /\ closed \in BOOLEAN
    /\ quiet \in BOOLEAN /\ twoSpeakers \in BOOLEAN /\ rewound \in BOOLEAN
    /\ mirror \in Mirror(Seqs, Gens \cup {None}, {None})
    /\ staging \subseteq [gen: Gens, base: 0 .. MaxOutput] /\ \A a, b \in staging : a = b
    /\ begins \in Seq(Gens)

(* "Monotonic, so a tombstoned generation's id is never reused"              *)
(* (state/resource_table.rs:157): a BEGIN names a generation no BEGIN named  *)
(* before.                                                                   *)
GenerationsAreFresh == IsInjective(begins)

(* However commands, pumps, output and resyncs interleave, the client's      *)
(* kernel refuses a frame only when an id was reused or two pumps of the     *)
(* pane spoke at once: no output is lost, repeated or sent under a           *)
(* generation already replaced across a spawn, an attach or a re-attach.     *)
OnlyReuseOrTwoSpeakersBreakTheReplica == mirror.error => ~GenerationsAreFresh \/ twoSpeakers

(* Two pumps of one client on one pane are unparked at once only because an  *)
(* ATTACH, which stops the pumps of ATTACH and SPAWN when it replaces an     *)
(* attachment, was answered beside an older pump it does not stop.           *)
OnlyAttachLeavesAPump ==
    \A m, n \in Running(task) : m < n => task[n].kind = "Attach" /\ task[m].kind # "Attach"

(* Once DETACH_RESOURCE or DETACH is answered, nothing of the pane reaches   *)
(* the client before its next command: no pump outlives the answer, whatever *)
(* command started it and wherever it was awaiting.                          *)
DetachIsAFence == [][quiet /\ quiet' => UNCHANGED <<mirror, staging>>]_vars

(* A client whose one pump runs is shown everything the pane has output,     *)
(* again and again: neither the handoff from the receiver to the published   *)
(* cut nor a replacement leaves a chunk behind.                              *)
AttachCatchesUp ==
    []<>(~Open \/ Live = {} \/ twoSpeakers \/ mirror.next = seq + 1)

(* What the client is shown, as PaneView sees it: nothing is promised of a   *)
(* stream that reused an id or had two speakers, or of a synthesized one     *)
(* that republished a resync its receiver held from before the cut.          *)
View == INSTANCE PaneView WITH
    Lost <- None, produced <- seq,
    shown <- IF ~GenerationsAreFresh \/ twoSpeakers \/ rewound THEN None ELSE mirror.content

(* Getting, replacing and giving up a stream implements PaneView: the screen *)
(* never goes back behind what it has shown, whichever command took the next *)
(* cut and whatever was queued before it, nor ahead of the pane.             *)
ShowsThePane == View!VSpec

(* A screen is replaced by a later one: no pump publishes a resync that is   *)
(* older than the cut it was released at.                                    *)
ScreenNeverGoesBack == ~rewound

(* "A staged and a published pump may coexist until aggregate commit"        *)
(* (state/resource_table.rs:152): two unparked pumps never.                  *)
OnePumpSpeaks == ~twoSpeakers

(* "A SPAWN_RESOURCE pump owns the pane it feeds: nothing else is subscribed *)
(* yet, so a lost generation reaps the terminal" (runtime/attach.rs:2420).   *)
SpawnPumpOwnsItsPane == pane = "Reaped" => ~others
=============================================================================
