-------------------------- MODULE AttachStreamsInv --------------------------
(* The inductive strengthening of what AttachStreams promises: the pane's    *)
(* broadcast, the table of pumps against the command being handled, which    *)
(* generations have been begun, and, as long as no id was reused and one     *)
(* task speaks, where that task stands against the client's replica.  State  *)
(* predicates only.                                                          *)
EXTENDS AttachStreams

-----------------------------------------------------------------------------
(* The broadcast.                                                            *)

\* The output sequence as of position i of the broadcast.
At(i) == IF i = 0 THEN 0 ELSE log[i].seq

LogOK ==
    /\ seq = At(Len(log)) /\ seq <= MaxOutput /\ Len(log) <= seq + MaxResyncs
    /\ \A i \in 1 .. Len(log) : log[i].seq = At(i - 1) + (IF log[i].kind = "Live" THEN 1 ELSE 0)
    /\ \A i, j \in 0 .. Len(log) : i <= j => At(i) <= At(j) /\ i + At(j) <= j + At(i)

-----------------------------------------------------------------------------
(* The table of pumps, and the command being handled.                        *)

Building == cmd # None /\ cmd.step \in {"Capture", "Begin", "Ready"}

\* Only the command being handled has a parked pump; what it will release is
\* the pump it started.
TableOK ==
    /\ \A n \in Live :
        /\ n <= sent
        /\ task[n].phase = "Parked" => Building /\ n = sent
        /\ task[n].kind = "Attach" => attached
    /\ closed => task = NoTasks
    /\ pane = "Absent" => task = NoTasks /\ (cmd = None \/ cmd.kind = "Detach")
    /\ quiet => task = NoTasks /\ cmd = None

\* An ATTACH_RESOURCE and a SPAWN have no pump beside their own, an ATTACH
\* none of another ATTACH once it has its cut.
CommandOK ==
    cmd # None /\ ~closed =>
        /\ sent > 0
        /\ cmd.step = "Tombstone" => /\ cmd.kind = "AttachResource" /\ task = NoTasks
                                     /\ cmd.pump.kind = cmd.kind /\ cmd.pump.phase = "Parked"
        /\ cmd.kind \in {"AttachResource", "Spawn"} => Live \subseteq {sent}
        /\ cmd.kind = "Attach" /\ (cmd.step # "Capture" \/ ~cmd.reattach) =>
            \A n \in Live : n # sent => task[n].kind # "Attach"
        /\ Building =>
            /\ task[sent] # None /\ task[sent].phase = "Parked"
            /\ task[sent].kind = cmd.kind /\ task[sent].stream = cmd.pump.stream
            /\ task[sent].pos = cmd.pump.pos

-----------------------------------------------------------------------------
(* Identifiers.                                                              *)

ClientStream == StreamIdFrom(ClientId)
CommandGen == <<cmd.pump.stream, cmd.pump.gen.id>>
Begun == Range(begins)

\* A pump has counted on once for each resync it has taken.
CountOK ==
    /\ counter <= sent + 1
    /\ entry # None => entry <= sent
    /\ cmd # None /\ cmd.kind # "Detach" => /\ cmd.pump.gen.id <= sent
                                            /\ cmd.prior # None => cmd.prior <= sent
    /\ \A n \in Live : task[n].gen.id + At(task[n].pos) <= sent + task[n].pos

\* Nothing is shown, staged, retired or registered that was not begun.
BegunOK ==
    /\ mirror.published \in Begun \cup {None} /\ mirror.retired \subseteq Begun \cup {None}
    /\ \A st \in staging : st.gen \in Begun
    /\ \A n \in Live : task[n].phase \in {"Run", "Ready"} => Gen(n) \in Begun
    /\ entry # None /\ (cmd = None \/ cmd.kind # "AttachResource") => <<ClientStream, entry>> \in Begun
    /\ cmd # None /\ cmd.kind = "AttachResource" =>
        /\ cmd.pump.stream = ClientStream
        /\ entry = None \/ entry = cmd.pump.gen.id
        /\ cmd.step = "Tombstone" /\ cmd.prior # None => <<ClientStream, cmd.prior>> \in Begun
    /\ cmd # None /\ cmd.step = "Ready" => CommandGen \in Begun

-----------------------------------------------------------------------------
(* Where each pump stands.                                                   *)

\* What a pump has forwarded is what its receiver has passed, or its cut.
PumpOK(t) ==
    /\ t.pos <= Len(log) /\ t.gen.active /\ ~t.gen.gap
    /\ t.phase = "Run" => /\ t.gen.cut <= seq
                          /\ t.gen.last = IF At(t.pos) > t.gen.cut THEN At(t.pos) ELSE t.gen.cut
    /\ t.phase = "Begin" => t.base = At(t.pos)
    /\ t.phase = "Ready" => At(t.pos) <= t.base /\ t.base <= seq

PositionOK ==
    /\ \A n \in Live : PumpOK(task[n])
    /\ cmd # None /\ cmd.kind # "Detach" =>
        /\ cmd.pump.pos <= Len(log) /\ cmd.pump.gen = OpenedAt(cmd.pump.gen.cut, cmd.pump.gen.id)
        /\ cmd.step \in {"Begin", "Ready"} =>
            At(cmd.pump.pos) <= cmd.pump.gen.cut /\ cmd.pump.gen.cut <= seq

SpeakersOK == ~twoSpeakers => \A a, b \in Speakers(task, cmd, sent) : a = b

-----------------------------------------------------------------------------
(* The replica, against whoever speaks.                                      *)

Sound == GenerationsAreFresh /\ ~twoSpeakers

Staged(g, base) == staging = {[gen |-> g, base |-> base]} /\ g \notin mirror.retired \cup {mirror.published}

ReplicaOK ==
    /\ ~mirror.error
    /\ mirror.published # None => mirror.next = mirror.content + 1
    /\ mirror.content <= seq

SpeakerOK(n) ==
    LET t == task[n] IN
    /\ t.phase = "Run" => /\ mirror.published = Gen(n) /\ Gen(n) \notin mirror.retired
                          /\ mirror.content = t.gen.last
    /\ t.phase = "Ready" => Staged(Gen(n), t.base)
    /\ t.phase = "Ready" \/ (t.phase = "Begin" /\ ~native) => rewound \/ mirror.content <= t.base

CommandSpeaksOK ==
    /\ cmd # None /\ cmd.step = "Ready" => Staged(CommandGen, cmd.pump.gen.cut)
    /\ cmd # None /\ cmd.step \in {"Begin", "Ready"} /\ Running(task) = {} =>
            mirror.content <= cmd.pump.gen.cut

StreamOK == Sound => ReplicaOK /\ (\A n \in Running(task) : SpeakerOK(n)) /\ (closed \/ CommandSpeaksOK)

Inv ==
    /\ TypeOK
    /\ LogOK
    /\ TableOK /\ CommandOK /\ OnlyAttachLeavesAPump
    /\ CountOK /\ BegunOK
    /\ PositionOK /\ SpeakersOK
    /\ StreamOK
=============================================================================
