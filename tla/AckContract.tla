----------------------------- MODULE AckContract -----------------------------
(* What acknowledged input promises its user, with no server, no journal and *)
(* no network in sight: a submitted batch reaches its pane once, and again   *)
(* only when it is late; "delivered" is said only of a batch that is in the  *)
(* pane in full.                                                             *)
(*                                                                           *)
(* "Unknown" and "Refused" promise nothing here.  The bytes may land after   *)
(* either of them: see RefusedMeansNothingWritten in AckSession.             *)
CONSTANT Operations

VARIABLES
    verdict,    \* operation -> what its user has been told
    written,    \* operation -> what its pane has received
    late        \* operations the retry horizon overtook under way

CInit ==
    /\ verdict = [o \in Operations |-> "New"]
    /\ written = [o \in Operations |-> "Nothing"]
    /\ late = {}

\* The reports a batch may get, given what the pane has received of it.
MayBecome(o, v) ==
    \/ verdict[o] = "New" /\ v = "Queued"
    \/ verdict[o] = "Queued" /\ v \in {"Unknown", "Refused"}
    \/ verdict[o] = "Queued" /\ v = "Delivered" /\ written[o] \in {"Whole", "Twice"}

\* One call of the journal may report several batches.
Judge ==
    /\ \A o \in Operations : verdict'[o] = verdict[o] \/ MayBecome(o, verdict'[o])
    /\ UNCHANGED <<written, late>>

Write(o) ==
    /\ verdict[o] # "New" /\ written[o] = "Nothing"
    /\ \E w \in {"Part", "Whole"} : written' = [written EXCEPT ![o] = w]
    /\ UNCHANGED <<verdict, late>>

\* A batch made a horizon ago reaches the server.
Overtake(o) ==
    /\ verdict[o] # "New"
    /\ late' = late \cup {o}
    /\ UNCHANGED <<verdict, written>>

WriteAgain(o) ==
    /\ o \in late /\ written[o] # "Nothing"
    /\ written' = [written EXCEPT ![o] = "Twice"]
    /\ UNCHANGED <<verdict, late>>

CNext == Judge \/ \E o \in Operations : Write(o) \/ Overtake(o) \/ WriteAgain(o)

CSpec == CInit /\ [][CNext]_<<verdict, written, late>>
=============================================================================
