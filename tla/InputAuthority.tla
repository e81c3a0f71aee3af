--------------------------- MODULE InputAuthority ---------------------------
(* Who may type into a resource: the subscriber lists and the exclusive      *)
(* input leases of ServerState, and the two gates every input passes.        *)
(*                                                                           *)
(* Source: crates/phux-server/src/state/{lease_table,leases,resource_table,  *)
(* client}.rs and the gates in runtime/commands.rs.  ServerState sits behind *)
(* one mutex that is never held across an await, so each operation here is   *)
(* one step; the input-lane thread takes the same mutex for its gates.       *)
EXTENDS Integers, FiniteSets

CONSTANTS
    Clients,        \* connected consumers
    Resources,      \* resource ids this server has registered
    AgentSessions,  \* the resources that are not Terminals
    NoOne           \* the lease of an Open pane

ASSUME AuthorityAssumption ==
    /\ AgentSessions \subseteq Resources
    /\ NoOne \notin Clients

VARIABLES
    live,           \* the resources whose handle is still registered
    subscribers,    \* resource -> clients attached to it
    holder          \* resource -> the client holding its input lease

authorityVars == <<live, subscribers, holder>>

AuthorityTypeOK ==
    /\ live \subseteq Resources
    /\ subscribers \in [Resources -> SUBSET Clients]
    /\ holder \in [Resources -> Clients \cup {NoOne}]

AuthorityInit ==
    /\ live = Resources
    /\ subscribers = [r \in Resources |-> {}]
    /\ holder = [r \in Resources |-> NoOne]

\* LeaseTable::blocked.
InputBlocked(c, r) == holder[r] \notin {NoOne, c}

\* with_route_input_destination: attach-free input answers only to the lease.
RouteGate(c, r) ==
    IF r \notin live THEN "TerminalNotFound"
    ELSE IF InputBlocked(c, r) THEN "InputLeaseHeld"
    ELSE IF r \in AgentSessions THEN "WrongResourceKind"
    ELSE "Pass"

\* with_attached_input_destination: attached input must be subscribed too.
AttachedGate(c, r) ==
    IF r \notin live THEN "Dropped"
    ELSE IF c \notin subscribers[r] THEN "Dropped"
    ELSE IF InputBlocked(c, r) THEN "Dropped"
    ELSE IF r \in AgentSessions THEN "WrongResourceKind"
    ELSE "Pass"

-----------------------------------------------------------------------------
\* subscribe_terminal, from ATTACH, ATTACH_RESOURCE or the spawner.
Subscribe(c, r) ==
    /\ r \in live
    /\ c \notin subscribers[r]
    /\ subscribers' = [subscribers EXCEPT ![r] = @ \cup {c}]
    /\ UNCHANGED <<live, holder>>

\* unsubscribe_terminal, from DETACH_RESOURCE.
Unsubscribe(c, r) ==
    /\ c \in subscribers[r]
    /\ subscribers' = [subscribers EXCEPT ![r] = @ \ {c}]
    /\ UNCHANGED <<live, holder>>

\* handle_acquire_input: a cooperative acquire yields to another holder, a
\* seize takes the lease from it.
Acquires(c, r, mode) ==
    /\ r \in live \ AgentSessions
    /\ mode = "Cooperative" => ~InputBlocked(c, r)

AcquireInput(c, r, mode) ==
    /\ Acquires(c, r, mode)
    /\ holder' = [holder EXCEPT ![r] = c]
    /\ UNCHANGED <<live, subscribers>>

\* handle_release_input: only the holder's own release frees the pane.
ReleaseInput(c, r) ==
    /\ r \in live \ AgentSessions
    /\ holder[r] = c
    /\ holder' = [holder EXCEPT ![r] = NoOne]
    /\ UNCHANGED <<live, subscribers>>

\* ServerState::detach: the client's leases and subscriptions go in one step.
Detach(c) ==
    /\ holder' = [r \in Resources |-> IF holder[r] = c THEN NoOne ELSE holder[r]]
    /\ subscribers' = [r \in Resources |-> subscribers[r] \ {c}]
    /\ UNCHANGED live

\* reap_terminal / forget_resource: the handle and the subscriber list go; the
\* lease entry of a dead pane stays in the map until its holder detaches.
Reap(r) ==
    /\ r \in live
    /\ live' = live \ {r}
    /\ subscribers' = [subscribers EXCEPT ![r] = {}]
    /\ UNCHANGED holder
=============================================================================
