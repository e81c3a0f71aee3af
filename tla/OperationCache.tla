--------------------------- MODULE OperationCache ---------------------------
(* The dedupe record behind APPLY_INPUT: which operation ids the server has  *)
(* already taken, with what payload, and how each of them ended.             *)
(*                                                                           *)
(* Source: crates/phux-server/src/runtime/input_lane/acknowledged.rs         *)
(* (OperationCache).  One mutex guards the record; the lane thread binds ids *)
(* under it and the completion waiter writes final results under it, so each *)
(* operation below is atomic.  Instants are integers of one monotonic clock, *)
(* in a unit far coarser than the five-second completion wait.               *)
EXTENDS Integers, Sequences, FiniteSets

CONSTANTS
    Operations,     \* 128-bit client-minted operation ids
    Digests,        \* payload digests: what an operation id is bound to
    NoEntry,        \* "entries holds no record for this id"
    Retention,      \* DEDUPE_RETENTION, in clock units
    CacheCapacity   \* DEDUPE_MAX_ENTRIES

VARIABLES
    entries,        \* operation id -> its record, or NoEntry
    expiry          \* queue of (insertion instant, id), oldest first

cacheVars == <<entries, expiry>>

\* Results a record can hold; "None" is the unresolved record.
FinalResults == {"Ok", "InputDeliveryUnknown", "CanonicalLimitExceeded", "InputNotWritten"}

Entry == [digest : Digests, result : FinalResults \cup {"None"}, inserted : Nat]
ExpiryPair == [at : Nat, op : Operations]

ASSUME CacheAssumption ==
    /\ Retention \in Nat \ {0}
    /\ CacheCapacity \in Nat \ {0}
    /\ IsFiniteSet(Operations)
    /\ NoEntry \notin Entry

CacheTypeOK ==
    /\ entries \in [Operations -> Entry \cup {NoEntry}]
    /\ expiry \in Seq(ExpiryPair)

CacheInit ==
    /\ entries = [o \in Operations |-> NoEntry]
    /\ expiry = << >>

Recorded(e) == {o \in Operations : e[o] # NoEntry}

\* prune_expired pops the queue's front while it is a full retention old: n is
\* how many it pops when called at instant t.
PrunesTo(n, t) ==
    /\ \A i \in 1..n : t - expiry[i].at >= Retention
    /\ n < Len(expiry) => t - expiry[n + 1].at < Retention

\* A popped pair removes the record it was queued for, and only that one: a
\* record inserted at another instant under the same id is kept.
Pruned(n) ==
    [o \in Operations |->
        IF entries[o] # NoEntry /\ \E i \in 1..n : expiry[i] = [at |-> entries[o].inserted, op |-> o]
        THEN NoEntry ELSE entries[o]]

\* What bind_at answers for id o and digest d once e is the pruned record.
CacheBinding(e, o, d) ==
    IF e[o] # NoEntry
    THEN IF e[o].digest # d THEN "Conflict"
         ELSE IF e[o].result = "None" THEN "Pending" ELSE "Final"
    ELSE IF Cardinality(Recorded(e)) >= CacheCapacity THEN "Full" ELSE "New"

\* Mutant of BindAt: a new record is not queued for expiry.
BindAtUnqueued(o, d, t, binding) ==
    \E n \in 0..Len(expiry) :
        /\ PrunesTo(n, t)
        /\ binding = CacheBinding(Pruned(n), o, d)
        /\ entries' = IF binding = "New"
                      THEN [Pruned(n) EXCEPT ![o] = [digest |-> d, result |-> "None", inserted |-> t]]
                      ELSE Pruned(n)
        /\ expiry' = SubSeq(expiry, n + 1, Len(expiry))

\* bind_at: prune, and record a new id unresolved.  `binding` is the answer.
BindAt(o, d, t, binding) ==
    \E n \in 0..Len(expiry) :
        LET rest == SubSeq(expiry, n + 1, Len(expiry))
        IN  /\ PrunesTo(n, t)
            /\ binding = CacheBinding(Pruned(n), o, d)
            /\ entries' = IF binding = "New"
                          THEN [Pruned(n) EXCEPT ![o] = [digest |-> d, result |-> "None", inserted |-> t]]
                          ELSE Pruned(n)
            /\ expiry' = IF binding = "New" THEN Append(rest, [at |-> t, op |-> o]) ELSE rest

\* Mutant of SetFinal: the result is not recorded.
SetFinalLost(o, r) == UNCHANGED cacheVars

\* set_final: a record pruned in the meantime is not brought back.
SetFinal(o, r) ==
    /\ entries' = IF entries[o] = NoEntry THEN entries ELSE [entries EXCEPT ![o].result = r]
    /\ UNCHANGED expiry

(* Every record waits in the expiry queue under its own insertion instant,   *)
(* so prune_expired will drop it in time: a record that lost its queue pair  *)
(* would pin its id, and a slot of the bounded cache, for the server's life. *)
\* OperationCache::prune_expired / bind_at keep the two structures in step.
EveryRecordExpires ==
    /\ Cardinality(Recorded(entries)) =< CacheCapacity
    /\ \A o \in Recorded(entries) :
          \E i \in 1..Len(expiry) : expiry[i] = [at |-> entries[o].inserted, op |-> o]
=============================================================================
