------------------------ MODULE OperationCacheProofs ------------------------
(* Lemmas about the dedupe record's two operations: what they leave in it,   *)
(* and that no record is ever left without its pair in the expiry queue.     *)
EXTENDS OperationCache, FiniteSetTheorems, SequenceTheorems, TLAPS

(* Pruning drops records and changes none.                                   *)
\* OperationCache::prune_expired.
LEMMA PrunedTyped ==
    ASSUME CacheTypeOK, NEW n \in 0..Len(expiry)
    PROVE  /\ Pruned(n) \in [Operations -> Entry \cup {NoEntry}]
           /\ \A o \in Operations : Pruned(n)[o] # NoEntry => Pruned(n)[o] = entries[o]
  BY DEF CacheTypeOK, Pruned

(* bind_at leaves a well-formed record, and what it answers describes it.    *)
\* OperationCache::bind_at.
LEMMA BindTyped ==
    ASSUME CacheTypeOK, NEW o \in Operations, NEW d \in Digests, NEW t \in Nat, NEW b,
           BindAt(o, d, t, b)
    PROVE  /\ CacheTypeOK'
           /\ b \in {"New", "Pending", "Final"} => entries'[o] \in Entry
           /\ b = "Final" => entries'[o].result \in FinalResults
<1>1. PICK n \in 0..Len(expiry) :
        LET rest == SubSeq(expiry, n + 1, Len(expiry))
        IN  /\ PrunesTo(n, t)
            /\ b = CacheBinding(Pruned(n), o, d)
            /\ entries' = IF b = "New"
                          THEN [Pruned(n) EXCEPT ![o] = [digest |-> d, result |-> "None", inserted |-> t]]
                          ELSE Pruned(n)
            /\ expiry' = IF b = "New" THEN Append(rest, [at |-> t, op |-> o]) ELSE rest
  BY DEF BindAt
<1>2. Pruned(n) \in [Operations -> Entry \cup {NoEntry}]
  BY PrunedTyped
<1>3. [digest |-> d, result |-> "None", inserted |-> t] \in Entry
  BY DEF Entry
<1>4. entries' \in [Operations -> Entry \cup {NoEntry}]
  BY <1>1, <1>2, <1>3
<1>5. SubSeq(expiry, n + 1, Len(expiry)) \in Seq(ExpiryPair)
  <2>1. \A i \in (n + 1)..Len(expiry) : expiry[i] \in ExpiryPair
    BY DEF CacheTypeOK
  <2> QED
    BY <2>1, SubSeqProperties
<1>6. expiry' \in Seq(ExpiryPair)
  <2>1. [at |-> t, op |-> o] \in ExpiryPair
    BY DEF ExpiryPair
  <2> QED
    BY <1>1, <1>5, <2>1, AppendProperties
<1>7. /\ b \in {"Pending", "Final"} => Pruned(n)[o] # NoEntry
      /\ b = "Final" => Pruned(n)[o].result # "None"
  <2>1. b = CacheBinding(Pruned(n), o, d)
    BY <1>1
  <2> QED
    BY <2>1 DEF CacheBinding
<1>8. b = "New" => entries'[o] \in Entry
  BY <1>1, <1>2, <1>3
<1>9. b \in {"Pending", "Final"} => entries'[o] = Pruned(n)[o] /\ entries'[o] \in Entry
  BY <1>1, <1>2, <1>7
<1>10. b = "Final" => entries'[o].result \in FinalResults
  BY <1>7, <1>9 DEF Entry
<1> QED
  BY <1>4, <1>6, <1>8, <1>9, <1>10 DEF CacheTypeOK

(* set_final keeps the record well-formed.                                   *)
\* OperationCache::set_final.
LEMMA SetFinalTyped ==
    ASSUME CacheTypeOK, NEW o \in Operations, NEW r \in FinalResults, SetFinal(o, r)
    PROVE  CacheTypeOK'
<1>1. CASE entries[o] = NoEntry
  BY <1>1 DEF CacheTypeOK, SetFinal
<1>2. CASE entries[o] # NoEntry
  <2>1. entries[o] \in Entry
    BY <1>2 DEF CacheTypeOK
  <2>2. [entries[o] EXCEPT !.result = r] \in Entry
    BY <2>1 DEF Entry
  <2>3. entries' = [entries EXCEPT ![o] = [entries[o] EXCEPT !.result = r]]
    BY <1>2 DEF SetFinal
  <2> QED
    BY <2>2, <2>3 DEF CacheTypeOK, SetFinal
<1> QED
  BY <1>1, <1>2

(* What pruning keeps is still in the queue, n places further to the front.  *)
\* prune_expired removes the record of every pair it pops.
LEMMA PrunedStaysQueued ==
    ASSUME CacheTypeOK, EveryRecordExpires, NEW n \in 0..Len(expiry),
           NEW o \in Operations, Pruned(n)[o] # NoEntry
    PROVE  \E i \in 1..(Len(expiry) - n) :
              SubSeq(expiry, n + 1, Len(expiry))[i] = [at |-> Pruned(n)[o].inserted, op |-> o]
<1>1. Pruned(n)[o] = entries[o] /\ o \in Recorded(entries)
  BY PrunedTyped DEF Recorded
<1>2. PICK i \in 1..Len(expiry) : expiry[i] = [at |-> entries[o].inserted, op |-> o]
  BY <1>1 DEF EveryRecordExpires
<1>3. i > n
  <2>1. SUFFICES ASSUME i =< n PROVE FALSE
    OBVIOUS
  <2>2. i \in 1..n
    BY <2>1
  <2>3. Pruned(n)[o] = NoEntry
    BY <1>1, <1>2, <2>2 DEF Pruned, Recorded
  <2> QED
    BY <2>3
<1>4. \A j \in (n + 1)..Len(expiry) : expiry[j] \in ExpiryPair
  BY DEF CacheTypeOK
<1>5. SubSeq(expiry, n + 1, Len(expiry))[i - n] = expiry[i]
  BY <1>3, <1>4, SubSeqProperties
<1> QED
  BY <1>1, <1>2, <1>3, <1>5

(* bind_at never leaves a record without its pair, nor more than it may hold.*)
\* OperationCache::bind_at.
LEMMA BindKeepsExpiry ==
    ASSUME CacheTypeOK, EveryRecordExpires, NEW o \in Operations, NEW d \in Digests, NEW t \in Nat,
           NEW b, BindAt(o, d, t, b)
    PROVE  EveryRecordExpires'
<1>1. PICK n \in 0..Len(expiry) :
        LET rest == SubSeq(expiry, n + 1, Len(expiry))
        IN  /\ PrunesTo(n, t)
            /\ b = CacheBinding(Pruned(n), o, d)
            /\ entries' = IF b = "New"
                          THEN [Pruned(n) EXCEPT ![o] = [digest |-> d, result |-> "None", inserted |-> t]]
                          ELSE Pruned(n)
            /\ expiry' = IF b = "New" THEN Append(rest, [at |-> t, op |-> o]) ELSE rest
  BY DEF BindAt
<1> DEFINE rest == SubSeq(expiry, n + 1, Len(expiry))
           fresh == [digest |-> d, result |-> "None", inserted |-> t]
<1>2. Pruned(n) \in [Operations -> Entry \cup {NoEntry}]
  BY PrunedTyped
<1>3. rest \in Seq(ExpiryPair) /\ Len(rest) = Len(expiry) - n
  <2>1. \A i \in (n + 1)..Len(expiry) : expiry[i] \in ExpiryPair
    BY DEF CacheTypeOK
  <2> QED
    BY <2>1, SubSeqProperties
<1>4. \A p \in Operations : Pruned(n)[p] # NoEntry =>
         \E i \in 1..Len(rest) : rest[i] = [at |-> Pruned(n)[p].inserted, op |-> p]
  BY <1>3, PrunedStaysQueued
<1>5. /\ Recorded(Pruned(n)) \subseteq Recorded(entries)
      /\ IsFiniteSet(Recorded(Pruned(n))) /\ IsFiniteSet(Recorded(entries))
  BY PrunedTyped, CacheAssumption, FS_Subset DEF Recorded
<1>6. Cardinality(Recorded(Pruned(n))) =< CacheCapacity
  <2>1. Cardinality(Recorded(Pruned(n))) =< Cardinality(Recorded(entries))
    BY <1>5, FS_Subset
  <2>2. Cardinality(Recorded(Pruned(n))) \in Nat /\ Cardinality(Recorded(entries)) \in Nat
    BY <1>5, FS_CardinalityType
  <2> QED
    BY <2>1, <2>2, CacheAssumption DEF EveryRecordExpires
<1> HIDE DEF rest, fresh
<1>7. CASE b # "New"
  <2>1. entries' = Pruned(n) /\ expiry' = rest
    BY <1>1, <1>7 DEF rest
  <2> QED
    BY <2>1, <1>4, <1>6 DEF EveryRecordExpires, Recorded
<1>8. CASE b = "New"
  <2>1. entries' = [Pruned(n) EXCEPT ![o] = fresh] /\ expiry' = Append(rest, [at |-> t, op |-> o])
    BY <1>1, <1>8 DEF rest, fresh
  <2>2. [at |-> t, op |-> o] \in ExpiryPair
    BY DEF ExpiryPair
  <2>3. /\ Len(expiry') = Len(rest) + 1
        /\ \A i \in 1..Len(rest) : expiry'[i] = rest[i]
        /\ expiry'[Len(rest) + 1] = [at |-> t, op |-> o]
    BY <2>1, <2>2, <1>3, AppendProperties
  <2>4. \A p \in Operations : entries'[p] = IF p = o THEN fresh ELSE Pruned(n)[p]
    BY <2>1, <1>2
  <2>5. ASSUME NEW p \in Operations, entries'[p] # NoEntry
        PROVE  \E i \in 1..Len(expiry') : expiry'[i] = [at |-> entries'[p].inserted, op |-> p]
    <3>1. CASE p = o
      <4>1. entries'[p].inserted = t
        BY <2>4, <3>1 DEF fresh
      <4> QED
        BY <4>1, <2>3, <1>3, <3>1
    <3>2. CASE p # o
      <4>1. entries'[p] = Pruned(n)[p]
        BY <2>4, <3>2
      <4>2. PICK i \in 1..Len(rest) : rest[i] = [at |-> Pruned(n)[p].inserted, op |-> p]
        BY <4>1, <2>5, <1>4
      <4> QED
        BY <4>1, <4>2, <2>3, <1>3
    <3> QED
      BY <3>1, <3>2
  <2>6. Recorded(entries') \subseteq Recorded(Pruned(n)) \cup {o}
    BY <2>4 DEF Recorded
  <2>7. Cardinality(Recorded(Pruned(n))) < CacheCapacity
    <3>1. b = CacheBinding(Pruned(n), o, d)
      BY <1>1
    <3>2. ~(Cardinality(Recorded(Pruned(n))) >= CacheCapacity)
      BY <3>1, <1>8 DEF CacheBinding
    <3> QED
      BY <3>2, <1>5, FS_CardinalityType, CacheAssumption
  <2>8. Cardinality(Recorded(entries')) =< CacheCapacity
    <3>1. /\ IsFiniteSet(Recorded(Pruned(n)) \cup {o})
          /\ Cardinality(Recorded(Pruned(n)) \cup {o}) =< Cardinality(Recorded(Pruned(n))) + 1
      <4> DEFINE S == Recorded(Pruned(n))
      <4>1. IsFiniteSet(S)
        BY <1>5
      <4> HIDE DEF S
      <4>2. /\ IsFiniteSet(S \cup {o}) /\ Cardinality(S) \in Nat
            /\ Cardinality(S \cup {o}) = IF o \in S THEN Cardinality(S) ELSE Cardinality(S) + 1
        BY <4>1, FS_AddElement, FS_CardinalityType
      <4>3. Cardinality(S \cup {o}) =< Cardinality(S) + 1
        BY <4>2
      <4> QED
        BY <4>2, <4>3 DEF S
    <3>2. /\ Cardinality(Recorded(entries')) =< Cardinality(Recorded(Pruned(n)) \cup {o})
          /\ IsFiniteSet(Recorded(entries'))
      BY <3>1, <2>6, FS_Subset
    <3> QED
      BY <3>1, <3>2, <2>7, <1>5, FS_CardinalityType, CacheAssumption
  <2> QED
    BY <2>5, <2>8 DEF EveryRecordExpires, Recorded
<1> QED
  BY <1>7, <1>8

(* set_final changes a result, which neither structure orders by.            *)
\* OperationCache::set_final.
LEMMA SetFinalKeepsExpiry ==
    ASSUME CacheTypeOK, EveryRecordExpires, NEW o \in Operations, NEW r \in FinalResults, SetFinal(o, r)
    PROVE  EveryRecordExpires'
<1>1. CASE entries[o] = NoEntry
  BY <1>1 DEF SetFinal, EveryRecordExpires, Recorded
<1>2. CASE entries[o] # NoEntry
  <2>1. entries[o] \in Entry
    BY <1>2 DEF CacheTypeOK
  <2> DEFINE e == [entries[o] EXCEPT !.result = r]
  <2>2. e \in Entry /\ e.inserted = entries[o].inserted
    BY <2>1 DEF Entry
  <2>3. entries' = [entries EXCEPT ![o] = e] /\ expiry' = expiry
    BY <1>2 DEF SetFinal
  <2> HIDE DEF e
  <2>4. \A p \in Operations : entries'[p] = IF p = o THEN e ELSE entries[p]
    BY <2>3 DEF CacheTypeOK
  <2>5. Recorded(entries') = Recorded(entries)
    BY <2>2, <2>4, <1>2, CacheAssumption DEF Recorded
  <2>6. \A p \in Recorded(entries) : entries'[p].inserted = entries[p].inserted
    BY <2>2, <2>4 DEF Recorded
  <2>7. Cardinality(Recorded(entries')) =< CacheCapacity
    BY <2>5 DEF EveryRecordExpires
  <2>8. ASSUME NEW p \in Recorded(entries')
        PROVE  \E i \in 1..Len(expiry') : expiry'[i] = [at |-> entries'[p].inserted, op |-> p]
    <3>1. \E i \in 1..Len(expiry) : expiry[i] = [at |-> entries[p].inserted, op |-> p]
      BY <2>5 DEF EveryRecordExpires
    <3> QED
      BY <3>1, <2>3, <2>5, <2>6
  <2>9. Recorded(entries)' = Recorded(entries')
    BY DEF Recorded
  <2> QED
    BY <2>7, <2>8, <2>9 DEF EveryRecordExpires
<1> QED
  BY <1>1, <1>2

-----------------------------------------------------------------------------
(* What one call does to each record.                                        *)

(* set_final touches the result of one record, and of no other.              *)
\* OperationCache::set_final.
LEMMA SetFinalEffect ==
    ASSUME CacheTypeOK, NEW o \in Operations, NEW r \in FinalResults, SetFinal(o, r), NEW p \in Operations
    PROVE  /\ entries'[p] # NoEntry <=> entries[p] # NoEntry
           /\ entries[p] # NoEntry =>
                 /\ entries'[p].inserted = entries[p].inserted /\ entries'[p].digest = entries[p].digest
                 /\ entries'[p].result = IF p = o THEN r ELSE entries[p].result
<1>1. CASE entries[o] = NoEntry
  BY <1>1 DEF SetFinal
<1>2. CASE entries[o] # NoEntry
  <2>1. entries[o] \in Entry
    BY <1>2 DEF CacheTypeOK
  <2>2. PICK e : e = [entries[o] EXCEPT !.result = r]
    OBVIOUS
  <2>3. /\ e \in Entry /\ e.inserted = entries[o].inserted /\ e.digest = entries[o].digest /\ e.result = r
    BY <2>1, <2>2 DEF Entry
  <2>4. entries' = [entries EXCEPT ![o] = e]
    BY <1>2, <2>2 DEF SetFinal
  <2>5. entries'[p] = IF p = o THEN e ELSE entries[p]
    BY <2>4 DEF CacheTypeOK
  <2> QED
    BY <1>2, <2>3, <2>5, CacheAssumption
<1> QED
  BY <1>1, <1>2

(* bind_at drops only records a whole retention old, makes one only for an   *)
(* id that has none or had one that old, and reads the others as they are.   *)
\* OperationCache::prune_expired and bind_at.
LEMMA BindEffect ==
    ASSUME CacheTypeOK, NEW o \in Operations, NEW d \in Digests, NEW t \in Nat, NEW b,
           BindAt(o, d, t, b)
    PROVE  /\ \A p \in Operations :
                 \/ entries'[p] = entries[p]
                 \/ entries[p] # NoEntry /\ entries[p].inserted + Retention =< t
                 \/ entries[p] = NoEntry /\ p = o /\ b = "New"
           /\ \A p \in Operations : entries'[p] # NoEntry => entries'[p] = entries[p] \/ (p = o /\ b = "New")
           /\ b = "New" =>
                 /\ entries'[o] = [digest |-> d, result |-> "None", inserted |-> t]
                 /\ entries[o] # NoEntry => entries[o].inserted + Retention =< t
           /\ b = "Pending" =>
                 /\ entries'[o] = entries[o] /\ entries[o] # NoEntry
                 /\ entries[o].digest = d /\ entries[o].result = "None"
           /\ b = "Final" =>
                 /\ entries'[o] = entries[o] /\ entries[o] # NoEntry
                 /\ entries[o].digest = d /\ entries[o].result # "None"
<1>1. PICK n \in 0..Len(expiry) :
        /\ PrunesTo(n, t)
        /\ b = CacheBinding(Pruned(n), o, d)
        /\ entries' = IF b = "New"
                      THEN [Pruned(n) EXCEPT ![o] = [digest |-> d, result |-> "None", inserted |-> t]]
                      ELSE Pruned(n)
  BY DEF BindAt
<1>2. PICK q : q = Pruned(n)
  OBVIOUS
<1>3. /\ q \in [Operations -> Entry \cup {NoEntry}]
      /\ \A p \in Operations : q[p] # NoEntry => q[p] = entries[p]
  BY <1>2, PrunedTyped
<1>4. ASSUME NEW p \in Operations, q[p] # entries[p]
      PROVE  entries[p] # NoEntry /\ q[p] = NoEntry /\ entries[p].inserted + Retention =< t
  <2>1. q[p] = NoEntry /\ entries[p] # NoEntry
    BY <1>3, <1>4
  <2>2. PICK i \in 1..n : expiry[i] = [at |-> entries[p].inserted, op |-> p]
    BY <2>1, <1>2 DEF Pruned
  <2>3. t - expiry[i].at >= Retention
    BY <1>1 DEF PrunesTo
  <2>4. expiry[i].at = entries[p].inserted /\ entries[p].inserted \in Nat /\ Retention \in Nat
    BY <2>1, <2>2, CacheAssumption DEF CacheTypeOK, Entry
  <2> QED
    BY <2>1, <2>3, <2>4
<1>5. PICK e : e = [digest |-> d, result |-> "None", inserted |-> t]
  OBVIOUS
<1>6. \A p \in Operations : entries'[p] = IF p = o /\ b = "New" THEN e ELSE q[p]
  BY <1>1, <1>2, <1>3, <1>5
<1>7. /\ b = "New" => q[o] = NoEntry
      /\ b \in {"Pending", "Final"} => q[o] # NoEntry /\ q[o].digest = d
      /\ b = "Pending" => q[o].result = "None"
      /\ b = "Final" => q[o].result # "None"
  <2>1. b = CacheBinding(q, o, d)
    BY <1>1, <1>2
  <2> QED
    BY <2>1 DEF CacheBinding
<1>8. b \in {"Pending", "Final"} => entries'[o] = q[o] /\ q[o] = entries[o]
  BY <1>3, <1>6, <1>7
<1>9. b = "New" => entries'[o] = e /\ (entries[o] # NoEntry => entries[o].inserted + Retention =< t)
  BY <1>4, <1>6, <1>7
<1>10. ASSUME NEW p \in Operations
       PROVE  \/ entries'[p] = entries[p]
              \/ entries[p] # NoEntry /\ entries[p].inserted + Retention =< t
              \/ entries[p] = NoEntry /\ p = o /\ b = "New"
  BY <1>4, <1>6, <1>9
<1>11. \A p \in Operations : entries'[p] # NoEntry => entries'[p] = entries[p] \/ (p = o /\ b = "New")
  BY <1>3, <1>6
<1> QED
  BY <1>5, <1>7, <1>8, <1>9, <1>10, <1>11
=============================================================================
