----------------------------- MODULE GroupTable -----------------------------
(***************************************************************************)
(* aggregate.groupTable: the open-addressing hash table in which an        *)
(* Aggregator keeps its groups, with linear probing, doubled when it would *)
(* be more than 70% full.  Every iteration of its loops is a step.         *)
(*                                                                         *)
(* Only insertNew and the findBy* methods touch the table, each called     *)
(* with the key's hash, which depends on the Aggregator's random seed: so  *)
(* hashOf is any function, and different keys may have equal hashes.  The  *)
(* four findBy* methods differ only in how they compare keys.              *)
(***************************************************************************)
EXTENDS Integers, FiniteSets

CONSTANTS
    Key,        \* group-by tuples
    Hash,       \* the hashes they may have
    InitialCap, \* initialCap (16 there)
    MaxRows     \* bound: rows added per key

ASSUME GroupTableAssumption ==
    /\ Hash \subseteq Nat
    /\ InitialCap \in Nat \ {0}
    /\ MaxRows \in Nat

VARIABLES
    hashOf,     \* the hash of each key under this Aggregator's seed
    cap,        \* len(t.slots)
    slots,      \* t.slots and t.hashes; its domain is where t.full is true
    size,       \* t.size
    pc,
    key,        \* the key of the row being added
    idx,        \* the running index of the probe loops
    oldCap,     \* grow: the capacity ...
    old,        \* ... and the slots of the table being replaced
    i,          \* grow: the index of its loop over them
    fed         \* rows added so far, per key

vars == <<hashOf, cap, slots, size, pc, key, idx, oldCap, old, i, fed>>

Slot == [hash : Nat, key : Key, count : Nat]

NoSlots == [j \in {} |-> 0]

\* hash & mask: the capacity is a power of two.
Home(h) == h % cap

Full(j) == j \in DOMAIN slots

Put(j, s) == slots' = [n \in DOMAIN slots \cup {j} |-> IF n = j THEN s ELSE slots[n]]

Init ==
    /\ hashOf \in [Key -> Hash]
    /\ cap = InitialCap /\ slots = NoSlots /\ size = 0
    /\ pc = "idle"
    /\ key \in Key
    /\ idx = 0
    /\ oldCap = InitialCap /\ old = NoSlots /\ i = 0
    /\ fed = [k \in Key |-> 0]

\* Add has read a row's key and hashed it: findBy*(hash, key) starts probing.
Row(k) ==
    /\ pc = "idle"
    /\ fed[k] < MaxRows
    /\ key' = k
    /\ idx' = Home(hashOf[k])
    /\ pc' = "find"
    /\ UNCHANGED <<hashOf, cap, slots, size, oldCap, old, i, fed>>

-----------------------------------------------------------------------------
(* findBy*. *)

\* Mutated form: equal hashes are taken for equal keys.
FindHashHit ==
    /\ pc = "find"
    /\ Full(idx)
    /\ slots[idx].hash = hashOf[key]
    /\ pc' = "fold"
    /\ UNCHANGED <<hashOf, cap, slots, size, key, idx, oldCap, old, i, fed>>

\* A probe hit needs both an equal hash and an equal key.
FindHit ==
    /\ pc = "find"
    /\ Full(idx)
    /\ slots[idx].hash = hashOf[key] /\ slots[idx].key = key
    /\ pc' = "fold"
    /\ UNCHANGED <<hashOf, cap, slots, size, key, idx, oldCap, old, i, fed>>

FindNext ==
    /\ pc = "find"
    /\ Full(idx)
    /\ ~(slots[idx].hash = hashOf[key] /\ slots[idx].key = key)
    /\ idx' = (idx + 1) % cap
    /\ UNCHANGED <<hashOf, cap, slots, size, pc, key, oldCap, old, i, fed>>

\* Mutated form: the table is doubled only when it is more than full.
FindMissTight ==
    /\ pc = "find"
    /\ ~Full(idx)
    /\ IF size + 1 > cap
       THEN /\ oldCap' = cap /\ old' = slots /\ i' = 0
            /\ cap' = 2 * cap /\ slots' = NoSlots
            /\ pc' = "grow"
            /\ UNCHANGED idx
       ELSE /\ idx' = Home(hashOf[key])
            /\ pc' = "insert"
            /\ UNCHANGED <<cap, slots, oldCap, old, i>>
    /\ UNCHANGED <<hashOf, size, key, fed>>

\* Not found: insertNew, which grows the table first when one more group would
\* take it over the load factor of 0.7.
FindMiss ==
    /\ pc = "find"
    /\ ~Full(idx)
    /\ IF 10 * (size + 1) > 7 * cap
       THEN /\ oldCap' = cap /\ old' = slots /\ i' = 0
            /\ cap' = 2 * cap /\ slots' = NoSlots
            /\ pc' = "grow"
            /\ UNCHANGED idx
       ELSE /\ idx' = Home(hashOf[key])
            /\ pc' = "insert"
            /\ UNCHANGED <<cap, slots, oldCap, old, i>>
    /\ UNCHANGED <<hashOf, size, key, fed>>

-----------------------------------------------------------------------------
(* grow: every full slot of the old table is reinserted under its cached hash. *)

GrowSkip ==
    /\ pc = "grow"
    /\ i < oldCap /\ i \notin DOMAIN old
    /\ i' = i + 1
    /\ UNCHANGED <<hashOf, cap, slots, size, pc, key, idx, oldCap, old, fed>>

\* Mutated form: the mask is the one of the old table.
GrowNextOldMask ==
    /\ pc = "grow"
    /\ i < oldCap /\ i \in DOMAIN old
    /\ idx' = old[i].hash % oldCap
    /\ pc' = "place"
    /\ UNCHANGED <<hashOf, cap, slots, size, key, oldCap, old, i, fed>>

GrowNext ==
    /\ pc = "grow"
    /\ i < oldCap /\ i \in DOMAIN old
    /\ idx' = Home(old[i].hash)
    /\ pc' = "place"
    /\ UNCHANGED <<hashOf, cap, slots, size, key, oldCap, old, i, fed>>

Place ==
    /\ pc = "place"
    /\ ~Full(idx)
    /\ Put(idx, old[i])
    /\ i' = i + 1
    /\ pc' = "grow"
    /\ UNCHANGED <<hashOf, cap, size, key, idx, oldCap, old, fed>>

GrowEnd ==
    /\ pc = "grow"
    /\ i = oldCap
    /\ idx' = Home(hashOf[key])
    /\ pc' = "insert"
    /\ UNCHANGED <<hashOf, cap, slots, size, key, oldCap, old, i, fed>>

-----------------------------------------------------------------------------
(* The rest of insertNew, and of Add. *)

\* Mutated form: the probe does not wrap around.
ProbeOnPast ==
    /\ pc \in {"place", "insert"}
    /\ Full(idx)
    /\ idx' = idx + 1
    /\ UNCHANGED <<hashOf, cap, slots, size, pc, key, oldCap, old, i, fed>>

\* The probe loops of grow and insertNew look for a free slot.
ProbeOn ==
    /\ pc \in {"place", "insert"}
    /\ Full(idx)
    /\ idx' = (idx + 1) % cap
    /\ UNCHANGED <<hashOf, cap, slots, size, pc, key, oldCap, old, i, fed>>

Insert ==
    /\ pc = "insert"
    /\ ~Full(idx)
    /\ Put(idx, [hash |-> hashOf[key], key |-> key, count |-> 0])
    /\ size' = size + 1
    /\ pc' = "fold"
    /\ UNCHANGED <<hashOf, cap, key, idx, oldCap, old, i, fed>>

\* addMeasures on the group that was found or made.
Fold ==
    /\ pc = "fold"
    /\ slots' = [slots EXCEPT ![idx].count = @ + 1]
    /\ fed' = [fed EXCEPT ![key] = @ + 1]
    /\ pc' = "idle"
    /\ UNCHANGED <<hashOf, cap, size, key, idx, oldCap, old, i>>

Work ==
    \/ FindHit \/ FindNext \/ FindMiss
    \/ GrowSkip \/ GrowNext \/ Place \/ GrowEnd
    \/ ProbeOn \/ Insert \/ Fold

Next == (\E k \in Key : Row(k)) \/ Work

Spec == Init /\ [][Next]_vars

\* Add runs to its end.
FairSpec == Spec /\ WF_vars(Work)

-----------------------------------------------------------------------------
(* Properties. *)

TypeOK ==
    /\ hashOf \in [Key -> Hash]
    /\ cap \in Nat \ {0} /\ oldCap \in Nat \ {0}
    /\ DOMAIN slots \subseteq 0..(cap - 1) /\ \A j \in DOMAIN slots : slots[j] \in Slot
    /\ DOMAIN old \subseteq 0..(oldCap - 1) /\ \A j \in DOMAIN old : old[j] \in Slot
    /\ size \in Nat
    /\ pc \in {"idle", "find", "grow", "place", "insert", "fold"}
    /\ key \in Key
    /\ idx \in 0..(cap - 1)
    /\ i \in 0..oldCap
    /\ fed \in [Key -> Nat]

\* The slots a probe for hash h visits before it comes to slot j.
Passed(h, j) ==
    IF Home(h) <= j THEN Home(h)..(j - 1) ELSE (Home(h)..(cap - 1)) \cup (0..(j - 1))

OneGroup ==
    \A j, n \in DOMAIN slots : slots[j].key = slots[n].key => j = n

\* Every group can be found, by one probe only: the probe for its hash meets no
\* free slot before it, also half-way through a grow, and no key has two groups,
\* however its hash collides and whatever was moved.
Reachable ==
    /\ OneGroup
    /\ \A j \in DOMAIN slots :
          /\ slots[j].hash = hashOf[slots[j].key]
          /\ Passed(slots[j].hash, j) \subseteq DOMAIN slots

\* There is always a free slot for a probe loop to end at, and between two rows
\* the table counts its groups and is at most 70% full.
RoomLeft ==
    /\ Cardinality(DOMAIN slots) < cap
    /\ pc = "idle" => size = Cardinality(DOMAIN slots) /\ 10 * size <= 7 * cap

\* The old slots that grow has yet to move.
Waiting == {n \in DOMAIN old : pc \in {"grow", "place"} /\ n >= i}

\* The groups, wherever they are: in the table, or not yet moved by grow.
Groups == {slots[j] : j \in DOMAIN slots} \cup {old[n] : n \in Waiting}

\* The rows counted in each key's group.
Tally == [k \in Key |-> IF \E g \in Groups : g.key = k
                        THEN (CHOOSE g \in Groups : g.key = k).count
                        ELSE 0]

\* The table is a GroupMap: every row counts in the group of its own key, and
\* a grow, a collision or a hash shared by two keys changes no group, and no
\* probe loop goes round for ever.
AbstractMap == INSTANCE GroupMap WITH
    asked <- IF pc = "idle" THEN {} ELSE {key},
    count <- Tally

IsGroupMap == AbstractMap!Spec
=============================================================================
