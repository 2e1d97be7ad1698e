---------------------------- MODULE RadishStore ----------------------------
(***************************************************************************)
(* The in-memory store (include/RadishStore.h) as a value and operators on *)
(* it.  The store is passive: RadishDB owns one, replaces it as a whole    *)
(* and hands it to the log for replay, so every operator takes the store,  *)
(* and the clock reading it would get from m_clock.Now(), as arguments.    *)
(*                                                                         *)
(* The two unordered_maps are total functions over Keys whose value Absent *)
(* means "no entry".  Keys and values are opaque.                          *)
(***************************************************************************)
EXTENDS Integers, FiniteSets

CONSTANTS
    Keys,          \* the strings used as keys
    Values,        \* the payloads
    Absent,        \* std::nullopt / "the map has no entry"
    MaxTimestamp   \* the largest value of a Timestamp (long long)

ASSUME StoreAssumption ==
    /\ Absent \notin Keys \cup Values
    /\ Absent \notin Int
    /\ MaxTimestamp \in Nat

NoExpiry == -1

DataMap == [Keys -> Values \cup {Absent}]
TTLMap  == [Keys -> Int \cup {Absent}]
Store   == [m_ttl : Int, m_data : DataMap, m_ttlData : TTLMap]

EmptyStore(ttl) ==
    [m_ttl     |-> ttl,
     m_data    |-> [k \in Keys |-> Absent],
     m_ttlData |-> [k \in Keys |-> Absent]]

-----------------------------------------------------------------------------
HasTimeToLive(s) == s.m_ttl # NoExpiry

IsExpired(s, key, now) ==
    /\ HasTimeToLive(s)
    /\ s.m_ttlData[key] # Absent
    /\ now >= s.m_ttlData[key]

StoreGet(s, key, now) ==
    IF s.m_data[key] # Absent /\ ~IsExpired(s, key, now)
    THEN s.m_data[key]
    ELSE Absent

StoreExists(s, key, now) == ~IsExpired(s, key, now) /\ s.m_data[key] # Absent

StoreScan(s, now) == {k \in Keys : s.m_data[k] # Absent /\ ~IsExpired(s, k, now)}

StoreSize(s, now) == Cardinality(StoreScan(s, now))

\* Signed 64-bit addition, as the build compiles it: it wraps around.
AddTimestamp(t, d) ==
    IF t + d > MaxTimestamp THEN t + d - 2 * (MaxTimestamp + 1) ELSE t + d

NewExpiryTimestamp(s, now) ==
    IF HasTimeToLive(s) THEN AddTimestamp(now, s.m_ttl) ELSE NoExpiry

-----------------------------------------------------------------------------
(* Mutations.  Each is the store afterwards; the bool the method returns is *)
(* a predicate of its own, because replay ignores it and Commit does not.   *)

\* Store s with other contents.
StoreWith(s, data, ttlData) ==
    [m_ttl |-> s.m_ttl, m_data |-> data, m_ttlData |-> ttlData]

\* The timestamp argument is never nullopt here: ApplyEvent always passes the
\* event's own.  A store without a TTL drops it.
StoreCreate(s, key, value, timestamp) ==
    StoreWith(s, [s.m_data EXCEPT ![key] = value],
              IF HasTimeToLive(s) THEN [s.m_ttlData EXCEPT ![key] = timestamp]
              ELSE s.m_ttlData)

CanRename(s, oldKey, now) ==
    s.m_data[oldKey] # Absent /\ ~IsExpired(s, oldKey, now)

\* Assign the new entry, then erase the old one, in that order: when both
\* keys are the same the entry is gone.
MoveEntry(m, oldKey, newKey) ==
    [[m EXCEPT ![newKey] = m[oldKey]] EXCEPT ![oldKey] = Absent]

\* m_ttlData[newKey] may rehash between find and erase(ttlIt); the iterator is
\* a node pointer in every standard library, so the erase still finds its node.
StoreRename(s, oldKey, newKey, now) ==
    IF ~CanRename(s, oldKey, now) THEN s
    ELSE StoreWith(s, MoveEntry(s.m_data, oldKey, newKey),
                   IF s.m_ttlData[oldKey] # Absent
                   THEN MoveEntry(s.m_ttlData, oldKey, newKey)
                   ELSE [s.m_ttlData EXCEPT ![newKey] = Absent])

\* Faulty variant (mutation testing): the deadline is left behind.
StoreDeleteKeepsDeadline(s, key) ==
    StoreWith(s, [s.m_data EXCEPT ![key] = Absent], s.m_ttlData)

StoreDelete(s, key) ==
    StoreWith(s, [s.m_data EXCEPT ![key] = Absent],
              [s.m_ttlData EXCEPT ![key] = Absent])

StoreIsEmpty(s) == \A k \in Keys : s.m_data[k] = Absent

StoreClear(s) == IF StoreIsEmpty(s) THEN s ELSE EmptyStore(s.m_ttl)
=============================================================================
