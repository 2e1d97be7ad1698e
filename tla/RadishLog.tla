----------------------------- MODULE RadishLog -----------------------------
(***************************************************************************)
(* The append-only file: events (include/RadishEvent.h), their binary form *)
(* (BinaryFile.h), the framed records LogWriter writes and LogReader reads,*)
(* the replay of one event and the compaction strategies.                  *)
(*                                                                         *)
(* A record on disk is its length prefix and the fields actually written,  *)
(* one cell per field: a record whose write was cut short keeps the length *)
(* it announced and a proper prefix of its fields.                         *)
(***************************************************************************)
EXTENDS RadishStore, Sequences

CREATE == 0
RENAME == 1
DELETE == 2
CLEAR  == 3
EventType == {CREATE, RENAME, DELETE, CLEAR}

Event == [type : EventType, timestamp : Int, key : Keys \cup {Absent},
          renameKey : Keys \cup {Absent}, payload : Values \cup {Absent}]

ASSUME LogAssumption == Absent \notin Event

RadishEvent(type, timestamp, key, renameKey, payload) ==
    [type |-> type, timestamp |-> timestamp, key |-> key,
     renameKey |-> renameKey, payload |-> payload]

\* An event that has the fields its type requires, and no others: Serialize
\* throws for a missing one and Deserialize resets the others.
WellFormed(e) ==
    /\ e \in Event
    /\ (e.key # Absent) <=> (e.type # CLEAR)
    /\ (e.renameKey # Absent) <=> (e.type = RENAME)
    /\ (e.payload # Absent) <=> (e.type = CREATE)

-----------------------------------------------------------------------------
(* Binary form. *)

Serialize(e) ==
    CASE e.type = CREATE -> <<CREATE, e.timestamp, e.key, e.payload>>
      [] e.type = RENAME -> <<RENAME, e.timestamp, e.key, e.renameKey>>
      [] e.type = DELETE -> <<DELETE, e.timestamp, e.key>>
      [] e.type = CLEAR  -> <<CLEAR, e.timestamp>>

\* Faulty variant (mutation testing): the fourth field always is the payload.
DeserializeIgnoresRenameKey(fields) ==
    [type      |-> fields[1],
     timestamp |-> fields[2],
     key       |-> IF fields[1] = CLEAR THEN Absent ELSE fields[3],
     renameKey |-> Absent,
     payload   |-> IF fields[1] \in {CREATE, RENAME} THEN fields[4] ELSE Absent]

Deserialize(fields) ==
    [type      |-> fields[1],
     timestamp |-> fields[2],
     key       |-> IF fields[1] = CLEAR THEN Absent ELSE fields[3],
     renameKey |-> IF fields[1] = RENAME THEN fields[4] ELSE Absent,
     payload   |-> IF fields[1] = CREATE THEN fields[4] ELSE Absent]

Field  == Int \cup Keys \cup Values \cup {Absent}
Record == [size : Nat, fields : Seq(Field)]

\* The record of event e after its first n fields reached the file.
WrittenRecord(e, n) ==
    [size |-> Len(Serialize(e)), fields |-> SubSeq(Serialize(e), 1, n)]

WriteRecord(e) == [size |-> Len(Serialize(e)), fields |-> Serialize(e)]

Whole(r) == Len(r.fields) = r.size

-----------------------------------------------------------------------------
(* LogReader::GetEvents.  Records are read up to the first incomplete one.  *)
(* If that is the last thing in the file its read hits end-of-file and it   *)
(* is ignored.  If more was appended behind it, its announced length        *)
(* swallows bytes of the next record, and from there the frames are out of  *)
(* step.  What happens then depends on the bytes: the reader runs into      *)
(* end-of-file and stops, rejects what it finds and throws, or accepts the  *)
(* incomplete record with foreign bytes as its last field.                  *)
(* The model stops there, where the code might accept more such frames, or  *)
(* come back into step: of a log once out of step nothing is claimed.       *)

WholePrefix(recs) ==
    CHOOSE n \in 0..Len(recs) :
        /\ \A i \in 1..n : Whole(recs[i])
        /\ n = Len(recs) \/ ~Whole(recs[n + 1])

EventsOf(recs, n) == [i \in 1..n |-> Deserialize(recs[i].fields)]

\* Events the incomplete record r can turn into when only its last field is
\* missing and the bytes that follow supply it.
Spliced(r) ==
    IF Len(r.fields) = 0 \/ Len(r.fields) # r.size - 1 THEN {}
    ELSE LET last == IF r.fields[1] = CREATE THEN Values
                     ELSE IF r.fields[1] = CLEAR THEN {NoExpiry} ELSE Keys
         IN {Deserialize(Append(r.fields, x)) : x \in last}

ReadOk(events) == [ok |-> TRUE, events |-> events]
ReadError      == [ok |-> FALSE, events |-> <<>>]

\* Faulty variant (mutation testing): an incomplete final record is an error.
GetEventsRejectsTornTail(recs) ==
    LET n == WholePrefix(recs)
    IN  IF n = Len(recs) THEN {ReadOk(EventsOf(recs, n))} ELSE {ReadError}

GetEvents(recs) ==
    LET n == WholePrefix(recs)
    IN  IF Len(recs) - n <= 1
        THEN {ReadOk(EventsOf(recs, n))}
        ELSE {ReadError, ReadOk(EventsOf(recs, n))}
             \cup {ReadOk(Append(EventsOf(recs, n), e)) : e \in Spliced(recs[n + 1])}

-----------------------------------------------------------------------------
(* LogWriter::ApplyEvent: the bool it returns, and the store afterwards. *)

Applies(s, e, now) ==
    CASE e.type = CREATE -> TRUE
      [] e.type = RENAME -> CanRename(s, e.key, now)
      [] e.type = DELETE -> s.m_data[e.key] # Absent
      [] e.type = CLEAR  -> ~StoreIsEmpty(s)

\* Faulty variant (mutation testing): the stored timestamp is not passed on,
\* so Create computes a new one.
ApplyEventFreshDeadline(s, e, now) ==
    CASE e.type = CREATE -> StoreCreate(s, e.key, e.payload, NewExpiryTimestamp(s, now))
      [] e.type = RENAME -> StoreRename(s, e.key, e.renameKey, now)
      [] e.type = DELETE -> StoreDelete(s, e.key)
      [] e.type = CLEAR  -> StoreClear(s)

ApplyEvent(s, e, now) ==
    CASE e.type = CREATE -> StoreCreate(s, e.key, e.payload, e.timestamp)
      [] e.type = RENAME -> StoreRename(s, e.key, e.renameKey, now)
      [] e.type = DELETE -> StoreDelete(s, e.key)
      [] e.type = CLEAR  -> StoreClear(s)

-----------------------------------------------------------------------------
(* Compaction: an EventsMap holds, per key, the CREATE event that survives. *)

EventsMap == [Keys -> Event \cup {Absent}]
EmptyEventsMap == [k \in Keys |-> Absent]

CreateCompactStrategy(events, e) == [events EXCEPT ![e.key] = e]

\* Faulty variant (mutation testing): the old entry is not erased.
RenameCompactStrategyCopies(events, e) ==
    IF events[e.key] = Absent THEN events
    ELSE [events EXCEPT ![e.renameKey] = [events[e.key] EXCEPT !.key = e.renameKey]]

\* Erase the old entry, then store the renamed copy, in that order: when both
\* keys are the same the entry survives.
RenameCompactStrategy(events, e) ==
    IF events[e.key] = Absent THEN events
    ELSE [events EXCEPT ![e.key] = Absent,
                        ![e.renameKey] = [events[e.key] EXCEPT !.key = e.renameKey]]

DeleteCompactStrategy(events, e) == [events EXCEPT ![e.key] = Absent]

\* Faulty variant (mutation testing): CLEAR is forgotten by compaction.
ClearCompactStrategyNoOp(events) == events

ClearCompactStrategy(events) == EmptyEventsMap

\* LogWriter's own test for a record whose deadline has passed: < where the
\* store uses >=.
PastDeadline(e, now) == e.timestamp # NoExpiry /\ e.timestamp < now

CompactEvent(events, e, now) ==
    CASE e.type = CREATE -> IF PastDeadline(e, now) THEN events
                            ELSE CreateCompactStrategy(events, e)
      [] e.type = RENAME -> RenameCompactStrategy(events, e)
      [] e.type = DELETE -> DeleteCompactStrategy(events, e)
      [] e.type = CLEAR  -> ClearCompactStrategy(events)

-----------------------------------------------------------------------------
\* The store that replaying the whole records of recs into an empty store
\* gives when every clock reading during the replay is t.
ReplayedStore(recs, ttl, t) ==
    LET n == WholePrefix(recs)
        store[i \in 0..n] ==
            IF i = 0 THEN EmptyStore(ttl)
            ELSE ApplyEvent(store[i - 1], Deserialize(recs[i].fields), t)
    IN  store[n]
=============================================================================
