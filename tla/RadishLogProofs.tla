-------------------------- MODULE RadishLogProofs --------------------------
(***************************************************************************)
(* Lemmas about the operators of RadishStore and RadishLog: what they      *)
(* return, for every set of keys and values, and that reading a record     *)
(* back gives the event that was written.                                  *)
(***************************************************************************)
EXTENDS RadishLog, TLAPS, SequenceTheorems, WellFoundedInduction

-----------------------------------------------------------------------------
(* Stores. *)

LEMMA EmptyStoreType ==
    ASSUME NEW ttl \in Int
    PROVE  EmptyStore(ttl) \in Store
BY DEF EmptyStore, Store, DataMap, TTLMap

LEMMA NewExpiryType ==
    ASSUME NEW s \in Store, NEW t \in Int
    PROVE  NewExpiryTimestamp(s, t) \in Int
BY StoreAssumption DEF NewExpiryTimestamp, AddTimestamp, HasTimeToLive, NoExpiry, Store

LEMMA MoveEntryType ==
    ASSUME NEW T, NEW m \in [Keys -> T \cup {Absent}], NEW old \in Keys, NEW new \in Keys
    PROVE  /\ MoveEntry(m, old, new) \in [Keys -> T \cup {Absent}]
           /\ \A k \in Keys : MoveEntry(m, old, new)[k] =
                 IF k = old THEN Absent ELSE IF k = new THEN m[old] ELSE m[k]
BY DEF MoveEntry

\* LogWriter::ApplyEvent keeps a store a store.
LEMMA ApplyEventType ==
    ASSUME NEW s \in Store, NEW e, WellFormed(e), NEW t \in Int
    PROVE  ApplyEvent(s, e, t) \in Store
<1>0. /\ e \in Event
      /\ e.type \in EventType /\ e.timestamp \in Int
      /\ e.type # CLEAR => e.key \in Keys
      /\ e.type = RENAME => e.renameKey \in Keys
      /\ e.type = CREATE => e.payload \in Values
  BY DEF WellFormed, Event, EventType, CREATE, RENAME, DELETE, CLEAR
<1>s. /\ s.m_ttl \in Int /\ s.m_data \in DataMap /\ s.m_ttlData \in TTLMap
      /\ s = [m_ttl |-> s.m_ttl, m_data |-> s.m_data, m_ttlData |-> s.m_ttlData]
  BY DEF Store
<1>w. \A d \in DataMap, x \in TTLMap : StoreWith(s, d, x) \in Store
  BY <1>s DEF StoreWith, Store
<1>1. CASE e.type = CREATE
  <2>1. ApplyEvent(s, e, t) = StoreCreate(s, e.key, e.payload, e.timestamp)
    BY <1>1 DEF ApplyEvent, CREATE, RENAME, DELETE, CLEAR
  <2>2. e.key \in Keys /\ e.payload \in Values /\ e.timestamp \in Int
    BY <1>0, <1>1 DEF CREATE, CLEAR
  <2>3. /\ [s.m_data EXCEPT ![e.key] = e.payload] \in DataMap
        /\ [s.m_ttlData EXCEPT ![e.key] = e.timestamp] \in TTLMap
    BY <2>2, <1>s DEF DataMap, TTLMap
  <2> QED
    BY <2>1, <2>3, <1>s, <1>w DEF StoreCreate
<1>2. CASE e.type = RENAME
  <2>1. ApplyEvent(s, e, t) = StoreRename(s, e.key, e.renameKey, t)
    BY <1>2 DEF ApplyEvent, CREATE, RENAME, DELETE, CLEAR
  <2>2. e.key \in Keys /\ e.renameKey \in Keys
    BY <1>0, <1>2 DEF RENAME, CLEAR
  <2>3. MoveEntry(s.m_data, e.key, e.renameKey) \in DataMap
    BY <2>2, <1>s, MoveEntryType DEF DataMap
  <2>4. MoveEntry(s.m_ttlData, e.key, e.renameKey) \in TTLMap
    BY <2>2, <1>s, MoveEntryType DEF TTLMap
  <2>5. [s.m_ttlData EXCEPT ![e.renameKey] = Absent] \in TTLMap
    BY <2>2, <1>s DEF TTLMap
  <2> QED
    BY <2>1, <2>3, <2>4, <2>5, <1>w DEF StoreRename
<1>3. CASE e.type = DELETE
  <2>1. ApplyEvent(s, e, t) = StoreDelete(s, e.key)
    BY <1>3 DEF ApplyEvent, CREATE, RENAME, DELETE, CLEAR
  <2>2. e.key \in Keys
    BY <1>0, <1>3 DEF DELETE, CLEAR
  <2>3. /\ [s.m_data EXCEPT ![e.key] = Absent] \in DataMap
        /\ [s.m_ttlData EXCEPT ![e.key] = Absent] \in TTLMap
    BY <2>2, <1>s DEF DataMap, TTLMap
  <2> QED
    BY <2>1, <2>3, <1>w DEF StoreDelete
<1>4. CASE e.type = CLEAR
  <2>1. ApplyEvent(s, e, t) = StoreClear(s)
    BY <1>4 DEF ApplyEvent, CREATE, RENAME, DELETE, CLEAR
  <2> QED
    BY <2>1, <1>s, EmptyStoreType DEF StoreClear
<1> QED
  BY <1>0, <1>1, <1>2, <1>3, <1>4 DEF EventType

-----------------------------------------------------------------------------
(* Records. *)

\* What an event's fields are in the file.
LEMMA SerializeType ==
    ASSUME NEW e, WellFormed(e)
    PROVE  /\ Serialize(e) \in Seq(Field)
           /\ Len(Serialize(e)) \in 2..4
           /\ e.type = CLEAR => Len(Serialize(e)) = 2
           /\ e.type = DELETE => Len(Serialize(e)) = 3
           /\ e.type \in {CREATE, RENAME} => Len(Serialize(e)) = 4
           /\ Serialize(e)[1] = e.type
           /\ Serialize(e)[2] = e.timestamp
           /\ e.type # CLEAR => Serialize(e)[3] = e.key
           /\ e.type = RENAME => Serialize(e)[4] = e.renameKey
           /\ e.type = CREATE => Serialize(e)[4] = e.payload
<1>0. /\ e.type \in EventType /\ e.timestamp \in Int
      /\ e.type # CLEAR => e.key \in Keys
      /\ e.type = RENAME => e.renameKey \in Keys
      /\ e.type = CREATE => e.payload \in Values
  BY DEF WellFormed, Event, EventType, CREATE, RENAME, DELETE, CLEAR
<1>f. /\ e.type \in Field /\ e.timestamp \in Field
      /\ e.type # CLEAR => e.key \in Field
      /\ e.type = RENAME => e.renameKey \in Field
      /\ e.type = CREATE => e.payload \in Field
  BY <1>0 DEF Field, EventType, CREATE, RENAME, DELETE, CLEAR
<1>1. CASE e.type = CREATE
  BY <1>1, <1>f DEF Serialize, CREATE, RENAME, DELETE, CLEAR
<1>2. CASE e.type = RENAME
  BY <1>2, <1>f DEF Serialize, CREATE, RENAME, DELETE, CLEAR
<1>3. CASE e.type = DELETE
  BY <1>3, <1>f DEF Serialize, CREATE, RENAME, DELETE, CLEAR
<1>4. CASE e.type = CLEAR
  BY <1>4, <1>f DEF Serialize, CREATE, RENAME, DELETE, CLEAR
<1> QED
  BY <1>0, <1>1, <1>2, <1>3, <1>4 DEF EventType

\* Deserialize undoes Serialize.
THEOREM RoundTrip ==
    ASSUME NEW e, WellFormed(e)
    PROVE  Deserialize(Serialize(e)) = e
<1>1. /\ e = [type |-> e.type, timestamp |-> e.timestamp, key |-> e.key,
              renameKey |-> e.renameKey, payload |-> e.payload]
      /\ e.key = Absent <=> e.type = CLEAR
      /\ e.renameKey = Absent <=> e.type # RENAME
      /\ e.payload = Absent <=> e.type # CREATE
  BY DEF WellFormed, Event
<1> QED
  BY <1>1, SerializeType DEF Deserialize, CREATE, RENAME, CLEAR

\* A record the reader can make nothing but well-formed events of.
RecordOK(r) ==
    /\ r \in Record
    /\ Whole(r) => WellFormed(Deserialize(r.fields))
    /\ \A e \in Spliced(r) : WellFormed(e)

LEMMA WriteRecordOK ==
    ASSUME NEW e, WellFormed(e)
    PROVE  /\ RecordOK(WriteRecord(e))
           /\ Whole(WriteRecord(e))
           /\ Deserialize(WriteRecord(e).fields) = e
<1>1. /\ WriteRecord(e) \in Record
      /\ Whole(WriteRecord(e))
      /\ WriteRecord(e).fields = Serialize(e)
      /\ WriteRecord(e).size = Len(Serialize(e))
  BY SerializeType DEF WriteRecord, Record, Whole
<1>2. Spliced(WriteRecord(e)) = {}
  BY <1>1, SerializeType DEF Spliced
<1> QED
  BY <1>1, <1>2, RoundTrip DEF RecordOK

LEMMA WrittenRecordOK ==
    ASSUME NEW e, WellFormed(e), NEW n \in 0..(Len(Serialize(e)) - 1)
    PROVE  /\ RecordOK(WrittenRecord(e, n))
           /\ ~Whole(WrittenRecord(e, n))
<1> DEFINE r == WrittenRecord(e, n)
           L == Len(Serialize(e))
<1>0. L \in 2..4 /\ n \in Int /\ n <= L
  BY SerializeType
<1>e. /\ e.type \in EventType /\ e.timestamp \in Int
      /\ e.type # CLEAR => e.key \in Keys
      /\ e.type = RENAME => e.renameKey \in Keys
      /\ e.type = CREATE => e.payload \in Values
  BY DEF WellFormed, Event, EventType, CREATE, RENAME, DELETE, CLEAR
<1>l. /\ e.type = CLEAR => L = 2
      /\ e.type = DELETE => L = 3
      /\ e.type \in {CREATE, RENAME} => L = 4
  BY SerializeType
<1>s. \A i \in 1..n : Serialize(e)[i] \in Field
  BY <1>0, SerializeType, LenProperties
<1>1. /\ r.fields \in Seq(Field)
      /\ Len(r.fields) = n
      /\ \A i \in 1..n : r.fields[i] = Serialize(e)[i]
      /\ r.size = L
  <2> DEFINE sub == SubSeq(Serialize(e), 1, n)
  <2>1. /\ sub \in Seq(Field)
        /\ Len(sub) = IF 1 <= n THEN n - 1 + 1 ELSE 0
        /\ \A i \in 1..(n - 1 + 1) : sub[i] = Serialize(e)[1 + i - 1]
    <3>1. \A i \in 1..n : Serialize(e)[i] \in Field
      BY <1>s
    <3>2. 1 \in Int /\ n \in Int
      BY <1>0
    <3> QED
      BY <3>1, <3>2, SubSeqProperties
  <2> QED
    BY <2>1, <1>0 DEF WrittenRecord
<1>2. r \in Record
  BY <1>0, <1>1 DEF WrittenRecord, Record
<1>3. ~Whole(r)
  BY <1>0, <1>1 DEF Whole
<1>4. ASSUME NEW x \in Spliced(r)
      PROVE  WellFormed(x)
  <2>1. n = L - 1 /\ n # 0
    BY <1>0, <1>1, <1>4 DEF Spliced
  <2>2. r.fields[1] = e.type
    BY <1>0, <1>1, <2>1, SerializeType
  <2>3. PICK y : /\ x = Deserialize(Append(r.fields, y))
                 /\ y \in IF e.type = CREATE THEN Values
                          ELSE IF e.type = CLEAR THEN {NoExpiry} ELSE Keys
    BY <2>1, <2>2, <1>1, <1>0, <1>4 DEF Spliced
  <2>4. y \in Field
    BY <2>3 DEF Field, NoExpiry
  <2> DEFINE f == Append(r.fields, y)
  <2>5. /\ f[L] = y
        /\ \A i \in 1..n : f[i] = Serialize(e)[i]
    BY <1>0, <1>1, <2>1, <2>4, AppendProperties
  <2>6. f[1] = e.type
    BY <2>5, <2>1, <1>0, SerializeType
  <2> HIDE DEF f
  <2>7. CASE e.type = CREATE
    <3>a. L = 4
      BY <2>7, <1>l
    <3>0. L = 4 /\ n = 3
      BY <3>a, <2>1
    <3>1. /\ f[2] = e.timestamp /\ f[3] = e.key /\ f[4] = y /\ y \in Values
      BY <3>0, <2>7, <2>5, <2>3, SerializeType DEF CREATE, RENAME, DELETE, CLEAR
    <3> QED
      BY <3>1, <2>6, <2>7, <2>3, <1>e, StoreAssumption
      DEF f, Deserialize, WellFormed, Event, EventType, CREATE, RENAME, DELETE, CLEAR
  <2>8. CASE e.type = RENAME
    <3>a. L = 4
      BY <2>8, <1>l
    <3>0. L = 4 /\ n = 3
      BY <3>a, <2>1
    <3>1. /\ f[2] = e.timestamp /\ f[3] = e.key /\ f[4] = y /\ y \in Keys
      BY <3>0, <2>8, <2>5, <2>3, SerializeType DEF CREATE, RENAME, DELETE, CLEAR
    <3> QED
      BY <3>1, <2>6, <2>8, <2>3, <1>e, StoreAssumption
      DEF f, Deserialize, WellFormed, Event, EventType, CREATE, RENAME, DELETE, CLEAR
  <2>9. CASE e.type = DELETE
    <3>a. L = 3
      BY <2>9, <1>l
    <3>0. L = 3 /\ n = 2
      BY <3>a, <2>1
    <3>1. /\ f[2] = e.timestamp /\ f[3] = y /\ y \in Keys
      BY <3>0, <2>9, <2>5, <2>3, SerializeType DEF CREATE, RENAME, DELETE, CLEAR
    <3> QED
      BY <3>1, <2>6, <2>9, <2>3, <1>e, StoreAssumption
      DEF f, Deserialize, WellFormed, Event, EventType, CREATE, RENAME, DELETE, CLEAR
  <2>10. CASE e.type = CLEAR
    <3>a. L = 2
      BY <2>10, <1>l
    <3>0. L = 2 /\ n = 1
      BY <3>a, <2>1
    <3>1. f[2] = y /\ y = -1
      BY <3>0, <2>10, <2>5, <2>3, SerializeType DEF CREATE, RENAME, DELETE, CLEAR, NoExpiry
    <3> QED
      BY <3>1, <2>6, <2>10, <2>3, <1>e, StoreAssumption
      DEF f, Deserialize, WellFormed, Event, EventType, CREATE, RENAME, DELETE, CLEAR
  <2> QED
    BY <1>e, <2>7, <2>8, <2>9, <2>10 DEF EventType
<1> QED
  BY <1>2, <1>3, <1>4 DEF RecordOK

-----------------------------------------------------------------------------
(* Reading the log. *)

\* A non-empty set of numbers has a least one.
LEMMA LeastElement ==
    ASSUME NEW S, S \subseteq Nat, S # {}
    PROVE  \E x \in S : \A y \in S : y >= x
<1>1. PICK x \in S : \A y \in S : ~(<<y, x>> \in OpToRel(<, Nat))
  BY NatLessThanWellFounded, WFMin
<1>2. \A y \in S : ~(y < x)
  BY <1>1 DEF OpToRel
<1> QED
  BY <1>2

\* There is a first incomplete record, unless there is none.
LEMMA WholePrefixProperties ==
    ASSUME NEW recs \in Seq(Record)
    PROVE  /\ WholePrefix(recs) \in 0..Len(recs)
           /\ \A i \in 1..WholePrefix(recs) : Whole(recs[i])
           /\ WholePrefix(recs) = Len(recs) \/ ~Whole(recs[WholePrefix(recs) + 1])
<1> DEFINE Good(n) == /\ \A i \in 1..n : Whole(recs[i])
                      /\ n = Len(recs) \/ ~Whole(recs[n + 1])
           Torn == {i \in 1..Len(recs) : ~Whole(recs[i])}
<1>0. Len(recs) \in Nat
  BY LenProperties
<1>1. \E n \in 0..Len(recs) : Good(n)
  <2>1. CASE Torn = {}
    <3>1. Good(Len(recs))
      BY <2>1
    <3> QED
      BY <3>1, <1>0
  <2>2. CASE Torn # {}
    <3>1. Torn \subseteq Nat
      BY <1>0
    <3> HIDE DEF Torn
    <3>4. PICK x \in Torn : \A y \in Torn : y >= x
      BY <2>2, <3>1, LeastElement
    <3> USE DEF Torn
    <3>5. x \in 1..Len(recs) /\ ~Whole(recs[x])
      OBVIOUS
    <3>6. \A i \in 1..(x - 1) : Whole(recs[i])
      BY <3>4, <3>5, <1>0
    <3>7. Good(x - 1)
      BY <3>5, <3>6
    <3>8. x - 1 \in 0..Len(recs)
      BY <3>5, <1>0
    <3> QED
      BY <3>7, <3>8
  <2> QED
    BY <2>1, <2>2
<1>2. WholePrefix(recs) = CHOOSE n \in 0..Len(recs) : Good(n)
  BY DEF WholePrefix
<1> HIDE DEF Good
<1>3. WholePrefix(recs) \in 0..Len(recs) /\ Good(WholePrefix(recs))
  BY <1>1, <1>2
<1> QED
  BY <1>3 DEF Good

\* Only well-formed events come out of GetEvents.
LEMMA GetEventsType ==
    ASSUME NEW recs \in Seq(Record), \A i \in 1..Len(recs) : RecordOK(recs[i]),
           NEW read \in GetEvents(recs)
    PROVE  /\ read.events \in Seq(Event)
           /\ \A i \in 1..Len(read.events) : WellFormed(read.events[i])
<1> DEFINE n == WholePrefix(recs)
           evs == EventsOf(recs, n)
<1>0. /\ n \in 0..Len(recs)
      /\ \A i \in 1..n : Whole(recs[i])
      /\ Len(recs) \in Nat
  BY WholePrefixProperties, LenProperties
<1>1. \A i \in 1..n : WellFormed(Deserialize(recs[i].fields))
  BY <1>0 DEF RecordOK
<1>2. \A i \in 1..n : Deserialize(recs[i].fields) \in Event
  BY <1>1 DEF WellFormed
<1> HIDE DEF n
<1>3. /\ evs \in Seq(Event)
      /\ Len(evs) = n
      /\ \A i \in 1..n : WellFormed(evs[i])
  BY <1>0, <1>1, <1>2 DEF EventsOf
<1>4. \/ read = ReadError
      \/ read = ReadOk(evs)
      \/ /\ Len(recs) - n > 1
         /\ \E e \in Spliced(recs[n + 1]) : read = ReadOk(Append(evs, e))
  BY <1>0 DEF GetEvents, n
<1>5. CASE read = ReadError
  BY <1>5 DEF ReadError
<1>6. CASE read = ReadOk(evs)
  BY <1>3, <1>6 DEF ReadOk
<1>7. ASSUME Len(recs) - n > 1,
             NEW e \in Spliced(recs[n + 1]), read = ReadOk(Append(evs, e))
      PROVE  /\ read.events \in Seq(Event)
             /\ \A i \in 1..Len(read.events) : WellFormed(read.events[i])
  <2>1. n + 1 \in 1..Len(recs)
    BY <1>0, <1>7
  <2>2. WellFormed(e) /\ e \in Event
    BY <2>1, <1>7 DEF RecordOK, WellFormed
  <2>3. read.events = Append(evs, e)
    BY <1>7 DEF ReadOk
  <2> HIDE DEF evs
  <2>4. /\ Append(evs, e) \in Seq(Event)
        /\ Len(Append(evs, e)) = n + 1
        /\ \A i \in 1..n : Append(evs, e)[i] = evs[i]
        /\ Append(evs, e)[n + 1] = e
    BY <1>3, <1>0, <2>2, AppendProperties
  <2>5. \A i \in 1..(n + 1) : WellFormed(Append(evs, e)[i])
    BY <1>3, <1>0, <2>2, <2>4
  <2> QED
    BY <2>3, <2>4, <2>5
<1> QED
  BY <1>4, <1>5, <1>6, <1>7

\* A compaction map of CREATE events, each under its own key.
SurvivorsOK(m) ==
    \A k \in Keys : m[k] # Absent =>
        WellFormed(m[k]) /\ m[k].type = CREATE /\ m[k].key = k

LEMMA EmptyEventsMapType == EmptyEventsMap \in EventsMap /\ SurvivorsOK(EmptyEventsMap)
BY DEF EmptyEventsMap, EventsMap, SurvivorsOK

\* The strategies of compaction only ever keep CREATE events, and a renamed
\* one is filed under the key it carries.
LEMMA CompactEventType ==
    ASSUME NEW m \in EventsMap, SurvivorsOK(m), NEW e, WellFormed(e), NEW t \in Int
    PROVE  CompactEvent(m, e, t) \in EventsMap /\ SurvivorsOK(CompactEvent(m, e, t))
<1>0. /\ e \in Event /\ e.type \in EventType
      /\ e.type # CLEAR => e.key \in Keys
      /\ e.type = RENAME => e.renameKey \in Keys
  BY DEF WellFormed, Event, EventType, CREATE, RENAME, DELETE, CLEAR
<1>1. CASE e.type = CREATE
  <2>1. CompactEvent(m, e, t) = m \/ CompactEvent(m, e, t) = [m EXCEPT ![e.key] = e]
    BY <1>1 DEF CompactEvent, CreateCompactStrategy, CREATE, RENAME, DELETE, CLEAR
  <2> QED
    BY <2>1, <1>0, <1>1 DEF EventsMap, SurvivorsOK, CREATE, CLEAR
<1>2. CASE e.type = RENAME
  <2> DEFINE r == [m[e.key] EXCEPT !.key = e.renameKey]
  <2>0. e.key \in Keys /\ e.renameKey \in Keys
    BY <1>0, <1>2 DEF RENAME, CLEAR
  <2>1. \/ CompactEvent(m, e, t) = m
        \/ /\ m[e.key] # Absent
           /\ CompactEvent(m, e, t) = [[m EXCEPT ![e.key] = Absent] EXCEPT ![e.renameKey] = r]
    BY <1>2 DEF CompactEvent, RenameCompactStrategy, CREATE, RENAME, DELETE, CLEAR
  <2>2. ASSUME m[e.key] # Absent
        PROVE  r \in Event /\ WellFormed(r) /\ r.type = CREATE /\ r.key = e.renameKey
    <3>1. WellFormed(m[e.key]) /\ m[e.key].type = CREATE
      BY <2>0, <2>2 DEF SurvivorsOK
    <3>2. /\ r.type = m[e.key].type /\ r.timestamp = m[e.key].timestamp
          /\ r.key = e.renameKey /\ r.renameKey = m[e.key].renameKey
          /\ r.payload = m[e.key].payload
          /\ r \in Event
      BY <3>1, <2>0 DEF WellFormed, Event
    <3> HIDE DEF r
    <3> QED
      BY <3>1, <3>2, <2>0, StoreAssumption DEF WellFormed, CREATE, RENAME, CLEAR
  <2> HIDE DEF r
  <2> QED
    BY <2>0, <2>1, <2>2 DEF EventsMap, SurvivorsOK
<1>3. CASE e.type = DELETE
  <2>1. CompactEvent(m, e, t) = [m EXCEPT ![e.key] = Absent]
    BY <1>3 DEF CompactEvent, DeleteCompactStrategy, CREATE, RENAME, DELETE, CLEAR
  <2> QED
    BY <2>1, <1>0, <1>3 DEF EventsMap, SurvivorsOK, DELETE, CLEAR
<1>4. CASE e.type = CLEAR
  <2>1. CompactEvent(m, e, t) = EmptyEventsMap
    BY <1>4 DEF CompactEvent, ClearCompactStrategy, CREATE, RENAME, DELETE, CLEAR
  <2> QED
    BY <2>1, EmptyEventsMapType
<1> QED
  BY <1>0, <1>1, <1>2, <1>3, <1>4 DEF EventType

-----------------------------------------------------------------------------
(* The two maps of the store. *)

\* A deadline for exactly the keys with a value, or none without a TTL.
Aligned(s) ==
    \A k \in Keys : s.m_ttlData[k] # Absent <=> HasTimeToLive(s) /\ s.m_data[k] # Absent

LEMMA EmptyAligned == \A ttl : Aligned(EmptyStore(ttl))
BY DEF Aligned, EmptyStore

\* ApplyEvent updates both maps alike, also when a key is renamed to itself.
LEMMA ApplyEventAligned ==
    ASSUME NEW s \in Store, Aligned(s), NEW e, WellFormed(e), NEW t \in Int
    PROVE  Aligned(ApplyEvent(s, e, t))
<1>0. /\ e.type \in EventType /\ e.timestamp \in Int
      /\ e.type # CLEAR => e.key \in Keys
      /\ e.type = RENAME => e.renameKey \in Keys
      /\ e.type = CREATE => e.payload \in Values
  BY DEF WellFormed, Event, EventType, CREATE, RENAME, DELETE, CLEAR
<1>1. /\ s.m_ttl \in Int
      /\ s.m_data \in [Keys -> Values \cup {Absent}]
      /\ s.m_ttlData \in [Keys -> Int \cup {Absent}]
  BY DEF Store, DataMap, TTLMap
<1>2. CASE e.type = CREATE
  <2>1. ApplyEvent(s, e, t) = StoreCreate(s, e.key, e.payload, e.timestamp)
    BY <1>2 DEF ApplyEvent, CREATE, RENAME, DELETE, CLEAR
  <2>2. e.payload # Absent /\ e.timestamp # Absent
    BY <1>0, <1>2, StoreAssumption
  <2> QED
    BY <1>0, <1>1, <1>2, <2>1, <2>2
    DEF StoreCreate, StoreWith, Aligned, HasTimeToLive, CREATE, CLEAR
<1>3. CASE e.type = RENAME
  <2>1. ApplyEvent(s, e, t) = StoreRename(s, e.key, e.renameKey, t)
    BY <1>3 DEF ApplyEvent, CREATE, RENAME, DELETE, CLEAR
  <2>2. e.key \in Keys /\ e.renameKey \in Keys
    BY <1>0, <1>3 DEF RENAME, CLEAR
  <2>3. CASE ~CanRename(s, e.key, t)
    BY <2>1, <2>3 DEF StoreRename
  <2>4. CASE CanRename(s, e.key, t) /\ s.m_ttlData[e.key] # Absent
    <3> DEFINE data == MoveEntry(s.m_data, e.key, e.renameKey)
               ttlData == MoveEntry(s.m_ttlData, e.key, e.renameKey)
    <3>1. ApplyEvent(s, e, t) = StoreWith(s, data, ttlData)
      BY <2>1, <2>4 DEF StoreRename
    <3>2. \A k \in Keys : data[k] = IF k = e.key THEN Absent
                                     ELSE IF k = e.renameKey THEN s.m_data[e.key] ELSE s.m_data[k]
      BY <1>1, <2>2 DEF MoveEntry
    <3>3. \A k \in Keys : ttlData[k] = IF k = e.key THEN Absent
                                        ELSE IF k = e.renameKey THEN s.m_ttlData[e.key]
                                             ELSE s.m_ttlData[k]
      BY <1>1, <2>2 DEF MoveEntry
    <3> HIDE DEF data, ttlData
    <3> QED
      BY <2>2, <3>1, <3>2, <3>3 DEF StoreWith, Aligned, HasTimeToLive
  <2>5. CASE CanRename(s, e.key, t) /\ s.m_ttlData[e.key] = Absent
    <3> DEFINE data == MoveEntry(s.m_data, e.key, e.renameKey)
               ttlData == [s.m_ttlData EXCEPT ![e.renameKey] = Absent]
    <3>1. ApplyEvent(s, e, t) = StoreWith(s, data, ttlData)
      BY <2>1, <2>5 DEF StoreRename
    <3>2. ~HasTimeToLive(s)
      BY <2>2, <2>5 DEF CanRename, Aligned
    <3>3. \A k \in Keys : s.m_ttlData[k] = Absent
      BY <3>2 DEF Aligned
    <3>4. \A k \in Keys : ttlData[k] = Absent
      BY <1>1, <2>2, <3>3
    <3> HIDE DEF data, ttlData
    <3> QED
      BY <3>1, <3>2, <3>4 DEF StoreWith, Aligned, HasTimeToLive
  <2> QED
    BY <2>3, <2>4, <2>5
<1>4. CASE e.type = DELETE
  <2>1. ApplyEvent(s, e, t) = StoreDelete(s, e.key)
    BY <1>4 DEF ApplyEvent, CREATE, RENAME, DELETE, CLEAR
  <2> QED
    BY <1>0, <1>1, <1>4, <2>1
    DEF StoreDelete, StoreWith, Aligned, HasTimeToLive, DELETE, CLEAR
<1>5. CASE e.type = CLEAR
  <2>1. ApplyEvent(s, e, t) = StoreClear(s)
    BY <1>5 DEF ApplyEvent, CREATE, RENAME, DELETE, CLEAR
  <2> QED
    BY <2>1, EmptyAligned DEF StoreClear
<1> QED
  BY <1>0, <1>2, <1>3, <1>4, <1>5 DEF EventType

-----------------------------------------------------------------------------
(* Loops over the records of a log. *)

\* A loop of n iterations from value a: h[i] is the value after the i-th.
Iteration(h, a, n, step) ==
    /\ h[0] = a
    /\ \A i \in 1..n : h[i] = step[i][h[i - 1]]

LEMMA IterationExists ==
    ASSUME NEW S, NEW a \in S, NEW n \in Nat, NEW step \in [1..n -> [S -> S]]
    PROVE  \E h \in [0..n -> S] : Iteration(h, a, n, step)
<1> DEFINE Reached == {m \in 0..n : \E h \in [0..m -> S] : Iteration(h, a, m, step)}
           Bad == (0..n) \ Reached
<1> SUFFICES ASSUME Bad # {} PROVE FALSE
  OBVIOUS
<1>1. PICK m \in Bad : \A y \in Bad : y >= m
  <2>1. Bad \subseteq Nat
    OBVIOUS
  <2> HIDE DEF Bad
  <2> QED
    BY <2>1, LeastElement
<1>2. m # 0
  <2> DEFINE z == [i \in 0..0 |-> a]
  <2>1. z \in [0..0 -> S] /\ Iteration(z, a, 0, step)
    BY DEF Iteration
  <2> QED
    BY <2>1
<1>3. m - 1 \in Reached
  BY <1>1, <1>2
<1>4. PICK h \in [0..(m - 1) -> S] : Iteration(h, a, m - 1, step)
  BY <1>3
<1> DEFINE g == [i \in 0..m |-> IF i = m THEN step[m][h[m - 1]] ELSE h[i]]
<1>5. m \in 1..n
  BY <1>2
<1>6. step[m] \in [S -> S] /\ h[m - 1] \in S
  BY <1>5
<1>7. g \in [0..m -> S]
  BY <1>5, <1>6
<1>8. Iteration(g, a, m, step)
  BY <1>4, <1>5 DEF Iteration
<1>9. m \in Reached
  BY <1>5, <1>7, <1>8
<1> QED
  BY <1>9

\* The stores that replaying the first n records of recs goes through.
ReplayTrace(h, recs, n, ttl, t) ==
    /\ h \in [0..n -> Store]
    /\ h[0] = EmptyStore(ttl)
    /\ \A i \in 1..n : h[i] = ApplyEvent(h[i - 1], Deserialize(recs[i].fields), t)

\* A replay stays in every set of stores that it starts in and that no event
\* of the log leads out of.
LEMMA ReplayTraceExists ==
    ASSUME NEW recs, NEW n \in Nat, NEW ttl, NEW t,
           NEW S, S \subseteq Store, EmptyStore(ttl) \in S,
           \A i \in 1..n : \A s \in S : ApplyEvent(s, Deserialize(recs[i].fields), t) \in S
    PROVE  \E h \in [0..n -> S] : ReplayTrace(h, recs, n, ttl, t)
<1> DEFINE step == [i \in 1..n |-> [s \in S |->
                        ApplyEvent(s, Deserialize(recs[i].fields), t)]]
<1>2. step \in [1..n -> [S -> S]]
  OBVIOUS
<1>3. \A i \in 1..n, s \in S : step[i][s] = ApplyEvent(s, Deserialize(recs[i].fields), t)
  OBVIOUS
<1> HIDE DEF step
<1>4. PICK h \in [0..n -> S] : Iteration(h, EmptyStore(ttl), n, step)
  BY <1>2, IterationExists
<1>5. \A i \in 1..n : h[i] = ApplyEvent(h[i - 1], Deserialize(recs[i].fields), t)
  <2> TAKE i \in 1..n
  <2>1. i - 1 \in 0..n
    OBVIOUS
  <2>2. h[i - 1] \in S
    BY <2>1
  <2> QED
    BY <1>3, <1>4, <2>2 DEF Iteration
<1>6. h \in [0..n -> Store]
  OBVIOUS
<1> QED
  BY <1>4, <1>5, <1>6 DEF ReplayTrace, Iteration

\* What ReplayedStore computes is where such a trace ends.
LEMMA ReplayedStoreTrace ==
    ASSUME NEW recs, NEW n \in Nat, n = WholePrefix(recs), NEW ttl, NEW t,
           NEW h, ReplayTrace(h, recs, n, ttl, t)
    PROVE  ReplayedStore(recs, ttl, t) = h[n]
<1> DEFINE F(f) == [i \in 0..n |-> IF i = 0 THEN EmptyStore(ttl)
                                   ELSE ApplyEvent(f[i - 1], Deserialize(recs[i].fields), t)]
           rec == CHOOSE f : f = F(f)
<1>1. h = F(h)
  BY DEF ReplayTrace
<1>2. ReplayedStore(recs, ttl, t) = rec[n]
  BY Zenon DEF ReplayedStore
<1>3. rec = F(rec)
  BY <1>1, Zenon
<1> HIDE DEF rec
<1>4. /\ rec[0] = EmptyStore(ttl)
      /\ \A i \in 1..n : rec[i] = ApplyEvent(rec[i - 1], Deserialize(recs[i].fields), t)
  BY <1>3
<1> DEFINE Bad == {i \in 0..n : rec[i] # h[i]}
<1>5. Bad = {}
  <2> SUFFICES ASSUME Bad # {} PROVE FALSE
    OBVIOUS
  <2>1. PICK m \in Bad : \A y \in Bad : y >= m
    <3>1. Bad \subseteq Nat
      OBVIOUS
    <3> HIDE DEF Bad
    <3> QED
      BY <3>1, LeastElement
  <2>2. m # 0
    BY <1>4 DEF ReplayTrace
  <2>3. m - 1 \in 0..n /\ m - 1 \notin Bad /\ m \in 1..n
    BY <2>1, <2>2
  <2>4. rec[m - 1] = h[m - 1]
    BY <2>3
  <2> QED
    BY <2>3, <2>4, <1>4 DEF ReplayTrace
<1> QED
  BY <1>2, <1>5

\* When no record is torn the whole log is replayed.
LEMMA WholePrefixOfWhole ==
    ASSUME NEW recs \in Seq(Record), \A i \in 1..Len(recs) : Whole(recs[i])
    PROVE  WholePrefix(recs) = Len(recs)
<1>1. Len(recs) \in Nat
  BY LenProperties
<1>2. /\ WholePrefix(recs) \in 0..Len(recs)
      /\ WholePrefix(recs) = Len(recs) \/ ~Whole(recs[WholePrefix(recs) + 1])
  BY WholePrefixProperties
<1> QED
  BY <1>1, <1>2

\* Replaying a log with one more record: one more event applied.
LEMMA ReplayAppend ==
    ASSUME NEW recs \in Seq(Record), NEW ttl, NEW t, NEW e, WellFormed(e),
           \A i \in 1..Len(recs) : Whole(recs[i]),
           NEW h, ReplayTrace(h, recs, Len(recs), ttl, t),
           ApplyEvent(h[Len(recs)], e, t) \in Store
    PROVE  /\ ReplayedStore(recs, ttl, t) = h[Len(recs)]
           /\ ReplayedStore(Append(recs, WriteRecord(e)), ttl, t) = ApplyEvent(h[Len(recs)], e, t)
<1> DEFINE n == Len(recs)
           recs2 == Append(recs, WriteRecord(e))
           g == [i \in 0..(n + 1) |-> IF i = n + 1 THEN ApplyEvent(h[n], e, t) ELSE h[i]]
<1>0. n \in Nat
  BY LenProperties
<1>1. /\ WriteRecord(e) \in Record /\ Whole(WriteRecord(e))
      /\ Deserialize(WriteRecord(e).fields) = e
  BY WriteRecordOK DEF RecordOK
<1>2. /\ recs2 \in Seq(Record) /\ Len(recs2) = n + 1
      /\ \A i \in 1..n : recs2[i] = recs[i]
      /\ recs2[n + 1] = WriteRecord(e)
  BY <1>1, AppendProperties, LenProperties
<1>3. WholePrefix(recs) = n
  BY WholePrefixOfWhole
<1> HIDE DEF recs2, n
<1>4. WholePrefix(recs2) = n + 1
  <2>1. \A i \in 1..(n + 1) : Whole(recs2[i])
    BY <1>0, <1>1, <1>2 DEF n
  <2> QED
    BY <1>2, <2>1, WholePrefixOfWhole
<1>5. ReplayTrace(g, recs2, n + 1, ttl, t)
  <2>1. /\ g[n + 1] = ApplyEvent(h[n], e, t)
        /\ \A i \in 0..n : g[i] = h[i]
    BY <1>0
  <2>2. g \in [0..(n + 1) -> Store]
    BY <1>0 DEF ReplayTrace, n
  <2> HIDE DEF g
  <2>3. g[0] = EmptyStore(ttl)
    BY <1>0, <2>1 DEF ReplayTrace
  <2>4. ASSUME NEW i \in 1..(n + 1)
        PROVE  g[i] = ApplyEvent(g[i - 1], Deserialize(recs2[i].fields), t)
    <3>1. CASE i = n + 1
      BY <1>0, <1>1, <1>2, <2>1, <3>1
    <3>2. CASE i # n + 1
      <4>1. i \in 1..n /\ i \in 0..n /\ i - 1 \in 0..n
        BY <1>0, <3>2
      <4> QED
        BY <1>2, <2>1, <4>1 DEF ReplayTrace, n
    <3> QED
      BY <3>1, <3>2
  <2> QED
    BY <2>2, <2>3, <2>4 DEF ReplayTrace
<1>6. g[n + 1] = ApplyEvent(h[n], e, t)
  BY <1>0
<1> HIDE DEF g
<1>7. ReplayedStore(recs, ttl, t) = h[n]
  BY <1>0, <1>3, ReplayedStoreTrace DEF n
<1>8. ReplayedStore(recs2, ttl, t) = g[n + 1]
  <2>1. n + 1 \in Nat
    BY <1>0
  <2> QED
    BY <2>1, <1>4, <1>5, ReplayedStoreTrace
<1> QED
  BY <1>6, <1>7, <1>8 DEF n, recs2
=============================================================================
