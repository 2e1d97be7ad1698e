------------------------ MODULE RadishDurableProofs ------------------------
(***************************************************************************)
(* Without expiry, and as long as no key is renamed to itself and nothing  *)
(* is written behind a torn record, RadishDB never loses, revives or       *)
(* alters a committed entry, across any number of crashes, recoveries,     *)
(* failed operations and compactions.  With expiry the same is true of     *)
(* what has not expired, if the TTL is always the same, nothing is renamed *)
(* and no deadline overflows.                                              *)
(*                                                                         *)
(* The invariant says what replaying the file gives without computing it:  *)
(* there is a sequence of data maps, one per whole record, that starts     *)
(* empty, in which every map is the previous one after the record's event, *)
(* and which ends in the committed data.  Replay and Compact walk along    *)
(* that sequence.                                                          *)
(***************************************************************************)
EXTENDS RadishDBProofs

NoSelfRename == \A p \in RenamePairs : p[1] # p[2]
NeverExpires == TtlChoices \subseteq {NoExpiry}

EmptyData == [k \in Keys |-> Absent]

\* A store without a TTL, and without a deadline.
PlainStore(d) == [m_ttl |-> NoExpiry, m_data |-> d, m_ttlData |-> [k \in Keys |-> Absent]]

IsPlain(s) == s.m_data \in DataMap /\ s = PlainStore(s.m_data)

\* What an event does to the data of such a store; the clock plays no part.
DataApply(d, e) == ApplyEvent(PlainStore(d), e, 0).m_data

-----------------------------------------------------------------------------
LEMMA PlainStoreFacts ==
    ASSUME NEW d \in DataMap
    PROVE  /\ PlainStore(d) \in Store
           /\ PlainStore(d).m_ttl = NoExpiry
           /\ PlainStore(d).m_data = d
           /\ PlainStore(d).m_ttlData = [k \in Keys |-> Absent]
           /\ ~HasTimeToLive(PlainStore(d))
           /\ IsPlain(PlainStore(d))
BY DEF PlainStore, Store, NoExpiry, HasTimeToLive, TTLMap, IsPlain

LEMMA EmptyPlain == EmptyData \in DataMap /\ EmptyStore(NoExpiry) = PlainStore(EmptyData)
BY DEF EmptyData, DataMap, EmptyStore, PlainStore

\* r is what event e makes of the data d.
PlainEffect(d, e, r) ==
    /\ r \in DataMap
    /\ e.type = CREATE => r = [d EXCEPT ![e.key] = e.payload]
    /\ e.type = RENAME =>
          r = IF d[e.key] = Absent THEN d ELSE MoveEntry(d, e.key, e.renameKey)
    /\ e.type = DELETE => r = [d EXCEPT ![e.key] = Absent]
    /\ e.type = CLEAR => r = EmptyData

\* On a plain store ApplyEvent is a change of the data, the same at all times.
LEMMA ApplyPlain ==
    ASSUME NEW d \in DataMap, NEW e, WellFormed(e), NEW t \in Int,
           NEW r, r = ApplyEvent(PlainStore(d), e, t).m_data
    PROVE  ApplyEvent(PlainStore(d), e, t) = PlainStore(r) /\ PlainEffect(d, e, r)
<1> DEFINE s == PlainStore(d)
           none == [k \in Keys |-> Absent]
           a == ApplyEvent(s, e, t)
<1>0. /\ e.type \in EventType
      /\ e.type # CLEAR => e.key \in Keys
      /\ e.type = RENAME => e.renameKey \in Keys
      /\ e.type = CREATE => e.payload \in Values
  BY DEF WellFormed, Event, EventType, CREATE, RENAME, DELETE, CLEAR
<1>1. /\ s \in Store /\ s.m_ttl = NoExpiry /\ s.m_data = d /\ s.m_ttlData = none
      /\ ~HasTimeToLive(s)
  BY PlainStoreFacts
<1>2. a.m_data \in DataMap
  <2>1. a \in Store
    BY <1>1, ApplyEventType
  <2> QED
    BY <2>1 DEF Store
<1>3. \A x : StoreWith(s, x, none) = PlainStore(x)
  BY <1>1 DEF StoreWith, PlainStore
<1>4. \A k \in Keys : [none EXCEPT ![k] = Absent] = none
  OBVIOUS
<1>5. \A x : PlainStore(x).m_data = x
  BY DEF PlainStore
<1> HIDE DEF s, none
<1>6. CASE e.type = CREATE
  <2>1. a = StoreCreate(s, e.key, e.payload, e.timestamp)
    BY <1>6 DEF ApplyEvent, CREATE, RENAME, DELETE, CLEAR
  <2>2. a = PlainStore([d EXCEPT ![e.key] = e.payload])
    BY <2>1, <1>1, <1>3 DEF StoreCreate
  <2> QED
    BY <2>2, <1>2, <1>5, <1>6 DEF s, PlainEffect, CREATE, RENAME, DELETE, CLEAR
<1>7. CASE e.type = RENAME
  <2>1. a = StoreRename(s, e.key, e.renameKey, t)
    BY <1>7 DEF ApplyEvent, CREATE, RENAME, DELETE, CLEAR
  <2>2. e.key \in Keys /\ e.renameKey \in Keys
    BY <1>0, <1>7 DEF RENAME, CLEAR
  <2>3. CanRename(s, e.key, t) <=> d[e.key] # Absent
    BY <1>1 DEF CanRename, IsExpired
  <2>4. none[e.key] = Absent
    BY <2>2 DEF none
  <2>5. CASE d[e.key] = Absent
    <3>1. a = s
      BY <2>1, <2>3, <2>5 DEF StoreRename
    <3> QED
      BY <3>1, <2>5, <1>1, <1>2, <1>7 DEF s, PlainEffect, CREATE, RENAME, DELETE, CLEAR
  <2>6. CASE d[e.key] # Absent
    <3>1. a = StoreWith(s, MoveEntry(d, e.key, e.renameKey), [none EXCEPT ![e.renameKey] = Absent])
      BY <2>1, <2>3, <2>4, <2>6, <1>1 DEF StoreRename
    <3>2. a = PlainStore(MoveEntry(d, e.key, e.renameKey))
      BY <3>1, <2>2, <1>3, <1>4
    <3> QED
      BY <3>2, <2>6, <1>2, <1>5, <1>7 DEF s, PlainEffect, CREATE, RENAME, DELETE, CLEAR
  <2> QED
    BY <2>5, <2>6
<1>8. CASE e.type = DELETE
  <2>1. a = StoreDelete(s, e.key)
    BY <1>8 DEF ApplyEvent, CREATE, RENAME, DELETE, CLEAR
  <2>2. e.key \in Keys
    BY <1>0, <1>8 DEF DELETE, CLEAR
  <2>3. a = PlainStore([d EXCEPT ![e.key] = Absent])
    BY <2>1, <2>2, <1>1, <1>3, <1>4 DEF StoreDelete
  <2> QED
    BY <2>3, <1>2, <1>5, <1>8 DEF s, PlainEffect, CREATE, RENAME, DELETE, CLEAR
<1>9. CASE e.type = CLEAR
  <2>1. a = StoreClear(s)
    BY <1>9 DEF ApplyEvent, CREATE, RENAME, DELETE, CLEAR
  <2>2. StoreIsEmpty(s) => d = EmptyData
    BY <1>1 DEF StoreIsEmpty, EmptyData, DataMap
  <2>3. a = PlainStore(EmptyData)
    BY <2>1, <2>2, <1>1, EmptyPlain DEF StoreClear, s
  <2> QED
    BY <2>3, <1>2, <1>5, <1>9 DEF s, PlainEffect, CREATE, RENAME, DELETE, CLEAR
<1> QED
  BY <1>0, <1>6, <1>7, <1>8, <1>9 DEF EventType

LEMMA DataApplyFacts ==
    ASSUME NEW d \in DataMap, NEW e, WellFormed(e), NEW t \in Int
    PROVE  /\ ApplyEvent(PlainStore(d), e, t) = PlainStore(DataApply(d, e))
           /\ DataApply(d, e) \in DataMap
           /\ e.type = CREATE => DataApply(d, e) = [d EXCEPT ![e.key] = e.payload]
           /\ e.type = RENAME => DataApply(d, e) =
                 IF d[e.key] = Absent THEN d ELSE MoveEntry(d, e.key, e.renameKey)
           /\ e.type = DELETE => DataApply(d, e) = [d EXCEPT ![e.key] = Absent]
           /\ e.type = CLEAR => DataApply(d, e) = EmptyData
<1> DEFINE r0 == ApplyEvent(PlainStore(d), e, 0).m_data
           r == ApplyEvent(PlainStore(d), e, t).m_data
<1>0. e.type \in EventType /\ 0 \in Int
  BY DEF WellFormed, Event
<1>1. PlainEffect(d, e, r0)
  BY <1>0, ApplyPlain
<1>2. ApplyEvent(PlainStore(d), e, t) = PlainStore(r) /\ PlainEffect(d, e, r)
  BY ApplyPlain
<1> HIDE DEF r0, r
<1>3. r = r0
  BY <1>0, <1>1, <1>2 DEF EventType, PlainEffect
<1> QED
  BY <1>1, <1>2, <1>3 DEF DataApply, r0, PlainEffect

-----------------------------------------------------------------------------
(* Compaction of one event. *)

\* An event such a database writes.
EventFine(e) ==
    /\ WellFormed(e)
    /\ e.type = CREATE => e.timestamp = NoExpiry
    /\ e.type = RENAME => <<e.key, e.renameKey>> \in RenamePairs

\* The compaction map m stands for the data d.
StandsFor(m, d) ==
    \A k \in Keys : /\ m[k] = Absent <=> d[k] = Absent
                    /\ m[k] # Absent => m[k].payload = d[k] /\ m[k].timestamp = NoExpiry

LEMMA EmptyStandsFor == StandsFor(EmptyEventsMap, EmptyData)
BY DEF StandsFor, EmptyEventsMap, EmptyData

\* Each compaction strategy does to the map what the event does to the data.
LEMMA CompactAgrees ==
    ASSUME NoSelfRename,
           NEW m \in EventsMap, SurvivorsOK(m), NEW d \in DataMap, StandsFor(m, d),
           NEW e, EventFine(e), NEW t \in Int
    PROVE  StandsFor(CompactEvent(m, e, t), DataApply(d, e))
<1>0. /\ WellFormed(e) /\ e \in Event /\ e.type \in EventType
      /\ e.type # CLEAR => e.key \in Keys
      /\ e.type = RENAME => e.renameKey \in Keys
      /\ e.type = CREATE => e.payload \in Values
  BY DEF EventFine, WellFormed, Event, EventType, CREATE, RENAME, DELETE, CLEAR
<1>1. CASE e.type = CREATE
  <2>1. ~PastDeadline(e, t)
    BY <1>1 DEF PastDeadline, EventFine
  <2>2. CompactEvent(m, e, t) = [m EXCEPT ![e.key] = e]
    BY <1>1, <2>1 DEF CompactEvent, CreateCompactStrategy, CREATE, RENAME, DELETE, CLEAR
  <2>3. DataApply(d, e) = [d EXCEPT ![e.key] = e.payload]
    BY <1>0, <1>1, DataApplyFacts, Zenon
  <2>4. e.key \in Keys /\ e.payload \in Values /\ e.timestamp = NoExpiry
    BY <1>0, <1>1 DEF EventFine, CREATE, CLEAR
  <2>5. e # Absent /\ e.payload # Absent
    BY <1>0, <2>4, LogAssumption, StoreAssumption
  <2> QED
    BY <2>2, <2>3, <2>4, <2>5 DEF StandsFor, EventsMap, DataMap
<1>2. CASE e.type = RENAME
  <2>0. /\ e.key \in Keys /\ e.renameKey \in Keys
        /\ e.key # e.renameKey
    BY <1>0, <1>2 DEF EventFine, NoSelfRename, RENAME, CLEAR
  <2>1. CompactEvent(m, e, t) = RenameCompactStrategy(m, e)
    BY <1>2 DEF CompactEvent, CREATE, RENAME, DELETE, CLEAR
  <2>2. DataApply(d, e) = IF d[e.key] = Absent THEN d ELSE MoveEntry(d, e.key, e.renameKey)
    BY <1>0, <1>2, DataApplyFacts, Zenon
  <2>3. CASE m[e.key] = Absent
    <3>1. CompactEvent(m, e, t) = m
      BY <2>1, <2>3 DEF RenameCompactStrategy
    <3>2. DataApply(d, e) = d
      BY <2>0, <2>2, <2>3 DEF StandsFor
    <3> QED
      BY <3>1, <3>2
  <2>4. CASE m[e.key] # Absent
    <3> DEFINE r == [m[e.key] EXCEPT !.key = e.renameKey]
    <3>1. CompactEvent(m, e, t) = [[m EXCEPT ![e.key] = Absent] EXCEPT ![e.renameKey] = r]
      BY <2>1, <2>4 DEF RenameCompactStrategy
    <3>2. m[e.key] \in Event
      BY <2>0, <2>4 DEF SurvivorsOK, WellFormed
    <3>a. m[e.key].payload = d[e.key] /\ m[e.key].timestamp = NoExpiry
      BY <2>0, <2>4 DEF StandsFor
    <3>b. /\ r.payload = m[e.key].payload /\ r.timestamp = m[e.key].timestamp
          /\ r \in Event
      BY <2>0, <3>2 DEF Event
    <3>3. /\ r.payload = d[e.key] /\ r.timestamp = NoExpiry
          /\ r \in Event
      BY <3>a, <3>b
    <3>4. r # Absent
      BY <3>3, LogAssumption
    <3>5. d[e.key] # Absent
      BY <2>0, <2>4 DEF StandsFor
    <3>6. \A k \in Keys : DataApply(d, e)[k] =
              IF k = e.key THEN Absent ELSE IF k = e.renameKey THEN d[e.key] ELSE d[k]
      <4>1. DataApply(d, e) = MoveEntry(d, e.key, e.renameKey)
        BY <2>2, <3>5
      <4>2. d \in [Keys -> Values \cup {Absent}]
        BY DEF DataMap
      <4> QED
        BY <4>1, <4>2, <2>0 DEF MoveEntry
    <3> HIDE DEF r
    <3> DEFINE c == CompactEvent(m, e, t)
    <3>7. \A k \in Keys : c[k] =
              IF k = e.renameKey THEN r ELSE IF k = e.key THEN Absent ELSE m[k]
      BY <3>1, <2>0 DEF EventsMap
    <3> HIDE DEF c
    <3> SUFFICES StandsFor(c, DataApply(d, e))
      BY DEF c
    <3> QED
      BY <3>3, <3>4, <3>5, <3>6, <3>7, <2>0 DEF StandsFor
  <2> QED
    BY <2>3, <2>4
<1>3. CASE e.type = DELETE
  <2>1. CompactEvent(m, e, t) = [m EXCEPT ![e.key] = Absent]
    BY <1>3 DEF CompactEvent, DeleteCompactStrategy, CREATE, RENAME, DELETE, CLEAR
  <2>2. DataApply(d, e) = [d EXCEPT ![e.key] = Absent]
    BY <1>0, <1>3, DataApplyFacts, Zenon
  <2>3. e.key \in Keys
    BY <1>0, <1>3 DEF DELETE, CLEAR
  <2> QED
    BY <2>1, <2>2, <2>3 DEF StandsFor, EventsMap, DataMap
<1>4. CASE e.type = CLEAR
  <2>1. CompactEvent(m, e, t) = EmptyEventsMap
    BY <1>4 DEF CompactEvent, ClearCompactStrategy, CREATE, RENAME, DELETE, CLEAR
  <2>2. DataApply(d, e) = EmptyData
    BY <1>0, <1>4, DataApplyFacts, Zenon
  <2> QED
    BY <2>1, <2>2, EmptyStandsFor
<1> QED
  BY <1>0, <1>1, <1>2, <1>3, <1>4 DEF EventType

-----------------------------------------------------------------------------
(* What replaying the first n records of a file gives. *)

EventAt(recs, i) == Deserialize(recs[i].fields)

Trace(h, recs, n) ==
    /\ h \in [0..n -> DataMap]
    /\ h[0] = EmptyData
    /\ \A i \in 1..n : h[i] = DataApply(h[i - 1], EventAt(recs, i))

\* A trace with the data after one more record.
Extend(h, n, d) == [i \in 0..(n + 1) |-> IF i = n + 1 THEN d ELSE h[i]]

LEMMA EmptyTrace ==
    ASSUME NEW recs
    PROVE  Trace([i \in 0..0 |-> EmptyData], recs, 0)
BY EmptyPlain DEF Trace

LEMMA AppendTrace ==
    ASSUME NEW recs \in Seq(Record), NEW n \in 0..Len(recs), NEW h, Trace(h, recs, n),
           NEW r \in Record
    PROVE  Trace(h, Append(recs, r), n)
<1>1. Len(recs) \in Nat /\ \A i \in 1..n : Append(recs, r)[i] = recs[i]
  BY AppendProperties, LenProperties
<1> QED
  BY <1>1 DEF Trace, EventAt

LEMMA ExtendTrace ==
    ASSUME NEW recs \in Seq(Record), NEW h, Trace(h, recs, Len(recs)),
           NEW e, WellFormed(e)
    PROVE  LET n == Len(recs)
               g == Extend(h, n, DataApply(h[n], e))
           IN  /\ Trace(g, Append(recs, WriteRecord(e)), n + 1)
               /\ g[n + 1] = DataApply(h[n], e)
<1> DEFINE n == Len(recs)
           d == DataApply(h[n], e)
           g == Extend(h, n, d)
           recs2 == Append(recs, WriteRecord(e))
<1>0. n \in Nat
  BY LenProperties
<1>1. WriteRecord(e) \in Record /\ EventAt(<<WriteRecord(e)>>, 1) = e
      /\ Deserialize(WriteRecord(e).fields) = e
  BY WriteRecordOK DEF RecordOK, EventAt
<1>2. /\ \A i \in 1..n : recs2[i] = recs[i]
      /\ recs2[n + 1] = WriteRecord(e)
  BY <1>1, AppendProperties, LenProperties
<1>3. h \in [0..n -> DataMap] /\ h[n] \in DataMap
  BY <1>0 DEF Trace
<1>4. d \in DataMap
  BY <1>3, DataApplyFacts
<1> HIDE DEF d, n, recs2
<1>5. /\ g \in [0..(n + 1) -> DataMap]
      /\ g[n + 1] = d
      /\ \A i \in 0..n : g[i] = h[i]
  BY <1>0, <1>3, <1>4 DEF Extend
<1> HIDE DEF g
<1>6. g[0] = EmptyData
  BY <1>0, <1>5 DEF Trace, n
<1>7. ASSUME NEW i \in 1..(n + 1) PROVE g[i] = DataApply(g[i - 1], EventAt(recs2, i))
  <2>1. CASE i = n + 1
    <3>1. EventAt(recs2, i) = e
      BY <1>1, <1>2, <2>1 DEF EventAt
    <3>2. g[i - 1] = h[n] /\ g[i] = d
      BY <1>0, <1>5, <2>1
    <3> QED
      BY <3>1, <3>2 DEF d
  <2>2. CASE i # n + 1
    <3>1. i \in 1..n /\ i - 1 \in 0..n /\ i \in 0..n
      BY <1>0, <2>2
    <3>2. EventAt(recs2, i) = EventAt(recs, i)
      BY <3>1, <1>2 DEF EventAt
    <3>3. h[i] = DataApply(h[i - 1], EventAt(recs, i))
      BY <3>1 DEF Trace, n
    <3> QED
      BY <3>1, <3>2, <3>3, <1>5
  <2> QED
    BY <2>1, <2>2
<1>8. Trace(g, recs2, n + 1)
  BY <1>5, <1>6, <1>7 DEF Trace
<1> QED
  BY <1>5, <1>8 DEF g, d, n, recs2

-----------------------------------------------------------------------------
(* Files in which only the last record may be incomplete. *)

TornOnlyLast(recs) == \A i \in 1..(Len(recs) - 1) : Whole(recs[i])

LogFine(recs) ==
    /\ TornOnlyLast(recs)
    /\ \A i \in 1..Len(recs) : Whole(recs[i]) => EventFine(EventAt(recs, i))

WholeCount(recs) == IF TornTail(recs) THEN Len(recs) - 1 ELSE Len(recs)

LEMMA WholeCountFacts ==
    ASSUME NEW recs \in Seq(Record), TornOnlyLast(recs)
    PROVE  /\ Len(recs) \in Nat
           /\ WholeCount(recs) \in 0..Len(recs)
           /\ \A i \in 1..WholeCount(recs) : Whole(recs[i])
           /\ ~TornTail(recs) => WholeCount(recs) = Len(recs)
           /\ WholeCount(recs) # Len(recs) =>
                 /\ WholeCount(recs) = Len(recs) - 1
                 /\ ~Whole(recs[Len(recs)])
<1>0. Len(recs) \in Nat /\ (recs # <<>> => Len(recs) > 0) /\ (recs = <<>> => Len(recs) = 0)
  BY LenProperties, EmptySeq
<1>1. CASE TornTail(recs)
  BY <1>0, <1>1 DEF WholeCount, TornTail, TornOnlyLast
<1>2. CASE ~TornTail(recs)
  <2>1. \A i \in 1..Len(recs) : Whole(recs[i])
    BY <1>0, <1>2 DEF TornTail, TornOnlyLast
  <2> QED
    BY <1>0, <1>2, <2>1 DEF WholeCount
<1> QED
  BY <1>1, <1>2

LEMMA WholePrefixCount ==
    ASSUME NEW recs \in Seq(Record), TornOnlyLast(recs)
    PROVE  WholePrefix(recs) = WholeCount(recs)
<1>1. /\ WholePrefix(recs) \in 0..Len(recs)
      /\ \A i \in 1..WholePrefix(recs) : Whole(recs[i])
      /\ WholePrefix(recs) = Len(recs) \/ ~Whole(recs[WholePrefix(recs) + 1])
  BY WholePrefixProperties
<1>2. /\ Len(recs) \in Nat /\ WholeCount(recs) \in 0..Len(recs)
      /\ \A i \in 1..WholeCount(recs) : Whole(recs[i])
      /\ WholeCount(recs) # Len(recs) =>
            WholeCount(recs) = Len(recs) - 1 /\ ~Whole(recs[Len(recs)])
  BY WholeCountFacts
<1> QED
  BY <1>1, <1>2

\* GetEvents returns the events of the whole records, and cannot do otherwise.
LEMMA FramedRead ==
    ASSUME NEW recs \in Seq(Record), TornOnlyLast(recs)
    PROVE  GetEvents(recs) = {ReadOk(EventsOf(recs, WholeCount(recs)))}
<1> DEFINE n == WholePrefix(recs)
           c == WholeCount(recs)
<1>1. /\ n \in 0..Len(recs)
      /\ \A i \in 1..n : Whole(recs[i])
      /\ n = Len(recs) \/ ~Whole(recs[n + 1])
  BY WholePrefixProperties
<1>2. /\ Len(recs) \in Nat
      /\ c \in 0..Len(recs)
      /\ \A i \in 1..c : Whole(recs[i])
      /\ c # Len(recs) => c = Len(recs) - 1 /\ ~Whole(recs[Len(recs)])
  BY WholeCountFacts
<1> HIDE DEF n, c
<1>3. n >= c
  <2> SUFFICES ASSUME n < c PROVE FALSE
    BY <1>1, <1>2
  <2>1. n + 1 \in 1..c /\ n # Len(recs)
    BY <1>1, <1>2
  <2> QED
    BY <2>1, <1>1, <1>2
<1>4. n <= c
  <2> SUFFICES ASSUME n > c PROVE FALSE
    BY <1>1, <1>2
  <2>1. c # Len(recs) /\ n = Len(recs) /\ Len(recs) \in 1..n
    BY <1>1, <1>2
  <2> QED
    BY <2>1, <1>1, <1>2
<1>5. n = c /\ Len(recs) - n <= 1
  BY <1>1, <1>2, <1>3, <1>4
<1> QED
  BY <1>5 DEF GetEvents, n, c

\* Appending to a file whose last record is whole.
LEMMA AppendFramed ==
    ASSUME NEW recs \in Seq(Record), LogFine(recs), ~TornTail(recs), NEW r \in Record,
           Whole(r) => EventFine(Deserialize(r.fields))
    PROVE  /\ LogFine(Append(recs, r))
           /\ Whole(r) => WholeCount(Append(recs, r)) = Len(recs) + 1
           /\ ~Whole(r) => WholeCount(Append(recs, r)) = Len(recs)
           /\ WholeCount(recs) = Len(recs)
<1> DEFINE recs2 == Append(recs, r)
           n == Len(recs)
<1>1. /\ n \in Nat /\ Len(recs2) = n + 1
      /\ \A i \in 1..n : recs2[i] = recs[i]
      /\ recs2[n + 1] = r
      /\ recs2 # <<>>
      /\ recs2 \in Seq(Record)
  BY AppendProperties, LenProperties, EmptySeq
<1>2. \A i \in 1..n : Whole(recs[i])
  BY WholeCountFacts DEF LogFine
<1> HIDE DEF recs2
<1>3. TornOnlyLast(recs2)
  BY <1>1, <1>2 DEF TornOnlyLast
<1>4. ASSUME NEW i \in 1..(n + 1), Whole(recs2[i]) PROVE EventFine(EventAt(recs2, i))
  <2>1. CASE i = n + 1
    BY <2>1, <1>1, <1>4 DEF EventAt
  <2>2. CASE i # n + 1
    <3>1. i \in 1..n
      BY <1>1, <2>2
    <3> QED
      BY <3>1, <1>1, <1>2 DEF EventAt, LogFine
  <2> QED
    BY <2>1, <2>2
<1>5. LogFine(recs2)
  BY <1>1, <1>3, <1>4 DEF LogFine
<1>6. TornTail(recs2) <=> ~Whole(r)
  BY <1>1 DEF TornTail
<1>7. WholeCount(recs) = n
  BY DEF WholeCount
<1>8. Whole(r) => WholeCount(recs2) = n + 1
  BY <1>1, <1>6 DEF WholeCount
<1>9. ~Whole(r) => WholeCount(recs2) = n
  BY <1>1, <1>6 DEF WholeCount
<1> QED
  BY <1>5, <1>7, <1>8, <1>9 DEF recs2

-----------------------------------------------------------------------------
(* Framing, with any TTLs and renames: only the last record can be torn. *)

AllWhole(recs) == \A i \in 1..Len(recs) : Whole(recs[i])

FrameInv == AllWhole(tmp) /\ (~misframed => TornOnlyLast(records))

\* Appending to a file whose records are all whole.
LEMMA AppendWhole ==
    ASSUME NEW recs \in Seq(Record), AllWhole(recs), NEW r \in Record
    PROVE  /\ TornOnlyLast(Append(recs, r))
           /\ Whole(r) => AllWhole(Append(recs, r))
<1>1. /\ Len(recs) \in Nat /\ Len(Append(recs, r)) = Len(recs) + 1
      /\ \A i \in 1..Len(recs) : Append(recs, r)[i] = recs[i]
      /\ Append(recs, r)[Len(recs) + 1] = r
  BY AppendProperties, LenProperties
<1> QED
  BY <1>1 DEF AllWhole, TornOnlyLast

LEMMA UntornWhole ==
    ASSUME NEW recs \in Seq(Record), TornOnlyLast(recs), ~TornTail(recs)
    PROVE  AllWhole(recs)
BY WholeCountFacts DEF AllWhole

LEMMA FrameInit == Init => FrameInv
BY DEF Init, FrameInv, AllWhole, TornOnlyLast

LEMMA FrameStep == TypeInv /\ FrameInv /\ [Next]_vars => FrameInv'
<1> SUFFICES ASSUME TypeInv, FrameInv, [Next]_vars PROVE FrameInv'
  OBVIOUS
<1>t. records \in Seq(Record) /\ tmp \in Seq(Record)
  BY DEF TypeInv, TypeOK
<1>1. ASSUME UNCHANGED <<records, tmp, misframed>> PROVE FrameInv'
  BY <1>1 DEF FrameInv
<1>2. CASE AppendOk
  <2>1. WriteRecord(event) \in Record
    BY <1>2, WriteRecordOK DEF AppendOk, TypeInv, TypeOK, RecordOK
  <2>2. ASSUME ~misframed' PROVE TornOnlyLast(records')
    <3>1. ~misframed /\ ~TornTail(records)
      BY <1>2, <2>2 DEF AppendOk
    <3>2. AllWhole(records)
      BY <1>t, <3>1, UntornWhole DEF FrameInv
    <3> QED
      BY <1>2, <1>t, <2>1, <3>2, AppendWhole DEF AppendOk
  <2> QED
    BY <1>2, <2>2 DEF AppendOk, FrameInv
<1>3. CASE AppendFails
  <2>0. tmp' = tmp
    BY <1>3 DEF AppendFails
  <2>1. ASSUME NEW n \in 0..(Len(Serialize(event)) - 1),
               records' = Append(records, WrittenRecord(event, n)),
               misframed' = (misframed \/ TornTail(records)), ~misframed'
        PROVE  TornOnlyLast(records')
    <3>1. WrittenRecord(event, n) \in Record
      BY <1>3, WrittenRecordOK DEF AppendFails, TypeInv, TypeOK, RecordOK
    <3>2. AllWhole(records)
      BY <1>t, <2>1, UntornWhole DEF FrameInv
    <3> QED
      BY <1>t, <2>1, <3>1, <3>2, AppendWhole
  <2> QED
    BY <1>1, <1>3, <2>0, <2>1 DEF AppendFails, FrameInv
<1>4. CASE RewriteStart
  BY <1>4 DEF RewriteStart, FrameInv, AllWhole, historyVars
<1>5. ASSUME NEW k \in Keys, RewriteStep(k) PROVE FrameInv'
  <2>1. WriteRecord(eventsMap[k]) \in Record /\ Whole(WriteRecord(eventsMap[k]))
    BY <1>5, WriteRecordOK DEF RewriteStep, Unwritten, TypeInv, SurvivorsOK, RecordOK
  <2>2. AllWhole(tmp')
    BY <1>5, <1>t, <2>1, AppendWhole DEF RewriteStep, FrameInv
  <2> QED
    BY <1>5, <2>2 DEF RewriteStep, FrameInv, historyVars
<1>6. CASE RewriteDone
  <2>1. TornOnlyLast(tmp)
    BY <1>t, LenProperties DEF FrameInv, AllWhole, TornOnlyLast
  <2> QED
    BY <1>6, <2>1 DEF RewriteDone, FrameInv, AllWhole, historyVars
<1>7. CASE \/ (\E ttl \in TtlChoices : OpenVolatile(ttl) \/ OpenLog(ttl))
           \/ OpenFails \/ CreateLogFails \/ Operation \/ Compact \/ ReplayStep \/ ReplayDone
           \/ Swap \/ CompactStep \/ RewriteFails \/ ProcessEnds \/ Tick \/ UNCHANGED vars
  <2>1. CASE Operation
    BY <1>1, <2>1
    DEF Operation, Create, Rename, Delete, Clear, Commit, fileVars, historyVars
  <2> QED
    BY <1>1, <1>7, <2>1
    DEF OpenVolatile, OpenLog, OpenFails, CreateLogFails, Compact, ReplayStep, ReplayDone,
        Swap, CompactStep, RewriteFails, ProcessEnds, Tick, vars, fileVars, historyVars
<1> QED
  BY <1>2, <1>3, <1>4, <1>5, <1>6, <1>7 DEF Next, InternalStep

\* With any TTLs and any renames, as long as nothing was written behind a torn
\* record every start and every compaction can read the log: a torn record is
\* the last one, and GetEvents ignores it.
THEOREM TornTailHarmless == Spec => []TornTailTolerated
<1>1. TypeInv /\ FrameInv => TornTailTolerated
  <2> SUFFICES ASSUME TypeInv, FrameInv, ~misframed, NEW read \in GetEvents(records)
               PROVE  read.ok
    BY DEF TornTailTolerated
  <2>1. records \in Seq(Record) /\ TornOnlyLast(records)
    BY DEF TypeInv, TypeOK, FrameInv
  <2>2. read = ReadOk(EventsOf(records, WholeCount(records)))
    BY <2>1, FramedRead
  <2> QED
    BY <2>2 DEF ReadOk
<1> QED
  BY <1>1, TypeInvariance, FrameInit, FrameStep, PTL DEF Spec

-----------------------------------------------------------------------------
(* The invariant. *)

PlainInv == IsPlain(m_store) /\ IsPlain(staged) /\ IsPlain(committed)

ModeInv ==
    /\ phase \in {"replaying", "committing", "appended", "compacting", "rewriting"}
          => m_persistence
    /\ phase = "down" => ~m_persistence

StagedInv ==
    /\ phase \in {"committing", "appended"} => EventFine(event)
    /\ phase = "committing" => staged.m_data = DataApply(m_store.m_data, event)

\* Memory agrees with what was committed.
MemoryInv ==
    /\ Serving => m_store.m_data = committed.m_data
    /\ phase = "appended" => staged.m_data = committed.m_data

\* h is what replaying the log goes through, and where the loops stand in it.
LogTrace(h) ==
    LET n == WholeCount(records)
    IN  /\ Trace(h, records, n)
        /\ h[n] = committed.m_data
        /\ phase \in {"replaying", "compacting"} =>
               queue = EventsOf(records, n) /\ cursor <= n + 1
        /\ phase = "replaying" => m_store.m_data = h[cursor - 1]
        /\ phase = "compacting" => StandsFor(eventsMap, h[cursor - 1])

LogInv == LogFine(records) /\ \E h : LogTrace(h)

\* Replaying the temporary file, then creating what is left to write, gives
\* the committed data.
TmpTrace(g) ==
    /\ Trace(g, tmp, Len(tmp))
    /\ \A k \in Keys :
           /\ eventsMap[k] = Absent => committed.m_data[k] = g[Len(tmp)][k]
           /\ eventsMap[k] # Absent => /\ committed.m_data[k] = eventsMap[k].payload
                                       /\ eventsMap[k].timestamp = NoExpiry

TmpInv ==
    phase = "rewriting" => LogFine(tmp) /\ ~TornTail(tmp) /\ \E g : TmpTrace(g)

DurableInv ==
    /\ TypeInv
    /\ PlainInv
    /\ ModeInv
    /\ StagedInv
    /\ ~misframed => MemoryInv /\ LogInv /\ TmpInv

LEMMA FineOperations ==
    ASSUME TypeOK, PlainInv, Operation
    PROVE  \E e : EventFine(e) /\ Commit(e)
<1>0. NewExpiryTimestamp(m_store, now) = NoExpiry
  BY DEF PlainInv, IsPlain, PlainStore, NewExpiryTimestamp, HasTimeToLive
<1>1. CASE \E k \in Keys, v \in Values : Create(k, v)
  <2>1. PICK k \in Keys, v \in Values : Create(k, v)
    BY <1>1
  <2>2. EventFine(RadishEvent(CREATE, NoExpiry, k, Absent, v))
    <3>1. NoExpiry \in Int
      BY DEF NoExpiry
    <3>2. WellFormed(RadishEvent(CREATE, NoExpiry, k, Absent, v))
      BY <3>1, OperationEvents
    <3> QED
      BY <3>2 DEF EventFine, RadishEvent, CREATE, RENAME
  <2> QED
    BY <1>0, <2>1, <2>2 DEF Create
<1>2. CASE \E p \in RenamePairs : Rename(p[1], p[2])
  <2>1. PICK p \in RenamePairs : Rename(p[1], p[2])
    BY <1>2
  <2>2. p[1] \in Keys /\ p[2] \in Keys /\ p = <<p[1], p[2]>>
    BY DBAssumption
  <2>3. WellFormed(RadishEvent(RENAME, -1, p[1], p[2], Absent))
    BY <2>2, StoreAssumption
    DEF RadishEvent, WellFormed, Event, EventType, CREATE, RENAME, DELETE, CLEAR
  <2>4. EventFine(RadishEvent(RENAME, -1, p[1], p[2], Absent))
    BY <2>2, <2>3 DEF EventFine, RadishEvent, CREATE, RENAME
  <2> QED
    BY <2>1, <2>4 DEF Rename
<1>3. CASE \E k \in Keys : Delete(k)
  <2>1. PICK k \in Keys : Delete(k)
    BY <1>3
  <2>2. WellFormed(RadishEvent(DELETE, -1, k, Absent, Absent))
    BY StoreAssumption
    DEF RadishEvent, WellFormed, Event, EventType, CREATE, RENAME, DELETE, CLEAR
  <2>3. EventFine(RadishEvent(DELETE, -1, k, Absent, Absent))
    BY <2>2 DEF EventFine, RadishEvent, CREATE, RENAME, DELETE
  <2> QED
    BY <2>1, <2>3 DEF Delete
<1>4. CASE Clear
  <2>1. WellFormed(RadishEvent(CLEAR, -1, Absent, Absent, Absent))
    BY StoreAssumption
    DEF RadishEvent, WellFormed, Event, EventType, CREATE, RENAME, DELETE, CLEAR
  <2>2. EventFine(RadishEvent(CLEAR, -1, Absent, Absent, Absent))
    BY <2>1 DEF EventFine, RadishEvent, CREATE, RENAME, CLEAR
  <2> QED
    BY <1>4, <2>2 DEF Clear
<1> QED
  BY <1>1, <1>2, <1>3, <1>4 DEF Operation

LEMMA DurableInit == Init => DurableInv
<1> SUFFICES ASSUME Init PROVE DurableInv
  OBVIOUS
<1>1. TypeInv
  BY TypeInit
<1>2. PlainInv
  BY EmptyPlain, PlainStoreFacts DEF Init, PlainInv, NoStore
<1>3. ModeInv /\ StagedInv /\ TmpInv
  BY DEF Init, ModeInv, StagedInv, TmpInv
<1>4. MemoryInv
  BY DEF Init, MemoryInv, Serving
<1>5. LogInv
  <2>1. LogFine(<<>>) /\ WholeCount(<<>>) = 0
    BY DEF LogFine, TornOnlyLast, WholeCount, TornTail
  <2>2. committed.m_data = EmptyData
    BY EmptyPlain, PlainStoreFacts DEF Init, NoStore
  <2>3. LogTrace([i \in 0..0 |-> EmptyData])
    BY <2>1, <2>2, EmptyTrace DEF Init, LogTrace
  <2> QED
    BY <2>1, <2>3 DEF Init, LogInv
<1> QED
  BY <1>1, <1>2, <1>3, <1>4, <1>5 DEF DurableInv

\* Steps that leave the data alone: nothing a loop or the file depends on.
LEMMA DurableFrame ==
    ASSUME DurableInv, TypeInv',
           UNCHANGED <<phase, m_persistence, m_store, staged, event, queue, cursor,
                       eventsMap, records, tmp, committed, misframed>>
    PROVE  DurableInv'
<1>1. PlainInv' /\ ModeInv' /\ StagedInv'
  BY DEF DurableInv, PlainInv, ModeInv, StagedInv
<1>2. ASSUME ~misframed' PROVE MemoryInv' /\ LogInv' /\ TmpInv'
  <2>1. MemoryInv /\ LogInv /\ TmpInv
    BY <1>2 DEF DurableInv
  <2>2. MemoryInv'
    BY <2>1 DEF MemoryInv, Serving
  <2>3. LogInv'
    <3>1. PICK h : LogTrace(h)
      BY <2>1 DEF LogInv
    <3>2. LogTrace(h)'
      BY <3>1 DEF LogTrace
    <3> QED
      BY <2>1, <3>2 DEF LogInv
  <2>4. TmpInv'
    <3>1. CASE phase # "rewriting"
      BY <3>1 DEF TmpInv
    <3>2. CASE phase = "rewriting"
      <4>1. PICK g : TmpTrace(g)
        BY <2>1, <3>2 DEF TmpInv
      <4>2. TmpTrace(g)'
        BY <4>1 DEF TmpTrace
      <4> QED
        BY <2>1, <3>2, <4>2 DEF TmpInv
    <3> QED
      BY <3>1, <3>2
  <2> QED
    BY <2>2, <2>3, <2>4
<1> QED
  BY <1>1, <1>2 DEF DurableInv

\* Steps to a phase without a loop that leave the log and history alone.
LEMMA DurableQuiet ==
    ASSUME DurableInv, TypeInv', PlainInv', ModeInv', StagedInv',
           ~misframed => MemoryInv',
           UNCHANGED <<records, committed, misframed>>,
           phase' \notin {"replaying", "compacting", "rewriting"}
    PROVE  DurableInv'
<1>1. ASSUME ~misframed' PROVE MemoryInv' /\ LogInv' /\ TmpInv'
  <2>1. MemoryInv' /\ LogInv
    BY <1>1 DEF DurableInv
  <2>2. PICK h : LogTrace(h)
    BY <2>1 DEF LogInv
  <2>3. LogTrace(h)'
    BY <2>2 DEF LogTrace
  <2> QED
    BY <2>1, <2>3 DEF LogInv, TmpInv
<1> QED
  BY <1>1 DEF DurableInv

LEMMA DurableStep ==
    ASSUME NeverExpires, NoSelfRename, DurableInv, [Next]_vars
    PROVE  DurableInv'
<1>t. TypeInv /\ TypeInv'
  BY TypeStep DEF DurableInv
<1>o. TypeOK /\ now \in Int /\ m_store \in Store /\ records \in Seq(Record) /\ tmp \in Seq(Record)
  BY <1>t DEF TypeInv, TypeOK
<1>p. /\ PlainInv /\ ModeInv /\ StagedInv
      /\ ~misframed => MemoryInv /\ LogInv /\ TmpInv
  BY DEF DurableInv
<1>s. /\ m_store.m_data \in DataMap /\ m_store = PlainStore(m_store.m_data)
      /\ committed.m_data \in DataMap /\ committed = PlainStore(committed.m_data)
      /\ IsPlain(NoStore)
      /\ \A ttl \in TtlChoices : EmptyStore(ttl) = PlainStore(EmptyData)
  BY <1>p, EmptyPlain, PlainStoreFacts DEF PlainInv, IsPlain, NoStore, NeverExpires
<1>1. ASSUME NEW ttl \in TtlChoices, OpenVolatile(ttl) PROVE DurableInv'
  <2>1. PlainInv'
    BY <1>1, <1>p, <1>s, EmptyPlain, PlainStoreFacts
    DEF OpenVolatile, PlainInv, commitVars, historyVars
  <2>2. ModeInv' /\ StagedInv' /\ ~Serving'
    BY <1>1, <1>p
    DEF OpenVolatile, ModeInv, StagedInv, Serving
  <2>3. MemoryInv'
    BY <2>2, <1>1 DEF MemoryInv, OpenVolatile
  <2> QED
    BY <1>1, <1>t, <2>1, <2>2, <2>3, DurableQuiet DEF OpenVolatile, fileVars, historyVars
<1>2. ASSUME NEW ttl \in TtlChoices, OpenLog(ttl) PROVE DurableInv'
  <2>1. PlainInv'
    BY <1>2, <1>p, <1>s, EmptyPlain, PlainStoreFacts
    DEF OpenLog, PlainInv, commitVars, historyVars
  <2>2. ModeInv' /\ StagedInv' /\ MemoryInv' /\ TmpInv'
    BY <1>2 DEF OpenLog, ModeInv, StagedInv, MemoryInv, TmpInv, Serving
  <2>3. ASSUME ~misframed' PROVE LogInv'
    <3>1. LogInv
      BY <1>2, <1>p, <2>3 DEF OpenLog, historyVars
    <3>2. PICK h : LogTrace(h)
      BY <3>1 DEF LogInv
    <3> DEFINE n == WholeCount(records)
    <3>3. queue' = EventsOf(records, n)
      <4>1. GetEvents(records) = {ReadOk(EventsOf(records, n))}
        BY <1>o, <3>1, FramedRead DEF LogInv, LogFine
      <4> QED
        BY <1>2, <4>1 DEF OpenLog, ReadOk
    <3>4. n \in Nat
      BY <1>o, <3>1, WholeCountFacts DEF LogInv, LogFine
    <3>5. m_store'.m_data = EmptyData /\ h[0] = EmptyData
      BY <1>2, <1>s, <3>2, EmptyPlain, PlainStoreFacts DEF OpenLog, LogTrace, Trace
    <3>6. /\ records' = records /\ committed' = committed /\ cursor' = 1
          /\ phase' = "replaying"
      BY <1>2 DEF OpenLog, historyVars
    <3> HIDE DEF n
    <3>7. LogTrace(h)'
      BY <3>2, <3>3, <3>4, <3>5, <3>6 DEF LogTrace, n
    <3> QED
      BY <3>1, <3>6, <3>7 DEF LogInv
  <2> QED
    BY <1>t, <2>1, <2>2, <2>3 DEF DurableInv
<1>3. ASSUME OpenFails PROVE DurableInv'
  BY <1>3, <1>t, DurableFrame
  DEF OpenFails, vars, commitVars, loopVars, fileVars, historyVars
<1>4. ASSUME CreateLogFails PROVE DurableInv'
  BY <1>4, <1>t, DurableFrame
  DEF CreateLogFails, vars, commitVars, loopVars, fileVars, historyVars
<1>5. ASSUME Operation PROVE DurableInv'
  <2>1. PICK e : EventFine(e) /\ Commit(e)
    BY <1>5, <1>o, <1>p, FineOperations
  <2>2. LET d == DataApply(m_store.m_data, e)
        IN  /\ ApplyEvent(m_store, e, now) = PlainStore(d)
            /\ d \in DataMap
    <3>1. WellFormed(e)
      BY <2>1 DEF EventFine
    <3>2. ApplyEvent(PlainStore(m_store.m_data), e, now) =
              PlainStore(DataApply(m_store.m_data, e))
          /\ DataApply(m_store.m_data, e) \in DataMap
      BY <3>1, <1>o, <1>s, DataApplyFacts, Zenon
    <3> QED
      BY <3>2, <1>s
  <2> DEFINE d == DataApply(m_store.m_data, e)
  <2>3. PlainStore(d).m_data = d /\ IsPlain(PlainStore(d))
    BY <2>2, PlainStoreFacts
  <2>u. /\ phase = "running" /\ committed' = committed /\ misframed' = misframed
        /\ records' = records /\ m_persistence' = m_persistence
    BY <2>1 DEF Commit, fileVars, historyVars
  <2>4. CASE m_persistence
    <3>0. /\ staged' = PlainStore(d) /\ event' = e /\ m_store' = m_store
          /\ phase' = "committing"
      BY <2>1, <2>2, <2>4 DEF Commit
    <3> HIDE DEF d
    <3>1. PlainInv'
      BY <3>0, <2>u, <2>3, <1>p DEF PlainInv
    <3>2. ModeInv'
      BY <3>0, <2>u, <2>4 DEF ModeInv
    <3>3. StagedInv'
      BY <3>0, <2>1, <2>3 DEF StagedInv, d
    <3>4. ~misframed => MemoryInv'
      BY <3>0, <2>u, <2>4, <1>p DEF MemoryInv, Serving
    <3> QED
      BY <3>0, <3>1, <3>2, <3>3, <3>4, <2>u, <1>t, DurableQuiet
  <2>5. CASE ~m_persistence
    <3>0. /\ m_store' = PlainStore(d) /\ event' = event /\ staged' = staged
          /\ phase' = "running"
      BY <2>1, <2>2, <2>5, <2>u DEF Commit
    <3> HIDE DEF d
    <3>1. PlainInv'
      BY <3>0, <2>u, <2>3, <1>p DEF PlainInv
    <3>2. ModeInv' /\ StagedInv'
      BY <3>0 DEF ModeInv, StagedInv
    <3>4. MemoryInv'
      BY <3>0, <2>u, <2>5 DEF MemoryInv, Serving
    <3> QED
      BY <3>0, <3>1, <3>2, <3>4, <2>u, <1>t, DurableQuiet
  <2> QED
    BY <2>4, <2>5
<1>6. ASSUME Compact PROVE DurableInv'
  <2>0. /\ records' = records /\ committed' = committed /\ misframed' = misframed
        /\ m_store' = m_store /\ m_persistence /\ m_persistence' = m_persistence
        /\ phase = "running" /\ phase' = "compacting" /\ cursor' = 1
        /\ eventsMap' = EmptyEventsMap /\ staged' = staged
    BY <1>6 DEF Compact, fileVars, historyVars, commitVars
  <2>1. PlainInv' /\ ModeInv' /\ StagedInv' /\ TmpInv'
    BY <2>0, <1>p DEF PlainInv, ModeInv, StagedInv, TmpInv
  <2>2. ASSUME ~misframed' PROVE MemoryInv' /\ LogInv'
    <3>1. MemoryInv /\ LogInv
      BY <2>0, <1>p, <2>2
    <3>2. PICK h : LogTrace(h)
      BY <3>1 DEF LogInv
    <3> DEFINE n == WholeCount(records)
    <3>3. queue' = EventsOf(records, n)
      <4>1. GetEvents(records) = {ReadOk(EventsOf(records, n))}
        BY <1>o, <3>1, FramedRead DEF LogInv, LogFine
      <4> QED
        BY <1>6, <4>1 DEF Compact, ReadOk
    <3>4. n \in Nat
      BY <1>o, <3>1, WholeCountFacts DEF LogInv, LogFine
    <3>5. h[0] = EmptyData
      BY <3>2 DEF LogTrace, Trace
    <3> HIDE DEF n
    <3>6. LogTrace(h)'
      BY <3>2, <3>3, <3>4, <3>5, <2>0, EmptyStandsFor DEF LogTrace, n
    <3>7. MemoryInv'
      BY <3>1, <2>0 DEF MemoryInv, Serving
    <3> QED
      BY <3>1, <3>6, <3>7, <2>0 DEF LogInv
  <2> QED
    BY <1>t, <2>1, <2>2 DEF DurableInv
<1>7. ASSUME ReplayStep PROVE DurableInv'
  <2>0. /\ records' = records /\ committed' = committed /\ misframed' = misframed
        /\ phase = "replaying" /\ phase' = "replaying" /\ queue' = queue
        /\ cursor' = cursor + 1 /\ cursor <= Len(queue) /\ cursor \in Nat \ {0}
        /\ m_store' = ApplyEvent(m_store, queue[cursor], now)
        /\ m_persistence' = m_persistence /\ staged' = staged
    BY <1>7, <1>o DEF ReplayStep, TypeOK, fileVars, historyVars, commitVars
  <2>q. WellFormed(queue[cursor])
    BY <2>0, <1>o, LenProperties DEF TypeOK
  <2> DEFINE d == DataApply(m_store.m_data, queue[cursor])
  <2>1. m_store' = PlainStore(d) /\ d \in DataMap
    <3>1. /\ ApplyEvent(PlainStore(m_store.m_data), queue[cursor], now) = PlainStore(d)
          /\ d \in DataMap
      BY <2>q, <1>o, <1>s, DataApplyFacts, Zenon
    <3> QED
      BY <3>1, <1>s, <2>0
  <2>2. m_store'.m_data = d /\ IsPlain(m_store')
    BY <2>1, PlainStoreFacts
  <2> HIDE DEF d
  <2>3. PlainInv' /\ ModeInv' /\ StagedInv' /\ TmpInv' /\ MemoryInv'
    BY <2>0, <2>2, <1>p DEF PlainInv, ModeInv, StagedInv, TmpInv, MemoryInv, Serving
  <2>4. ASSUME ~misframed' PROVE LogInv'
    <3>1. LogInv
      BY <2>0, <1>p, <2>4
    <3>2. PICK h : LogTrace(h)
      BY <3>1 DEF LogInv
    <3> DEFINE n == WholeCount(records)
    <3>3. n \in Nat
      BY <1>o, <3>1, WholeCountFacts DEF LogInv, LogFine
    <3> HIDE DEF n
    <3>4. /\ queue = EventsOf(records, n) /\ m_store.m_data = h[cursor - 1]
          /\ Trace(h, records, n)
      BY <3>2, <2>0 DEF LogTrace, n
    <3>5. Len(queue) = n /\ cursor \in 1..n
      BY <3>3, <3>4, <2>0 DEF EventsOf
    <3>6. queue[cursor] = EventAt(records, cursor)
      BY <3>4, <3>5 DEF EventsOf, EventAt
    <3>7. h[cursor] = d
      BY <3>4, <3>5, <3>6 DEF Trace, d
    <3>8. cursor' - 1 = cursor /\ cursor' <= n + 1
      BY <3>3, <3>5, <2>0
    <3>9. LogTrace(h)'
      BY <3>2, <3>4, <3>7, <3>8, <2>0, <2>2 DEF LogTrace, n
    <3> QED
      BY <3>1, <3>9, <2>0 DEF LogInv
  <2> QED
    BY <1>t, <2>3, <2>4 DEF DurableInv
<1>8. ASSUME ReplayDone PROVE DurableInv'
  <2>0. /\ records' = records /\ committed' = committed /\ misframed' = misframed
        /\ phase = "replaying" /\ phase' = "running" /\ m_store' = m_store
        /\ cursor > Len(queue) /\ cursor \in Nat \ {0}
        /\ m_persistence' = m_persistence /\ staged' = staged
    BY <1>8, <1>o DEF ReplayDone, TypeOK, fileVars, historyVars, commitVars
  <2>1. PlainInv' /\ ModeInv' /\ StagedInv'
    BY <2>0, <1>p DEF PlainInv, ModeInv, StagedInv
  <2>2. ASSUME ~misframed PROVE MemoryInv'
    <3>1. LogInv
      BY <1>p, <2>2
    <3>2. PICK h : LogTrace(h)
      BY <3>1 DEF LogInv
    <3> DEFINE n == WholeCount(records)
    <3>3. n \in Nat
      BY <1>o, <3>1, WholeCountFacts DEF LogInv, LogFine
    <3> HIDE DEF n
    <3>4. /\ queue = EventsOf(records, n) /\ m_store.m_data = h[cursor - 1]
          /\ cursor <= n + 1 /\ h[n] = committed.m_data
      BY <3>2, <2>0 DEF LogTrace, n
    <3>5. Len(queue) = n
      BY <3>3, <3>4 DEF EventsOf
    <3>6. cursor - 1 = n
      BY <3>3, <3>4, <3>5, <2>0
    <3> QED
      BY <3>4, <3>6, <2>0 DEF MemoryInv, Serving
  <2> QED
    BY <1>t, <2>0, <2>1, <2>2, DurableQuiet
<1>9. ASSUME AppendOk PROVE DurableInv'
  <2>0. /\ records' = Append(records, WriteRecord(event)) /\ committed' = staged
        /\ phase = "committing" /\ phase' = "appended" /\ m_store' = m_store
        /\ misframed' = (misframed \/ TornTail(records))
        /\ m_persistence' = m_persistence /\ staged' = staged /\ event' = event
    BY <1>9 DEF AppendOk, commitVars
  <2>1. PlainInv' /\ ModeInv' /\ StagedInv' /\ MemoryInv' /\ TmpInv'
    BY <2>0, <1>p DEF PlainInv, ModeInv, StagedInv, MemoryInv, TmpInv, Serving
  <2>2. ASSUME ~misframed' PROVE LogInv'
    <3>1. ~misframed /\ ~TornTail(records)
      BY <2>0, <2>2
    <3>2. MemoryInv /\ LogInv /\ EventFine(event) /\ WellFormed(event)
      BY <3>1, <1>p, <2>0 DEF StagedInv, EventFine
    <3>3. PICK h : LogTrace(h)
      BY <3>2 DEF LogInv
    <3> DEFINE n == Len(records)
               r == WriteRecord(event)
    <3>4. r \in Record /\ Whole(r) /\ Deserialize(r.fields) = event
      BY <3>2, WriteRecordOK DEF RecordOK
    <3>5. /\ LogFine(records') /\ WholeCount(records') = n + 1
          /\ WholeCount(records) = n
      BY <2>0, <3>1, <3>2, <3>4, <1>o, AppendFramed DEF LogInv
    <3>6. /\ Trace(h, records, n) /\ h[n] = committed.m_data
      BY <3>3, <3>5 DEF LogTrace
    <3>7. /\ Trace(Extend(h, n, DataApply(h[n], event)), Append(records, r), n + 1)
          /\ Extend(h, n, DataApply(h[n], event))[n + 1] = DataApply(h[n], event)
      BY <3>2, <3>6, <1>o, ExtendTrace
    <3>8. DataApply(h[n], event) = committed'.m_data
      BY <3>2, <3>6, <2>0, <1>p DEF MemoryInv, StagedInv, Serving, ModeInv
    <3>9. PICK g : /\ Trace(g, records', WholeCount(records'))
                   /\ g[WholeCount(records')] = committed'.m_data
      BY <2>0, <3>5, <3>7, <3>8
    <3>10. LogTrace(g)'
      BY <3>9, <2>0 DEF LogTrace
    <3> QED
      BY <3>5, <3>10 DEF LogInv
  <2> QED
    BY <1>t, <2>1, <2>2 DEF DurableInv
<1>10. ASSUME AppendFails PROVE DurableInv'
  <2>0. /\ committed' = committed
        /\ phase = "committing" /\ phase' = "running" /\ m_store' = m_store
        /\ m_persistence' = m_persistence /\ staged' = NoStore
        /\ m_persistence
    BY <1>10, <1>p DEF AppendFails, ModeInv
  <2>1. PlainInv' /\ ModeInv' /\ StagedInv'
    BY <2>0, <1>p, <1>s DEF PlainInv, ModeInv, StagedInv
  <2>2. ~misframed => MemoryInv'
    BY <2>0, <1>p DEF MemoryInv, Serving
  <2>3. CASE UNCHANGED <<records, misframed>>
    BY <1>t, <2>0, <2>1, <2>2, <2>3, DurableQuiet
  <2>4. ASSUME NEW n \in 0..(Len(Serialize(event)) - 1),
               records' = Append(records, WrittenRecord(event, n)),
               misframed' = (misframed \/ TornTail(records))
        PROVE  DurableInv'
    <3>1. ASSUME ~misframed' PROVE MemoryInv' /\ LogInv' /\ TmpInv'
      <4>1. ~misframed /\ ~TornTail(records)
        BY <2>4, <3>1
      <4>2. MemoryInv /\ LogInv /\ WellFormed(event)
        BY <4>1, <1>p, <2>0 DEF StagedInv, EventFine
      <4>3. PICK h : LogTrace(h)
        BY <4>2 DEF LogInv
      <4> DEFINE c == Len(records)
                 r == WrittenRecord(event, n)
      <4>4. r \in Record /\ ~Whole(r)
        BY <4>2, WrittenRecordOK DEF RecordOK
      <4>5. /\ LogFine(records') /\ WholeCount(records') = c
            /\ WholeCount(records) = c
        BY <2>4, <4>1, <4>2, <4>4, <1>o, AppendFramed DEF LogInv
      <4>6. /\ Trace(h, records, c) /\ h[c] = committed.m_data /\ c \in 0..Len(records)
        BY <4>3, <4>5, <1>o, LenProperties DEF LogTrace
      <4>7. Trace(h, records', c)
        BY <4>4, <4>6, <2>4, <1>o, AppendTrace
      <4>8. LogTrace(h)'
        BY <4>5, <4>6, <4>7, <2>0 DEF LogTrace
      <4> QED
        BY <4>1, <4>5, <4>8, <2>0, <2>2 DEF LogInv, TmpInv
    <3> QED
      BY <1>t, <2>1, <3>1 DEF DurableInv
  <2> QED
    BY <1>10, <2>3, <2>4 DEF AppendFails
<1>11. ASSUME Swap PROVE DurableInv'
  <2>0. /\ records' = records /\ committed' = committed /\ misframed' = misframed
        /\ phase = "appended" /\ phase' = "running" /\ m_store' = staged
        /\ m_persistence' = m_persistence /\ staged' = NoStore
    BY <1>11 DEF Swap, fileVars, historyVars
  <2>1. PlainInv' /\ ModeInv' /\ StagedInv'
    BY <2>0, <1>p, <1>s DEF PlainInv, ModeInv, StagedInv
  <2>2. ~misframed => MemoryInv'
    BY <2>0, <1>p DEF MemoryInv, Serving
  <2> QED
    BY <1>t, <2>0, <2>1, <2>2, DurableQuiet
<1>12. ASSUME CompactStep PROVE DurableInv'
  <2>0. /\ records' = records /\ committed' = committed /\ misframed' = misframed
        /\ phase = "compacting" /\ phase' = "compacting" /\ queue' = queue
        /\ cursor' = cursor + 1 /\ cursor <= Len(queue) /\ cursor \in Nat \ {0}
        /\ eventsMap' = CompactEvent(eventsMap, queue[cursor], now)
        /\ m_store' = m_store /\ m_persistence' = m_persistence /\ staged' = staged
        /\ eventsMap \in EventsMap /\ SurvivorsOK(eventsMap)
    BY <1>12, <1>o, <1>t
    DEF CompactStep, TypeOK, TypeInv, fileVars, historyVars, commitVars
  <2>1. PlainInv' /\ ModeInv' /\ StagedInv' /\ TmpInv'
    BY <2>0, <1>p DEF PlainInv, ModeInv, StagedInv, TmpInv
  <2>2. ~misframed => MemoryInv'
    BY <2>0, <1>p DEF MemoryInv, Serving
  <2>3. ASSUME ~misframed PROVE LogInv'
    <3>1. LogInv
      BY <1>p, <2>3
    <3>2. PICK h : LogTrace(h)
      BY <3>1 DEF LogInv
    <3> DEFINE n == WholeCount(records)
    <3>3. /\ n \in Nat /\ n <= Len(records) /\ Len(records) \in Nat
          /\ \A i \in 1..n : Whole(records[i])
      BY <1>o, <3>1, WholeCountFacts DEF LogInv, LogFine
    <3> HIDE DEF n
    <3>4. /\ queue = EventsOf(records, n) /\ StandsFor(eventsMap, h[cursor - 1])
          /\ Trace(h, records, n)
      BY <3>2, <2>0 DEF LogTrace, n
    <3>5. Len(queue) = n /\ cursor \in 1..n
      BY <3>3, <3>4, <2>0 DEF EventsOf
    <3>6. queue[cursor] = EventAt(records, cursor)
      BY <3>4, <3>5 DEF EventsOf, EventAt
    <3>7. /\ h[cursor] = DataApply(h[cursor - 1], queue[cursor])
          /\ h[cursor - 1] \in DataMap
      BY <3>4, <3>5, <3>6 DEF Trace
    <3>e. EventFine(queue[cursor])
      <4>1. cursor \in 1..Len(records) /\ Whole(records[cursor])
        BY <3>3, <3>5
      <4> QED
        BY <4>1, <3>1, <3>6 DEF LogInv, LogFine
    <3>f. StandsFor(eventsMap', h[cursor])
      BY <3>4, <3>7, <3>e, <2>0, <1>o, CompactAgrees
    <3>8. cursor' - 1 = cursor /\ cursor' <= n + 1
      BY <3>3, <3>5, <2>0
    <3>9. LogTrace(h)'
      BY <3>2, <3>4, <3>f, <3>8, <2>0 DEF LogTrace, n
    <3> QED
      BY <3>1, <3>9, <2>0 DEF LogInv
  <2> QED
    BY <1>t, <2>0, <2>1, <2>2, <2>3 DEF DurableInv
<1>13. ASSUME RewriteStart PROVE DurableInv'
  <2>0. /\ records' = records /\ committed' = committed /\ misframed' = misframed
        /\ phase = "compacting" /\ phase' = "rewriting" /\ tmp' = <<>>
        /\ cursor > Len(queue) /\ cursor \in Nat \ {0} /\ eventsMap' = eventsMap
        /\ m_store' = m_store /\ m_persistence' = m_persistence /\ staged' = staged
    BY <1>13, <1>o DEF RewriteStart, TypeOK, historyVars, commitVars
  <2>1. PlainInv' /\ ModeInv' /\ StagedInv'
    BY <2>0, <1>p DEF PlainInv, ModeInv, StagedInv
  <2>2. ~misframed => MemoryInv'
    BY <2>0, <1>p DEF MemoryInv, Serving
  <2>3. ASSUME ~misframed PROVE LogInv' /\ TmpInv'
    <3>1. LogInv
      BY <1>p, <2>3
    <3>2. PICK h : LogTrace(h)
      BY <3>1 DEF LogInv
    <3> DEFINE n == WholeCount(records)
    <3>3. n \in Nat
      BY <1>o, <3>1, WholeCountFacts DEF LogInv, LogFine
    <3> HIDE DEF n
    <3>4. /\ queue = EventsOf(records, n) /\ StandsFor(eventsMap, h[cursor - 1])
          /\ cursor <= n + 1 /\ h[n] = committed.m_data
      BY <3>2, <2>0 DEF LogTrace, n
    <3>5. Len(queue) = n
      BY <3>3, <3>4 DEF EventsOf
    <3>6. cursor - 1 = n
      BY <3>3, <3>4, <3>5, <2>0
    <3>7. StandsFor(eventsMap, committed.m_data)
      BY <3>4, <3>6
    <3>8. LogTrace(h)'
      BY <3>2, <2>0 DEF LogTrace
    <3> DEFINE g == [i \in 0..0 |-> EmptyData]
    <3>9. Trace(g, tmp', 0) /\ Len(tmp') = 0 /\ g[0] = EmptyData
      BY <2>0, EmptyTrace
    <3> HIDE DEF g
    <3>10. TmpTrace(g)'
      <4>1. \A k \in Keys :
              /\ eventsMap[k] = Absent => committed.m_data[k] = EmptyData[k]
              /\ eventsMap[k] # Absent => /\ committed.m_data[k] = eventsMap[k].payload
                                          /\ eventsMap[k].timestamp = NoExpiry
        BY <3>7 DEF StandsFor, EmptyData
      <4> QED
        BY <4>1, <3>9, <2>0 DEF TmpTrace, g
    <3>11. LogFine(tmp') /\ ~TornTail(tmp')
      BY <2>0 DEF LogFine, TornOnlyLast, TornTail
    <3> QED
      BY <3>1, <3>8, <3>10, <3>11, <2>0 DEF LogInv, TmpInv
  <2> QED
    BY <1>t, <2>0, <2>1, <2>2, <2>3 DEF DurableInv
<1>14. ASSUME NEW k \in Keys, RewriteStep(k) PROVE DurableInv'
  <2>0. /\ records' = records /\ committed' = committed /\ misframed' = misframed
        /\ phase = "rewriting" /\ phase' = "rewriting" /\ eventsMap[k] # Absent
        /\ eventsMap' = [eventsMap EXCEPT ![k] = Absent]
        /\ tmp' = IF PastDeadline(eventsMap[k], now) THEN tmp
                  ELSE Append(tmp, WriteRecord(eventsMap[k]))
        /\ m_store' = m_store /\ m_persistence' = m_persistence /\ staged' = staged
        /\ eventsMap \in EventsMap /\ SurvivorsOK(eventsMap)
    BY <1>14, <1>o, <1>t
    DEF RewriteStep, Unwritten, TypeOK, TypeInv, historyVars, commitVars
  <2>1. PlainInv' /\ ModeInv' /\ StagedInv'
    BY <2>0, <1>p DEF PlainInv, ModeInv, StagedInv
  <2>2. ~misframed => MemoryInv'
    BY <2>0, <1>p DEF MemoryInv, Serving
  <2>3. ASSUME ~misframed PROVE LogInv'
    <3>1. LogInv
      BY <1>p, <2>3
    <3>2. PICK h : LogTrace(h)
      BY <3>1 DEF LogInv
    <3>3. LogTrace(h)'
      BY <3>2, <2>0 DEF LogTrace
    <3> QED
      BY <3>1, <3>3, <2>0 DEF LogInv
  <2>4. ASSUME ~misframed PROVE TmpInv'
    <3>1. /\ LogFine(tmp) /\ ~TornTail(tmp)
      BY <1>p, <2>0, <2>4 DEF TmpInv
    <3>2. PICK g : TmpTrace(g)
      BY <1>p, <2>0, <2>4 DEF TmpInv
    <3> DEFINE e == eventsMap[k]
               n == Len(tmp)
               r == WriteRecord(e)
    <3>3. /\ WellFormed(e) /\ e.type = CREATE /\ e.key = k
          /\ e.timestamp = NoExpiry /\ committed.m_data[k] = e.payload
      BY <2>0, <3>2 DEF SurvivorsOK, TmpTrace
    <3>4. EventFine(e)
      BY <3>3 DEF EventFine, CREATE, RENAME
    <3>5. tmp' = Append(tmp, r)
      BY <2>0, <3>3 DEF PastDeadline
    <3>6. r \in Record /\ Whole(r) /\ Deserialize(r.fields) = e
      BY <3>3, WriteRecordOK DEF RecordOK
    <3>7. /\ LogFine(tmp') /\ Len(tmp') = n + 1 /\ n \in Nat
          /\ tmp'[n + 1] = r /\ tmp' # <<>>
      <4>1. LogFine(Append(tmp, r))
        BY <3>1, <3>4, <3>6, <1>o, AppendFramed
      <4>2. Len(Append(tmp, r)) = n + 1 /\ n \in Nat /\ Append(tmp, r)[n + 1] = r
        BY <3>6, <1>o, AppendProperties, LenProperties
      <4>3. Append(tmp, r) # <<>>
        BY <3>6, <1>o, AppendProperties
      <4> QED
        BY <4>1, <4>2, <4>3, <3>5
    <3>8. ~TornTail(tmp')
      BY <3>6, <3>7 DEF TornTail
    <3>9. Trace(g, tmp, n) /\ g[n] \in DataMap
      BY <3>2, <3>7 DEF TmpTrace, Trace
    <3> DEFINE d == DataApply(g[n], e)
    <3>10. d = [g[n] EXCEPT ![k] = e.payload]
      <4>1. 0 \in Int
        OBVIOUS
      <4>2. e.type = CREATE => d = [g[n] EXCEPT ![e.key] = e.payload]
        BY <4>1, <3>3, <3>9, DataApplyFacts, Zenon
      <4> QED
        BY <4>2, <3>3
    <3>11. Trace(Extend(g, n, d), Append(tmp, r), n + 1) /\ Extend(g, n, d)[n + 1] = d
      BY <3>3, <3>9, <1>o, ExtendTrace
    <3>12. PICK f : Trace(f, tmp', Len(tmp')) /\ f[Len(tmp')] = d
      BY <3>5, <3>7, <3>11
    <3>13. \A j \in Keys : d[j] = IF j = k THEN committed.m_data[k] ELSE g[n][j]
      BY <3>3, <3>9, <3>10 DEF DataMap
    <3>14. \A j \in Keys : eventsMap'[j] = IF j = k THEN Absent ELSE eventsMap[j]
      BY <2>0 DEF EventsMap
    <3>15. \A j \in Keys :
             /\ eventsMap[j] = Absent => committed.m_data[j] = g[n][j]
             /\ eventsMap[j] # Absent => /\ committed.m_data[j] = eventsMap[j].payload
                                         /\ eventsMap[j].timestamp = NoExpiry
      BY <3>2 DEF TmpTrace
    <3> HIDE DEF d, n, r, e
    <3>16. \A j \in Keys :
             /\ eventsMap'[j] = Absent => committed'.m_data[j] = d[j]
             /\ eventsMap'[j] # Absent => /\ committed'.m_data[j] = eventsMap'[j].payload
                                          /\ eventsMap'[j].timestamp = NoExpiry
      BY <3>13, <3>14, <3>15, <2>0
    <3>17. TmpTrace(f)'
      BY <3>12, <3>16 DEF TmpTrace
    <3> QED
      BY <3>7, <3>8, <3>17 DEF TmpInv
  <2> QED
    BY <1>t, <2>0, <2>1, <2>2, <2>3, <2>4 DEF DurableInv
<1>15. ASSUME RewriteDone PROVE DurableInv'
  <2>0. /\ records' = tmp /\ committed' = committed /\ misframed' = misframed
        /\ phase = "rewriting" /\ phase' = "running"
        /\ \A k \in Keys : eventsMap[k] = Absent
        /\ m_store' = m_store /\ m_persistence' = m_persistence /\ staged' = staged
    BY <1>15 DEF RewriteDone, Unwritten, historyVars, commitVars
  <2>1. PlainInv' /\ ModeInv' /\ StagedInv' /\ TmpInv'
    BY <2>0, <1>p DEF PlainInv, ModeInv, StagedInv, TmpInv
  <2>2. ~misframed => MemoryInv'
    BY <2>0, <1>p DEF MemoryInv, Serving
  <2>3. ASSUME ~misframed PROVE LogInv'
    <3>1. /\ LogFine(tmp) /\ ~TornTail(tmp)
      BY <1>p, <2>0, <2>3 DEF TmpInv
    <3>2. PICK g : TmpTrace(g)
      BY <1>p, <2>0, <2>3 DEF TmpInv
    <3> DEFINE n == Len(tmp)
    <3>3. n \in Nat /\ WholeCount(tmp) = n
      BY <3>1, <1>o, LenProperties DEF WholeCount
    <3>4. Trace(g, tmp, n) /\ g[n] \in DataMap
      BY <3>2, <3>3 DEF TmpTrace, Trace
    <3>5. \A k \in Keys : committed.m_data[k] = g[n][k]
      BY <3>2, <2>0 DEF TmpTrace
    <3> HIDE DEF n
    <3>6. g[n] = committed.m_data
      BY <3>4, <3>5, <1>s DEF DataMap
    <3>7. LogTrace(g)'
      BY <3>3, <3>4, <3>6, <2>0 DEF LogTrace
    <3> QED
      BY <3>1, <3>7, <2>0 DEF LogInv
  <2> QED
    BY <1>t, <2>0, <2>1, <2>2, <2>3 DEF DurableInv
<1>16. ASSUME RewriteFails PROVE DurableInv'
  <2>0. /\ records' = records /\ committed' = committed /\ misframed' = misframed
        /\ phase = "rewriting" /\ phase' = "running"
        /\ m_store' = m_store /\ m_persistence' = m_persistence /\ staged' = staged
    BY <1>16 DEF RewriteFails, historyVars, commitVars, fileVars
  <2>1. PlainInv' /\ ModeInv' /\ StagedInv'
    BY <2>0, <1>p DEF PlainInv, ModeInv, StagedInv
  <2>2. ~misframed => MemoryInv'
    BY <2>0, <1>p DEF MemoryInv, Serving
  <2> QED
    BY <1>t, <2>0, <2>1, <2>2, DurableQuiet
<1>17. ASSUME ProcessEnds PROVE DurableInv'
  <2>0. /\ records' = records /\ committed' = committed /\ misframed' = misframed
        /\ phase' = "down" /\ m_store' = NoStore /\ staged' = NoStore
        /\ ~m_persistence'
    BY <1>17 DEF ProcessEnds, historyVars, fileVars
  <2>1. PlainInv' /\ ModeInv' /\ StagedInv' /\ MemoryInv'
    BY <2>0, <1>p, <1>s DEF PlainInv, ModeInv, StagedInv, MemoryInv, Serving
  <2> QED
    BY <1>t, <2>0, <2>1, DurableQuiet
<1>18. ASSUME Tick PROVE DurableInv'
  BY <1>18, <1>t, DurableFrame DEF Tick, commitVars, loopVars, fileVars, historyVars
<1>19. ASSUME UNCHANGED vars PROVE DurableInv'
  BY <1>19, <1>t, DurableFrame DEF vars, commitVars, loopVars, fileVars, historyVars
<1> QED
  BY <1>1, <1>2, <1>3, <1>4, <1>5, <1>6, <1>7, <1>8, <1>9, <1>10, <1>11, <1>12, <1>13,
     <1>14, <1>15, <1>16, <1>17, <1>18, <1>19 DEF Next, InternalStep

\* Without expiry and without self-renames, a persistent database serves
\* exactly what was committed: no crash, failed append, torn tail, recovery or
\* compaction, in whatever order, loses, revives or alters an entry.
THEOREM RecoveryIsExact ==
    ASSUME NeverExpires, NoSelfRename
    PROVE  Spec => []RecoveredViewExact
<1>1. DurableInv /\ [Next]_vars => DurableInv'
  BY DurableStep
<1>2. DurableInv => RecoveredViewExact
  <2> SUFFICES ASSUME DurableInv, Serving, ~misframed PROVE Live(m_store, now) = Live(committed, now)
    BY DEF RecoveredViewExact
  <2>1. m_store = committed
    BY DEF DurableInv, MemoryInv, PlainInv, IsPlain
  <2> QED
    BY <2>1
<1> QED
  BY <1>1, <1>2, DurableInit, PTL DEF Spec

-----------------------------------------------------------------------------
(* What ReplayedStore computes from a file. *)

\* A trace of data maps is a replay of plain stores, at whatever time.
LEMMA TraceReplays ==
    ASSUME NEW recs \in Seq(Record), NEW n \in Nat, n = WholePrefix(recs), NEW t \in Int,
           \A i \in 1..n : WellFormed(EventAt(recs, i)),
           NEW g, Trace(g, recs, n)
    PROVE  ReplayedStore(recs, NoExpiry, t) = PlainStore(g[n])
<1> DEFINE h == [i \in 0..n |-> PlainStore(g[i])]
<1>1. \A i \in 0..n : g[i] \in DataMap /\ h[i] = PlainStore(g[i]) /\ h[i] \in Store
  BY PlainStoreFacts DEF Trace
<1>2. h[0] = EmptyStore(NoExpiry)
  BY <1>1, EmptyPlain DEF Trace
<1>3. ASSUME NEW i \in 1..n
      PROVE  h[i] = ApplyEvent(h[i - 1], Deserialize(recs[i].fields), t)
  <2>1. i \in 0..n /\ i - 1 \in 0..n
    OBVIOUS
  <2>2. g[i] = DataApply(g[i - 1], EventAt(recs, i)) /\ g[i - 1] \in DataMap
    BY <1>1, <2>1 DEF Trace
  <2>3. ApplyEvent(PlainStore(g[i - 1]), EventAt(recs, i), t)
          = PlainStore(DataApply(g[i - 1], EventAt(recs, i)))
    BY <2>2, DataApplyFacts, Zenon
  <2> QED
    BY <1>1, <2>1, <2>2, <2>3 DEF EventAt
<1>4. h \in [0..n -> Store]
  BY <1>1
<1> HIDE DEF h
<1>5. ReplayTrace(h, recs, n, NoExpiry, t)
  BY <1>2, <1>3, <1>4 DEF ReplayTrace
<1>6. ReplayedStore(recs, NoExpiry, t) = h[n]
  BY <1>5, ReplayedStoreTrace
<1> QED
  BY <1>1, <1>6

\* Under the same hypotheses, when RewriteHistory is about to replace the log
\* the file it wrote replays to exactly what the database is serving.
THEOREM CompactionIsExact ==
    ASSUME NeverExpires, NoSelfRename
    PROVE  Spec => []CompactedLogExact
<1>1. DurableInv /\ [Next]_vars => DurableInv'
  BY DurableStep
<1>2. DurableInv => CompactedLogExact
  <2> SUFFICES ASSUME DurableInv, phase = "rewriting", Unwritten = {}, ~misframed
               PROVE  ReplayedStore(tmp, m_store.m_ttl, now) = m_store
    BY DEF CompactedLogExact
  <2>0. /\ tmp \in Seq(Record) /\ now \in Int /\ LogFine(tmp) /\ ~TornTail(tmp)
        /\ IsPlain(m_store) /\ IsPlain(committed)
        /\ m_store.m_data = committed.m_data
    BY DEF DurableInv, TypeInv, TypeOK, TmpInv, PlainInv, MemoryInv, ModeInv, Serving
  <2>1. PICK g : TmpTrace(g)
    BY DEF DurableInv, TmpInv
  <2>2. /\ Len(tmp) \in Nat
        /\ \A i \in 1..Len(tmp) : Whole(tmp[i])
    BY <2>0, WholeCountFacts DEF LogFine
  <2>3. /\ WholePrefix(tmp) = Len(tmp)
        /\ \A i \in 1..Len(tmp) : WellFormed(EventAt(tmp, i))
    BY <2>0, <2>2, WholePrefixOfWhole DEF LogFine, EventFine
  <2>4. Trace(g, tmp, Len(tmp)) /\ g[Len(tmp)] \in DataMap
    BY <2>1, <2>2 DEF TmpTrace, Trace
  <2>5. ReplayedStore(tmp, NoExpiry, now) = PlainStore(g[Len(tmp)])
    BY <2>0, <2>2, <2>3, <2>4, TraceReplays
  <2>6. g[Len(tmp)] = m_store.m_data
    <3>1. \A k \in Keys : m_store.m_data[k] = g[Len(tmp)][k]
      BY <2>0, <2>1 DEF TmpTrace, Unwritten
    <3> QED
      BY <2>0, <2>4, <3>1 DEF DataMap, IsPlain
  <2>7. m_store = PlainStore(m_store.m_data) /\ m_store.m_ttl = NoExpiry
    BY <2>0 DEF IsPlain, PlainStore
  <2> QED
    BY <2>5, <2>6, <2>7
<1> QED
  BY <1>1, <1>2, DurableInit, PTL DEF Spec

\* Under the same hypotheses, whatever the database is doing, the file it would
\* find after a crash replays to exactly the store that was committed last.
THEOREM LogReplaysToCommitted ==
    ASSUME NeverExpires, NoSelfRename
    PROVE  Spec => [](~misframed => ReplayedStore(records, NoExpiry, now) = committed)
<1>1. DurableInv /\ [Next]_vars => DurableInv'
  BY DurableStep
<1>2. DurableInv => (~misframed => ReplayedStore(records, NoExpiry, now) = committed)
  <2> SUFFICES ASSUME DurableInv, ~misframed
               PROVE  ReplayedStore(records, NoExpiry, now) = committed
    OBVIOUS
  <2> DEFINE n == WholeCount(records)
  <2>0. /\ records \in Seq(Record) /\ now \in Int /\ LogFine(records)
        /\ committed = PlainStore(committed.m_data)
    BY DEF DurableInv, TypeInv, TypeOK, PlainInv, IsPlain, LogInv
  <2>1. PICK h : LogTrace(h)
    BY DEF DurableInv, LogInv
  <2>2. n \in 0..Len(records) /\ Len(records) \in Nat
        /\ \A i \in 1..n : Whole(records[i])
    BY <2>0, WholeCountFacts DEF LogFine
  <2>3. WholePrefix(records) = n
    BY <2>0, WholePrefixCount DEF LogFine
  <2>4. \A i \in 1..n : WellFormed(EventAt(records, i))
    <3> HIDE DEF n
    <3> TAKE i \in 1..n
    <3>1. i \in 1..Len(records) /\ Whole(records[i])
      BY <2>2
    <3> QED
      BY <2>0, <3>1 DEF LogFine, EventFine
  <2>5. Trace(h, records, n) /\ h[n] = committed.m_data
    BY <2>1 DEF LogTrace
  <2> HIDE DEF n
  <2>6. ReplayedStore(records, NoExpiry, now) = PlainStore(h[n])
    BY <2>0, <2>2, <2>3, <2>4, <2>5, TraceReplays
  <2> QED
    BY <2>0, <2>5, <2>6
<1> QED
  BY <1>1, <1>2, DurableInit, PTL DEF Spec

-----------------------------------------------------------------------------
(* Recovery with expiry.  Only RENAME reads the clock when it is applied, so *)
(* without renames a replay gives the same store at any time; the invariant  *)
(* again has a sequence of stores, one per whole record.  Compaction drops   *)
(* what has expired, so the sequence does not end in the committed store but *)
(* in one that looks the same from now on.                                   *)

\* The database is always opened with the same TTL, deadlines do not overflow
\* before the clock stops, and nothing is renamed.
OneTtl(ttl) == TtlChoices \subseteq {ttl} /\ MaxTime + ttl <= MaxTimestamp
NoRename == RenamePairs = {}

\* A store of a database that was opened with this TTL.
IsTimed(s, ttl) == s \in Store /\ Aligned(s) /\ s.m_ttl = ttl

\* An entry with a deadline later than t.
Shows(s, k, t) ==
    /\ s.m_data[k] # Absent
    /\ s.m_ttlData[k] # Absent
    /\ s.m_ttlData[k] > t

SameAt(s, r, k, t) ==
    /\ Shows(s, k, t) <=> Shows(r, k, t)
    /\ Shows(s, k, t) => s.m_data[k] = r.m_data[k] /\ s.m_ttlData[k] = r.m_ttlData[k]

\* Both stores look the same from time t on.
Agree(s, r, t) == \A k \in Keys : SameAt(s, r, k, t)

\* An event that a database without renames writes, with a deadline that is a
\* TTL away from the present at the most, and has not overflowed.
TimedEvent(e, limit) ==
    /\ WellFormed(e)
    /\ e.type # RENAME
    /\ e.type = CREATE => e.timestamp \in 0..limit

\* r is the store that such an event makes of s, key by key.
TimedEffect(s, e, r) ==
    \A k \in Keys :
        /\ e.type = CREATE =>
              /\ r.m_data[k] = IF k = e.key THEN e.payload ELSE s.m_data[k]
              /\ r.m_ttlData[k] = IF k = e.key THEN e.timestamp ELSE s.m_ttlData[k]
        /\ e.type = DELETE =>
              /\ r.m_data[k] = IF k = e.key THEN Absent ELSE s.m_data[k]
              /\ r.m_ttlData[k] = IF k = e.key THEN Absent ELSE s.m_ttlData[k]
        /\ e.type = CLEAR => r.m_data[k] = Absent

LEMMA TimedLive ==
    ASSUME NEW ttl \in Nat, NEW s, IsTimed(s, ttl) \/ s = NoStore, NEW t \in Int,
           NEW k \in Keys
    PROVE  /\ StoreGet(s, k, t) # Absent <=> Shows(s, k, t)
<1>1. CASE IsTimed(s, ttl)
  <2>1. /\ HasTimeToLive(s) /\ s.m_ttlData[k] \in Int \cup {Absent}
        /\ s.m_ttlData[k] # Absent <=> s.m_data[k] # Absent
    BY <1>1 DEF IsTimed, HasTimeToLive, NoExpiry, Aligned, Store, TTLMap
  <2> QED
    BY <2>1 DEF StoreGet, Shows, IsExpired
<1>2. CASE s = NoStore
  <2>1. s.m_data[k] = Absent
    BY <1>2 DEF NoStore, EmptyStore
  <2> QED
    BY <2>1 DEF StoreGet, Shows
<1> QED
  BY <1>1, <1>2

\* Stores that agree at t are served alike at t.
LEMMA AgreeLive ==
    ASSUME NEW ttl \in Nat, NEW s, IsTimed(s, ttl) \/ s = NoStore,
           NEW r, IsTimed(r, ttl) \/ r = NoStore, NEW t \in Int, Agree(s, r, t)
    PROVE  Live(s, t) = Live(r, t)
<1> SUFFICES ASSUME NEW k \in Keys
             PROVE  Live(s, t)[k] = Live(r, t)[k]
  BY DEF Live
<1>1. /\ StoreGet(s, k, t) # Absent <=> Shows(s, k, t)
      /\ StoreGet(r, k, t) # Absent <=> Shows(r, k, t)
  BY TimedLive
<1> QED
  BY <1>1 DEF Live, Agree, SameAt

LEMMA AgreeEquivalence ==
    ASSUME NEW s, NEW r, NEW u, NEW t
    PROVE  /\ Agree(s, s, t)
           /\ Agree(s, r, t) => Agree(r, s, t)
           /\ Agree(s, r, t) /\ Agree(r, u, t) => Agree(s, u, t)
BY DEF Agree, SameAt

LEMMA SameAtLater ==
    ASSUME NEW s \in Store, NEW r \in Store, NEW t \in Int, NEW u \in Int, t <= u,
           NEW k \in Keys, SameAt(s, r, k, t)
    PROVE  SameAt(s, r, k, u)
<1>1. /\ s.m_ttlData[k] \in Int \cup {Absent} /\ r.m_ttlData[k] \in Int \cup {Absent}
  BY DEF Store, TTLMap
<1> QED
  BY <1>1 DEF SameAt, Shows

\* Only RENAME looks at the clock.
LEMMA TimedApply ==
    ASSUME NEW ttl \in Nat, NEW s, IsTimed(s, ttl), NEW e, WellFormed(e), e.type # RENAME,
           NEW t \in Int
    PROVE  /\ ApplyEvent(s, e, t) = ApplyEvent(s, e, 0)
           /\ IsTimed(ApplyEvent(s, e, t), ttl)
           /\ TimedEffect(s, e, ApplyEvent(s, e, t))
<1> DEFINE r == ApplyEvent(s, e, t)
<1>0. /\ e.type \in {CREATE, DELETE, CLEAR} /\ e.timestamp \in Int
      /\ e.type # CLEAR => e.key \in Keys
      /\ s \in Store /\ Aligned(s) /\ s.m_ttl = ttl /\ HasTimeToLive(s)
  BY DEF WellFormed, Event, EventType, CREATE, RENAME, DELETE, CLEAR, IsTimed,
         HasTimeToLive, NoExpiry
<1>1. r = ApplyEvent(s, e, 0)
  BY DEF ApplyEvent
<1>2. r \in Store /\ Aligned(r)
  BY <1>0, ApplyEventType, ApplyEventAligned
<1>d. /\ s.m_data \in [Keys -> Values \cup {Absent}]
      /\ s.m_ttlData \in [Keys -> Int \cup {Absent}]
  BY <1>0 DEF Store, DataMap, TTLMap
<1>3. CASE e.type = CREATE
  <2>1. r = StoreCreate(s, e.key, e.payload, e.timestamp)
    BY <1>3 DEF ApplyEvent, CREATE, RENAME, DELETE, CLEAR
  <2>2. /\ r.m_ttl = s.m_ttl /\ r.m_data = [s.m_data EXCEPT ![e.key] = e.payload]
        /\ r.m_ttlData = [s.m_ttlData EXCEPT ![e.key] = e.timestamp]
    BY <1>0, <2>1 DEF StoreCreate, StoreWith
  <2> HIDE DEF r
  <2>3. TimedEffect(s, e, r)
    BY <1>0, <1>3, <1>d, <2>2 DEF TimedEffect, CREATE, DELETE, CLEAR
  <2> QED
    BY <1>0, <1>1, <1>2, <2>2, <2>3 DEF IsTimed, r
<1>4. CASE e.type = DELETE
  <2>1. r = StoreDelete(s, e.key)
    BY <1>4 DEF ApplyEvent, CREATE, RENAME, DELETE, CLEAR
  <2>2. /\ r.m_ttl = s.m_ttl /\ r.m_data = [s.m_data EXCEPT ![e.key] = Absent]
        /\ r.m_ttlData = [s.m_ttlData EXCEPT ![e.key] = Absent]
    BY <1>0, <2>1 DEF StoreDelete, StoreWith
  <2> HIDE DEF r
  <2>3. TimedEffect(s, e, r)
    BY <1>0, <1>4, <1>d, <2>2 DEF TimedEffect, CREATE, DELETE, CLEAR
  <2> QED
    BY <1>0, <1>1, <1>2, <2>2, <2>3 DEF IsTimed, r
<1>5. CASE e.type = CLEAR
  <2>1. r = StoreClear(s)
    BY <1>5 DEF ApplyEvent, CREATE, RENAME, DELETE, CLEAR
  <2>2. r.m_ttl = s.m_ttl /\ \A k \in Keys : r.m_data[k] = Absent
    BY <2>1 DEF StoreClear, StoreIsEmpty, EmptyStore
  <2> HIDE DEF r
  <2>3. TimedEffect(s, e, r)
    BY <1>5, <2>2 DEF TimedEffect, CREATE, DELETE, CLEAR
  <2> QED
    BY <1>0, <1>1, <1>2, <2>2, <2>3 DEF IsTimed, r
<1> QED
  BY <1>0, <1>3, <1>4, <1>5

\* No event changes the TTL of the store, not even one out of frame.
LEMMA ApplyKeepsTimed ==
    ASSUME NEW ttl \in Nat, NEW s, IsTimed(s, ttl), NEW e, WellFormed(e), NEW t \in Int
    PROVE  IsTimed(ApplyEvent(s, e, t), ttl)
<1>1. ApplyEvent(s, e, t) \in Store /\ Aligned(ApplyEvent(s, e, t))
  BY ApplyEventType, ApplyEventAligned DEF IsTimed
<1>2. e.type \in EventType
  BY DEF WellFormed, Event
<1> SUFFICES ApplyEvent(s, e, t).m_ttl = s.m_ttl
  BY <1>1 DEF IsTimed
<1>3. \A d, m : StoreWith(s, d, m).m_ttl = s.m_ttl
  BY DEF StoreWith
<1>4. CASE e.type = CREATE
  BY <1>3, <1>4 DEF ApplyEvent, StoreCreate, CREATE, RENAME, DELETE, CLEAR
<1>5. CASE e.type = RENAME
  BY <1>3, <1>5 DEF ApplyEvent, StoreRename, CREATE, RENAME, DELETE, CLEAR
<1>6. CASE e.type = DELETE
  BY <1>3, <1>6 DEF ApplyEvent, StoreDelete, CREATE, RENAME, DELETE, CLEAR
<1>7. CASE e.type = CLEAR
  BY <1>7 DEF ApplyEvent, StoreClear, EmptyStore, CREATE, RENAME, DELETE, CLEAR
<1> QED
  BY <1>2, <1>4, <1>5, <1>6, <1>7 DEF EventType

\* The same event keeps stores that agree in agreement.
LEMMA AgreeApply ==
    ASSUME NEW e, WellFormed(e), e.type # RENAME, NEW t,
           NEW s, NEW r, Agree(s, r, t),
           NEW s2, TimedEffect(s, e, s2), NEW r2, TimedEffect(r, e, r2)
    PROVE  Agree(s2, r2, t)
<1>0. e.type \in {CREATE, DELETE, CLEAR}
  BY DEF WellFormed, Event, EventType
<1> SUFFICES ASSUME NEW k \in Keys PROVE SameAt(s2, r2, k, t)
  BY DEF Agree
<1>1. SameAt(s, r, k, t)
  BY DEF Agree
<1>2. CASE e.type = CREATE
  BY <1>1, <1>2 DEF TimedEffect, SameAt, Shows
<1>3. CASE e.type = DELETE
  BY <1>1, <1>3 DEF TimedEffect, SameAt, Shows
<1>4. CASE e.type = CLEAR
  BY <1>4 DEF TimedEffect, SameAt, Shows
<1> QED
  BY <1>0, <1>2, <1>3, <1>4

-----------------------------------------------------------------------------
(* Compaction with expiry. *)

Held(m, k, t) == m[k] # Absent /\ m[k].timestamp > t

\* The event that the map m holds for k, if it has not expired at t, is the
\* entry of the store.
HeldAs(m, s, k, t) ==
    /\ Held(m, k, t) <=> Shows(s, k, t)
    /\ Held(m, k, t) => m[k].payload = s.m_data[k] /\ m[k].timestamp = s.m_ttlData[k]

Holds(m, s, t) == \A k \in Keys : HeldAs(m, s, k, t)

LEMMA HeldLater ==
    ASSUME NEW m \in EventsMap, NEW s \in Store, NEW t \in Int, NEW u \in Int, t <= u,
           NEW k \in Keys, HeldAs(m, s, k, t)
    PROVE  HeldAs(m, s, k, u)
<1>1. s.m_ttlData[k] \in Int \cup {Absent}
  BY DEF Store, TTLMap
<1>2. m[k] # Absent => m[k].timestamp \in Int
  BY DEF EventsMap, Event
<1> QED
  BY <1>1, <1>2 DEF HeldAs, Held, Shows

\* What m holds for s it holds for every store that agrees with s.
LEMMA HeldAgree ==
    ASSUME NEW m, NEW s, NEW r, NEW t, NEW k \in Keys, HeldAs(m, s, k, t), SameAt(s, r, k, t)
    PROVE  HeldAs(m, r, k, t)
BY DEF HeldAs, SameAt

\* Each strategy does to the map what the event does to the store, if a later
\* CREATE of a key never has an earlier deadline: a record that is dropped as
\* expired could otherwise uncover the one it replaced.
LEMMA HeldApply ==
    ASSUME NEW m \in EventsMap, NEW t \in Int, NEW s, Holds(m, s, t),
           NEW e, NEW limit \in Int, TimedEvent(e, limit),
           e.type = CREATE /\ m[e.key] # Absent => m[e.key].timestamp <= e.timestamp,
           NEW r, TimedEffect(s, e, r)
    PROVE  Holds(CompactEvent(m, e, t), r, t)
<1> DEFINE c == CompactEvent(m, e, t)
<1>0. /\ WellFormed(e) /\ e \in Event /\ e.type \in {CREATE, DELETE, CLEAR}
      /\ e.timestamp \in Int
      /\ e.type # CLEAR => e.key \in Keys
      /\ e.type = CREATE => e.payload \in Values /\ e.timestamp >= 0
  BY DEF TimedEvent, WellFormed, Event, EventType, CREATE, RENAME, DELETE, CLEAR
<1>m. m \in [Keys -> Event \cup {Absent}]
  BY DEF EventsMap
<1>1. CASE e.type = CREATE
  <2>0. e.key \in Keys /\ e.payload # Absent /\ e.timestamp # Absent /\ e # Absent
    BY <1>0, <1>1, StoreAssumption, LogAssumption DEF CREATE, CLEAR
  <2>1. CASE PastDeadline(e, t)
    <3>1. c = m
      BY <1>1, <2>1 DEF CompactEvent, CREATE, RENAME, DELETE, CLEAR
    <3>2. e.timestamp < t
      BY <2>1 DEF PastDeadline
    <3>3. ~Held(m, e.key, t)
      <4>1. m[e.key] # Absent => m[e.key].timestamp \in Int
        BY <1>m, <2>0 DEF Event
      <4> QED
        BY <1>0, <1>1, <3>2, <4>1 DEF Held
    <3>4. ~Shows(r, e.key, t)
      BY <1>0, <1>1, <2>0, <3>2 DEF TimedEffect, Shows
    <3> HIDE DEF c
    <3>5. ASSUME NEW k \in Keys PROVE HeldAs(c, r, k, t)
      <4>1. CASE k = e.key
        BY <3>1, <3>3, <3>4, <4>1 DEF HeldAs
      <4>2. CASE k # e.key
        BY <1>1, <3>1, <4>2 DEF Holds, HeldAs, TimedEffect, Shows
      <4> QED
        BY <4>1, <4>2
    <3> QED
      BY <3>5 DEF Holds, c
  <2>2. CASE ~PastDeadline(e, t)
    <3>1. c = [m EXCEPT ![e.key] = e]
      BY <1>1, <2>2 DEF CompactEvent, CreateCompactStrategy, CREATE, RENAME, DELETE, CLEAR
    <3>2. \A k \in Keys : c[k] = IF k = e.key THEN e ELSE m[k]
      BY <1>m, <2>0, <3>1
    <3> HIDE DEF c
    <3>5. ASSUME NEW k \in Keys PROVE HeldAs(c, r, k, t)
      <4>1. CASE k = e.key
        <5>1. /\ c[k] = e /\ r.m_data[k] = e.payload /\ r.m_ttlData[k] = e.timestamp
          BY <1>1, <3>2, <4>1 DEF TimedEffect
        <5> QED
          BY <2>0, <4>1, <5>1 DEF HeldAs, Held, Shows
      <4>2. CASE k # e.key
        BY <1>1, <3>2, <4>2 DEF Holds, HeldAs, Held, TimedEffect, Shows
      <4> QED
        BY <4>1, <4>2
    <3> QED
      BY <3>5 DEF Holds, c
  <2> QED
    BY <2>1, <2>2
<1>2. CASE e.type = DELETE
  <2>0. e.key \in Keys
    BY <1>0, <1>2 DEF DELETE, CLEAR
  <2>1. c = [m EXCEPT ![e.key] = Absent]
    BY <1>2 DEF CompactEvent, DeleteCompactStrategy, CREATE, RENAME, DELETE, CLEAR
  <2>2. \A k \in Keys : c[k] = IF k = e.key THEN Absent ELSE m[k]
    BY <1>m, <2>0, <2>1
  <2> HIDE DEF c
  <2>3. ASSUME NEW k \in Keys PROVE HeldAs(c, r, k, t)
    BY <1>2, <2>2 DEF Holds, HeldAs, Held, TimedEffect, Shows
  <2> QED
    BY <2>3 DEF Holds, c
<1>3. CASE e.type = CLEAR
  <2>1. c = EmptyEventsMap
    BY <1>3 DEF CompactEvent, ClearCompactStrategy, CREATE, RENAME, DELETE, CLEAR
  <2> HIDE DEF c
  <2>2. ASSUME NEW k \in Keys PROVE HeldAs(c, r, k, t)
    BY <1>3, <2>1 DEF EmptyEventsMap, HeldAs, Held, TimedEffect, Shows
  <2> QED
    BY <2>2 DEF Holds, c
<1> QED
  BY <1>0, <1>1, <1>2, <1>3

\* A surviving event is the one that was there before or the one compacted.
LEMMA CompactKeeps ==
    ASSUME NEW m \in EventsMap, NEW e, WellFormed(e), e.type # RENAME, NEW t, NEW k \in Keys,
           CompactEvent(m, e, t)[k] # Absent
    PROVE  CompactEvent(m, e, t)[k] = m[k] \/ CompactEvent(m, e, t)[k] = e
<1>0. /\ e.type \in {CREATE, DELETE, CLEAR} /\ m \in [Keys -> Event \cup {Absent}]
  BY DEF WellFormed, Event, EventType, EventsMap
<1>1. CASE e.type = CREATE
  BY <1>0, <1>1 DEF CompactEvent, CreateCompactStrategy, CREATE, RENAME, DELETE, CLEAR
<1>2. CASE e.type = DELETE
  BY <1>0, <1>2 DEF CompactEvent, DeleteCompactStrategy, CREATE, RENAME, DELETE, CLEAR
<1>3. CASE e.type = CLEAR
  BY <1>0, <1>3 DEF CompactEvent, ClearCompactStrategy, EmptyEventsMap, CREATE, RENAME, DELETE, CLEAR
<1> QED
  BY <1>0, <1>1, <1>2, <1>3

-----------------------------------------------------------------------------
(* Files with expiry. *)

\* A later CREATE of the same key has no earlier deadline.
NotEarlier(e, f) ==
    e.type = CREATE /\ f.type = CREATE /\ e.key = f.key => e.timestamp <= f.timestamp

FileTimed(recs, limit) ==
    /\ TornOnlyLast(recs)
    /\ \A i \in 1..WholeCount(recs) : TimedEvent(EventAt(recs, i), limit)
    /\ \A i, j \in 1..WholeCount(recs) : i < j => NotEarlier(EventAt(recs, i), EventAt(recs, j))

\* h is what replaying the first n records goes through.
TimedTrace(h, recs, n, ttl) ==
    /\ ReplayTrace(h, recs, n, ttl, 0)
    /\ \A i \in 0..n : IsTimed(h[i], ttl)

LEMMA EmptyTimed ==
    ASSUME NEW ttl \in Nat
    PROVE  IsTimed(EmptyStore(ttl), ttl)
<1>1. EmptyStore(ttl) \in Store /\ Aligned(EmptyStore(ttl))
  BY EmptyStoreType, EmptyAligned
<1> QED
  BY <1>1 DEF IsTimed, EmptyStore

LEMMA EmptyTimedTrace ==
    ASSUME NEW recs, NEW ttl \in Nat
    PROVE  TimedTrace([i \in 0..0 |-> EmptyStore(ttl)], recs, 0, ttl)
<1>1. IsTimed(EmptyStore(ttl), ttl) /\ EmptyStore(ttl) \in Store
  BY EmptyTimed DEF IsTimed
<1> QED
  BY <1>1 DEF TimedTrace, ReplayTrace

LEMMA EmptyFileTimed ==
    ASSUME NEW limit
    PROVE  FileTimed(<<>>, limit) /\ WholeCount(<<>>) = 0 /\ ~TornTail(<<>>)
BY DEF FileTimed, TornOnlyLast, WholeCount, TornTail

LEMMA KeepTimedTrace ==
    ASSUME NEW recs \in Seq(Record), NEW n \in 0..Len(recs), NEW ttl, NEW h,
           TimedTrace(h, recs, n, ttl), NEW r \in Record
    PROVE  TimedTrace(h, Append(recs, r), n, ttl)
<1>1. Len(recs) \in Nat /\ \A i \in 1..n : Append(recs, r)[i] = recs[i]
  BY AppendProperties, LenProperties
<1> QED
  BY <1>1 DEF TimedTrace, ReplayTrace

LEMMA ExtendTimedTrace ==
    ASSUME NEW recs \in Seq(Record), NEW ttl \in Nat, NEW h,
           TimedTrace(h, recs, Len(recs), ttl),
           NEW e, WellFormed(e), e.type # RENAME
    PROVE  \E g : /\ TimedTrace(g, Append(recs, WriteRecord(e)), Len(recs) + 1, ttl)
                  /\ g[Len(recs) + 1] = ApplyEvent(h[Len(recs)], e, 0)
<1> DEFINE n == Len(recs)
           d == ApplyEvent(h[n], e, 0)
           g == Extend(h, n, d)
           recs2 == Append(recs, WriteRecord(e))
<1>0. n \in Nat /\ 0 \in Int
  BY LenProperties
<1>1. WriteRecord(e) \in Record /\ Deserialize(WriteRecord(e).fields) = e
  BY WriteRecordOK DEF RecordOK
<1>2. /\ \A i \in 1..n : recs2[i] = recs[i]
      /\ recs2[n + 1] = WriteRecord(e)
  BY <1>1, AppendProperties, LenProperties
<1>3. /\ h \in [0..n -> Store] /\ h[0] = EmptyStore(ttl)
      /\ \A i \in 1..n : h[i] = ApplyEvent(h[i - 1], Deserialize(recs[i].fields), 0)
      /\ \A i \in 0..n : IsTimed(h[i], ttl)
  BY DEF TimedTrace, ReplayTrace
<1>4. IsTimed(d, ttl)
  <2>1. IsTimed(h[n], ttl)
    BY <1>0, <1>3
  <2> QED
    BY <1>0, <2>1, TimedApply
<1>5. d \in Store
  BY <1>4 DEF IsTimed
<1> HIDE DEF d, n, recs2
<1>6. /\ g \in [0..(n + 1) -> Store]
      /\ g[n + 1] = d
      /\ \A i \in 0..n : g[i] = h[i]
  BY <1>0, <1>3, <1>5 DEF Extend
<1> HIDE DEF g
<1>7. g[0] = EmptyStore(ttl)
  BY <1>0, <1>3, <1>6
<1>8. ASSUME NEW i \in 1..(n + 1)
      PROVE  g[i] = ApplyEvent(g[i - 1], Deserialize(recs2[i].fields), 0)
  <2>1. CASE i = n + 1
    <3>1. Deserialize(recs2[i].fields) = e
      BY <1>1, <1>2, <2>1
    <3>2. g[i - 1] = h[n] /\ g[i] = d
      BY <1>0, <1>6, <2>1
    <3> QED
      BY <3>1, <3>2 DEF d
  <2>2. CASE i # n + 1
    <3>1. i \in 1..n /\ i - 1 \in 0..n /\ i \in 0..n
      BY <1>0, <2>2
    <3>2. h[i] = ApplyEvent(h[i - 1], Deserialize(recs[i].fields), 0)
      BY <1>3, <3>1
    <3>3. g[i] = h[i] /\ g[i - 1] = h[i - 1] /\ recs2[i] = recs[i]
      BY <1>2, <1>6, <3>1
    <3> QED
      BY <3>2, <3>3
  <2> QED
    BY <2>1, <2>2
<1>9. ASSUME NEW i \in 0..(n + 1) PROVE IsTimed(g[i], ttl)
  <2>1. i \in 0..n \/ i = n + 1
    BY <1>0
  <2> QED
    BY <1>3, <1>4, <1>6, <2>1
<1>10. TimedTrace(g, recs2, n + 1, ttl)
  BY <1>6, <1>7, <1>8, <1>9 DEF TimedTrace, ReplayTrace
<1> QED
  BY <1>6, <1>10 DEF d, n, recs2

\* Appending to a file whose last record is whole.
LEMMA AppendTimed ==
    ASSUME NEW recs \in Seq(Record), NEW limit, FileTimed(recs, limit), ~TornTail(recs),
           NEW r \in Record,
           Whole(r) => /\ TimedEvent(Deserialize(r.fields), limit)
                       /\ \A i \in 1..Len(recs) :
                              NotEarlier(EventAt(recs, i), Deserialize(r.fields))
    PROVE  /\ FileTimed(Append(recs, r), limit)
           /\ WholeCount(recs) = Len(recs)
           /\ Whole(r) => WholeCount(Append(recs, r)) = Len(recs) + 1
           /\ ~Whole(r) => WholeCount(Append(recs, r)) = Len(recs)
           /\ Whole(r) => ~TornTail(Append(recs, r))
<1> DEFINE recs2 == Append(recs, r)
           n == Len(recs)
<1>1. /\ n \in Nat /\ Len(recs2) = n + 1
      /\ \A i \in 1..n : recs2[i] = recs[i]
      /\ recs2[n + 1] = r
      /\ recs2 # <<>>
      /\ recs2 \in Seq(Record)
  BY AppendProperties, LenProperties, EmptySeq
<1>2. TornOnlyLast(recs2)
  <2>1. AllWhole(recs)
    BY UntornWhole DEF FileTimed
  <2> QED
    BY <2>1, AppendWhole
<1> HIDE DEF recs2
<1>3. TornTail(recs2) <=> ~Whole(r)
  BY <1>1 DEF TornTail
<1>4. WholeCount(recs) = n
  BY DEF WholeCount
<1>5. Whole(r) => WholeCount(recs2) = n + 1
  BY <1>1, <1>3 DEF WholeCount
<1>6. ~Whole(r) => WholeCount(recs2) = n
  BY <1>1, <1>3 DEF WholeCount
<1>7. \A i \in 1..n : EventAt(recs2, i) = EventAt(recs, i)
  BY <1>1 DEF EventAt
<1>8. EventAt(recs2, n + 1) = Deserialize(r.fields)
  BY <1>1 DEF EventAt
<1>9. /\ \A i \in 1..n : TimedEvent(EventAt(recs, i), limit)
      /\ \A i, j \in 1..n : i < j => NotEarlier(EventAt(recs, i), EventAt(recs, j))
  BY <1>4 DEF FileTimed
<1>10. FileTimed(recs2, limit)
  <2>1. CASE ~Whole(r)
    BY <1>2, <1>6, <1>7, <1>9, <2>1 DEF FileTimed
  <2>2. CASE Whole(r)
    <3>1. ASSUME NEW i \in 1..(n + 1) PROVE TimedEvent(EventAt(recs2, i), limit)
      <4>1. i \in 1..n \/ i = n + 1
        BY <1>1
      <4> QED
        BY <1>7, <1>8, <1>9, <2>2, <4>1
    <3>2. ASSUME NEW i \in 1..(n + 1), NEW j \in 1..(n + 1), i < j
          PROVE  NotEarlier(EventAt(recs2, i), EventAt(recs2, j))
      <4>1. i \in 1..n /\ (j \in 1..n \/ j = n + 1)
        BY <1>1, <3>2
      <4> QED
        BY <1>7, <1>8, <1>9, <2>2, <3>2, <4>1
    <3> QED
      BY <1>2, <1>5, <2>2, <3>1, <3>2 DEF FileTimed
  <2> QED
    BY <2>1, <2>2
<1> QED
  BY <1>3, <1>4, <1>5, <1>6, <1>10 DEF recs2

LEMMA FileTimedLater ==
    ASSUME NEW recs, NEW t \in Int, NEW u \in Int, t <= u, FileTimed(recs, t)
    PROVE  FileTimed(recs, u)
<1>1. \A e : TimedEvent(e, t) => TimedEvent(e, u)
  BY DEF TimedEvent, WellFormed, Event
<1> QED
  BY <1>1 DEF FileTimed

\* Such a trace is what a replay computes, at whatever time.
LEMMA TimedReplays ==
    ASSUME NEW recs \in Seq(Record), NEW limit, FileTimed(recs, limit), NEW ttl \in Nat,
           NEW h, TimedTrace(h, recs, WholeCount(recs), ttl), NEW t \in Int
    PROVE  ReplayedStore(recs, ttl, t) = h[WholeCount(recs)]
<1> DEFINE n == WholeCount(recs)
<1>1. n \in Nat /\ n = WholePrefix(recs)
  BY WholeCountFacts, WholePrefixCount DEF FileTimed
<1>2. \A i \in 1..n : WellFormed(EventAt(recs, i)) /\ EventAt(recs, i).type # RENAME
  BY DEF FileTimed, TimedEvent
<1>3. /\ ReplayTrace(h, recs, n, ttl, 0)
      /\ \A i \in 0..n : IsTimed(h[i], ttl)
  BY DEF TimedTrace
<1> HIDE DEF n
<1>4. ASSUME NEW i \in 1..n
      PROVE  h[i] = ApplyEvent(h[i - 1], Deserialize(recs[i].fields), t)
  <2>1. i - 1 \in 0..n
    BY <1>1
  <2>2. IsTimed(h[i - 1], ttl)
    BY <1>3, <2>1
  <2>3. ApplyEvent(h[i - 1], EventAt(recs, i), t) = ApplyEvent(h[i - 1], EventAt(recs, i), 0)
    BY <1>2, <2>2, TimedApply
  <2> QED
    BY <1>3, <2>3 DEF ReplayTrace, EventAt
<1>5. ReplayTrace(h, recs, n, ttl, t)
  BY <1>3, <1>4 DEF ReplayTrace
<1> QED
  BY <1>1, <1>5, ReplayedStoreTrace DEF n

-----------------------------------------------------------------------------
(* The invariant, with expiry. *)

TimedStores(ttl) ==
    /\ now <= MaxTime
    /\ phase # "down" => IsTimed(m_store, ttl)
    /\ phase \in {"committing", "appended"} => IsTimed(staged, ttl)
    /\ committed = NoStore \/ IsTimed(committed, ttl)

TimedStaged(ttl) ==
    /\ phase \in {"committing", "appended"} => TimedEvent(event, now + ttl)
    /\ phase = "committing" => staged = ApplyEvent(m_store, event, 0)

\* Memory agrees with what was committed.
TimedMemory ==
    /\ Serving => Agree(m_store, committed, now)
    /\ phase = "appended" => staged = committed

\* h is what replaying the log goes through, and where the loops stand in it.
TimedLogTrace(h, ttl) ==
    LET n == WholeCount(records)
    IN  /\ TimedTrace(h, records, n, ttl)
        /\ Agree(h[n], committed, now)
        /\ phase \in {"replaying", "compacting"} =>
               queue = EventsOf(records, n) /\ cursor <= n + 1
        /\ phase = "replaying" => m_store = h[cursor - 1]
        /\ phase = "compacting" => Holds(eventsMap, h[cursor - 1], now)

\* The event about to be appended has no earlier deadline than the log's.
EventInOrder ==
    phase = "committing" =>
        \A i \in 1..WholeCount(records) : NotEarlier(EventAt(records, i), event)

\* What compaction holds it has from the records it has passed.
EventsFromLog ==
    phase = "compacting" =>
        \A k \in Keys : eventsMap[k] # Absent =>
            \E i \in 1..(cursor - 1) : eventsMap[k] = EventAt(records, i)

TimedLog(ttl) ==
    /\ FileTimed(records, now + ttl)
    /\ EventInOrder
    /\ EventsFromLog
    /\ \E h : TimedLogTrace(h, ttl)

\* Replaying the temporary file, then creating what is left to write, gives
\* a store that agrees with the committed one.
TimedTmpTrace(g, ttl) ==
    /\ TimedTrace(g, tmp, Len(tmp), ttl)
    /\ \A k \in Keys :
           /\ eventsMap[k] = Absent => SameAt(g[Len(tmp)], committed, k, now)
           /\ eventsMap[k] # Absent => /\ HeldAs(eventsMap, committed, k, now)
                                       /\ g[Len(tmp)].m_data[k] = Absent

TmpRecordsDone ==
    \A i \in 1..Len(tmp) :
        EventAt(tmp, i).type = CREATE => eventsMap[EventAt(tmp, i).key] = Absent

TimedTmp(ttl) ==
    phase = "rewriting" =>
        /\ FileTimed(tmp, now + ttl)
        /\ ~TornTail(tmp)
        /\ TmpRecordsDone
        /\ \A k \in Keys : eventsMap[k] # Absent => TimedEvent(eventsMap[k], now + ttl)
        /\ \E g : TimedTmpTrace(g, ttl)

TimedInv(ttl) ==
    /\ TypeInv
    /\ ModeInv
    /\ TimedStores(ttl)
    /\ TimedStaged(ttl)
    /\ ~misframed => TimedMemory /\ TimedLog(ttl) /\ TimedTmp(ttl)

LEMMA TimedEventLater ==
    ASSUME NEW t \in Int, NEW u \in Int, t <= u, NEW e, TimedEvent(e, t)
    PROVE  TimedEvent(e, u)
BY DEF TimedEvent, WellFormed, Event

LEMMA AgreeLater ==
    ASSUME NEW s \in Store, NEW r \in Store, NEW t \in Int, NEW u \in Int, t <= u,
           Agree(s, r, t)
    PROVE  Agree(s, r, u)
BY SameAtLater DEF Agree

LEMMA TimedInit ==
    ASSUME NEW ttl \in Nat
    PROVE  Init => TimedInv(ttl)
<1> SUFFICES ASSUME Init PROVE TimedInv(ttl)
  OBVIOUS
<1>1. TypeInv
  BY TypeInit
<1>2. ModeInv /\ TimedStaged(ttl) /\ TimedTmp(ttl)
  BY DEF Init, ModeInv, TimedStaged, TimedTmp
<1>3. TimedStores(ttl)
  BY DBAssumption DEF Init, TimedStores
<1>4. TimedMemory
  BY DEF Init, TimedMemory, Serving
<1>5. TimedLog(ttl)
  <2> DEFINE h == [i \in 0..0 |-> EmptyStore(ttl)]
  <2>1. FileTimed(<<>>, now + ttl) /\ WholeCount(<<>>) = 0
    BY EmptyFileTimed
  <2>2. TimedTrace(h, records, 0, ttl) /\ h[0] = EmptyStore(ttl)
    <3>1. TimedTrace(h, records, 0, ttl)
      BY EmptyTimedTrace, Zenon
    <3> QED
      BY <3>1
  <2>3. Agree(EmptyStore(ttl), committed, now)
    BY DEF Init, NoStore, Agree, SameAt, Shows, EmptyStore
  <2> HIDE DEF h
  <2>4. records = <<>> /\ phase = "down"
    BY DEF Init
  <2>5. TimedLogTrace(h, ttl)
    BY <2>1, <2>2, <2>3, <2>4 DEF TimedLogTrace
  <2> QED
    BY <2>1, <2>4, <2>5 DEF TimedLog, EventInOrder, EventsFromLog
<1> QED
  BY <1>1, <1>2, <1>3, <1>4, <1>5 DEF TimedInv

\* Time passes, and nothing else happens.
LEMMA TimedFrame ==
    ASSUME NEW ttl \in Nat, TimedInv(ttl), TypeInv', now <= now', now' <= MaxTime,
           UNCHANGED <<phase, m_persistence, m_store, staged, event, queue, cursor,
                       eventsMap, records, tmp, committed, misframed>>
    PROVE  TimedInv(ttl)'
<1>t. /\ now \in Int /\ now' \in Int /\ m_store \in Store /\ committed \in Store
      /\ eventsMap \in EventsMap /\ records \in Seq(Record) /\ tmp \in Seq(Record)
  BY DEF TimedInv, TypeInv, TypeOK
<1>l. now + ttl \in Int /\ now' + ttl \in Int /\ now + ttl <= now' + ttl
  <2>1. \A a, b \in Int : a <= b => a + ttl \in Int /\ b + ttl \in Int /\ a + ttl <= b + ttl
    OBVIOUS
  <2> QED
    BY <1>t, <2>1, Zenon
<1>1. ModeInv' /\ TimedStores(ttl)'
  BY DEF TimedInv, ModeInv, TimedStores
<1>2. TimedStaged(ttl)'
  BY <1>l, TimedEventLater DEF TimedInv, TimedStaged
<1>3. ASSUME ~misframed' PROVE TimedMemory' /\ TimedLog(ttl)' /\ TimedTmp(ttl)'
  <2>1. TimedMemory /\ TimedLog(ttl) /\ TimedTmp(ttl)
    BY <1>3 DEF TimedInv
  <2>2. TimedMemory'
    BY <1>t, <2>1, AgreeLater DEF TimedMemory, Serving
  <2>3. TimedLog(ttl)'
    <3>1. PICK h : TimedLogTrace(h, ttl)
      BY <2>1 DEF TimedLog
    <3> DEFINE n == WholeCount(records)
    <3>2. FileTimed(records, now' + ttl)
      BY <1>l, <2>1, FileTimedLater DEF TimedLog
    <3>3. n \in Nat
      BY <1>t, <2>1, WholeCountFacts DEF TimedLog, FileTimed
    <3> HIDE DEF n
    <3>4. h \in [0..n -> Store]
      BY <3>1 DEF TimedLogTrace, TimedTrace, ReplayTrace, n
    <3>5. Agree(h[n], committed, now')
      <4>1. Agree(h[n], committed, now) /\ h[n] \in Store
        BY <3>1, <3>3, <3>4 DEF TimedLogTrace, n
      <4> QED
        BY <1>t, <4>1, AgreeLater
    <3>6. ASSUME phase = "compacting" PROVE Holds(eventsMap, h[cursor - 1], now')
      <4>1. cursor - 1 \in 0..n
        BY <3>1, <3>3, <3>6 DEF TimedLogTrace, n, TimedInv, TypeInv, TypeOK
      <4>2. h[cursor - 1] \in Store
        BY <3>4, <4>1
      <4>3. Holds(eventsMap, h[cursor - 1], now)
        BY <3>1, <3>6 DEF TimedLogTrace
      <4> QED
        BY <1>t, <4>2, <4>3, HeldLater DEF Holds
    <3>7. TimedLogTrace(h, ttl)'
      BY <3>1, <3>5, <3>6 DEF TimedLogTrace, n
    <3> QED
      BY <2>1, <3>2, <3>7 DEF TimedLog, EventInOrder, EventsFromLog
  <2>4. TimedTmp(ttl)'
    <3> SUFFICES ASSUME phase = "rewriting" PROVE TimedTmp(ttl)'
      BY DEF TimedTmp
    <3>1. PICK g : TimedTmpTrace(g, ttl)
      BY <2>1 DEF TimedTmp
    <3> DEFINE n == Len(tmp)
    <3>2. FileTimed(tmp, now' + ttl)
      BY <1>l, <2>1, FileTimedLater DEF TimedTmp
    <3>3. \A k \in Keys : eventsMap[k] # Absent => TimedEvent(eventsMap[k], now' + ttl)
      BY <1>l, <2>1, TimedEventLater DEF TimedTmp
    <3>4. n \in Nat
      BY <1>t, LenProperties
    <3>5. g[n] \in Store
      BY <3>1, <3>4 DEF TimedTmpTrace, TimedTrace, ReplayTrace
    <3>6. ASSUME NEW k \in Keys
          PROVE  /\ eventsMap[k] = Absent => SameAt(g[n], committed, k, now')
                 /\ eventsMap[k] # Absent => /\ HeldAs(eventsMap, committed, k, now')
                                             /\ g[n].m_data[k] = Absent
      BY <1>t, <3>1, <3>5, SameAtLater, HeldLater DEF TimedTmpTrace
    <3>7. TimedTmpTrace(g, ttl)'
      BY <3>1, <3>6 DEF TimedTmpTrace
    <3> QED
      BY <2>1, <3>2, <3>3, <3>7 DEF TimedTmp, TmpRecordsDone
  <2> QED
    BY <2>2, <2>3, <2>4
<1> QED
  BY <1>1, <1>2, <1>3 DEF TimedInv

\* Steps to a phase without a loop that leave the log and history alone.
LEMMA TimedQuiet ==
    ASSUME NEW ttl \in Nat, TimedInv(ttl), TypeInv', ModeInv', TimedStores(ttl)',
           TimedStaged(ttl)', ~misframed => TimedMemory' /\ EventInOrder',
           UNCHANGED <<now, records, committed, misframed>>,
           phase' \notin {"replaying", "compacting", "rewriting"}
    PROVE  TimedInv(ttl)'
<1>1. ASSUME ~misframed' PROVE TimedMemory' /\ TimedLog(ttl)' /\ TimedTmp(ttl)'
  <2>1. TimedMemory' /\ EventInOrder' /\ TimedLog(ttl)
    BY <1>1 DEF TimedInv
  <2>2. PICK h : TimedLogTrace(h, ttl)
    BY <2>1 DEF TimedLog
  <2>3. TimedLogTrace(h, ttl)'
    BY <2>2 DEF TimedLogTrace
  <2>4. EventsFromLog' /\ TimedTmp(ttl)'
    BY DEF EventsFromLog, TimedTmp
  <2> QED
    BY <2>1, <2>3, <2>4 DEF TimedLog
<1> QED
  BY <1>1 DEF TimedInv

\* Without renames every operation commits an event with a deadline that is as
\* late as any in the log.
LEMMA TimedOperations ==
    ASSUME NEW ttl \in Nat, MaxTime + ttl <= MaxTimestamp, RenamePairs = {},
           TypeOK, TimedStores(ttl), Operation
    PROVE  \E e : /\ TimedEvent(e, now + ttl)
                  /\ e.type = CREATE => e.timestamp = now + ttl
                  /\ Commit(e)
<1>t. now \in Nat /\ now <= MaxTime /\ MaxTime \in Nat /\ MaxTimestamp \in Nat
  BY DBAssumption, StoreAssumption DEF TypeOK, TimedStores
<1>1. CASE \E k \in Keys, v \in Values : Create(k, v)
  <2>1. PICK k \in Keys, v \in Values : Create(k, v)
    BY <1>1
  <2>2. m_store.m_ttl = ttl
    BY <2>1 DEF Create, Commit, TimedStores, IsTimed
  <2>3. NewExpiryTimestamp(m_store, now) = now + ttl
    BY <1>t, <2>2 DEF NewExpiryTimestamp, HasTimeToLive, NoExpiry, AddTimestamp
  <2> DEFINE e == RadishEvent(CREATE, now + ttl, k, Absent, v)
  <2>4. WellFormed(e)
    <3>1. now + ttl \in Int
      BY <1>t
    <3> QED
      BY <3>1, OperationEvents
  <2>5. TimedEvent(e, now + ttl) /\ e.timestamp = now + ttl
    BY <1>t, <2>4 DEF TimedEvent, RadishEvent, CREATE, RENAME
  <2> QED
    BY <2>1, <2>3, <2>5 DEF Create
<1>2. CASE \E p \in RenamePairs : Rename(p[1], p[2])
  BY <1>2
<1>3. CASE \E k \in Keys : Delete(k)
  <2>1. PICK k \in Keys : Delete(k)
    BY <1>3
  <2> DEFINE e == RadishEvent(DELETE, -1, k, Absent, Absent)
  <2>2. WellFormed(e)
    BY StoreAssumption
    DEF RadishEvent, WellFormed, Event, EventType, CREATE, RENAME, DELETE, CLEAR
  <2>3. TimedEvent(e, now + ttl) /\ e.type # CREATE
    BY <2>2 DEF TimedEvent, RadishEvent, CREATE, RENAME, DELETE
  <2> QED
    BY <2>1, <2>3 DEF Delete
<1>4. CASE Clear
  <2> DEFINE e == RadishEvent(CLEAR, -1, Absent, Absent, Absent)
  <2>2. WellFormed(e)
    BY StoreAssumption
    DEF RadishEvent, WellFormed, Event, EventType, CREATE, RENAME, DELETE, CLEAR
  <2>3. TimedEvent(e, now + ttl) /\ e.type # CREATE
    BY <2>2 DEF TimedEvent, RadishEvent, CREATE, RENAME, CLEAR
  <2> QED
    BY <1>4, <2>3 DEF Clear
<1> QED
  BY <1>1, <1>2, <1>3, <1>4 DEF Operation

LEMMA TimedStep ==
    ASSUME NEW ttl \in Nat, OneTtl(ttl), NoRename, TimedInv(ttl), [Next]_vars
    PROVE  TimedInv(ttl)'
<1>t. TypeInv /\ TypeInv'
  BY TypeStep DEF TimedInv
<1>o. /\ TypeOK /\ now \in Int /\ m_store \in Store /\ committed \in Store
      /\ records \in Seq(Record) /\ tmp \in Seq(Record) /\ 0 \in Int
  BY <1>t DEF TypeInv, TypeOK
<1>p. /\ ModeInv /\ TimedStores(ttl) /\ TimedStaged(ttl)
      /\ ~misframed => TimedMemory /\ TimedLog(ttl) /\ TimedTmp(ttl)
  BY DEF TimedInv
<1>s. /\ \A l \in TtlChoices : EmptyStore(l) = EmptyStore(ttl)
      /\ IsTimed(EmptyStore(ttl), ttl)
  BY EmptyTimed DEF OneTtl
<1>1. ASSUME NEW l \in TtlChoices, OpenVolatile(l) PROVE TimedInv(ttl)'
  <2>0. /\ now' = now /\ records' = records /\ committed' = committed
        /\ misframed' = misframed /\ m_persistence' = m_persistence
        /\ phase = "down" /\ phase' = "running" /\ m_store' = EmptyStore(ttl)
    BY <1>1, <1>s DEF OpenVolatile, fileVars, historyVars
  <2>1. ModeInv' /\ TimedStores(ttl)' /\ TimedStaged(ttl)' /\ ~Serving'
    BY <2>0, <1>p, <1>s DEF ModeInv, TimedStores, TimedStaged, Serving
  <2>2. TimedMemory' /\ EventInOrder'
    BY <2>0, <2>1 DEF TimedMemory, EventInOrder
  <2> QED
    BY <1>t, <2>0, <2>1, <2>2, TimedQuiet
<1>2. ASSUME NEW l \in TtlChoices, OpenLog(l) PROVE TimedInv(ttl)'
  <2>0. /\ now' = now /\ records' = records /\ committed' = committed
        /\ misframed' = misframed /\ m_persistence' = TRUE /\ cursor' = 1
        /\ phase' = "replaying" /\ m_store' = EmptyStore(ttl)
    BY <1>2, <1>s DEF OpenLog, historyVars
  <2>1. ModeInv' /\ TimedStores(ttl)' /\ TimedStaged(ttl)' /\ TimedMemory' /\ TimedTmp(ttl)'
    BY <2>0, <1>p, <1>s DEF ModeInv, TimedStores, TimedStaged, TimedMemory, TimedTmp, Serving
  <2>2. ASSUME ~misframed' PROVE TimedLog(ttl)'
    <3>1. TimedLog(ttl)
      BY <1>p, <2>0, <2>2
    <3>2. PICK h : TimedLogTrace(h, ttl)
      BY <3>1 DEF TimedLog
    <3> DEFINE n == WholeCount(records)
    <3>3. queue' = EventsOf(records, n)
      <4>1. GetEvents(records) = {ReadOk(EventsOf(records, n))}
        BY <1>o, <3>1, FramedRead DEF TimedLog, FileTimed
      <4> QED
        BY <1>2, <4>1 DEF OpenLog, ReadOk
    <3>4. n \in Nat
      BY <1>o, <3>1, WholeCountFacts DEF TimedLog, FileTimed
    <3>5. h[0] = EmptyStore(ttl)
      BY <3>2 DEF TimedLogTrace, TimedTrace, ReplayTrace
    <3> HIDE DEF n
    <3>6. TimedLogTrace(h, ttl)'
      BY <3>2, <3>3, <3>4, <3>5, <2>0 DEF TimedLogTrace, n
    <3> QED
      BY <3>1, <3>6, <2>0 DEF TimedLog, EventInOrder, EventsFromLog
  <2> QED
    BY <1>t, <2>1, <2>2 DEF TimedInv
<1>f. ASSUME UNCHANGED <<now, phase, m_persistence, m_store, staged, event, queue, cursor,
                         eventsMap, records, tmp, committed, misframed>>
      PROVE  TimedInv(ttl)'
  <2>1. now <= now' /\ now' <= MaxTime
    BY <1>f, <1>o, <1>p DEF TimedStores
  <2> QED
    BY <1>f, <1>t, <2>1, TimedFrame
<1>3. ASSUME OpenFails PROVE TimedInv(ttl)'
  BY <1>3, <1>f DEF OpenFails, vars, commitVars, loopVars, fileVars, historyVars
<1>4. ASSUME CreateLogFails PROVE TimedInv(ttl)'
  BY <1>4, <1>f DEF CreateLogFails, commitVars, loopVars, historyVars
<1>5. ASSUME Operation PROVE TimedInv(ttl)'
  <2>1. PICK e : /\ TimedEvent(e, now + ttl)
                 /\ e.type = CREATE => e.timestamp = now + ttl
                 /\ Commit(e)
    BY <1>5, <1>o, <1>p, TimedOperations DEF OneTtl, NoRename
  <2>u. /\ phase = "running" /\ committed' = committed /\ misframed' = misframed
        /\ records' = records /\ m_persistence' = m_persistence /\ now' = now
    BY <2>1 DEF Commit, fileVars, historyVars
  <2> DEFINE d == ApplyEvent(m_store, e, now)
  <2>2. IsTimed(d, ttl) /\ d = ApplyEvent(m_store, e, 0)
    <3>1. IsTimed(m_store, ttl) /\ WellFormed(e) /\ e.type # RENAME
      BY <1>p, <2>1, <2>u DEF TimedStores, TimedEvent
    <3> QED
      BY <1>o, <3>1, TimedApply
  <2>4. CASE m_persistence
    <3>0. /\ staged' = d /\ event' = e /\ m_store' = m_store /\ phase' = "committing"
      BY <2>1, <2>4 DEF Commit
    <3> HIDE DEF d
    <3>1. ModeInv' /\ TimedStores(ttl)' /\ TimedStaged(ttl)'
      BY <3>0, <2>1, <2>2, <2>4, <2>u, <1>p DEF ModeInv, TimedStores, TimedStaged
    <3>2. ASSUME ~misframed PROVE TimedMemory' /\ EventInOrder'
      <4>1. TimedMemory'
        BY <3>0, <3>2, <2>4, <2>u, <1>p DEF TimedMemory, Serving
      <4>2. ASSUME NEW i \in 1..WholeCount(records)
            PROVE  NotEarlier(EventAt(records, i), e)
        <5>1. TimedEvent(EventAt(records, i), now + ttl)
          BY <1>p, <3>2 DEF TimedLog, FileTimed
        <5> QED
          BY <2>1, <5>1 DEF TimedEvent, NotEarlier
      <4> QED
        BY <4>1, <4>2, <3>0, <2>u DEF EventInOrder
    <3> QED
      BY <3>0, <3>1, <3>2, <2>u, <1>t, TimedQuiet
  <2>5. CASE ~m_persistence
    <3>0. /\ m_store' = d /\ event' = event /\ staged' = staged /\ phase' = "running"
      BY <2>1, <2>5, <2>u DEF Commit
    <3> HIDE DEF d
    <3>1. ModeInv' /\ TimedStores(ttl)' /\ TimedStaged(ttl)'
      BY <3>0, <2>2, <2>u, <1>p DEF ModeInv, TimedStores, TimedStaged
    <3>2. TimedMemory' /\ EventInOrder'
      BY <3>0, <2>5, <2>u DEF TimedMemory, EventInOrder, Serving
    <3> QED
      BY <3>0, <3>1, <3>2, <2>u, <1>t, TimedQuiet
  <2> QED
    BY <2>4, <2>5
<1>6. ASSUME Compact PROVE TimedInv(ttl)'
  <2>0. /\ now' = now /\ records' = records /\ committed' = committed
        /\ misframed' = misframed /\ m_store' = m_store /\ m_persistence
        /\ m_persistence' = m_persistence /\ phase = "running" /\ phase' = "compacting"
        /\ cursor' = 1 /\ eventsMap' = EmptyEventsMap /\ staged' = staged
    BY <1>6 DEF Compact, fileVars, historyVars, commitVars
  <2>1. ModeInv' /\ TimedStores(ttl)' /\ TimedStaged(ttl)' /\ TimedTmp(ttl)'
    BY <2>0, <1>p DEF ModeInv, TimedStores, TimedStaged, TimedTmp
  <2>2. ASSUME ~misframed' PROVE TimedMemory' /\ TimedLog(ttl)'
    <3>1. TimedMemory /\ TimedLog(ttl)
      BY <2>0, <1>p, <2>2
    <3>2. PICK h : TimedLogTrace(h, ttl)
      BY <3>1 DEF TimedLog
    <3> DEFINE n == WholeCount(records)
    <3>3. queue' = EventsOf(records, n)
      <4>1. GetEvents(records) = {ReadOk(EventsOf(records, n))}
        BY <1>o, <3>1, FramedRead DEF TimedLog, FileTimed
      <4> QED
        BY <1>6, <4>1 DEF Compact, ReadOk
    <3>4. n \in Nat
      BY <1>o, <3>1, WholeCountFacts DEF TimedLog, FileTimed
    <3>5. h[0] = EmptyStore(ttl)
      BY <3>2 DEF TimedLogTrace, TimedTrace, ReplayTrace
    <3>h. Holds(EmptyEventsMap, EmptyStore(ttl), now)
      BY DEF Holds, HeldAs, Held, Shows, EmptyEventsMap, EmptyStore
    <3> HIDE DEF n
    <3>6. TimedLogTrace(h, ttl)'
      BY <3>2, <3>3, <3>4, <3>5, <3>h, <2>0 DEF TimedLogTrace, n
    <3>7. TimedMemory'
      BY <3>1, <2>0 DEF TimedMemory, Serving
    <3>8. EventInOrder' /\ EventsFromLog'
      BY <2>0 DEF EventInOrder, EventsFromLog, EmptyEventsMap
    <3> QED
      BY <3>1, <3>6, <3>7, <3>8, <2>0 DEF TimedLog
  <2> QED
    BY <1>t, <2>1, <2>2 DEF TimedInv
<1>7. ASSUME ReplayStep PROVE TimedInv(ttl)'
  <2>0. /\ now' = now /\ records' = records /\ committed' = committed
        /\ misframed' = misframed /\ phase = "replaying" /\ phase' = "replaying"
        /\ queue' = queue /\ cursor' = cursor + 1 /\ cursor <= Len(queue)
        /\ cursor \in Nat \ {0} /\ m_store' = ApplyEvent(m_store, queue[cursor], now)
        /\ m_persistence' = m_persistence /\ staged' = staged
    BY <1>7, <1>o DEF ReplayStep, TypeOK, fileVars, historyVars, commitVars
  <2>1. ModeInv' /\ TimedStaged(ttl)' /\ TimedTmp(ttl)' /\ TimedMemory'
        /\ EventInOrder' /\ EventsFromLog'
    BY <2>0, <1>p
    DEF ModeInv, TimedStaged, TimedTmp, TimedMemory, Serving, EventInOrder, EventsFromLog
  <2>2. TimedStores(ttl)'
    <3>1. WellFormed(queue[cursor]) /\ IsTimed(m_store, ttl)
      BY <2>0, <1>o, <1>p, LenProperties DEF TypeOK, TimedStores
    <3>2. IsTimed(m_store', ttl)
      BY <2>0, <3>1, <1>o, ApplyKeepsTimed
    <3> QED
      BY <2>0, <3>2, <1>p DEF TimedStores
  <2>3. ASSUME ~misframed' PROVE TimedLog(ttl)'
    <3>1. TimedLog(ttl)
      BY <2>0, <1>p, <2>3
    <3>2. PICK h : TimedLogTrace(h, ttl)
      BY <3>1 DEF TimedLog
    <3> DEFINE n == WholeCount(records)
    <3>3. /\ n \in Nat
          /\ \A i \in 1..n : TimedEvent(EventAt(records, i), now + ttl)
      BY <1>o, <3>1, WholeCountFacts DEF TimedLog, FileTimed
    <3> HIDE DEF n
    <3>4. /\ queue = EventsOf(records, n) /\ m_store = h[cursor - 1]
          /\ ReplayTrace(h, records, n, ttl, 0)
          /\ \A i \in 0..n : IsTimed(h[i], ttl)
      BY <3>2, <2>0 DEF TimedLogTrace, TimedTrace, n
    <3>5. Len(queue) = n /\ cursor \in 1..n /\ cursor - 1 \in 0..n
      BY <3>3, <3>4, <2>0 DEF EventsOf
    <3>6. queue[cursor] = EventAt(records, cursor)
      BY <3>4, <3>5 DEF EventsOf, EventAt
    <3>7. h[cursor] = ApplyEvent(m_store, queue[cursor], 0)
      BY <3>4, <3>5, <3>6 DEF ReplayTrace, EventAt
    <3>8. m_store' = h[cursor]
      <4>1. WellFormed(queue[cursor]) /\ queue[cursor].type # RENAME
        BY <3>3, <3>5, <3>6 DEF TimedEvent
      <4>2. IsTimed(m_store, ttl)
        BY <3>4, <3>5
      <4>3. ApplyEvent(m_store, queue[cursor], now) = ApplyEvent(m_store, queue[cursor], 0)
        BY <4>1, <4>2, <1>o, TimedApply
      <4> QED
        BY <4>3, <3>7, <2>0
    <3>9. cursor' - 1 = cursor /\ cursor' <= n + 1
      BY <3>3, <3>5, <2>0
    <3>10. TimedLogTrace(h, ttl)'
      BY <3>2, <3>4, <3>8, <3>9, <2>0 DEF TimedLogTrace, n
    <3> QED
      BY <3>1, <3>10, <2>0, <2>1 DEF TimedLog
  <2> QED
    BY <1>t, <2>1, <2>2, <2>3 DEF TimedInv
<1>8. ASSUME ReplayDone PROVE TimedInv(ttl)'
  <2>0. /\ now' = now /\ records' = records /\ committed' = committed
        /\ misframed' = misframed /\ phase = "replaying" /\ phase' = "running"
        /\ m_store' = m_store /\ cursor > Len(queue) /\ cursor \in Nat \ {0}
        /\ m_persistence' = m_persistence /\ staged' = staged
    BY <1>8, <1>o DEF ReplayDone, TypeOK, fileVars, historyVars, commitVars
  <2>1. ModeInv' /\ TimedStores(ttl)' /\ TimedStaged(ttl)' /\ EventInOrder'
    BY <2>0, <1>p DEF ModeInv, TimedStores, TimedStaged, EventInOrder
  <2>2. ASSUME ~misframed PROVE TimedMemory'
    <3>1. TimedLog(ttl)
      BY <1>p, <2>2
    <3>2. PICK h : TimedLogTrace(h, ttl)
      BY <3>1 DEF TimedLog
    <3> DEFINE n == WholeCount(records)
    <3>3. n \in Nat
      BY <1>o, <3>1, WholeCountFacts DEF TimedLog, FileTimed
    <3> HIDE DEF n
    <3>4. /\ queue = EventsOf(records, n) /\ m_store = h[cursor - 1]
          /\ cursor <= n + 1 /\ Agree(h[n], committed, now)
      BY <3>2, <2>0 DEF TimedLogTrace, n
    <3>5. Len(queue) = n
      BY <3>3, <3>4 DEF EventsOf
    <3>6. cursor - 1 = n
      BY <3>3, <3>4, <3>5, <2>0
    <3> QED
      BY <3>4, <3>6, <2>0 DEF TimedMemory, Serving
  <2> QED
    BY <1>t, <2>0, <2>1, <2>2, TimedQuiet
<1>9. ASSUME AppendOk PROVE TimedInv(ttl)'
  <2>0. /\ records' = Append(records, WriteRecord(event)) /\ committed' = staged
        /\ phase = "committing" /\ phase' = "appended" /\ m_store' = m_store
        /\ misframed' = (misframed \/ TornTail(records)) /\ now' = now
        /\ m_persistence' = m_persistence /\ staged' = staged /\ event' = event
    BY <1>9 DEF AppendOk, commitVars
  <2>1. ModeInv' /\ TimedStores(ttl)' /\ TimedStaged(ttl)' /\ TimedMemory' /\ TimedTmp(ttl)'
    BY <2>0, <1>p DEF ModeInv, TimedStores, TimedStaged, TimedMemory, TimedTmp, Serving
  <2>2. ASSUME ~misframed' PROVE TimedLog(ttl)'
    <3>1. ~misframed /\ ~TornTail(records)
      BY <2>0, <2>2
    <3>2. /\ TimedMemory /\ TimedLog(ttl) /\ TimedEvent(event, now + ttl)
          /\ WellFormed(event) /\ event.type # RENAME
          /\ staged = ApplyEvent(m_store, event, 0) /\ IsTimed(m_store, ttl)
      BY <3>1, <1>p, <2>0 DEF TimedStaged, TimedStores, TimedEvent
    <3>3. PICK h : TimedLogTrace(h, ttl)
      BY <3>2 DEF TimedLog
    <3> DEFINE n == Len(records)
               r == WriteRecord(event)
    <3>4. r \in Record /\ Whole(r) /\ Deserialize(r.fields) = event
      BY <3>2, WriteRecordOK DEF RecordOK
    <3>c. n \in Nat /\ WholeCount(records) = n
      BY <1>o, <3>1, LenProperties DEF WholeCount
    <3>5. /\ FileTimed(records', now + ttl) /\ WholeCount(records') = n + 1
      <4>1. \A i \in 1..n : NotEarlier(EventAt(records, i), event)
        BY <3>2, <3>c, <2>0 DEF TimedLog, EventInOrder
      <4>2. /\ FileTimed(Append(records, r), now + ttl)
            /\ WholeCount(Append(records, r)) = n + 1
        <5> HIDE DEF r
        <5>1. FileTimed(records, now + ttl)
          BY <3>2 DEF TimedLog
        <5> QED
          BY <1>o, <3>1, <3>2, <3>4, <4>1, <5>1, AppendTimed
      <4> QED
        BY <4>2, <2>0
    <3>6. /\ TimedTrace(h, records, n, ttl) /\ Agree(h[n], committed, now)
          /\ IsTimed(h[n], ttl)
      BY <3>3, <3>c DEF TimedLogTrace, TimedTrace
    <3>7. PICK g : /\ TimedTrace(g, Append(records, r), n + 1, ttl)
                   /\ g[n + 1] = ApplyEvent(h[n], event, 0)
      BY <1>o, <3>2, <3>6, ExtendTimedTrace
    <3>8. Agree(g[n + 1], staged, now)
      <4>1. Agree(m_store, committed, now)
        BY <3>2, <2>0, <1>p DEF TimedMemory, Serving, ModeInv
      <4>2. Agree(h[n], m_store, now)
        BY <3>6, <4>1, AgreeEquivalence
      <4>3. /\ TimedEffect(h[n], event, ApplyEvent(h[n], event, 0))
            /\ TimedEffect(m_store, event, ApplyEvent(m_store, event, 0))
        BY <1>o, <3>2, <3>6, TimedApply
      <4> QED
        BY <3>2, <3>7, <4>2, <4>3, AgreeApply
    <3> HIDE DEF n, r
    <3>9. TimedLogTrace(g, ttl)'
      BY <3>5, <3>7, <3>8, <2>0 DEF TimedLogTrace, r
    <3> QED
      BY <3>5, <3>9, <2>0 DEF TimedLog, EventInOrder, EventsFromLog
  <2> QED
    BY <1>t, <2>1, <2>2 DEF TimedInv
<1>10. ASSUME AppendFails PROVE TimedInv(ttl)'
  <2>0. /\ committed' = committed /\ now' = now
        /\ phase = "committing" /\ phase' = "running" /\ m_store' = m_store
        /\ m_persistence' = m_persistence /\ staged' = NoStore
        /\ m_persistence
    BY <1>10, <1>p DEF AppendFails, ModeInv
  <2>1. ModeInv' /\ TimedStores(ttl)' /\ TimedStaged(ttl)' /\ EventInOrder'
    BY <2>0, <1>p DEF ModeInv, TimedStores, TimedStaged, EventInOrder
  <2>2. ~misframed => TimedMemory'
    BY <2>0, <1>p DEF TimedMemory, Serving
  <2>3. CASE UNCHANGED <<records, misframed>>
    BY <1>t, <2>0, <2>1, <2>2, <2>3, TimedQuiet
  <2>4. ASSUME NEW n \in 0..(Len(Serialize(event)) - 1),
               records' = Append(records, WrittenRecord(event, n)),
               misframed' = (misframed \/ TornTail(records))
        PROVE  TimedInv(ttl)'
    <3>1. ASSUME ~misframed' PROVE TimedMemory' /\ TimedLog(ttl)' /\ TimedTmp(ttl)'
      <4>1. ~misframed /\ ~TornTail(records)
        BY <2>4, <3>1
      <4>2. TimedLog(ttl) /\ WellFormed(event)
        BY <4>1, <1>p, <2>0 DEF TimedStaged, TimedEvent
      <4>3. PICK h : TimedLogTrace(h, ttl)
        BY <4>2 DEF TimedLog
      <4> DEFINE c == Len(records)
                 r == WrittenRecord(event, n)
      <4>4. r \in Record /\ ~Whole(r)
        BY <4>2, WrittenRecordOK DEF RecordOK
      <4>5. /\ FileTimed(records', now + ttl) /\ WholeCount(records') = c
            /\ WholeCount(records) = c
        BY <2>4, <4>1, <4>2, <4>4, <1>o, AppendTimed DEF TimedLog
      <4>6. /\ TimedTrace(h, records, c, ttl) /\ Agree(h[c], committed, now)
            /\ c \in 0..Len(records)
        BY <4>3, <4>5, <1>o, LenProperties DEF TimedLogTrace
      <4>7. TimedTrace(h, records', c, ttl)
        BY <4>4, <4>6, <2>4, <1>o, KeepTimedTrace
      <4>8. TimedLogTrace(h, ttl)'
        BY <4>5, <4>6, <4>7, <2>0 DEF TimedLogTrace
      <4>9. EventsFromLog' /\ TimedTmp(ttl)'
        BY <2>0 DEF EventsFromLog, TimedTmp
      <4> QED
        BY <4>1, <4>5, <4>8, <4>9, <2>0, <2>1, <2>2 DEF TimedLog
    <3> QED
      BY <1>t, <2>1, <3>1 DEF TimedInv
  <2> QED
    BY <1>10, <2>3, <2>4 DEF AppendFails
<1>11. ASSUME Swap PROVE TimedInv(ttl)'
  <2>0. /\ now' = now /\ records' = records /\ committed' = committed
        /\ misframed' = misframed /\ phase = "appended" /\ phase' = "running"
        /\ m_store' = staged /\ m_persistence' = m_persistence /\ staged' = NoStore
    BY <1>11 DEF Swap, fileVars, historyVars
  <2>1. ModeInv' /\ TimedStores(ttl)' /\ TimedStaged(ttl)' /\ EventInOrder'
    BY <2>0, <1>p DEF ModeInv, TimedStores, TimedStaged, EventInOrder
  <2>2. ASSUME ~misframed PROVE TimedMemory'
    <3>1. staged = committed
      BY <2>0, <2>2, <1>p DEF TimedMemory
    <3>2. Agree(m_store', committed', now')
      BY <2>0, <3>1, AgreeEquivalence
    <3> QED
      BY <2>0, <3>2 DEF TimedMemory, Serving
  <2> QED
    BY <1>t, <2>0, <2>1, <2>2, TimedQuiet
<1>12. ASSUME CompactStep PROVE TimedInv(ttl)'
  <2>0. /\ now' = now /\ records' = records /\ committed' = committed
        /\ misframed' = misframed /\ phase = "compacting" /\ phase' = "compacting"
        /\ queue' = queue /\ cursor' = cursor + 1 /\ cursor <= Len(queue)
        /\ cursor \in Nat \ {0} /\ eventsMap' = CompactEvent(eventsMap, queue[cursor], now)
        /\ m_store' = m_store /\ m_persistence' = m_persistence /\ staged' = staged
        /\ eventsMap \in EventsMap /\ SurvivorsOK(eventsMap)
    BY <1>12, <1>o, <1>t
    DEF CompactStep, TypeOK, TypeInv, fileVars, historyVars, commitVars
  <2>1. ModeInv' /\ TimedStores(ttl)' /\ TimedStaged(ttl)' /\ TimedTmp(ttl)' /\ EventInOrder'
    BY <2>0, <1>p DEF ModeInv, TimedStores, TimedStaged, TimedTmp, EventInOrder
  <2>2. ~misframed => TimedMemory'
    BY <2>0, <1>p DEF TimedMemory, Serving
  <2>3. ASSUME ~misframed PROVE TimedLog(ttl)'
    <3>1. TimedLog(ttl)
      BY <1>p, <2>3
    <3>2. PICK h : TimedLogTrace(h, ttl)
      BY <3>1 DEF TimedLog
    <3> DEFINE n == WholeCount(records)
               e == EventAt(records, cursor)
    <3>3. /\ n \in Nat
          /\ \A i \in 1..n : TimedEvent(EventAt(records, i), now + ttl)
          /\ \A i, j \in 1..n : i < j => NotEarlier(EventAt(records, i), EventAt(records, j))
      BY <1>o, <3>1, WholeCountFacts DEF TimedLog, FileTimed
    <3> HIDE DEF n
    <3>4. /\ queue = EventsOf(records, n) /\ Holds(eventsMap, h[cursor - 1], now)
          /\ ReplayTrace(h, records, n, ttl, 0)
          /\ \A i \in 0..n : IsTimed(h[i], ttl)
      BY <3>2, <2>0 DEF TimedLogTrace, TimedTrace, n
    <3>5. Len(queue) = n /\ cursor \in 1..n /\ cursor - 1 \in 0..n
      BY <3>3, <3>4, <2>0 DEF EventsOf
    <3>6. queue[cursor] = e
      BY <3>4, <3>5 DEF EventsOf, EventAt
    <3>7. h[cursor] = ApplyEvent(h[cursor - 1], e, 0)
      BY <3>4, <3>5 DEF ReplayTrace, EventAt
    <3>8. TimedEvent(e, now + ttl) /\ WellFormed(e) /\ e.type # RENAME
      BY <3>3, <3>5 DEF TimedEvent
    <3>9. TimedEffect(h[cursor - 1], e, h[cursor])
      <4>1. IsTimed(h[cursor - 1], ttl)
        BY <3>4, <3>5
      <4>2. TimedEffect(h[cursor - 1], e, ApplyEvent(h[cursor - 1], e, 0))
        BY <1>o, <3>8, <4>1, TimedApply
      <4> QED
        BY <4>2, <3>7
    <3>10. ASSUME e.type = CREATE, eventsMap[e.key] # Absent
           PROVE  eventsMap[e.key].timestamp <= e.timestamp
      <4>1. e.key \in Keys
        BY <3>8, <3>10 DEF WellFormed, Event, CREATE, CLEAR
      <4>2. eventsMap[e.key].type = CREATE /\ eventsMap[e.key].key = e.key
        BY <2>0, <3>10, <4>1 DEF SurvivorsOK
      <4>3. PICK i \in 1..(cursor - 1) : eventsMap[e.key] = EventAt(records, i)
        BY <2>0, <3>1, <3>10, <4>1 DEF TimedLog, EventsFromLog
      <4>4. i \in 1..n /\ i < cursor
        BY <3>3, <3>5
      <4>5. NotEarlier(EventAt(records, i), EventAt(records, cursor))
        BY <3>3, <3>5, <4>4
      <4> QED
        BY <3>10, <4>2, <4>3, <4>5 DEF NotEarlier
    <3> HIDE DEF e
    <3>11. Holds(eventsMap', h[cursor], now)
      <4>1. now + ttl \in Int
        BY <1>o
      <4>2. Holds(CompactEvent(eventsMap, e, now), h[cursor], now)
        BY <1>o, <2>0, <3>4, <3>8, <3>9, <3>10, <4>1, HeldApply
      <4> QED
        BY <4>2, <2>0, <3>6
    <3>12. cursor' - 1 = cursor /\ cursor' <= n + 1
      BY <3>3, <3>5, <2>0
    <3>13. TimedLogTrace(h, ttl)'
      BY <3>2, <3>4, <3>11, <3>12, <2>0 DEF TimedLogTrace, n
    <3>14. EventsFromLog'
      <4> SUFFICES ASSUME NEW k \in Keys, eventsMap'[k] # Absent
                   PROVE  \E i \in 1..cursor : eventsMap'[k] = EventAt(records, i)
        BY <2>0, <3>12 DEF EventsFromLog
      <4>1. eventsMap'[k] = eventsMap[k] \/ eventsMap'[k] = e
        BY <2>0, <3>6, <3>8, CompactKeeps
      <4>2. CASE eventsMap'[k] = e
        BY <2>0, <4>2 DEF e
      <4>3. CASE eventsMap'[k] = eventsMap[k]
        <5>1. PICK i \in 1..(cursor - 1) : eventsMap[k] = EventAt(records, i)
          BY <2>0, <3>1, <4>3 DEF TimedLog, EventsFromLog
        <5>2. i \in 1..cursor
          BY <2>0
        <5> QED
          BY <4>3, <5>1, <5>2
      <4> QED
        BY <4>1, <4>2, <4>3
    <3> QED
      BY <3>1, <3>13, <3>14, <2>0, <2>1 DEF TimedLog
  <2> QED
    BY <1>t, <2>0, <2>1, <2>2, <2>3 DEF TimedInv
<1>13. ASSUME RewriteStart PROVE TimedInv(ttl)'
  <2>0. /\ now' = now /\ records' = records /\ committed' = committed
        /\ misframed' = misframed /\ phase = "compacting" /\ phase' = "rewriting"
        /\ tmp' = <<>> /\ cursor > Len(queue) /\ cursor \in Nat \ {0}
        /\ eventsMap' = eventsMap
        /\ m_store' = m_store /\ m_persistence' = m_persistence /\ staged' = staged
    BY <1>13, <1>o DEF RewriteStart, TypeOK, historyVars, commitVars
  <2>1. ModeInv' /\ TimedStores(ttl)' /\ TimedStaged(ttl)' /\ EventInOrder' /\ EventsFromLog'
    BY <2>0, <1>p DEF ModeInv, TimedStores, TimedStaged, EventInOrder, EventsFromLog
  <2>2. ~misframed => TimedMemory'
    BY <2>0, <1>p DEF TimedMemory, Serving
  <2>3. ASSUME ~misframed PROVE TimedLog(ttl)' /\ TimedTmp(ttl)'
    <3>1. TimedLog(ttl)
      BY <1>p, <2>3
    <3>2. PICK h : TimedLogTrace(h, ttl)
      BY <3>1 DEF TimedLog
    <3> DEFINE n == WholeCount(records)
    <3>3. n \in Nat /\ \A i \in 1..n : TimedEvent(EventAt(records, i), now + ttl)
      BY <1>o, <3>1, WholeCountFacts DEF TimedLog, FileTimed
    <3> HIDE DEF n
    <3>4. /\ queue = EventsOf(records, n) /\ Holds(eventsMap, h[cursor - 1], now)
          /\ cursor <= n + 1 /\ Agree(h[n], committed, now)
      BY <3>2, <2>0 DEF TimedLogTrace, n
    <3>5. Len(queue) = n
      BY <3>3, <3>4 DEF EventsOf
    <3>6. cursor - 1 = n
      BY <3>3, <3>4, <3>5, <2>0
    <3>7. \A k \in Keys : HeldAs(eventsMap, committed, k, now)
      BY <3>4, <3>6, HeldAgree DEF Holds, Agree
    <3>8. TimedLogTrace(h, ttl)'
      BY <3>2, <2>0 DEF TimedLogTrace
    <3> DEFINE g == [i \in 0..0 |-> EmptyStore(ttl)]
    <3>9. TimedTrace(g, tmp', 0, ttl) /\ Len(tmp') = 0 /\ g[0] = EmptyStore(ttl)
      <4>1. TimedTrace(g, tmp', 0, ttl)
        BY EmptyTimedTrace, Zenon
      <4> QED
        BY <2>0, <4>1
    <3> HIDE DEF g
    <3>10. TimedTmpTrace(g, ttl)'
      <4>1. ASSUME NEW k \in Keys
            PROVE  /\ EmptyStore(ttl).m_data[k] = Absent
                   /\ eventsMap[k] = Absent => SameAt(EmptyStore(ttl), committed, k, now)
        BY <3>7 DEF EmptyStore, SameAt, Shows, HeldAs, Held
      <4> QED
        BY <4>1, <3>7, <3>9, <2>0 DEF TimedTmpTrace
    <3>11. FileTimed(tmp', now + ttl) /\ ~TornTail(tmp')
      BY <2>0, EmptyFileTimed
    <3>12. \A k \in Keys : eventsMap[k] # Absent => TimedEvent(eventsMap[k], now + ttl)
      BY <2>0, <3>1, <3>3, <3>6 DEF TimedLog, EventsFromLog
    <3>13. TmpRecordsDone'
      BY <3>9 DEF TmpRecordsDone
    <3> QED
      BY <3>1, <3>8, <3>10, <3>11, <3>12, <3>13, <2>0, <2>1 DEF TimedLog, TimedTmp
  <2> QED
    BY <1>t, <2>0, <2>1, <2>2, <2>3 DEF TimedInv
<1>14. ASSUME NEW k \in Keys, RewriteStep(k) PROVE TimedInv(ttl)'
  <2>0. /\ now' = now /\ records' = records /\ committed' = committed
        /\ misframed' = misframed /\ phase = "rewriting" /\ phase' = "rewriting"
        /\ eventsMap[k] # Absent /\ eventsMap' = [eventsMap EXCEPT ![k] = Absent]
        /\ tmp' = IF PastDeadline(eventsMap[k], now) THEN tmp
                  ELSE Append(tmp, WriteRecord(eventsMap[k]))
        /\ m_store' = m_store /\ m_persistence' = m_persistence /\ staged' = staged
        /\ eventsMap \in EventsMap /\ SurvivorsOK(eventsMap)
    BY <1>14, <1>o, <1>t
    DEF RewriteStep, Unwritten, TypeOK, TypeInv, historyVars, commitVars
  <2>1. ModeInv' /\ TimedStores(ttl)' /\ TimedStaged(ttl)' /\ EventInOrder' /\ EventsFromLog'
    BY <2>0, <1>p DEF ModeInv, TimedStores, TimedStaged, EventInOrder, EventsFromLog
  <2>2. ~misframed => TimedMemory'
    BY <2>0, <1>p DEF TimedMemory, Serving
  <2>3. ASSUME ~misframed PROVE TimedLog(ttl)'
    <3>1. TimedLog(ttl)
      BY <1>p, <2>3
    <3>2. PICK h : TimedLogTrace(h, ttl)
      BY <3>1 DEF TimedLog
    <3>3. TimedLogTrace(h, ttl)'
      BY <3>2, <2>0 DEF TimedLogTrace
    <3> QED
      BY <3>1, <3>3, <2>0, <2>1 DEF TimedLog
  <2>4. ASSUME ~misframed PROVE TimedTmp(ttl)'
    <3> DEFINE e == eventsMap[k]
               n == Len(tmp)
               r == WriteRecord(e)
    <3>1. /\ FileTimed(tmp, now + ttl) /\ ~TornTail(tmp) /\ TmpRecordsDone
          /\ \A j \in Keys : eventsMap[j] # Absent => TimedEvent(eventsMap[j], now + ttl)
      BY <1>p, <2>0, <2>4 DEF TimedTmp
    <3>2. PICK g : TimedTmpTrace(g, ttl)
      BY <1>p, <2>0, <2>4 DEF TimedTmp
    <3>3. /\ TimedEvent(e, now + ttl) /\ WellFormed(e) /\ e.type = CREATE /\ e.key = k
          /\ e.type # RENAME /\ e.timestamp \in Int
      BY <2>0, <3>1 DEF SurvivorsOK, TimedEvent, WellFormed, Event
    <3>n. n \in Nat
      BY <1>o, LenProperties
    <3>4. /\ TimedTrace(g, tmp, n, ttl) /\ IsTimed(g[n], ttl)
          /\ \A j \in Keys :
                /\ eventsMap[j] = Absent => SameAt(g[n], committed, j, now)
                /\ eventsMap[j] # Absent => /\ HeldAs(eventsMap, committed, j, now)
                                            /\ g[n].m_data[j] = Absent
      BY <3>2, <3>n DEF TimedTmpTrace, TimedTrace
    <3>5. \A j \in Keys : eventsMap'[j] = IF j = k THEN Absent ELSE eventsMap[j]
      BY <2>0 DEF EventsMap
    <3>6. \A j \in Keys : eventsMap'[j] # Absent =>
              j # k /\ TimedEvent(eventsMap'[j], now' + ttl)
      BY <2>0, <3>1, <3>5
    <3>m. \A j \in Keys : j # k => (HeldAs(eventsMap, committed, j, now)
                                      <=> HeldAs(eventsMap', committed', j, now'))
      BY <2>0, <3>5 DEF HeldAs, Held
    <3>7. CASE PastDeadline(e, now)
      <4>1. tmp' = tmp
        BY <2>0, <3>7
      <4>2. e.timestamp < now
        BY <3>7 DEF PastDeadline
      <4>3. SameAt(g[n], committed, k, now)
        <5>1. ~Held(eventsMap, k, now)
          BY <1>o, <3>3, <4>2 DEF Held
        <5>2. ~Shows(committed, k, now)
          BY <2>0, <3>4, <5>1 DEF HeldAs
        <5>3. ~Shows(g[n], k, now)
          BY <2>0, <3>4 DEF Shows
        <5> QED
          BY <5>2, <5>3 DEF SameAt
      <4> HIDE DEF n, e
      <4>4. TimedTmpTrace(g, ttl)'
        BY <2>0, <3>4, <3>5, <3>m, <4>1, <4>3 DEF TimedTmpTrace, n
      <4>5. TmpRecordsDone'
        <5> SUFFICES ASSUME NEW i \in 1..Len(tmp), EventAt(tmp, i).type = CREATE
                     PROVE  eventsMap'[EventAt(tmp, i).key] = Absent
          BY <4>1 DEF TmpRecordsDone
        <5>1. eventsMap[EventAt(tmp, i).key] = Absent
          BY <3>1 DEF TmpRecordsDone
        <5> QED
          BY <2>0, <5>1 DEF EventsMap
      <4> QED
        BY <2>0, <3>1, <3>6, <4>1, <4>4, <4>5 DEF TimedTmp
    <3>8. CASE ~PastDeadline(e, now)
      <4>1. tmp' = Append(tmp, r)
        BY <2>0, <3>8
      <4>2. r \in Record /\ Whole(r) /\ Deserialize(r.fields) = e
        BY <3>3, WriteRecordOK DEF RecordOK
      <4>w. WholeCount(tmp) = n
        BY <3>1 DEF WholeCount
      <4>d. ASSUME NEW i \in 1..n, EventAt(tmp, i).type = CREATE
            PROVE  /\ EventAt(tmp, i).key # k /\ EventAt(tmp, i).key \in Keys
                   /\ eventsMap'[EventAt(tmp, i).key] = Absent
        <5>1. eventsMap[EventAt(tmp, i).key] = Absent
          BY <3>1, <4>d DEF TmpRecordsDone
        <5>2. EventAt(tmp, i).key \in Keys
          BY <3>1, <4>d, <4>w DEF FileTimed, TimedEvent, WellFormed, Event, CREATE, CLEAR
        <5> QED
          BY <2>0, <3>5, <5>1, <5>2
      <4>3. \A i \in 1..n : NotEarlier(EventAt(tmp, i), e)
        BY <3>3, <4>d DEF NotEarlier
      <4> HIDE DEF e, r
      <4>4. /\ FileTimed(Append(tmp, r), now + ttl) /\ ~TornTail(Append(tmp, r))
        BY <1>o, <3>1, <3>3, <4>2, <4>3, AppendTimed
      <4>5. /\ Len(Append(tmp, r)) = n + 1 /\ Append(tmp, r)[n + 1] = r
            /\ \A i \in 1..n : Append(tmp, r)[i] = tmp[i]
        BY <1>o, <4>2, AppendProperties, LenProperties
      <4>6. PICK f : /\ TimedTrace(f, Append(tmp, r), n + 1, ttl)
                     /\ f[n + 1] = ApplyEvent(g[n], e, 0)
        BY <1>o, <3>3, <3>4, ExtendTimedTrace DEF r
      <4>7. TimedEffect(g[n], e, f[n + 1])
        BY <1>o, <3>3, <3>4, <4>6, TimedApply
      <4>8. \A j \in Keys : /\ f[n + 1].m_data[j] =
                                  IF j = k THEN e.payload ELSE g[n].m_data[j]
                            /\ f[n + 1].m_ttlData[j] =
                                  IF j = k THEN e.timestamp ELSE g[n].m_ttlData[j]
        BY <3>3, <4>7 DEF TimedEffect
      <4>9. SameAt(f[n + 1], committed, k, now)
        <5>1. e.payload # Absent /\ e.timestamp # Absent
          BY <3>3, StoreAssumption DEF WellFormed
        <5>2. HeldAs(eventsMap, committed, k, now)
          BY <2>0, <3>4
        <5>3. Held(eventsMap, k, now) <=> e.timestamp > now
          BY <2>0 DEF Held, e
        <5>4. Shows(f[n + 1], k, now) <=> e.timestamp > now
          BY <4>8, <5>1 DEF Shows
        <5> QED
          BY <4>8, <5>2, <5>3, <5>4 DEF SameAt, HeldAs, e
      <4>10. ASSUME NEW j \in Keys, j # k
             PROVE  SameAt(f[n + 1], committed, j, now) <=> SameAt(g[n], committed, j, now)
        BY <4>8, <4>10 DEF SameAt, Shows
      <4>11. Len(tmp') = n + 1
        BY <4>1, <4>5
      <4> HIDE DEF n
      <4>12. ASSUME NEW j \in Keys
             PROVE  /\ eventsMap'[j] = Absent => SameAt(f[n + 1], committed, j, now)
                    /\ eventsMap'[j] # Absent => /\ HeldAs(eventsMap', committed', j, now')
                                                 /\ f[n + 1].m_data[j] = Absent
        <5>1. CASE j = k
          BY <3>5, <4>9, <5>1
        <5>2. CASE j # k
          BY <3>4, <3>5, <3>m, <4>8, <4>10, <5>2
        <5> QED
          BY <5>1, <5>2
      <4>13. TimedTmpTrace(f, ttl)'
        BY <2>0, <4>1, <4>6, <4>11, <4>12 DEF TimedTmpTrace
      <4>14. TmpRecordsDone'
        <5> SUFFICES ASSUME NEW i \in 1..(n + 1), EventAt(tmp', i).type = CREATE
                     PROVE  eventsMap'[EventAt(tmp', i).key] = Absent
          BY <4>11 DEF TmpRecordsDone
        <5>1. CASE i = n + 1
          <6>1. EventAt(tmp', i) = e
            BY <4>1, <4>2, <4>5, <5>1 DEF EventAt
          <6> QED
            BY <3>3, <3>5, <6>1
        <5>2. CASE i # n + 1
          <6>1. i \in 1..n
            BY <3>n, <5>2
          <6>2. EventAt(tmp', i) = EventAt(tmp, i)
            BY <4>1, <4>5, <6>1 DEF EventAt
          <6> QED
            BY <4>d, <6>1, <6>2
        <5> QED
          BY <5>1, <5>2
      <4> QED
        BY <2>0, <3>6, <4>1, <4>4, <4>13, <4>14 DEF TimedTmp
    <3> QED
      BY <3>7, <3>8
  <2> QED
    BY <1>t, <2>0, <2>1, <2>2, <2>3, <2>4 DEF TimedInv
<1>15. ASSUME RewriteDone PROVE TimedInv(ttl)'
  <2>0. /\ now' = now /\ records' = tmp /\ committed' = committed
        /\ misframed' = misframed /\ phase = "rewriting" /\ phase' = "running"
        /\ \A k \in Keys : eventsMap[k] = Absent
        /\ m_store' = m_store /\ m_persistence' = m_persistence /\ staged' = staged
    BY <1>15 DEF RewriteDone, Unwritten, historyVars, commitVars
  <2>1. /\ ModeInv' /\ TimedStores(ttl)' /\ TimedStaged(ttl)' /\ TimedTmp(ttl)'
        /\ EventInOrder' /\ EventsFromLog'
    BY <2>0, <1>p DEF ModeInv, TimedStores, TimedStaged, TimedTmp, EventInOrder, EventsFromLog
  <2>2. ~misframed => TimedMemory'
    BY <2>0, <1>p DEF TimedMemory, Serving
  <2>3. ASSUME ~misframed PROVE TimedLog(ttl)'
    <3>1. FileTimed(tmp, now + ttl) /\ ~TornTail(tmp)
      BY <1>p, <2>0, <2>3 DEF TimedTmp
    <3>2. PICK g : TimedTmpTrace(g, ttl)
      BY <1>p, <2>0, <2>3 DEF TimedTmp
    <3>3. WholeCount(tmp) = Len(tmp)
      BY <3>1 DEF WholeCount
    <3>4. TimedTrace(g, tmp, Len(tmp), ttl) /\ Agree(g[Len(tmp)], committed, now)
      BY <2>0, <3>2 DEF TimedTmpTrace, Agree
    <3>5. TimedLogTrace(g, ttl)'
      BY <2>0, <3>3, <3>4 DEF TimedLogTrace
    <3> QED
      BY <2>0, <2>1, <3>1, <3>5 DEF TimedLog
  <2> QED
    BY <1>t, <2>0, <2>1, <2>2, <2>3 DEF TimedInv
<1>16. ASSUME RewriteFails PROVE TimedInv(ttl)'
  <2>0. /\ now' = now /\ records' = records /\ committed' = committed
        /\ misframed' = misframed /\ phase = "rewriting" /\ phase' = "running"
        /\ m_store' = m_store /\ m_persistence' = m_persistence /\ staged' = staged
    BY <1>16 DEF RewriteFails, historyVars, commitVars, fileVars
  <2>1. ModeInv' /\ TimedStores(ttl)' /\ TimedStaged(ttl)' /\ EventInOrder'
    BY <2>0, <1>p DEF ModeInv, TimedStores, TimedStaged, EventInOrder
  <2>2. ~misframed => TimedMemory'
    BY <2>0, <1>p DEF TimedMemory, Serving
  <2> QED
    BY <1>t, <2>0, <2>1, <2>2, TimedQuiet
<1>17. ASSUME ProcessEnds PROVE TimedInv(ttl)'
  <2>0. /\ now' = now /\ records' = records /\ committed' = committed
        /\ misframed' = misframed /\ phase' = "down" /\ ~m_persistence'
    BY <1>17 DEF ProcessEnds, historyVars, fileVars
  <2>1. /\ ModeInv' /\ TimedStores(ttl)' /\ TimedStaged(ttl)' /\ TimedMemory' /\ EventInOrder'
    BY <2>0, <1>p DEF ModeInv, TimedStores, TimedStaged, TimedMemory, EventInOrder, Serving
  <2> QED
    BY <1>t, <2>0, <2>1, TimedQuiet
<1>18. ASSUME Tick PROVE TimedInv(ttl)'
  <2>1. now <= now' /\ now' <= MaxTime
    BY <1>18, <1>o, DBAssumption DEF Tick
  <2> QED
    BY <1>18, <1>t, <2>1, TimedFrame DEF Tick, commitVars, loopVars, fileVars, historyVars
<1>19. ASSUME UNCHANGED vars PROVE TimedInv(ttl)'
  BY <1>19, <1>f DEF vars, commitVars, loopVars, fileVars, historyVars
<1> QED
  BY <1>1, <1>2, <1>3, <1>4, <1>5, <1>6, <1>7, <1>8, <1>9, <1>10, <1>11, <1>12, <1>13,
     <1>14, <1>15, <1>16, <1>17, <1>18, <1>19 DEF Next, InternalStep

\* A database that is always opened with the same TTL and not asked to rename
\* serves exactly what was committed, values and deadlines, at every later
\* time: no crash, failed append, torn tail, recovery or compaction, in
\* whatever order and however the clock runs meanwhile, loses, revives or
\* alters an entry that has not expired.
THEOREM ExpiringRecoveryIsExact ==
    ASSUME NEW ttl \in Nat, OneTtl(ttl), NoRename
    PROVE  Spec => []RecoveredViewExact
<1>0. Init => TimedInv(ttl)
  BY TimedInit
<1>1. TimedInv(ttl) /\ [Next]_vars => TimedInv(ttl)'
  BY TimedStep
<1>2. TimedInv(ttl) => RecoveredViewExact
  <2> SUFFICES ASSUME TimedInv(ttl), Serving, ~misframed
               PROVE  Live(m_store, now) = Live(committed, now)
    BY DEF RecoveredViewExact
  <2>1. /\ now \in Int /\ IsTimed(m_store, ttl)
        /\ IsTimed(committed, ttl) \/ committed = NoStore
        /\ Agree(m_store, committed, now)
    BY DEF TimedInv, TypeInv, TypeOK, TimedStores, TimedMemory, ModeInv, Serving
  <2> QED
    BY <2>1, AgreeLive
<1> QED
  BY <1>0, <1>1, <1>2, PTL DEF Spec

\* Under the same hypotheses, when RewriteHistory is about to replace the log
\* the file it wrote replays to exactly what the database is serving: what it
\* dropped as expired uncovers nothing.
THEOREM ExpiringCompactionIsExact ==
    ASSUME NEW ttl \in Nat, OneTtl(ttl), NoRename
    PROVE  Spec => []CompactedLogExact
<1>0. Init => TimedInv(ttl)
  BY TimedInit
<1>1. TimedInv(ttl) /\ [Next]_vars => TimedInv(ttl)'
  BY TimedStep
<1>2. TimedInv(ttl) => CompactedLogExact
  <2> SUFFICES ASSUME TimedInv(ttl), phase = "rewriting", Unwritten = {}, ~misframed
               PROVE  Live(ReplayedStore(tmp, m_store.m_ttl, now), now) = Live(m_store, now)
    BY DEF CompactedLogExact
  <2>0. /\ tmp \in Seq(Record) /\ now \in Int /\ FileTimed(tmp, now + ttl)
        /\ IsTimed(m_store, ttl) /\ m_store.m_ttl = ttl
        /\ Agree(m_store, committed, now) /\ WholeCount(tmp) = Len(tmp)
    BY DEF TimedInv, TypeInv, TypeOK, TimedTmp, TimedStores, TimedMemory, ModeInv, Serving,
           IsTimed, WholeCount
  <2>1. PICK g : TimedTmpTrace(g, ttl)
    BY DEF TimedInv, TimedTmp
  <2>2. Len(tmp) \in Nat
    BY <2>0, LenProperties
  <2>3. TimedTrace(g, tmp, Len(tmp), ttl) /\ IsTimed(g[Len(tmp)], ttl)
    BY <2>1, <2>2 DEF TimedTmpTrace, TimedTrace
  <2>4. Agree(g[Len(tmp)], committed, now)
    BY <2>1 DEF TimedTmpTrace, Agree, Unwritten
  <2>5. Agree(g[Len(tmp)], m_store, now)
    BY <2>0, <2>4, AgreeEquivalence
  <2>6. ReplayedStore(tmp, ttl, now) = g[Len(tmp)]
    BY <2>0, <2>3, TimedReplays
  <2>7. Live(g[Len(tmp)], now) = Live(m_store, now)
    BY <2>0, <2>3, <2>5, AgreeLive
  <2> QED
    BY <2>0, <2>6, <2>7
<1> QED
  BY <1>0, <1>1, <1>2, PTL DEF Spec

\* Under the same hypotheses, whatever the database is doing, the file it would
\* find after a crash replays to what was committed last, less what has expired.
THEOREM ExpiringLogReplaysToCommitted ==
    ASSUME NEW ttl \in Nat, OneTtl(ttl), NoRename
    PROVE  Spec => [](~misframed => Live(ReplayedStore(records, ttl, now), now)
                                      = Live(committed, now))
<1>0. Init => TimedInv(ttl)
  BY TimedInit
<1>1. TimedInv(ttl) /\ [Next]_vars => TimedInv(ttl)'
  BY TimedStep
<1>2. TimedInv(ttl) => (~misframed => Live(ReplayedStore(records, ttl, now), now)
                                        = Live(committed, now))
  <2> SUFFICES ASSUME TimedInv(ttl), ~misframed
               PROVE  Live(ReplayedStore(records, ttl, now), now) = Live(committed, now)
    OBVIOUS
  <2> DEFINE n == WholeCount(records)
  <2>0. /\ records \in Seq(Record) /\ now \in Int /\ FileTimed(records, now + ttl)
        /\ IsTimed(committed, ttl) \/ committed = NoStore
    BY DEF TimedInv, TypeInv, TypeOK, TimedLog, TimedStores
  <2>1. PICK h : TimedLogTrace(h, ttl)
    BY DEF TimedInv, TimedLog
  <2>2. n \in Nat
    BY <2>0, WholeCountFacts DEF FileTimed
  <2>3. TimedTrace(h, records, n, ttl) /\ Agree(h[n], committed, now)
    BY <2>1 DEF TimedLogTrace
  <2>4. ReplayedStore(records, ttl, now) = h[n]
    BY <2>0, <2>3, TimedReplays
  <2> HIDE DEF n
  <2>5. IsTimed(h[n], ttl)
    BY <2>2, <2>3 DEF TimedTrace
  <2>6. Live(h[n], now) = Live(committed, now)
    BY <2>0, <2>3, <2>5, AgreeLive
  <2> QED
    BY <2>4, <2>6
<1> QED
  BY <1>0, <1>1, <1>2, PTL DEF Spec
=============================================================================
