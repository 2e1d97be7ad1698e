--------------------------- MODULE RadishDBProofs ---------------------------
(***************************************************************************)
(* Theorems about RadishDB, for every set of keys, values, rename          *)
(* arguments and every bound.                                              *)
(***************************************************************************)
EXTENDS RadishDB, RadishLogProofs

-----------------------------------------------------------------------------
(* Types.  TypeOK is not inductive: what replay and compaction read back is *)
(* only well formed if everything ever written to either file was.          *)

RecordsOK(recs) == \A i \in 1..Len(recs) : RecordOK(recs[i])

TypeInv ==
    /\ TypeOK
    /\ RecordsOK(records)
    /\ RecordsOK(tmp)
    /\ SurvivorsOK(eventsMap)

LEMMA TtlType == \A ttl \in TtlChoices : EmptyStore(ttl) \in Store
BY DBAssumption, EmptyStoreType DEF NoExpiry

LEMMA NoStoreType == NoStore \in Store
BY EmptyStoreType DEF NoStore, NoExpiry

LEMMA NoRecords == <<>> \in Seq(Record) /\ RecordsOK(<<>>)
BY EmptySeq DEF RecordsOK

LEMMA AppendRecord ==
    ASSUME NEW recs \in Seq(Record), RecordsOK(recs), NEW r, RecordOK(r)
    PROVE  Append(recs, r) \in Seq(Record) /\ RecordsOK(Append(recs, r))
<1>1. r \in Record
  BY DEF RecordOK
<1>2. /\ Append(recs, r) \in Seq(Record)
      /\ Len(recs) \in Nat
      /\ Len(Append(recs, r)) = Len(recs) + 1
      /\ \A i \in 1..Len(recs) : Append(recs, r)[i] = recs[i]
      /\ Append(recs, r)[Len(recs) + 1] = r
  BY <1>1, AppendProperties, LenProperties
<1> QED
  BY <1>2 DEF RecordsOK

\* The events the four operations hand to Commit have the fields they need.
LEMMA OperationEvents ==
    ASSUME NEW k \in Keys, NEW k2 \in Keys, NEW v \in Values, NEW ts \in Int
    PROVE  /\ WellFormed(RadishEvent(CREATE, ts, k, Absent, v))
           /\ WellFormed(RadishEvent(RENAME, -1, k, k2, Absent))
           /\ WellFormed(RadishEvent(DELETE, -1, k, Absent, Absent))
           /\ WellFormed(RadishEvent(CLEAR, -1, Absent, Absent, Absent))
BY StoreAssumption
DEF RadishEvent, WellFormed, Event, EventType, CREATE, RENAME, DELETE, CLEAR

\* Every Operation is a Commit of a well-formed event.
LEMMA OperationCommits ==
    ASSUME TypeOK, Operation
    PROVE  \E e : WellFormed(e) /\ Commit(e)
<1>1. NewExpiryTimestamp(m_store, now) \in Int
  BY NewExpiryType DEF TypeOK
<1>2. CASE \E k \in Keys, v \in Values : Create(k, v)
  BY <1>1, <1>2, OperationEvents DEF Create
<1>3. CASE \E p \in RenamePairs : Rename(p[1], p[2])
  <2>1. PICK p \in RenamePairs : Rename(p[1], p[2])
    BY <1>3
  <2>2. p[1] \in Keys /\ p[2] \in Keys
    BY DBAssumption
  <2>3. WellFormed(RadishEvent(RENAME, -1, p[1], p[2], Absent))
    BY <2>2, StoreAssumption
    DEF RadishEvent, WellFormed, Event, EventType, CREATE, RENAME, DELETE, CLEAR
  <2> QED
    BY <2>1, <2>3 DEF Rename
<1>4. CASE \E k \in Keys : Delete(k)
  <2>1. PICK k \in Keys : Delete(k)
    BY <1>4
  <2>2. WellFormed(RadishEvent(DELETE, -1, k, Absent, Absent))
    BY StoreAssumption
    DEF RadishEvent, WellFormed, Event, EventType, CREATE, RENAME, DELETE, CLEAR
  <2> QED
    BY <2>1, <2>2 DEF Delete
<1>5. CASE Clear
  <2>1. WellFormed(RadishEvent(CLEAR, -1, Absent, Absent, Absent))
    BY StoreAssumption
    DEF RadishEvent, WellFormed, Event, EventType, CREATE, RENAME, DELETE, CLEAR
  <2> QED
    BY <1>5, <2>1 DEF Clear
<1> QED
  BY <1>2, <1>3, <1>4, <1>5 DEF Operation

LEMMA TypeInit == Init => TypeInv
<1> SUFFICES ASSUME Init PROVE TypeInv
  OBVIOUS
<1>0. m_persistence \in BOOLEAN /\ misframed \in BOOLEAN
  BY Zenon DEF Init
<1>q. /\ queue \in Seq(Event) /\ records \in Seq(Record) /\ tmp \in Seq(Record)
      /\ \A i \in 1..Len(queue) : WellFormed(queue[i])
  BY DEF Init
<1>1. TypeOK
  BY <1>0, <1>q, NoStoreType, EmptyEventsMapType DEF Init, TypeOK, Phases
<1> QED
  BY <1>1, NoRecords, EmptyEventsMapType DEF Init, TypeInv

LEMMA TypeStep == TypeInv /\ [Next]_vars => TypeInv'
<1> SUFFICES ASSUME TypeInv, [Next]_vars PROVE TypeInv'
  OBVIOUS
<1> USE DEF TypeInv
<1>t. now \in Int /\ m_store \in Store /\ staged \in Store
  BY DEF TypeOK
<1>1. ASSUME NEW ttl \in TtlChoices, OpenVolatile(ttl) PROVE TypeInv'
  BY <1>1, TtlType
  DEF OpenVolatile, TypeOK, Phases, RecordsOK, commitVars, loopVars, fileVars, historyVars
<1>2. ASSUME NEW ttl \in TtlChoices, OpenLog(ttl) PROVE TypeInv'
  <2>1. PICK read \in GetEvents(records) : queue' = read.events
    BY <1>2 DEF OpenLog
  <2>2. records \in Seq(Record) /\ \A i \in 1..Len(records) : RecordOK(records[i])
    BY DEF TypeOK, RecordsOK
  <2>3. queue' \in Seq(Event) /\ \A i \in 1..Len(queue') : WellFormed(queue'[i])
    BY <2>1, <2>2, GetEventsType
  <2> QED
    BY <1>2, <2>3, TtlType DEF OpenLog, TypeOK, Phases, RecordsOK, commitVars, historyVars
<1>3. ASSUME OpenFails PROVE TypeInv'
  BY <1>3
  DEF OpenFails, vars, TypeOK, Phases, RecordsOK, commitVars, loopVars, fileVars, historyVars
<1>4. ASSUME CreateLogFails PROVE TypeInv'
  BY <1>4 DEF CreateLogFails, TypeOK, RecordsOK, commitVars, loopVars, historyVars
<1>5. ASSUME Operation PROVE TypeInv'
  <2>1. PICK e : WellFormed(e) /\ Commit(e)
    BY <1>5, OperationCommits
  <2>2. ApplyEvent(m_store, e, now) \in Store
    BY <2>1, <1>t, ApplyEventType
  <2>3. CASE m_persistence
    BY <2>1, <2>2, <2>3
    DEF Commit, TypeOK, Phases, RecordsOK, loopVars, fileVars, historyVars
  <2>4. CASE ~m_persistence
    BY <2>1, <2>2, <2>4
    DEF Commit, TypeOK, Phases, RecordsOK, loopVars, fileVars, historyVars
  <2> QED
    BY <2>3, <2>4
<1>6. ASSUME Compact PROVE TypeInv'
  <2>1. PICK read \in GetEvents(records) : queue' = read.events
    BY <1>6 DEF Compact
  <2>2. records \in Seq(Record) /\ \A i \in 1..Len(records) : RecordOK(records[i])
    BY DEF TypeOK, RecordsOK
  <2>3. queue' \in Seq(Event) /\ \A i \in 1..Len(queue') : WellFormed(queue'[i])
    BY <2>1, <2>2, GetEventsType
  <2> QED
    BY <1>6, <2>3, EmptyEventsMapType
    DEF Compact, TypeOK, Phases, RecordsOK, commitVars, fileVars, historyVars
<1>7. ASSUME ReplayStep PROVE TypeInv'
  <2>1. WellFormed(queue[cursor])
    BY <1>7, LenProperties DEF ReplayStep, TypeOK
  <2>2. m_store' \in Store
    BY <1>7, <2>1, <1>t, ApplyEventType DEF ReplayStep
  <2> QED
    BY <1>7, <2>2 DEF ReplayStep, TypeOK, RecordsOK, commitVars, fileVars, historyVars
<1>8. ASSUME ReplayDone PROVE TypeInv'
  BY <1>8, EmptySeq
  DEF ReplayDone, TypeOK, Phases, RecordsOK, commitVars, fileVars, historyVars
<1>9. ASSUME AppendOk PROVE TypeInv'
  <2>1. WellFormed(event)
    BY <1>9 DEF AppendOk, TypeOK
  <2>2. records' \in Seq(Record) /\ RecordsOK(records')
    BY <1>9, <2>1, WriteRecordOK, AppendRecord DEF AppendOk, TypeOK
  <2>3. misframed' \in BOOLEAN
    BY <1>9 DEF AppendOk, TypeOK, TornTail
  <2> QED
    BY <1>9, <2>1, <2>2, <2>3
    DEF AppendOk, TypeOK, Phases, RecordsOK, commitVars, loopVars
<1>10. ASSUME AppendFails PROVE TypeInv'
  <2>1. WellFormed(event)
    BY <1>10 DEF AppendFails, TypeOK
  <2>2. records' \in Seq(Record) /\ RecordsOK(records')
    BY <1>10, <2>1, WrittenRecordOK, AppendRecord DEF AppendFails, TypeOK
  <2>3. misframed' \in BOOLEAN
    BY <1>10 DEF AppendFails, TypeOK, TornTail
  <2> QED
    BY <1>10, <2>2, <2>3, NoStoreType
    DEF AppendFails, TypeOK, Phases, RecordsOK, loopVars
<1>11. ASSUME Swap PROVE TypeInv'
  BY <1>11, NoStoreType
  DEF Swap, TypeOK, Phases, RecordsOK, loopVars, fileVars, historyVars
<1>12. ASSUME CompactStep PROVE TypeInv'
  <2>1. WellFormed(queue[cursor])
    BY <1>12, LenProperties DEF CompactStep, TypeOK
  <2>2. eventsMap' \in EventsMap /\ SurvivorsOK(eventsMap')
    BY <1>12, <2>1, <1>t, CompactEventType DEF CompactStep, TypeOK
  <2> QED
    BY <1>12, <2>2 DEF CompactStep, TypeOK, RecordsOK, commitVars, fileVars, historyVars
<1>13. ASSUME RewriteStart PROVE TypeInv'
  BY <1>13, EmptySeq, NoRecords
  DEF RewriteStart, TypeOK, Phases, RecordsOK, commitVars, historyVars
<1>14. ASSUME NEW k \in Keys, RewriteStep(k) PROVE TypeInv'
  <2>1. WellFormed(eventsMap[k])
    BY <1>14 DEF RewriteStep, Unwritten, SurvivorsOK
  <2>2. tmp' \in Seq(Record) /\ RecordsOK(tmp')
    BY <1>14, <2>1, WriteRecordOK, AppendRecord DEF RewriteStep, TypeOK
  <2>3. eventsMap' \in EventsMap /\ SurvivorsOK(eventsMap')
    BY <1>14 DEF RewriteStep, TypeOK, EventsMap, SurvivorsOK
  <2> QED
    BY <1>14, <2>2, <2>3 DEF RewriteStep, TypeOK, RecordsOK, commitVars, historyVars
<1>15. ASSUME RewriteDone PROVE TypeInv'
  BY <1>15, NoRecords
  DEF RewriteDone, TypeOK, Phases, RecordsOK, commitVars, loopVars, historyVars
<1>16. ASSUME RewriteFails PROVE TypeInv'
  BY <1>16, EmptyEventsMapType
  DEF RewriteFails, TypeOK, Phases, RecordsOK, commitVars, fileVars, historyVars
<1>17. ASSUME ProcessEnds PROVE TypeInv'
  <2>1. m_persistence' \in BOOLEAN
    BY <1>17, Zenon DEF ProcessEnds
  <2>2. queue' \in Seq(Event) /\ \A i \in 1..Len(queue') : WellFormed(queue'[i])
    BY <1>17 DEF ProcessEnds
  <2> QED
    BY <1>17, <2>1, <2>2, NoStoreType, EmptyEventsMapType
    DEF ProcessEnds, TypeOK, Phases, RecordsOK, fileVars, historyVars
<1>18. ASSUME Tick PROVE TypeInv'
  BY <1>18 DEF Tick, TypeOK, RecordsOK, commitVars, loopVars, fileVars, historyVars
<1>19. ASSUME UNCHANGED vars PROVE TypeInv'
  BY <1>19 DEF vars, TypeOK, RecordsOK, commitVars, loopVars, fileVars, historyVars
<1> QED
  BY <1>1, <1>2, <1>3, <1>4, <1>5, <1>6, <1>7, <1>8, <1>9, <1>10, <1>11, <1>12, <1>13,
     <1>14, <1>15, <1>16, <1>17, <1>18, <1>19 DEF Next, InternalStep

\* TypeOK is an invariant of the specification, whatever the constants: in
\* particular replay and compaction are only ever given well-formed events,
\* also from a log with records cut short or out of frame.
THEOREM TypeCorrect == Spec => []TypeOK
<1>1. TypeInv => TypeOK
  BY DEF TypeInv
<1> QED
  BY <1>1, TypeInit, TypeStep, PTL DEF Spec

THEOREM TypeInvariance == Spec => []TypeInv
BY TypeInit, TypeStep, PTL DEF Spec

-----------------------------------------------------------------------------
(* The two maps of the store.  TtlTracksData is inductive together with the *)
(* types: every store is the empty one or made of another by ApplyEvent.    *)

AlignedInv == Aligned(m_store) /\ Aligned(staged)

LEMMA AlignedInit == Init => AlignedInv
BY EmptyAligned DEF Init, NoStore, AlignedInv

LEMMA AlignedStep == TypeInv /\ AlignedInv /\ [Next]_vars => AlignedInv'
<1> SUFFICES ASSUME TypeInv, AlignedInv, [Next]_vars PROVE AlignedInv'
  OBVIOUS
<1>t. now \in Int /\ m_store \in Store /\ staged \in Store
  BY DEF TypeInv, TypeOK
<1>n. Aligned(NoStore)
  BY EmptyAligned DEF NoStore
<1>1. CASE Operation
  <2>1. PICK e : WellFormed(e) /\ Commit(e)
    BY <1>1, OperationCommits DEF TypeInv
  <2>2. Aligned(ApplyEvent(m_store, e, now))
    BY <2>1, <1>t, ApplyEventAligned DEF AlignedInv
  <2> QED
    BY <2>1, <2>2 DEF Commit, AlignedInv
<1>2. CASE ReplayStep
  <2>1. WellFormed(queue[cursor])
    BY <1>2, LenProperties DEF ReplayStep, TypeInv, TypeOK
  <2>2. Aligned(ApplyEvent(m_store, queue[cursor], now))
    BY <2>1, <1>t, ApplyEventAligned DEF AlignedInv
  <2> QED
    BY <1>2, <2>2 DEF ReplayStep, commitVars, AlignedInv
<1>3. CASE \E ttl \in TtlChoices : OpenVolatile(ttl) \/ OpenLog(ttl)
  BY <1>3, EmptyAligned DEF OpenVolatile, OpenLog, commitVars, AlignedInv
<1>4. CASE AppendFails \/ Swap \/ ProcessEnds
  BY <1>4, <1>n DEF AppendFails, Swap, ProcessEnds, AlignedInv
<1>5. ASSUME UNCHANGED <<m_store, staged>> PROVE AlignedInv'
  BY <1>5 DEF AlignedInv
<1>6. CASE \/ OpenFails \/ CreateLogFails \/ Compact \/ ReplayDone \/ AppendOk
           \/ CompactStep \/ RewriteStart \/ RewriteDone \/ RewriteFails \/ Tick
           \/ (\E k \in Keys : RewriteStep(k)) \/ UNCHANGED vars
  BY <1>5, <1>6
  DEF OpenFails, CreateLogFails, Compact, ReplayDone, AppendOk, CompactStep, RewriteStart,
      RewriteDone, RewriteFails, Tick, RewriteStep, vars, commitVars
<1> QED
  BY <1>1, <1>2, <1>3, <1>4, <1>6 DEF Next, InternalStep

\* A store with a TTL has a deadline for exactly the keys it has a value for,
\* one without has none, in memory and while a commit stages its successor:
\* for any TTL, any renames, and logs written under other TTLs, torn or out of
\* frame (RadishStore::Create, Rename, Delete, Clear; LogWriter::Replay).
THEOREM TtlMapsAligned == Spec => []TtlTracksData
<1>1. AlignedInv => TtlTracksData
  BY DEF AlignedInv, Aligned, TtlTracksData
<1> QED
  BY <1>1, TypeInvariance, AlignedInit, AlignedStep, PTL DEF Spec
=============================================================================
