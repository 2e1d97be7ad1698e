------------------------ MODULE RadishThreadsProofs ------------------------
(***************************************************************************)
(* Threads that share one RadishDB: the locks are what the program         *)
(* counters say, every call is linearizable, and the log agrees with       *)
(* memory whenever no writer is inside; for any number of threads, keys,   *)
(* values, deadlines and calls.                                            *)
(*                                                                         *)
(* Everything rests on Visible, the store the next thread to get the lock  *)
(* will find.  It is m_store except in the middle of RadishStore::Swap,    *)
(* and only SwapData changes it, by the event its writer has staged.       *)
(***************************************************************************)
EXTENDS RadishThreads, RadishLogProofs, FiniteSetTheorems

Inside == {"locked", "appending", "writing", "swapping", "swapped", "compacting"}

\* The locks and pc; what TypeOK leaves open is where their holders stand.
LocksInv ==
    /\ TypeOK
    /\ exclusive # NoThread => pc[exclusive] \in Inside \cup {"leaving"}
    /\ logMutex # NoThread => pc[logMutex] \in {"writing", "compacting"}

\* The call a thread is in, and whether its outcome is determined.
CallOK(t) ==
    /\ pc[t] = "idle" <=> call[t] = NoCall
    /\ pc[t] = "reading" => call[t].op = "read"
    /\ pc[t] \in {"appending", "writing", "swapping", "swapped"} => call[t].op = "write"
    /\ pc[t] = "compacting" => call[t].op = "compact"
    /\ outcome[t] = Pending <=> pc[t] \notin {"swapped", "leaving"}

CallsInv ==
    /\ call \in [Threads -> Calls \cup {NoCall}]
    /\ DOMAIN outcome = Threads
    /\ DOMAIN event = Threads
    /\ DOMAIN visited = Threads
    /\ \A t \in Threads : CallOK(t)

\* The store that will be in memory once a Swap in progress is over.
Visible ==
    IF exclusive # NoThread /\ pc[exclusive] = "swapped"
    THEN StoreWith(m_store, m_store.m_data, staged[exclusive].m_ttlData)
    ELSE m_store

\* A store such a database can be in: its deadlines lie ahead.
StoreOK(s) ==
    /\ s \in Store
    /\ Aligned(s)
    /\ \A k \in Keys : s.m_ttlData[k] \in Deadlines \cup {Absent}

\* An event that such a database, with the given TTL, writes.
EventOK(e, ttl) ==
    /\ WellFormed(e)
    /\ e.type = CREATE => IF ttl = NoExpiry THEN e.timestamp \in Deadlines \cup {NoExpiry}
                          ELSE e.timestamp \in Deadlines

VisibleInv == StoreOK(Visible) /\ Visible.m_ttl = m_store.m_ttl

\* What a writer has staged.
StagedOK(t) ==
    /\ pc[t] \in {"appending", "writing", "swapping", "swapped"} =>
           /\ EventOK(event[t], m_store.m_ttl)
           /\ \E d \in Deadlines \cup {NoExpiry} : event[t] = Stamped(call[t].event, d)
    /\ pc[t] \in {"appending", "writing", "swapping"} =>
           /\ Applies(m_store, event[t], 0)
           /\ staged[t] = ApplyEvent(m_store, event[t], 0)

StagedInv == \A t \in Threads : StagedOK(t)

\* A read has seen the store as it still is.
VisitedOK(t) ==
    /\ pc[t] \in {"idle", "calling"} => visited[t] = NoEntries
    /\ pc[t] = "reading" =>
           /\ DOMAIN visited[t] \subseteq call[t].keys
           /\ visited[t] = [k \in DOMAIN visited[t] |->
                                Entry(m_store.m_data, m_store.m_ttlData, k)]

VisitedInv == \A t \in Threads : VisitedOK(t)

ThreadsInv == LocksInv /\ CallsInv /\ VisibleInv /\ StagedInv /\ VisitedInv

-----------------------------------------------------------------------------
(* Events and stores. *)

LEMMA StampedFacts ==
    ASSUME NEW e, WellFormed(e), NEW d \in Int
    PROVE  /\ WellFormed(Stamped(e, d))
           /\ Stamped(e, d).type = e.type
           /\ Stamped(e, d).key = e.key
           /\ Stamped(e, d).renameKey = e.renameKey
           /\ Stamped(e, d).payload = e.payload
           /\ e.type = CREATE => Stamped(e, d).timestamp = d
BY DEF Stamped, WellFormed, Event

LEMMA CallEvent ==
    ASSUME NEW c \in Calls, c.op = "write"
    PROVE  WellFormed(c.event)
BY ThreadsAssumption

LEMMA DeadlinesAhead == Deadlines \subseteq Nat \ {0}
BY ThreadsAssumption

\* The events Stage makes of a call.
LEMMA StagedEvent ==
    ASSUME NEW c \in Calls, c.op = "write", NEW ttl \in Int,
           NEW d \in IF ttl # NoExpiry THEN Deadlines ELSE {NoExpiry}
    PROVE  d \in Int /\ d \in Deadlines \cup {NoExpiry} /\ EventOK(Stamped(c.event, d), ttl)
<1>1. WellFormed(c.event) /\ d \in Int
  BY CallEvent, DeadlinesAhead DEF NoExpiry
<1>2. /\ WellFormed(Stamped(c.event, d))
      /\ Stamped(c.event, d).type = CREATE => Stamped(c.event, d).timestamp = d
  BY <1>1, StampedFacts
<1> QED
  BY <1>1, <1>2 DEF EventOK

\* ApplyEvent keeps a store such a database can be in, and its TTL.
LEMMA ApplyStoreOK ==
    ASSUME NEW s, StoreOK(s), NEW e, EventOK(e, s.m_ttl)
    PROVE  StoreOK(ApplyEvent(s, e, 0)) /\ ApplyEvent(s, e, 0).m_ttl = s.m_ttl
<1> DEFINE a == ApplyEvent(s, e, 0)
<1>0. /\ WellFormed(e) /\ e.type \in EventType /\ e.timestamp \in Int
      /\ e.type # CLEAR => e.key \in Keys
      /\ e.type = RENAME => e.renameKey \in Keys
  BY DEF EventOK, WellFormed, Event, EventType, CREATE, RENAME, DELETE, CLEAR
<1>1. s \in Store /\ Aligned(s) /\ 0 \in Int
  BY DEF StoreOK
<1>2. a \in Store /\ Aligned(a)
  BY <1>0, <1>1, ApplyEventType, ApplyEventAligned
<1>3. s.m_ttlData \in [Keys -> Deadlines \cup {Absent}]
  BY <1>1 DEF StoreOK, Store, TTLMap
<1>4. CASE e.type = CREATE
  <2>1. a = StoreCreate(s, e.key, e.payload, e.timestamp)
    BY <1>4 DEF ApplyEvent, CREATE, RENAME, DELETE, CLEAR
  <2>2. HasTimeToLive(s) => e.timestamp \in Deadlines
    BY <1>4 DEF EventOK, HasTimeToLive
  <2>3. a.m_ttlData \in [Keys -> Deadlines \cup {Absent}] /\ a.m_ttl = s.m_ttl
    BY <1>3, <2>1, <2>2 DEF StoreCreate, StoreWith
  <2> QED
    BY <1>2, <2>3 DEF StoreOK
<1>5. CASE e.type = RENAME
  <2>1. a = StoreRename(s, e.key, e.renameKey, 0)
    BY <1>5 DEF ApplyEvent, CREATE, RENAME, DELETE, CLEAR
  <2>2. e.key \in Keys /\ e.renameKey \in Keys
    BY <1>0, <1>5 DEF RENAME, CLEAR
  <2>3. /\ MoveEntry(s.m_ttlData, e.key, e.renameKey) \in [Keys -> Deadlines \cup {Absent}]
        /\ [s.m_ttlData EXCEPT ![e.renameKey] = Absent] \in [Keys -> Deadlines \cup {Absent}]
    BY <1>3, <2>2 DEF MoveEntry
  <2>4. a.m_ttlData \in [Keys -> Deadlines \cup {Absent}] /\ a.m_ttl = s.m_ttl
    BY <1>3, <2>1, <2>3 DEF StoreRename, StoreWith
  <2> QED
    BY <1>2, <2>4 DEF StoreOK
<1>6. CASE e.type = DELETE
  <2>1. a = StoreDelete(s, e.key)
    BY <1>6 DEF ApplyEvent, CREATE, RENAME, DELETE, CLEAR
  <2>3. a.m_ttlData \in [Keys -> Deadlines \cup {Absent}] /\ a.m_ttl = s.m_ttl
    BY <1>3, <2>1 DEF StoreDelete, StoreWith
  <2> QED
    BY <1>2, <2>3 DEF StoreOK
<1>7. CASE e.type = CLEAR
  <2>1. a = StoreClear(s)
    BY <1>7 DEF ApplyEvent, CREATE, RENAME, DELETE, CLEAR
  <2>3. a.m_ttlData \in [Keys -> Deadlines \cup {Absent}] /\ a.m_ttl = s.m_ttl
    BY <1>3, <2>1 DEF StoreClear, EmptyStore
  <2> QED
    BY <1>2, <2>3 DEF StoreOK
<1> QED
  BY <1>0, <1>4, <1>5, <1>6, <1>7 DEF EventType

\* No deadline has passed, so a key can be renamed when it has a value.
LEMMA NothingExpired ==
    ASSUME NEW s, StoreOK(s), NEW k \in Keys
    PROVE  ~IsExpired(s, k, 0)
<1>1. s.m_ttlData[k] \in Deadlines \cup {Absent}
  BY DEF StoreOK
<1>2. Deadlines \subseteq Nat \ {0}
  BY ThreadsAssumption
<1> DEFINE d == s.m_ttlData[k]
<1>3. d # Absent => d \in Nat \ {0}
  BY <1>1, <1>2
<1> HIDE DEF d
<1>4. d # Absent => ~(0 >= d)
  BY <1>3
<1> QED
  BY <1>4 DEF IsExpired, d

-----------------------------------------------------------------------------
(* The locks. *)

LEMMA StoresStep ==
    ASSUME TypeOK, CallsInv, NEW t \in Threads, ThreadStep(t)
    PROVE  m_store' \in Store /\ staged' \in [Threads -> Store]
<1>0. m_store \in Store /\ staged \in [Threads -> Store] /\ staged[t] \in Store
  BY DEF TypeOK
<1>1. CASE Stage(t)
  <2>1. PICK d \in IF HasTimeToLive(m_store) THEN Deadlines ELSE {NoExpiry} :
            LET e == Stamped(call[t].event, d)
            IN  \/ staged' = [staged EXCEPT ![t] = ApplyEvent(m_store, e, 0)]
                \/ staged' = staged
    BY <1>1 DEF Stage
  <2>2. call[t] \in Calls /\ call[t].op = "write"
    BY <1>1 DEF Stage, CallsInv, CallOK
  <2>3. d \in Int
    BY DeadlinesAhead DEF NoExpiry
  <2>4. WellFormed(Stamped(call[t].event, d))
    BY <2>2, <2>3, CallEvent, StampedFacts
  <2>5. ApplyEvent(m_store, Stamped(call[t].event, d), 0) \in Store
    <3>1. 0 \in Int
      OBVIOUS
    <3> QED
      BY <3>1, <1>0, <2>4, ApplyEventType
  <2>6. m_store' = m_store
    BY <1>1 DEF Stage, dbVars
  <2> QED
    BY <1>0, <2>1, <2>5, <2>6
<1>2. CASE SwapData(t)
  <2>1. /\ m_store' = [m_store EXCEPT !.m_data = staged[t].m_data]
        /\ staged' = [staged EXCEPT ![t].m_data = m_store.m_data]
    BY <1>2 DEF SwapData
  <2> QED
    BY <1>0, <2>1 DEF Store
<1>3. CASE SwapTtlData(t)
  <2>1. /\ m_store' = [m_store EXCEPT !.m_ttlData = staged[t].m_ttlData]
        /\ staged' = [staged EXCEPT ![t].m_ttlData = m_store.m_ttlData]
    BY <1>3 DEF SwapTtlData
  <2> QED
    BY <1>0, <2>1 DEF Store
<1>4. CASE Return(t)
  <2>1. NoStore \in Store
    BY EmptyStoreType DEF NoStore, NoExpiry
  <2> QED
    BY <1>0, <1>4, <2>1 DEF Return, dbVars
<1>5. CASE UNCHANGED <<m_store, staged>>
  BY <1>0, <1>5
<1> QED
  BY <1>1, <1>2, <1>3, <1>4, <1>5
  DEF ThreadStep, LockShared, LockExclusive, ReadKey, ReadDone, LockLog, AppendOk,
      AppendThrows, CompactVolatile, CompactStart, CompactDone, CompactThrows, dbVars

\* Steps that take or release no lock and keep their thread inside, or bring
\* it to the end of what it does inside.
LEMMA LocksKept ==
    ASSUME LocksInv, NEW t \in Threads, NEW l \in Labels,
           m_persistence' = m_persistence, m_store' \in Store, staged' \in [Threads -> Store],
           exclusive' = exclusive, sharers' = sharers, logMutex' = logMutex,
           pc' = [pc EXCEPT ![t] = l],
           \/ pc[t] = "reading" /\ l \in {"reading", "leaving"}
           \/ pc[t] \in Inside \ {"writing", "compacting"} /\ l \in Inside \cup {"leaving"}
           \/ pc[t] = "idle" /\ l = "calling"
    PROVE  LocksInv'
<1>1. pc' \in [Threads -> Labels] /\ pc'[t] = l /\ \A u \in Threads : u # t => pc'[u] = pc[u]
  BY DEF LocksInv, TypeOK
<1>2. t = exclusive => pc[t] \in Inside \cup {"leaving"}
  BY ThreadsAssumption DEF LocksInv
<1>3. logMutex # t
  BY ThreadsAssumption DEF LocksInv, Inside
<1>4. logMutex # NoThread => logMutex \in Threads
  BY DEF LocksInv, TypeOK
<1>5. exclusive # NoThread => exclusive \in Threads
  BY DEF LocksInv, TypeOK
<1>6. TypeOK'
  BY <1>1 DEF LocksInv, TypeOK, Inside, Labels
<1>7. exclusive' # NoThread => pc'[exclusive'] \in Inside \cup {"leaving"}
  BY <1>1, <1>2, <1>5 DEF LocksInv, Inside
<1>8. logMutex' # NoThread => pc'[logMutex'] \in {"writing", "compacting"}
  BY <1>1, <1>3, <1>4 DEF LocksInv
<1> QED
  BY <1>6, <1>7, <1>8 DEF LocksInv

\* PersistenceLog's mutex is taken or released by the writer inside.
LEMMA LocksOfLog ==
    ASSUME LocksInv, NEW t \in Threads, NEW l \in Labels,
           m_persistence' = m_persistence, m_store' \in Store, staged' \in [Threads -> Store],
           exclusive' = exclusive, sharers' = sharers,
           pc' = [pc EXCEPT ![t] = l], pc[t] \in Inside, l \in Inside \cup {"leaving"},
           \/ logMutex' = NoThread
           \/ logMutex' = t /\ l \in {"writing", "compacting"}
    PROVE  LocksInv'
<1>1. pc' \in [Threads -> Labels] /\ pc'[t] = l /\ \A u \in Threads : u # t => pc'[u] = pc[u]
  BY DEF LocksInv, TypeOK
<1>2. t = exclusive
  BY DEF LocksInv, TypeOK, Inside, Labels
<1>3. TypeOK'
  BY <1>1, <1>2 DEF LocksInv, TypeOK, Inside, Labels
<1>4. exclusive' # NoThread => pc'[exclusive'] \in Inside \cup {"leaving"}
  BY <1>1, <1>2
<1>5. logMutex' # NoThread => pc'[logMutex'] \in {"writing", "compacting"}
  BY <1>1
<1> QED
  BY <1>3, <1>4, <1>5 DEF LocksInv

LEMMA LocksStep ==
    ASSUME LocksInv, CallsInv, NEW t \in Threads,
           (\E c \in Calls : Invoke(t, c)) \/ ThreadStep(t)
    PROVE  LocksInv'
<1>0. LocksInv /\ TypeOK /\ NoThread \notin Threads
  BY ThreadsAssumption DEF LocksInv
<1>1. m_store' \in Store /\ staged' \in [Threads -> Store]
  <2>1. CASE ThreadStep(t)
    BY <2>1, <1>0, StoresStep
  <2>2. CASE \E c \in Calls : Invoke(t, c)
    BY <2>2, <1>0 DEF Invoke, TypeOK, dbVars
  <2> QED
    BY <2>1, <2>2
<1>2. m_persistence' = m_persistence
  BY DEF Invoke, ThreadStep, LockShared, LockExclusive, Return, ReadKey, ReadDone, Stage,
         LockLog, AppendOk, AppendThrows, SwapData, SwapTtlData, CompactVolatile,
         CompactStart, CompactDone, CompactThrows, dbVars
<1>3. CASE \E c \in Calls : Invoke(t, c)
  <2>1. /\ exclusive' = exclusive /\ sharers' = sharers /\ logMutex' = logMutex
        /\ pc' = [pc EXCEPT ![t] = "calling"] /\ pc[t] = "idle" /\ "calling" \in Labels
    BY <1>3 DEF Invoke, Goto, lockVars, Labels
  <2> QED
    BY <1>0, <1>1, <1>2, <2>1, LocksKept
<1>4. CASE LockShared(t)
  <2>1. /\ exclusive' = exclusive /\ exclusive = NoThread /\ logMutex' = logMutex
        /\ sharers' = sharers \cup {t}
        /\ pc' = [pc EXCEPT ![t] = "reading"]
    BY <1>4 DEF LockShared, Goto
  <2> QED
    BY <1>0, <1>1, <1>2, <2>1 DEF LocksInv, TypeOK, Labels, Inside
<1>5. CASE LockExclusive(t)
  <2>1. /\ exclusive = NoThread /\ exclusive' = t /\ sharers = {} /\ sharers' = sharers
        /\ logMutex' = logMutex /\ pc[t] = "calling"
        /\ pc' = [pc EXCEPT ![t] = "locked"]
    BY <1>5 DEF LockExclusive, Goto
  <2>2. logMutex = NoThread
    BY <1>0, <2>1 DEF TypeOK
  <2>3. \A u \in Threads : pc[u] \in {"idle", "calling", "leaving"}
    BY <1>0, <2>1 DEF TypeOK, Labels
  <2> QED
    BY <1>0, <1>1, <1>2, <2>1, <2>2, <2>3 DEF LocksInv, TypeOK, Labels, Inside
<1>6. CASE Return(t)
  <2>1. /\ exclusive' = IF exclusive = t THEN NoThread ELSE exclusive
        /\ sharers' = sharers \ {t} /\ logMutex' = logMutex /\ pc[t] = "leaving"
        /\ pc' = [pc EXCEPT ![t] = "idle"]
    BY <1>6 DEF Return, Goto
  <2>2. logMutex # t
    BY <1>0, <2>1 DEF LocksInv
  <2>3. pc' \in [Threads -> Labels] /\ pc'[t] = "idle" /\ \A u \in Threads : u # t => pc'[u] = pc[u]
    BY <1>0, <2>1 DEF TypeOK, Labels
  <2>4. logMutex' \in {NoThread, exclusive'}
    BY <1>0, <2>1, <2>2 DEF TypeOK
  <2>5. \A u \in Threads : pc'[u] \in Inside => u = exclusive /\ u # t
    BY <1>0, <2>1, <2>3 DEF TypeOK, Inside, Labels
  <2>6. TypeOK'
    BY <1>0, <1>1, <1>2, <2>1, <2>3, <2>4, <2>5 DEF TypeOK, Inside, Labels
  <2>7. exclusive' # NoThread => exclusive' \in Threads /\ exclusive' = exclusive /\ exclusive # t
    BY <1>0, <2>1 DEF TypeOK
  <2>8. logMutex' # NoThread => logMutex' \in Threads /\ logMutex' = logMutex
    BY <1>0, <2>1 DEF TypeOK
  <2> QED
    BY <1>0, <2>1, <2>2, <2>3, <2>6, <2>7, <2>8 DEF LocksInv
<1>7. CASE (\E k \in Keys : ReadKey(t, k)) \/ ReadDone(t)
  <2>1. PICK l \in {"reading", "leaving"} :
            /\ exclusive' = exclusive /\ sharers' = sharers /\ logMutex' = logMutex
            /\ pc' = [pc EXCEPT ![t] = l] /\ pc[t] = "reading"
    <3>1. CASE ReadDone(t)
      BY <3>1 DEF ReadDone, Goto, lockVars
    <3>2. CASE \E k \in Keys : ReadKey(t, k)
      <4>1. pc[t] = "reading" /\ pc' = pc /\ UNCHANGED lockVars
        BY <3>2 DEF ReadKey
      <4>2. pc' = [pc EXCEPT ![t] = "reading"]
        BY <4>1, <1>0 DEF TypeOK
      <4> QED
        BY <4>1, <4>2 DEF lockVars
    <3> QED
      BY <1>7, <3>1, <3>2
  <2>2. l \in Labels
    BY DEF Labels
  <2> QED
    BY <1>0, <1>1, <1>2, <2>1, <2>2, LocksKept
<1>8. CASE Stage(t) \/ SwapData(t) \/ SwapTtlData(t) \/ CompactVolatile(t)
  <2>1. PICK l \in {"appending", "swapping", "leaving", "swapped"} :
            /\ exclusive' = exclusive /\ sharers' = sharers /\ logMutex' = logMutex
            /\ pc' = [pc EXCEPT ![t] = l] /\ pc[t] \in {"locked", "swapping", "swapped"}
    BY <1>8 DEF Stage, SwapData, SwapTtlData, CompactVolatile, Goto, lockVars
  <2>2. /\ l \in Labels /\ l \in Inside \cup {"leaving"}
        /\ pc[t] \in Inside \ {"writing", "compacting"}
    BY <2>1 DEF Labels, Inside
  <2> QED
    BY <1>0, <1>1, <1>2, <2>1, <2>2, LocksKept
<1>9. CASE LockLog(t) \/ AppendOk(t) \/ AppendThrows(t) \/ CompactStart(t)
             \/ CompactDone(t) \/ CompactThrows(t)
  <2>1. PICK l \in {"writing", "swapping", "leaving", "compacting"} :
            /\ exclusive' = exclusive /\ sharers' = sharers
            /\ pc' = [pc EXCEPT ![t] = l]
            /\ pc[t] \in {"appending", "writing", "locked", "compacting"}
            /\ \/ logMutex' = NoThread
               \/ logMutex' = t /\ l \in {"writing", "compacting"}
    BY <1>9 DEF LockLog, AppendOk, AppendThrows, CompactStart, CompactDone, CompactThrows, Goto
  <2>2. l \in Labels /\ l \in Inside \cup {"leaving"} /\ pc[t] \in Inside
    BY <2>1 DEF Labels, Inside
  <2> QED
    BY <1>0, <1>1, <1>2, <2>1, <2>2, LocksOfLog
<1> QED
  BY <1>3, <1>4, <1>5, <1>6, <1>7, <1>8, <1>9 DEF ThreadStep

-----------------------------------------------------------------------------
(* The calls. *)

\* Whether the outcome of a call is determined shows in its kind.
LEMMA Decided ==
    ASSUME NEW kind, kind # "pending", NEW entries
    PROVE  Outcome(kind, entries) # Pending
BY DEF Outcome, Pending

LEMMA CallsStep ==
    ASSUME LocksInv, CallsInv, NEW t \in Threads,
           (\E c \in Calls : Invoke(t, c)) \/ ThreadStep(t)
    PROVE  CallsInv'
<1>0. /\ pc \in [Threads -> Labels] /\ NoCall \notin Calls
      /\ call \in [Threads -> Calls \cup {NoCall}] /\ DOMAIN outcome = Threads
      /\ DOMAIN event = Threads /\ DOMAIN visited = Threads
      /\ \A u \in Threads : CallOK(u)
  BY ThreadsAssumption DEF LocksInv, TypeOK, CallsInv
<1>1. CASE \E c \in Calls : Invoke(t, c)
  BY <1>0, <1>1 DEF CallsInv, CallOK, Invoke, Goto
<1>2. CASE LockShared(t) \/ LockExclusive(t)
  BY <1>0, <1>2 DEF CallsInv, CallOK, LockShared, LockExclusive, Goto
<1>3. CASE Return(t)
  BY <1>0, <1>3 DEF CallsInv, CallOK, Return, Goto
<1>4. CASE (\E k \in Keys : ReadKey(t, k))
  BY <1>0, <1>4 DEF CallsInv, CallOK, ReadKey
<1>5. CASE ReadDone(t)
  <2>1. Outcome("read", visited[t]) # Pending
    BY Decided
  <2> QED
    BY <1>0, <1>5, <2>1 DEF CallsInv, CallOK, ReadDone, Goto, Decide
<1>6. CASE Stage(t)
  <2>1. Outcome("false", Absent) # Pending
    BY Decided
  <2>2. /\ pc[t] = "locked" /\ call[t].op = "write"
        /\ call' = call /\ visited' = visited /\ DOMAIN event' = Threads
        /\ \/ /\ \E l \in {"appending", "swapping"} : pc' = [pc EXCEPT ![t] = l]
              /\ outcome' = outcome
           \/ /\ outcome' = [outcome EXCEPT ![t] = Outcome("false", Absent)]
              /\ pc' = [pc EXCEPT ![t] = "leaving"]
    BY <1>0, <1>6 DEF Stage, Goto, Decide
  <2> QED
    BY <1>0, <2>1, <2>2 DEF CallsInv, CallOK
<1>7. CASE LockLog(t) \/ AppendOk(t)
  BY <1>0, <1>7 DEF CallsInv, CallOK, LockLog, AppendOk, Goto
<1>8. CASE AppendThrows(t) \/ CompactThrows(t)
  <2>1. Outcome("exception", Absent) # Pending
    BY Decided
  <2> QED
    BY <1>0, <1>8, <2>1 DEF CallsInv, CallOK, AppendThrows, CompactThrows, Goto, Decide
<1>9. CASE SwapData(t) \/ CompactVolatile(t) \/ CompactDone(t)
  <2>1. Outcome("true", Absent) # Pending
    BY Decided
  <2> QED
    BY <1>0, <1>9, <2>1
    DEF CallsInv, CallOK, SwapData, CompactVolatile, CompactDone, Goto, Decide
<1>10. CASE SwapTtlData(t) \/ CompactStart(t)
  BY <1>0, <1>10 DEF CallsInv, CallOK, SwapTtlData, CompactStart, Goto
<1> QED
  BY <1>1, <1>2, <1>3, <1>4, <1>5, <1>6, <1>7, <1>8, <1>9, <1>10 DEF ThreadStep

-----------------------------------------------------------------------------
(* The visible store and what the writer has staged. *)

\* m_store is the visible store while no Swap is in progress.
LEMMA VisibleOutside ==
    ASSUME LocksInv, NEW t \in Threads, pc[t] \in Inside \ {"swapped"}
    PROVE  t = exclusive /\ Visible = m_store
<1>1. t = exclusive /\ t # NoThread
  BY ThreadsAssumption DEF LocksInv, TypeOK, Inside, Labels
<1> QED
  BY <1>1 DEF Visible

LEMMA VisibleWithoutWriter ==
    ASSUME exclusive = NoThread
    PROVE  Visible = m_store
BY DEF Visible

\* Only SwapData changes the visible store.
LEMMA VisibleStep ==
    ASSUME LocksInv, CallsInv, NEW t \in Threads,
           (\E c \in Calls : Invoke(t, c)) \/ ThreadStep(t)
    PROVE  /\ ~SwapData(t) => Visible' = Visible
           /\ SwapData(t) => Visible' = StoreWith(m_store, staged[t].m_data, staged[t].m_ttlData)
           /\ m_store'.m_ttl = m_store.m_ttl
<1>0. /\ pc \in [Threads -> Labels] /\ NoThread \notin Threads /\ m_store \in Store
      /\ staged \in [Threads -> Store] /\ staged[t] \in Store
      /\ exclusive # NoThread => exclusive \in Threads
  BY ThreadsAssumption DEF LocksInv, TypeOK
<1>1. CASE SwapData(t)
  <2>1. t = exclusive
    BY <1>1, VisibleOutside DEF SwapData, Inside
  <2>2. /\ m_store' = [m_store EXCEPT !.m_data = staged[t].m_data]
        /\ staged' = [staged EXCEPT ![t].m_data = m_store.m_data]
        /\ exclusive' = exclusive /\ pc' = [pc EXCEPT ![t] = "swapped"]
    BY <1>1 DEF SwapData, Goto, lockVars
  <2>3. /\ m_store'.m_data = staged[t].m_data /\ m_store'.m_ttl = m_store.m_ttl
        /\ staged'[t].m_ttlData = staged[t].m_ttlData /\ pc'[t] = "swapped"
    BY <1>0, <2>2 DEF Store
  <2>4. Visible' = StoreWith(m_store', m_store'.m_data, staged'[t].m_ttlData)
    BY <1>0, <2>1, <2>2, <2>3 DEF Visible
  <2> QED
    BY <1>1, <2>3, <2>4 DEF StoreWith
<1>2. CASE SwapTtlData(t)
  <2>1. t = exclusive
    BY <1>2 DEF SwapTtlData, LocksInv, TypeOK, Labels
  <2>2. /\ m_store' = [m_store EXCEPT !.m_ttlData = staged[t].m_ttlData]
        /\ exclusive' = exclusive /\ pc[t] = "swapped" /\ pc' = [pc EXCEPT ![t] = "leaving"]
    BY <1>2 DEF SwapTtlData, Goto, lockVars
  <2>3. Visible' = m_store'
    BY <1>0, <2>1, <2>2 DEF Visible
  <2>4. Visible = StoreWith(m_store, m_store.m_data, staged[t].m_ttlData)
    BY <1>0, <2>1, <2>2 DEF Visible
  <2>5. m_store' = StoreWith(m_store, m_store.m_data, staged[t].m_ttlData)
    BY <1>0, <2>2 DEF StoreWith, Store
  <2>6. m_store'.m_ttl = m_store.m_ttl
    BY <2>5 DEF StoreWith
  <2> QED
    BY <1>2, <2>2, <2>3, <2>4, <2>5, <2>6 DEF SwapData
<1>3. CASE Return(t)
  <2>1. /\ m_store' = m_store /\ exclusive' = IF exclusive = t THEN NoThread ELSE exclusive
        /\ pc[t] = "leaving" /\ pc' = [pc EXCEPT ![t] = "idle"]
        /\ staged' = [staged EXCEPT ![t] = NoStore]
    BY <1>3 DEF Return, Goto, dbVars
  <2> QED
    BY <1>0, <2>1 DEF Visible, SwapData
<1>4. CASE LockExclusive(t)
  <2>1. /\ m_store' = m_store /\ exclusive = NoThread /\ exclusive' = t
        /\ pc[t] = "calling" /\ pc' = [pc EXCEPT ![t] = "locked"]
    BY <1>4 DEF LockExclusive, Goto, dbVars
  <2> QED
    BY <1>0, <2>1 DEF Visible, SwapData
<1>5. ASSUME m_store' = m_store, exclusive' = exclusive, pc[t] # "swapped", pc[t] # "swapping",
             (t # exclusive /\ staged' = staged) \/ t = exclusive,
             pc' = pc \/ \E l \in Labels \ {"swapped"} : pc' = [pc EXCEPT ![t] = l]
      PROVE  Visible' = Visible
  <2>1. CASE exclusive = NoThread
    BY <1>5, <2>1 DEF Visible
  <2>2. CASE exclusive # NoThread /\ exclusive = t
    BY <1>0, <1>5, <2>2 DEF Visible
  <2>3. CASE exclusive # NoThread /\ exclusive # t
    <3>1. pc'[exclusive] = pc[exclusive] /\ staged' = staged
      BY <1>0, <1>5, <2>3
    <3> QED
      BY <1>5, <2>3, <3>1 DEF Visible
  <2> QED
    BY <2>1, <2>2, <2>3
<1>6. CASE (\E c \in Calls : Invoke(t, c)) \/ LockShared(t) \/ ReadDone(t)
             \/ \E k \in Keys : ReadKey(t, k)
  <2>1. /\ m_store' = m_store /\ exclusive' = exclusive /\ staged' = staged
        /\ pc[t] \in {"idle", "calling", "reading"}
        /\ pc' = pc \/ \E l \in {"calling", "reading", "leaving"} : pc' = [pc EXCEPT ![t] = l]
    BY <1>6 DEF Invoke, LockShared, ReadDone, ReadKey, Goto, dbVars, lockVars
  <2>2. {"calling", "reading", "leaving"} \subseteq Labels \ {"swapped"}
    BY DEF Labels
  <2> QED
    BY <1>5, <2>1, <2>2 DEF SwapData
<1>7. CASE Stage(t) \/ LockLog(t) \/ AppendOk(t) \/ AppendThrows(t) \/ CompactVolatile(t)
             \/ CompactStart(t) \/ CompactDone(t) \/ CompactThrows(t)
  <2>1. /\ m_store' = m_store /\ exclusive' = exclusive
        /\ pc[t] \in {"locked", "appending", "writing", "compacting"}
        /\ \E l \in {"appending", "swapping", "leaving", "writing", "compacting"} :
               pc' = [pc EXCEPT ![t] = l]
    BY <1>7 DEF Stage, LockLog, AppendOk, AppendThrows, CompactVolatile, CompactStart,
                CompactDone, CompactThrows, Goto, dbVars, lockVars
  <2>2. {"appending", "swapping", "leaving", "writing", "compacting"} \subseteq Labels \ {"swapped"}
    BY DEF Labels
  <2>3. t = exclusive
    BY <2>1, VisibleOutside DEF Inside
  <2> QED
    BY <1>5, <2>1, <2>2, <2>3 DEF SwapData
<1> QED
  BY <1>1, <1>2, <1>3, <1>4, <1>6, <1>7 DEF ThreadStep

\* A step of one thread leaves the others where they are.
LEMMA OthersKept ==
    ASSUME LocksInv, CallsInv, NEW t \in Threads,
           (\E c \in Calls : Invoke(t, c)) \/ ThreadStep(t),
           NEW u \in Threads, u # t
    PROVE  /\ pc'[u] = pc[u] /\ call'[u] = call[u] /\ event'[u] = event[u]
           /\ staged'[u] = staged[u] /\ visited'[u] = visited[u] /\ outcome'[u] = outcome[u]
<1>0. /\ pc \in [Threads -> Labels] /\ call \in [Threads -> Calls \cup {NoCall}]
      /\ staged \in [Threads -> Store]
      /\ DOMAIN outcome = Threads /\ DOMAIN event = Threads /\ DOMAIN visited = Threads
  BY DEF LocksInv, TypeOK, CallsInv
<1>1. CASE (\E c \in Calls : Invoke(t, c)) \/ LockShared(t) \/ LockExclusive(t) \/ Return(t)
  BY <1>0, <1>1 DEF Invoke, LockShared, LockExclusive, Return, Goto
<1>2. CASE ReadDone(t) \/ \E k \in Keys : ReadKey(t, k)
  BY <1>0, <1>2 DEF ReadDone, ReadKey, Goto, Decide
<1>3. CASE Stage(t)
  BY <1>0, <1>3 DEF Stage, Goto, Decide
<1>4. CASE LockLog(t) \/ AppendOk(t) \/ AppendThrows(t)
  BY <1>0, <1>4 DEF LockLog, AppendOk, AppendThrows, Goto, Decide
<1>5. CASE SwapData(t) \/ SwapTtlData(t)
  BY <1>0, <1>5 DEF SwapData, SwapTtlData, Goto, Decide
<1>6. CASE CompactVolatile(t) \/ CompactStart(t) \/ CompactDone(t) \/ CompactThrows(t)
  BY <1>0, <1>6 DEF CompactVolatile, CompactStart, CompactDone, CompactThrows, Goto, Decide
<1> QED
  BY <1>1, <1>2, <1>3, <1>4, <1>5, <1>6 DEF ThreadStep

\* The store changes under the exclusive lock only.
LEMMA StoreChanges ==
    ASSUME LocksInv, NEW t \in Threads,
           (\E c \in Calls : Invoke(t, c)) \/ ThreadStep(t), m_store' # m_store
    PROVE  t = exclusive /\ pc[t] \in {"swapping", "swapped"}
<1>1. SwapData(t) \/ SwapTtlData(t)
  BY DEF Invoke, ThreadStep, LockShared, LockExclusive, Return, ReadKey, ReadDone, Stage,
         LockLog, AppendOk, AppendThrows, CompactVolatile, CompactStart, CompactDone,
         CompactThrows, dbVars
<1>2. pc[t] \in {"swapping", "swapped"}
  BY <1>1 DEF SwapData, SwapTtlData
<1> QED
  BY <1>2 DEF LocksInv, TypeOK, Labels

LEMMA StagedStep ==
    ASSUME LocksInv, CallsInv, VisibleInv, StagedInv, NEW t \in Threads,
           (\E c \in Calls : Invoke(t, c)) \/ ThreadStep(t)
    PROVE  StagedInv'
<1>0. /\ pc \in [Threads -> Labels] /\ m_store \in Store /\ m_store.m_ttl \in Int
      /\ NoThread \notin Threads /\ staged \in [Threads -> Store] /\ DOMAIN event = Threads
      /\ \A u \in Threads : StagedOK(u) /\ CallOK(u)
      /\ call \in [Threads -> Calls \cup {NoCall}]
  BY ThreadsAssumption DEF LocksInv, TypeOK, StagedInv, Store, CallsInv
<1>1. ASSUME NEW u \in Threads, u # t PROVE StagedOK(u)'
  <2>1. /\ pc'[u] = pc[u] /\ call'[u] = call[u] /\ event'[u] = event[u]
        /\ staged'[u] = staged[u]
    BY <1>1, OthersKept
  <2>2. CASE pc[u] \in {"appending", "writing", "swapping", "swapped"}
    <3>1. u = exclusive
      BY <2>2 DEF LocksInv, TypeOK, Labels
    <3>2. m_store' = m_store
      BY <1>1, <3>1, StoreChanges
    <3> QED
      BY <1>0, <2>1, <3>2 DEF StagedOK
  <2>3. CASE pc[u] \notin {"appending", "writing", "swapping", "swapped"}
    BY <2>1, <2>3 DEF StagedOK
  <2> QED
    BY <2>2, <2>3
<1>2. StagedOK(t)'
  <2>1. CASE \/ \E c \in Calls : Invoke(t, c)
             \/ LockShared(t) \/ LockExclusive(t) \/ Return(t) \/ ReadDone(t)
             \/ \E k \in Keys : ReadKey(t, k)
    <3>1. pc'[t] \in {"calling", "reading", "locked", "idle", "leaving"}
      BY <1>0, <2>1 DEF Invoke, LockShared, LockExclusive, Return, ReadDone, ReadKey, Goto
    <3> QED
      BY <3>1 DEF StagedOK
  <2>2. CASE CompactVolatile(t) \/ CompactStart(t) \/ CompactDone(t) \/ CompactThrows(t)
               \/ AppendThrows(t) \/ SwapTtlData(t)
    <3>1. pc'[t] \in {"compacting", "leaving"}
      BY <1>0, <2>2 DEF CompactVolatile, CompactStart, CompactDone, CompactThrows,
                        AppendThrows, SwapTtlData, Goto
    <3> QED
      BY <3>1 DEF StagedOK
  <2>3. CASE LockLog(t) \/ AppendOk(t)
    <3>1. /\ pc[t] \in {"appending", "writing"} /\ pc'[t] \in {"writing", "swapping"}
          /\ m_store' = m_store /\ event' = event /\ staged' = staged /\ call' = call
      BY <1>0, <2>3 DEF LockLog, AppendOk, Goto, dbVars
    <3> QED
      BY <1>0, <3>1 DEF StagedOK
  <2>4. CASE SwapData(t)
    <3>1. /\ pc[t] = "swapping" /\ pc'[t] = "swapped" /\ event' = event /\ call' = call
      BY <1>0, <2>4 DEF SwapData, Goto
    <3>2. m_store'.m_ttl = m_store.m_ttl
      BY <2>4, VisibleStep DEF ThreadStep
    <3> QED
      BY <1>0, <3>1, <3>2 DEF StagedOK
  <2>5. CASE Stage(t)
    <3>1. /\ call[t] \in Calls /\ call[t].op = "write" /\ call' = call /\ m_store' = m_store
      BY <1>0, <2>5 DEF Stage, CallOK, dbVars
    <3>2. PICK d \in IF m_store.m_ttl # NoExpiry THEN Deadlines ELSE {NoExpiry} :
            LET e == Stamped(call[t].event, d)
            IN  /\ event' = [event EXCEPT ![t] = e]
                /\ \/ /\ Applies(m_store, e, 0)
                      /\ staged' = [staged EXCEPT ![t] = ApplyEvent(m_store, e, 0)]
                   \/ pc'[t] = "leaving"
      BY <1>0, <2>5 DEF Stage, Goto, HasTimeToLive
    <3>3. /\ d \in Deadlines \cup {NoExpiry}
          /\ EventOK(Stamped(call[t].event, d), m_store.m_ttl)
      BY <1>0, <3>1, StagedEvent
    <3>4. event'[t] = Stamped(call[t].event, d)
      BY <1>0, <3>2
    <3>5. pc'[t] # "leaving" => /\ Applies(m_store, event'[t], 0)
                                /\ staged'[t] = ApplyEvent(m_store, event'[t], 0)
      BY <1>0, <3>2, <3>4
    <3> QED
      BY <3>1, <3>3, <3>4, <3>5 DEF StagedOK
  <2> QED
    BY <2>1, <2>2, <2>3, <2>4, <2>5 DEF ThreadStep
<1> QED
  BY <1>1, <1>2 DEF StagedInv

\* What SwapData makes visible is the store with the writer's event applied.
LEMMA SwapDataApplies ==
    ASSUME LocksInv, CallsInv, VisibleInv, StagedInv, NEW t \in Threads, SwapData(t)
    PROVE  /\ t = exclusive
           /\ EventOK(event[t], Visible.m_ttl)
           /\ Applies(Visible, event[t], 0)
           /\ Visible' = ApplyEvent(Visible, event[t], 0)
           /\ StoreOK(ApplyEvent(Visible, event[t], 0))
<1>1. pc[t] = "swapping" /\ StagedOK(t)
  BY DEF SwapData, StagedInv
<1>2. Visible = m_store /\ t = exclusive
  BY <1>1, VisibleOutside DEF Inside
<1>3. /\ EventOK(event[t], Visible.m_ttl) /\ Applies(Visible, event[t], 0)
      /\ staged[t] = ApplyEvent(Visible, event[t], 0)
  BY <1>1, <1>2 DEF StagedOK
<1>4. StoreOK(staged[t]) /\ staged[t].m_ttl = m_store.m_ttl
  BY <1>2, <1>3, ApplyStoreOK DEF VisibleInv
<1>5. Visible' = StoreWith(m_store, staged[t].m_data, staged[t].m_ttlData)
  BY VisibleStep DEF ThreadStep
<1>6. Visible' = staged[t]
  BY <1>4, <1>5 DEF StoreOK, Store, StoreWith
<1> QED
  BY <1>2, <1>3, <1>4, <1>6

LEMMA VisibleInvStep ==
    ASSUME LocksInv, CallsInv, VisibleInv, StagedInv, NEW t \in Threads,
           (\E c \in Calls : Invoke(t, c)) \/ ThreadStep(t)
    PROVE  VisibleInv'
<1>1. m_store'.m_ttl = m_store.m_ttl
  BY VisibleStep
<1>2. CASE SwapData(t)
  <2>1. /\ Visible' = ApplyEvent(Visible, event[t], 0)
        /\ EventOK(event[t], Visible.m_ttl)
    BY <1>2, SwapDataApplies
  <2>2. StoreOK(Visible') /\ Visible'.m_ttl = Visible.m_ttl
    BY <2>1, ApplyStoreOK DEF VisibleInv
  <2> QED
    BY <1>1, <2>2 DEF VisibleInv, StoreOK, Aligned, Store
<1>3. CASE ~SwapData(t)
  <2>1. Visible' = Visible
    BY <1>3, VisibleStep
  <2> QED
    BY <1>1, <2>1 DEF VisibleInv, StoreOK, Aligned, Store
<1> QED
  BY <1>2, <1>3

-----------------------------------------------------------------------------
(* The reads. *)

LEMMA VisitedStep ==
    ASSUME LocksInv, CallsInv, VisitedInv, NEW t \in Threads,
           (\E c \in Calls : Invoke(t, c)) \/ ThreadStep(t)
    PROVE  VisitedInv'
<1>0. /\ pc \in [Threads -> Labels] /\ DOMAIN visited = Threads /\ NoThread \notin Threads
      /\ \A u \in Threads : VisitedOK(u)
  BY ThreadsAssumption DEF LocksInv, TypeOK, VisitedInv, CallsInv
<1>1. ASSUME NEW u \in Threads, u # t PROVE VisitedOK(u)'
  <2>1. pc'[u] = pc[u] /\ call'[u] = call[u] /\ visited'[u] = visited[u]
    BY <1>1, OthersKept
  <2>2. CASE pc[u] = "reading"
    <3>1. exclusive = NoThread
      BY <1>0, <2>2 DEF LocksInv, TypeOK
    <3>2. m_store' = m_store
      BY <1>0, <3>1, StoreChanges
    <3> QED
      BY <1>0, <2>1, <3>2 DEF VisitedOK
  <2>3. CASE pc[u] # "reading"
    BY <1>0, <2>1, <2>3 DEF VisitedOK
  <2> QED
    BY <2>2, <2>3
<1>2. VisitedOK(t)'
  <2>1. CASE \E c \in Calls : Invoke(t, c)
    BY <1>0, <2>1 DEF Invoke, Goto, VisitedOK
  <2>2. CASE LockShared(t)
    <3>1. visited'[t] = NoEntries /\ pc'[t] = "reading"
      BY <1>0, <2>2 DEF LockShared, Goto, VisitedOK
    <3>2. /\ DOMAIN NoEntries = {}
          /\ NoEntries = [k \in {} |-> Entry(m_store'.m_data, m_store'.m_ttlData, k)]
      BY DEF NoEntries
    <3> QED
      BY <3>1, <3>2 DEF VisitedOK
  <2>3. CASE Return(t)
    BY <1>0, <2>3 DEF Return, Goto, VisitedOK
  <2>4. ASSUME NEW k \in Keys, ReadKey(t, k) PROVE VisitedOK(t)'
    <3> DEFINE D == DOMAIN visited[t]
               s == m_store
               E(x) == Entry(s.m_data, s.m_ttlData, x)
    <3>1. /\ pc[t] = "reading" /\ pc' = pc /\ m_store' = m_store /\ call' = call
          /\ k \in call[t].keys
          /\ visited'[t] = [x \in D \cup {k} |-> IF x = k THEN E(k) ELSE visited[t][x]]
      BY <1>0, <2>4 DEF ReadKey, dbVars
    <3>2. D \subseteq call[t].keys /\ visited[t] = [x \in D |-> E(x)]
      BY <1>0, <3>1 DEF VisitedOK
    <3>3. \A x \in D : visited[t][x] = E(x)
      BY <3>2
    <3> HIDE DEF E, D, s
    <3>4. visited'[t] = [x \in D \cup {k} |-> E(x)]
      BY <3>1, <3>3
    <3>5. DOMAIN visited'[t] = D \cup {k}
      BY <3>4
    <3> QED
      BY <3>1, <3>2, <3>4, <3>5 DEF VisitedOK, E, s
  <2>5. CASE ~ \/ \E c \in Calls : Invoke(t, c)
               \/ LockShared(t) \/ Return(t) \/ \E k \in Keys : ReadKey(t, k)
    <3>1. pc'[t] \notin {"idle", "calling", "reading"}
      BY <1>0, <2>5
      DEF ThreadStep, LockExclusive, ReadDone, Stage, LockLog, AppendOk, AppendThrows, SwapData,
          SwapTtlData, CompactVolatile, CompactStart, CompactDone, CompactThrows, Goto
    <3> QED
      BY <3>1 DEF VisitedOK
  <2> QED
    BY <2>1, <2>2, <2>3, <2>4, <2>5
<1> QED
  BY <1>1, <1>2 DEF VisitedInv

-----------------------------------------------------------------------------
(* The constructor, and the invariant as a whole. *)

\* A log such a database can have written or found.
RecordsOK(recs, ttl) ==
    /\ recs \in Seq(Record)
    /\ \A i \in 1..Len(recs) :
           Whole(recs[i]) /\ EventOK(Deserialize(recs[i].fields), ttl)

LEMMA ReplayOK ==
    ASSUME NEW ttl \in Int, NEW recs, RecordsOK(recs, ttl)
    PROVE  \E h : /\ ReplayTrace(h, recs, Len(recs), ttl, 0)
                  /\ ReplayedStore(recs, ttl, 0) = h[Len(recs)]
                  /\ \A i \in 0..Len(recs) : StoreOK(h[i]) /\ h[i].m_ttl = ttl
<1> DEFINE n == Len(recs)
           S == {s \in Store : StoreOK(s) /\ s.m_ttl = ttl}
<1>0. recs \in Seq(Record) /\ n \in Nat
  BY LenProperties DEF RecordsOK
<1>1. EmptyStore(ttl) \in S
  <2>1. EmptyStore(ttl) \in Store /\ Aligned(EmptyStore(ttl)) /\ EmptyStore(ttl).m_ttl = ttl
    BY EmptyStoreType, EmptyAligned DEF EmptyStore
  <2>2. \A k \in Keys : EmptyStore(ttl).m_ttlData[k] \in Deadlines \cup {Absent}
    BY DEF EmptyStore
  <2> QED
    BY <2>1, <2>2 DEF StoreOK
<1>2. ASSUME NEW i \in 1..n, NEW s \in S
      PROVE  ApplyEvent(s, Deserialize(recs[i].fields), 0) \in S
  <2>1. EventOK(Deserialize(recs[i].fields), s.m_ttl)
    BY DEF RecordsOK
  <2> QED
    BY <2>1, ApplyStoreOK DEF StoreOK
<1>3. S \subseteq Store
  OBVIOUS
<1>4. \A s \in S : StoreOK(s) /\ s.m_ttl = ttl
  OBVIOUS
<1> HIDE DEF S, n
<1>5. PICK h \in [0..n -> S] : ReplayTrace(h, recs, n, ttl, 0)
  BY <1>0, <1>1, <1>2, <1>3, ReplayTraceExists
<1>6. WholePrefix(recs) = n
  BY <1>0, WholePrefixOfWhole DEF RecordsOK, n
<1>7. ReplayedStore(recs, ttl, 0) = h[n]
  BY <1>0, <1>5, <1>6, ReplayedStoreTrace
<1>8. \A i \in 0..n : StoreOK(h[i]) /\ h[i].m_ttl = ttl
  BY <1>4, <1>5
<1> QED
  BY <1>5, <1>7, <1>8 DEF n

LEMMA LogOfFacts ==
    ASSUME NEW events \in FirstEvents, NEW ttl, Reopens(events, ttl)
    PROVE  /\ RecordsOK(LogOf(events), ttl)
           /\ Len(LogOf(events)) = Len(events)
           /\ \A i \in 1..Len(events) : Deserialize(LogOf(events)[i].fields) = events[i]
<1>0. /\ Len(events) \in Nat
      /\ \A i \in 1..Len(events) :
            /\ WellFormed(events[i])
            /\ events[i].type = CREATE => events[i].timestamp \in Deadlines \cup {NoExpiry}
  BY ThreadsAssumption, LenProperties
<1>1. \A i \in 1..Len(events) : /\ WriteRecord(events[i]) \in Record
                                /\ Whole(WriteRecord(events[i]))
                                /\ Deserialize(WriteRecord(events[i]).fields) = events[i]
  BY <1>0, WriteRecordOK DEF RecordOK
<1>2. /\ LogOf(events) \in Seq(Record) /\ Len(LogOf(events)) = Len(events)
      /\ \A i \in 1..Len(events) : LogOf(events)[i] = WriteRecord(events[i])
  BY <1>0, <1>1 DEF LogOf
<1>3. \A i \in 1..Len(events) : EventOK(events[i], ttl)
  BY <1>0 DEF EventOK, Reopens
<1> QED
  BY <1>1, <1>2, <1>3 DEF RecordsOK

LEMMA InitialLog ==
    ASSUME Init
    PROVE  \E ttl \in Int : /\ RecordsOK(records, ttl)
                            /\ m_store = ReplayedStore(records, ttl, 0)
<1>1. PICK ttl \in TtlChoices :
          /\ records \in IF m_persistence
                         THEN {LogOf(events) : events \in {e \in FirstEvents : Reopens(e, ttl)}}
                         ELSE {<<>>}
          /\ m_store = ReplayedStore(records, ttl, 0)
  BY DEF Init
<1>2. ttl \in Int
  BY ThreadsAssumption DEF NoExpiry
<1>3. RecordsOK(records, ttl)
  <2>1. CASE m_persistence
    BY <1>1, <2>1, LogOfFacts
  <2>2. CASE ~m_persistence
    <3>1. records = <<>>
      BY <1>1, <2>2
    <3> QED
      BY <3>1 DEF RecordsOK
  <2> QED
    BY <2>1, <2>2
<1> QED
  BY <1>1, <1>2, <1>3

LEMMA ThreadsInit == Init => ThreadsInv
<1> SUFFICES ASSUME Init PROVE ThreadsInv
  OBVIOUS
<1>1. StoreOK(m_store) /\ m_store \in Store
  <2>1. PICK ttl \in Int : /\ RecordsOK(records, ttl)
                           /\ m_store = ReplayedStore(records, ttl, 0)
    BY InitialLog
  <2>2. PICK h : /\ ReplayedStore(records, ttl, 0) = h[Len(records)]
                 /\ \A i \in 0..Len(records) : StoreOK(h[i])
    BY <2>1, ReplayOK
  <2>3. Len(records) \in 0..Len(records)
    BY <2>1, LenProperties DEF RecordsOK
  <2> QED
    BY <2>1, <2>2, <2>3 DEF StoreOK
<1>2. LocksInv
  <2>1. NoStore \in Store
    BY EmptyStoreType DEF NoStore, NoExpiry
  <2> QED
    BY <1>1, <2>1 DEF Init, LocksInv, TypeOK, Labels
<1>3. CallsInv
  BY ThreadsAssumption DEF Init, CallsInv, CallOK
<1>4. VisibleInv
  BY <1>1, VisibleWithoutWriter DEF Init, VisibleInv
<1>5. StagedInv /\ VisitedInv
  BY DEF Init, StagedInv, StagedOK, VisitedInv, VisitedOK
<1> QED
  BY <1>2, <1>3, <1>4, <1>5 DEF ThreadsInv

LEMMA ThreadsStep == ThreadsInv /\ [Next]_vars => ThreadsInv'
<1> SUFFICES ASSUME ThreadsInv, [Next]_vars PROVE ThreadsInv'
  OBVIOUS
<1>1. CASE Next
  <2>1. PICK t \in Threads : (\E c \in Calls : Invoke(t, c)) \/ ThreadStep(t)
    BY <1>1 DEF Next
  <2>2. LocksInv' /\ CallsInv' /\ VisibleInv' /\ StagedInv' /\ VisitedInv'
    BY <2>1, LocksStep, CallsStep, VisibleInvStep, StagedStep, VisitedStep DEF ThreadsInv
  <2> QED
    BY <2>2 DEF ThreadsInv
<1>2. CASE UNCHANGED vars
  <2>1. LocksInv' /\ CallsInv'
    BY <1>2 DEF ThreadsInv, LocksInv, TypeOK, CallsInv, CallOK, vars, dbVars, lockVars, localVars
  <2>2. VisibleInv'
    BY <1>2 DEF ThreadsInv, VisibleInv, Visible, StoreOK, Aligned, Store, vars, dbVars, lockVars,
                localVars
  <2>3. StagedInv' /\ VisitedInv'
    BY <1>2 DEF ThreadsInv, StagedInv, StagedOK, VisitedInv, VisitedOK, vars, dbVars, lockVars,
                localVars
  <2> QED
    BY <2>1, <2>2, <2>3 DEF ThreadsInv
<1> QED
  BY <1>1, <1>2

\* A reader holds m_mutex shared, a writer exclusively with nobody beside it,
\* and PersistenceLog's mutex is held by nobody but that writer, for any
\* number of threads and calls, failed appends and compactions included.
THEOREM LocksExclude == Spec => []TypeOK
<1>1. ThreadsInv => TypeOK
  BY DEF ThreadsInv, LocksInv
<1> QED
  BY <1>1, ThreadsInit, ThreadsStep, PTL DEF Spec

-----------------------------------------------------------------------------
(* Linearizability. *)

Entries(s) == [k \in Keys |-> Entry(s.m_data, s.m_ttlData, k)]

Nothing == <<Absent, Absent>>

NoSelfRenameCalls ==
    \A c \in Calls : c.op = "write" /\ c.event.type = RENAME => c.event.key # c.event.renameKey

LEMMA ContentsVisible == Contents = Entries(Visible)
<1>1. CASE exclusive # NoThread /\ pc[exclusive] = "swapped"
  BY <1>1 DEF Contents, Entries, Visible, StoreWith
<1>2. CASE ~(exclusive # NoThread /\ pc[exclusive] = "swapped")
  BY <1>2 DEF Contents, Entries, Visible
<1> QED
  BY <1>1, <1>2

\* A key has an entry exactly when it has a value.
LEMMA EntryFacts ==
    ASSUME NEW s, StoreOK(s), NEW k \in Keys
    PROVE  /\ Entries(s)[k] = <<s.m_data[k], s.m_ttlData[k]>>
           /\ Entries(s)[k] = Nothing <=> s.m_data[k] = Absent
           /\ Entries(s)[k] \in (Values \X (Deadlines \cup {Absent})) \cup {Nothing}
<1>1. /\ s.m_data[k] \in Values \cup {Absent}
      /\ s.m_ttlData[k] \in Deadlines \cup {Absent}
      /\ s.m_data[k] = Absent => s.m_ttlData[k] = Absent
  BY DEF StoreOK, Store, DataMap, Aligned
<1>2. Entries(s)[k] = <<s.m_data[k], s.m_ttlData[k]>>
  BY DEF Entries, Entry
<1> QED
  BY <1>1, <1>2 DEF Nothing

\* ApplyEvent returns false: there was nothing to rename, delete or clear.
LEMMA VacuousEvent ==
    ASSUME NEW s, StoreOK(s), NEW e, WellFormed(e), ~Applies(s, e, 0)
    PROVE  \/ e.key \in Keys /\ e.payload = Absent /\ Entries(s)[e.key] = Nothing
           \/ e.key = Absent /\ \A k \in Keys : Entries(s)[k] = Nothing
<1>0. /\ e.type \in EventType
      /\ e.type # CLEAR => e.key \in Keys
      /\ e.type = CLEAR => e.key = Absent
      /\ e.type # CREATE => e.payload = Absent
  BY DEF WellFormed, Event, EventType, CREATE, RENAME, DELETE, CLEAR
<1>1. CASE e.type = CREATE
  BY <1>1 DEF Applies, CREATE, RENAME, DELETE, CLEAR
<1>2. CASE e.type = RENAME
  <2>1. ~CanRename(s, e.key, 0) /\ e.key \in Keys /\ e.payload = Absent
    BY <1>0, <1>2 DEF Applies, CREATE, RENAME, DELETE, CLEAR
  <2>2. s.m_data[e.key] = Absent
    BY <2>1, NothingExpired DEF CanRename
  <2> QED
    BY <2>1, <2>2, EntryFacts
<1>3. CASE e.type = DELETE
  <2>1. s.m_data[e.key] = Absent /\ e.key \in Keys /\ e.payload = Absent
    BY <1>0, <1>3 DEF Applies, CREATE, RENAME, DELETE, CLEAR
  <2> QED
    BY <2>1, EntryFacts
<1>4. CASE e.type = CLEAR
  <2>1. e.key = Absent /\ \A k \in Keys : s.m_data[k] = Absent
    BY <1>0, <1>4 DEF Applies, StoreIsEmpty, CREATE, RENAME, DELETE, CLEAR
  <2> QED
    BY <2>1, EntryFacts
<1> QED
  BY <1>0, <1>1, <1>2, <1>3, <1>4 DEF EventType

\* ApplyEvent returns true: what it does to the entries.
LEMMA EventEntries ==
    ASSUME NEW s, StoreOK(s), NEW e, EventOK(e, s.m_ttl), Applies(s, e, 0),
           e.type = RENAME => e.key # e.renameKey,
           NEW a, a = ApplyEvent(s, e, 0)
    PROVE  \/ /\ e.payload # Absent
              /\ \E d \in Deadlines \cup {Absent} :
                     Entries(a) = [Entries(s) EXCEPT ![e.key] = <<e.payload, d>>]
           \/ /\ e.renameKey # Absent
              /\ Entries(s)[e.key] # Nothing
              /\ Entries(a) = [Entries(s) EXCEPT ![e.key] = Nothing,
                                                 ![e.renameKey] = Entries(s)[e.key]]
           \/ /\ e.key # Absent /\ e.payload = Absent /\ e.renameKey = Absent
              /\ Entries(s)[e.key] # Nothing
              /\ Entries(a) = [Entries(s) EXCEPT ![e.key] = Nothing]
           \/ /\ e.key = Absent
              /\ \E k \in Keys : Entries(s)[k] # Nothing
              /\ Entries(a) = [k \in Keys |-> Nothing]
<1>0. /\ WellFormed(e) /\ e.type \in EventType
      /\ e.type # CLEAR => e.key \in Keys /\ e.key # Absent
      /\ e.type = CLEAR => e.key = Absent
      /\ e.type = RENAME => e.renameKey \in Keys /\ e.renameKey # Absent
      /\ e.type # RENAME => e.renameKey = Absent
      /\ e.type = CREATE => e.payload \in Values /\ e.payload # Absent
      /\ e.type # CREATE => e.payload = Absent
  BY DEF EventOK, WellFormed, Event, EventType, CREATE, RENAME, DELETE, CLEAR
<1>1. /\ s.m_data \in [Keys -> Values \cup {Absent}]
      /\ s.m_ttlData \in [Keys -> Deadlines \cup {Absent}]
  BY DEF StoreOK, Store, DataMap, TTLMap
<1>2. \A x, k : k \in Keys => Entries(x)[k] = <<x.m_data[k], x.m_ttlData[k]>>
  BY DEF Entries, Entry
<1>3. \A k \in Keys : Entries(s)[k] = Nothing <=> s.m_data[k] = Absent
  BY EntryFacts
<1>4. CASE e.type = CREATE
  <2>1. a = StoreCreate(s, e.key, e.payload, e.timestamp)
    BY <1>4 DEF ApplyEvent, CREATE, RENAME, DELETE, CLEAR
  <2>2. e.key \in Keys /\ e.payload # Absent
    BY <1>0, <1>4 DEF CREATE, CLEAR
  <2> DEFINE d == IF HasTimeToLive(s) THEN e.timestamp ELSE s.m_ttlData[e.key]
  <2>3. d \in Deadlines \cup {Absent}
    BY <1>1, <1>4, <2>2 DEF EventOK, HasTimeToLive
  <2>4. /\ a.m_data = [s.m_data EXCEPT ![e.key] = e.payload]
        /\ a.m_ttlData = [s.m_ttlData EXCEPT ![e.key] = d]
    BY <1>1, <2>1, <2>2 DEF StoreCreate, StoreWith
  <2> HIDE DEF d
  <2>5. Entries(a) = [Entries(s) EXCEPT ![e.key] = <<e.payload, d>>]
    BY <1>1, <2>2, <2>4 DEF Entries, Entry
  <2> QED
    BY <2>2, <2>3, <2>5
<1>5. CASE e.type = RENAME
  <2>1. a = StoreRename(s, e.key, e.renameKey, 0)
    BY <1>5 DEF ApplyEvent, CREATE, RENAME, DELETE, CLEAR
  <2>2. e.key \in Keys /\ e.renameKey \in Keys /\ e.key # e.renameKey /\ e.renameKey # Absent
    BY <1>0, <1>5 DEF RENAME, CLEAR
  <2>3. CanRename(s, e.key, 0)
    BY <1>5 DEF Applies, CREATE, RENAME, DELETE, CLEAR
  <2>4. s.m_data[e.key] # Absent
    BY <2>3 DEF CanRename
  <2>5. a.m_data = MoveEntry(s.m_data, e.key, e.renameKey)
    BY <2>1, <2>3 DEF StoreRename, StoreWith
  <2>6. a.m_ttlData = IF s.m_ttlData[e.key] # Absent
                      THEN MoveEntry(s.m_ttlData, e.key, e.renameKey)
                      ELSE [s.m_ttlData EXCEPT ![e.renameKey] = Absent]
    BY <2>1, <2>3 DEF StoreRename, StoreWith
  <2>7. \A k \in Keys : a.m_data[k] = IF k = e.key THEN Absent
                                      ELSE IF k = e.renameKey THEN s.m_data[e.key] ELSE s.m_data[k]
    BY <1>1, <2>2, <2>5 DEF MoveEntry
  <2>8. \A k \in Keys : a.m_ttlData[k] = IF k = e.key THEN Absent
                                         ELSE IF k = e.renameKey THEN s.m_ttlData[e.key]
                                              ELSE s.m_ttlData[k]
    BY <1>1, <2>2, <2>6 DEF MoveEntry
  <2>9. \A k \in Keys : Entries(a)[k] = IF k = e.key THEN Nothing
                                        ELSE IF k = e.renameKey THEN Entries(s)[e.key]
                                             ELSE Entries(s)[k]
    BY <1>2, <2>2, <2>7, <2>8 DEF Nothing
  <2>10. Entries(a) = [Entries(s) EXCEPT ![e.key] = Nothing,
                                         ![e.renameKey] = Entries(s)[e.key]]
    <3>1. /\ DOMAIN Entries(a) = Keys /\ DOMAIN Entries(s) = Keys
          /\ Entries(a) = [k \in Keys |-> Entries(a)[k]]
      BY DEF Entries
    <3> QED
      BY <2>2, <2>9, <3>1
  <2>11. Entries(s)[e.key] # Nothing
    BY <1>3, <2>2, <2>4
  <2> QED
    BY <2>2, <2>10, <2>11
<1>6. CASE e.type = DELETE
  <2>1. a = StoreDelete(s, e.key)
    BY <1>6 DEF ApplyEvent, CREATE, RENAME, DELETE, CLEAR
  <2>2. e.key \in Keys /\ e.key # Absent /\ e.payload = Absent /\ e.renameKey = Absent
    BY <1>0, <1>6 DEF CREATE, RENAME, DELETE, CLEAR
  <2>3. s.m_data[e.key] # Absent
    BY <1>6 DEF Applies, CREATE, RENAME, DELETE, CLEAR
  <2>4. /\ a.m_data = [s.m_data EXCEPT ![e.key] = Absent]
        /\ a.m_ttlData = [s.m_ttlData EXCEPT ![e.key] = Absent]
    BY <2>1 DEF StoreDelete, StoreWith
  <2>5. Entries(a) = [Entries(s) EXCEPT ![e.key] = Nothing]
    BY <1>1, <2>2, <2>4 DEF Entries, Entry, Nothing
  <2> QED
    BY <1>3, <2>2, <2>3, <2>5
<1>7. CASE e.type = CLEAR
  <2>1. ~StoreIsEmpty(s) /\ a = EmptyStore(s.m_ttl) /\ e.key = Absent
    BY <1>0, <1>7 DEF ApplyEvent, Applies, StoreClear, CREATE, RENAME, DELETE, CLEAR
  <2>2. \E k \in Keys : Entries(s)[k] # Nothing
    BY <1>3, <2>1 DEF StoreIsEmpty
  <2>3. Entries(a) = [k \in Keys |-> Nothing]
    BY <2>1 DEF EmptyStore, Entries, Entry, Nothing
  <2> QED
    BY <2>1, <2>2, <2>3
<1> QED
  BY <1>0, <1>4, <1>5, <1>6, <1>7 DEF EventType

LEMMA ProgressKept ==
    ASSUME call' = call, outcome' = outcome
    PROVE  Progress' = Progress
BY DEF Progress

\* The outcome of one call becomes known.
LEMMA ProgressDecided ==
    ASSUME CallsInv, NEW t \in Threads, NEW kind, NEW entries,
           call' = call, Decide(t, kind, entries)
    PROVE  Linear!Decide(t, kind, entries)
BY DEF CallsInv, Progress, Decide, Outcome, Linear!Decide, Linear!Outcome

LEMMA ProgressFacts ==
    ASSUME NEW t \in Threads
    PROVE  /\ Progress[t].call = call[t] /\ Progress[t].outcome = outcome[t]
           /\ Pending = Linear!Pending
BY DEF Progress, Pending, Outcome, Linear!Pending, Linear!Outcome

LEMMA LinearStep ==
    ASSUME NoSelfRenameCalls, ThreadsInv, NEW t \in Threads,
           (\E c \in Calls : Invoke(t, c)) \/ ThreadStep(t)
    PROVE  [Linear!Next]_<<Contents, Progress>>
<1>0. /\ LocksInv /\ CallsInv /\ VisibleInv /\ StagedInv /\ VisitedInv
      /\ CallOK(t) /\ StagedOK(t) /\ VisitedOK(t)
      /\ call \in [Threads -> Calls \cup {NoCall}]
      /\ StoreOK(Visible)
  BY DEF ThreadsInv, CallsInv, StagedInv, VisitedInv, VisibleInv
<1>1. /\ Progress[t].call = call[t] /\ Progress[t].outcome = outcome[t]
      /\ Pending = Linear!Pending
  BY ProgressFacts
<1>2. ASSUME ~SwapData(t) PROVE Contents' = Contents
  <2>1. Visible' = Visible
    BY <1>0, <1>2, VisibleStep
  <2>2. (Contents = Entries(Visible))'
    BY ContentsVisible, PTL
  <2> QED
    BY <2>1, <2>2, ContentsVisible DEF Entries
<1>3. CASE \E c \in Calls : Invoke(t, c)
  <2>1. PICK c \in Calls : Invoke(t, c)
    BY <1>3
  <2>2. Contents' = Contents
    BY <1>2, <2>1 DEF Invoke, SwapData
  <2>3. /\ pc[t] = "idle" /\ call' = [call EXCEPT ![t] = c] /\ outcome' = outcome
    BY <2>1 DEF Invoke
  <2>4. Progress' = [Progress EXCEPT ![t].call = c]
    BY <1>0, <2>3 DEF Progress
  <2>5. Linear!Invoke(t, c)
    BY <1>0, <1>1, <2>2, <2>3, <2>4 DEF Linear!Invoke, CallOK
  <2> QED
    BY <2>5 DEF Linear!Next
<1>4. CASE LockShared(t) \/ LockExclusive(t) \/ LockLog(t) \/ AppendOk(t) \/ SwapTtlData(t)
             \/ CompactStart(t) \/ \E k \in Keys : ReadKey(t, k)
  <2>1. call' = call /\ outcome' = outcome /\ pc[t] # "swapping"
    BY <1>4 DEF LockShared, LockExclusive, LockLog, AppendOk, SwapTtlData, CompactStart, ReadKey
  <2>2. Contents' = Contents
    BY <1>2, <2>1 DEF SwapData
  <2> QED
    BY <2>1, <2>2, ProgressKept
<1>5. CASE Return(t)
  <2>1. /\ pc[t] = "leaving" /\ call' = [call EXCEPT ![t] = NoCall]
        /\ outcome' = [outcome EXCEPT ![t] = Pending]
    BY <1>5 DEF Return
  <2>2. Contents' = Contents
    BY <1>2, <2>1 DEF SwapData
  <2>3. Progress' = [Progress EXCEPT ![t] = [call |-> NoCall, outcome |-> Pending]]
    BY <1>0, <2>1 DEF Progress, CallsInv
  <2>4. outcome[t] # Pending
    BY <1>0, <2>1 DEF CallOK
  <2>5. Linear!Return(t)
    BY <1>1, <2>2, <2>3, <2>4 DEF Linear!Return
  <2> QED
    BY <2>5 DEF Linear!Next
<1>e. ASSUME Linear!TakeEffect(t) PROVE Linear!Next
  BY <1>e DEF Linear!Next
<1>p. ASSUME pc[t] \in {"reading", "locked", "writing", "swapping", "compacting"}
      PROVE  call[t] # NoCall /\ call[t] \in Calls /\ outcome[t] = Pending
  BY <1>0, <1>p DEF CallOK
<1>6. CASE ReadDone(t)
  <2>1. /\ pc[t] = "reading" /\ DOMAIN visited[t] = call[t].keys /\ call' = call
        /\ Decide(t, "read", visited[t])
    BY <1>6 DEF ReadDone
  <2>2. Contents' = Contents
    BY <1>2, <2>1 DEF SwapData
  <2>3. call[t] # NoCall /\ call[t] \in Calls /\ outcome[t] = Pending /\ call[t].op = "read"
    BY <1>0, <1>p, <2>1 DEF CallOK
  <2>4. call[t].keys \subseteq Keys
    BY <2>3, ThreadsAssumption
  <2>5. Visible = m_store
    BY <1>0, <2>1, ThreadsAssumption, VisibleWithoutWriter DEF LocksInv, TypeOK
  <2>6. visited[t] = [k \in call[t].keys |-> Entry(m_store.m_data, m_store.m_ttlData, k)]
    BY <1>0, <2>1 DEF VisitedOK
  <2>7. \A k \in Keys : Contents[k] = Entry(m_store.m_data, m_store.m_ttlData, k)
    BY <2>5, ContentsVisible DEF Entries
  <2>8. visited[t] = [k \in call[t].keys |-> Contents[k]]
    BY <2>4, <2>6, <2>7
  <2>9. Linear!Decide(t, "read", visited[t])
    BY <1>0, <2>1, ProgressDecided
  <2>10. Linear!Read(t, call[t])
    BY <2>2, <2>8, <2>9 DEF Linear!Read
  <2> QED
    BY <1>1, <1>e, <2>3, <2>10 DEF Linear!TakeEffect
<1>7. CASE AppendThrows(t) \/ CompactThrows(t)
  <2>1. /\ pc[t] \in {"writing", "compacting"} /\ call' = call
        /\ Decide(t, "exception", Absent)
    BY <1>7 DEF AppendThrows, CompactThrows
  <2>2. Contents' = Contents
    BY <1>2, <2>1 DEF SwapData
  <2>3. call[t] # NoCall /\ outcome[t] = Pending /\ call[t].op \in {"write", "compact"}
    BY <1>0, <1>p, <2>1 DEF CallOK
  <2>4. Linear!Throw(t)
    BY <1>0, <2>1, <2>2, ProgressDecided DEF Linear!Throw
  <2> QED
    BY <1>1, <1>e, <2>3, <2>4 DEF Linear!TakeEffect
<1>8. CASE CompactVolatile(t) \/ CompactDone(t)
  <2>1. /\ pc[t] \in {"locked", "compacting"} /\ call' = call
        /\ Decide(t, "true", Absent)
    BY <1>8 DEF CompactVolatile, CompactDone
  <2>2. Contents' = Contents
    BY <1>2, <2>1 DEF SwapData
  <2>3. call[t] # NoCall /\ outcome[t] = Pending /\ call[t].op = "compact"
    BY <1>0, <1>p, <1>8 DEF CallOK, CompactVolatile, CompactDone
  <2>4. Linear!Decide(t, "true", Absent)
    BY <1>0, <2>1, ProgressDecided
  <2> QED
    BY <1>1, <1>e, <2>2, <2>3, <2>4 DEF Linear!TakeEffect
<1>9. CASE Stage(t)
  <2>1. /\ pc[t] = "locked" /\ call[t].op = "write" /\ call' = call
    BY <1>9 DEF Stage
  <2>2. Contents' = Contents
    BY <1>2, <2>1 DEF SwapData
  <2>3. call[t] # NoCall /\ outcome[t] = Pending /\ call[t] \in Calls
    BY <1>0, <1>p, <2>1
  <2>4. CASE outcome' = outcome
    BY <2>1, <2>2, <2>4, ProgressKept
  <2>5. CASE outcome' # outcome
    <3>1. PICK d \in IF HasTimeToLive(m_store) THEN Deadlines ELSE {NoExpiry} :
            /\ ~Applies(m_store, Stamped(call[t].event, d), 0)
            /\ Decide(t, "false", Absent)
      BY <1>9, <2>5 DEF Stage
    <3>2. m_store = Visible
      BY <1>0, <2>1, VisibleOutside DEF Inside
    <3>3. d \in Int
      BY ThreadsAssumption DEF NoExpiry
    <3> DEFINE ev == call[t].event
               e == Stamped(ev, d)
    <3>4. WellFormed(e) /\ e.key = ev.key /\ e.payload = ev.payload
      BY <2>1, <2>3, <3>3, CallEvent, StampedFacts
    <3> HIDE DEF e
    <3>5. \/ e.key \in Keys /\ e.payload = Absent /\ Entries(Visible)[e.key] = Nothing
          \/ e.key = Absent /\ \A k \in Keys : Entries(Visible)[k] = Nothing
      BY <1>0, <3>1, <3>2, <3>4, VacuousEvent DEF e
    <3>6. Linear!Vacuous(ev)
      BY <3>4, <3>5, ContentsVisible, StoreAssumption DEF Linear!Vacuous, Linear!Nothing, Nothing
    <3>7. Linear!Write(t, call[t])
      BY <1>0, <2>1, <2>2, <3>1, <3>6, ProgressDecided DEF Linear!Write
    <3> QED
      BY <1>1, <1>e, <2>1, <2>3, <3>7 DEF Linear!TakeEffect
  <2> QED
    BY <2>4, <2>5
<1>10. CASE SwapData(t)
  <2>1. pc[t] = "swapping" /\ call' = call /\ Decide(t, "true", Absent)
    BY <1>10 DEF SwapData
  <2>2. call[t] # NoCall /\ call[t] \in Calls /\ outcome[t] = Pending /\ call[t].op = "write"
    BY <1>0, <1>p, <2>1 DEF CallOK
  <2>3. /\ EventOK(event[t], Visible.m_ttl) /\ Applies(Visible, event[t], 0)
        /\ Visible' = ApplyEvent(Visible, event[t], 0)
    BY <1>0, <1>10, SwapDataApplies
  <2> DEFINE ev == call[t].event
             e == event[t]
  <2>4. PICK d \in Deadlines \cup {NoExpiry} : e = Stamped(ev, d)
    BY <1>0, <2>1 DEF StagedOK
  <2>5. d \in Int
    <3>1. Deadlines \subseteq Nat /\ NoExpiry \in Int
      BY ThreadsAssumption DEF NoExpiry
    <3> QED
      BY <3>1
  <2>6. /\ e.type = ev.type /\ e.key = ev.key /\ e.renameKey = ev.renameKey
        /\ e.payload = ev.payload
    BY <2>2, <2>4, <2>5, CallEvent, StampedFacts
  <2>7. e.type = RENAME => e.key # e.renameKey
    BY <2>2, <2>6 DEF NoSelfRenameCalls
  <2> DEFINE a == ApplyEvent(Visible, e, 0)
  <2>8. Contents' = Entries(a) /\ Contents = Entries(Visible)
    <3>1. (Contents = Entries(Visible))'
      BY ContentsVisible, PTL
    <3> QED
      BY <2>3, <3>1, ContentsVisible DEF Entries
  <2> HIDE DEF e, a
  <2>9. \/ /\ e.payload # Absent
           /\ \E x \in Deadlines \cup {Absent} :
                  Entries(a) = [Entries(Visible) EXCEPT ![e.key] = <<e.payload, x>>]
        \/ /\ e.renameKey # Absent
           /\ Entries(Visible)[e.key] # Nothing
           /\ Entries(a) = [Entries(Visible) EXCEPT ![e.key] = Nothing,
                                                    ![e.renameKey] = Entries(Visible)[e.key]]
        \/ /\ e.key # Absent /\ e.payload = Absent /\ e.renameKey = Absent
           /\ Entries(Visible)[e.key] # Nothing
           /\ Entries(a) = [Entries(Visible) EXCEPT ![e.key] = Nothing]
        \/ /\ e.key = Absent
           /\ \E k \in Keys : Entries(Visible)[k] # Nothing
           /\ Entries(a) = [k \in Keys |-> Nothing]
    BY <1>0, <2>3, <2>7, EventEntries DEF a, e
  <2>10. Nothing = Linear!Nothing
    BY DEF Nothing, Linear!Nothing
  <2>11. Linear!Change(ev)
    <3> HIDE DEF ev
    <3>1. CASE e.payload # Absent /\ \E x \in Deadlines \cup {Absent} :
                  Entries(a) = [Entries(Visible) EXCEPT ![e.key] = <<e.payload, x>>]
      BY <2>6, <2>8, <3>1 DEF Linear!Change, Linear!Put
    <3>2. CASE /\ e.renameKey # Absent
               /\ Entries(Visible)[e.key] # Nothing
               /\ Entries(a) = [Entries(Visible) EXCEPT ![e.key] = Nothing,
                                                        ![e.renameKey] = Entries(Visible)[e.key]]
      BY <2>6, <2>8, <2>10, <3>2 DEF Linear!Change, Linear!Move
    <3>3. CASE /\ e.key # Absent /\ e.payload = Absent /\ e.renameKey = Absent
               /\ Entries(Visible)[e.key] # Nothing
               /\ Entries(a) = [Entries(Visible) EXCEPT ![e.key] = Nothing]
      BY <2>6, <2>8, <2>10, <3>3 DEF Linear!Change, Linear!Remove
    <3>4. CASE /\ e.key = Absent
               /\ \E k \in Keys : Entries(Visible)[k] # Nothing
               /\ Entries(a) = [k \in Keys |-> Nothing]
      BY <2>6, <2>8, <2>10, <3>4 DEF Linear!Change, Linear!Wipe
    <3> QED
      BY <2>9, <3>1, <3>2, <3>3, <3>4
  <2>12. Linear!Write(t, call[t])
    BY <1>0, <2>1, <2>11, ProgressDecided DEF Linear!Write
  <2> QED
    BY <1>1, <1>e, <2>2, <2>12 DEF Linear!TakeEffect
<1> QED
  BY <1>3, <1>4, <1>5, <1>6, <1>7, <1>8, <1>9, <1>10 DEF ThreadStep

LEMMA LinearInit == Init => Linear!Init
<1> SUFFICES ASSUME Init PROVE Linear!Init
  OBVIOUS
<1>1. StoreOK(Visible) /\ Contents = Entries(Visible)
  BY ThreadsInit, ContentsVisible DEF ThreadsInv, VisibleInv
<1>2. Contents \in [Keys -> (Values \X (Deadlines \cup {Absent})) \cup {Nothing}]
  <2>1. \A k \in Keys : Entries(Visible)[k] \in (Values \X (Deadlines \cup {Absent})) \cup {Nothing}
    BY <1>1, EntryFacts
  <2>2. Entries(Visible) = [k \in Keys |-> Entries(Visible)[k]]
    BY DEF Entries
  <2> QED
    BY <1>1, <2>1, <2>2
<1>3. Progress = [t \in Threads |-> [call |-> NoCall, outcome |-> Pending]]
  BY DEF Init, Progress
<1> QED
  BY <1>2, <1>3
  DEF Linear!Init, Linear!Nothing, Nothing, Linear!Pending, Linear!Outcome, Pending, Outcome

\* Calls of concurrent threads are linearizable, for any number of threads,
\* keys, values and calls: a read returns the entries of one instant, no store
\* between Append and Swap or half swapped is ever seen, and a write that
\* returns true, false or an exception did just that.
THEOREM CallsAreLinearizable ==
    ASSUME NoSelfRenameCalls
    PROVE  Spec => Linearizable
<1>1. ThreadsInv /\ [Next]_vars => [Linear!Next]_<<Contents, Progress>>
  <2> SUFFICES ASSUME ThreadsInv, [Next]_vars PROVE [Linear!Next]_<<Contents, Progress>>
    OBVIOUS
  <2>1. CASE Next
    BY <2>1, LinearStep DEF Next
  <2>2. CASE UNCHANGED vars
    BY <2>2 DEF vars, dbVars, lockVars, localVars, Contents, Progress
  <2> QED
    BY <2>1, <2>2
<1> QED
  BY <1>1, ThreadsInit, ThreadsStep, LinearInit, PTL DEF Spec, Linearizable, Linear!Spec

-----------------------------------------------------------------------------
(* Compaction of the log. *)

SelfFree(e) == e.type = RENAME => e.key # e.renameKey

\* The events that survive compaction and the store they make.
Represents(m, s) ==
    \A k \in Keys :
        /\ m[k] = Absent <=> s.m_data[k] = Absent
        /\ m[k] # Absent => /\ m[k].payload = s.m_data[k]
                            /\ HasTimeToLive(s) => m[k].timestamp = s.m_ttlData[k]
                            /\ EventOK(m[k], s.m_ttl)

LEMMA EmptyRepresents == \A ttl : Represents(EmptyEventsMap, EmptyStore(ttl))
BY DEF Represents, EmptyEventsMap, EmptyStore

\* Each compaction strategy does to the map what the event does to the store.
LEMMA CompactRepresents ==
    ASSUME NEW m \in EventsMap, SurvivorsOK(m), NEW s, StoreOK(s), Represents(m, s),
           NEW e, EventOK(e, s.m_ttl), SelfFree(e)
    PROVE  Represents(CompactEvent(m, e, 0), ApplyEvent(s, e, 0))
<1> DEFINE c == CompactEvent(m, e, 0)
           a == ApplyEvent(s, e, 0)
<1>0. /\ WellFormed(e) /\ e \in Event /\ e.type \in EventType /\ e.timestamp \in Int
      /\ e.type # CLEAR => e.key \in Keys
      /\ e.type = RENAME => e.renameKey \in Keys
      /\ e.type = CREATE => e.payload \in Values /\ e.payload # Absent
  BY DEF EventOK, WellFormed, Event, EventType, CREATE, RENAME, DELETE, CLEAR
<1>1. /\ s.m_data \in [Keys -> Values \cup {Absent}]
      /\ s.m_ttlData \in [Keys -> Deadlines \cup {Absent}]
      /\ m \in [Keys -> Event \cup {Absent}]
  BY DEF StoreOK, Store, DataMap, TTLMap, EventsMap
<1>2. CASE e.type = CREATE
  <2>1. ~PastDeadline(e, 0)
    <3>1. e.timestamp \in Deadlines \cup {NoExpiry}
      BY <1>2 DEF EventOK
    <3>2. Deadlines \subseteq Nat
      BY ThreadsAssumption
    <3> DEFINE d == e.timestamp
    <3>3. d # NoExpiry => d \in Nat
      BY <3>1, <3>2
    <3> HIDE DEF d
    <3>4. d # NoExpiry => ~(0 > d)
      BY <3>3
    <3> QED
      BY <3>4 DEF PastDeadline, d
  <2>2. c = [m EXCEPT ![e.key] = e]
    BY <1>2, <2>1 DEF CompactEvent, CreateCompactStrategy, CREATE, RENAME, DELETE, CLEAR
  <2>3. a = StoreCreate(s, e.key, e.payload, e.timestamp)
    BY <1>2 DEF ApplyEvent, CREATE, RENAME, DELETE, CLEAR
  <2>4. /\ a.m_data = [s.m_data EXCEPT ![e.key] = e.payload] /\ a.m_ttl = s.m_ttl
        /\ a.m_ttlData = IF HasTimeToLive(s) THEN [s.m_ttlData EXCEPT ![e.key] = e.timestamp]
                         ELSE s.m_ttlData
    BY <2>3 DEF StoreCreate, StoreWith
  <2>5. e.key \in Keys /\ e # Absent /\ e.payload # Absent
    BY <1>0, <1>2, LogAssumption DEF CREATE, CLEAR
  <2> HIDE DEF c, a
  <2>6. Represents(c, a)
    BY <1>1, <2>2, <2>4, <2>5 DEF Represents, HasTimeToLive
  <2> QED
    BY <2>6 DEF c, a
<1>3. CASE e.type = RENAME
  <2>0. e.key \in Keys /\ e.renameKey \in Keys /\ e.key # e.renameKey
    BY <1>0, <1>3 DEF SelfFree, RENAME, CLEAR
  <2>1. c = RenameCompactStrategy(m, e)
    BY <1>3 DEF CompactEvent, CREATE, RENAME, DELETE, CLEAR
  <2>2. a = StoreRename(s, e.key, e.renameKey, 0)
    BY <1>3 DEF ApplyEvent, CREATE, RENAME, DELETE, CLEAR
  <2>3. CanRename(s, e.key, 0) <=> s.m_data[e.key] # Absent
    BY <2>0, NothingExpired DEF CanRename
  <2>4. CASE m[e.key] = Absent
    <3>1. c = m /\ a = s
      BY <2>0, <2>1, <2>2, <2>3, <2>4 DEF RenameCompactStrategy, StoreRename, Represents
    <3> QED
      BY <3>1
  <2>5. CASE m[e.key] # Absent
    <3> DEFINE r == [m[e.key] EXCEPT !.key = e.renameKey]
    <3>1. \A k \in Keys : c[k] = IF k = e.renameKey THEN r ELSE IF k = e.key THEN Absent ELSE m[k]
      BY <1>1, <2>0, <2>1, <2>5 DEF RenameCompactStrategy
    <3>2. /\ s.m_data[e.key] # Absent /\ m[e.key].payload = s.m_data[e.key]
          /\ HasTimeToLive(s) => m[e.key].timestamp = s.m_ttlData[e.key]
          /\ EventOK(m[e.key], s.m_ttl) /\ m[e.key].type = CREATE /\ m[e.key] \in Event
      BY <2>0, <2>5 DEF Represents, SurvivorsOK, WellFormed
    <3>3. /\ r.payload = m[e.key].payload /\ r.timestamp = m[e.key].timestamp
          /\ r.type = m[e.key].type /\ r.key = e.renameKey /\ r.renameKey = m[e.key].renameKey
          /\ r \in Event
      BY <2>0, <3>2 DEF Event
    <3> HIDE DEF r
    <3>4. EventOK(r, s.m_ttl) /\ r # Absent
      BY <2>0, <3>2, <3>3, LogAssumption, StoreAssumption
      DEF EventOK, WellFormed, CREATE, RENAME, CLEAR
    <3>5. a.m_data = MoveEntry(s.m_data, e.key, e.renameKey) /\ a.m_ttl = s.m_ttl
      BY <2>2, <2>3, <3>2 DEF StoreRename, StoreWith
    <3>6. \A k \in Keys : a.m_data[k] = IF k = e.key THEN Absent
                                        ELSE IF k = e.renameKey THEN s.m_data[e.key]
                                             ELSE s.m_data[k]
      BY <1>1, <2>0, <3>5 DEF MoveEntry
    <3>7. HasTimeToLive(s) => \A k \in Keys : k # e.key =>
              a.m_ttlData[k] = IF k = e.renameKey THEN s.m_ttlData[e.key] ELSE s.m_ttlData[k]
      <4>1. HasTimeToLive(s) => s.m_ttlData[e.key] # Absent
        BY <2>0, <3>2 DEF StoreOK, Aligned
      <4>2. HasTimeToLive(s) => a.m_ttlData = MoveEntry(s.m_ttlData, e.key, e.renameKey)
        BY <2>2, <2>3, <3>2, <4>1 DEF StoreRename, StoreWith
      <4> QED
        BY <1>1, <2>0, <4>2 DEF MoveEntry
    <3>8. HasTimeToLive(a) <=> HasTimeToLive(s)
      BY <3>5 DEF HasTimeToLive
    <3> HIDE DEF c, a
    <3>9. Represents(c, a)
      BY <2>0, <3>1, <3>2, <3>3, <3>4, <3>5, <3>6, <3>7, <3>8 DEF Represents
    <3> QED
      BY <3>9 DEF c, a
  <2> QED
    BY <2>4, <2>5
<1>4. CASE e.type = DELETE
  <2>1. c = [m EXCEPT ![e.key] = Absent]
    BY <1>4 DEF CompactEvent, DeleteCompactStrategy, CREATE, RENAME, DELETE, CLEAR
  <2>2. a = StoreDelete(s, e.key)
    BY <1>4 DEF ApplyEvent, CREATE, RENAME, DELETE, CLEAR
  <2>3. /\ a.m_data = [s.m_data EXCEPT ![e.key] = Absent] /\ a.m_ttl = s.m_ttl
        /\ a.m_ttlData = [s.m_ttlData EXCEPT ![e.key] = Absent]
    BY <2>2 DEF StoreDelete, StoreWith
  <2>4. e.key \in Keys
    BY <1>0, <1>4 DEF DELETE, CLEAR
  <2> HIDE DEF c, a
  <2>5. Represents(c, a)
    BY <1>1, <2>1, <2>3, <2>4 DEF Represents, HasTimeToLive
  <2> QED
    BY <2>5 DEF c, a
<1>5. CASE e.type = CLEAR
  <2>1. c = EmptyEventsMap
    BY <1>5 DEF CompactEvent, ClearCompactStrategy, CREATE, RENAME, DELETE, CLEAR
  <2>2. \A k \in Keys : a.m_data[k] = Absent
    BY <1>5 DEF ApplyEvent, StoreClear, StoreIsEmpty, EmptyStore, CREATE, RENAME, DELETE, CLEAR
  <2> QED
    BY <2>1, <2>2 DEF Represents, EmptyEventsMap
<1> QED
  BY <1>0, <1>2, <1>3, <1>4, <1>5 DEF EventType
Kept(m) == {k \in Keys : m[k] # Absent}

\* Each strategy adds at most one key.
LEMMA CompactKept ==
    ASSUME NEW m \in EventsMap, IsFiniteSet(Kept(m)), NEW e, WellFormed(e)
    PROVE  IsFiniteSet(Kept(CompactEvent(m, e, 0)))
<1> DEFINE c == CompactEvent(m, e, 0)
<1>1. e.type \in EventType /\ m \in [Keys -> Event \cup {Absent}]
  BY DEF WellFormed, Event, EventsMap
<1>2. \E x : Kept(c) \subseteq Kept(m) \cup {x}
  <2>1. CASE e.type = CREATE
    <3>1. c = m \/ c = [m EXCEPT ![e.key] = e]
      BY <2>1 DEF CompactEvent, CreateCompactStrategy, CREATE, RENAME, DELETE, CLEAR
    <3> HIDE DEF c
    <3>2. Kept(c) \subseteq Kept(m) \cup {e.key}
      BY <1>1, <3>1 DEF Kept
    <3> QED
      BY <3>2
  <2>2. CASE e.type = RENAME
    <3>1. \/ c = m
          \/ c = [[m EXCEPT ![e.key] = Absent]
                     EXCEPT ![e.renameKey] = [m[e.key] EXCEPT !.key = e.renameKey]]
      BY <2>2 DEF CompactEvent, RenameCompactStrategy, CREATE, RENAME, DELETE, CLEAR
    <3> HIDE DEF c
    <3>2. Kept(c) \subseteq Kept(m) \cup {e.renameKey}
      BY <1>1, <3>1 DEF Kept
    <3> QED
      BY <3>2
  <2>3. CASE e.type = DELETE
    <3>1. c = [m EXCEPT ![e.key] = Absent]
      BY <2>3 DEF CompactEvent, DeleteCompactStrategy, CREATE, RENAME, DELETE, CLEAR
    <3> HIDE DEF c
    <3>2. Kept(c) \subseteq Kept(m) \cup {e.key}
      BY <1>1, <3>1 DEF Kept
    <3> QED
      BY <3>2
  <2>4. CASE e.type = CLEAR
    <3>1. c = EmptyEventsMap
      BY <2>4 DEF CompactEvent, ClearCompactStrategy, CREATE, RENAME, DELETE, CLEAR
    <3> HIDE DEF c
    <3>2. Kept(c) \subseteq Kept(m) \cup {e.key}
      BY <3>1 DEF Kept, EmptyEventsMap
    <3> QED
      BY <3>2
  <2> QED
    BY <1>1, <2>1, <2>2, <2>3, <2>4 DEF EventType
<1>3. PICK x : Kept(c) \subseteq Kept(m) \cup {x}
  BY <1>2
<1> HIDE DEF c
<1>4. IsFiniteSet(Kept(m) \cup {x})
  BY FS_AddElement
<1>5. IsFiniteSet(Kept(c))
  BY <1>3, <1>4, FS_Subset
<1> QED
  BY <1>5 DEF c

LogSelfFree(recs) == \A i \in 1..Len(recs) : SelfFree(Deserialize(recs[i].fields))

\* A map that compaction may hold when replaying as far has led to store s.
SurvivorsOf(m, s) ==
    /\ m \in EventsMap
    /\ SurvivorsOK(m)
    /\ IsFiniteSet(Kept(m))
    /\ Represents(m, s)

\* LogWriter::Compact's loop over the log computes the events that make the
\* store which a replay of the same log ends in.
LEMMA SurvivorsTrace ==
    ASSUME NEW ttl \in Int, NEW recs, RecordsOK(recs, ttl), LogSelfFree(recs),
           NEW h, ReplayTrace(h, recs, Len(recs), ttl, 0),
           \A i \in 0..Len(recs) : StoreOK(h[i]) /\ h[i].m_ttl = ttl
    PROVE  SurvivorsOf(Survivors(recs), h[Len(recs)])
<1> DEFINE n == Len(recs)
           ev(i) == Deserialize(recs[i].fields)
           F(f) == [i \in 0..n |-> IF i = 0 THEN EmptyEventsMap
                                   ELSE CompactEvent(f[i - 1], ev(i), 0)]
           rec == CHOOSE f : f = F(f)
           S == {m \in EventsMap : SurvivorsOK(m)}
           step == [i \in 1..n |-> [m \in S |-> CompactEvent(m, ev(i), 0)]]
<1>0. recs \in Seq(Record) /\ n \in Nat
  BY LenProperties DEF RecordsOK
<1>1. \A i \in 1..n : EventOK(ev(i), ttl) /\ WellFormed(ev(i)) /\ SelfFree(ev(i))
  BY DEF RecordsOK, LogSelfFree, EventOK
<1>2. EmptyEventsMap \in S
  BY EmptyEventsMapType
<1>3. \A i \in 1..n : \A m \in S : CompactEvent(m, ev(i), 0) \in S
  BY <1>1, CompactEventType
<1> HIDE DEF n, ev
<1>4. step \in [1..n -> [S -> S]] /\ \A i \in 1..n, m \in S : step[i][m] = CompactEvent(m, ev(i), 0)
  BY <1>3
<1>s. \A m \in S : m \in EventsMap /\ SurvivorsOK(m)
  OBVIOUS
<1> HIDE DEF step, S
<1>5. PICK g \in [0..n -> S] : Iteration(g, EmptyEventsMap, n, step)
  BY <1>0, <1>2, <1>4, IterationExists
<1>6. /\ g[0] = EmptyEventsMap
      /\ \A i \in 1..n : g[i] = CompactEvent(g[i - 1], ev(i), 0)
  <2>1. \A i \in 1..n : i - 1 \in 0..n
    BY <1>0
  <2> QED
    BY <1>4, <1>5, <2>1 DEF Iteration
<1>7. g = F(g)
  BY <1>6
<1>8. Survivors(recs) = rec[n]
  BY Zenon DEF Survivors, n, ev
<1>9. rec = F(rec)
  BY <1>7, Zenon
<1> HIDE DEF rec
<1>10. /\ rec[0] = EmptyEventsMap
       /\ \A i \in 1..n : rec[i] = CompactEvent(rec[i - 1], ev(i), 0)
  BY <1>0, <1>9
<1> DEFINE Good(i) == rec[i] = g[i] /\ SurvivorsOf(g[i], h[i])
           Bad == {i \in 0..n : ~Good(i)}
<1>11. Bad = {}
  <2> SUFFICES ASSUME Bad # {} PROVE FALSE
    OBVIOUS
  <2>1. PICK m \in Bad : \A y \in Bad : y >= m
    <3>1. Bad \subseteq Nat
      BY <1>0
    <3> HIDE DEF Bad
    <3> QED
      BY <3>1, LeastElement
  <2>2. m # 0
    <3>1. h[0] = EmptyStore(ttl)
      BY DEF ReplayTrace
    <3>2. SurvivorsOf(g[0], h[0])
      <4>1. Kept(EmptyEventsMap) = {}
        BY DEF Kept, EmptyEventsMap
      <4> QED
        BY <1>6, <3>1, <4>1, EmptyEventsMapType, EmptyRepresents, FS_EmptySet DEF SurvivorsOf
    <3>3. Good(0)
      BY <1>6, <1>10, <3>2
    <3> QED
      BY <3>3
  <2>3. m - 1 \in 0..n /\ m - 1 \notin Bad /\ m \in 1..n /\ m \in 0..n
    BY <1>0, <2>1, <2>2
  <2>4. Good(m - 1)
    BY <2>3
  <2>5. rec[m] = g[m]
    BY <2>3, <2>4, <1>6, <1>10
  <2>6. h[m] = ApplyEvent(h[m - 1], ev(m), 0)
    BY <2>3 DEF ReplayTrace, n, ev
  <2>7. StoreOK(h[m - 1]) /\ EventOK(ev(m), h[m - 1].m_ttl) /\ SelfFree(ev(m)) /\ WellFormed(ev(m))
    BY <1>1, <2>3 DEF n
  <2>8. g[m] \in EventsMap /\ SurvivorsOK(g[m])
    BY <1>5, <1>s, <2>3
  <2>9. Represents(g[m], h[m])
    BY <1>6, <2>3, <2>4, <2>6, <2>7, CompactRepresents DEF SurvivorsOf
  <2>10. IsFiniteSet(Kept(g[m]))
    BY <1>6, <2>3, <2>4, <2>7, CompactKept DEF SurvivorsOf
  <2>11. Good(m)
    BY <2>5, <2>8, <2>9, <2>10 DEF SurvivorsOf
  <2> QED
    BY <2>11
<1>12. Good(n)
  BY <1>0, <1>11
<1> QED
  BY <1>8, <1>12 DEF n
\* The part of store s that holds the keys in D.
StorePart(s, D) ==
    StoreWith(s, [k \in Keys |-> IF k \in D THEN s.m_data[k] ELSE Absent],
                 [k \in Keys |-> IF k \in D THEN s.m_ttlData[k] ELSE Absent])

LEMMA StorePartFacts ==
    ASSUME NEW s, StoreOK(s)
    PROVE  /\ \A D : StorePart(s, D) \in Store
           /\ StorePart(s, {}) = EmptyStore(s.m_ttl)
           /\ \A D : (\A k \in Keys : s.m_data[k] # Absent => k \in D) => StorePart(s, D) = s
<1>1. /\ s.m_ttl \in Int
      /\ s.m_data \in [Keys -> Values \cup {Absent}]
      /\ s.m_ttlData \in [Keys -> Int \cup {Absent}]
      /\ s = [m_ttl |-> s.m_ttl, m_data |-> s.m_data, m_ttlData |-> s.m_ttlData]
  BY DEF StoreOK, Store, DataMap, TTLMap
<1>2. \A D : StorePart(s, D) \in Store
  BY <1>1 DEF StorePart, StoreWith, Store, DataMap, TTLMap
<1>3. StorePart(s, {}) = EmptyStore(s.m_ttl)
  BY DEF StorePart, StoreWith, EmptyStore
<1>4. ASSUME NEW D, \A k \in Keys : s.m_data[k] # Absent => k \in D
      PROVE  StorePart(s, D) = s
  <2>1. \A k \in Keys : s.m_data[k] = Absent => s.m_ttlData[k] = Absent
    BY DEF StoreOK, Aligned
  <2>2. /\ s.m_data = [k \in Keys |-> IF k \in D THEN s.m_data[k] ELSE Absent]
        /\ s.m_ttlData = [k \in Keys |-> IF k \in D THEN s.m_ttlData[k] ELSE Absent]
    BY <1>1, <1>4, <2>1
  <2> QED
    BY <1>1, <2>2 DEF StorePart, StoreWith
<1> QED
  BY <1>2, <1>3, <1>4

\* Replaying the survivor of one key adds that key to the part replayed.
LEMMA StorePartGrows ==
    ASSUME NEW s, StoreOK(s), NEW m, SurvivorsOf(m, s), NEW D, NEW k \in Kept(m)
    PROVE  ApplyEvent(StorePart(s, D), m[k], 0) = StorePart(s, D \cup {k})
<1> DEFINE p == StorePart(s, D)
           e == m[k]
<1>0. k \in Keys /\ e # Absent
  BY DEF Kept
<1>1. /\ e.type = CREATE /\ e.key = k /\ e.payload = s.m_data[k]
      /\ HasTimeToLive(s) => e.timestamp = s.m_ttlData[k]
  BY <1>0 DEF SurvivorsOf, SurvivorsOK, Represents
<1>2. ~HasTimeToLive(s) => \A x \in Keys : s.m_ttlData[x] = Absent
  BY DEF StoreOK, Aligned
<1>3. /\ p.m_ttl = s.m_ttl
      /\ p.m_data = [x \in Keys |-> IF x \in D THEN s.m_data[x] ELSE Absent]
      /\ p.m_ttlData = [x \in Keys |-> IF x \in D THEN s.m_ttlData[x] ELSE Absent]
  BY DEF StorePart, StoreWith
<1> HIDE DEF p, e
<1>4. ApplyEvent(p, e, 0) = StoreCreate(p, k, s.m_data[k], e.timestamp)
  BY <1>1 DEF ApplyEvent, CREATE, RENAME, DELETE, CLEAR
<1>5. HasTimeToLive(p) <=> HasTimeToLive(s)
  BY <1>3 DEF HasTimeToLive
<1>6. [p.m_data EXCEPT ![k] = s.m_data[k]]
          = [x \in Keys |-> IF x \in D \cup {k} THEN s.m_data[x] ELSE Absent]
  BY <1>0, <1>3
<1>7. (IF HasTimeToLive(s) THEN [p.m_ttlData EXCEPT ![k] = e.timestamp] ELSE p.m_ttlData)
          = [x \in Keys |-> IF x \in D \cup {k} THEN s.m_ttlData[x] ELSE Absent]
  BY <1>0, <1>1, <1>2, <1>3
<1>8. ApplyEvent(p, e, 0)
          = StoreWith(p, [x \in Keys |-> IF x \in D \cup {k} THEN s.m_data[x] ELSE Absent],
                         [x \in Keys |-> IF x \in D \cup {k} THEN s.m_ttlData[x] ELSE Absent])
  BY <1>4, <1>5, <1>6, <1>7 DEF StoreCreate
<1> QED
  BY <1>3, <1>8 DEF StorePart, StoreWith, p, e

\* Whatever order the hash map yields the survivors in, the rewritten log
\* replays to the store they represent.
LEMMA RewrittenReplays ==
    ASSUME NEW s, StoreOK(s), NEW m, SurvivorsOf(m, s), NEW recs \in Rewritten(m)
    PROVE  /\ RecordsOK(recs, s.m_ttl)
           /\ LogSelfFree(recs)
           /\ ReplayedStore(recs, s.m_ttl, 0) = s
<1> DEFINE n == Cardinality(Kept(m))
           ttl == s.m_ttl
<1>0. n \in Nat /\ IsFiniteSet(Kept(m))
  BY FS_CardinalityType DEF SurvivorsOf
<1>1. PICK order \in [1..n -> Kept(m)] :
          /\ \A i, j \in 1..n : order[i] = order[j] => i = j
          /\ recs = [i \in 1..n |-> WriteRecord(m[order[i]])]
  BY DEF Rewritten, Kept
<1> HIDE DEF n, ttl
<1>2. \A k \in Kept(m) : \E i \in 1..n : order[i] = k
  <2>1. order \in Injection(1..n, Kept(m))
    BY <1>1 DEF Injection, IsInjective
  <2>2. Cardinality(1..n) = Cardinality(Kept(m))
    <3>1. Cardinality(1..n) = IF 1 > n THEN 0 ELSE n - 1 + 1
      BY <1>0, FS_Interval
    <3> QED
      BY <1>0, <3>1 DEF n
  <2>3. order \in Surjection(1..n, Kept(m))
    BY <1>0, <2>1, <2>2, FS_Injection
  <2> QED
    BY <2>3 DEF Surjection
<1>3. \A i \in 1..n : /\ EventOK(m[order[i]], ttl) /\ WellFormed(m[order[i]])
                      /\ m[order[i]].type = CREATE
  <2> TAKE i \in 1..n
  <2>1. order[i] \in Keys /\ m[order[i]] # Absent
    BY <1>1 DEF Kept
  <2> QED
    BY <2>1 DEF SurvivorsOf, SurvivorsOK, Represents, ttl
<1>4. \A i \in 1..n : /\ WriteRecord(m[order[i]]) \in Record
                      /\ Whole(WriteRecord(m[order[i]]))
                      /\ Deserialize(WriteRecord(m[order[i]]).fields) = m[order[i]]
  BY <1>3, WriteRecordOK DEF RecordOK
<1>5. /\ recs \in Seq(Record) /\ Len(recs) = n
      /\ \A i \in 1..n : recs[i] = WriteRecord(m[order[i]])
  BY <1>0, <1>1, <1>4
<1>6. RecordsOK(recs, ttl)
  BY <1>3, <1>4, <1>5 DEF RecordsOK
<1>7. LogSelfFree(recs)
  BY <1>3, <1>4, <1>5 DEF LogSelfFree, SelfFree, CREATE, RENAME
<1> DEFINE D(i) == {order[j] : j \in 1..i}
           h == [i \in 0..n |-> StorePart(s, D(i))]
<1>8. ReplayTrace(h, recs, n, ttl, 0)
  <2>1. h \in [0..n -> Store]
    BY StorePartFacts
  <2>2. h[0] = EmptyStore(ttl)
    <3>1. D(0) = {}
      OBVIOUS
    <3>2. h[0] = StorePart(s, D(0))
      BY <1>0
    <3> QED
      BY <3>1, <3>2, StorePartFacts DEF ttl
  <2>3. ASSUME NEW i \in 1..n
        PROVE  h[i] = ApplyEvent(h[i - 1], Deserialize(recs[i].fields), 0)
    <3>1. i \in 0..n /\ i - 1 \in 0..n
      BY <1>0
    <3>2. D(i) = D(i - 1) \cup {order[i]}
      BY <3>1
    <3>3. h[i] = StorePart(s, D(i)) /\ h[i - 1] = StorePart(s, D(i - 1))
      BY <3>1
    <3>4. order[i] \in Kept(m)
      BY <1>1
    <3> HIDE DEF h, D
    <3>5. \A X : ApplyEvent(StorePart(s, X), m[order[i]], 0) = StorePart(s, X \cup {order[i]})
      BY <3>4, StorePartGrows
    <3> QED
      BY <1>4, <1>5, <3>2, <3>3, <3>5
  <2> QED
    BY <2>1, <2>2, <2>3 DEF ReplayTrace
<1>9. h[n] = s
  <2>1. \A k \in Keys : s.m_data[k] # Absent => k \in D(n)
    <3> SUFFICES ASSUME NEW k \in Keys, s.m_data[k] # Absent PROVE k \in D(n)
      OBVIOUS
    <3>1. k \in Kept(m)
      BY DEF Kept, SurvivorsOf, Represents
    <3> QED
      BY <1>2, <3>1
  <2>2. h[n] = StorePart(s, D(n))
    BY <1>0
  <2> HIDE DEF h, D
  <2> QED
    BY <2>1, <2>2, StorePartFacts
<1> HIDE DEF h
<1>10. WholePrefix(recs) = n
  BY <1>5, <1>6, WholePrefixOfWhole DEF RecordsOK
<1>11. ReplayedStore(recs, ttl, 0) = h[n]
  BY <1>0, <1>8, <1>10, ReplayedStoreTrace
<1> QED
  BY <1>6, <1>7, <1>9, <1>11 DEF ttl
-----------------------------------------------------------------------------
(* The log and the store in memory. *)

NoSelfRenames ==
    /\ NoSelfRenameCalls
    /\ \A events \in FirstEvents : \A i \in 1..Len(events) : SelfFree(events[i])

\* The store that the log stands for: between AppendOk and SwapData it is one
\* event ahead of memory.
Logged ==
    IF exclusive # NoThread /\ pc[exclusive] = "swapping" THEN staged[exclusive] ELSE Visible

LogInv ==
    /\ RecordsOK(records, m_store.m_ttl)
    /\ LogSelfFree(records)
    /\ ReplayedStore(records, m_store.m_ttl, 0) = Logged

LEMMA LogInit ==
    ASSUME NoSelfRenames, Init
    PROVE  m_persistence => LogInv
<1> SUFFICES ASSUME m_persistence PROVE LogInv
  OBVIOUS
<1>1. PICK ttl \in Int : RecordsOK(records, ttl) /\ m_store = ReplayedStore(records, ttl, 0)
  BY InitialLog
<1>2. m_store.m_ttl = ttl
  <2>1. PICK h : /\ ReplayedStore(records, ttl, 0) = h[Len(records)]
                 /\ \A i \in 0..Len(records) : h[i].m_ttl = ttl
    BY <1>1, ReplayOK
  <2>2. Len(records) \in 0..Len(records)
    BY <1>1, LenProperties DEF RecordsOK
  <2> QED
    BY <1>1, <2>1, <2>2
<1>3. Logged = m_store
  BY DEF Init, Logged, Visible
<1>4. LogSelfFree(records)
  <2>1. PICK events \in FirstEvents :
            records = LogOf(events) /\ \E first \in TtlChoices : Reopens(events, first)
    BY DEF Init
  <2> QED
    BY <2>1, LogOfFacts DEF LogSelfFree, NoSelfRenames
<1> QED
  BY <1>1, <1>2, <1>3, <1>4 DEF LogInv

\* A step that neither writes to the log nor enters or leaves "swapping".
LEMMA LoggedKept ==
    ASSUME LocksInv, CallsInv, NEW t \in Threads,
           (\E c \in Calls : Invoke(t, c)) \/ ThreadStep(t),
           pc[t] # "swapping", pc'[t] # "swapping"
    PROVE  Logged' = Logged
<1>1. Visible' = Visible
  BY VisibleStep DEF SwapData
<1>2. exclusive' # exclusive => t \in {exclusive, exclusive'} /\ NoThread \in {exclusive, exclusive'}
  BY DEF Invoke, ThreadStep, LockShared, LockExclusive, Return, ReadKey, ReadDone, Stage,
         LockLog, AppendOk, AppendThrows, SwapData, SwapTtlData, CompactVolatile,
         CompactStart, CompactDone, CompactThrows, lockVars
<1>3. NoThread \notin Threads /\ (exclusive # NoThread => exclusive \in Threads)
  BY ThreadsAssumption DEF LocksInv, TypeOK
<1>4. CASE exclusive' # exclusive
  <2>1. \/ exclusive = t /\ exclusive' = NoThread
        \/ exclusive = NoThread /\ exclusive' = t
    BY <1>2, <1>3, <1>4
  <2> QED
    BY <1>1, <2>1 DEF Logged
<1>5. CASE exclusive' = exclusive /\ exclusive = t
  BY <1>1, <1>5 DEF Logged
<1>6. CASE exclusive' = exclusive /\ exclusive # t
  <2>1. exclusive # NoThread => /\ pc'[exclusive] = pc[exclusive]
                                /\ staged'[exclusive] = staged[exclusive]
    BY <1>3, <1>6, OthersKept
  <2> QED
    BY <1>1, <1>6, <2>1 DEF Logged
<1> QED
  BY <1>4, <1>5, <1>6

LEMMA LogStep ==
    ASSUME NoSelfRenames, ThreadsInv, m_persistence => LogInv, NEW t \in Threads,
           (\E c \in Calls : Invoke(t, c)) \/ ThreadStep(t)
    PROVE  m_persistence' => LogInv'
<1>0. /\ LocksInv /\ CallsInv /\ VisibleInv /\ StagedInv /\ StagedOK(t)
      /\ NoThread \notin Threads /\ pc \in [Threads -> Labels] /\ m_store.m_ttl \in Int
  BY ThreadsAssumption DEF ThreadsInv, StagedInv, LocksInv, TypeOK, Store
<1>1. m_persistence' = m_persistence /\ m_store'.m_ttl = m_store.m_ttl
  <2>1. m_persistence' = m_persistence
    BY DEF Invoke, ThreadStep, LockShared, LockExclusive, Return, ReadKey, ReadDone, Stage,
           LockLog, AppendOk, AppendThrows, SwapData, SwapTtlData, CompactVolatile,
           CompactStart, CompactDone, CompactThrows, dbVars
  <2> QED
    BY <1>0, <2>1, VisibleStep
<1> SUFFICES ASSUME m_persistence, LogInv PROVE LogInv'
  BY <1>1
<1>2. CASE AppendOk(t)
  <2>1. /\ pc[t] = "writing" /\ records' = Append(records, WriteRecord(event[t]))
        /\ exclusive' = exclusive /\ staged' = staged
        /\ pc'[t] = "swapping"
    BY <1>0, <1>2 DEF AppendOk, Goto
  <2>2. t = exclusive /\ Visible = m_store /\ exclusive # NoThread
    BY <1>0, <2>1, VisibleOutside DEF Inside
  <2>3. /\ EventOK(event[t], m_store.m_ttl) /\ WellFormed(event[t])
        /\ staged[t] = ApplyEvent(m_store, event[t], 0)
    BY <1>0, <2>1 DEF StagedOK, EventOK
  <2>4. SelfFree(event[t])
    <3>1. PICK d \in Deadlines \cup {NoExpiry} : event[t] = Stamped(call[t].event, d)
      BY <1>0, <2>1 DEF StagedOK
    <3>2. d \in Int
      <4>1. Deadlines \subseteq Nat /\ NoExpiry \in Int
        BY ThreadsAssumption DEF NoExpiry
      <4> QED
        BY <4>1
    <3>3. call[t] \in Calls /\ call[t].op = "write"
      BY <1>0, <2>1 DEF CallsInv, CallOK
    <3>4. /\ event[t].type = call[t].event.type /\ event[t].key = call[t].event.key
          /\ event[t].renameKey = call[t].event.renameKey
      BY <3>1, <3>2, <3>3, CallEvent, StampedFacts
    <3> QED
      BY <3>3, <3>4 DEF SelfFree, NoSelfRenames, NoSelfRenameCalls
  <2>5. Logged = m_store /\ Logged' = staged[t]
    BY <2>1, <2>2 DEF Logged
  <2>6. PICK h : /\ ReplayTrace(h, records, Len(records), m_store.m_ttl, 0)
                 /\ ReplayedStore(records, m_store.m_ttl, 0) = h[Len(records)]
    BY <1>0, ReplayOK DEF LogInv
  <2>7. h[Len(records)] = m_store
    BY <2>5, <2>6 DEF LogInv
  <2>8. staged[t] \in Store
    BY <1>0 DEF LocksInv, TypeOK
  <2>9. ReplayedStore(records', m_store.m_ttl, 0) = staged[t]
    <3>1. records \in Seq(Record) /\ \A i \in 1..Len(records) : Whole(records[i])
      BY DEF LogInv, RecordsOK
    <3> QED
      BY <2>1, <2>3, <2>6, <2>7, <2>8, <3>1, ReplayAppend
  <2>10. RecordsOK(records', m_store.m_ttl) /\ LogSelfFree(records')
    <3> DEFINE r == WriteRecord(event[t])
               n == Len(records)
    <3>1. r \in Record /\ Whole(r) /\ Deserialize(r.fields) = event[t]
      BY <2>3, WriteRecordOK DEF RecordOK
    <3>2. n \in Nat /\ records \in Seq(Record)
      BY LenProperties DEF LogInv, RecordsOK
    <3> HIDE DEF r
    <3>3. /\ Append(records, r) \in Seq(Record) /\ Len(Append(records, r)) = n + 1
          /\ \A i \in 1..n : Append(records, r)[i] = records[i]
          /\ Append(records, r)[n + 1] = r
      BY <3>1, <3>2, AppendProperties
    <3>4. records' = Append(records, r)
      BY <2>1 DEF r
    <3> HIDE DEF n
    <3>5. \A i \in 1..(n + 1) : i = n + 1 \/ i \in 1..n
      BY <3>2
    <3> QED
      BY <2>3, <2>4, <3>1, <3>3, <3>4, <3>5 DEF LogInv, RecordsOK, LogSelfFree, n
  <2> QED
    BY <1>1, <2>5, <2>9, <2>10 DEF LogInv
<1>3. CASE CompactDone(t)
  <2>1. /\ pc[t] = "compacting" /\ records' \in Rewritten(Survivors(records))
        /\ pc'[t] = "leaving"
    BY <1>0, <1>3 DEF CompactDone, Goto
  <2>2. t = exclusive /\ Visible = m_store
    BY <1>0, <2>1, VisibleOutside DEF Inside
  <2>3. Logged = m_store /\ Logged' = m_store
    <3>1. Logged = m_store
      BY <2>1, <2>2 DEF Logged
    <3> QED
      BY <1>0, <2>1, <3>1, LoggedKept
  <2>4. PICK h : /\ ReplayTrace(h, records, Len(records), m_store.m_ttl, 0)
                 /\ ReplayedStore(records, m_store.m_ttl, 0) = h[Len(records)]
                 /\ \A i \in 0..Len(records) : StoreOK(h[i]) /\ h[i].m_ttl = m_store.m_ttl
    BY <1>0, ReplayOK DEF LogInv
  <2>5. h[Len(records)] = m_store
    BY <2>3, <2>4 DEF LogInv
  <2>6. SurvivorsOf(Survivors(records), m_store)
    BY <1>0, <2>4, <2>5, SurvivorsTrace DEF LogInv
  <2>7. StoreOK(m_store)
    BY <1>0, <2>2 DEF VisibleInv
  <2>8. /\ RecordsOK(records', m_store.m_ttl) /\ LogSelfFree(records')
        /\ ReplayedStore(records', m_store.m_ttl, 0) = m_store
    BY <2>1, <2>6, <2>7, RewrittenReplays
  <2> QED
    BY <1>1, <2>3, <2>8 DEF LogInv
<1>4. CASE SwapData(t)
  <2>1. pc[t] = "swapping" /\ pc'[t] = "swapped" /\ records' = records /\ exclusive' = exclusive
    BY <1>0, <1>4 DEF SwapData, Goto, lockVars
  <2>2. t = exclusive /\ Visible = m_store /\ exclusive # NoThread
    BY <1>0, <2>1, VisibleOutside DEF Inside
  <2>3. Visible' = ApplyEvent(Visible, event[t], 0)
    BY <1>0, <1>4, SwapDataApplies
  <2>4. staged[t] = ApplyEvent(m_store, event[t], 0)
    BY <1>0, <2>1 DEF StagedOK
  <2>5. Logged = staged[t] /\ Logged' = Visible'
    BY <2>1, <2>2 DEF Logged
  <2> QED
    BY <1>1, <2>1, <2>2, <2>3, <2>4, <2>5 DEF LogInv
<1>5. CASE ~AppendOk(t) /\ ~CompactDone(t) /\ ~SwapData(t)
  <2>1. records' = records
    BY <1>5 DEF Invoke, ThreadStep, LockShared, LockExclusive, Return, ReadKey, ReadDone, Stage,
           LockLog, AppendThrows, SwapTtlData, CompactVolatile, CompactStart, CompactThrows, dbVars
  <2>2. pc[t] # "swapping" /\ pc'[t] # "swapping"
    <3>1. CASE Stage(t)
      BY <1>0, <3>1 DEF Stage, Goto
    <3>2. CASE ~Stage(t)
      BY <1>0, <1>5, <3>2
      DEF Invoke, ThreadStep, LockShared, LockExclusive, Return, ReadKey, ReadDone,
          LockLog, AppendThrows, SwapTtlData, CompactVolatile, CompactStart, CompactThrows, Goto
    <3> QED
      BY <3>1, <3>2
  <2>3. Logged' = Logged
    BY <1>0, <2>2, LoggedKept
  <2> QED
    BY <1>1, <2>1, <2>3 DEF LogInv
<1> QED
  BY <1>2, <1>3, <1>4, <1>5

\* When no writer is inside, the log replays to exactly the store in memory,
\* for any number of threads, keys and calls, with appends and compactions
\* that throw in between: the order of the appends is the order of the swaps,
\* and a compaction drops and reorders records without changing what they say.
THEOREM LogFollowsMemory ==
    ASSUME NoSelfRenames
    PROVE  Spec => []LogAgreesWithMemory
<1> DEFINE I == ThreadsInv /\ (m_persistence => LogInv)
<1>1. Init => I
  BY ThreadsInit, LogInit
<1>2. I /\ [Next]_vars => I'
  <2> SUFFICES ASSUME I, [Next]_vars PROVE I'
    OBVIOUS
  <2>1. ThreadsInv'
    BY ThreadsStep
  <2>2. CASE Next
    BY <2>1, <2>2, LogStep DEF Next
  <2>3. CASE UNCHANGED vars
    <3>1. UNCHANGED <<m_persistence, m_store, records, exclusive, pc, staged>>
      BY <2>3 DEF vars, dbVars, lockVars, localVars
    <3>2. m_persistence => LogInv'
      BY <3>1 DEF LogInv, RecordsOK, LogSelfFree, Logged, Visible
    <3> QED
      BY <2>1, <3>1, <3>2
  <2> QED
    BY <2>2, <2>3
<1>3. I => LogAgreesWithMemory
  <2> SUFFICES ASSUME I, m_persistence, exclusive = NoThread
               PROVE  ReplayedStore(records, m_store.m_ttl, 0) = m_store
    BY DEF LogAgreesWithMemory
  <2>1. Logged = m_store
    BY VisibleWithoutWriter DEF Logged
  <2> QED
    BY <2>1 DEF LogInv
<1> QED
  BY <1>1, <1>2, <1>3, PTL DEF Spec
=============================================================================
