------------------------------ MODULE RadishDB ------------------------------
(***************************************************************************)
(* One RadishDB (include/RadishDB.h) over its log file, across any number  *)
(* of process lifetimes.  The operations of a running database are         *)
(* serialised by m_mutex, so at most one is in progress: phase is where    *)
(* its code stands.  A step ends wherever the process may die with the     *)
(* file in a different condition, or the clock may be read again:          *)
(*                                                                         *)
(*   "down"        no process                                              *)
(*   "replaying"   the constructor, in the loop of LogWriter::Replay       *)
(*   "running"     no operation in progress                                *)
(*   "committing"  Commit, event applied to the staged store, not on disk  *)
(*   "appended"    Commit, Append has returned, the stores not yet swapped *)
(*   "compacting"  LogWriter::Compact, in the loop over the events         *)
(*   "rewriting"   RewriteHistory, in the loop over the surviving events   *)
(*                                                                         *)
(* Reads (Get, Scan, Size, Exists, IsExpired) and operations for which     *)
(* ApplyEvent returns false change nothing and are stuttering steps.       *)
(***************************************************************************)
EXTENDS RadishLog

CONSTANTS
    Modes,         \* the PersistenceModes the database is opened with
    TtlChoices,    \* the ttl arguments it is opened with, NoExpiry for none
    RenamePairs,   \* the <<oldKey, newKey>> arguments of Rename
    TornWrites,    \* may a write that fails leave part of its bytes behind?
    MaxRecords,    \* bound: no logged operation starts on a log this long
    MaxTime        \* bound: the clock stops here

ASSUME DBAssumption ==
    /\ Modes \subseteq {"Flush", "Disabled"}
    /\ TtlChoices \subseteq Nat \cup {NoExpiry}
    /\ RenamePairs \subseteq Keys \X Keys
    /\ TornWrites \in BOOLEAN
    /\ MaxRecords \in Nat
    /\ MaxTime \in Nat

VARIABLES
    now,            \* what SystemClock::Now() returns
    phase,
    m_persistence,  \* does the optional hold a PersistenceLog?
    m_store,
    staged,         \* Commit's stagedStore
    event,          \* Commit's event, Absent outside Commit
    queue,          \* the events GetEvents returned to the loop in progress
    cursor,         \* the index in queue of the loop's next event
    eventsMap,      \* Compact's events; RewriteHistory's, those yet to write
    header,         \* of the log file: "absent" (no file), "torn" or "ok"
    records,        \* the log file behind its header
    tmp,            \* the ".tmp" file behind its header
    committed,      \* history: the store the last successful Append stood for
    misframed       \* history: was a record ever appended behind a torn one?

commitVars  == <<staged, event>>
loopVars    == <<queue, cursor, eventsMap>>
fileVars    == <<header, records, tmp>>
historyVars == <<committed, misframed>>
vars == <<now, phase, m_persistence, m_store, commitVars, loopVars, fileVars,
          historyVars>>

Phases == {"down", "replaying", "running", "committing", "appended",
           "compacting", "rewriting"}

NoStore == EmptyStore(NoExpiry)

Init ==
    /\ now = 0
    /\ phase = "down"
    /\ m_persistence = FALSE
    /\ m_store = NoStore
    /\ staged = NoStore
    /\ event = Absent
    /\ queue = <<>>
    /\ cursor = 1
    /\ eventsMap = EmptyEventsMap
    /\ header = "absent"
    /\ records = <<>>
    /\ tmp = <<>>
    /\ committed = NoStore
    /\ misframed = FALSE

-----------------------------------------------------------------------------
(* Opening. *)

\* PersistenceMode::Disabled: no file is touched, none is read.
OpenVolatile(ttl) ==
    /\ phase = "down"
    /\ "Disabled" \in Modes
    /\ phase' = "running"
    /\ m_store' = EmptyStore(ttl)
    /\ UNCHANGED <<now, m_persistence, commitVars, loopVars, fileVars, historyVars>>

\* EnsureInitialized accepts or creates the file, then Replay reads it.
OpenLog(ttl) ==
    /\ phase = "down"
    /\ "Flush" \in Modes
    /\ header # "torn"
    /\ \E read \in GetEvents(records) :
           /\ read.ok
           /\ queue' = read.events
    /\ header' = "ok"
    /\ phase' = "replaying"
    /\ m_persistence' = TRUE
    /\ m_store' = EmptyStore(ttl)
    /\ cursor' = 1
    /\ UNCHANGED <<now, commitVars, eventsMap, records, tmp, historyVars>>

\* The constructor throws: EnsureInitialized on the header, GetEvents on a
\* record.  Whatever is on disk stays there.
OpenFails ==
    /\ phase = "down"
    /\ "Flush" \in Modes
    /\ header = "torn" \/ ReadError \in GetEvents(records)
    /\ UNCHANGED vars

\* EnsureInitialized creates the file and fails, or dies, before the whole
\* header is in it.
CreateLogFails ==
    /\ phase = "down"
    /\ "Flush" \in Modes
    /\ TornWrites
    /\ header = "absent"
    /\ header' = "torn"
    /\ UNCHANGED <<now, phase, m_persistence, m_store, commitVars, loopVars,
                   records, tmp, historyVars>>

\* Faulty variant (mutation testing): the loop does not advance.
ReplayStepStalls ==
    /\ phase = "replaying"
    /\ cursor <= Len(queue)
    /\ m_store' = ApplyEvent(m_store, queue[cursor], now)
    /\ UNCHANGED <<now, phase, m_persistence, commitVars, loopVars, fileVars,
                   historyVars>>

\* One iteration of the loop of LogWriter::Replay.
ReplayStep ==
    /\ phase = "replaying"
    /\ cursor <= Len(queue)
    /\ m_store' = ApplyEvent(m_store, queue[cursor], now)
    /\ cursor' = cursor + 1
    /\ UNCHANGED <<now, phase, m_persistence, commitVars, queue, eventsMap,
                   fileVars, historyVars>>

ReplayDone ==
    /\ phase = "replaying"
    /\ cursor > Len(queue)
    /\ phase' = "running"
    /\ queue' = <<>>
    /\ cursor' = 1
    /\ UNCHANGED <<now, m_persistence, m_store, commitVars, eventsMap, fileVars,
                   historyVars>>

-----------------------------------------------------------------------------
(* Commit. *)

Commit(e) ==
    /\ phase = "running"
    /\ m_persistence => Len(records) < MaxRecords
    /\ Applies(m_store, e, now)
    /\ IF m_persistence
       THEN /\ phase' = "committing"
            /\ event' = e
            /\ staged' = ApplyEvent(m_store, e, now)
            /\ UNCHANGED m_store
       ELSE /\ m_store' = ApplyEvent(m_store, e, now)
            /\ UNCHANGED <<phase, event, staged>>
    /\ UNCHANGED <<now, m_persistence, loopVars, fileVars, historyVars>>

Create(key, value) ==
    Commit(RadishEvent(CREATE, NewExpiryTimestamp(m_store, now), key, Absent, value))

Rename(oldKey, newKey) == Commit(RadishEvent(RENAME, -1, oldKey, newKey, Absent))

Delete(key) == Commit(RadishEvent(DELETE, -1, key, Absent, Absent))

Clear == Commit(RadishEvent(CLEAR, -1, Absent, Absent, Absent))

TornTail(recs) == recs # <<>> /\ ~Whole(recs[Len(recs)])

\* The record is in the file and Append returns.
AppendOk ==
    /\ phase = "committing"
    /\ records' = Append(records, WriteRecord(event))
    /\ phase' = "appended"
    /\ committed' = staged
    /\ misframed' = (misframed \/ TornTail(records))
    /\ UNCHANGED <<now, m_persistence, m_store, commitVars, loopVars, header, tmp>>

\* Faulty variant (mutation testing): the stores are swapped all the same.
AppendFailsButSwaps ==
    /\ phase = "committing"
    /\ phase' = "running"
    /\ m_store' = staged
    /\ staged' = NoStore
    /\ event' = Absent
    /\ UNCHANGED <<now, m_persistence, loopVars, fileVars, historyVars>>

\* Append throws: nothing of the record is in the file, or, when writes can
\* tear, its length and the first n of its fields.  The exception leaves
\* Commit before Swap, and stagedStore is destroyed.
AppendFails ==
    /\ phase = "committing"
    /\ \/ UNCHANGED <<records, misframed>>
       \/ /\ TornWrites
          /\ \E n \in 0..(Len(Serialize(event)) - 1) :
                 records' = Append(records, WrittenRecord(event, n))
          /\ misframed' = (misframed \/ TornTail(records))
    /\ phase' = "running"
    /\ staged' = NoStore
    /\ event' = Absent
    /\ UNCHANGED <<now, m_persistence, m_store, loopVars, header, tmp, committed>>

Swap ==
    /\ phase = "appended"
    /\ m_store' = staged
    /\ phase' = "running"
    /\ staged' = NoStore
    /\ event' = Absent
    /\ UNCHANGED <<now, m_persistence, loopVars, fileVars, historyVars>>

-----------------------------------------------------------------------------
(* Compaction. *)

\* If GetEvents throws, nothing has happened yet and the database still runs.
Compact ==
    /\ phase = "running"
    /\ m_persistence
    /\ \E read \in GetEvents(records) :
           /\ read.ok
           /\ queue' = read.events
    /\ phase' = "compacting"
    /\ cursor' = 1
    /\ eventsMap' = EmptyEventsMap
    /\ UNCHANGED <<now, m_persistence, m_store, commitVars, fileVars, historyVars>>

CompactStep ==
    /\ phase = "compacting"
    /\ cursor <= Len(queue)
    /\ eventsMap' = CompactEvent(eventsMap, queue[cursor], now)
    /\ cursor' = cursor + 1
    /\ UNCHANGED <<now, phase, m_persistence, m_store, commitVars, queue, fileVars,
                   historyVars>>

\* Faulty variant (mutation testing): a temporary file left by an earlier,
\* failed compaction is appended to.
RewriteStartKeepsTmp ==
    /\ phase = "compacting"
    /\ cursor > Len(queue)
    /\ phase' = "rewriting"
    /\ queue' = <<>>
    /\ cursor' = 1
    /\ UNCHANGED <<now, m_persistence, m_store, commitVars, eventsMap, fileVars,
                   historyVars>>

\* RewriteHistory opens the temporary file, truncating it.
RewriteStart ==
    /\ phase = "compacting"
    /\ cursor > Len(queue)
    /\ phase' = "rewriting"
    /\ queue' = <<>>
    /\ cursor' = 1
    /\ tmp' = <<>>
    /\ UNCHANGED <<now, m_persistence, m_store, commitVars, eventsMap, header, records,
                   historyVars>>

Unwritten == {k \in Keys : eventsMap[k] # Absent}

\* One iteration over the unordered_map, in whatever order it has.
RewriteStep(k) ==
    /\ phase = "rewriting"
    /\ k \in Unwritten
    /\ tmp' = IF PastDeadline(eventsMap[k], now) THEN tmp
              ELSE Append(tmp, WriteRecord(eventsMap[k]))
    /\ eventsMap' = [eventsMap EXCEPT ![k] = Absent]
    /\ UNCHANGED <<now, phase, m_persistence, m_store, commitVars, queue, cursor,
                   header, records, historyVars>>

\* The temporary file is complete and replaces the log atomically.
RewriteDone ==
    /\ phase = "rewriting"
    /\ Unwritten = {}
    /\ records' = tmp
    /\ tmp' = <<>>
    /\ phase' = "running"
    /\ UNCHANGED <<now, m_persistence, m_store, commitVars, loopVars, header,
                   historyVars>>

\* Opening, writing, flushing, closing or renaming the temporary file throws;
\* what was written of it stays.
RewriteFails ==
    /\ phase = "rewriting"
    /\ phase' = "running"
    /\ eventsMap' = EmptyEventsMap
    /\ UNCHANGED <<now, m_persistence, m_store, commitVars, queue, cursor, fileVars,
                   historyVars>>

-----------------------------------------------------------------------------
\* The process exits, is killed or dies of an exception, whatever it was doing:
\* memory is gone, what was handed to the operating system is not.
ProcessEnds ==
    /\ phase # "down"
    /\ phase' = "down"
    /\ m_persistence' = FALSE
    /\ m_store' = NoStore
    /\ staged' = NoStore
    /\ event' = Absent
    /\ queue' = <<>>
    /\ cursor' = 1
    /\ eventsMap' = EmptyEventsMap
    /\ UNCHANGED <<now, fileVars, historyVars>>

\* system_clock, without steps backwards.
Tick ==
    /\ now < MaxTime
    /\ now' = now + 1
    /\ UNCHANGED <<phase, m_persistence, m_store, commitVars, loopVars, fileVars,
                   historyVars>>

Operation ==
    \/ \E k \in Keys, v \in Values : Create(k, v)
    \/ \E p \in RenamePairs : Rename(p[1], p[2])
    \/ \E k \in Keys : Delete(k)
    \/ Clear

\* What a thread inside the database does next without anybody's help.
InternalStep ==
    \/ ReplayStep
    \/ ReplayDone
    \/ AppendOk
    \/ AppendFails
    \/ Swap
    \/ CompactStep
    \/ RewriteStart
    \/ \E k \in Keys : RewriteStep(k)
    \/ RewriteDone
    \/ RewriteFails

Next ==
    \/ \E ttl \in TtlChoices : OpenVolatile(ttl)
    \/ \E ttl \in TtlChoices : OpenLog(ttl)
    \/ OpenFails
    \/ CreateLogFails
    \/ Operation
    \/ Compact
    \/ InternalStep
    \/ ProcessEnds
    \/ Tick

Spec == Init /\ [][Next]_vars /\ WF_vars(InternalStep)

-----------------------------------------------------------------------------
(* Properties. *)

\* Every variable has its type; the events a loop works on have exactly the
\* fields their type requires, also when they were read back from the file.
TypeOK ==
    /\ now \in Nat
    /\ phase \in Phases
    /\ m_persistence \in BOOLEAN
    /\ m_store \in Store
    /\ staged \in Store
    /\ phase \in {"committing", "appended"} => WellFormed(event)
    /\ queue \in Seq(Event)
    /\ \A i \in 1..Len(queue) : WellFormed(queue[i])
    /\ cursor \in Nat \ {0}
    /\ eventsMap \in EventsMap
    /\ header \in {"absent", "torn", "ok"}
    /\ records \in Seq(Record)
    /\ tmp \in Seq(Record)
    /\ committed \in Store
    /\ misframed \in BOOLEAN

\* What a reader can see of store s at time t: values and their deadlines.
Live(s, t) ==
    [k \in Keys |-> IF StoreGet(s, k, t) = Absent THEN Absent
                    ELSE <<s.m_data[k], s.m_ttlData[k]>>]

\* The store is complete and no durable event is missing from it.
Serving == m_persistence /\ phase \notin {"replaying", "appended"}

\* Whatever crashes, failed appends, recoveries and compactions lie behind, a
\* persistent database serves exactly what its successful Appends committed,
\* values and deadlines, at every later time (Commit, Replay, Compact); as
\* long as nothing was written behind a torn record.
RecoveredViewExact ==
    Serving /\ ~misframed => Live(m_store, now) = Live(committed, now)

\* When RewriteHistory is about to replace the log, the file it wrote replays
\* to what the database is serving: compaction loses and revives nothing.
CompactedLogExact ==
    phase = "rewriting" /\ Unwritten = {} /\ ~misframed =>
        Live(ReplayedStore(tmp, m_store.m_ttl, now), now) = Live(m_store, now)

\* A store with a TTL has a deadline for exactly the keys it has a value for,
\* one without has none: no Rename, Delete, overwrite or replay leaves an
\* entry of one map without its partner in the other.
TtlTracksData ==
    \A s \in {m_store, staged}, k \in Keys :
        s.m_ttlData[k] # Absent <=> HasTimeToLive(s) /\ s.m_data[k] # Absent

\* As long as nothing was written behind a torn record, the next start and the
\* next compaction can read the log, torn tail or not (LogReader::GetEvents).
TornTailTolerated == ~misframed => \A read \in GetEvents(records) : read.ok

\* An acknowledged write survives whatever happens later: a torn record left
\* by a crash or a failed write is ignored and harms no other record.
AcknowledgedSurvive == Serving => Live(m_store, now) = Live(committed, now)

\* What was stored is there again on the next run, with whatever options the
\* database is opened (Replay): the values a reader gets are the committed ones.
RestoredOnNextRun ==
    Serving /\ ~misframed =>
        \A k \in Keys : StoreGet(m_store, k, now) = StoreGet(committed, k, now)

\* Whatever a crash left of the file, the next start can open it
\* (EnsureInitialized, Replay): nothing on disk makes every start throw.
RestartAccepted ==
    phase = "down" /\ ~misframed => ENABLED (\E ttl \in TtlChoices : OpenLog(ttl))

\* Rename moves the value it found under the old key to the new key (the
\* staged store of Commit, before the event is written).
RenameMovesValue ==
    phase = "committing" /\ event.type = RENAME =>
        staged.m_data[event.renameKey] = m_store.m_data[event.key]

\* Every operation, recovery and compaction comes to an end: the database is
\* back to serving, or the process is gone.
OperationsEnd == (phase \notin {"running", "down"}) ~> (phase \in {"running", "down"})

\* A persistent database without expiry is a DurableMap.  While it serves, the
\* map is the store in memory (the staged one between Append and Swap); while
\* it does not, what recovery has to come up with.
DurableContents ==
    IF Serving THEN m_store.m_data
    ELSE IF phase = "appended" THEN staged.m_data
    ELSE committed.m_data

Durable == INSTANCE DurableMap WITH map <- DurableContents, forfeited <- misframed

ImplementsDurableMap == Durable!Spec
=============================================================================
