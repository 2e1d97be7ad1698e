--------------------------- MODULE RadishThreads ---------------------------
(***************************************************************************)
(* Threads that share one RadishDB (include/RadishDB.h): its shared_mutex, *)
(* the mutex of its PersistenceLog (persistence/PersistenceLog.h) and what *)
(* the threads do between locking and unlocking, interleaved.              *)
(*                                                                         *)
(* pc[t] is where thread t stands:                                         *)
(*   "idle"        not in a call                                           *)
(*   "calling"     waits for m_mutex                                       *)
(*   "reading"     shared_lock: visits the keys it reads one by one        *)
(*   "locked"      lock_guard, nothing done                                *)
(*   "appending"   Commit, the event applied to stagedStore                *)
(*   "writing"     in PersistenceLog::Append, its mutex held               *)
(*   "swapping"    Commit, the event is in the log                         *)
(*   "swapped"     in RadishStore::Swap, m_data swapped, m_ttlData not     *)
(*   "compacting"  in PersistenceLog::Compact, its mutex held              *)
(*   "leaving"     the outcome is determined, the guard not yet destroyed  *)
(*                                                                         *)
(* Expiry, crashes and torn records are RadishDB's subject (module         *)
(* RadishDB): here no deadline passes, and an append that throws leaves    *)
(* nothing in the file.                                                    *)
(***************************************************************************)
EXTENDS RadishLog

CONSTANTS
    Threads,
    NoThread,
    Calls,        \* the calls threads make, see Call
    NoCall,
    TtlChoices,   \* the ttl arguments of the constructor
    Deadlines,    \* what NewExpiryTimestamp may return under a TTL
    FirstEvents,  \* the events (sequences of them) the constructor may replay
    MaxCalls      \* bound: how many calls are made

\* A read visits keys: one of them (Get, Exists, IsExpired) or all (Scan, Size).
ReadCall(keys)  == [op |-> "read", keys |-> keys]
WriteCall(e)    == [op |-> "write", event |-> e]
CompactCall     == [op |-> "compact"]

Call == {ReadCall(S) : S \in SUBSET Keys} \cup {CompactCall}
            \cup {WriteCall(e) : e \in {x \in Event : WellFormed(x)}}

ASSUME ThreadsAssumption ==
    /\ NoThread \notin Threads
    /\ \A c \in Calls : \/ c.op = "read" /\ c.keys \subseteq Keys
                        \/ c.op = "write" /\ WellFormed(c.event)
                        \/ c.op = "compact"
    /\ NoCall \notin Calls
    /\ TtlChoices \subseteq Nat \cup {NoExpiry}
    /\ Deadlines \subseteq Nat \ {0}
    /\ \A events \in FirstEvents :
        /\ events \in Seq(Event)
        /\ \A i \in 1..Len(events) :
            /\ WellFormed(events[i])
            /\ events[i].type = CREATE => events[i].timestamp \in Deadlines \cup {NoExpiry}
    /\ MaxCalls \in Nat

VARIABLES
    m_persistence,  \* does the optional hold a PersistenceLog?
    m_store,
    records,        \* the log file
    exclusive,      \* the thread that holds m_mutex exclusively, or NoThread
    sharers,        \* the threads that hold it shared
    logMutex,       \* the thread that holds PersistenceLog::m_mutex, or NoThread
    pc,
    call,           \* the call each thread is in, or NoCall
    event,          \* Commit's event, per thread, or Absent
    staged,         \* Commit's stagedStore, per thread
    visited,        \* what a read has seen: key -> <<value, deadline>>
    outcome,        \* what the call returns
    calls           \* how many calls have been made

lockVars  == <<exclusive, sharers, logMutex>>
dbVars    == <<m_persistence, m_store, records>>
localVars == <<pc, call, event, staged, visited, outcome>>
vars == <<dbVars, lockVars, localVars, calls>>

Outcome(kind, entries) == [kind |-> kind, entries |-> entries]
Pending == Outcome("pending", Absent)

NoStore == EmptyStore(NoExpiry)
NoEntries == [k \in {} |-> Absent]

LogOf(events) == [i \in 1..Len(events) |-> WriteRecord(events[i])]

\* A log written without a TTL is reopened without one here: under a TTL the
\* timestamp NoExpiry would lie in the past, and nothing expires here.
Reopens(events, ttl) ==
    ttl = NoExpiry \/ \A i \in 1..Len(events) :
                         events[i].type = CREATE => events[i].timestamp # NoExpiry

\* The constructor has returned; it locks nothing.
Init ==
    /\ m_persistence \in BOOLEAN
    /\ \E ttl \in TtlChoices :
           /\ records \in IF m_persistence
                          THEN {LogOf(events) : events \in {e \in FirstEvents : Reopens(e, ttl)}}
                          ELSE {<<>>}
           /\ m_store = ReplayedStore(records, ttl, 0)
    /\ exclusive = NoThread
    /\ sharers = {}
    /\ logMutex = NoThread
    /\ pc = [t \in Threads |-> "idle"]
    /\ call = [t \in Threads |-> NoCall]
    /\ event = [t \in Threads |-> Absent]
    /\ staged = [t \in Threads |-> NoStore]
    /\ visited = [t \in Threads |-> NoEntries]
    /\ outcome = [t \in Threads |-> Pending]
    /\ calls = 0

Goto(t, label) == pc' = [pc EXCEPT ![t] = label]

Decide(t, kind, entries) == outcome' = [outcome EXCEPT ![t] = Outcome(kind, entries)]

-----------------------------------------------------------------------------
(* Entering and leaving. *)

Invoke(t, c) ==
    /\ pc[t] = "idle"
    /\ calls < MaxCalls
    /\ calls' = calls + 1
    /\ call' = [call EXCEPT ![t] = c]
    /\ Goto(t, "calling")
    /\ UNCHANGED <<dbVars, lockVars, event, staged, visited, outcome>>

\* Faulty variant (mutation testing): the read takes no lock.
LockSharedUnguarded(t) ==
    /\ pc[t] = "calling"
    /\ call[t].op = "read"
    /\ sharers' = sharers \cup {t}
    /\ Goto(t, "reading")
    /\ UNCHANGED <<dbVars, exclusive, logMutex, call, event, staged, visited, outcome, calls>>

\* std::shared_lock.
LockShared(t) ==
    /\ pc[t] = "calling"
    /\ call[t].op = "read"
    /\ exclusive = NoThread
    /\ sharers' = sharers \cup {t}
    /\ Goto(t, "reading")
    /\ UNCHANGED <<dbVars, exclusive, logMutex, call, event, staged, visited, outcome, calls>>

\* Faulty variant (mutation testing): writers, too, only lock out readers.
LockExclusiveAgainstReaders(t) ==
    /\ pc[t] = "calling"
    /\ call[t].op # "read"
    /\ sharers = {}
    /\ exclusive' = t
    /\ Goto(t, "locked")
    /\ UNCHANGED <<dbVars, sharers, logMutex, call, event, staged, visited, outcome, calls>>

\* std::lock_guard.
LockExclusive(t) ==
    /\ pc[t] = "calling"
    /\ call[t].op # "read"
    /\ exclusive = NoThread
    /\ sharers = {}
    /\ exclusive' = t
    /\ Goto(t, "locked")
    /\ UNCHANGED <<dbVars, sharers, logMutex, call, event, staged, visited, outcome, calls>>

\* The guard's destructor, also when an exception is passing through.
Return(t) ==
    /\ pc[t] = "leaving"
    /\ exclusive' = IF exclusive = t THEN NoThread ELSE exclusive
    /\ sharers' = sharers \ {t}
    /\ Goto(t, "idle")
    /\ call' = [call EXCEPT ![t] = NoCall]
    /\ event' = [event EXCEPT ![t] = Absent]
    /\ staged' = [staged EXCEPT ![t] = NoStore]
    /\ visited' = [visited EXCEPT ![t] = NoEntries]
    /\ outcome' = [outcome EXCEPT ![t] = Pending]
    /\ UNCHANGED <<dbVars, logMutex, calls>>

-----------------------------------------------------------------------------
(* Get, Scan, Size, Exists, IsExpired. *)

Entry(data, ttlData, k) == <<data[k], ttlData[k]>>

ReadKey(t, k) ==
    /\ pc[t] = "reading"
    /\ k \in call[t].keys \ DOMAIN visited[t]
    /\ visited' = [visited EXCEPT ![t] =
           [x \in DOMAIN @ \cup {k} |->
               IF x = k THEN Entry(m_store.m_data, m_store.m_ttlData, k) ELSE @[x]]]
    /\ UNCHANGED <<dbVars, lockVars, pc, call, event, staged, outcome, calls>>

ReadDone(t) ==
    /\ pc[t] = "reading"
    /\ DOMAIN visited[t] = call[t].keys
    /\ Decide(t, "read", visited[t])
    /\ Goto(t, "leaving")
    /\ UNCHANGED <<dbVars, lockVars, call, event, staged, visited, calls>>

-----------------------------------------------------------------------------
(* Create, Rename, Delete, Clear. *)

\* The event of the call; Create reads the clock under the lock.
Stamped(e, d) == IF e.type = CREATE THEN [e EXCEPT !.timestamp = d] ELSE e

\* Commit copies the store and applies the event to the copy, through
\* PersistenceLog::Apply, that is, under its mutex, if there is one.
Stage(t) ==
    /\ pc[t] = "locked"
    /\ call[t].op = "write"
    /\ m_persistence => logMutex = NoThread
    /\ \E d \in IF HasTimeToLive(m_store) THEN Deadlines ELSE {NoExpiry} :
           LET e == Stamped(call[t].event, d)
           IN  /\ event' = [event EXCEPT ![t] = e]
               /\ IF Applies(m_store, e, 0)
                  THEN /\ staged' = [staged EXCEPT ![t] = ApplyEvent(m_store, e, 0)]
                       /\ Goto(t, IF m_persistence THEN "appending" ELSE "swapping")
                       /\ UNCHANGED outcome
                  ELSE /\ Decide(t, "false", Absent)
                       /\ Goto(t, "leaving")
                       /\ UNCHANGED staged
    /\ UNCHANGED <<dbVars, lockVars, call, visited, calls>>

LockLog(t) ==
    /\ pc[t] = "appending"
    /\ logMutex = NoThread
    /\ logMutex' = t
    /\ Goto(t, "writing")
    /\ UNCHANGED <<dbVars, exclusive, sharers, call, event, staged, visited, outcome, calls>>

AppendOk(t) ==
    /\ pc[t] = "writing"
    /\ records' = Append(records, WriteRecord(event[t]))
    /\ logMutex' = NoThread
    /\ Goto(t, "swapping")
    /\ UNCHANGED <<m_persistence, m_store, exclusive, sharers, call, event, staged, visited,
                   outcome, calls>>

\* Faulty variant (mutation testing): the mutex is not released on this path.
AppendThrowsLocked(t) ==
    /\ pc[t] = "writing"
    /\ Decide(t, "exception", Absent)
    /\ Goto(t, "leaving")
    /\ UNCHANGED <<dbVars, lockVars, call, event, staged, visited, calls>>

AppendThrows(t) ==
    /\ pc[t] = "writing"
    /\ logMutex' = NoThread
    /\ Decide(t, "exception", Absent)
    /\ Goto(t, "leaving")
    /\ UNCHANGED <<dbVars, exclusive, sharers, call, event, staged, visited, calls>>

\* RadishStore::Swap, map by map.
SwapData(t) ==
    /\ pc[t] = "swapping"
    /\ m_store' = [m_store EXCEPT !.m_data = staged[t].m_data]
    /\ staged' = [staged EXCEPT ![t].m_data = m_store.m_data]
    /\ Decide(t, "true", Absent)
    /\ Goto(t, "swapped")
    /\ UNCHANGED <<m_persistence, records, lockVars, call, event, visited, calls>>

SwapTtlData(t) ==
    /\ pc[t] = "swapped"
    /\ m_store' = [m_store EXCEPT !.m_ttlData = staged[t].m_ttlData]
    /\ staged' = [staged EXCEPT ![t].m_ttlData = m_store.m_ttlData]
    /\ Goto(t, "leaving")
    /\ UNCHANGED <<m_persistence, records, lockVars, call, event, visited, outcome, calls>>

-----------------------------------------------------------------------------
(* Compact. *)

CompactVolatile(t) ==
    /\ pc[t] = "locked"
    /\ call[t].op = "compact"
    /\ ~m_persistence
    /\ Decide(t, "true", Absent)
    /\ Goto(t, "leaving")
    /\ UNCHANGED <<dbVars, lockVars, call, event, staged, visited, calls>>

CompactStart(t) ==
    /\ pc[t] = "locked"
    /\ call[t].op = "compact"
    /\ m_persistence
    /\ logMutex = NoThread
    /\ logMutex' = t
    /\ Goto(t, "compacting")
    /\ UNCHANGED <<dbVars, exclusive, sharers, call, event, staged, visited, outcome, calls>>

\* The events that survive the strategies, and the logs made of them.
Survivors(recs) ==
    LET n == Len(recs)
        events[i \in 0..n] ==
            IF i = 0 THEN EmptyEventsMap
            ELSE CompactEvent(events[i - 1], Deserialize(recs[i].fields), 0)
    IN  events[n]

Rewritten(events) ==
    LET kept == {k \in Keys : events[k] # Absent}
        n    == Cardinality(kept)
    IN  {[i \in 1..n |-> WriteRecord(events[order[i]])] :
            order \in {f \in [1..n -> kept] : \A i, j \in 1..n : f[i] = f[j] => i = j}}

CompactDone(t) ==
    /\ pc[t] = "compacting"
    /\ records' \in Rewritten(Survivors(records))
    /\ logMutex' = NoThread
    /\ Decide(t, "true", Absent)
    /\ Goto(t, "leaving")
    /\ UNCHANGED <<m_persistence, m_store, exclusive, sharers, call, event, staged, visited, calls>>

CompactThrows(t) ==
    /\ pc[t] = "compacting"
    /\ logMutex' = NoThread
    /\ Decide(t, "exception", Absent)
    /\ Goto(t, "leaving")
    /\ UNCHANGED <<dbVars, exclusive, sharers, call, event, staged, visited, calls>>

-----------------------------------------------------------------------------
ThreadStep(t) ==
    \/ LockShared(t)
    \/ LockExclusive(t)
    \/ Return(t)
    \/ \E k \in Keys : ReadKey(t, k)
    \/ ReadDone(t)
    \/ Stage(t)
    \/ LockLog(t)
    \/ AppendOk(t)
    \/ AppendThrows(t)
    \/ SwapData(t)
    \/ SwapTtlData(t)
    \/ CompactVolatile(t)
    \/ CompactStart(t)
    \/ CompactDone(t)
    \/ CompactThrows(t)

Next ==
    \E t \in Threads :
        \/ \E c \in Calls : Invoke(t, c)
        \/ ThreadStep(t)

\* A thread inside a call keeps running.  Nothing is assumed of the order in
\* which the mutexes serve those who wait.
Spec == Init /\ [][Next]_vars /\ \A t \in Threads : WF_vars(ThreadStep(t))

-----------------------------------------------------------------------------
(* Properties. *)

Labels == {"idle", "calling", "reading", "locked", "appending", "writing",
           "swapping", "swapped", "compacting", "leaving"}

\* Every variable has its type, and the locks are what pc says they are: a
\* reader holds m_mutex shared, a writer exclusively, with nobody beside it,
\* and PersistenceLog's mutex is held by nobody but that writer.
TypeOK ==
    /\ m_persistence \in BOOLEAN
    /\ m_store \in Store
    /\ pc \in [Threads -> Labels]
    /\ staged \in [Threads -> Store]
    /\ exclusive \in Threads \cup {NoThread}
    /\ sharers \subseteq {t \in Threads : pc[t] \in {"reading", "leaving"}}
    /\ exclusive # NoThread => sharers = {}
    /\ logMutex \in {NoThread, exclusive}
    /\ \A t \in Threads :
        /\ pc[t] = "reading" => t \in sharers
        /\ pc[t] \in Labels \ {"idle", "calling", "reading", "leaving"} => t = exclusive

\* When no writer is inside, the log replays to exactly the store in memory:
\* the order of the appends is the order of the swaps, and no copy of the
\* store taken by one writer overwrites what another has committed (Commit).
LogAgreesWithMemory ==
    m_persistence /\ exclusive = NoThread => ReplayedStore(records, m_store.m_ttl, 0) = m_store

\* Every call returns, also if appends and compactions throw: no thread waits
\* forever for one of the two mutexes (as long as not everybody keeps calling).
CallsReturn == \A t \in Threads : pc[t] # "idle" ~> pc[t] = "idle"

\* The entries other threads will see once they get the lock: a Swap that has
\* begun counts as done.
Contents ==
    [k \in Keys |->
        IF exclusive # NoThread /\ pc[exclusive] = "swapped"
        THEN Entry(m_store.m_data, staged[exclusive].m_ttlData, k)
        ELSE Entry(m_store.m_data, m_store.m_ttlData, k)]

Progress == [t \in Threads |-> [call |-> call[t], outcome |-> outcome[t]]]

Linear == INSTANCE LinearStore WITH
    contents <- Contents, progress <- Progress, Deadlines <- Deadlines \cup {Absent}

\* Reads and writes of concurrent threads are linearizable: no read sees a
\* store between Append and Swap, or half swapped, or two states in one Scan,
\* and a write that returns true, false or an exception did just that.
Linearizable == Linear!Spec
=============================================================================
