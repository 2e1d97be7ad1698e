----------------------- MODULE RadishRefinementProofs -----------------------
(***************************************************************************)
(* A persistent RadishDB without expiry implements DurableMap, whatever    *)
(* its keys, values, modes and bounds are.                                 *)
(*                                                                         *)
(* By MemoryInv the contents of the map are the committed data as long as  *)
(* no frame is broken, wherever the operation in progress stands; they     *)
(* change in AppendOk alone, by the event that Commit staged.  Afterwards  *)
(* only Forfeit is left to take.                                           *)
(***************************************************************************)
EXTENDS RadishDurableProofs

LEMMA ContentsAreData ==
    ASSUME DurableInv
    PROVE  /\ DurableContents \in DataMap
           /\ ~misframed => DurableContents = committed.m_data
<1>1. m_store.m_data \in DataMap /\ staged.m_data \in DataMap /\ committed.m_data \in DataMap
  BY DEF DurableInv, PlainInv, IsPlain
<1>2. ~misframed => MemoryInv
  BY DEF DurableInv
<1> QED
  BY <1>1, <1>2 DEF DurableContents, MemoryInv

\* The history is written by the two outcomes of Append only.
LEMMA OnlyAppendCommits ==
    ASSUME [Next]_vars, ~AppendOk
    PROVE  committed' = committed
<1>1. CASE \E ttl \in TtlChoices : OpenVolatile(ttl) \/ OpenLog(ttl)
  BY <1>1 DEF OpenVolatile, OpenLog, historyVars
<1>2. CASE OpenFails \/ CreateLogFails \/ Compact \/ ProcessEnds \/ Tick \/ UNCHANGED vars
  BY <1>2 DEF OpenFails, CreateLogFails, Compact, ProcessEnds, Tick, historyVars, vars
<1>3. CASE Operation
  BY <1>3 DEF Operation, Create, Rename, Delete, Clear, Commit, historyVars
<1>4. CASE ReplayStep \/ ReplayDone \/ AppendFails \/ Swap \/ CompactStep
  BY <1>4 DEF ReplayStep, ReplayDone, AppendFails, Swap, CompactStep, historyVars
<1>5. CASE RewriteStart \/ (\E k \in Keys : RewriteStep(k)) \/ RewriteDone \/ RewriteFails
  BY <1>5 DEF RewriteStart, RewriteStep, RewriteDone, RewriteFails, historyVars
<1> QED
  BY <1>1, <1>2, <1>3, <1>4, <1>5 DEF Next, InternalStep

LEMMA MisframedForGood ==
    ASSUME [Next]_vars, misframed
    PROVE  misframed'
<1>1. CASE \E ttl \in TtlChoices : OpenVolatile(ttl) \/ OpenLog(ttl)
  BY <1>1 DEF OpenVolatile, OpenLog, historyVars
<1>2. CASE OpenFails \/ CreateLogFails \/ Compact \/ ProcessEnds \/ Tick \/ UNCHANGED vars
  BY <1>2 DEF OpenFails, CreateLogFails, Compact, ProcessEnds, Tick, historyVars, vars
<1>3. CASE Operation
  BY <1>3 DEF Operation, Create, Rename, Delete, Clear, Commit, historyVars
<1>4. CASE ReplayStep \/ ReplayDone \/ Swap \/ CompactStep
  BY <1>4 DEF ReplayStep, ReplayDone, Swap, CompactStep, historyVars
<1>5. CASE RewriteStart \/ (\E k \in Keys : RewriteStep(k)) \/ RewriteDone \/ RewriteFails
  BY <1>5 DEF RewriteStart, RewriteStep, RewriteDone, RewriteFails, historyVars
<1>6. CASE AppendOk \/ AppendFails
  BY <1>6 DEF AppendOk, AppendFails
<1> QED
  BY <1>1, <1>2, <1>3, <1>4, <1>5, <1>6 DEF Next, InternalStep

\* What the event of a Commit does to the data is one mutation of the map, or
\* none at all.
LEMMA EventIsMutation ==
    ASSUME NoSelfRename, NEW d \in DataMap, NEW e, EventFine(e)
    PROVE  \/ \E k \in Keys, v \in Values : DataApply(d, e) = [d EXCEPT ![k] = v]
           \/ \E p \in RenamePairs :
                 /\ d[p[1]] # Absent
                 /\ DataApply(d, e) = [k \in Keys |-> IF k = p[2] THEN d[p[1]]
                                                      ELSE IF k = p[1] THEN Absent ELSE d[k]]
           \/ \E k \in Keys : DataApply(d, e) = [d EXCEPT ![k] = Absent]
           \/ DataApply(d, e) = [k \in Keys |-> Absent]
           \/ DataApply(d, e) = d
<1>0. /\ WellFormed(e) /\ e.type \in EventType
      /\ e.type # CLEAR => e.key \in Keys
      /\ e.type = RENAME => e.renameKey \in Keys
      /\ e.type = CREATE => e.payload \in Values
  BY DEF EventFine, WellFormed, Event, EventType, CREATE, RENAME, DELETE, CLEAR
<1> DEFINE r == DataApply(d, e)
<1>1. /\ e.type = CREATE => r = [d EXCEPT ![e.key] = e.payload]
      /\ e.type = RENAME => r = IF d[e.key] = Absent THEN d ELSE MoveEntry(d, e.key, e.renameKey)
      /\ e.type = DELETE => r = [d EXCEPT ![e.key] = Absent]
      /\ e.type = CLEAR => r = EmptyData
  <2>1. 0 \in Int
    OBVIOUS
  <2> QED
    BY <2>1, <1>0, DataApplyFacts, Zenon
<1> HIDE DEF r
<1>2. CASE e.type = CREATE
  BY <1>0, <1>1, <1>2 DEF CREATE, CLEAR, r
<1>3. CASE e.type = RENAME
  <2>1. CASE d[e.key] = Absent
    BY <1>1, <1>3, <2>1 DEF r
  <2>2. CASE d[e.key] # Absent
    <3> DEFINE p == <<e.key, e.renameKey>>
    <3>1. p \in RenamePairs /\ e.key # e.renameKey /\ p[1] = e.key /\ p[2] = e.renameKey
      BY <1>3 DEF EventFine, NoSelfRename
    <3>2. e.key \in Keys /\ e.renameKey \in Keys
      BY <1>0, <1>3 DEF RENAME, CLEAR
    <3>3. r = MoveEntry(d, e.key, e.renameKey)
      BY <1>1, <1>3, <2>2
    <3>4. r = [k \in Keys |-> IF k = e.renameKey THEN d[e.key]
                              ELSE IF k = e.key THEN Absent ELSE d[k]]
      BY <3>1, <3>2, <3>3 DEF MoveEntry, DataMap
    <3>5. r = [k \in Keys |-> IF k = p[2] THEN d[p[1]]
                              ELSE IF k = p[1] THEN Absent ELSE d[k]]
      BY <3>1, <3>4
    <3> HIDE DEF p
    <3>6. \E q \in RenamePairs :
              /\ d[q[1]] # Absent
              /\ r = [k \in Keys |-> IF k = q[2] THEN d[q[1]]
                                     ELSE IF k = q[1] THEN Absent ELSE d[k]]
      BY <2>2, <3>1, <3>5, Zenon
    <3> QED
      BY <3>6, Zenon DEF r
  <2> QED
    BY <2>1, <2>2
<1>4. CASE e.type = DELETE
  BY <1>0, <1>1, <1>4 DEF DELETE, CLEAR, r
<1>5. CASE e.type = CLEAR
  BY <1>1, <1>5 DEF r, EmptyData
<1> QED
  BY <1>0, <1>2, <1>3, <1>4, <1>5 DEF EventType

LEMMA DurableMapStep ==
    ASSUME NoSelfRename, DurableInv, DurableInv', [Next]_vars
    PROVE  [Durable!Next]_<<DurableContents, misframed>>
<1>0. misframed \in BOOLEAN /\ misframed' \in BOOLEAN
  BY DEF DurableInv, TypeInv, TypeOK
<1>c. /\ DurableContents \in DataMap
      /\ ~misframed => DurableContents = committed.m_data
  BY ContentsAreData
<1>d. /\ DurableContents' \in DataMap
      /\ ~misframed' => DurableContents' = committed'.m_data
  <2>1. /\ m_store'.m_data \in DataMap /\ staged'.m_data \in DataMap
        /\ committed'.m_data \in DataMap
    BY DEF DurableInv, PlainInv, IsPlain
  <2>2. ~misframed' => MemoryInv'
    BY DEF DurableInv
  <2> QED
    BY <2>1, <2>2 DEF DurableContents, MemoryInv
<1>1. CASE misframed'
  <2>1. misframed' = TRUE
    BY <1>1, <1>0
  <2> QED
    BY <2>1, <1>d DEF Durable!Next, Durable!Forfeit, Durable!Maps, DataMap
<1>2. CASE ~misframed'
  <2>1. ~misframed /\ misframed' = misframed
    BY <1>0, <1>2, MisframedForGood
  <2> DEFINE d == committed.m_data
             d2 == committed'.m_data
  <2>2. DurableContents = d /\ DurableContents' = d2 /\ d \in DataMap
    BY <2>1, <1>2, <1>c, <1>d
  <2>3. CASE ~AppendOk
    BY <2>1, <2>2, <2>3, OnlyAppendCommits
  <2>4. CASE AppendOk
    <3>1. d2 = DataApply(d, event) /\ EventFine(event)
      BY <2>1, <2>4 DEF AppendOk, DurableInv, StagedInv, MemoryInv, Serving, ModeInv
    <3> HIDE DEF d, d2
    <3>2. \/ \E k \in Keys, v \in Values : d2 = [d EXCEPT ![k] = v]
          \/ \E p \in RenamePairs :
                 /\ d[p[1]] # Absent
                 /\ d2 = [k \in Keys |-> IF k = p[2] THEN d[p[1]]
                                         ELSE IF k = p[1] THEN Absent ELSE d[k]]
          \/ \E k \in Keys : d2 = [d EXCEPT ![k] = Absent]
          \/ d2 = [k \in Keys |-> Absent]
          \/ d2 = d
      BY <2>2, <3>1, EventIsMutation
    <3> QED
      BY <2>1, <2>2, <3>2
      DEF Durable!Next, Durable!Mutation, Durable!Set, Durable!Move, Durable!Remove,
          Durable!Wipe
  <2> QED
    BY <2>3, <2>4
<1> QED
  BY <1>1, <1>2

LEMMA DurableMapInit == Init => Durable!Init
<1> SUFFICES ASSUME Init PROVE Durable!Init
  OBVIOUS
<1>1. DurableContents = committed.m_data
  BY DEF Init, DurableContents, Serving
<1> QED
  BY <1>1 DEF Init, Durable!Init, NoStore, EmptyStore

\* Without expiry and without self-renames RadishDB implements DurableMap:
\* crashes, recoveries, failed operations and compactions are invisible, and
\* a mutation takes effect as a whole when its Append succeeds.
THEOREM DurableMapImplemented ==
    ASSUME NeverExpires, NoSelfRename
    PROVE  Spec => ImplementsDurableMap
<1>1. DurableInv /\ [Next]_vars => DurableInv'
  BY DurableStep
<1>2. DurableInv /\ DurableInv' /\ [Next]_vars => [Durable!Next]_<<DurableContents, misframed>>
  BY DurableMapStep
<1> QED
  BY <1>1, <1>2, DurableInit, DurableMapInit, PTL DEF Spec, ImplementsDurableMap, Durable!Spec
=============================================================================
