------------------------- MODULE TcpPipelineProofs -------------------------
(***************************************************************************)
(* The only client of a fresh database: its replies are those of executing *)
(* its requests one at a time, and what the log holds for the next server  *)
(* is what its requests did, however they were pipelined, fragmented and   *)
(* cut short.                                                              *)
(*                                                                         *)
(* The second needs one fact about any number of clients: if none renames  *)
(* a key to itself, compacting the log leaves what replaying it gives.     *)
(***************************************************************************)
EXTENDS TcpServerProofs

-----------------------------------------------------------------------------
(* The invariant. *)

EmptyDB == EmptyStore(NoExpiry)

\* No client renames a key to itself: the store loses such a key, the rename
\* strategy keeps it, and the final compaction would bring it back.
NoSelfRenameRequests ==
    \A r \in Requests : r.name = "RENAME" /\ Accepted(r) => r.args[1] # r.args[2]

\* Replay and compaction make the same of event e.
PlainEvent(e) ==
    /\ e.type = CREATE => e.timestamp = NoExpiry
    /\ NoSelfRenameRequests /\ e.type = RENAME => e.key # e.renameKey

\* What compacting the log would keep is what replaying it gives.
FileInv ==
    /\ current # Absent => \A i \in 1..Len(current.pending) : PlainEvent(current.pending[i])
    /\ (\A s \in Sessions : commits[s] = <<>>) => survivors = EmptyEventsMap
    /\ NoSelfRenameRequests => logged = RewrittenStore(survivors)

\* The store before the n-th request, if those before it are executed one at
\* a time.
StoreBefore(q, n) == StoreAfter(SubSeq(q, 1, n - 1))

\* How many of the first k events apply, one after the other.
AppliedOf(store, events, k) ==
    Cardinality({j \in 1..k : Applies(Executed(store, SubSeq(events, 1, j - 1)), events[j], 0)})

\* The n-th request is in execution, its first k events are committed.
ExecutedTo(k, q, n, cur, store) ==
    LET events == EventsFor(q[n])
        before == StoreBefore(q, n)
    IN  /\ store = Executed(before, SubSeq(events, 1, k))
        /\ cur.pending = SubSeq(events, k + 1, Len(events))
        /\ cur.applied = AppliedOf(before, events, k)

\* What is left of n requests, of which answered were answered.
LoggedOK(log, q, n, answered) ==
    LET events == EventsFor(q[n])
        before == StoreBefore(q, n)
    IN  IF n = 0 THEN log = EmptyDB
        ELSE IF answered >= n THEN log = Executed(before, events)
        ELSE \E k \in 0..Len(events) : log = Executed(before, SubSeq(events, 1, k))

AnswersOK(q, n, rep) ==
    \A i \in 1..Len(rep) : i <= n => rep[i] = SequentialReply(SubSeq(q, 1, i))

\* The database and the one session it serves; persistent says whether it
\* connected to a persistent database.
DataInv(status, q, n, rep, busy, cur, running, flush, store, log, persistent) ==
    /\ status = "new" => ~persistent /\ log = EmptyDB /\ store = EmptyDB
    /\ status = "open" =>
           /\ running
           /\ persistent <=> flush
           /\ log = IF flush THEN store ELSE EmptyDB
           /\ busy # "execute" => store = StoreAfter(SubSeq(q, 1, n))
    /\ busy = "execute" => \E k \in 0..Len(EventsFor(q[n])) : ExecutedTo(k, q, n, cur, store)
    /\ NoSelfRenameRequests /\ status = "closed" =>
           IF persistent THEN LoggedOK(log, q, n, Len(rep)) ELSE log = EmptyDB
    /\ AnswersOK(q, n, rep)

DataOK(s) ==
    DataInv(session[s].status, sent[s], Len(commits[s]), Replies(s), Busy(s), current,
            up # "down", flushing, m_store, logged, s \in durable)

OnlyClientInv == \A s \in Sessions : Sessions = {s} => DataOK(s)
-----------------------------------------------------------------------------
(* Prefixes of a sequence. *)

LEMMA PrefixFacts ==
    ASSUME NEW S, NEW x \in Seq(S), NEW k \in 0..Len(x)
    PROVE  /\ SubSeq(x, 1, k) \in Seq(S) /\ Len(SubSeq(x, 1, k)) = k
           /\ \A i \in 1..k : SubSeq(x, 1, k)[i] = x[i]
<1> DEFINE a == SubSeq(x, 1, k)
<1>0. Len(x) \in Nat /\ k \in Nat /\ k <= Len(x)
  BY LenProperties
<1>1. \A i \in 1..k : x[i] \in S
  BY <1>0, ElementOfSeq
<1>2. /\ a \in Seq(S) /\ Len(a) = IF 1 <= k THEN k - 1 + 1 ELSE 0
      /\ \A i \in 1..(k - 1 + 1) : a[i] = x[1 + i - 1]
  <2>1. 1 \in Int /\ k \in Int
    BY <1>0
  <2> QED
    BY <1>1, <2>1, SubSeqProperties
<1> HIDE DEF a
<1>3. Len(a) = k /\ \A i \in 1..k : a[i] = x[i]
  BY <1>0, <1>2
<1> QED
  BY <1>2, <1>3 DEF a

\* Two sequences that agree up to k have the same prefixes.
LEMMA PrefixSame ==
    ASSUME NEW S, NEW x \in Seq(S), NEW y \in Seq(S), NEW k \in 0..Len(x), k <= Len(y),
           \A i \in 1..k : y[i] = x[i]
    PROVE  SubSeq(y, 1, k) = SubSeq(x, 1, k)
<1> DEFINE a == SubSeq(x, 1, k)
           b == SubSeq(y, 1, k)
<1>0. k \in Nat /\ k \in 0..Len(y)
  BY LenProperties
<1>1. a \in Seq(S) /\ Len(a) = k /\ \A i \in 1..k : a[i] = x[i]
  BY PrefixFacts
<1>2. b \in Seq(S) /\ Len(b) = k /\ \A i \in 1..k : b[i] = y[i]
  BY <1>0, PrefixFacts
<1> HIDE DEF a, b
<1>3. b = a
  BY <1>1, <1>2, SeqEqual
<1> QED
  BY <1>3 DEF a, b

LEMMA PrefixWhole ==
    ASSUME NEW S, NEW x \in Seq(S)
    PROVE  SubSeq(x, 1, Len(x)) = x
<1> DEFINE a == SubSeq(x, 1, Len(x))
<1>1. Len(x) \in Nat /\ Len(x) \in 0..Len(x)
  BY LenProperties
<1>2. a \in Seq(S) /\ Len(a) = Len(x) /\ \A i \in 1..Len(x) : a[i] = x[i]
  BY <1>1, PrefixFacts
<1> HIDE DEF a
<1>3. a = x
  BY <1>2, SeqEqual
<1> QED
  BY <1>3 DEF a

-----------------------------------------------------------------------------
(* Executing events one after the other. *)

\* A call of the database: it commits the event or changes nothing.
Called(store, e) == IF Applies(store, e, 0) THEN ApplyEvent(store, e, 0) ELSE store

LEMMA CalledType ==
    ASSUME NEW store \in Store, NEW e, WellFormed(e)
    PROVE  Called(store, e) \in Store
BY ApplyEventType DEF Called

\* What Executed computes is where a trace of calls ends.
LEMMA ExecutedIs ==
    ASSUME NEW events, NEW n \in Nat, Len(events) = n, NEW store, NEW h, h[0] = store,
           \A j \in 1..n : h[j] = Called(h[j - 1], events[j])
    PROVE  Executed(store, events) = h[n]
<1> DEFINE F(f) == [j \in 0..n |->
                       IF j = 0 THEN store
                       ELSE IF Applies(f[j - 1], events[j], 0)
                            THEN ApplyEvent(f[j - 1], events[j], 0) ELSE f[j - 1]]
           rec == CHOOSE f : f = F(f)
           g == [j \in 0..n |-> h[j]]
<1>1. g = F(g)
  BY DEF Called
<1>2. Executed(store, events) = rec[n]
  BY Zenon DEF Executed
<1>3. rec = F(rec)
  BY <1>1, Zenon
<1> HIDE DEF rec, g
<1>4. /\ rec[0] = store
      /\ \A j \in 1..n : rec[j] = Called(rec[j - 1], events[j])
  BY <1>3 DEF Called
<1> HIDE DEF F
<1> DEFINE Bad == {j \in 0..n : rec[j] # h[j]}
<1>5. Bad = {}
  <2> SUFFICES ASSUME Bad # {} PROVE FALSE
    OBVIOUS
  <2>1. PICK m \in Bad : \A y \in Bad : y >= m
    <3>1. Bad \subseteq Nat
      OBVIOUS
    <3> HIDE DEF Bad
    <3> QED
      BY <3>1, LeastElement
  <2>2. m # 0
    BY <1>4
  <2>3. m - 1 \in 0..n /\ m - 1 \notin Bad /\ m \in 1..n
    BY <2>1, <2>2
  <2>4. rec[m - 1] = h[m - 1]
    BY <2>3
  <2> QED
    BY <2>3, <2>4, <1>4
<1> QED
  BY <1>2, <1>5

LEMMA ExecutedSteps ==
    ASSUME NEW store \in Store, NEW events \in Seq(Event),
           \A i \in 1..Len(events) : WellFormed(events[i])
    PROVE  /\ Executed(store, SubSeq(events, 1, 0)) = store
           /\ \A k \in 0..Len(events) : Executed(store, SubSeq(events, 1, k)) \in Store
           /\ \A k \in 1..Len(events) : Executed(store, SubSeq(events, 1, k)) =
                  Called(Executed(store, SubSeq(events, 1, k - 1)), events[k])
           /\ Executed(store, SubSeq(events, 1, Len(events))) = Executed(store, events)
<1> DEFINE n == Len(events)
           step == [i \in 1..n |-> [st \in Store |-> Called(st, events[i])]]
<1>0. n \in Nat
  BY LenProperties
<1>1. step \in [1..n -> [Store -> Store]]
  BY CalledType
<1>2. \A i \in 1..n, st \in Store : step[i][st] = Called(st, events[i])
  OBVIOUS
<1> HIDE DEF step
<1>3. PICK h \in [0..n -> Store] : Iteration(h, store, n, step)
  BY <1>0, <1>1, IterationExists
<1>4. h[0] = store /\ \A i \in 1..n : h[i] = Called(h[i - 1], events[i])
  <2>1. ASSUME NEW i \in 1..n PROVE h[i] = Called(h[i - 1], events[i])
    <3>1. i - 1 \in 0..n
      BY <1>0
    <3>2. h[i - 1] \in Store
      BY <3>1
    <3> QED
      BY <1>2, <1>3, <3>2 DEF Iteration
  <2> QED
    BY <1>3, <2>1 DEF Iteration
<1>5. ASSUME NEW k \in 0..n PROVE Executed(store, SubSeq(events, 1, k)) = h[k]
  <2> DEFINE p == SubSeq(events, 1, k)
  <2>1. Len(p) = k /\ \A i \in 1..k : p[i] = events[i]
    BY PrefixFacts
  <2> HIDE DEF p
  <2>2. \A j \in 1..k : j \in 1..n
    BY <1>0
  <2>3. \A j \in 1..k : h[j] = Called(h[j - 1], p[j])
    BY <1>4, <2>1, <2>2
  <2>4. k \in Nat
    BY <1>0
  <2>5. Executed(store, p) = h[k]
    BY <1>4, <2>1, <2>3, <2>4, ExecutedIs
  <2> QED
    BY <2>5 DEF p
<1>6. 0 \in 0..n /\ \A k \in 1..n : k \in 0..n /\ k - 1 \in 0..n
  BY <1>0
<1>7. \A k \in 0..n : h[k] \in Store
  OBVIOUS
<1>8. SubSeq(events, 1, n) = events
  BY PrefixWhole
<1> HIDE DEF n
<1>9. Executed(store, SubSeq(events, 1, 0)) = store
  BY <1>4, <1>5, <1>6
<1>10. \A k \in 0..n : Executed(store, SubSeq(events, 1, k)) \in Store
  BY <1>5, <1>7
<1>11. \A k \in 1..n : Executed(store, SubSeq(events, 1, k)) =
                      Called(Executed(store, SubSeq(events, 1, k - 1)), events[k])
  BY <1>4, <1>5, <1>6
<1> QED
  BY <1>8, <1>9, <1>10, <1>11 DEF n
-----------------------------------------------------------------------------
(* Executing requests one after the other. *)

LEMMA CommandEvents ==
    ASSUME NEW r \in Requests
    PROVE  /\ EventsFor(r) \in Seq(Event) /\ Len(EventsFor(r)) \in Nat
           /\ \A i \in 1..Len(EventsFor(r)) : WellFormed(EventsFor(r)[i])
<1> DEFINE es == EventsFor(r)
           cur == [command |-> r, pending |-> es, applied |-> 0]
<1>1. CurrentOK(cur, r, 0)
  BY EventsForFacts
<1>2. cur.pending = es
  OBVIOUS
<1> HIDE DEF cur, es
<1>3. es \in Seq(Event) /\ \A i \in 1..Len(es) : WellFormed(es[i])
  <2>1. cur.pending \in Seq(Event) /\ \A i \in 1..Len(cur.pending) : WellFormed(cur.pending[i])
    BY <1>1 DEF CurrentOK
  <2> QED
    BY <1>2, <2>1
<1>4. Len(es) \in Nat
  BY <1>3, LenProperties
<1> QED
  BY <1>3, <1>4 DEF es

LEMMA ExecutedType ==
    ASSUME NEW store \in Store, NEW r \in Requests
    PROVE  Executed(store, EventsFor(r)) \in Store
<1> DEFINE es == EventsFor(r)
<1>1. es \in Seq(Event) /\ (\A i \in 1..Len(es) : WellFormed(es[i])) /\ Len(es) \in 0..Len(es)
  BY CommandEvents
<1> HIDE DEF es
<1>2. Executed(store, SubSeq(es, 1, Len(es))) \in Store
      /\ Executed(store, SubSeq(es, 1, Len(es))) = Executed(store, es)
  BY <1>1, ExecutedSteps
<1> QED
  BY <1>2 DEF es

LEMMA AfterIs ==
    ASSUME NEW q, NEW n \in Nat, Len(q) = n, NEW h, h[0] = EmptyDB,
           \A j \in 1..n : h[j] = Executed(h[j - 1], EventsFor(q[j]))
    PROVE  StoreAfter(q) = h[n]
<1> DEFINE F(f) == [j \in 0..n |-> IF j = 0 THEN EmptyDB
                                   ELSE Executed(f[j - 1], EventsFor(q[j]))]
           rec == CHOOSE f : f = F(f)
           g == [j \in 0..n |-> h[j]]
<1>1. g = F(g)
  OBVIOUS
<1>2. StoreAfter(q) = rec[n]
  BY Zenon DEF StoreAfter, EmptyDB
<1>3. rec = F(rec)
  BY <1>1, Zenon
<1> HIDE DEF rec, g
<1>4. rec[0] = EmptyDB /\ \A j \in 1..n : rec[j] = Executed(rec[j - 1], EventsFor(q[j]))
  BY <1>3
<1> HIDE DEF F
<1> DEFINE Bad == {j \in 0..n : rec[j] # h[j]}
<1>5. Bad = {}
  <2> SUFFICES ASSUME Bad # {} PROVE FALSE
    OBVIOUS
  <2>1. PICK m \in Bad : \A y \in Bad : y >= m
    <3>1. Bad \subseteq Nat
      OBVIOUS
    <3> HIDE DEF Bad
    <3> QED
      BY <3>1, LeastElement
  <2>2. m # 0
    BY <1>4
  <2>3. m - 1 \in 0..n /\ m - 1 \notin Bad /\ m \in 1..n
    BY <2>1, <2>2
  <2>4. rec[m - 1] = h[m - 1]
    BY <2>3
  <2> QED
    BY <2>3, <2>4, <1>4
<1> QED
  BY <1>2, <1>5

LEMMA AfterSteps ==
    ASSUME NEW q \in Seq(Requests)
    PROVE  /\ StoreAfter(SubSeq(q, 1, 0)) = EmptyDB
           /\ \A k \in 0..Len(q) : StoreAfter(SubSeq(q, 1, k)) \in Store
           /\ \A k \in 1..Len(q) : StoreAfter(SubSeq(q, 1, k)) =
                  Executed(StoreAfter(SubSeq(q, 1, k - 1)), EventsFor(q[k]))
<1> DEFINE n == Len(q)
           step == [i \in 1..n |-> [st \in Store |-> Executed(st, EventsFor(q[i]))]]
<1>0. n \in Nat /\ EmptyDB \in Store
  BY LenProperties, EmptyStoreType DEF EmptyDB, NoExpiry
<1>1. step \in [1..n -> [Store -> Store]]
  <2>1. \A i \in 1..n : q[i] \in Requests
    BY ElementOfSeq
  <2>2. \A i \in 1..n, st \in Store : Executed(st, EventsFor(q[i])) \in Store
    BY <2>1, ExecutedType
  <2> QED
    BY <2>2
<1>2. \A i \in 1..n, st \in Store : step[i][st] = Executed(st, EventsFor(q[i]))
  OBVIOUS
<1> HIDE DEF step
<1>3. PICK h \in [0..n -> Store] : Iteration(h, EmptyDB, n, step)
  BY <1>0, <1>1, IterationExists
<1>4. h[0] = EmptyDB /\ \A i \in 1..n : h[i] = Executed(h[i - 1], EventsFor(q[i]))
  <2>1. ASSUME NEW i \in 1..n PROVE h[i] = Executed(h[i - 1], EventsFor(q[i]))
    <3>1. i - 1 \in 0..n
      BY <1>0
    <3>2. h[i - 1] \in Store
      BY <3>1
    <3> QED
      BY <1>2, <1>3, <3>2 DEF Iteration
  <2> QED
    BY <1>3, <2>1 DEF Iteration
<1>5. ASSUME NEW k \in 0..n PROVE StoreAfter(SubSeq(q, 1, k)) = h[k]
  <2> DEFINE p == SubSeq(q, 1, k)
  <2>1. Len(p) = k /\ \A i \in 1..k : p[i] = q[i]
    BY PrefixFacts
  <2> HIDE DEF p
  <2>2. \A j \in 1..k : j \in 1..n
    BY <1>0
  <2>3. \A j \in 1..k : h[j] = Executed(h[j - 1], EventsFor(p[j]))
    BY <1>4, <2>1, <2>2
  <2>4. k \in Nat
    BY <1>0
  <2>5. StoreAfter(p) = h[k]
    <3>1. h[0] = EmptyDB /\ Len(p) = k
      BY <1>4, <2>1
    <3> HIDE DEF n
    <3> QED
      BY <2>3, <2>4, <3>1, AfterIs
  <2> QED
    BY <2>5 DEF p
<1>6. 0 \in 0..n /\ \A k \in 1..n : k \in 0..n /\ k - 1 \in 0..n
  BY <1>0
<1>7. \A k \in 0..n : h[k] \in Store
  OBVIOUS
<1> HIDE DEF n
<1>8. StoreAfter(SubSeq(q, 1, 0)) = EmptyDB
  BY <1>4, <1>5, <1>6
<1>9. \A k \in 0..n : StoreAfter(SubSeq(q, 1, k)) \in Store
  BY <1>5, <1>7
<1>10. \A k \in 1..n : StoreAfter(SubSeq(q, 1, k)) =
                      Executed(StoreAfter(SubSeq(q, 1, k - 1)), EventsFor(q[k]))
  BY <1>4, <1>5, <1>6
<1> QED
  BY <1>8, <1>9, <1>10 DEF n

-----------------------------------------------------------------------------
(* How many events of a command apply. *)

LEMMA CountStep ==
    ASSUME NEW k \in Nat \ {0}, NEW S, S \subseteq 1..k
    PROVE  /\ S \ {k} = {j \in 1..(k - 1) : j \in S}
           /\ Cardinality(S \ {k}) \in Nat
           /\ Cardinality(S) = Cardinality(S \ {k}) + IF k \in S THEN 1 ELSE 0
<1>1. S \ {k} = {j \in 1..(k - 1) : j \in S}
  <2>1. \A j \in 1..k : j # k => j \in 1..(k - 1)
    OBVIOUS
  <2>2. \A j \in 1..(k - 1) : j # k
    OBVIOUS
  <2> QED
    BY <2>1, <2>2, Zenon
<1>2. IsFiniteSet(S)
  <2>1. 1 \in Int /\ k \in Int
    OBVIOUS
  <2>2. IsFiniteSet(1..k)
    BY <2>1, FS_Interval
  <2>3. S \in SUBSET (1..k)
    OBVIOUS
  <2> QED
    BY <2>2, <2>3, FS_Subset
<1>3. Cardinality(S) \in Nat /\ IsFiniteSet(S \ {k}) /\ Cardinality(S \ {k}) \in Nat
  BY <1>2, FS_CardinalityType, FS_Subset
<1>4. Cardinality(S \ {k}) = IF k \in S THEN Cardinality(S) - 1 ELSE Cardinality(S)
  BY <1>2, FS_RemoveElement
<1> QED
  BY <1>1, <1>3, <1>4

LEMMA AppliedSteps ==
    ASSUME NEW store, NEW events
    PROVE  /\ AppliedOf(store, events, 0) = 0
           /\ \A k \in Nat \ {0} :
                  AppliedOf(store, events, k) = AppliedOf(store, events, k - 1) +
                      IF Applies(Executed(store, SubSeq(events, 1, k - 1)), events[k], 0)
                      THEN 1 ELSE 0
<1> DEFINE P(j) == Applies(Executed(store, SubSeq(events, 1, j - 1)), events[j], 0)
           S(k) == {j \in 1..k : P(j)}
<1>0. \A k : AppliedOf(store, events, k) = Cardinality(S(k))
  BY DEF AppliedOf
<1> HIDE DEF P
<1>1. S(0) = {}
  OBVIOUS
<1>2. Cardinality(S(0)) = 0
  BY <1>1, FS_EmptySet
<1>3. ASSUME NEW k \in Nat \ {0}
      PROVE  Cardinality(S(k)) = Cardinality(S(k - 1)) + IF P(k) THEN 1 ELSE 0
  <2>1. S(k) \subseteq 1..k /\ (k \in S(k) <=> P(k))
    OBVIOUS
  <2>2. S(k - 1) = {j \in 1..(k - 1) : j \in S(k)}
    OBVIOUS
  <2> HIDE DEF S
  <2>3. Cardinality(S(k)) = Cardinality(S(k) \ {k}) + (IF k \in S(k) THEN 1 ELSE 0)
        /\ S(k) \ {k} = {j \in 1..(k - 1) : j \in S(k)}
    BY <2>1, CountStep
  <2> QED
    BY <2>1, <2>2, <2>3
<1> HIDE DEF S
<1> QED
  BY <1>0, <1>2, <1>3 DEF P
-----------------------------------------------------------------------------
(* The reply of a sequential execution. *)

LEMMA SequentialIs ==
    ASSUME NEW q \in Seq(Requests), NEW i \in 1..Len(q)
    PROVE  SequentialReply(SubSeq(q, 1, i)) =
               Reply(q[i], AppliedOf(StoreBefore(q, i), EventsFor(q[i]), Len(EventsFor(q[i]))),
                     StoreAfter(SubSeq(q, 1, i)), VersionOf(q, i), i)
<1> DEFINE p == SubSeq(q, 1, i)
           F(f) == [j \in 0..Len(p) |-> IF j = 0 THEN "2" ELSE NextVersion(f[j - 1], p[j])]
           rec == CHOOSE f : f = F(f)
           g == [j \in 0..i |-> VersionOf(q, j)]
           es == EventsFor(p[Len(p)])
           before == StoreAfter(SubSeq(p, 1, Len(p) - 1))
<1>0. Len(q) \in Nat /\ i \in Nat /\ i \in 0..Len(q) /\ i - 1 \in 0..Len(q) /\ i \in 1..i
  BY LenProperties
<1>1. p \in Seq(Requests) /\ Len(p) = i /\ \A j \in 1..i : p[j] = q[j]
  BY <1>0, PrefixFacts
<1>2. SequentialReply(p) = Reply(p[Len(p)], AppliedOf(before, es, Len(es)), StoreAfter(p),
                                 rec[Len(p)], Len(p))
  <2> HIDE DEF p
  <2> QED
    BY Zenon DEF SequentialReply, AppliedOf
<1> HIDE DEF p
<1>3. SubSeq(p, 1, i - 1) = SubSeq(q, 1, i - 1)
  <2>1. \A j \in 1..(i - 1) : p[j] = q[j]
    BY <1>0, <1>1
  <2>2. i - 1 <= Len(p)
    BY <1>0, <1>1
  <2> QED
    BY <1>0, <1>1, <2>1, <2>2, PrefixSame
<1>4. g = F(g)
  <2>1. \A j \in 1..i : VersionOf(q, j) = NextVersion(VersionOf(q, j - 1), p[j])
    <3> SUFFICES ASSUME NEW j \in 1..i PROVE VersionOf(q, j) = NextVersion(VersionOf(q, j - 1), q[j])
      BY <1>1
    <3>1. j - 1 \in Nat /\ (j - 1) + 1 = j
      BY <1>0
    <3>2. VersionOf(q, (j - 1) + 1) = NextVersion(VersionOf(q, j - 1), q[(j - 1) + 1])
      BY <3>1, VersionStep
    <3> QED
      BY <3>1, <3>2
  <2>2. VersionOf(q, 0) = "2"
    BY VersionStart
  <2>3. \A j \in 0..i : g[j] = IF j = 0 THEN "2" ELSE NextVersion(g[j - 1], p[j])
    BY <1>0, <2>1, <2>2
  <2>4. g = [j \in 0..i |-> g[j]]
    OBVIOUS
  <2> HIDE DEF g
  <2> QED
    BY <1>1, <2>3, <2>4
<1>5. rec = F(rec)
  BY <1>4, Zenon
<1> HIDE DEF rec
<1>6. rec[0] = "2" /\ \A j \in 1..i : rec[j] = NextVersion(rec[j - 1], p[j])
  BY <1>0, <1>1, <1>5
<1>7. /\ \A j \in 0..i : g[j] = VersionOf(q, j)
      /\ g[0] = "2" /\ \A j \in 1..i : g[j] = NextVersion(g[j - 1], p[j])
  <2>1. \A j \in 0..i : g[j] = VersionOf(q, j)
    OBVIOUS
  <2> HIDE DEF g
  <2> QED
    BY <1>0, <1>1, <1>4, <2>1
<1> HIDE DEF F, g
<1> DEFINE Bad == {j \in 0..i : rec[j] # g[j]}
<1>8. Bad = {}
  <2> SUFFICES ASSUME Bad # {} PROVE FALSE
    OBVIOUS
  <2>1. PICK m \in Bad : \A y \in Bad : y >= m
    <3>1. Bad \subseteq Nat
      OBVIOUS
    <3> HIDE DEF Bad
    <3> QED
      BY <3>1, LeastElement
  <2>2. m # 0
    BY <1>6, <1>7
  <2>3. m - 1 \in 0..i /\ m - 1 \notin Bad /\ m \in 1..i
    BY <2>1, <2>2
  <2>4. rec[m - 1] = g[m - 1]
    BY <2>3
  <2> QED
    BY <2>1, <2>3, <2>4, <1>6, <1>7
<1>9. rec[i] = VersionOf(q, i)
  BY <1>0, <1>7, <1>8
<1>10. p[Len(p)] = q[i] /\ Len(p) - 1 = i - 1
  BY <1>0, <1>1
<1> QED
  BY <1>1, <1>2, <1>3, <1>9, <1>10 DEF StoreBefore, p
-----------------------------------------------------------------------------
(* The replies of a connection: which of the first n may be new. *)

\* No reply to the first n requests is in rep2 that is not in rep.
Answered(rep, rep2, n) ==
    \A i \in 1..Len(rep2) : i <= n => i \in 1..Len(rep) /\ rep2[i] = rep[i]

LEMMA AnsweredSame == \A rep, n : Answered(rep, rep, n)
BY DEF Answered

LEMMA AnswersKept ==
    ASSUME NEW q, NEW n, NEW rep, NEW rep2, AnswersOK(q, n, rep), Answered(rep, rep2, n)
    PROVE  AnswersOK(q, n, rep2)
BY DEF AnswersOK, Answered

\* The responses that were queued are dropped.
LEMMA AnsweredDropped ==
    ASSUME NEW got, NEW out, AnySeq(got), AnySeq(out), NEW n
    PROVE  Answered(got \o out, got \o <<>>, n) /\ Len(got \o <<>>) <= Len(got \o out)
<1> DEFINE rep == got \o out
<1>1. /\ AnySeq(rep) /\ Len(got) <= Len(rep) /\ \A i \in 1..Len(got) : rep[i] = got[i]
      /\ Len(got) \in Nat /\ Len(rep) \in Nat /\ got \o <<>> = got
  BY RepliesFacts, AnySeqFacts
<1> HIDE DEF rep
<1>2. Answered(rep, got, n)
  BY <1>1 DEF Answered
<1> QED
  BY <1>1, <1>2 DEF rep

\* A response is queued behind those to the first n requests.
LEMMA AnsweredQueued ==
    ASSUME NEW rep, AnySeq(rep), NEW x, Len(rep) \in Nat, NEW n \in Nat, Len(rep) >= n
    PROVE  Answered(rep, Append(rep, x), n)
<1> DEFINE rep2 == Append(rep, x)
<1>1. Len(rep2) = Len(rep) + 1 /\ \A i \in 1..Len(rep) : rep2[i] = rep[i]
  BY AnySeqAppend
<1> HIDE DEF rep2
<1>2. Answered(rep, rep2, n)
  BY <1>1 DEF Answered
<1> QED
  BY <1>2 DEF rep2

LEMMA ReleasedReplies ==
    ASSUME NEW c, SessionType(c), NEW got, AnySeq(got), AnySeq(c.m_output), NEW n
    PROVE  /\ Released(c).status \in {c.status, "closed"}
           /\ Answered(got \o c.m_output, got \o Released(c).m_output, n)
<1>1. CASE c.reading \/ c.writing
  BY <1>1, AnsweredSame DEF Released
<1>2. CASE ~(c.reading \/ c.writing)
  <2>1. Released(c) = Closed(c)
    BY <1>2 DEF Released
  <2>2. Closed(c).status = "closed" /\ Closed(c).m_output = <<>>
    BY ClosedFields
  <2>3. Answered(got \o c.m_output, got \o <<>>, n)
    BY AnsweredDropped
  <2> QED
    BY <2>1, <2>2, <2>3
<1> QED
  BY <1>1, <1>2

-----------------------------------------------------------------------------
(* The steps of the server, as they change the parts of DataInv. *)

\* Neither the database nor what was executed changes.
LEMMA DataKept ==
    ASSUME NEW q, NEW n, NEW rep, NEW busy, NEW cur, NEW running, NEW flush, NEW store,
           NEW log, NEW persistent,
           DataInv("open", q, n, rep, busy, cur, running, flush, store, log, persistent),
           busy # "execute", NEW rep2, Answered(rep, rep2, n), NEW busy2, busy2 # "execute",
           NEW cur2
    PROVE  DataInv("open", q, n, rep2, busy2, cur2, TRUE, flush, store, log, persistent)
<1>1. AnswersOK(q, n, rep2)
  BY AnswersKept DEF DataInv
<1> QED
  BY <1>1 DEF DataInv

\* What an executing command leaves behind.
LEMMA ExecutedAll ==
    ASSUME NEW q \in Seq(Requests), NEW n \in 1..Len(q)
    PROVE  /\ q[n] \in Requests /\ Len(EventsFor(q[n])) \in Nat
           /\ StoreBefore(q, n) \in Store
           /\ StoreAfter(SubSeq(q, 1, n)) = Executed(StoreBefore(q, n), EventsFor(q[n]))
           /\ StoreAfter(SubSeq(q, 1, n)) =
                  Executed(StoreBefore(q, n), SubSeq(EventsFor(q[n]), 1, Len(EventsFor(q[n]))))
<1> DEFINE es == EventsFor(q[n])
           before == StoreBefore(q, n)
<1>0. Len(q) \in Nat /\ n \in Nat /\ n - 1 \in 0..Len(q) /\ n \in 0..Len(q)
  BY LenProperties
<1>1. q[n] \in Requests
  BY ElementOfSeq
<1>2. /\ es \in Seq(Event) /\ Len(es) \in Nat /\ \A i \in 1..Len(es) : WellFormed(es[i])
  BY <1>1, CommandEvents
<1>3. before \in Store
  BY <1>0, AfterSteps DEF StoreBefore
<1>4. StoreAfter(SubSeq(q, 1, n)) = Executed(before, es)
  BY AfterSteps DEF StoreBefore
<1> HIDE DEF es, before
<1>5. Executed(before, SubSeq(es, 1, Len(es))) = Executed(before, es)
  BY <1>2, <1>3, ExecutedSteps
<1> QED
  BY <1>1, <1>2, <1>3, <1>4, <1>5 DEF es, before

\* The connection ends, or the process.
LEMMA DataClosed ==
    ASSUME NEW q \in Seq(Requests), NEW n \in 0..Len(q), NEW rep, NEW busy, NEW cur,
           NEW running, NEW flush, NEW store, NEW log, NEW persistent,
           DataInv("open", q, n, rep, busy, cur, running, flush, store, log, persistent),
           NEW rep2, Len(rep2) \in Nat, Answered(rep, rep2, n),
           busy = "execute" => Len(rep2) < n,
           NEW busy2, busy2 # "execute", NEW cur2, NEW running2, NEW flush2, NEW store2
    PROVE  DataInv("closed", q, n, rep2, busy2, cur2, running2, flush2, store2, log, persistent)
<1> DEFINE es == EventsFor(q[n])
           before == StoreBefore(q, n)
<1>0. n \in Nat
  BY LenProperties
<1>1. AnswersOK(q, n, rep2)
  BY AnswersKept DEF DataInv
<1>2. /\ persistent <=> flush
      /\ log = IF flush THEN store ELSE EmptyDB
      /\ busy # "execute" => store = StoreAfter(SubSeq(q, 1, n))
      /\ busy = "execute" => \E k \in 0..Len(es) : ExecutedTo(k, q, n, cur, store)
  BY DEF DataInv
<1>3. ASSUME persistent PROVE LoggedOK(log, q, n, Len(rep2))
  <2>1. log = store
    BY <1>2, <1>3
  <2>2. CASE busy = "execute"
    <3>1. n # 0 /\ ~(Len(rep2) >= n)
      BY <1>0, <2>2
    <3>2. \E k \in 0..Len(es) : log = Executed(before, SubSeq(es, 1, k))
      BY <1>2, <2>1, <2>2 DEF ExecutedTo
    <3> HIDE DEF es, before
    <3>3. IF n = 0 THEN log = EmptyDB
          ELSE IF Len(rep2) >= n THEN log = Executed(before, es)
          ELSE \E k \in 0..Len(es) : log = Executed(before, SubSeq(es, 1, k))
      BY <3>1, <3>2
    <3> QED
      BY <3>3 DEF LoggedOK, es, before
  <2>3. CASE busy # "execute"
    <3>1. log = StoreAfter(SubSeq(q, 1, n))
      BY <1>2, <2>1, <2>3
    <3>2. CASE n = 0
      <4>1. log = EmptyDB
        BY <3>1, <3>2, AfterSteps
      <4> QED
        BY <3>2, <4>1 DEF LoggedOK
    <3>3. CASE n # 0
      <4>1. n \in 1..Len(q)
        BY <1>0, <3>3
      <4>2. log = Executed(before, es) /\ log = Executed(before, SubSeq(es, 1, Len(es)))
            /\ Len(es) \in 0..Len(es)
        BY <3>1, <4>1, ExecutedAll
      <4> HIDE DEF es, before
      <4>3. IF n = 0 THEN log = EmptyDB
            ELSE IF Len(rep2) >= n THEN log = Executed(before, es)
            ELSE \E k \in 0..Len(es) : log = Executed(before, SubSeq(es, 1, k))
        BY <3>3, <4>2
      <4> QED
        BY <4>3 DEF LoggedOK, es, before
    <3> QED
      BY <3>2, <3>3
  <2> QED
    BY <2>2, <2>3
<1>4. ~persistent => log = EmptyDB
  BY <1>2
<1> QED
  BY <1>1, <1>3, <1>4 DEF DataInv

\* There is no connection: the process starts, or ends.
LEMMA DataIdle ==
    ASSUME NEW status, status # "open", NEW q, NEW n, NEW rep, NEW busy, NEW cur, NEW running,
           NEW flush, NEW store, NEW log, NEW persistent,
           DataInv(status, q, n, rep, busy, cur, running, flush, store, log, persistent),
           NEW status2, status2 = status \/ (status = "new" /\ status2 = "closed"),
           NEW busy2, busy2 # "execute", NEW cur2, NEW running2, NEW flush2, NEW store2,
           status2 = "new" => store2 = EmptyDB
    PROVE  DataInv(status2, q, n, rep, busy2, cur2, running2, flush2, store2, log, persistent)
BY DEF DataInv

\* The process rewrites the log when there is no connection any more.
LEMMA DataRewritten ==
    ASSUME NEW status, status # "open", NEW q, NEW n, NEW rep, NEW busy, NEW cur, NEW running,
           NEW flush, NEW store, NEW log, NEW persistent,
           DataInv(status, q, n, rep, busy, cur, running, flush, store, log, persistent),
           NEW log2, status = "new" \/ NoSelfRenameRequests => log2 = log
    PROVE  DataInv(status, q, n, rep, busy, cur, running, flush, store, log2, persistent)
BY DEF DataInv

LEMMA DataConnected ==
    ASSUME NEW q, q = <<>>, NEW rep, NEW busy, NEW cur, NEW running, NEW flush, NEW store,
           NEW log, NEW persistent,
           DataInv("new", q, 0, rep, busy, cur, running, flush, store, log, persistent),
           NEW busy2, busy2 # "execute", NEW cur2, NEW persistent2, persistent2 <=> flush
    PROVE  DataInv("open", q, 0, rep, busy2, cur2, TRUE, flush, store, log, persistent2)
<1>1. StoreAfter(SubSeq(q, 1, 0)) = EmptyDB
  <2>1. q \in Seq(Requests)
    OBVIOUS
  <2> QED
    BY <2>1, AfterSteps
<1> QED
  BY <1>1 DEF DataInv
\* The client sends another request.
LEMMA DataSent ==
    ASSUME NEW q \in Seq(Requests), NEW n \in 0..Len(q), NEW r \in Requests,
           NEW rep, NEW busy, busy = "execute" => n # 0, NEW cur,
           NEW running, NEW flush, NEW store, NEW log, NEW persistent,
           DataInv("open", q, n, rep, busy, cur, running, flush, store, log, persistent)
    PROVE  DataInv("open", Append(q, r), n, rep, busy, cur, running, flush, store, log, persistent)
<1> DEFINE q2 == Append(q, r)
<1>0. /\ Len(q) \in Nat /\ n \in Nat /\ n <= Len(q)
      /\ q2 \in Seq(Requests) /\ Len(q2) = Len(q) + 1 /\ \A i \in 1..Len(q) : q2[i] = q[i]
  BY LenProperties, AppendProperties
<1> HIDE DEF q2
<1>1. \A i \in 0..n : SubSeq(q2, 1, i) = SubSeq(q, 1, i)
  <2> SUFFICES ASSUME NEW i \in 0..n PROVE SubSeq(q2, 1, i) = SubSeq(q, 1, i)
    OBVIOUS
  <2>1. i \in 0..Len(q) /\ i <= Len(q2) /\ \A j \in 1..i : q2[j] = q[j]
    BY <1>0
  <2> QED
    BY <1>0, <2>1, PrefixSame
<1>2. AnswersOK(q2, n, rep)
  <2> SUFFICES ASSUME NEW i \in 1..Len(rep), i <= n
               PROVE  rep[i] = SequentialReply(SubSeq(q2, 1, i))
    BY DEF AnswersOK
  <2>1. i \in 0..n
    BY <1>0
  <2> QED
    BY <1>1, <2>1 DEF DataInv, AnswersOK
<1>3. StoreAfter(SubSeq(q2, 1, n)) = StoreAfter(SubSeq(q, 1, n))
  <2>1. n \in 0..n
    BY <1>0
  <2>2. SubSeq(q2, 1, n) = SubSeq(q, 1, n)
    BY <1>1, <2>1
  <2> QED
    BY <2>2
<1>4. n # 0 => q2[n] = q[n] /\ StoreBefore(q2, n) = StoreBefore(q, n)
  <2>1. n # 0 => n \in 1..Len(q) /\ n - 1 \in 0..n
    BY <1>0
  <2> QED
    BY <1>0, <1>1, <2>1 DEF StoreBefore
<1>5. n # 0 => \A k : ExecutedTo(k, q, n, cur, store) => ExecutedTo(k, q2, n, cur, store)
  BY <1>4 DEF ExecutedTo
<1>6. busy = "execute" => \E k \in 0..Len(EventsFor(q2[n])) : ExecutedTo(k, q2, n, cur, store)
  <2>1. busy = "execute" => \E k \in 0..Len(EventsFor(q[n])) : ExecutedTo(k, q, n, cur, store)
    BY DEF DataInv
  <2> QED
    BY <1>4, <1>5, <2>1
<1>7. DataInv("open", q2, n, rep, busy, cur, running, flush, store, log, persistent)
  BY <1>2, <1>3, <1>6 DEF DataInv
<1> QED
  BY <1>7 DEF q2

\* Process enters the command that is the next request.
LEMMA DataStarted ==
    ASSUME NEW q \in Seq(Requests), NEW n \in Nat, n < Len(q), NEW rep, Len(rep) \in Nat,
           Len(rep) <= n, NEW busy, busy # "execute", NEW cur,
           NEW running, NEW flush, NEW store, NEW log, NEW persistent,
           DataInv("open", q, n, rep, busy, cur, running, flush, store, log, persistent),
           NEW cur2, cur2.pending = EventsFor(q[n + 1]), cur2.applied = 0
    PROVE  DataInv("open", q, n + 1, rep, "execute", cur2, running, flush, store, log, persistent)
<1> DEFINE es == EventsFor(q[n + 1])
           before == StoreBefore(q, n + 1)
<1>0. Len(q) \in Nat /\ n + 1 \in 1..Len(q) /\ (n + 1) - 1 = n
  BY LenProperties
<1>1. q[n + 1] \in Requests /\ before \in Store
  BY <1>0, ExecutedAll
<1>2. es \in Seq(Event) /\ Len(es) \in Nat /\ \A i \in 1..Len(es) : WellFormed(es[i])
  BY <1>1, CommandEvents
<1>3. store = before
  <2>1. store = StoreAfter(SubSeq(q, 1, n))
    BY DEF DataInv
  <2> QED
    BY <1>0, <2>1 DEF StoreBefore
<1> HIDE DEF es, before
<1>4. store = Executed(before, SubSeq(es, 1, 0))
  BY <1>1, <1>2, <1>3, ExecutedSteps
<1>5. cur2.pending = SubSeq(es, 0 + 1, Len(es))
  <2>1. SubSeq(es, 1, Len(es)) = es
    BY <1>2, PrefixWhole
  <2> QED
    BY <2>1 DEF es
<1>6. cur2.applied = AppliedOf(before, es, 0)
  BY AppliedSteps
<1>7. ExecutedTo(0, q, n + 1, cur2, store)
  BY <1>4, <1>5, <1>6 DEF ExecutedTo, es, before
<1>8. \E k \in 0..Len(EventsFor(q[n + 1])) : ExecutedTo(k, q, n + 1, cur2, store)
  <2>1. 0 \in 0..Len(es)
    BY <1>2
  <2> QED
    BY <1>7, <2>1 DEF es
<1>9. AnswersOK(q, n + 1, rep)
  BY DEF DataInv, AnswersOK
<1> QED
  BY <1>8, <1>9 DEF DataInv

\* The events behind the first k.
LEMMA SuffixFacts ==
    ASSUME NEW S, NEW x \in Seq(S), NEW k \in 0..Len(x)
    PROVE  /\ SubSeq(x, k + 1, Len(x)) \in Seq(S)
           /\ Len(SubSeq(x, k + 1, Len(x))) = Len(x) - k
           /\ \A i \in 1..(Len(x) - k) : SubSeq(x, k + 1, Len(x))[i] = x[k + i]
<1> DEFINE b == SubSeq(x, k + 1, Len(x))
<1>0. Len(x) \in Nat /\ k \in Nat /\ k <= Len(x)
  BY LenProperties
<1>1. \A i \in (k + 1)..Len(x) : x[i] \in S
  <2>1. \A i \in (k + 1)..Len(x) : i \in 1..Len(x)
    BY <1>0
  <2> QED
    BY <2>1, ElementOfSeq
<1>2. /\ b \in Seq(S) /\ Len(b) = IF k + 1 <= Len(x) THEN Len(x) - (k + 1) + 1 ELSE 0
      /\ \A i \in 1..(Len(x) - (k + 1) + 1) : b[i] = x[k + 1 + i - 1]
  <2>1. k + 1 \in Int /\ Len(x) \in Int
    BY <1>0
  <2> QED
    BY <1>1, <2>1, SubSeqProperties
<1> HIDE DEF b
<1>3. Len(b) = Len(x) - k
  BY <1>0, <1>2
<1>4. \A i \in 1..(Len(x) - k) : k + 1 + i - 1 = k + i /\ i \in 1..(Len(x) - (k + 1) + 1)
  BY <1>0
<1>5. \A i \in 1..(Len(x) - k) : b[i] = x[k + i]
  BY <1>2, <1>4
<1> QED
  BY <1>2, <1>3, <1>5 DEF b

LEMMA SuffixStep ==
    ASSUME NEW S, NEW x \in Seq(S), NEW k \in 0..Len(x), SubSeq(x, k + 1, Len(x)) # <<>>
    PROVE  /\ k + 1 \in 0..Len(x)
           /\ Head(SubSeq(x, k + 1, Len(x))) = x[k + 1]
           /\ Tail(SubSeq(x, k + 1, Len(x))) = SubSeq(x, (k + 1) + 1, Len(x))
<1> DEFINE b == SubSeq(x, k + 1, Len(x))
           t == Tail(b)
           c == SubSeq(x, (k + 1) + 1, Len(x))
<1>0. Len(x) \in Nat /\ k \in Nat /\ k <= Len(x)
  BY LenProperties
<1>1. /\ b \in Seq(S) /\ Len(b) = Len(x) - k /\ \A i \in 1..(Len(x) - k) : b[i] = x[k + i]
  BY SuffixFacts
<1> HIDE DEF b
<1>2. Len(b) # 0
  BY <1>1, EmptySeq DEF b
<1>3. k + 1 \in 0..Len(x) /\ 1 \in 1..(Len(x) - k)
  BY <1>0, <1>1, <1>2
<1>4. Head(b) = x[k + 1]
  BY <1>1, <1>3
<1>5. /\ c \in Seq(S) /\ Len(c) = Len(x) - (k + 1)
      /\ \A i \in 1..(Len(x) - (k + 1)) : c[i] = x[(k + 1) + i]
  BY <1>3, SuffixFacts
<1> HIDE DEF c
<1>6. /\ t \in Seq(S) /\ Len(t) = Len(b) - 1 /\ \A i \in 1..Len(t) : t[i] = b[i + 1]
  <2>1. b # <<>>
    BY <1>1, <1>2, EmptySeq
  <2> QED
    BY <1>1, <2>1, HeadTailProperties
<1> HIDE DEF t
<1>7. \A i \in 1..Len(t) : i + 1 \in 1..(Len(x) - k) /\ k + (i + 1) = (k + 1) + i
                           /\ i \in 1..(Len(x) - (k + 1))
  BY <1>0, <1>1, <1>6
<1>8. \A i \in 1..Len(t) : t[i] = c[i]
  BY <1>1, <1>5, <1>6, <1>7
<1>9. Len(t) = Len(c)
  BY <1>0, <1>1, <1>5, <1>6
<1>10. t = c
  BY <1>5, <1>6, <1>8, <1>9, SeqEqual
<1> QED
  BY <1>3, <1>4, <1>10 DEF b, c, t

\* A call of the database returns.
LEMMA DataCommitted ==
    ASSUME NEW q \in Seq(Requests), NEW n \in 1..Len(q), NEW rep, NEW cur,
           NEW running, NEW flush, NEW store, NEW log, NEW persistent,
           DataInv("open", q, n, rep, "execute", cur, running, flush, store, log, persistent),
           cur.pending # <<>>, NEW e, e = Head(cur.pending),
           NEW m, m = IF Applies(store, e, 0) THEN 1 ELSE 0,
           NEW store2, store2 = IF m = 1 THEN ApplyEvent(store, e, 0) ELSE store,
           NEW log2, log2 = IF flush /\ m = 1 THEN ApplyEvent(log, e, 0) ELSE log,
           NEW cur2, cur2.pending = Tail(cur.pending), cur2.applied = cur.applied + m
    PROVE  DataInv("open", q, n, rep, "execute", cur2, running, flush, store2, log2, persistent)
<1> DEFINE es == EventsFor(q[n])
           before == StoreBefore(q, n)
<1>1. q[n] \in Requests /\ before \in Store
  BY ExecutedAll
<1>2. es \in Seq(Event) /\ Len(es) \in Nat /\ \A i \in 1..Len(es) : WellFormed(es[i])
  BY <1>1, CommandEvents
<1>3. /\ running /\ (persistent <=> flush) /\ log = (IF flush THEN store ELSE EmptyDB)
      /\ AnswersOK(q, n, rep)
  BY DEF DataInv
<1>4. PICK k \in 0..Len(es) : ExecutedTo(k, q, n, cur, store)
  BY DEF DataInv
<1>5. /\ store = Executed(before, SubSeq(es, 1, k))
      /\ cur.pending = SubSeq(es, k + 1, Len(es))
      /\ cur.applied = AppliedOf(before, es, k)
  BY <1>4 DEF ExecutedTo
<1> HIDE DEF es, before
<1>6. /\ k + 1 \in 0..Len(es) /\ e = es[k + 1]
      /\ Tail(cur.pending) = SubSeq(es, (k + 1) + 1, Len(es))
  BY <1>2, <1>5, SuffixStep
<1>7. k + 1 \in 1..Len(es) /\ (k + 1) - 1 = k /\ k + 1 \in Nat \ {0}
  BY <1>2, <1>6
<1>8. store2 = Called(store, e)
  BY DEF Called
<1>9. store2 = Executed(before, SubSeq(es, 1, k + 1))
  <2>1. Executed(before, SubSeq(es, 1, k + 1)) =
            Called(Executed(before, SubSeq(es, 1, (k + 1) - 1)), es[k + 1])
    BY <1>1, <1>2, <1>7, ExecutedSteps
  <2> QED
    BY <1>5, <1>6, <1>7, <1>8, <2>1
<1>10. cur2.applied = AppliedOf(before, es, k + 1)
  <2>1. AppliedOf(before, es, k + 1) = AppliedOf(before, es, (k + 1) - 1) +
            IF Applies(Executed(before, SubSeq(es, 1, (k + 1) - 1)), es[k + 1], 0) THEN 1 ELSE 0
    BY <1>7, AppliedSteps
  <2> QED
    BY <1>5, <1>6, <1>7, <2>1
<1>11. ExecutedTo(k + 1, q, n, cur2, store2)
  BY <1>6, <1>9, <1>10 DEF ExecutedTo, es, before
<1>12. \E j \in 0..Len(EventsFor(q[n])) : ExecutedTo(j, q, n, cur2, store2)
  BY <1>6, <1>11 DEF es
<1>13. log2 = IF flush THEN store2 ELSE EmptyDB
  BY <1>3
<1> QED
  BY <1>3, <1>12, <1>13 DEF DataInv

\* The command returns and its response is queued.
LEMMA DataFinished ==
    ASSUME NEW q \in Seq(Requests), NEW n \in 1..Len(q), NEW rep, AnySeq(rep), NEW cur,
           NEW running, NEW flush, NEW store, NEW log, NEW persistent,
           DataInv("open", q, n, rep, "execute", cur, running, flush, store, log, persistent),
           cur.pending = <<>>, n = Len(rep) + 1, Len(rep) \in Nat,
           NEW x, x = Reply(q[n], cur.applied, store, VersionOf(q, n), n), NEW cur2
    PROVE  DataInv("open", q, n, Append(rep, x), "process", cur2, running, flush, store, log,
                   persistent)
<1> DEFINE es == EventsFor(q[n])
           before == StoreBefore(q, n)
           rep2 == Append(rep, x)
<1>1. q[n] \in Requests /\ before \in Store
      /\ StoreAfter(SubSeq(q, 1, n)) = Executed(before, SubSeq(es, 1, Len(es)))
  BY ExecutedAll
<1>2. es \in Seq(Event) /\ Len(es) \in Nat /\ \A i \in 1..Len(es) : WellFormed(es[i])
  BY <1>1, CommandEvents
<1>3. /\ running /\ (persistent <=> flush) /\ log = (IF flush THEN store ELSE EmptyDB)
      /\ AnswersOK(q, n, rep)
  BY DEF DataInv
<1>4. PICK k \in 0..Len(es) : ExecutedTo(k, q, n, cur, store)
  BY DEF DataInv
<1>5. /\ store = Executed(before, SubSeq(es, 1, k))
      /\ cur.pending = SubSeq(es, k + 1, Len(es))
      /\ cur.applied = AppliedOf(before, es, k)
  BY <1>4 DEF ExecutedTo
<1>6. SequentialReply(SubSeq(q, 1, n)) =
          Reply(q[n], AppliedOf(before, es, Len(es)), StoreAfter(SubSeq(q, 1, n)), VersionOf(q, n), n)
  BY SequentialIs
<1> HIDE DEF es, before
<1>7. k = Len(es)
  <2>1. Len(SubSeq(es, k + 1, Len(es))) = Len(es) - k
    BY <1>2, SuffixFacts
  <2>2. Len(cur.pending) = 0
    OBVIOUS
  <2> QED
    BY <1>2, <1>5, <2>1, <2>2
<1>8. store = StoreAfter(SubSeq(q, 1, n)) /\ x = SequentialReply(SubSeq(q, 1, n))
  BY <1>1, <1>5, <1>6, <1>7
<1>9. Len(rep2) = n /\ rep2[n] = x /\ \A i \in 1..Len(rep) : rep2[i] = rep[i]
  BY AnySeqAppend
<1> HIDE DEF rep2
<1>10. AnswersOK(q, n, rep2)
  <2> SUFFICES ASSUME NEW i \in 1..Len(rep2), i <= n
               PROVE  rep2[i] = SequentialReply(SubSeq(q, 1, i))
    BY DEF AnswersOK
  <2>1. CASE i = n
    BY <1>8, <1>9, <2>1
  <2>2. CASE i # n
    <3>1. i \in 1..Len(rep)
      BY <1>9, <2>2
    <3> QED
      BY <1>3, <1>9, <3>1 DEF AnswersOK
  <2> QED
    BY <2>1, <2>2
<1>11. DataInv("open", q, n, rep2, "process", cur2, running, flush, store, log, persistent)
  BY <1>3, <1>8, <1>10 DEF DataInv
<1> QED
  BY <1>11 DEF rep2
-----------------------------------------------------------------------------
(* The steps of the server, with one session. *)

\* The parts of the invariant of a session that these proofs use.
LEMMA ClientFacts ==
    ASSUME ServerInv, NEW s \in Sessions
    PROVE  /\ s # NoSession
           /\ PartsOK(session[s], net[s], sent[s], commits[s], received[s], hungup[s], Busy(s),
                      current)
           /\ AnySeq(received[s]) /\ AnySeq(session[s].m_output) /\ AnySeq(Replies(s))
           /\ Len(Replies(s)) \in Nat /\ Len(sent[s]) \in Nat
           /\ Len(commits[s]) \in 0..Len(sent[s])
           /\ SessionType(session[s]) /\ sent[s] \in Seq(Requests)
           /\ session[s].status \in {"new", "open", "closed"}
           /\ Busy(s) # "none" \/ session[s].reading \/ session[s].writing =>
                  session[s].status = "open"
           /\ Busy(s) = "execute" => Len(commits[s]) = Len(Replies(s)) + 1
           /\ session[s].status = "open" /\ Busy(s) # "execute"
              /\ ~session[s].m_closeAfterWrite => Len(Replies(s)) = Len(commits[s])
           /\ session[s].reading => ~session[s].m_closeAfterWrite
           /\ session[s].status # "open" => session[s].m_output = <<>> /\ Busy(s) = "none"
           /\ session[s].status = "new" => sent[s] = <<>> /\ commits[s] = <<>>
           /\ session[s].m_version = VersionOf(sent[s], Len(commits[s]))
           /\ Busy(s) = "execute" =>
                  CurrentOK(current, sent[s][Len(commits[s])], commits[s][Len(commits[s])])
<1> DEFINE c == session[s]
           q == sent[s]
           com == commits[s]
           rep == received[s] \o c.m_output
           busy == Busy(s)
           gone == hungup[s]
<1>1. s # NoSession /\ PartsOK(c, net[s], q, com, received[s], gone, busy, current)
  BY ServerAssumption DEF ServerInv, SessionOK
<1> HIDE DEF c, q, com, busy, gone
<1>2. /\ SessionInv(c, net[s], q, com, rep, gone, busy, current)
      /\ AnySeq(received[s]) /\ AnySeq(c.m_output) /\ AnySeq(rep)
      /\ Len(rep) \in Nat /\ Len(q) \in Nat /\ Len(com) \in Nat
      /\ SessionType(c) /\ q \in Seq(Requests)
      /\ LifeInv(c, q, com, rep, gone, busy) /\ CountInv(c, q, com, rep, busy)
      /\ c.m_version = VersionOf(q, Len(com))
      /\ busy # "none" \/ c.reading \/ c.writing => c.status = "open"
  BY <1>1, PartsFacts
<1> HIDE DEF rep
<1>3. c.status \in {"new", "open", "closed"} /\ c.m_closeAfterWrite \in BOOLEAN
  BY <1>2, SessionFields
<1>4. /\ busy = "execute" => CurrentOK(current, q[Len(com)], com[Len(com)])
  BY <1>2 DEF SessionInv
<1>5. /\ c.reading => ~c.m_closeAfterWrite
      /\ c.status # "open" => c.m_output = <<>> /\ busy = "none"
      /\ c.status = "new" => q = <<>> /\ com = <<>>
  BY <1>2 DEF LifeInv
<1>6. /\ Len(com) \in 0..Len(q)
      /\ busy = "execute" => Len(com) = Len(rep) + 1
      /\ c.status = "open" /\ busy # "execute" /\ ~c.m_closeAfterWrite => Len(rep) = Len(com)
  BY <1>2 DEF CountInv
<1> QED
  BY <1>1, <1>2, <1>3, <1>4, <1>5, <1>6 DEF c, q, com, rep, busy, gone, Replies

\* What DataOK says in the next state, if the requests, the commands started
\* and the database are the same.
SameData(s) ==
    /\ sent'[s] = sent[s] /\ commits'[s] = commits[s] /\ (s \in durable' <=> s \in durable)
    /\ flushing' = flushing /\ m_store' = m_store /\ logged' = logged

\* A handler that is not executing a command: the session stays open or is
\* released, and no request is answered that was not.
LEMMA HandlerKeeps ==
    ASSUME ServerInv, ServerInv', NEW s \in Sessions, DataOK(s), SameData(s),
           session[s].status = "open", up' # "down",
           session'[s].status \in {"open", "closed"}, Busy(s) # "execute", Busy(s)' # "execute",
           Answered(Replies(s), Replies(s)', Len(commits[s]))
    PROVE  DataOK(s)'
<1> DEFINE q == sent[s]
           n == Len(commits[s])
           rep == Replies(s)
           rep2 == Replies(s)'
           busy2 == Busy(s)'
           persistent == s \in durable
<1>1. q \in Seq(Requests) /\ n \in 0..Len(q)
  BY ClientFacts
<1>2. Len(rep2) \in Nat
  <2>1. PartsOK(session'[s], net'[s], sent'[s], commits'[s], received'[s], hungup'[s], busy2,
                current')
    BY DEF ServerInv, SessionOK
  <2> HIDE DEF busy2
  <2>2. Len(received'[s] \o session'[s].m_output) \in Nat
    BY <2>1, PartsFacts
  <2> QED
    BY <2>2 DEF Replies
<1>3. DataInv("open", q, n, rep, Busy(s), current, up # "down", flushing, m_store, logged, persistent)
  BY DEF DataOK
<1> HIDE DEF q, n, rep, rep2, busy2, persistent
<1>4. CASE session'[s].status = "open"
  <2>1. DataInv("open", q, n, rep2, busy2, current', TRUE, flushing, m_store, logged, persistent)
    BY <1>3, DataKept DEF n, rep, rep2, busy2
  <2>2. (up' # "down") = TRUE /\ (s \in durable') = persistent
    BY DEF SameData, persistent
  <2> QED
    BY <1>4, <2>1, <2>2 DEF DataOK, SameData, q, n, rep2, busy2
<1>5. CASE session'[s].status = "closed"
  <2>1. DataInv("closed", q, n, rep2, busy2, current', up' # "down", flushing, m_store, logged, persistent)
    BY <1>1, <1>2, <1>3, DataClosed DEF n, rep, rep2, busy2
  <2>2. (s \in durable') = persistent
    BY DEF SameData, persistent
  <2> QED
    BY <1>5, <2>1, <2>2 DEF DataOK, SameData, q, n, rep2, busy2
<1> QED
  BY <1>4, <1>5
\* Reads, writes and the end of Process.
LEMMA HandlersKeepData ==
    ASSUME ServerInv, ServerInv', NEW s \in Sessions, DataOK(s)
    PROVE  /\ ReadDone(s) => DataOK(s)'
           /\ ReadFails(s) => DataOK(s)'
           /\ WriteDone(s) => DataOK(s)'
           /\ WriteFails(s) => DataOK(s)'
           /\ ProcessDone(s) => DataOK(s)'
           /\ ProtocolError(s) => DataOK(s)'
<1> DEFINE c == session[s]
           n == Len(commits[s])
<1>0. /\ s # NoSession
      /\ PartsOK(c, net[s], sent[s], commits[s], received[s], hungup[s], Busy(s), current)
      /\ AnySeq(received[s]) /\ AnySeq(c.m_output) /\ AnySeq(Replies(s))
      /\ Len(Replies(s)) \in Nat /\ n \in Nat
      /\ SessionType(c)
      /\ Busy(s) # "none" \/ c.reading \/ c.writing => c.status = "open"
      /\ c.status = "open" /\ Busy(s) # "execute" /\ ~c.m_closeAfterWrite =>
             Len(Replies(s)) = n
      /\ c.reading => ~c.m_closeAfterWrite
  BY ClientFacts
<1>d. DOMAIN session = Sessions /\ DOMAIN received = Sessions
  BY DEF ServerInv, LoopInv
<1>i. LoopIdle => handler = NoSession /\ up = "running" /\ Busy(s) = "none" /\ current = Absent
  BY <1>0 DEF LoopIdle, Busy, ServerInv, LoopInv
<1>p. InProcess(s) => handler = s /\ up = "running" /\ Busy(s) = "process" /\ current = Absent
  BY DEF InProcess, Busy
<1>r. Replies(s) = received[s] \o c.m_output
  BY DEF Replies
\* The session is released in the end.
<1>1. ASSUME NEW d, SessionType(d), AnySeq(d.m_output), d.status = "open",
             Answered(received[s] \o c.m_output, received[s] \o d.m_output, n),
             received'[s] = received[s], session'[s] = Released(d)
      PROVE  /\ session'[s].status \in {"open", "closed"}
             /\ Answered(Replies(s), Replies(s)', n)
  <2>1. /\ Released(d).status \in {d.status, "closed"}
        /\ Answered(received[s] \o d.m_output, received[s] \o Released(d).m_output, n)
    BY <1>0, <1>1, ReleasedReplies
  <2>2. Answered(received[s] \o c.m_output, received[s] \o Released(d).m_output, n)
    BY <1>1, <2>1 DEF Answered
  <2> QED
    BY <1>1, <2>1, <2>2 DEF Replies
<1>2. ASSUME ReadFails(s) PROVE DataOK(s)'
  <2> DEFINE d == [c EXCEPT !.reading = FALSE]
  <2>1. LoopIdle /\ c.reading
    BY <1>2 DEF ReadFails
  <2>2. /\ received'[s] = received[s] /\ session'[s] = Released(d) /\ SameData(s)
        /\ up' = up /\ handler' = handler /\ current' = current
    BY <1>2, <1>d DEF ReadFails, historyVars, dbVars, logVars, SameData
  <2>3. SessionType(d) /\ d.m_output = c.m_output /\ d.status = "open"
    BY <1>0, <2>1 DEF SessionType
  <2> HIDE DEF d
  <2>4. /\ session'[s].status \in {"open", "closed"} /\ Answered(Replies(s), Replies(s)', n)
    BY <1>0, <1>1, <2>2, <2>3, AnsweredSame
  <2>5. Busy(s)' # "execute" /\ up' # "down"
    BY <1>0, <1>i, <2>1, <2>2 DEF Busy
  <2> QED
    BY <1>0, <1>i, <2>1, <2>2, <2>4, <2>5, HandlerKeeps
<1>3. ASSUME WriteFails(s) PROVE DataOK(s)'
  <2> DEFINE d == [c EXCEPT !.writing = FALSE]
  <2>1. LoopIdle /\ c.writing
    BY <1>3 DEF WriteFails
  <2>2. /\ received'[s] = received[s] /\ session'[s] = Released(d) /\ SameData(s)
        /\ up' = up /\ handler' = handler /\ current' = current
    BY <1>3, <1>d DEF WriteFails, historyVars, dbVars, logVars, SameData
  <2>3. SessionType(d) /\ d.m_output = c.m_output /\ d.status = "open"
    BY <1>0, <2>1 DEF SessionType
  <2> HIDE DEF d
  <2>4. /\ session'[s].status \in {"open", "closed"} /\ Answered(Replies(s), Replies(s)', n)
    BY <1>0, <1>1, <2>2, <2>3, AnsweredSame
  <2>5. Busy(s)' # "execute" /\ up' # "down"
    BY <1>0, <1>i, <2>1, <2>2 DEF Busy
  <2> QED
    BY <1>0, <1>i, <2>1, <2>2, <2>4, <2>5, HandlerKeeps
<1>4. ASSUME ProcessDone(s) PROVE DataOK(s)'
  <2> DEFINE b == ~c.m_closeAfterWrite
             d == [c EXCEPT !.reading = b]
  <2>1. InProcess(s)
    BY <1>4 DEF ProcessDone
  <2>2. /\ received'[s] = received[s] /\ session'[s] = Released(d) /\ SameData(s)
        /\ up' = up /\ handler' = NoSession /\ current' = current
    BY <1>4, <1>d DEF ProcessDone, historyVars, dbVars, logVars, SameData
  <2>b. b \in BOOLEAN
    OBVIOUS
  <2> HIDE DEF b
  <2>3. SessionType(d) /\ d.m_output = c.m_output /\ d.status = "open"
    BY <1>0, <1>p, <2>1, <2>b DEF SessionType
  <2> HIDE DEF d
  <2>4. /\ session'[s].status \in {"open", "closed"} /\ Answered(Replies(s), Replies(s)', n)
    BY <1>0, <1>1, <2>2, <2>3, AnsweredSame
  <2>5. Busy(s)' # "execute" /\ up' # "down"
    BY <1>0, <1>p, <2>1, <2>2 DEF Busy
  <2> QED
    BY <1>0, <1>p, <2>1, <2>2, <2>4, <2>5, HandlerKeeps
<1>5. ASSUME ProtocolError(s) PROVE DataOK(s)'
  <2> DEFINE x == Answer(n + 1, "error", Absent)
             d == Queue(c, x, TRUE)
  <2>1. InProcess(s) /\ ~LoopEnds(c)
    BY <1>5 DEF ProtocolError
  <2>2. /\ received'[s] = received[s] /\ session'[s] = d /\ SameData(s)
        /\ up' = up /\ handler' = handler /\ current' = current
    BY <1>5, <1>d DEF ProtocolError, historyVars, dbVars, logVars, SameData
  <2> HIDE DEF x
  <2>3. d.status = c.status /\ received[s] \o d.m_output = Append(received[s] \o c.m_output, x)
    <3>1. \A close \in BOOLEAN : Queued(Queue(c, x, close), c, received[s], x, close)
      BY <1>0, QueueFields
    <3>2. Queued(d, c, received[s], x, TRUE)
      BY <3>1, Zenon
    <3> HIDE DEF d
    <3> QED
      BY <3>2 DEF Queued
  <2> HIDE DEF d
  <2>4. Len(Replies(s)) = n /\ c.status = "open"
    BY <1>0, <1>p, <2>1 DEF LoopEnds
  <2>5. Answered(Replies(s), Append(Replies(s), x), n)
    BY <1>0, <2>4, AnsweredQueued
  <2>6. Replies(s)' = Append(Replies(s), x)
    BY <1>r, <2>2, <2>3 DEF Replies
  <2>7. Busy(s)' # "execute" /\ up' # "down"
    BY <1>0, <1>p, <2>1, <2>2 DEF Busy
  <2> QED
    BY <1>0, <1>p, <2>1, <2>2, <2>3, <2>4, <2>5, <2>6, <2>7, HandlerKeeps
<1>6. ASSUME WriteDone(s) PROVE DataOK(s)'
  <2> DEFINE out == c.m_output
             got == Append(received[s], Head(out))
             d == IF Len(out) > 1 THEN [c EXCEPT !.m_output = Tail(@)]
                  ELSE IF c.m_closeAfterWrite THEN Closed(c)
                  ELSE Released([c EXCEPT !.writing = FALSE, !.m_output = <<>>])
  <2>1. LoopIdle /\ c.writing
    BY <1>6 DEF WriteDone
  <2>2. /\ received'[s] = got /\ session'[s] = d /\ SameData(s)
        /\ up' = up /\ handler' = handler /\ current' = current
    BY <1>6, <1>d DEF WriteDone, dbVars, logVars, SameData
  <2>3. out # <<>>
    BY <1>0, <2>1, PartsFacts DEF LifeInv
  <2>4. /\ AnySeq(got) /\ AnySeq(Tail(out)) /\ got \o Tail(out) = received[s] \o out
        /\ Len(out) > 1 <=> Tail(out) # <<>>
    BY <1>0, <2>3, RepliesWritten
  <2>5. d.status \in {"open", "closed"} /\ d.m_output = Tail(out)
    <3>1. CASE Len(out) > 1
      <4> DEFINE t == Tail(out)
      <4>1. d = [c EXCEPT !.m_output = t]
        BY <3>1
      <4> HIDE DEF d, t
      <4>2. d.status = c.status /\ d.m_output = t
        BY <1>0, <4>1 DEF SessionType
      <4> QED
        BY <1>0, <2>1, <4>2 DEF t
    <3>2. CASE ~(Len(out) > 1)
      <4>1. Tail(out) = <<>>
        BY <2>4, <3>2
      <4>2. \A e \in Seq(Requests) :
               /\ SessionType([c EXCEPT !.writing = FALSE, !.m_output = e])
               /\ [c EXCEPT !.writing = FALSE, !.m_output = e].status = c.status
               /\ [c EXCEPT !.writing = FALSE, !.m_output = e].m_output = e
        BY <1>0 DEF SessionType
      <4>3. <<>> \in Seq(Requests)
        OBVIOUS
      <4> DEFINE w == [c EXCEPT !.writing = FALSE, !.m_output = <<>>]
      <4>4. SessionType(w) /\ w.status = c.status /\ w.m_output = <<>>
        BY <4>2, <4>3, Zenon
      <4>5. d = Closed(c) \/ d = Closed(w) \/ d = w
        BY <3>2 DEF Released
      <4> HIDE DEF d, w
      <4>6. /\ Closed(c).status = "closed" /\ Closed(c).m_output = <<>>
            /\ Closed(w).status = "closed" /\ Closed(w).m_output = <<>>
        BY <1>0, <4>4, ClosedFields
      <4> QED
        BY <1>0, <2>1, <4>1, <4>4, <4>5, <4>6
    <3> QED
      BY <3>1, <3>2
  <2> HIDE DEF d, got, out
  <2>6. Replies(s)' = Replies(s)
    BY <2>2, <2>4, <2>5 DEF Replies, out
  <2>7. Busy(s)' # "execute" /\ up' # "down"
    BY <1>0, <1>i, <2>1, <2>2 DEF Busy
  <2> QED
    BY <1>0, <1>i, <2>1, <2>2, <2>5, <2>6, <2>7, AnsweredSame, HandlerKeeps
<1>7. ASSUME ReadDone(s) PROVE DataOK(s)'
  <2> DEFINE d(k) == [c EXCEPT !.m_input = @ \o SubSeq(net[s], 1, k), !.reading = FALSE]
             x == Answer(n + 1, "limit", Absent)
  <2>1. PICK k \in 1..ReadSize :
            /\ k <= Len(net[s])
            /\ IF OverLimit(d(k))
               THEN /\ session' = [session EXCEPT ![s] = Released(Queue(d(k), x, TRUE))]
                    /\ handler' = handler
               ELSE session' = [session EXCEPT ![s] = d(k)] /\ handler' = s
    BY <1>7 DEF ReadDone
  <2>2. /\ LoopIdle /\ c.reading /\ up' = up /\ current' = current
        /\ received'[s] = received[s] /\ SameData(s)
    BY <1>7 DEF ReadDone, dbVars, logVars, historyVars, SameData
  <2> DEFINE e == d(k)
  <2>3. e = [c EXCEPT !.m_input = @ \o SubSeq(net[s], 1, k), !.reading = FALSE]
    OBVIOUS
  <2>4. k \in 1..Len(net[s])
    <3>1. net[s] \in Seq(Requests)
      BY <1>0, PartsFacts
    <3>2. Len(net[s]) \in Nat
      BY <3>1, LenProperties
    <3> QED
      BY <2>1, <3>2, ServerAssumption
  <2> HIDE DEF d, e
  <2>5. PartsOK(c, net[s], sent[s], commits[s], received[s], hungup[s], "none", current)
    BY <1>0, <1>i, <2>2
  <2>6. PartsOK(e, SubSeq(net[s], k + 1, Len(net[s])), sent[s], commits[s], received[s],
                hungup[s], "process", current)
    BY <2>2, <2>3, <2>4, <2>5, ReadOK
  <2>7. SessionType(e) /\ AnySeq(e.m_output) /\ e.status = "open"
    BY <2>6, PartsFacts
  <2>8. e.m_output = c.m_output
    BY <1>0, <2>3 DEF SessionType
  <2>9. Busy(s)' # "execute" /\ up' # "down"
    BY <1>0, <1>i, <2>2 DEF Busy
  <2>10. CASE OverLimit(e)
    <3>1. session'[s] = Released(Queue(e, x, TRUE))
      BY <1>d, <2>1, <2>10 DEF e
    <3> HIDE DEF x
    <3>2. Queued(Queue(e, x, TRUE), e, received[s], x, TRUE)
      <4>1. \A close \in BOOLEAN : Queued(Queue(e, x, close), e, received[s], x, close)
        BY <1>0, <2>7, QueueFields
      <4> QED
        BY <4>1, Zenon
    <3> DEFINE f == Queue(e, x, TRUE)
    <3>3. /\ SessionType(f) /\ f.status = "open" /\ AnySeq(f.m_output)
          /\ received[s] \o f.m_output = Append(received[s] \o c.m_output, x)
      <4> HIDE DEF f
      <4>1. Queued(f, e, received[s], x, TRUE)
        BY <3>2 DEF f
      <4> QED
        BY <2>7, <2>8, <4>1 DEF Queued
    <3> HIDE DEF f
    <3>4. Len(Replies(s)) = n
      BY <1>0, <1>i, <2>2
    <3>5. Answered(received[s] \o c.m_output, received[s] \o f.m_output, n)
      <4>1. Answered(Replies(s), Append(Replies(s), x), n)
        BY <1>0, <3>4, AnsweredQueued
      <4> QED
        BY <1>r, <3>3, <4>1
    <3>6. session'[s].status \in {"open", "closed"} /\ Answered(Replies(s), Replies(s)', n)
      BY <1>1, <2>2, <3>1, <3>3, <3>5 DEF f
    <3> QED
      BY <1>0, <1>i, <2>2, <2>9, <3>6, HandlerKeeps
  <2>11. CASE ~OverLimit(e)
    <3>1. session'[s] = e
      BY <1>d, <2>1, <2>11 DEF e
    <3>2. Replies(s)' = Replies(s)
      BY <1>r, <2>2, <2>8, <3>1 DEF Replies
    <3> QED
      BY <1>0, <1>i, <2>2, <2>7, <2>9, <3>1, <3>2, AnsweredSame, HandlerKeeps
  <2> QED
    BY <2>10, <2>11
<1> QED
  BY <1>2, <1>3, <1>4, <1>5, <1>6, <1>7
\* What the client does.
LEMMA ClientKeepsData ==
    ASSUME ServerInv, NEW s \in Sessions, DataOK(s)
    PROVE  /\ Connect(s) => DataOK(s)'
           /\ \A r \in Requests : Send(s, r) => DataOK(s)'
           /\ Hangup(s) => DataOK(s)'
<1> DEFINE c == session[s]
           n == Len(commits[s])
           q == sent[s]
<1>0. /\ s # NoSession /\ SessionType(c)
      /\ q \in Seq(Requests) /\ n \in 0..Len(q)
      /\ c.status # "open" => c.m_output = <<>> /\ Busy(s) = "none"
      /\ c.status = "new" => q = <<>> /\ commits[s] = <<>>
      /\ Busy(s) = "execute" => n = Len(Replies(s)) + 1
      /\ Len(Replies(s)) \in Nat
  BY ClientFacts
<1>d. DOMAIN session = Sessions /\ DOMAIN sent = Sessions
  BY DEF ServerInv, LoopInv
<1>1. ASSUME Connect(s) PROVE DataOK(s)'
  <2>1. /\ up' = up /\ flushing' = flushing /\ m_store' = m_store /\ logged' = logged
        /\ handler' = handler /\ current' = current /\ sent' = sent /\ received' = received
        /\ commits' = commits /\ LoopIdle /\ c.status = "new"
        /\ s \in durable' <=> (flushing \/ s \in durable)
        /\ session'[s] = [c EXCEPT !.status = "open", !.reading = TRUE]
    BY <1>1, <1>d DEF Connect, dbVars, logVars
  <2>2. session'[s].status = "open" /\ session'[s].m_output = c.m_output
    BY <1>0, <2>1 DEF SessionType
  <2>3. Replies(s)' = Replies(s)
    BY <2>1, <2>2 DEF Replies
  <2>4. Busy(s)' # "execute" /\ up' # "down"
    BY <1>0, <2>1 DEF Busy, LoopIdle
  <2>5. n = 0
    <3>1. commits[s] = <<>>
      BY <1>0, <2>1
    <3> QED
      BY <3>1
  <2>6. DataInv("new", q, 0, Replies(s), Busy(s), current, up # "down", flushing, m_store, logged,
                s \in durable)
    BY <2>1, <2>5 DEF DataOK
  <2>7. s \in durable' <=> flushing
    BY <2>1, <2>6 DEF DataInv
  <2> HIDE DEF c, n, q
  <2> DEFINE busy2 == Busy(s)'
             cur2 == current'
             persistent2 == s \in durable'
  <2>8. q = <<>>
    BY <1>0, <2>1
  <2>9. DataInv("open", q, 0, Replies(s), busy2, cur2, TRUE, flushing, m_store, logged, persistent2)
    <3>1. busy2 # "execute" /\ (persistent2 <=> flushing)
      BY <2>4, <2>7
    <3> HIDE DEF busy2, cur2, persistent2
    <3> QED
      BY <2>6, <2>8, <3>1, DataConnected
  <2>10. (up' # "down") = TRUE
    BY <2>4
  <2>11. sent'[s] = q /\ Len(commits'[s]) = 0
    BY <2>1, <2>5 DEF q, n
  <2> QED
    BY <2>1, <2>2, <2>3, <2>9, <2>10, <2>11 DEF DataOK
<1>2. ASSUME NEW r \in Requests, Send(s, r) PROVE DataOK(s)'
  <2>1. /\ up' = up /\ flushing' = flushing /\ m_store' = m_store /\ logged' = logged
        /\ handler' = handler /\ current' = current /\ session' = session
        /\ received' = received /\ commits' = commits /\ durable' = durable
        /\ c.status = "open" /\ sent'[s] = Append(q, r)
    BY <1>2, <1>d DEF Send, dbVars, logVars
  <2>2. Replies(s)' = Replies(s) /\ Busy(s)' = Busy(s)
    BY <2>1 DEF Replies, Busy
  <2>3. DataInv("open", q, n, Replies(s), Busy(s), current, up # "down", flushing, m_store, logged,
                s \in durable)
    BY <2>1 DEF DataOK
  <2>4. Busy(s) = "execute" => n # 0
    BY <1>0
  <2>5. DataInv("open", Append(q, r), n, Replies(s), Busy(s), current, up # "down", flushing,
                m_store, logged, s \in durable)
    <3> HIDE DEF q, n
    <3> QED
      BY <1>0, <2>3, <2>4, DataSent
  <2> QED
    BY <2>1, <2>2, <2>5 DEF DataOK
<1>3. ASSUME Hangup(s) PROVE DataOK(s)'
  <2>1. /\ up' = up /\ flushing' = flushing /\ m_store' = m_store /\ logged' = logged
        /\ handler' = handler /\ current' = current /\ session' = session
        /\ received' = received /\ commits' = commits /\ durable' = durable /\ sent' = sent
    BY <1>3 DEF Hangup, dbVars, logVars, historyVars
  <2>2. Replies(s)' = Replies(s) /\ Busy(s)' = Busy(s)
    BY <2>1 DEF Replies, Busy
  <2> QED
    BY <2>1, <2>2 DEF DataOK
<1> QED
  BY <1>1, <1>2, <1>3

\* The process starts, is told to stop, and ends.
LEMMA ProcessKeepsData ==
    ASSUME ServerInv, ServerInv', NEW s \in Sessions, DataOK(s)
    PROVE  /\ UNCHANGED vars => DataOK(s)'
           /\ Start => DataOK(s)'
           /\ Signal => DataOK(s)'
           /\ \A lost : /\ ProcessGone(lost)
                        /\ session'[s].status = "new" \/ NoSelfRenameRequests =>
                               logged' = logged
                        => DataOK(s)'
<1> DEFINE c == session[s]
           n == Len(commits[s])
           q == sent[s]
           rep == Replies(s)
           persistent == s \in durable
<1>0. /\ s # NoSession /\ SessionType(c) /\ AnySeq(received[s]) /\ AnySeq(c.m_output)
      /\ q \in Seq(Requests) /\ n \in 0..Len(q) /\ Len(rep) \in Nat
      /\ c.status \in {"new", "open", "closed"}
      /\ c.status # "open" => c.m_output = <<>> /\ Busy(s) = "none"
      /\ Busy(s) = "execute" => n = Len(rep) + 1
  BY ClientFacts
<1>a. DataInv(c.status, q, n, rep, Busy(s), current, up # "down", flushing, m_store, logged,
              persistent)
  BY DEF DataOK
<1>1. ASSUME UNCHANGED vars PROVE DataOK(s)'
  BY <1>1 DEF vars, dbVars, logVars, historyVars, DataOK, Replies, Busy
<1>2. ASSUME Signal PROVE DataOK(s)'
  <2>1. /\ up # "down" /\ up' # "down" /\ flushing' = flushing /\ m_store' = m_store
        /\ logged' = logged /\ handler' = handler /\ current' = current /\ session' = session
        /\ received' = received /\ commits' = commits /\ durable' = durable /\ sent' = sent
    BY <1>2 DEF Signal, LoopIdle, dbVars, logVars, historyVars
  <2>2. Replies(s)' = Replies(s) /\ Busy(s)' = Busy(s) /\ (up # "down") = (up' # "down")
    BY <2>1 DEF Replies, Busy
  <2> QED
    BY <2>1, <2>2 DEF DataOK
<1>3. ASSUME Start PROVE DataOK(s)'
  <2>1. /\ up = "down" /\ m_store' = (IF flushing' THEN logged ELSE EmptyDB)
        /\ logged' = logged /\ handler' = handler /\ current' = current /\ session' = session
        /\ received' = received /\ commits' = commits /\ durable' = durable /\ sent' = sent
    BY <1>3 DEF Start, historyVars, logVars, EmptyDB
  <2>2. Replies(s)' = rep /\ Busy(s)' = Busy(s) /\ handler # s
    <3>1. handler = NoSession
      BY <2>1 DEF ServerInv, LoopInv
    <3> QED
      BY <1>0, <2>1, <3>1 DEF Replies, Busy
  <2>3. c.status # "open" /\ Busy(s) # "execute"
    BY <1>a, <2>1, <2>2 DEF DataInv, Busy
  <2>4. c.status = "new" => m_store' = EmptyDB
    BY <1>a, <2>1 DEF DataInv
  <2> DEFINE running2 == up' # "down"
             flush2 == flushing'
             store2 == m_store'
             busy2 == Busy(s)'
             cur2 == current'
  <2>5. DataInv(c.status, q, n, rep, busy2, cur2, running2, flush2, store2, logged, persistent)
    <3>1. busy2 # "execute" /\ (c.status = "new" => store2 = EmptyDB)
      BY <2>2, <2>3, <2>4
    <3> HIDE DEF c, n, q, rep, persistent, running2, flush2, store2, busy2, cur2
    <3> QED
      BY <1>a, <2>3, <3>1, DataIdle
  <2> QED
    BY <2>1, <2>2, <2>5 DEF DataOK
<1>4. ASSUME NEW lost, ProcessGone(lost),
             session'[s].status = "new" \/ NoSelfRenameRequests => logged' = logged
      PROVE  DataOK(s)'
  <2>1. /\ up' = "down" /\ flushing' = FALSE /\ m_store' = EmptyDB /\ handler' = NoSession
        /\ sent' = sent /\ received' = received /\ commits' = commits /\ durable' = durable
        /\ session'[s] = IF c.status = "open" \/ s \in lost THEN Closed(c) ELSE c
    BY <1>4 DEF ProcessGone, historyVars, EmptyDB
  <2>2. Closed(c).status = "closed" /\ Closed(c).m_output = <<>>
    BY <1>0, ClosedFields
  <2>3. Busy(s)' # "execute"
    BY <1>0, <2>1 DEF Busy
  <2>p. rep = received[s] \o c.m_output
    BY DEF Replies
  <2> DEFINE running2 == up' # "down"
             flush2 == flushing'
             store2 == m_store'
             busy2 == Busy(s)'
             cur2 == current'
             rep2 == Replies(s)'
             status2 == session'[s].status
             log2 == logged'
  <2>4. CASE c.status = "open"
    <3>1. status2 = "closed" /\ rep2 = received[s] \o <<>>
      BY <2>1, <2>2, <2>4 DEF Replies
    <3>2. Answered(rep, rep2, n) /\ Len(rep2) <= Len(rep) /\ Len(rep2) \in Nat
      <4>1. Answered(rep, received[s] \o <<>>, n) /\ Len(received[s] \o <<>>) <= Len(rep)
        BY <1>0, <2>p, AnsweredDropped
      <4>2. Len(received[s] \o <<>>) \in Nat
        BY <1>0, AnySeqFacts
      <4> QED
        BY <3>1, <4>1, <4>2
    <3>3. Busy(s) = "execute" => Len(rep2) < n
      BY <1>0, <3>2
    <3>4. DataInv("closed", q, n, rep2, busy2, cur2, running2, flush2, store2, logged, persistent)
      <4>1. busy2 # "execute"
        BY <2>3
      <4>2. DataInv("open", q, n, rep, Busy(s), current, up # "down", flushing, m_store, logged,
                    persistent)
        BY <1>a, <2>4
      <4> HIDE DEF c, n, q, rep, persistent, running2, flush2, store2, busy2, cur2, rep2, status2, log2
      <4> QED
        BY <1>0, <3>2, <3>3, <4>1, <4>2, DataClosed
    <3>5. DataInv("closed", q, n, rep2, busy2, cur2, running2, flush2, store2, log2, persistent)
      <4>1. NoSelfRenameRequests => log2 = logged
        BY <1>4
      <4> HIDE DEF c, n, q, rep, persistent, running2, flush2, store2, busy2, cur2, rep2, status2, log2
      <4> QED
        BY <3>4, <4>1, DataRewritten
    <3> QED
      BY <2>1, <3>1, <3>5 DEF DataOK
  <2>5. CASE c.status # "open"
    <3>1. status2 = c.status \/ (c.status = "new" /\ status2 = "closed")
      BY <1>0, <2>1, <2>2, <2>5
    <3>2. rep2 = rep
      BY <1>0, <2>1, <2>2, <2>5 DEF Replies
    <3>3. DataInv(status2, q, n, rep, busy2, cur2, running2, flush2, store2, logged, persistent)
      <4>1. busy2 # "execute" /\ store2 = EmptyDB
        BY <2>1, <2>3
      <4> HIDE DEF c, n, q, rep, persistent, running2, flush2, store2, busy2, cur2, rep2, status2, log2
      <4> QED
        BY <1>a, <2>5, <3>1, <4>1, DataIdle
    <3>4. DataInv(status2, q, n, rep, busy2, cur2, running2, flush2, store2, log2, persistent)
      <4>1. status2 = "new" \/ NoSelfRenameRequests => log2 = logged
        BY <1>4
      <4>2. status2 # "open"
        BY <2>5, <3>1
      <4> HIDE DEF c, n, q, rep, persistent, running2, flush2, store2, busy2, cur2, rep2, status2, log2
      <4> QED
        BY <3>3, <4>1, <4>2, DataRewritten
    <3> QED
      BY <2>1, <3>2, <3>4 DEF DataOK
  <2> QED
    BY <2>4, <2>5
<1> QED
  BY <1>1, <1>2, <1>3, <1>4
\* A command is entered, calls the database, and returns.
LEMMA CommandsKeepData ==
    ASSUME ServerInv, ServerInv', NEW s \in Sessions, DataOK(s)
    PROVE  /\ StartCommand(s) => DataOK(s)'
           /\ CommitStep(s) => DataOK(s)'
           /\ FinishCommand(s) => DataOK(s)'
<1> DEFINE c == session[s]
           n == Len(commits[s])
           q == sent[s]
           rep == Replies(s)
           persistent == s \in durable
           running == up # "down"
           running2 == up' # "down"
           cur2 == current'
<1>0. /\ s # NoSession /\ SessionType(c)
      /\ AnySeq(received[s]) /\ AnySeq(c.m_output) /\ AnySeq(rep)
      /\ q \in Seq(Requests) /\ n \in 0..Len(q) /\ Len(rep) \in Nat
      /\ Busy(s) # "none" => c.status = "open"
      /\ Busy(s) = "execute" => n = Len(rep) + 1
      /\ c.status = "open" /\ Busy(s) # "execute" /\ ~c.m_closeAfterWrite => Len(rep) = n
      /\ c.m_version = VersionOf(q, n)
      /\ Busy(s) = "execute" => CurrentOK(current, q[n], commits[s][n])
  BY ClientFacts
<1>n. n \in Nat /\ commits[s] \in Seq(Nat) /\ Len(q) \in Nat
  BY <1>0, LenProperties DEF ServerInv, SessionOK, PartsOK, SessionInv
<1>a. DataInv(c.status, q, n, rep, Busy(s), current, running, flushing, m_store, logged, persistent)
  BY DEF DataOK
<1>d. DOMAIN session = Sessions /\ DOMAIN commits = Sessions
  BY DEF ServerInv, LoopInv
<1>p. InProcess(s) => handler = s /\ Busy(s) = "process"
  BY DEF InProcess, Busy
<1>x. Executing(s) => handler = s /\ current # Absent /\ Busy(s) = "execute"
  BY DEF Executing, Busy
<1>b. PartsOK(session'[s], net'[s], sent'[s], commits'[s], received'[s], hungup'[s], Busy(s)',
              current')
  BY DEF ServerInv, SessionOK
<1>1. ASSUME StartCommand(s) PROVE DataOK(s)'
  <2> DEFINE r == Head(c.m_input)
  <2>1. /\ up' = up /\ flushing' = flushing /\ m_store' = m_store /\ logged' = logged
        /\ handler' = handler /\ sent' = sent /\ received' = received /\ durable' = durable
        /\ InProcess(s) /\ ~LoopEnds(c)
        /\ current' = [command |-> r, pending |-> EventsFor(r), applied |-> 0]
        /\ commits'[s] = Append(commits[s], 0)
        /\ session'[s] = [c EXCEPT !.m_input = SubSeq(@, r.size + 1, Len(@)),
                                   !.m_version = NextVersion(@, r)]
    BY <1>1, <1>d DEF StartCommand, dbVars, logVars
  <2>2. session'[s].status = c.status /\ session'[s].m_output = c.m_output
    BY <1>0, <2>1 DEF SessionType
  <2>3. c.status = "open" /\ Len(rep) = n /\ Busy(s) # "execute" /\ Busy(s) # "none"
    BY <1>0, <1>p, <2>1 DEF LoopEnds
  <2>4. Replies(s)' = rep
    BY <2>1, <2>2 DEF Replies
  <2>5. Len(commits'[s]) = n + 1
    BY <1>n, <2>1, AppendProperties
  <2>6. Busy(s)' \in {"process", "execute"}
    BY <1>p, <2>1 DEF Busy
  <2>7. /\ n < Len(q)
        /\ Busy(s)' = "execute" => CurrentOK(current', q[n + 1], commits'[s][n + 1])
    <3> DEFINE busy2 == Busy(s)'
               com2 == commits'[s]
    <3>1. /\ Len(com2) <= Len(sent'[s])
          /\ busy2 = "execute" => CurrentOK(current', sent'[s][Len(com2)], com2[Len(com2)])
      <4> HIDE DEF busy2, com2
      <4> QED
        BY <1>b DEF PartsOK, SessionInv, CountInv, busy2, com2
    <3> QED
      BY <1>n, <2>1, <2>5, <3>1
  <2>8. Busy(s)' = "execute"
    <3>1. current' # Absent
      <4>1. r \in Requests
        <5>1. c.m_input \in Seq(Requests) /\ c.m_input # <<>>
          BY <1>0, <2>1, SessionFields DEF LoopEnds, ParseCommand
        <5> QED
          BY <5>1, HeadTailProperties
      <4>2. EventsFor(r) \in Seq(Event)
        BY <4>1, CommandEvents
      <4> DEFINE es == EventsFor(r)
      <4> HIDE DEF r, es
      <4>3. [command |-> r, pending |-> es, applied |-> 0]
                \in [command : Requests, pending : Seq(Event), applied : Nat]
        BY <4>1, <4>2 DEF es
      <4> QED
        BY <2>1, <4>3, CommandAssumption DEF es
    <3> QED
      BY <1>p, <2>1, <3>1 DEF Busy
  <2>9. current'.pending = EventsFor(q[n + 1]) /\ current'.applied = 0
    <3>1. current'.command = q[n + 1]
      BY <2>7, <2>8 DEF CurrentOK
    <3>2. /\ current'.command = r /\ current'.pending = EventsFor(r) /\ current'.applied = 0
      <4> DEFINE es == EventsFor(r)
      <4> HIDE DEF r, es
      <4>1. current' = [command |-> r, pending |-> es, applied |-> 0]
        BY <2>1 DEF es
      <4> QED
        BY <4>1 DEF es
    <3> QED
      BY <3>1, <3>2
  <2>10. DataInv("open", q, n, rep, Busy(s), current, running, flushing, m_store, logged, persistent)
    BY <1>a, <2>3
  <2>11. DataInv("open", q, n + 1, rep, "execute", cur2, running, flushing, m_store, logged,
                 persistent)
    <3>1. cur2.pending = EventsFor(q[n + 1]) /\ cur2.applied = 0
      BY <2>9
    <3>2. Len(rep) <= n
      BY <1>n, <2>3
    <3> HIDE DEF c, n, q, rep, persistent, running, cur2
    <3> QED
      BY <1>0, <1>n, <2>3, <2>7, <2>10, <3>1, <3>2, DataStarted
  <2> QED
    BY <2>1, <2>2, <2>3, <2>4, <2>5, <2>8, <2>11 DEF DataOK
<1>2. ASSUME CommitStep(s) PROVE DataOK(s)'
  <2> DEFINE e == Head(current.pending)
             m == IF Applies(m_store, e, 0) THEN 1 ELSE 0
             store2 == m_store'
             log2 == logged'
  <2>1. /\ up' = up /\ flushing' = flushing /\ handler' = handler /\ session' = session
        /\ sent' = sent /\ received' = received /\ durable' = durable
        /\ Executing(s) /\ current.pending # <<>>
        /\ current' = [current EXCEPT !.pending = Tail(@), !.applied = @ + m]
        /\ m_store' = IF m = 1 THEN ApplyEvent(m_store, e, 0) ELSE m_store
        /\ logged' = IF flushing /\ m = 1 THEN ApplyEvent(logged, e, 0) ELSE logged
        /\ commits' = [commits EXCEPT ![s][n] = @ + m]
    BY <1>2 DEF CommitStep, Logs, logVars
  <2>2. c.status = "open" /\ n = Len(rep) + 1 /\ Busy(s) = "execute" /\ n \in 1..Len(q)
    BY <1>0, <1>n, <1>x, <2>1
  <2>3. Replies(s)' = rep
    BY <2>1 DEF Replies
  <2>4. Len(commits'[s]) = n
    <3>1. commits'[s] = [commits[s] EXCEPT ![n] = @ + m]
      BY <1>d, <2>1
    <3>2. m \in Nat
      OBVIOUS
    <3> HIDE DEF m
    <3>3. n \in 1..n
      BY <2>2
    <3>4. commits[s][n] \in Nat
      BY <1>n, <3>3, ElementOfSeq
    <3>5. commits'[s] \in Seq(Nat) /\ Len(commits'[s]) = n
      BY <1>n, <3>1, <3>2, <3>3, <3>4, ExceptSeq
    <3> QED
      BY <3>5
  <2>5. CurrentOK(current, q[n], commits[s][n])
    BY <1>0, <2>2
  <2>6. cur2.pending = Tail(current.pending) /\ cur2.applied = current.applied + m
    <3>1. current \in [command : Requests, pending : Seq(Event), applied : Nat]
      BY <2>5 DEF CurrentOK
    <3> HIDE DEF m
    <3> QED
      BY <2>1, <3>1
  <2>7. Busy(s)' = "execute"
    <3>1. cur2 # Absent
      <4>1. /\ current \in [command : Requests, pending : Seq(Event), applied : Nat]
        BY <2>5 DEF CurrentOK
      <4>2. m \in Nat /\ current.applied + m \in Nat
        BY <4>1
      <4>3. Tail(current.pending) \in Seq(Event)
        <5>1. current.pending \in Seq(Event)
          BY <4>1
        <5> QED
          BY <2>1, <5>1, HeadTailProperties
      <4> DEFINE t == Tail(current.pending)
                 a == current.applied + m
      <4>4. cur2 = [current EXCEPT !.pending = t, !.applied = a]
        BY <2>1
      <4>5. t \in Seq(Event) /\ a \in Nat
        BY <4>2, <4>3
      <4> HIDE DEF t, a, cur2
      <4>6. cur2 \in [command : Requests, pending : Seq(Event), applied : Nat]
        BY <4>1, <4>4, <4>5
      <4> QED
        BY <4>6, CommandAssumption
    <3> QED
      BY <1>x, <2>1, <3>1 DEF Busy
  <2>8. DataInv("open", q, n, rep, "execute", current, running, flushing, m_store, logged, persistent)
    BY <1>a, <2>2
  <2>9. DataInv("open", q, n, rep, "execute", cur2, running, flushing, store2, log2, persistent)
    <3>1. /\ store2 = IF m = 1 THEN ApplyEvent(m_store, e, 0) ELSE m_store
          /\ log2 = IF flushing /\ m = 1 THEN ApplyEvent(logged, e, 0) ELSE logged
          /\ e = Head(current.pending) /\ m = IF Applies(m_store, e, 0) THEN 1 ELSE 0
      BY <2>1
    <3>2. \A e1, m1, s1, l1 :
             /\ e1 = Head(current.pending)
             /\ m1 = IF Applies(m_store, e1, 0) THEN 1 ELSE 0
             /\ s1 = IF m1 = 1 THEN ApplyEvent(m_store, e1, 0) ELSE m_store
             /\ l1 = IF flushing /\ m1 = 1 THEN ApplyEvent(logged, e1, 0) ELSE logged
             /\ cur2.applied = current.applied + m1
             => DataInv("open", q, n, rep, "execute", cur2, running, flushing, s1, l1, persistent)
      <4> HIDE DEF c, n, q, rep, persistent, running, cur2
      <4> QED
        BY <1>0, <2>1, <2>2, <2>6, <2>8, DataCommitted
    <3> HIDE DEF e, m, store2, log2, cur2, running, persistent, q, n, rep
    <3> QED
      BY <2>6, <3>1, <3>2
  <2> QED
    BY <2>1, <2>2, <2>3, <2>4, <2>7, <2>9 DEF DataOK
<1>3. ASSUME FinishCommand(s) PROVE DataOK(s)'
  <2> DEFINE x == Reply(current.command, current.applied, m_store, c.m_version, n)
             close == Closes(current.command)
             d == Queue(c, x, close)
  <2>1. /\ up' = up /\ flushing' = flushing /\ m_store' = m_store /\ logged' = logged
        /\ handler' = handler /\ sent' = sent /\ received' = received /\ durable' = durable
        /\ commits' = commits /\ Executing(s) /\ current.pending = <<>> /\ current' = Absent
        /\ session'[s] = d
    BY <1>3, <1>d DEF FinishCommand, dbVars, logVars, historyVars
  <2>2. c.status = "open" /\ n = Len(rep) + 1 /\ Busy(s) = "execute" /\ n \in 1..Len(q)
    BY <1>0, <1>n, <1>x, <2>1
  <2>3. x = Reply(q[n], current.applied, m_store, VersionOf(q, n), n)
    <3>1. current.command = q[n]
      BY <1>0, <2>2 DEF CurrentOK
    <3> QED
      BY <1>0, <3>1
  <2>4. close \in BOOLEAN
    BY DEF Closes
  <2> HIDE DEF x, close
  <2>5. d.status = c.status /\ received[s] \o d.m_output = Append(received[s] \o c.m_output, x)
    <3>1. Queued(d, c, received[s], x, close)
      BY <1>0, <2>4, QueueFields
    <3> HIDE DEF d
    <3> QED
      BY <3>1 DEF Queued
  <2> HIDE DEF d
  <2>6. Replies(s)' = Append(rep, x)
    BY <2>1, <2>5 DEF Replies
  <2>7. Busy(s)' = "process"
    BY <1>x, <2>1 DEF Busy
  <2>8. DataInv("open", q, n, rep, "execute", current, running, flushing, m_store, logged, persistent)
    BY <1>a, <2>2
  <2>9. DataInv("open", q, n, Append(rep, x), "process", cur2, running, flushing, m_store, logged,
                persistent)
    <3> HIDE DEF c, n, q, rep, persistent, running, cur2
    <3> QED
      BY <1>0, <2>1, <2>2, <2>3, <2>8, DataFinished
  <2> QED
    BY <2>1, <2>2, <2>5, <2>6, <2>7, <2>9 DEF DataOK
<1> QED
  BY <1>1, <1>2, <1>3
-----------------------------------------------------------------------------
(* The invariant holds. *)

-----------------------------------------------------------------------------
(* The log: what the final compaction makes of it. *)

LEMMA RequestEvents ==
    ASSUME NEW r \in Requests, NEW i \in 1..Len(EventsFor(r))
    PROVE  PlainEvent(EventsFor(r)[i])
<1> DEFINE e == EventsFor(r)[i]
<1>1. CASE ~Accepted(r) \/ r.name \notin {"SET", "RENAME", "DEL", "FLUSHDB"}
  <2>1. EventsFor(r) = <<>>
    BY <1>1 DEF EventsFor
  <2> QED
    BY <2>1
<1>2. CASE Accepted(r) /\ r.name = "SET"
  <2>1. EventsFor(r) = <<RadishEvent(CREATE, NoExpiry, r.args[1], Absent, r.args[2])>>
    BY <1>2 DEF EventsFor
  <2> QED
    BY <2>1 DEF PlainEvent, RadishEvent, CREATE, RENAME
<1>3. CASE Accepted(r) /\ r.name = "RENAME"
  <2>1. EventsFor(r) = <<RadishEvent(RENAME, -1, r.args[1], r.args[2], Absent)>>
    BY <1>3 DEF EventsFor
  <2> QED
    BY <1>3, <2>1 DEF PlainEvent, RadishEvent, CREATE, RENAME, NoSelfRenameRequests
<1>4. CASE Accepted(r) /\ r.name = "DEL"
  <2>1. EventsFor(r) = [j \in 1..Len(r.args) |-> RadishEvent(DELETE, -1, r.args[j], Absent, Absent)]
    BY <1>4 DEF EventsFor
  <2>2. r.args \in Seq(Keys \cup Values \cup STRING)
    BY ServerAssumption DEF Request
  <2>3. Len(r.args) \in Nat
    BY <2>2, LenProperties
  <2>4. Len(EventsFor(r)) = Len(r.args)
    BY <2>1, <2>3
  <2>5. e = RadishEvent(DELETE, -1, r.args[i], Absent, Absent)
    BY <2>1, <2>4
  <2> HIDE DEF e
  <2>6. PlainEvent(e)
    BY <2>5 DEF PlainEvent, RadishEvent, CREATE, RENAME, DELETE
  <2> QED
    BY <2>6 DEF e
<1>5. CASE Accepted(r) /\ r.name = "FLUSHDB"
  <2>1. EventsFor(r) = <<RadishEvent(CLEAR, -1, Absent, Absent, Absent)>>
    BY <1>5 DEF EventsFor
  <2> QED
    BY <2>1 DEF PlainEvent, RadishEvent, CREATE, RENAME, CLEAR
<1> QED
  BY <1>1, <1>2, <1>3, <1>4, <1>5

\* Stores without deadlines are equal if their data are.
LEMMA SameStore ==
    ASSUME NEW x \in Store, NEW y \in Store, x.m_ttl = y.m_ttl, x.m_ttlData = y.m_ttlData,
           \A k \in Keys : x.m_data[k] = y.m_data[k]
    PROVE  x = y
<1>1. x.m_data \in [Keys -> Values \cup {Absent}] /\ y.m_data \in [Keys -> Values \cup {Absent}]
  BY DEF Store, DataMap
<1>2. x.m_data = y.m_data
  BY <1>1
<1> QED
  BY <1>2 DEF Store

LEMMA RewrittenEmpty == RewrittenStore(EmptyEventsMap) = EmptyDB
<1> DEFINE x == RewrittenStore(EmptyEventsMap)
<1>1. /\ x \in Store /\ x.m_ttl = NoExpiry /\ x.m_ttlData = [k \in Keys |-> Absent]
      /\ x.m_data = [k \in Keys |-> IF EmptyEventsMap[k] = Absent THEN Absent
                                    ELSE EmptyEventsMap[k].payload]
  BY EmptyEventsMapType, RewrittenStoreType
<1>2. EmptyDB \in Store
  BY EmptyStoreType DEF NoExpiry, EmptyDB
<1> HIDE DEF x
<1>3. /\ EmptyDB.m_ttl = NoExpiry /\ EmptyDB.m_ttlData = [k \in Keys |-> Absent]
      /\ \A k \in Keys : EmptyDB.m_data[k] = Absent /\ EmptyEventsMap[k] = Absent
  BY DEF EmptyDB, EmptyStore, EmptyEventsMap
<1>4. x = EmptyDB
  BY <1>1, <1>2, <1>3, SameStore
<1> QED
  BY <1>4 DEF x

\* Each compaction strategy does to the map what the event does to the store.
LEMMA RewrittenAgrees ==
    ASSUME NEW m \in EventsMap, SurvivorsOK(m), NEW e, WellFormed(e),
           PlainEvent(e), NoSelfRenameRequests
    PROVE  ApplyEvent(RewrittenStore(m), e, 0) = RewrittenStore(CompactEvent(m, e, 0))
<1> DEFINE c == CompactEvent(m, e, 0)
           x == RewrittenStore(m)
           y == RewrittenStore(c)
           z == ApplyEvent(x, e, 0)
<1>0. /\ e \in Event /\ e.type \in EventType
      /\ e.type # CLEAR => e.key \in Keys
      /\ e.type = RENAME => e.renameKey \in Keys
      /\ e.type = CREATE => e.payload \in Values
  BY DEF WellFormed, Event, EventType, CREATE, RENAME, DELETE, CLEAR
<1>1. c \in EventsMap /\ SurvivorsOK(c)
  BY CompactEventType
<1> HIDE DEF c
<1>2. /\ x \in Store /\ x.m_ttl = NoExpiry /\ x.m_ttlData = [k \in Keys |-> Absent]
      /\ \A k \in Keys : x.m_data[k] = IF m[k] = Absent THEN Absent ELSE m[k].payload
  BY RewrittenStoreType
<1>3. /\ y \in Store /\ y.m_ttl = NoExpiry /\ y.m_ttlData = [k \in Keys |-> Absent]
      /\ \A k \in Keys : y.m_data[k] = IF c[k] = Absent THEN Absent ELSE c[k].payload
  BY <1>1, RewrittenStoreType
<1> HIDE DEF x, y
<1>4. z \in Store
  BY <1>2, ApplyEventType
<1>5. x.m_data \in [Keys -> Values \cup {Absent}]
  BY <1>2 DEF Store, DataMap
<1>6. \A k \in Keys : m[k] # Absent => m[k] \in Event /\ m[k].payload # Absent
  BY StoreAssumption DEF SurvivorsOK, WellFormed
<1>7. ~HasTimeToLive(x) /\ \A k \in Keys : ~IsExpired(x, k, 0)
  BY <1>2 DEF HasTimeToLive, IsExpired
<1>s. ASSUME z.m_ttl = NoExpiry, z.m_ttlData = [k \in Keys |-> Absent],
             \A k \in Keys : z.m_data[k] = y.m_data[k]
      PROVE  z = y
  BY <1>3, <1>4, <1>s, SameStore
<1>10. CASE e.type = CREATE
  <2>1. c = [m EXCEPT ![e.key] = e]
    BY <1>10 DEF c, CompactEvent, PlainEvent, PastDeadline, CreateCompactStrategy,
                 CREATE, RENAME, DELETE, CLEAR
  <2>2. z = StoreWith(x, [x.m_data EXCEPT ![e.key] = e.payload], x.m_ttlData)
    BY <1>7, <1>10 DEF ApplyEvent, StoreCreate, CREATE, RENAME, DELETE, CLEAR
  <2>3. /\ z.m_ttl = NoExpiry /\ z.m_ttlData = [k \in Keys |-> Absent]
        /\ z.m_data = [x.m_data EXCEPT ![e.key] = e.payload]
    BY <1>2, <2>2 DEF StoreWith
  <2>4. e.key \in Keys /\ e # Absent
    BY <1>0, <1>10, LogAssumption DEF CREATE, CLEAR
  <2> HIDE DEF z
  <2>5. \A k \in Keys : z.m_data[k] = y.m_data[k]
    BY <1>2, <1>3, <1>5, <2>1, <2>3, <2>4 DEF EventsMap
  <2> QED
    BY <1>s, <2>3, <2>5 DEF z, c, x, y
<1>11. CASE e.type = RENAME
  <2>0. e.key \in Keys /\ e.renameKey \in Keys /\ e.key # e.renameKey
    BY <1>0, <1>11 DEF PlainEvent, RENAME, CLEAR
  <2>1. c = RenameCompactStrategy(m, e)
    BY <1>11 DEF c, CompactEvent, CREATE, RENAME, DELETE, CLEAR
  <2>2. z = StoreRename(x, e.key, e.renameKey, 0)
    BY <1>11 DEF ApplyEvent, CREATE, RENAME, DELETE, CLEAR
  <2>3. CASE m[e.key] = Absent
    <3>1. c = m
      BY <2>1, <2>3 DEF RenameCompactStrategy
    <3>2. z = x
      BY <1>2, <2>0, <2>2, <2>3 DEF StoreRename, CanRename
    <3> QED
      BY <3>1, <3>2 DEF z, c, x
  <2>4. CASE m[e.key] # Absent
    <3> DEFINE g == [m[e.key] EXCEPT !.key = e.renameKey]
    <3>1. c = [[m EXCEPT ![e.key] = Absent] EXCEPT ![e.renameKey] = g]
      BY <2>1, <2>4 DEF RenameCompactStrategy
    <3>2. g \in Event /\ g.payload = m[e.key].payload
      BY <1>6, <2>0, <2>4 DEF Event
    <3>3. g # Absent
      BY <3>2, LogAssumption
    <3> HIDE DEF g
    <3>4. CanRename(x, e.key, 0)
      BY <1>2, <1>6, <1>7, <2>0, <2>4 DEF CanRename
    <3>5. z = StoreWith(x, MoveEntry(x.m_data, e.key, e.renameKey),
                        [x.m_ttlData EXCEPT ![e.renameKey] = Absent])
      BY <1>2, <2>0, <2>2, <3>4 DEF StoreRename
    <3>6. /\ z.m_ttl = NoExpiry /\ z.m_ttlData = [k \in Keys |-> Absent]
          /\ z.m_data = MoveEntry(x.m_data, e.key, e.renameKey)
      BY <1>2, <2>0, <3>5 DEF StoreWith
    <3> HIDE DEF z
    <3>7. \A k \in Keys : z.m_data[k] =
              IF k = e.key THEN Absent ELSE IF k = e.renameKey THEN x.m_data[e.key] ELSE x.m_data[k]
      BY <1>5, <2>0, <3>6 DEF MoveEntry
    <3>8. \A k \in Keys : c[k] =
              IF k = e.renameKey THEN g ELSE IF k = e.key THEN Absent ELSE m[k]
      BY <2>0, <3>1 DEF EventsMap
    <3>9. \A k \in Keys : z.m_data[k] = y.m_data[k]
      BY <1>2, <1>3, <2>0, <2>4, <3>2, <3>3, <3>7, <3>8
    <3> QED
      BY <1>s, <3>6, <3>9 DEF z, c, x, y
  <2> QED
    BY <2>3, <2>4
<1>12. CASE e.type = DELETE
  <2>0. e.key \in Keys
    BY <1>0, <1>12 DEF DELETE, CLEAR
  <2>1. c = [m EXCEPT ![e.key] = Absent]
    BY <1>12 DEF c, CompactEvent, DeleteCompactStrategy, CREATE, RENAME, DELETE, CLEAR
  <2>2. z = StoreWith(x, [x.m_data EXCEPT ![e.key] = Absent], [x.m_ttlData EXCEPT ![e.key] = Absent])
    BY <1>12 DEF ApplyEvent, StoreDelete, CREATE, RENAME, DELETE, CLEAR
  <2>3. /\ z.m_ttl = NoExpiry /\ z.m_ttlData = [k \in Keys |-> Absent]
        /\ z.m_data = [x.m_data EXCEPT ![e.key] = Absent]
    BY <1>2, <2>0, <2>2 DEF StoreWith
  <2> HIDE DEF z
  <2>4. \A k \in Keys : z.m_data[k] = y.m_data[k]
    BY <1>2, <1>3, <1>5, <2>0, <2>1, <2>3 DEF EventsMap
  <2> QED
    BY <1>s, <2>3, <2>4 DEF z, c, x, y
<1>13. CASE e.type = CLEAR
  <2>1. c = EmptyEventsMap
    BY <1>13 DEF c, CompactEvent, ClearCompactStrategy, CREATE, RENAME, DELETE, CLEAR
  <2>2. z = IF StoreIsEmpty(x) THEN x ELSE EmptyStore(x.m_ttl)
    BY <1>13 DEF ApplyEvent, StoreClear, CREATE, RENAME, DELETE, CLEAR
  <2>3. z = EmptyDB
    <3>1. CASE StoreIsEmpty(x)
      <4>1. EmptyDB \in Store
        BY EmptyStoreType DEF NoExpiry, EmptyDB
      <4>2. /\ EmptyDB.m_ttl = NoExpiry /\ EmptyDB.m_ttlData = [k \in Keys |-> Absent]
            /\ \A k \in Keys : EmptyDB.m_data[k] = Absent
        BY DEF EmptyDB, EmptyStore
      <4>3. x = EmptyDB
        BY <1>2, <3>1, <4>1, <4>2, SameStore DEF StoreIsEmpty
      <4> QED
        BY <2>2, <3>1, <4>3
    <3>2. CASE ~StoreIsEmpty(x)
      BY <1>2, <2>2, <3>2 DEF EmptyDB
    <3> QED
      BY <3>1, <3>2
  <2> QED
    BY <2>1, <2>3, RewrittenEmpty DEF z, x, c
<1> QED
  BY <1>0, <1>10, <1>11, <1>12, <1>13 DEF EventType

LEMMA FileInit == Init => FileInv
<1> SUFFICES ASSUME Init PROVE FileInv
  OBVIOUS
<1>1. current = Absent /\ survivors = EmptyEventsMap /\ logged = EmptyDB
  BY DEF Init, EmptyDB
<1> QED
  BY <1>1, RewrittenEmpty DEF FileInv

\* Of the steps of the server only a commit and the final compaction change
\* the log, and only a command that starts brings events to commit.
LEMMA FileStep == ServerInv /\ FileInv /\ [Next]_vars => FileInv'
<1> SUFFICES ASSUME ServerInv, FileInv, [Next]_vars PROVE FileInv'
  OBVIOUS
<1>1. ASSUME logged' = logged, survivors' = survivors, commits' = commits,
             current' = current \/ current' = Absent
      PROVE  FileInv'
  BY <1>1 DEF FileInv
<1>2. CASE Start \/ Signal \/ Crash \/ StartFails \/ AcceptFails \/ UNCHANGED vars
  BY <1>1, <1>2 DEF Start, Signal, Crash, ProcessGone, StartFails, AcceptFails, vars, dbVars,
                    logVars, historyVars
<1>3. CASE Exit
  <2>1. /\ survivors' = survivors /\ commits' = commits /\ current' = Absent
        /\ logged' = logged \/ logged' = RewrittenStore(survivors)
    BY <1>3 DEF Exit, ProcessGone, historyVars
  <2> QED
    BY <2>1 DEF FileInv
<1>4. ASSUME NEW s \in Sessions,
             Connect(s) \/ StartThrows(s) \/ (\E r \in Requests : Send(s, r)) \/ Hangup(s)
      PROVE  FileInv'
  BY <1>1, <1>4 DEF Connect, StartThrows, ProcessGone, Send, Hangup, dbVars, logVars, historyVars
<1>5. ASSUME NEW s \in Sessions, ReadDone(s) \/ ReadFails(s) \/ WriteDone(s) \/ WriteFails(s)
      PROVE  FileInv'
  BY <1>1, <1>5 DEF ReadDone, ReadFails, WriteDone, WriteFails, dbVars, logVars, historyVars
<1>6. ASSUME NEW s \in Sessions,
             ProcessDone(s) \/ ProtocolError(s) \/ AppendThrows(s) \/ FinishCommand(s)
      PROVE  FileInv'
  BY <1>1, <1>6 DEF ProcessDone, ProtocolError, AppendThrows, ProcessGone, FinishCommand, dbVars,
                    logVars, historyVars
<1>d. DOMAIN commits = Sessions /\ survivors \in EventsMap /\ SurvivorsOK(survivors)
  BY DEF ServerInv, LoopInv
<1>7. ASSUME NEW s \in Sessions, StartCommand(s) PROVE FileInv'
  <2> DEFINE r == Head(session[s].m_input)
  <2>1. /\ current' = [command |-> r, pending |-> EventsFor(r), applied |-> 0]
        /\ commits' = [commits EXCEPT ![s] = Append(@, 0)]
        /\ logged' = logged /\ survivors' = survivors
        /\ ParseCommand(session[s].m_input) = "Complete"
    BY <1>7 DEF StartCommand, dbVars, logVars
  <2>2. commits[s] \in Seq(Nat) /\ session[s].m_input \in Seq(Requests)
    BY RepliesOfSession, SessionFields
  <2>3. r \in Requests
    <3>1. session[s].m_input # <<>>
      BY <2>1 DEF ParseCommand
    <3> QED
      BY <2>2, <3>1
  <2>4. commits'[s] # <<>>
    <3>1. commits'[s] = Append(commits[s], 0)
      BY <1>d, <2>1
    <3> QED
      BY <2>2, <3>1
  <2> HIDE DEF r
  <2>5. \A i \in 1..Len(current'.pending) : PlainEvent(current'.pending[i])
    BY <2>1, <2>3, RequestEvents
  <2> QED
    BY <2>1, <2>4, <2>5 DEF FileInv
<1>8. ASSUME NEW s \in Sessions, CommitStep(s) PROVE FileInv'
  <2> DEFINE e == Head(current.pending)
             m == IF Applies(m_store, e, 0) THEN 1 ELSE 0
             n == Len(commits[s])
  <2>1. /\ Executing(s) /\ current.pending # <<>>
        /\ current' = [current EXCEPT !.pending = Tail(@), !.applied = @ + m]
        /\ logged' = IF flushing /\ m = 1 THEN ApplyEvent(logged, e, 0) ELSE logged
        /\ survivors' = IF flushing /\ m = 1 THEN CompactEvent(survivors, e, 0) ELSE survivors
        /\ commits' = [commits EXCEPT ![s][n] = @ + m]
    BY <1>8 DEF CommitStep, Logs, logVars
  <2>2. Busy(s) = "execute" /\ current # Absent
    BY <2>1 DEF Executing, Busy
  <2>3. /\ CurrentOK(current, sent[s][n], commits[s][n])
        /\ commits[s] \in Seq(Nat) /\ n \in Nat \ {0}
    BY <2>2, ClientFacts, RepliesOfSession
  <2>4. /\ current \in [command : Requests, pending : Seq(Event), applied : Nat]
        /\ \A i \in 1..Len(current.pending) : WellFormed(current.pending[i])
    BY <2>3 DEF CurrentOK
  <2>5. \A i \in 1..Len(current.pending) : PlainEvent(current.pending[i])
    BY <2>2 DEF FileInv
  <2>6. /\ e = current.pending[1] /\ 1 \in 1..Len(current.pending)
        /\ Len(Tail(current.pending)) = Len(current.pending) - 1
        /\ \A i \in 1..Len(Tail(current.pending)) :
               /\ Tail(current.pending)[i] = current.pending[i + 1]
               /\ i + 1 \in 1..Len(current.pending)
    <3>1. current.pending \in Seq(Event)
      BY <2>4
    <3> QED
      BY <2>1, <3>1, LenProperties, EmptySeq
  <2>7. WellFormed(e) /\ PlainEvent(e)
    BY <2>4, <2>5, <2>6
  <2> HIDE DEF m
  <2>8. current'.pending = Tail(current.pending)
    BY <2>1, <2>4
  <2>9. \A i \in 1..Len(current'.pending) : PlainEvent(current'.pending[i])
    BY <2>5, <2>6, <2>8
  <2>10. commits[s] # <<>> /\ commits'[s] # <<>>
    <3>1. commits'[s] = [commits[s] EXCEPT ![n] = @ + m]
      BY <1>d, <2>1
    <3>2. DOMAIN commits[s] = 1..n /\ DOMAIN <<>> = {}
      BY <2>3, LenProperties
    <3>3. 1 \in 1..n
      BY <2>3
    <3>4. DOMAIN commits'[s] = 1..n
      BY <3>1, <3>2
    <3> QED
      BY <3>2, <3>3, <3>4
  <2>11. NoSelfRenameRequests => logged' = RewrittenStore(survivors')
    <3> SUFFICES ASSUME NoSelfRenameRequests PROVE logged' = RewrittenStore(survivors')
      OBVIOUS
    <3>1. logged = RewrittenStore(survivors)
      BY DEF FileInv
    <3>2. ApplyEvent(logged, e, 0) = RewrittenStore(CompactEvent(survivors, e, 0))
      BY <1>d, <2>7, <3>1, RewrittenAgrees
    <3> HIDE DEF e
    <3> QED
      BY <2>1, <3>1, <3>2
  <2> QED
    BY <2>9, <2>10, <2>11 DEF FileInv
<1>9. ASSUME NEW s \in Sessions, HandlerStep(s) PROVE FileInv'
  BY <1>6, <1>7, <1>8, <1>9 DEF HandlerStep
<1> QED
  BY <1>2, <1>3, <1>4, <1>5, <1>9 DEF Next

\* Whatever any number of clients did, the log that the final compaction of a
\* clean exit writes gives the next server the store that the log it replaces
\* would have given (main, LogWriter::Compact), unless a request renames a key
\* to itself.
THEOREM FinalCompactionIsExact ==
    ASSUME NoSelfRenameRequests
    PROVE  Spec => [](logged = RewrittenStore(survivors))
<1>1. Init => ServerInv /\ FileInv
  BY InitStep, FileInit
<1>2. ServerInv /\ FileInv /\ [Next]_vars => (ServerInv /\ FileInv)'
  BY ServerStep, FileStep
<1>3. FileInv => logged = RewrittenStore(survivors)
  BY DEF FileInv
<1> QED
  BY <1>1, <1>2, <1>3, PTL DEF Spec

-----------------------------------------------------------------------------
(* The only client. *)

LEMMA OnlyClientInit == Init => OnlyClientInv
<1> SUFFICES ASSUME Init, NEW s \in Sessions PROVE DataOK(s)
  BY DEF OnlyClientInv
<1>1. /\ session[s].status = "new" /\ session[s].m_output = <<>> /\ sent[s] = <<>>
      /\ received[s] = <<>> /\ commits[s] = <<>> /\ up = "down" /\ ~flushing
      /\ m_store = EmptyDB /\ logged = EmptyDB /\ s \notin durable /\ handler = NoSession
  BY DEF Init, EmptyDB
<1>2. Busy(s) = "none"
  BY <1>1, ServerAssumption DEF Busy
<1>3. Len(Replies(s)) = 0
  BY <1>1 DEF Replies
<1> DEFINE rep == Replies(s)
<1>4. AnswersOK(sent[s], Len(commits[s]), rep)
  <2>1. Len(rep) = 0
    BY <1>3
  <2> HIDE DEF rep
  <2> QED
    BY <2>1 DEF AnswersOK
<1> QED
  BY <1>1, <1>2, <1>4 DEF DataOK, DataInv

LEMMA OnlyClientStep ==
    ServerInv /\ ServerInv' /\ FileInv /\ OnlyClientInv /\ [Next]_vars => OnlyClientInv'
<1> SUFFICES ASSUME ServerInv, ServerInv', FileInv, OnlyClientInv, [Next]_vars,
                    NEW s \in Sessions, Sessions = {s}
             PROVE  DataOK(s)'
  BY DEF OnlyClientInv
<1>0. DataOK(s) /\ \A u \in Sessions : u = s
  BY DEF OnlyClientInv
<1>1. CASE Start \/ Signal \/ Crash
  BY <1>0, <1>1, ProcessKeepsData DEF Crash, logVars
<1>e. CASE Exit
  <2>1. /\ ProcessGone({}) /\ (logged' = logged \/ logged' = RewrittenStore(survivors))
        /\ session'[s] = IF session[s].status = "open" THEN Closed(session[s]) ELSE session[s]
    BY <1>e DEF Exit, ProcessGone
  <2>2. ASSUME session'[s].status = "new" PROVE logged' = logged
    <3>1. session[s].status = "new"
      BY <2>1, <2>2, ClientFacts, ClosedFields
    <3>2. \A u \in Sessions : commits[u] = <<>>
      BY <1>0, <3>1, ClientFacts
    <3>3. logged = EmptyDB
      BY <1>0, <3>1 DEF DataOK, DataInv
    <3> QED
      BY <2>1, <3>2, <3>3, RewrittenEmpty DEF FileInv
  <2>3. NoSelfRenameRequests => logged' = logged
    BY <2>1 DEF FileInv
  <2> QED
    BY <1>0, <2>1, <2>2, <2>3, ProcessKeepsData
<1>2. CASE StartFails \/ AcceptFails \/ UNCHANGED vars
  BY <1>0, <1>2, ProcessKeepsData DEF StartFails, AcceptFails
<1>3. ASSUME NEW u \in Sessions,
             Connect(u) \/ StartThrows(u) \/ (\E r \in Requests : Send(u, r)) \/ Hangup(u)
      PROVE  DataOK(s)'
  <2>1. u = s
    BY <1>0
  <2>2. CASE StartThrows(u)
    BY <1>0, <2>2, ProcessKeepsData DEF StartThrows, logVars
  <2> QED
    BY <1>0, <1>3, <2>1, <2>2, ClientKeepsData
<1>4. ASSUME NEW u \in Sessions, ReadDone(u) \/ ReadFails(u) \/ WriteDone(u) \/ WriteFails(u)
      PROVE  DataOK(s)'
  <2>1. u = s
    BY <1>0
  <2> QED
    BY <1>0, <1>4, <2>1, HandlersKeepData
<1>5. ASSUME NEW u \in Sessions, HandlerStep(u) PROVE DataOK(s)'
  <2>1. u = s
    BY <1>0
  <2>2. CASE AppendThrows(u)
    BY <1>0, <2>2, ProcessKeepsData DEF AppendThrows, logVars
  <2>3. CASE ProcessDone(u) \/ ProtocolError(u)
    BY <1>0, <2>1, <2>3, HandlersKeepData
  <2>4. CASE StartCommand(u) \/ CommitStep(u) \/ FinishCommand(u)
    BY <1>0, <2>1, <2>4, CommandsKeepData
  <2> QED
    BY <1>5, <2>2, <2>3, <2>4 DEF HandlerStep
<1> QED
  BY <1>1, <1>e, <1>2, <1>3, <1>4, <1>5 DEF Next

LEMMA OnlyClientInvariant == Spec => [](ServerInv /\ FileInv /\ OnlyClientInv)
<1>1. Init => ServerInv /\ FileInv /\ OnlyClientInv
  BY InitStep, FileInit, OnlyClientInit
<1>2. ServerInv /\ FileInv /\ OnlyClientInv /\ [Next]_vars =>
          (ServerInv /\ FileInv /\ OnlyClientInv)'
  BY ServerStep, FileStep, OnlyClientStep
<1> QED
  BY <1>1, <1>2, PTL DEF Spec

\* The only client of a fresh database gets the replies of a sequential
\* execution of its requests on an empty map, however they are pipelined and
\* fragmented and whenever a response is written, for every client program
\* (Process, Dispatch, Queue, Write).
THEOREM PipeliningIsTransparent == Spec => []PipelineTransparent
<1>1. ServerInv /\ OnlyClientInv => PipelineTransparent
  <2> SUFFICES ASSUME ServerInv, OnlyClientInv, NEW s \in Sessions, Sessions = {s},
                      NEW i \in 1..Len(Replies(s)), i <= Len(commits[s])
               PROVE  /\ i <= Len(sent[s])
                      /\ Replies(s)[i] = SequentialReply(SubSeq(sent[s], 1, i))
    BY DEF PipelineTransparent
  <2>1. AnswersOK(sent[s], Len(commits[s]), Replies(s))
    BY DEF OnlyClientInv, DataOK, DataInv
  <2>2. Len(commits[s]) \in 0..Len(sent[s]) /\ Len(sent[s]) \in Nat /\ Len(Replies(s)) \in Nat
    BY ClientFacts
  <2>3. i <= Len(sent[s])
    BY <2>2
  <2> QED
    BY <2>1, <2>3 DEF AnswersOK
<1> QED
  BY <1>1, OnlyClientInvariant, PTL

\* A persistent database keeps, over every crash, failed append, clean exit
\* with its final compaction and restart, what the answered requests of its
\* only client did, and of a command cut short the events up to some point;
\* one that is not persistent keeps nothing (RadishDB::Commit, the commands of
\* TcpServer.cpp, main).  No request renames a key to itself.
THEOREM AnsweredRequestsAreDurable ==
    ASSUME NoSelfRenameRequests
    PROVE  Spec => []AnsweredRequestsSurvive
<1>1. ServerInv /\ OnlyClientInv => AnsweredRequestsSurvive
  <2> SUFFICES ASSUME ServerInv, OnlyClientInv, NEW s \in Sessions, Sessions = {s}
               PROVE  LET n      == Len(commits[s])
                          events == EventsFor(sent[s][n])
                          after  == StoreAfter(SubSeq(sent[s], 1, n - 1))
                      IN  IF n = 0 \/ s \notin durable THEN logged = EmptyStore(NoExpiry)
                          ELSE IF Len(Replies(s)) >= n THEN logged = Executed(after, events)
                          ELSE \E j \in 0..Len(events) :
                                   logged = Executed(after, SubSeq(events, 1, j))
    BY DEF AnsweredRequestsSurvive
  <2> DEFINE n == Len(commits[s])
             q == sent[s]
             rep == Replies(s)
             es == EventsFor(q[n])
             before == StoreBefore(q, n)
             persistent == s \in durable
             status == session[s].status
             busy == Busy(s)
  <2>1. DataInv(status, q, n, rep, busy, current, up # "down", flushing, m_store, logged, persistent)
    BY DEF OnlyClientInv, DataOK
  <2>2. /\ q \in Seq(Requests) /\ n \in 0..Len(q) /\ Len(rep) \in Nat /\ Len(q) \in Nat
        /\ status \in {"new", "open", "closed"}
        /\ status = "new" => commits[s] = <<>>
        /\ busy # "none" => status = "open"
        /\ busy = "execute" => n = Len(rep) + 1
    BY ClientFacts
  <2>3. status = "new" => n = 0
    <3>1. ASSUME commits[s] = <<>> PROVE n = 0
      BY <3>1
    <3> QED
      BY <2>2, <3>1
  <2>4. n # 0 => LET k == Len(es)
                 IN  /\ k \in 0..k
                     /\ StoreAfter(SubSeq(q, 1, n)) = Executed(before, es)
                     /\ StoreAfter(SubSeq(q, 1, n)) = Executed(before, SubSeq(es, 1, k))
    <3>1. n # 0 => n \in 1..Len(q)
      BY <2>2
    <3> QED
      BY <2>2, <3>1, ExecutedAll
  <2>0. StoreAfter(SubSeq(q, 1, 0)) = EmptyDB
    BY <2>2, AfterSteps
  <2> HIDE DEF n, q, rep, persistent, status, busy, es, before
  <2>5. IF n = 0 \/ ~persistent THEN logged = EmptyDB
        ELSE IF Len(rep) >= n THEN logged = Executed(before, es)
        ELSE \E j \in 0..Len(es) : logged = Executed(before, SubSeq(es, 1, j))
    <3>1. CASE status = "new"
      BY <2>1, <2>3, <3>1 DEF DataInv
    <3>2. CASE status = "closed"
      <4>1. ~persistent => logged = EmptyDB
        BY <2>1, <3>2 DEF DataInv
      <4>2. persistent => LoggedOK(logged, q, n, Len(rep))
        BY <2>1, <3>2 DEF DataInv
      <4>3. persistent => IF n = 0 THEN logged = EmptyDB
                          ELSE IF Len(rep) >= n THEN logged = Executed(before, es)
                          ELSE \E j \in 0..Len(es) : logged = Executed(before, SubSeq(es, 1, j))
        BY <4>2 DEF LoggedOK, es, before
      <4> QED
        BY <4>1, <4>3
    <3>3. CASE status = "open" /\ busy # "execute"
      <4>1. /\ persistent <=> flushing
            /\ logged = IF flushing THEN m_store ELSE EmptyDB
            /\ m_store = StoreAfter(SubSeq(q, 1, n))
        BY <2>1, <3>3 DEF DataInv
      <4>2. n = 0 => m_store = EmptyDB
        BY <2>0, <4>1
      <4> QED
        BY <2>4, <4>1, <4>2
    <3>4. CASE busy = "execute"
      <4>1. /\ persistent <=> flushing
            /\ logged = IF flushing THEN m_store ELSE EmptyDB
        BY <2>1, <2>2, <3>4 DEF DataInv
      <4>2. \E j \in 0..Len(es) : ExecutedTo(j, q, n, current, m_store)
        BY <2>1, <3>4 DEF DataInv, es
      <4>3. \E j \in 0..Len(es) : m_store = Executed(before, SubSeq(es, 1, j))
        BY <4>2 DEF ExecutedTo, es, before
      <4>4. n # 0 /\ ~(Len(rep) >= n)
        BY <2>2, <3>4
      <4> QED
        BY <4>1, <4>3, <4>4
    <3> QED
      BY <2>2, <3>1, <3>2, <3>3, <3>4
  <2> QED
    BY <2>5 DEF n, q, rep, persistent, es, before, StoreBefore, EmptyDB
<1> QED
  BY <1>1, OnlyClientInvariant, PTL
=============================================================================
