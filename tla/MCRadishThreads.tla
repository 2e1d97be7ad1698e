-------------------------- MODULE MCRadishThreads --------------------------
(***************************************************************************)
(* Small instances of RadishThreads for TLC: the calls threads make.       *)
(***************************************************************************)
EXTENDS RadishThreads

CONSTANTS k1, k2, v1, v2, t1, t2, t3

TtlOnAndOff == {NoExpiry, 1}

Set(k, v) == RadishEvent(CREATE, 1, k, Absent, v)

\* A log with one key, written with or without a TTL.
EmptyOrOneKey ==
    {<<>>, <<Set(k1, v1)>>, <<RadishEvent(CREATE, NoExpiry, k1, Absent, v1)>>}

\* Every mutation, a compaction, a Get and a Scan.
SomeCalls ==
    {WriteCall(e) : e \in {Set(k1, v2), Set(k2, v2),
                           RadishEvent(RENAME, -1, k1, k2, Absent),
                           RadishEvent(DELETE, -1, k1, Absent, Absent),
                           RadishEvent(CLEAR, -1, Absent, Absent, Absent)}}
        \cup {CompactCall, ReadCall({k1}), ReadCall(Keys)}
=============================================================================
