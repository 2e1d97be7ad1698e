----------------------------- MODULE DurableMap -----------------------------
(***************************************************************************)
(* What a persistent RadishDB without expiry promises: a map that only the *)
(* four mutations change, one at a time.  Process ends, recoveries, failed *)
(* operations and compactions are invisible.  The promise is forfeited,    *)
(* for good, once a record is written behind one that was cut short.       *)
(***************************************************************************)
CONSTANTS Keys, Values, Absent, RenamePairs

VARIABLES map, forfeited

Maps == [Keys -> Values \cup {Absent}]

Init ==
    /\ map = [k \in Keys |-> Absent]
    /\ forfeited = FALSE

Set(k, v) == map' = [map EXCEPT ![k] = v]

\* Moving a key to itself changes nothing.
Move(old, new) ==
    /\ map[old] # Absent
    /\ map' = [k \in Keys |-> IF k = new THEN map[old]
                              ELSE IF k = old THEN Absent
                              ELSE map[k]]

Remove(k) == map' = [map EXCEPT ![k] = Absent]

Wipe == map' = [k \in Keys |-> Absent]

Mutation ==
    \/ \E k \in Keys, v \in Values : Set(k, v)
    \/ \E p \in RenamePairs : Move(p[1], p[2])
    \/ \E k \in Keys : Remove(k)
    \/ Wipe

Forfeit == forfeited' = TRUE /\ map' \in Maps

Next ==
    \/ ~forfeited /\ Mutation /\ UNCHANGED forfeited
    \/ Forfeit

Spec == Init /\ [][Next]_<<map, forfeited>>
=============================================================================
