---------------------------- MODULE LinearStore ----------------------------
(***************************************************************************)
(* What RadishDB promises to threads that share it: every call takes       *)
(* effect at one instant between its invocation and its return.  A read    *)
(* returns the entries of that instant, a write changes them as a whole or *)
(* fails and changes nothing, a compaction is invisible.                   *)
(***************************************************************************)
CONSTANTS
    Keys, Values, Absent,
    Threads,
    Calls,       \* [op : "read", keys], [op : "write", event], [op : "compact"]
    NoCall,
    Deadlines    \* the deadlines a new entry may get, Absent for none

VARIABLES
    contents,    \* the <<value, deadline>> of every key
    progress     \* per thread, its call and the outcome, if it has one yet

Nothing == <<Absent, Absent>>

Outcome(kind, entries) == [kind |-> kind, entries |-> entries]

Pending == Outcome("pending", Absent)

Init ==
    /\ contents \in [Keys -> (Values \X Deadlines) \cup {Nothing}]
    /\ progress = [t \in Threads |-> [call |-> NoCall, outcome |-> Pending]]

Invoke(t, c) ==
    /\ progress[t].call = NoCall
    /\ progress' = [progress EXCEPT ![t].call = c]
    /\ UNCHANGED contents

Decide(t, kind, entries) ==
    progress' = [progress EXCEPT ![t].outcome = Outcome(kind, entries)]

Read(t, c) ==
    /\ Decide(t, "read", [k \in c.keys |-> contents[k]])
    /\ UNCHANGED contents

\* The contents after event e of the given type; a rename moves the entry.
Put(e) ==
    \E d \in Deadlines : contents' = [contents EXCEPT ![e.key] = <<e.payload, d>>]

Move(e) ==
    /\ contents[e.key] # Nothing
    /\ contents' = [contents EXCEPT ![e.key] = Nothing, ![e.renameKey] = contents[e.key]]

Remove(e) ==
    /\ contents[e.key] # Nothing
    /\ contents' = [contents EXCEPT ![e.key] = Nothing]

Wipe ==
    /\ \E k \in Keys : contents[k] # Nothing
    /\ contents' = [k \in Keys |-> Nothing]

\* There is nothing to rename, delete or clear.
Vacuous(e) ==
    \/ e.key # Absent /\ e.payload = Absent /\ contents[e.key] = Nothing
    \/ e.key = Absent /\ \A k \in Keys : contents[k] = Nothing

Change(e) ==
    \/ e.payload # Absent /\ Put(e)
    \/ e.renameKey # Absent /\ Move(e)
    \/ e.key # Absent /\ e.payload = Absent /\ e.renameKey = Absent /\ Remove(e)
    \/ e.key = Absent /\ Wipe

Write(t, c) ==
    \/ Change(c.event) /\ Decide(t, "true", Absent)
    \/ Vacuous(c.event) /\ Decide(t, "false", Absent) /\ UNCHANGED contents

Throw(t) == Decide(t, "exception", Absent) /\ UNCHANGED contents

TakeEffect(t) ==
    LET c == progress[t].call
    IN  /\ c # NoCall
        /\ progress[t].outcome = Pending
        /\ \/ c.op = "read" /\ Read(t, c)
           \/ c.op = "write" /\ (Write(t, c) \/ Throw(t))
           \/ c.op = "compact" /\ Decide(t, "true", Absent) /\ UNCHANGED contents
           \/ c.op = "compact" /\ Throw(t)

Return(t) ==
    /\ progress[t].outcome # Pending
    /\ progress' = [progress EXCEPT ![t] = [call |-> NoCall, outcome |-> Pending]]
    /\ UNCHANGED contents

Next ==
    \E t \in Threads :
        \/ \E c \in Calls : Invoke(t, c)
        \/ TakeEffect(t)
        \/ Return(t)

Spec == Init /\ [][Next]_<<contents, progress>>
=============================================================================
