----------------------------- MODULE TcpServer -----------------------------
(***************************************************************************)
(* radish-server (src/main.cpp) with its TcpServer and Sessions            *)
(* (src/network/TcpServer.cpp): connections served by one event loop over  *)
(* one database without expiry.                                            *)
(*                                                                         *)
(* The loop runs one handler at a time.  A handler is one step, except     *)
(* that of a completed read, which executes every complete command: there  *)
(* each call that changes the database is a step of its own, because the   *)
(* process may die, or the call throw, after any of them.  handler is the  *)
(* session whose handler is inside Process.                                *)
(*                                                                         *)
(* The database is RadishDB as its callers see it (module RadishDB):       *)
(* mutations that happen as a whole or throw, and with persistence a store *)
(* that the next process finds again.                                      *)
(***************************************************************************)
EXTENDS RadishLog

CONSTANTS
    Sessions,      \* the connections clients may make, each once
    NoSession,
    CommandLines,  \* the arguments radish-server may be started with
    Requests,      \* what clients may send, see Request
    ReadSize,      \* the capacity of m_readBuffer, in cells
    MaxInput,      \* kMaxBufferedInput, in cells
    MaxRequests    \* bound: how many requests a client sends

\* A request occupies size cells of the byte stream, the unit in which it can
\* be fragmented.  One named "malformed" is no RESP array of bulk strings.
Request == [name : STRING, args : Seq(Keys \cup Values \cup STRING), size : Nat \ {0}]

-----------------------------------------------------------------------------
(* The command line: option, value, option, value...  The value of a        *)
(* numeric option is a number, or Absent for a word that is none.           *)

ValidOption(option, value) ==
    \/ option \in {"--bind", "--data-file"}
    \/ option = "--port" /\ value \in 0..65535
    \/ option = "--ttl-ms" /\ value \in Nat
    \/ option = "--persistence" /\ value \in {"flush", "off"}

\* ParseOptions throws: a value is missing or invalid, or the option unknown.
OptionsRejected(arguments) ==
    \/ Len(arguments) % 2 = 1
    \/ \E i \in 1..(Len(arguments) \div 2) :
           ~ValidOption(arguments[2 * i - 1], arguments[2 * i])

\* The value an option has in the end: that of its last occurrence.
OptionValue(arguments, option, default) ==
    LET places == {i \in 1..(Len(arguments) \div 2) : arguments[2 * i - 1] = option}
    IN  IF places = {} THEN default
        ELSE arguments[2 * (CHOOSE i \in places : \A j \in places : j <= i)]

\* The options of a server, which here has no TTL.
ParseOptions(arguments) ==
    [persistenceEnabled |-> OptionValue(arguments, "--persistence", "flush") = "flush",
     ttl                |-> OptionValue(arguments, "--ttl-ms", Absent)]

-----------------------------------------------------------------------------
ASSUME ServerAssumption ==
    /\ NoSession \notin Sessions
    /\ \A a \in CommandLines : OptionsRejected(a) \/ ParseOptions(a).ttl = Absent
    /\ Requests \subseteq Request
    /\ ReadSize \in Nat \ {0}
    /\ MaxInput \in Nat \ {0}
    /\ ReadSize <= MaxInput
    /\ MaxRequests \in Nat

VARIABLES
    up,        \* "down", "running" (in context.run()), "stopping" (after it)
    flushing,  \* is the database persistent, PersistenceMode::Flush?
    m_store,   \* the database
    logged,    \* what replaying its log gives
    survivors, \* what compacting its log keeps, by key
    handler,
    current,   \* the command Dispatch is executing, Absent if none
    session,   \* the Session objects
    net,       \* cells sent by the client and not yet read
    hungup,    \* has the client closed or lost its connection?
    sent,      \* history: the requests of each client
    received,  \* history: the replies handed to each connection
    commits,   \* history: per command started, how many events it committed
    durable    \* history: the connections made to a persistent database

historyVars == <<sent, received, commits, durable>>
logVars == <<logged, survivors>>
dbVars == <<flushing, m_store, logVars>>
vars == <<up, dbVars, handler, current, session, net, hungup, historyVars>>

Init ==
    /\ up = "down"
    /\ flushing = FALSE
    /\ m_store = EmptyStore(NoExpiry)
    /\ logged = EmptyStore(NoExpiry)
    /\ survivors = EmptyEventsMap
    /\ handler = NoSession
    /\ current = Absent
    /\ session = [s \in Sessions |->
           [status |-> "new", reading |-> FALSE, writing |-> FALSE, m_input |-> <<>>,
            m_output |-> <<>>, m_version |-> "2", m_closeAfterWrite |-> FALSE]]
    /\ net = [s \in Sessions |-> <<>>]
    /\ hungup = [s \in Sessions |-> FALSE]
    /\ sent = [s \in Sessions |-> <<>>]
    /\ received = [s \in Sessions |-> <<>>]
    /\ commits = [s \in Sessions |-> <<>>]
    /\ durable = {}

-----------------------------------------------------------------------------
(* Requests and replies. *)

EncodeCommand(r) == [i \in 1..r.size |-> r]

ParseCommand(input) ==
    IF input = <<>> THEN "Incomplete"
    ELSE IF Len(input) < Head(input).size THEN "Incomplete"
    ELSE IF Head(input).name = "malformed" THEN "Error"
    ELSE "Complete"

\* The handler exists and does not answer with WrongArity.
Accepted(r) ==
    CASE r.name \in {"DBSIZE", "FLUSHDB", "QUIT"} -> Len(r.args) = 0
      [] r.name = "PING"                          -> Len(r.args) <= 1
      [] r.name \in {"HELLO", "GET", "KEYS"}      -> Len(r.args) = 1
      [] r.name \in {"SET", "RENAME"}             -> Len(r.args) = 2
      [] r.name \in {"DEL", "EXISTS"}             -> Len(r.args) >= 1
      [] OTHER                                    -> FALSE

\* The events a command commits, in order.
EventsFor(r) ==
    IF ~Accepted(r) THEN <<>> ELSE
    CASE r.name = "SET"     -> <<RadishEvent(CREATE, NoExpiry, r.args[1], Absent, r.args[2])>>
      [] r.name = "RENAME"  -> <<RadishEvent(RENAME, -1, r.args[1], r.args[2], Absent)>>
      [] r.name = "DEL"     -> [i \in 1..Len(r.args) |->
                                   RadishEvent(DELETE, -1, r.args[i], Absent, Absent)]
      [] r.name = "FLUSHDB" -> <<RadishEvent(CLEAR, -1, Absent, Absent, Absent)>>
      [] OTHER              -> <<>>

\* What clients send as keys and values are keys and values, so that every
\* event can be committed, and Absent is no command in execution.
ASSUME CommandAssumption ==
    /\ \A r \in Requests : \A i \in 1..Len(EventsFor(r)) : WellFormed(EventsFor(r)[i])
    /\ Absent \notin [command : Requests, pending : Seq(Event), applied : Nat]

\* Faulty variant (mutation testing): the argument is not validated.
NextVersionUnchecked(version, r) ==
    IF r.name = "HELLO" /\ Accepted(r) THEN r.args[1] ELSE version

NextVersion(version, r) ==
    IF r.name = "HELLO" /\ Accepted(r) /\ r.args[1] \in {"2", "3"} THEN r.args[1]
    ELSE version

\* Kind "limit" is the error about the input buffer.
Answer(id, kind, value) == [id |-> id, kind |-> kind, value |-> value]

\* Faulty variant (mutation testing): DEL counts its arguments.
ReplyCountsArguments(r, applied, store, version, id) ==
    CASE r.name = "DEL" /\ Accepted(r) -> Answer(id, "integer", Len(r.args))
      [] r.name = "RENAME" /\ applied = 0 -> Answer(id, "error", Absent)
      [] OTHER -> Answer(id, "simple", "OK")

\* The reply to command r, of whose events applied were committed.  The id is
\* not part of the reply: it says which request of the connection it answers.
Reply(r, applied, store, version, id) ==
    IF ~Accepted(r) THEN Answer(id, "error", Absent) ELSE
    CASE r.name = "HELLO" -> IF r.args[1] \in {"2", "3"} THEN Answer(id, "hello", version)
                             ELSE Answer(id, "error", Absent)
      [] r.name = "PING" -> IF r.args = <<>> THEN Answer(id, "simple", "PONG")
                            ELSE Answer(id, "bulk", r.args[1])
      [] r.name = "GET" -> IF StoreGet(store, r.args[1], 0) = Absent
                           THEN Answer(id, "null", version)
                           ELSE Answer(id, "bulk", StoreGet(store, r.args[1], 0))
      [] r.name \in {"SET", "FLUSHDB", "QUIT"} -> Answer(id, "simple", "OK")
      [] r.name = "DEL" -> Answer(id, "integer", applied)
      [] r.name = "RENAME" -> IF applied = 0 THEN Answer(id, "error", Absent)
                              ELSE Answer(id, "simple", "OK")
      [] r.name = "EXISTS" ->
             Answer(id, "integer",
                    Cardinality({i \in 1..Len(r.args) : StoreExists(store, r.args[i], 0)}))
      [] r.name = "KEYS" -> IF r.args[1] = "*" THEN Answer(id, "array", StoreScan(store, 0))
                            ELSE Answer(id, "error", Absent)
      [] r.name = "DBSIZE" -> Answer(id, "integer", StoreSize(store, 0))

Closes(r) == r.name = "QUIT" /\ Accepted(r)

-----------------------------------------------------------------------------
(* What handlers do to a session.  A Session lives as long as a pending     *)
(* operation holds a pointer to it; its destructor closes the socket.       *)

Closed(c) == [c EXCEPT !.status = "closed", !.reading = FALSE, !.writing = FALSE,
                       !.m_input = <<>>, !.m_output = <<>>]

Released(c) == IF c.reading \/ c.writing THEN c ELSE Closed(c)

\* Faulty variant (mutation testing): whether a write is in flight is asked
\* after the response was queued.
QueueTestsLate(c, response, closeAfterWrite) ==
    [c EXCEPT !.m_output = Append(@, response),
              !.m_closeAfterWrite = @ \/ closeAfterWrite]

\* Start a write unless the queue shows that one is in flight.
Queue(c, response, closeAfterWrite) ==
    [c EXCEPT !.m_output = Append(@, response),
              !.m_closeAfterWrite = @ \/ closeAfterWrite,
              !.writing = @ \/ c.m_output = <<>>]

-----------------------------------------------------------------------------
(* Clients. *)

LoopIdle == up = "running" /\ handler = NoSession

\* The connection is accepted and its session starts reading.
Connect(s) ==
    /\ LoopIdle
    /\ session[s].status = "new"
    /\ session' = [session EXCEPT ![s].status = "open", ![s].reading = TRUE]
    /\ durable' = IF flushing THEN durable \cup {s} ELSE durable
    /\ UNCHANGED <<up, dbVars, handler, current, net, hungup, sent, received, commits>>

Send(s, r) ==
    /\ session[s].status = "open"
    /\ ~hungup[s]
    /\ Len(sent[s]) < MaxRequests
    /\ net' = [net EXCEPT ![s] = @ \o EncodeCommand(r)]
    /\ sent' = [sent EXCEPT ![s] = Append(@, r)]
    /\ UNCHANGED <<up, dbVars, handler, current, session, hungup, received, commits, durable>>

Hangup(s) ==
    /\ session[s].status = "open"
    /\ ~hungup[s]
    /\ hungup' = [hungup EXCEPT ![s] = TRUE]
    /\ UNCHANGED <<up, dbVars, handler, current, session, net, historyVars>>

-----------------------------------------------------------------------------
(* The handler of a read. *)

\* Faulty variant (mutation testing): a full buffer is already too much.
OverLimitFull(c) == Len(c.m_input) >= MaxInput

OverLimit(c) == Len(c.m_input) > MaxInput

ReadDone(s) ==
    /\ LoopIdle
    /\ session[s].reading
    /\ \E n \in 1..ReadSize :
           LET c == [session[s] EXCEPT !.m_input = @ \o SubSeq(net[s], 1, n),
                                       !.reading = FALSE]
           IN  /\ n <= Len(net[s])
               /\ net' = [net EXCEPT ![s] = SubSeq(@, n + 1, Len(@))]
               /\ IF OverLimit(c)
                  THEN /\ session' = [session EXCEPT ![s] =
                              Released(Queue(c, Answer(Len(commits[s]) + 1, "limit", Absent), TRUE))]
                       /\ UNCHANGED handler
                  ELSE /\ session' = [session EXCEPT ![s] = c]
                       /\ handler' = s
    /\ UNCHANGED <<up, dbVars, current, hungup, historyVars>>

\* Faulty variant (mutation testing): the error is ignored, Read is called again.
ReadFailsReadsAgain(s) ==
    /\ LoopIdle
    /\ session[s].reading
    /\ hungup[s]
    /\ UNCHANGED vars

\* End of file, or the connection is reset.
ReadFails(s) ==
    /\ LoopIdle
    /\ session[s].reading
    /\ hungup[s]
    /\ session' = [session EXCEPT ![s] = Released([@ EXCEPT !.reading = FALSE])]
    /\ UNCHANGED <<up, dbVars, handler, current, net, hungup, historyVars>>

\* Faulty variant (mutation testing): Process goes on behind a QUIT.
LoopEndsIgnoresClose(c) == ParseCommand(c.m_input) = "Incomplete"

\* Faulty variant (mutation testing): one command per read.
LoopEndsAfterOne(c) ==
    \/ c.m_closeAfterWrite
    \/ ParseCommand(c.m_input) = "Incomplete"
    \/ c.m_output # <<>>

\* The loop condition of Process, and its return on an incomplete command.
LoopEnds(c) == c.m_closeAfterWrite \/ ParseCommand(c.m_input) = "Incomplete"

InProcess(s) == up = "running" /\ handler = s /\ current = Absent

ProcessDone(s) ==
    /\ InProcess(s)
    /\ LoopEnds(session[s])
    /\ session' = [session EXCEPT ![s] =
           Released([@ EXCEPT !.reading = ~session[s].m_closeAfterWrite])]
    /\ handler' = NoSession
    /\ UNCHANGED <<up, dbVars, current, net, hungup, historyVars>>

ProtocolError(s) ==
    /\ InProcess(s)
    /\ ~LoopEnds(session[s])
    /\ ParseCommand(session[s].m_input) = "Error"
    /\ session' = [session EXCEPT ![s] =
           Queue(@, Answer(Len(commits[s]) + 1, "error", Absent), TRUE)]
    /\ UNCHANGED <<up, dbVars, handler, current, net, hungup, historyVars>>

\* Faulty variant (mutation testing): one cell too few is erased.
StartCommandErasesShort(s) ==
    /\ InProcess(s)
    /\ ~LoopEnds(session[s])
    /\ ParseCommand(session[s].m_input) = "Complete"
    /\ LET r == Head(session[s].m_input)
       IN  /\ current' = [command |-> r, pending |-> EventsFor(r), applied |-> 0]
           /\ session' = [session EXCEPT
                  ![s].m_input = SubSeq(@, r.size, Len(@)),
                  ![s].m_version = NextVersion(@, r)]
    /\ commits' = [commits EXCEPT ![s] = Append(@, 0)]
    /\ UNCHANGED <<up, dbVars, handler, net, hungup, sent, received, durable>>

\* Erase the command from the input and enter its handler.
StartCommand(s) ==
    /\ InProcess(s)
    /\ ~LoopEnds(session[s])
    /\ ParseCommand(session[s].m_input) = "Complete"
    /\ LET r == Head(session[s].m_input)
       IN  /\ current' = [command |-> r, pending |-> EventsFor(r), applied |-> 0]
           /\ session' = [session EXCEPT
                  ![s].m_input = SubSeq(@, r.size + 1, Len(@)),
                  ![s].m_version = NextVersion(@, r)]
    /\ commits' = [commits EXCEPT ![s] = Append(@, 0)]
    /\ UNCHANGED <<up, dbVars, handler, net, hungup, sent, received, durable>>

Executing(s) == up = "running" /\ handler = s /\ current # Absent

\* A record is appended; Replay and Compact will make of it what they do.
Logs(e) ==
    /\ logged' = ApplyEvent(logged, e, 0)
    /\ survivors' = CompactEvent(survivors, e, 0)

\* Faulty variant (mutation testing): only a command's last event is logged.
CommitStepLogsLast(s) ==
    /\ Executing(s)
    /\ current.pending # <<>>
    /\ LET e == Head(current.pending)
           n == IF Applies(m_store, e, 0) THEN 1 ELSE 0
       IN  /\ m_store' = IF n = 1 THEN ApplyEvent(m_store, e, 0) ELSE m_store
           /\ IF flushing /\ n = 1 /\ Len(current.pending) = 1 THEN Logs(e) ELSE UNCHANGED logVars
           /\ current' = [current EXCEPT !.pending = Tail(@), !.applied = @ + n]
           /\ commits' = [commits EXCEPT ![s][Len(commits[s])] = @ + n]
    /\ UNCHANGED <<up, flushing, handler, session, net, hungup, sent, received, durable>>

\* One call of RadishDB::Create, Rename, Delete or Clear.
CommitStep(s) ==
    /\ Executing(s)
    /\ current.pending # <<>>
    /\ LET e == Head(current.pending)
           n == IF Applies(m_store, e, 0) THEN 1 ELSE 0
       IN  /\ m_store' = IF n = 1 THEN ApplyEvent(m_store, e, 0) ELSE m_store
           /\ IF flushing /\ n = 1 THEN Logs(e) ELSE UNCHANGED logVars
           /\ current' = [current EXCEPT !.pending = Tail(@), !.applied = @ + n]
           /\ commits' = [commits EXCEPT ![s][Len(commits[s])] = @ + n]
    /\ UNCHANGED <<up, flushing, handler, session, net, hungup, sent, received, durable>>

FinishCommand(s) ==
    /\ Executing(s)
    /\ current.pending = <<>>
    /\ session' = [session EXCEPT ![s] =
           Queue(@, Reply(current.command, current.applied, m_store, @.m_version,
                          Len(commits[s])),
                 Closes(current.command))]
    /\ current' = Absent
    /\ UNCHANGED <<up, dbVars, handler, net, hungup, historyVars>>

-----------------------------------------------------------------------------
(* The handler of a write. *)

\* Faulty variant (mutation testing): the response written stays in front.
WriteDoneKeepsFront(s) ==
    /\ LoopIdle
    /\ session[s].writing
    /\ received' = [received EXCEPT ![s] = Append(@, Head(session[s].m_output))]
    /\ session' = [session EXCEPT ![s] =
           IF Len(@.m_output) > 1 THEN @
           ELSE IF @.m_closeAfterWrite THEN Closed(@)
           ELSE Released([@ EXCEPT !.writing = FALSE, !.m_output = <<>>])]
    /\ UNCHANGED <<up, dbVars, handler, current, net, hungup, sent, commits, durable>>

\* Faulty variant (mutation testing): the next response is not written.
WriteDoneStops(s) ==
    /\ LoopIdle
    /\ session[s].writing
    /\ received' = [received EXCEPT ![s] = Append(@, Head(session[s].m_output))]
    /\ session' = [session EXCEPT ![s] =
           Released([@ EXCEPT !.writing = FALSE, !.m_output = Tail(@)])]
    /\ UNCHANGED <<up, dbVars, handler, current, net, hungup, sent, commits, durable>>

\* Write the next response, or close, or wait for one to be queued.
WriteDone(s) ==
    LET c == session[s]
    IN  /\ LoopIdle
        /\ c.writing
        /\ received' = [received EXCEPT ![s] = Append(@, Head(c.m_output))]
        /\ session' = [session EXCEPT ![s] =
               IF Len(c.m_output) > 1 THEN [c EXCEPT !.m_output = Tail(@)]
               ELSE IF c.m_closeAfterWrite THEN Closed(c)
               ELSE Released([c EXCEPT !.writing = FALSE, !.m_output = <<>>])]
        /\ UNCHANGED <<up, dbVars, handler, current, net, hungup, sent, commits, durable>>

\* The response stays in the queue, so nothing will be written any more.
WriteFails(s) ==
    /\ LoopIdle
    /\ session[s].writing
    /\ hungup[s]
    /\ session' = [session EXCEPT ![s] = Released([@ EXCEPT !.writing = FALSE])]
    /\ UNCHANGED <<up, dbVars, handler, current, net, hungup, historyVars>>

-----------------------------------------------------------------------------
(* The process. *)

\* The database recovers what its log holds, or starts empty and leaves the
\* log alone; then the acceptor listens and the context runs.
Start ==
    /\ up = "down"
    /\ \E arguments \in CommandLines :
           /\ ~OptionsRejected(arguments)
           /\ flushing' = ParseOptions(arguments).persistenceEnabled
    /\ up' = "running"
    /\ m_store' = IF flushing' THEN logged ELSE EmptyStore(NoExpiry)
    /\ UNCHANGED <<logVars, handler, current, session, net, hungup, historyVars>>

\* main returns 1: the options, the address or the port cannot be used.
StartFails == up = "down" /\ UNCHANGED vars

\* The signal handler: Stop, and context.stop() lets no other handler run.
Signal ==
    /\ LoopIdle
    /\ up' = "stopping"
    /\ UNCHANGED <<dbVars, handler, current, session, net, hungup, historyVars>>

\* Memory is gone, and with it every connection and those in lost; the log
\* may change yet.
ProcessGone(lost) ==
    /\ up' = "down"
    /\ flushing' = FALSE
    /\ m_store' = EmptyStore(NoExpiry)
    /\ handler' = NoSession
    /\ current' = Absent
    /\ session' = [s \in Sessions |-> IF session[s].status = "open" \/ s \in lost
                                      THEN Closed(session[s]) ELSE session[s]]
    /\ UNCHANGED <<net, hungup, historyVars>>

\* What replaying the file that RewriteHistory writes gives: one CREATE per key.
RewrittenStore(events) ==
    [EmptyStore(NoExpiry) EXCEPT !.m_data =
        [k \in Keys |-> IF events[k] = Absent THEN Absent ELSE events[k].payload]]

\* The final compaction of a persistent database replaces the log by what it
\* keeps of it, or throws, or there is none to do.
Exit ==
    /\ up = "stopping"
    /\ ProcessGone({})
    /\ \/ flushing /\ logged' = RewrittenStore(survivors)
       \/ UNCHANGED logged
    /\ UNCHANGED survivors

\* The append throws out of the command handler and of context.run(): main
\* returns 1, for all connections, without compacting.
AppendThrows(s) ==
    /\ Executing(s)
    /\ flushing
    /\ current.pending # <<>>
    /\ Applies(m_store, Head(current.pending), 0)
    /\ ProcessGone({})
    /\ UNCHANGED logVars

\* The client is gone before its session starts: set_option throws out of the
\* accept handler and of context.run().
StartThrows(s) ==
    /\ LoopIdle
    /\ session[s].status = "new"
    /\ ProcessGone({s})
    /\ UNCHANGED logVars

\* An error of async_accept: the next accept is started all the same.
AcceptFails == LoopIdle /\ UNCHANGED vars

Crash == up # "down" /\ ProcessGone({}) /\ UNCHANGED logVars

HandlerStep(s) ==
    \/ ProcessDone(s)
    \/ ProtocolError(s)
    \/ StartCommand(s)
    \/ CommitStep(s)
    \/ AppendThrows(s)
    \/ FinishCommand(s)

Next ==
    \/ Start
    \/ StartFails
    \/ AcceptFails
    \/ Signal
    \/ Exit
    \/ Crash
    \/ \E s \in Sessions :
        \/ Connect(s)
        \/ StartThrows(s)
        \/ \E r \in Requests : Send(s, r)
        \/ Hangup(s)
        \/ ReadDone(s)
        \/ ReadFails(s)
        \/ HandlerStep(s)
        \/ WriteDone(s)
        \/ WriteFails(s)

\* The event loop runs the handler of every operation that has completed.  A
\* read completes if there is input or the client is gone: its loss is reported.
\* A write completes: a client that is there reads what it is sent.
Fairness ==
    /\ WF_vars(Exit)
    /\ \A s \in Sessions :
        /\ WF_vars(HandlerStep(s))
        /\ WF_vars(ReadDone(s) \/ ReadFails(s))
        /\ WF_vars(WriteDone(s) \/ WriteFails(s))

Spec == Init /\ [][Next]_vars /\ Fairness

-----------------------------------------------------------------------------
(* Properties. *)

\* Every variable has its type; a session that is not open holds nothing.
TypeOK ==
    /\ up \in {"down", "running", "stopping"}
    /\ flushing \in BOOLEAN
    /\ m_store \in Store
    /\ logged \in Store
    /\ survivors \in EventsMap
    /\ handler \in Sessions \cup {NoSession}
    /\ durable \subseteq Sessions
    /\ \A s \in Sessions :
        /\ session[s].status \in {"new", "open", "closed"}
        /\ session[s].reading \in BOOLEAN
        /\ session[s].writing \in BOOLEAN
        /\ session[s].m_input \in Seq(Requests)
        /\ session[s].m_version \in {"2", "3"}
        /\ session[s].m_closeAfterWrite \in BOOLEAN
        /\ net[s] \in Seq(Requests)
        /\ sent[s] \in Seq(Requests)
        /\ commits[s] \in Seq(Nat)
        /\ session[s].status # "open" => ~session[s].reading /\ ~session[s].writing

Replies(s) == received[s] \o session[s].m_output

\* A connection's replies, written or queued, answer its requests one by one
\* and in the order they were sent, however the input was fragmented and
\* whatever was in flight when they were queued (Process, Queue, Write).
RepliesInOrder ==
    \A s \in Sessions : \A i \in 1..Len(Replies(s)) : Replies(s)[i].id = i

Ends(r) == r.name = "malformed" \/ Closes(r)

\* No command is executed and no reply produced behind a QUIT or a protocol
\* error, also if it arrived in the same read (the condition of Process).
NothingAfterClose ==
    \A s \in Sessions :
        \A i \in 1..Len(sent[s]) :
            Ends(sent[s][i]) => Len(commits[s]) <= i /\ Len(Replies(s)) <= i

\* While a session waits for input, no complete command sits in its buffer:
\* the end of a pipeline never has to wait for the client to send more.
NoStrandedCommand ==
    \A s \in Sessions :
        session[s].reading => ParseCommand(session[s].m_input) = "Incomplete"

\* While the client is there, a queued response has a write in flight that
\* will get to it (Queue starts one only if the queue was empty).
NoLostWakeup ==
    \A s \in Sessions :
        session[s].m_output # <<>> /\ ~hungup[s] => session[s].writing

\* The limit on buffered input, tested before parsing, never hits a request
\* because of what was pipelined before it, and because of what follows it
\* only by less than one read: one of at most MaxInput - ReadSize + 1 cells is
\* never refused (the lambda of Read, Process).
LimitSparesSmallRequests ==
    \A s \in Sessions :
        \A i \in 1..Len(Replies(s)) :
            Replies(s)[i].kind = "limit" => sent[s][i].size > MaxInput - ReadSize + 1

\* What a reply says was done is what its request committed, no more and no
\* less, even if the process died or an append failed between the deletions
\* of other requests (HandleSet, HandleDelete, HandleRename).
RepliesMatchCommits ==
    \A s \in Sessions :
        \A i \in 1..Len(Replies(s)) :
            i <= Len(commits[s]) =>
                LET request == sent[s][i]
                    answer  == Replies(s)[i]
                    done    == commits[s][i]
                IN  /\ answer.kind = "error" => done = 0
                    /\ request.name \in {"SET", "RENAME"} /\ answer.kind = "simple" => done = 1
                    /\ request.name = "DEL" /\ answer.kind = "integer" => done = answer.value

\* The store after committing events to store, one after the other.
Executed(store, events) ==
    LET after[j \in 0..Len(events)] ==
            IF j = 0 THEN store
            ELSE IF Applies(after[j - 1], events[j], 0)
                 THEN ApplyEvent(after[j - 1], events[j], 0) ELSE after[j - 1]
    IN  after[Len(events)]

\* The database after executing requests, one at a time, on an empty one.
StoreAfter(requests) ==
    LET store[i \in 0..Len(requests)] ==
            IF i = 0 THEN EmptyStore(NoExpiry)
            ELSE Executed(store[i - 1], EventsFor(requests[i]))
    IN  store[Len(requests)]

\* The answer to the last of requests if they are executed one at a time, from
\* the first, on an empty database.
SequentialReply(requests) ==
    LET n == Len(requests)
        before == StoreAfter(SubSeq(requests, 1, n - 1))
        version[i \in 0..n] == IF i = 0 THEN "2" ELSE NextVersion(version[i - 1], requests[i])
        events == EventsFor(requests[n])
        applied == Cardinality({j \in 1..Len(events) :
                       Applies(Executed(before, SubSeq(events, 1, j - 1)), events[j], 0)})
    IN  Reply(requests[n], applied, StoreAfter(requests), version[n], n)

\* The replies to the only client of a fresh database are those of executing
\* its requests one at a time: pipelining, fragmentation and the moment at
\* which responses are written make no difference (Process).
PipelineTransparent ==
    \A s \in Sessions :
        Sessions = {s} =>
            \A i \in 1..Len(Replies(s)) :
                i <= Len(commits[s]) =>
                    /\ i <= Len(sent[s])
                    /\ Replies(s)[i] = SequentialReply(SubSeq(sent[s], 1, i))

\* What the log of a fresh database holds for the next server is what its only
\* client's answered requests did, all of it and in order, and of a command cut
\* short by a crash or a failed append a prefix; without persistence it is
\* nothing.  The final compaction makes no difference (Process, HandleDelete,
\* RadishDB::Commit, LogWriter::Compact, main).
AnsweredRequestsSurvive ==
    \A s \in Sessions :
        Sessions = {s} =>
            LET n      == Len(commits[s])
                events == EventsFor(sent[s][n])
                after  == StoreAfter(SubSeq(sent[s], 1, n - 1))
            IN  IF n = 0 \/ s \notin durable THEN logged = EmptyStore(NoExpiry)
                ELSE IF Len(Replies(s)) >= n THEN logged = Executed(after, events)
                ELSE \E j \in 0..Len(events) : logged = Executed(after, SubSeq(events, 1, j))

ValidHello(r) == r.name = "HELLO" /\ Accepted(r) /\ r.args[1] \in {"2", "3"}

\* The protocol version in force for the i-th request of s.
VersionAt(s, i) ==
    LET hellos == {j \in 1..i : ValidHello(sent[s][j])}
    IN  IF hellos = {} THEN "2"
        ELSE sent[s][CHOOSE j \in hellos : \A m \in hellos : m <= j].args[1]

\* A reply that is encoded by protocol version uses the version negotiated by
\* the requests before it, although later ones may have been executed already
\* when it is written (HandleHello, BulkString).
VersionInForce ==
    \A s \in Sessions :
        \A i \in 1..Len(Replies(s)) :
            Replies(s)[i].kind \in {"null", "hello"} => Replies(s)[i].value = VersionAt(s, i)

\* A request is answered, unless the connection ends, if clients read their
\* replies (Process, Queue, Write).
RequestsAnswered ==
    \A s \in Sessions : \A i \in 1..MaxRequests :
        (session[s].status = "open" /\ Len(sent[s]) >= i)
            ~> (Len(received[s]) >= i \/ hungup[s] \/ session[s].status = "closed")

\* The session of a client that is gone is freed, also if responses to it can
\* no longer be written, if the loss is reported to its read (Read, Write).
SessionsReleased ==
    \A s \in Sessions : hungup[s] ~> (session[s].status = "closed")
=============================================================================
