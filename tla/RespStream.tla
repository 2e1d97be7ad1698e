---------------------------- MODULE RespStream -----------------------------
(***************************************************************************)
(* RespCodec at work on one connection, byte by byte: the requests of a    *)
(* client, encoded by EncodeCommand and possibly damaged, arrive in        *)
(* arbitrary pieces and are parsed by Session::Read and Session::Process   *)
(* (src/network/TcpServer.cpp); or the replies of the server are read back *)
(* by a client that knows RESP2 and RESP3.  Module TcpServer is about what *)
(* happens between the two; this one is about where a message ends.        *)
(***************************************************************************)
EXTENDS RespCodec

CONSTANTS
    Streams,    \* the pipelines (sequences of commands) clients send
    Damaged,    \* the pipelines that may be damaged on the way
    Bytes,      \* the bytes that damage may put in
    Replies,    \* the replies the server gives, see Encode
    ReadSize    \* the capacity of m_readBuffer

\* Streams are within the limits; damage may take a pipeline beyond them.
ASSUME StreamAssumption ==
    /\ Streams \subseteq Seq(Seq(Seq(STRING)))
    /\ Damaged \subseteq Seq(Seq(Seq(STRING)))
    /\ \A commands \in Streams : \A i \in 1..Len(commands) :
           /\ Len(commands[i]) \in 1..kMaxArguments
           /\ \A j \in 1..Len(commands[i]) : Len(commands[i][j]) <= kMaxBulkLength
    /\ Bytes \subseteq STRING
    /\ ReadSize \in Nat

ASSUME ReplyAssumption ==
    Replies \subseteq ({"simple", "error", "bulk"} \X Seq(STRING))
                        \cup ({"integer"} \X Int)
                        \cup ({"null", "hello"} \X {<<>>})
                        \cup ({"array"} \X Seq(Seq(STRING)))

VARIABLES
    sent,       \* the commands, or the replies, that were sent
    wire,       \* all bytes of the connection, as they arrive
    intact,     \* are they the ones that were sent?
    m_input,    \* bytes received and not consumed
    arrived,    \* how many bytes were received
    parsing,    \* is the loop of Process running?
    accepted,   \* the commands Process got, with the bytes of each
    failed,     \* was there a protocol error?
    version,    \* the version replies are encoded in, or "requests"
    decoded     \* the replies the client got

vars == <<sent, wire, intact, m_input, arrived, parsing, accepted, failed, version, decoded>>

Encoded(commands) ==
    FlattenSeq([i \in 1..Len(commands) |-> EncodeCommand(commands[i])])

\* bytes with one byte lost, replaced or inserted.
Damages(bytes) ==
    UNION {{RemoveAt(bytes, i)}
               \cup {ReplaceAt(bytes, i, b) : b \in Bytes}
               \cup {InsertAt(bytes, i, b) : b \in Bytes} : i \in 1..Len(bytes)}

\* A reply is <<kind, value>>.
Encode(reply, v) ==
    CASE reply[1] = "simple"  -> SimpleString(reply[2])
      [] reply[1] = "error"   -> Error(reply[2])
      [] reply[1] = "integer" -> Integer(reply[2])
      [] reply[1] = "bulk"    -> Bulk(reply[2])
      [] reply[1] = "null"    -> Null(v)
      [] reply[1] = "array"   -> Array(reply[2])
      [] reply[1] = "hello"   -> Hello(v)

InitRequests ==
    /\ version = "requests"
    /\ \/ /\ sent \in Streams
          /\ wire = Encoded(sent)
          /\ intact = TRUE
       \/ /\ sent \in Damaged
          /\ wire \in Damages(Encoded(sent))
          /\ intact = FALSE

InitReplies ==
    /\ version \in {"2", "3"}
    /\ \E first, second \in Replies : sent = <<first, second>>
    /\ wire = Encode(sent[1], version) \o Encode(sent[2], version)
    /\ intact = TRUE

Init ==
    /\ InitRequests \/ InitReplies
    /\ m_input = <<>>
    /\ arrived = 0
    /\ parsing = FALSE
    /\ accepted = <<>>
    /\ failed = FALSE
    /\ decoded = <<>>

-----------------------------------------------------------------------------
(* The server. *)

\* Session::Read: append what arrived and enter Process.  The limit it puts on
\* m_input is OverLimit of module TcpServer.
Read(n) ==
    /\ version = "requests"
    /\ ~parsing
    /\ ~failed
    /\ arrived + n <= Len(wire)
    /\ m_input' = m_input \o SubSeq(wire, arrived + 1, arrived + n)
    /\ arrived' = arrived + n
    /\ parsing' = TRUE
    /\ UNCHANGED <<sent, wire, intact, accepted, failed, version, decoded>>

\* One iteration of the loop of Session::Process.
Process ==
    /\ parsing
    /\ LET result == ParseCommand(m_input)
       IN  IF result.status = "Complete"
           THEN /\ accepted' = Append(accepted,
                       [arguments |-> result.arguments,
                        bytes     |-> SubSeq(m_input, 1, result.consumed)])
                /\ m_input' = SubSeq(m_input, result.consumed + 1, Len(m_input))
                /\ UNCHANGED <<parsing, failed>>
           ELSE /\ parsing' = FALSE
                /\ failed' = (result.status = "Error")
                /\ UNCHANGED <<accepted, m_input>>
    /\ UNCHANGED <<sent, wire, intact, arrived, version, decoded>>

-----------------------------------------------------------------------------
(* A client: what RESP says the bytes from position at on are. *)

Line(at) == CHOOSE i \in at..Len(wire) :
                /\ i \in Terminators(wire, at)
                /\ \A j \in Terminators(wire, at) : i <= j

\* [value |-> the reply that starts at position at, next |-> where it ends], for
\* a reply that has no elements.
PlainAt(at) ==
    LET end  == Line(at + 1)
        text == SubSeq(wire, at + 1, end - 1)
        Is(kind, value) == [value |-> <<kind, value>>, next |-> end + 2]
    IN  CASE wire[at] = "+" -> Is("simple", text)
          [] wire[at] = "-" -> Is("error", Tail(text))
          [] wire[at] = ":" -> Is("integer", IntegerOf(text))
          [] wire[at] = "_" \/ (wire[at] = "$" /\ IntegerOf(text) = -1) -> Is("null", <<>>)
          [] wire[at] = "$" /\ IntegerOf(text) # -1 ->
                 [value |-> <<"bulk", SubSeq(wire, end + 2, end + 1 + IntegerOf(text))>>,
                  next  |-> end + 4 + IntegerOf(text)]
          [] wire[at] = "*" /\ IntegerOf(text) = 0 -> Is("array", <<>>)

\* The n elements from position at on (this server's elements have none).
ItemsAt(at, n) ==
    LET items[i \in 0..n] ==
            IF i = 0 THEN [value |-> <<>>, next |-> at]
            ELSE LET before == items[i - 1]
                     item   == PlainAt(before.next)
                 IN  [value |-> Append(before.value, item.value), next |-> item.next]
    IN  items[n]

ReplyAt(at) ==
    LET end    == Line(at + 1)
        number == IntegerOf(SubSeq(wire, at + 1, end - 1))
        Of(kind, items) == [value |-> <<kind, items.value>>, next |-> items.next]
    IN  CASE wire[at] = "*" -> Of("array", ItemsAt(end + 2, number))
          [] wire[at] = "%" -> Of("map", ItemsAt(end + 2, 2 * number))
          [] OTHER -> PlainAt(at)

ClientReads ==
    /\ version # "requests"
    /\ arrived < Len(wire)
    /\ LET reply == ReplyAt(arrived + 1)
       IN  /\ decoded' = Append(decoded, reply.value)
           /\ arrived' = reply.next - 1
    /\ UNCHANGED <<sent, wire, intact, m_input, parsing, accepted, failed, version>>

Next ==
    \/ \E n \in 1..ReadSize : Read(n)
    \/ Process
    \/ ClientReads

Spec == Init /\ [][Next]_vars

-----------------------------------------------------------------------------
(* Properties. *)

Commands == [i \in 1..Len(accepted) |-> accepted[i].arguments]

\* Everything that arrived has been looked at.
Settled == ~parsing /\ (failed \/ arrived = Len(wire))

\* What the parser makes of bytes if they are there all at once: the requests
\* it finds one after the other, until one is incomplete or malformed.
Parse(bytes) ==
    LET found[i \in 0..Len(bytes) + 1] ==
            IF i = 0 THEN RespParseResult("Complete", <<>>, 0)
            ELSE LET before == found[i - 1]
                     result == ParseCommand(SubSeq(bytes, before.consumed + 1, Len(bytes)))
                 IN  IF before.status # "Complete" THEN before
                     ELSE IF result.status # "Complete"
                     THEN RespParseResult(result.status, before.arguments, before.consumed)
                     ELSE RespParseResult("Complete", Append(before.arguments, result.arguments),
                              before.consumed + result.consumed)
        last == found[Len(bytes) + 1]
    IN  [commands |-> last.arguments, failed |-> last.status = "Error"]

\* The commands executed, and whether the connection ends with a protocol
\* error, do not depend on the pieces in which the bytes arrive, whatever they
\* are: a parse of less never commits to what more bytes would change
\* (ParseCommand starts over on every read).
FragmentsIrrelevant ==
    version = "requests" =>
        /\ IsPrefix(Commands, Parse(wire).commands)
        /\ Settled => Parse(wire) = [commands |-> Commands, failed |-> failed]

\* Arguments of any bytes, protocol bytes and terminators included, arrive as
\* they were encoded, command by command, and nothing is left in the buffer
\* (EncodeCommand and ParseCommand are inverse).
RequestsArrive ==
    version = "requests" /\ intact =>
        /\ IsPrefix(Commands, sent)
        /\ Settled => Commands = sent /\ m_input = <<>>

\* A request with these arguments, its numbers spelled ns.
Request(arguments, ns) ==
    <<"*">> \o ns[1] \o CRLF
        \o FlattenSeq([i \in 1..Len(arguments) |->
               <<"$">> \o ns[i + 1] \o CRLF \o arguments[i] \o CRLF])

\* The numerals in bytes.
Numerals(bytes) == {n \in {SubSeq(bytes, a, b) : a, b \in 1..Len(bytes)} : IsNumeral(n)}

\* bytes are a request whose numbers, as integers of any size, are the number
\* and the lengths of these arguments.
AnnouncedAs(arguments, bytes) ==
    /\ Len(arguments) \in 1..kMaxArguments
    /\ \E ns \in [1..Len(arguments) + 1 -> Numerals(bytes)] :
        /\ IntegerOf(ns[1]) = Len(arguments)
        /\ \A j \in 1..Len(arguments) : IntegerOf(ns[j + 1]) = Len(arguments[j])
        /\ bytes = Request(arguments, ns)

\* What is executed was really announced: the bytes of an accepted command are
\* a request whose numbers, as integers of any size, are the number and the
\* lengths of its arguments, also after damage (no wrap-around, no foreign or
\* missing bytes; ParseNumber and the limits of ParseCommand).
AcceptedAsAnnounced ==
    \A i \in 1..Len(accepted) : AnnouncedAs(accepted[i].arguments, accepted[i].bytes)

Items(values) == [i \in 1..Len(values) |-> <<"bulk", values[i]>>]

\* What a client should make of a reply.
Meaning(reply, v) ==
    CASE reply[1] \in {"simple", "error"} -> <<reply[1], SanitizeSimpleValue(reply[2])>>
      [] reply[1] = "array" -> <<"array", Items(reply[2])>>
      [] reply[1] = "hello" /\ v = "2" -> <<"array", Items(HelloFields(v))>>
      [] reply[1] = "hello" /\ v = "3" ->
             <<"map", Append(Items(SubSeq(HelloFields(v), 1, 11)), <<"array", <<>>>>)>>
      [] OTHER -> reply

\* A client finds every reply where it begins and reads what was meant, also
\* behind one that quotes a command name or a key with terminators in it, in
\* both protocol versions (SanitizeSimpleValue, BulkString, Array, Hello).
RepliesReadBack ==
    version # "requests" =>
        /\ \A i \in 1..Len(decoded) : decoded[i] = Meaning(sent[i], version)
        /\ arrived = Len(wire) => Len(decoded) = Len(sent)
=============================================================================
