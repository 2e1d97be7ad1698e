---------------------------- MODULE MCTcpServer ----------------------------
(***************************************************************************)
(* Small instances of TcpServer for TLC: the requests clients choose from. *)
(***************************************************************************)
EXTENDS TcpServer, TLC

CONSTANTS k1, k2, v1, c1, c2

Req(name, args, size) == [name |-> name, args |-> args, size |-> size]

\* Every command, also with a wrong arity; negotiation, a null, closing, a
\* protocol error, requests of several fragments, one that fits the input
\* buffer exactly and one that is larger.
ProtocolRequests ==
    {Req("HELLO", <<"3">>, 1), Req("HELLO", <<"4">>, 1), Req("PING", <<>>, 4),
     Req("PING", <<v1>>, 1), Req("GET", <<k2>>, 3), Req("SET", <<k1, v1>>, 2),
     Req("SET", <<k1>>, 1), Req("DEL", <<k2, k1>>, 1), Req("RENAME", <<k1, k2>>, 1),
     Req("EXISTS", <<k1, k1, k2>>, 1), Req("KEYS", <<"*">>, 1), Req("KEYS", <<k1>>, 1),
     Req("DBSIZE", <<>>, 1), Req("FLUSHDB", <<>>, 1), Req("QUIT", <<>>, 1),
     Req("UNKNOWN", <<>>, 1), Req("malformed", <<>>, 1)}

\* With and without persistence; the rest is rejected.
ServerCommandLines ==
    {<<>>, <<"--persistence", "flush", "--persistence", "off">>, <<"--port">>,
     <<"--port", 65536>>, <<"--ttl-ms", -1>>, <<"--persistence", "on">>, <<"--fast", "yes">>}

\* The least that makes pipelines, fragments, failing appends and closing.
FairRequests == {Req("SET", <<k1, v1>>, 2), Req("QUIT", <<>>, 1)}

\* Appends, the calls that can throw, happen only with persistence.
DefaultCommandLine == {<<>>}
=============================================================================
