---------------------------- MODULE MCRespStream ----------------------------
(***************************************************************************)
(* Small instances of RespStream for TLC: pipelines and replies.           *)
(***************************************************************************)
EXTENDS RespStream

\* Empty, plain, a terminator, and what looks like the start of a bulk string.
Arguments == {<<>>, <<"a">>, <<"CR", "LF">>, <<"$", "0">>}

SomeCommands == {<<x>> : x \in Arguments} \cup {<<x, y>> : x, y \in Arguments}

Pipelines == {<<c, d>> : c, d \in SomeCommands}

\* Pipelines of two commands, of which either may be hit.
DamagedPipelines ==
    {<<c, d>> : c \in {<<<<"a">>>>, <<<<"$", "0">>, <<>>>>, <<<<"CR", "LF">>, <<"a">>>>},
                d \in {<<<<"a">>>>, <<<<>>, <<"CR", "LF">>>>}}

SomeBytes == {"*", "$", "-", "0", "1", "2", "CR", "LF", "a"}

SomeReplies ==
    {<<"simple", <<"PONG">>>>, <<"error", <<"unknown", "CR", "LF", "+", "A">>>>,
     <<"integer", 0>>, <<"integer", 12>>, <<"integer", -1>>, <<"bulk", <<>>>>,
     <<"bulk", <<"CR", "LF">>>>, <<"null", <<>>>>, <<"array", <<>>>>,
     <<"array", <<<<"$", "1">>, <<"CR", "LF">>>>>>, <<"hello", <<>>>>}
=============================================================================
