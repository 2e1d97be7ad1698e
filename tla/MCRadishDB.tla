----------------------------- MODULE MCRadishDB -----------------------------
(***************************************************************************)
(* Small instances of RadishDB for TLC: named sets of rename arguments.    *)
(***************************************************************************)
EXTENDS RadishDB

CONSTANTS k1, k2, v1, v2

NoTtl       == {NoExpiry}
TtlOnAndOff == {NoExpiry, 2}
TwoTtls     == {1, 3}

MoveRenames == {<<k1, k2>>, <<k2, k1>>}
OneMove     == {<<k1, k2>>}
SelfRename  == {<<k1, k1>>}
NoRenames   == {}
=============================================================================
