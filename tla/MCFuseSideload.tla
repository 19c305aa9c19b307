---------------------------- MODULE MCFuseSideload ----------------------------
(* FuseSideload for TLC: three blocks of two bytes, the last one short; the *)
(* amounts of memory give no cache (twice) and a cache of two blocks.        *)
EXTENDS FuseSideload

const_Bytes == {0, 1}
const_Memory == {5, 12, 15}
=============================================================================
