------------------------------ MODULE MCUncrypt ------------------------------
(* Uncrypt for TLC.  The map of "ota" has one range more than that of       *)
(* "next", and so its text is longer: the block.map.tmp that a run for      *)
(* "ota" leaves sticks out of the one that the next run writes for "next".  *)
EXTENDS Uncrypt

const_Packages == {"ota", "next"}
const_Layout == [p \in const_Packages |-> IF p = "ota" THEN <<1, 2, 4, 6>> ELSE <<8, 7>>]
const_Crypto == BOOLEAN

(* "/dev/b", "4 1"; one digit and a newline for the count, four bytes for   *)
(* each range.                                                              *)
const_HeaderLength == [p \in const_Packages |-> 11]
const_MapLength == [p \in const_Packages |-> 11 + 2 + 4 * (IF p = "ota" THEN 3 ELSE 2)]

Ask(o, p) == [op |-> o, pkg |-> p]
Uncrypts == {Ask("uncrypt", p) : p \in const_Packages}
const_Requests == Uncrypts \cup {Ask(o, None) : o \in Ops}
=============================================================================
