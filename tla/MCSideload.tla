------------------------------ MODULE MCSideload ------------------------------
(* Three packages in a row, from adb and from a volume.                      *)
EXTENDS Sideload
=============================================================================
