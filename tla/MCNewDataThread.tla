--------------------------- MODULE MCNewDataThread ---------------------------
(* Instances of NewDataThread: commands that are smaller and larger than    *)
(* what one callback delivers.                                              *)
EXTENDS NewDataThread

MCSizes == <<2, 1, 3>>
MCStart == <<0, 2, 3, 6>>
=============================================================================
