------------------------------- MODULE NewData -------------------------------
(***************************************************************************)
(* What the "new" commands of a transfer list are promised: the new data   *)
(* stream is dealt out in the order of the commands, each command gets     *)
(* exactly its share, and an update only succeeds when all were served.    *)
(***************************************************************************)
EXTENDS Naturals, Sequences

CONSTANT Sizes     \* Sizes[k]: the blocks of the k-th "new" command

VARIABLES served,  \* the commands that have got their data
          result   \* "running", "t" or "error"

Init == served = 0 /\ result = "running"

Serve ==
  /\ result = "running"
  /\ served < Len(Sizes)
  /\ served' = served + 1
  /\ UNCHANGED result

Succeed ==
  /\ result = "running"
  /\ served = Len(Sizes)
  /\ result' = "t"
  /\ UNCHANGED served

Fail ==
  /\ result = "running"
  /\ result' = "error"
  /\ UNCHANGED served

Next == Serve \/ Succeed \/ Fail
Spec == Init /\ [][Next]_<<served, result>>
=============================================================================
