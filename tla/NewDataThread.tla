---------------------------- MODULE NewDataThread ----------------------------
(***************************************************************************)
(* The two threads of block_image_update (updater/blockimg.cpp).  The main *)
(* thread executes the commands; the background thread unzips the new data *)
(* stream and writes it wherever the current "new" command wants it.  They *)
(* share NewThreadInfo under one mutex and one condition variable.         *)
(*                                                                         *)
(* Every region that holds the mutex is one step up to the point where it  *)
(* waits, so the mutex needs no variable.  The write itself is done        *)
(* without the mutex.  Amounts of data are counted in blocks.              *)
(***************************************************************************)
EXTENDS Naturals, Sequences

CONSTANTS
  Sizes,      \* Sizes[k]: the blocks of the k-th "new" command
  Start,      \* Start[k]: the blocks of the "new" commands before the k-th
  StreamLen,  \* blocks in the new data stream
  MaxChunk,   \* bound: blocks ProcessZipEntryContents passes in one callback
  Brotli      \* brotli_compressed

ASSUME SizesAssumption ==
  /\ Sizes \in Seq(Nat \ {0})
  /\ Start \in [1..(Len(Sizes) + 1) -> Nat]
  /\ Start[1] = 0
  /\ \A k \in 1..Len(Sizes) : Start[k + 1] = Start[k] + Sizes[k]

ASSUME StreamAssumption ==
  /\ StreamLen \in Nat /\ MaxChunk \in Nat \ {0} /\ Brotli \in BOOLEAN

VARIABLES
  main,       \* the main thread: "cmd", "wait", "done", "join" or "end"
  bg,         \* the background thread: "next", "recv", "wait", "write", "clear", "exit", "dead"
  k,          \* the "new" command the main thread is at
  writer,     \* nti.writer is not null
  wanted,     \* blocks the writer still wants
  receiver_available,
  sleeping,   \* the threads asleep in pthread_cond_wait
  chunk,      \* blocks left in the callback's data
  tail,       \* compressed input that yields no more output is still to come
  pos,        \* blocks of the stream written so far
  rc          \* result of the main thread's commands

shared == <<writer, wanted, receiver_available, sleeping>>
threadVars == <<main, bg, k, shared, chunk, tail, pos, rc>>

Smaller(a, b) == IF a < b THEN a ELSE b

ThreadType ==
  /\ main \in {"cmd", "wait", "done", "join", "end"}
  /\ bg \in {"next", "recv", "wait", "write", "clear", "exit", "dead"}
  /\ rc \in {"running", "t", "error"}
CountType ==
  /\ k \in 1..(Len(Sizes) + 1)
  /\ wanted \in Nat /\ chunk \in Nat /\ pos \in Nat
FlagType ==
  writer \in BOOLEAN /\ receiver_available \in BOOLEAN /\ tail \in BOOLEAN

ThreadTypeOK == ThreadType /\ CountType /\ FlagType /\ sleeping \subseteq {"main", "bg"}

ThreadInit ==
  /\ main = "cmd" /\ bg = "next"
  /\ k = 1
  /\ writer = FALSE /\ wanted = 0 /\ receiver_available = TRUE /\ sleeping = {}
  /\ chunk = 0 /\ tail = Brotli /\ pos = 0
  /\ rc = "running"

-----------------------------------------------------------------------------
(* Main thread.                                                             *)

(* PerformCommandNew: hand over the destination and wait for it to go.      *)
PerformCommandNew ==
  /\ main = "cmd"
  /\ k <= Len(Sizes)
  /\ writer' = TRUE /\ wanted' = Sizes[k]
  /\ IF receiver_available
     THEN main' = "wait" /\ sleeping' = {"main"} /\ UNCHANGED rc
     ELSE main' = "done" /\ sleeping' = {} /\ rc' = "error"
  /\ UNCHANGED <<bg, k, receiver_available, chunk, tail, pos>>

(* Mutant: the loop around pthread_cond_wait is an "if".                    *)
MutNewWakesIf ==
  /\ main = "wait"
  /\ "main" \notin sleeping
  /\ main' = "cmd" /\ k' = k + 1
  /\ UNCHANGED <<bg, shared, chunk, tail, pos, rc>>

(* It wakes up and looks at the loop condition again.                       *)
NewWakes ==
  /\ main = "wait"
  /\ "main" \notin sleeping
  /\ IF ~writer
     THEN main' = "cmd" /\ k' = k + 1 /\ UNCHANGED <<sleeping, rc>>
     ELSE IF receiver_available
     THEN sleeping' = sleeping \cup {"main"} /\ UNCHANGED <<main, k, rc>>
     ELSE main' = "done" /\ rc' = "error" /\ UNCHANGED <<k, sleeping>>
  /\ UNCHANGED <<bg, writer, wanted, receiver_available, chunk, tail, pos>>

(* A command other than "new" fails.                                        *)
OtherCommandFails ==
  /\ main = "cmd"
  /\ main' = "done"
  /\ rc' = "error"
  /\ UNCHANGED <<bg, k, shared, chunk, tail, pos>>

(* Mutant: the command loop ends one command early.                         *)
MutLastCommandDone ==
  /\ main = "cmd"
  /\ k >= Len(Sizes)
  /\ main' = "done"
  /\ rc' = "t"
  /\ UNCHANGED <<bg, k, shared, chunk, tail, pos>>

LastCommandDone ==
  /\ main = "cmd"
  /\ k > Len(Sizes)
  /\ main' = "done"
  /\ rc' = "t"
  /\ UNCHANGED <<bg, k, shared, chunk, tail, pos>>

(* pbiudone: tell the background thread to stop, and join it.               *)
StopReceiver ==
  /\ main = "done"
  /\ receiver_available' = FALSE
  /\ sleeping' = {}
  /\ main' = "join"
  /\ UNCHANGED <<bg, k, writer, wanted, chunk, tail, pos, rc>>

Join ==
  /\ main = "join"
  /\ bg = "dead"
  /\ main' = "end"
  /\ UNCHANGED <<bg, k, shared, chunk, tail, pos, rc>>

-----------------------------------------------------------------------------
(* Background thread.                                                       *)

(* ProcessZipEntryContents calls back with the next piece of the stream;    *)
(* with brotli a last piece may hold no block at all.                       *)
NextChunk ==
  /\ bg = "next"
  /\ \/ /\ pos < StreamLen
        /\ \E n \in 1..Smaller(MaxChunk, StreamLen - pos) : chunk' = n
        /\ UNCHANGED tail
     \/ /\ pos = StreamLen /\ tail
        /\ chunk' = 0 /\ tail' = FALSE
  /\ bg' = "recv"
  /\ UNCHANGED <<main, k, shared, pos, rc>>

(* The stream ends, or cannot be inflated any further.                      *)
StreamEnds ==
  /\ bg = "next"
  /\ bg' = "exit"
  /\ UNCHANGED <<main, k, shared, chunk, tail, pos, rc>>

(* receive_new_data and receive_brotli_new_data: wait until some of the     *)
(* data is wanted, or nobody will want any.                                 *)
AwaitWriter ==
  /\ \/ bg = "recv"
     \/ bg = "wait" /\ "bg" \notin sleeping
  /\ IF writer
     THEN bg' = "write" /\ UNCHANGED sleeping
     ELSE IF receiver_available
     THEN bg' = "wait" /\ sleeping' = sleeping \cup {"bg"}
     ELSE bg' = "exit" /\ UNCHANGED sleeping
  /\ UNCHANGED <<main, k, writer, wanted, receiver_available, chunk, tail, pos, rc>>

AfterWrite(left) == IF left > 0 THEN "recv" ELSE "next"

(* Mutant: the writer counts as finished after any write.                   *)
MutWriteShort ==
  /\ bg = "write"
  /\ LET n == Smaller(chunk, wanted) IN
       /\ pos' = pos + n
       /\ chunk' = chunk - n
       /\ wanted' = wanted - n
       /\ bg' = "clear"
  /\ UNCHANGED <<main, k, writer, receiver_available, sleeping, tail, rc>>

(* RangeSinkWriter::Write of as much as the writer wants, without the       *)
(* mutex.  It may fail.                                                     *)
Write ==
  /\ bg = "write"
  /\ LET n == Smaller(chunk, wanted) IN
       /\ pos' = pos + n
       /\ chunk' = chunk - n
       /\ wanted' = wanted - n
       /\ bg' = IF wanted = n THEN "clear" ELSE AfterWrite(chunk - n)
  /\ UNCHANGED <<main, k, writer, receiver_available, sleeping, tail, rc>>

WriteFails ==
  /\ bg = "write"
  /\ bg' = "exit"
  /\ UNCHANGED <<main, k, shared, chunk, tail, pos, rc>>

(* Mutant: the writer is cleared without a broadcast.                       *)
MutClearWriter ==
  /\ bg = "clear"
  /\ writer' = FALSE
  /\ bg' = AfterWrite(chunk)
  /\ UNCHANGED <<main, k, wanted, receiver_available, sleeping, chunk, tail, pos, rc>>

(* The writer is finished: clear it and wake the main thread.               *)
ClearWriter ==
  /\ bg = "clear"
  /\ writer' = FALSE
  /\ sleeping' = {}
  /\ bg' = AfterWrite(chunk)
  /\ UNCHANGED <<main, k, wanted, receiver_available, chunk, tail, pos, rc>>

(* The end of unzip_new_data.                                               *)
ReceiverExits ==
  /\ bg = "exit"
  /\ receiver_available' = FALSE
  /\ sleeping' = IF writer THEN {} ELSE sleeping
  /\ bg' = "dead"
  /\ UNCHANGED <<main, k, writer, wanted, chunk, tail, pos, rc>>

(* pthread_cond_wait may return without a signal.                           *)
SpuriousWakeup ==
  /\ \E t \in sleeping : sleeping' = sleeping \ {t}
  /\ UNCHANGED <<main, bg, k, writer, wanted, receiver_available, chunk, tail, pos, rc>>

Terminated == main = "end" /\ UNCHANGED threadVars

Main == PerformCommandNew \/ NewWakes \/ LastCommandDone \/ StopReceiver \/ Join
Background ==
  NextChunk \/ StreamEnds \/ AwaitWriter \/ Write \/ WriteFails \/ ClearWriter \/ ReceiverExits
ThreadNext == Main \/ OtherCommandFails \/ Background \/ SpuriousWakeup \/ Terminated

ThreadSpec == ThreadInit /\ [][ThreadNext]_threadVars
(* Both threads are scheduled by the kernel; nothing forces a failure or a  *)
(* spurious wakeup.                                                         *)
FairSpec == ThreadSpec /\ WF_threadVars(Main) /\ WF_threadVars(Background)

-----------------------------------------------------------------------------
(* The main thread goes on to the next command exactly when the stream has  *)
(* been read up to where that command's data begins: no block is left over  *)
(* for a later command and none is taken from it.                           *)
DataInOrder ==
  main = "cmd" => ~writer /\ pos = Start[k]

(* The background thread uses the writer, and through it the RangeSet in    *)
(* the frame of PerformCommandNew, only while that function waits.          *)
WriterInUseOnlyWhileMainWaits ==
  bg \in {"write", "clear"} => main = "wait" /\ writer

(* A successful update has consumed the data of all "new" commands.         *)
SuccessMeansAllWritten ==
  rc = "t" => pos = Start[Len(Sizes) + 1]

(* The handshake never loses a wakeup: the threads always come together at  *)
(* the pthread_join.                                                        *)
ThreadsJoin == <>(main = "end")

(* The threads implement the promise of NewData.                            *)
Promise == INSTANCE NewData WITH
  served <- IF main = "wait" /\ ~writer THEN k ELSE k - 1,
  result <- rc
ImplementsNewData == Promise!Spec
=============================================================================
