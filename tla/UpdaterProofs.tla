---------------------------- MODULE UpdaterProofs ----------------------------
(***************************************************************************)
(* Proofs about the updater binary: how it evaluates a script, and the     *)
(* thread that it receives new data with.                                  *)
(*                                                                         *)
(* UpdaterScript, for every script, package and device: a function that    *)
(* gives up with a message ends the script, and nothing runs between it    *)
(* and main.  NewDataThread, for any commands, any stream and any way the  *)
(* stream is cut into pieces: the handshake of the two threads.            *)
(***************************************************************************)
EXTENDS UpdaterScript, NewDataThread, TLAPS

-----------------------------------------------------------------------------
(* UpdaterScript: the script.                                                *)

(* The inductive invariant: a message goes with a null value that has not    *)
(* yet been taken, no entry is being extracted while a value is on its way   *)
(* back, and a device that starts has none of these.                         *)
Null_Message == pc = "eval" /\ errmsg # <<>> => ret = Null
Null_Job == pc = "eval" /\ ret # Idle => job = <<>>
Started == pc = "off" => ret = Idle /\ errmsg = <<>> /\ job = <<>>
Rebooting == pc = "rebooting" => job = <<>>
Verdict == pc = "done" => errmsg = <<>>
IInv == Null_Message /\ Null_Job /\ Started /\ Rebooting /\ Verdict

(* What a function does to the evaluation: it returns without a message, or  *)
(* it gives up; it neither starts nor ends the script.                       *)
Returns == UNCHANGED errmsg \/ ret' = Null
Called == pc = "eval" /\ ret = Idle /\ job = <<>>

LEMMA CallCalled == ASSUME NEW f, Call(f) PROVE Called
  BY DEF Call, Ready, Called

LEMMA ReturnsInv == ASSUME IInv, Called, Returns, pc' = "eval", job' = <<>> PROVE IInv'
  BY UpdaterAssumption
  DEF IInv, Called, Returns, Null_Message, Null_Job, Started, Rebooting, Verdict

LEMMA SaysReturns == ASSUME NEW v, Says(v) PROVE Returns
  BY DEF Says, Returns

LEMMA AbortReturns == ASSUME NEW c, ErrorAbort(c) PROVE Returns
  BY DEF ErrorAbort, Return, Returns

LEMMA QuietStays == ASSUME Called, Quiet PROVE pc' = "eval" /\ job' = <<>>
  BY DEF Called, Quiet

(* The functions that only return a value or give up.                        *)
Simple ==
  \/ Refuse \/ Operator \/ AbortFn
  \/ MountFn \/ IsMountedFn \/ UnmountFn \/ FormatFn \/ RenameFn \/ DeleteFn \/ SymlinkFn
  \/ SetMetadataFn \/ FileGetPropFn \/ ReadFileFn \/ Sha1CheckFn \/ WriteValueFn
  \/ UIPrintFn \/ ShowProgressFn \/ SetProgressFn \/ WipeCacheFn \/ EnableRebootFn
  \/ GetPropFn \/ RunProgramFn \/ Tune2FsFn \/ WipeBlockDeviceFn \/ BlockImageUpdateFn
  \/ SetStageFn \/ GetStageFn

LEMMA SimpleReturns == ASSUME Simple PROVE Called /\ Returns /\ pc' = "eval" /\ job' = <<>>
<1> USE CallCalled, SaysReturns, AbortReturns, QuietStays
<1>1. CASE Refuse
  BY <1>1 DEF Refuse, Called, Quiet, Return, Returns
<1>2. CASE Operator
  BY <1>2 DEF Operator, Return, Returns
<1>3. CASE AbortFn
  BY <1>3 DEF AbortFn, Return, Returns
<1>4. CASE MountFn
  BY <1>4 DEF MountFn
<1>5. CASE IsMountedFn
  BY <1>5 DEF IsMountedFn
<1>6. CASE UnmountFn
  BY <1>6 DEF UnmountFn
<1>7. CASE FormatFn
  BY <1>7 DEF FormatFn
<1>8. CASE RenameFn
  BY <1>8 DEF RenameFn
<1>9. CASE DeleteFn
  BY <1>9 DEF DeleteFn
<1>10. CASE SymlinkFn
  BY <1>10 DEF SymlinkFn
<1>11. CASE SetMetadataFn
  BY <1>11 DEF SetMetadataFn
<1>12. CASE FileGetPropFn
  BY <1>12 DEF FileGetPropFn
<1>13. CASE ReadFileFn
  BY <1>13 DEF ReadFileFn
<1>14. CASE Sha1CheckFn
  BY <1>14 DEF Sha1CheckFn
<1>15. CASE WriteValueFn
  BY <1>15 DEF WriteValueFn
<1>16. CASE UIPrintFn \/ ShowProgressFn \/ SetProgressFn \/ WipeCacheFn \/ EnableRebootFn
  BY <1>16 DEF UIPrintFn, ShowProgressFn, SetProgressFn, WipeCacheFn, EnableRebootFn, Tell
<1>17. CASE GetPropFn
  BY <1>17 DEF GetPropFn
<1>18. CASE RunProgramFn
  BY <1>18 DEF RunProgramFn
<1>19. CASE Tune2FsFn
  BY <1>19 DEF Tune2FsFn
<1>20. CASE WipeBlockDeviceFn
  BY <1>20 DEF WipeBlockDeviceFn
<1>21. CASE BlockImageUpdateFn
  <2>1. Called /\ pc' = pc /\ job' = job /\ Returns
    BY <1>21 DEF BlockImageUpdateFn, Returns
  <2> QED BY <2>1 DEF Called
<1>22. CASE SetStageFn
  BY <1>22 DEF SetStageFn
<1>23. CASE GetStageFn
  BY <1>23 DEF GetStageFn
<1> QED
  BY <1>1, <1>2, <1>3, <1>4, <1>5, <1>6, <1>7, <1>8, <1>9, <1>10, <1>11, <1>12, <1>13, <1>14, <1>15,
     <1>16, <1>17, <1>18, <1>19, <1>20, <1>21, <1>22, <1>23 DEF Simple

(* Evaluating an argument, and handing a value back to the caller.           *)
LEMMA EvaluateInv == ASSUME IInv, Evaluate PROVE IInv'
<1>1. Called /\ Returns /\ pc' = "eval" /\ job' = <<>>
  BY DEF Evaluate, Called, Returns, Quiet
<1> QED BY <1>1, ReturnsInv

LEMMA TakesInv == ASSUME IInv, Takes PROVE IInv'
<1>1. pc = "eval" /\ pc' = "eval" /\ job' = job /\ ret # Idle /\ ret # Null
  BY DEF Takes, Quiet
<1>2. job = <<>> /\ errmsg = <<>>
  BY <1>1 DEF IInv, Null_Job, Null_Message
<1>3. errmsg' = errmsg \/ ret' = Null
  BY DEF Takes
<1> QED BY <1>1, <1>2, <1>3 DEF IInv, Null_Message, Null_Job, Started, Rebooting, Verdict

LEMMA UnwindsInv == ASSUME IInv, Unwinds PROVE IInv'
<1>1. pc = "eval" /\ pc' = "eval" /\ job' = job /\ ret = Null
  BY DEF Unwinds, Quiet
<1>2. ret' = Null
  BY DEF Unwinds, Return, Says, ErrorAbort
<1>3. job = <<>>
  BY <1>1, UpdaterAssumption DEF IInv, Null_Job
<1> QED BY <1>1, <1>2, <1>3 DEF IInv, Null_Message, Null_Job, Started, Rebooting, Verdict

(* The entries of the package: while one is extracted no value is on its way *)
(* back, and the value comes with the last of them.                          *)
LEMMA PackageExtractInv ==
  ASSUME IInv, PackageExtractFileFn \/ PackageExtractDirFn
  PROVE  IInv'
<1>1. Called /\ pc' = "eval"
  BY CallCalled DEF PackageExtractFileFn, PackageExtractDirFn, Called
<1>2. \/ Returns /\ job' = <<>>
      \/ UNCHANGED <<ret, errmsg>>
  <2>1. CASE PackageExtractFileFn
    BY <2>1, <1>1, SaysReturns, AbortReturns DEF PackageExtractFileFn, eval, Called
  <2>2. CASE PackageExtractDirFn
    BY <2>2, <1>1, SaysReturns DEF PackageExtractDirFn, eval
  <2> QED BY <2>1, <2>2
<1>3. CASE Returns /\ job' = <<>>
  BY <1>1, <1>3, ReturnsInv
<1>4. CASE UNCHANGED <<ret, errmsg>>
  BY <1>1, <1>4, UpdaterAssumption
  DEF IInv, Called, Null_Message, Null_Job, Started, Rebooting, Verdict
<1> QED BY <1>2, <1>3, <1>4

LEMMA ExtractInv == ASSUME IInv, ExtractOpen \/ ExtractWrite PROVE IInv'
<1>1. pc = "eval" /\ pc' = "eval" /\ job # <<>>
  BY DEF ExtractOpen, ExtractWrite
<1>2. ret = Idle /\ errmsg = <<>>
  BY <1>1, UpdaterAssumption DEF IInv, Null_Job, Null_Message
<1>3. errmsg' = errmsg /\ (ret' = ret \/ job' = <<>>)
  <2>1. CASE ExtractOpen
    BY <2>1 DEF ExtractOpen, Says, eval
  <2>2. CASE ExtractWrite
    BY <2>2 DEF ExtractWrite, Says, eval
  <2> QED BY <2>1, <2>2
<1> QED BY <1>1, <1>2, <1>3 DEF IInv, Null_Message, Null_Job, Started, Rebooting, Verdict

(* Rebooting on the way, and a reboot that does not come.                    *)
LEMMA RebootInv == ASSUME IInv, RebootNowFn \/ RebootFails PROVE IInv'
<1>1. CASE RebootNowFn
  <2>1. Called /\ job' = <<>>
    BY <1>1, CallCalled DEF RebootNowFn, Called
  <2>2. pc' = "rebooting" \/ (pc' = pc /\ Returns)
    BY <1>1, SaysReturns DEF RebootNowFn
  <2>3. CASE pc' = "rebooting"
    BY <2>1, <2>3 DEF IInv, Null_Message, Null_Job, Started, Rebooting, Verdict
  <2>4. CASE pc' = pc /\ Returns
    BY <2>1, <2>4, ReturnsInv DEF Called
  <2> QED BY <2>2, <2>3, <2>4
<1>2. CASE RebootFails
  <2>1. job = <<>> /\ job' = job /\ pc' = "eval" /\ ret' = Null
    BY <1>2 DEF RebootFails, ErrorAbort, Return, IInv, Rebooting
  <2> QED BY <2>1 DEF IInv, Null_Message, Null_Job, Started, Rebooting, Verdict
<1> QED BY <1>1, <1>2

(* main reports a script that gave up as failed, as its value is null.       *)
LEMMA FinishInv == ASSUME IInv, Finish PROVE IInv'
<1>1. /\ pc = "eval" /\ UNCHANGED <<ret, errmsg, job>> /\ pc' \in {"done", "failed"}
      /\ pc' = "done" => ret # Null
  BY DEF Finish
<1>2. ret # Null => errmsg = <<>>
  BY <1>1 DEF IInv, Null_Message
<1> QED BY <1>1, <1>2 DEF IInv, Null_Message, Null_Job, Started, Rebooting, Verdict

LEMMA RestartInv == ASSUME IInv, Boot \/ InitReboots \/ PowerLoss PROVE IInv'
<1>1. CASE Boot
  <2>1. pc = "off" /\ UNCHANGED <<ret, errmsg, job>>
    BY <1>1 DEF Boot
  <2>2. ret = Idle /\ errmsg = <<>> /\ job = <<>>
    BY <2>1 DEF IInv, Started
  <2> QED BY <2>1, <2>2 DEF IInv, Null_Message, Null_Job, Started, Rebooting, Verdict
<1>2. CASE InitReboots \/ PowerLoss
  <2>1. pc' = "off" /\ ret' = Idle /\ errmsg' = <<>> /\ job' = <<>>
    BY <1>2 DEF InitReboots, PowerLoss, Clear
  <2> QED BY <2>1 DEF IInv, Null_Message, Null_Job, Started, Rebooting, Verdict
<1> QED BY <1>1, <1>2

LEMMA NextIInv == ASSUME IInv, [Next]_vars PROVE IInv'
<1>1. CASE Simple
  BY <1>1, SimpleReturns, ReturnsInv
<1>2. CASE Ended \/ UNCHANGED vars
  <2>1. UNCHANGED <<pc, ret, errmsg, job>>
    BY <1>2 DEF Ended, vars, eval
  <2> QED BY <2>1 DEF IInv, Null_Message, Null_Job, Started, Rebooting, Verdict
<1>3. \/ Simple \/ Evaluate \/ Takes \/ Unwinds \/ PackageExtractFileFn \/ PackageExtractDirFn
      \/ ExtractOpen \/ ExtractWrite \/ RebootNowFn \/ Finish \/ RebootFails \/ Boot \/ InitReboots
      \/ PowerLoss \/ Ended \/ UNCHANGED vars
  BY DEF Next, Updater, Simple
<1> QED BY <1>1, <1>2, <1>3, EvaluateInv, TakesInv, UnwindsInv, PackageExtractInv, ExtractInv, RebootInv,
           FinishInv, RestartInv

LEMMA InitIInv == ASSUME Init PROVE IInv
  BY DEF Init, IInv, Null_Message, Null_Job, Started, Rebooting, Verdict

(* Every evaluation of every script keeps IInv.                              *)
THEOREM Invariance == Spec => []IInv
<1>1. Init => IInv
  BY InitIInv
<1>2. IInv /\ [Next]_vars => IInv'
  BY NextIInv
<1> QED BY <1>1, <1>2, PTL DEF Spec

(* For every script: once a function has given up with a message, no         *)
(* function of the script touches the volume, a partition or the bootloader  *)
(* message any more, until main ends or the power is lost (expr.cpp, every   *)
(* operator returns nullptr when an argument does).                          *)
THEOREM AbortStopsTheScript == Spec => NothingAfterAbort
<1>1. ASSUME IInv, [Next]_vars, errmsg # <<>>, pc = "eval", pc' # "off"
      PROVE  UNCHANGED <<disk, ram, mounted, part, bcb, job>>
  <2>1. ret = Null /\ ret # Idle /\ job = <<>>
    BY <1>1, UpdaterAssumption DEF IInv, Null_Message, Null_Job
  <2>2. ~Simple /\ ~PackageExtractFileFn /\ ~PackageExtractDirFn /\ ~RebootNowFn
    BY <2>1, SimpleReturns, CallCalled
    DEF Called, PackageExtractFileFn, PackageExtractDirFn, RebootNowFn
  <2>3. ~Evaluate /\ ~Takes /\ ~ExtractOpen /\ ~ExtractWrite /\ ~RebootFails /\ ~Boot /\ ~InitReboots
    BY <1>1, <2>1 DEF Evaluate, Takes, ExtractOpen, ExtractWrite, RebootFails, Boot, InitReboots
  <2>4. ~PowerLoss
    BY <1>1 DEF PowerLoss
  <2>5. Unwinds \/ Finish \/ Ended \/ UNCHANGED vars
    BY <1>1, <2>2, <2>3, <2>4 DEF Next, Updater, Simple
  <2>6. CASE Unwinds
    BY <2>6 DEF Unwinds, volume, misc, Quiet
  <2>7. CASE Finish
    BY <2>1, <2>7 DEF Finish, volume
  <2>8. CASE Ended \/ UNCHANGED vars
    BY <2>8 DEF Ended, vars, volume, misc
  <2> QED BY <2>5, <2>6, <2>7, <2>8
<1>2. IInv /\ [Next]_vars
      => [errmsg # <<>> /\ pc = "eval" /\ pc' # "off" => UNCHANGED <<disk, ram, mounted, part, bcb, job>>]_vars
  BY <1>1
<1> QED BY <1>2, Invariance, PTL DEF Spec, NothingAfterAbort

(* For every script: an install in which a function has given up with a      *)
(* message is never reported as a success (updater.cpp, main).               *)
THEOREM AbortIsFailure == Spec => [](pc = "done" => errmsg = <<>>)
<1>1. IInv => (pc = "done" => errmsg = <<>>)
  BY DEF IInv, Verdict
<1> QED BY <1>1, Invariance, PTL

-----------------------------------------------------------------------------
(* NewDataThread: the two threads.                                           *)

(* How far the stream has been read, as seen by the main thread.            *)
Position ==
  /\ main = "cmd" => ~writer /\ pos = Start[k]
  /\ main = "wait" => k <= Len(Sizes)
  /\ main = "wait" /\ writer => pos + wanted = Start[k + 1]
  /\ main = "wait" /\ ~writer => pos = Start[k + 1]
  /\ rc = "t" => pos = Start[Len(Sizes) + 1]

(* Who may be where: the receiver is available as long as both threads are  *)
(* in business, so that neither leaves the other alone with the writer.     *)
Places ==
  /\ main \in {"cmd", "wait"} <=> rc = "running"
  /\ bg # "dead" /\ main \in {"cmd", "wait", "done"} => receiver_available
  /\ writer /\ bg # "dead" => main = "wait"
  /\ bg \in {"write", "clear"} => writer
  /\ bg = "clear" => wanted = 0

ThreadIInv == ThreadTypeOK /\ Position /\ Places

LEMMA SizesFacts ==
  /\ Len(Sizes) \in Nat
  /\ \A j \in 1..(Len(Sizes) + 1) : Start[j] \in Nat
  /\ \A j \in 1..Len(Sizes) :
       Sizes[j] \in Nat \ {0} /\ Start[j + 1] = Start[j] + Sizes[j]
  BY SizesAssumption

LEMMA ThreadInitIInv == ThreadInit => ThreadIInv
  <1> SUFFICES ASSUME ThreadInit PROVE ThreadIInv
    OBVIOUS
  <1> USE SizesAssumption, StreamAssumption, SizesFacts DEF ThreadInit
  <1>1. ThreadType /\ CountType /\ sleeping \subseteq {"main", "bg"}
    BY DEF ThreadType, CountType
  <1>2. FlagType
    BY DEF FlagType
  <1>3. Position /\ Places
    BY DEF Position, Places
  <1> QED BY <1>1, <1>2, <1>3 DEF ThreadIInv, ThreadTypeOK

USE DEF ThreadTypeOK

LEMMA MainIInv ==
  ASSUME ThreadIInv, Main \/ OtherCommandFails
  PROVE  ThreadIInv'
  <1> USE SizesFacts DEF ThreadIInv
  <1>1. CASE PerformCommandNew
    <2> USE <1>1 DEF PerformCommandNew
    <2>1. ThreadType' /\ CountType' /\ FlagType'
      BY DEF ThreadType, CountType, FlagType
    <2>2. sleeping' \subseteq {"main", "bg"}
      OBVIOUS
    <2>3. Position' /\ Places'
      BY DEF ThreadType, CountType, Position, Places
    <2> QED BY <2>1, <2>2, <2>3
  <1>2. CASE NewWakes
    <2> USE <1>2 DEF NewWakes
    <2>1. ThreadType' /\ CountType'
      BY DEF ThreadType, CountType, Position
    <2>2. FlagType' /\ sleeping' \subseteq {"main", "bg"}
      BY DEF FlagType
    <2>3. Position'
      BY DEF CountType, Position, Places
    <2>4. Places'
      BY DEF ThreadType, Places
    <2> QED BY <2>1, <2>2, <2>3, <2>4
  <1>3. CASE OtherCommandFails
    BY <1>3 DEF OtherCommandFails, ThreadType, CountType, FlagType, Position, Places, shared
  <1>4. CASE LastCommandDone
    BY <1>4 DEF LastCommandDone, ThreadType, CountType, FlagType, Position, Places, shared
  <1>5. CASE StopReceiver
    BY <1>5 DEF StopReceiver, ThreadType, CountType, FlagType, Position, Places
  <1>6. CASE Join
    BY <1>6 DEF Join, ThreadType, CountType, FlagType, Position, Places, shared
  <1> QED BY <1>1, <1>2, <1>3, <1>4, <1>5, <1>6 DEF Main

LEMMA BackgroundIInv ==
  ASSUME ThreadIInv, Background
  PROVE  ThreadIInv'
  <1> USE SizesFacts, StreamAssumption DEF ThreadIInv
  <1>1. CASE NextChunk
    <2> USE <1>1 DEF NextChunk, shared
    <2>1. chunk' \in Nat
      BY DEF Smaller, CountType
    <2>2. ThreadType' /\ CountType' /\ sleeping' \subseteq {"main", "bg"}
      BY <2>1 DEF ThreadType, CountType
    <2>3. FlagType'
      BY DEF FlagType
    <2>4. Position' /\ Places'
      BY DEF Position, Places
    <2> QED BY <2>2, <2>3, <2>4
  <1>2. CASE StreamEnds
    BY <1>2 DEF StreamEnds, ThreadType, CountType, FlagType, Position, Places, shared
  <1>3. CASE AwaitWriter
    <2> USE <1>3 DEF AwaitWriter
    <2>1. ThreadType' /\ CountType' /\ Position'
      BY DEF ThreadType, CountType, Position
    <2>2. FlagType' /\ sleeping' \subseteq {"main", "bg"}
      BY DEF FlagType
    <2>3. Places'
      BY DEF Places
    <2> QED BY <2>1, <2>2, <2>3
  <1>4. CASE Write
    <2> USE <1>4 DEF Write, Smaller, AfterWrite
    <2>1. ThreadType' /\ CountType' /\ FlagType'
      BY DEF ThreadType, CountType, FlagType
    <2>2. Position'
      BY DEF CountType, Position, Places
    <2>3. Places'
      BY DEF CountType, Places
    <2> QED BY <2>1, <2>2, <2>3
  <1>5. CASE WriteFails
    BY <1>5 DEF WriteFails, ThreadType, CountType, FlagType, Position, Places, shared
  <1>6. CASE ClearWriter
    <2> USE <1>6 DEF ClearWriter, AfterWrite
    <2>1. ThreadType' /\ CountType' /\ FlagType'
      BY DEF ThreadType, CountType, FlagType
    <2>2. Position' /\ Places'
      BY DEF CountType, Position, Places
    <2> QED BY <2>1, <2>2
  <1>7. CASE ReceiverExits
    <2> USE <1>7 DEF ReceiverExits
    <2>1. ThreadType' /\ CountType' /\ FlagType'
      BY DEF ThreadType, CountType, FlagType
    <2>2. sleeping' \subseteq {"main", "bg"}
      OBVIOUS
    <2>3. Position' /\ Places'
      BY DEF Position, Places
    <2> QED BY <2>1, <2>2, <2>3
  <1> QED BY <1>1, <1>2, <1>3, <1>4, <1>5, <1>6, <1>7 DEF Background

LEMMA ThreadNextIInv == ThreadIInv /\ [ThreadNext]_threadVars => ThreadIInv'
  <1> SUFFICES ASSUME ThreadIInv, [ThreadNext]_threadVars PROVE ThreadIInv'
    OBVIOUS
  <1>1. CASE SpuriousWakeup
    <2> USE <1>1 DEF SpuriousWakeup, ThreadIInv
    <2>1. sleeping' \subseteq {"main", "bg"}
      OBVIOUS
    <2> QED BY <2>1 DEF ThreadType, CountType, FlagType, Position, Places
  <1>2. CASE Terminated \/ UNCHANGED threadVars
    <2> USE <1>2 DEF Terminated, threadVars, shared, ThreadIInv
    <2>1. ThreadType' /\ sleeping' \subseteq {"main", "bg"}
      BY DEF ThreadType
    <2>2. CountType' /\ FlagType'
      BY DEF CountType, FlagType
    <2>3. Position' /\ Places'
      BY DEF Position, Places
    <2> QED BY <2>1, <2>2, <2>3
  <1> QED BY <1>1, <1>2, MainIInv, BackgroundIInv DEF ThreadNext

LEMMA ThreadInvariance == ThreadSpec => []ThreadIInv
  BY ThreadInitIInv, ThreadNextIInv, PTL DEF ThreadSpec

(* Every variable keeps its type.                                           *)
THEOREM ThreadTypeCorrect == ThreadSpec => []ThreadTypeOK
  <1>1. ThreadIInv => ThreadTypeOK
    BY DEF ThreadIInv
  <1> QED BY <1>1, ThreadInvariance, PTL

(* Each "new" command starts with the stream exactly at its own data.       *)
THEOREM StreamInOrder == ThreadSpec => []DataInOrder
  <1>1. ThreadIInv => DataInOrder
    BY DEF ThreadIInv, Position, DataInOrder
  <1> QED BY <1>1, ThreadInvariance, PTL

(* The background thread never uses a writer whose command has returned.    *)
THEOREM NoStaleWriter == ThreadSpec => []WriterInUseOnlyWhileMainWaits
  <1>1. ThreadIInv => WriterInUseOnlyWhileMainWaits
    BY DEF ThreadIInv, Places, WriterInUseOnlyWhileMainWaits
  <1> QED BY <1>1, ThreadInvariance, PTL

(* A successful update has written the data of all "new" commands.          *)
THEOREM SuccessIsComplete == ThreadSpec => []SuccessMeansAllWritten
  <1>1. ThreadIInv => SuccessMeansAllWritten
    BY DEF ThreadIInv, Position, SuccessMeansAllWritten
  <1> QED BY <1>1, ThreadInvariance, PTL

-----------------------------------------------------------------------------
(* The threads keep the promise made to the "new" commands.                 *)
Served == IF main = "wait" /\ ~writer THEN k ELSE k - 1

LEMMA PromiseInit == ThreadInit => Promise!Init
  BY DEF ThreadInit, Promise!Init

LEMMA PromiseStep ==
  ASSUME ThreadIInv, [ThreadNext]_threadVars
  PROVE  [Promise!Next]_<<Served, rc>>
  <1> USE SizesFacts DEF ThreadIInv, Served
  <1>1. CASE ClearWriter
    <2>1. Promise!Serve
      BY <1>1 DEF ClearWriter, Promise!Serve, CountType, Position, Places
    <2> QED BY <2>1 DEF Promise!Next
  <1>2. CASE LastCommandDone
    <2>1. Promise!Succeed
      BY <1>2 DEF LastCommandDone, Promise!Succeed, CountType, Position, Places, shared
    <2> QED BY <2>1 DEF Promise!Next
  <1>3. CASE PerformCommandNew \/ NewWakes \/ OtherCommandFails
    <2>1. Promise!Fail \/ UNCHANGED <<Served, rc>>
      BY <1>3 DEF PerformCommandNew, NewWakes, OtherCommandFails, Promise!Fail, CountType, Position,
                  Places, shared
    <2> QED BY <2>1 DEF Promise!Next
  <1>4. CASE StopReceiver \/ Join
    BY <1>4 DEF StopReceiver, Join, shared
  <1>5. CASE NextChunk \/ StreamEnds \/ AwaitWriter \/ Write \/ WriteFails \/ ReceiverExits
    BY <1>5 DEF NextChunk, StreamEnds, AwaitWriter, Write, WriteFails, ReceiverExits, shared
  <1>6. CASE SpuriousWakeup \/ Terminated \/ UNCHANGED threadVars
    BY <1>6 DEF SpuriousWakeup, Terminated, threadVars, shared
  <1> QED BY <1>1, <1>2, <1>3, <1>4, <1>5, <1>6 DEF ThreadNext, Main, Background

(* Refinement: every behaviour of the two threads is one NewData allows.    *)
THEOREM ThreadsImplementNewData == ThreadSpec => ImplementsNewData
  <1>1. ThreadIInv /\ [ThreadNext]_threadVars => [Promise!Next]_<<Served, rc>>
    BY PromiseStep
  <1> QED BY <1>1, PromiseInit, ThreadInvariance, PTL
          DEF ThreadSpec, ImplementsNewData, Promise!Spec, Served

=============================================================================
