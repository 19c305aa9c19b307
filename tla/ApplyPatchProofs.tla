--------------------------- MODULE ApplyPatchProofs ---------------------------
(***************************************************************************)
(* What apply_patch and a flash leave on the medium, for every script, all *)
(* images and any number of power losses and errors.                       *)
(***************************************************************************)
EXTENDS ApplyPatch, SequenceTheorems, WellFoundedInduction, TLAPS

(* A disk begins with these contents, cell by cell.                          *)
Has(d, p, c) == \A i \in 1..Len(c) : d[p][i] = c[i]
OnBoth(p) == Has(device, p, Target[p]) /\ Has(platter, p, Target[p])
Fresh(p)  == Has(device, p, Source[p]) /\ Has(platter, p, Source[p])


LEMMA Images ==
  ASSUME NEW p \in Parts
  PROVE  /\ Source[p] \in Seq(Pieces) /\ Target[p] \in Seq(Pieces) /\ Device[p] \in Seq(Pieces)
         /\ Source[p] \in Contents /\ Target[p] \in Contents
         /\ Source[p] # None /\ Target[p] # None
         /\ Len(Device[p]) \in Nat /\ DOMAIN Device[p] = 1..Len(Device[p])
         /\ Len(Source[p]) \in 1..Len(Device[p]) /\ Len(Target[p]) \in 1..Len(Device[p])
<1>1. /\ Source[p] \in Seq(Pieces) /\ Target[p] \in Seq(Pieces) /\ Device[p] \in Seq(Pieces)
      /\ Len(Source[p]) \in 1..Len(Device[p]) /\ Len(Target[p]) \in 1..Len(Device[p])
  BY PartAssumption
<1>2. Source[p] \in Contents /\ Target[p] \in Contents
  BY DEF Contents
<1> QED BY <1>1, <1>2, PartAssumption

LEMMA HoldsCells ==
  ASSUME NEW d, IsDisk(d), NEW p \in Parts, NEW c \in {Source[p], Target[p]}
  PROVE  /\ Len(c) \in Nat /\ Len(c) <= Len(d[p])
         /\ Holds(d, p, c) <=> Has(d, p, c)
<1>1. /\ d[p] \in Seq(Pieces) /\ c \in Seq(Pieces) /\ Len(c) \in Nat /\ Len(c) <= Len(d[p])
      /\ Len(d[p]) \in Nat
  BY Images DEF IsDisk
<1> DEFINE t == SubSeq(d[p], 1, Len(c))
<1>2. t \in Seq(Pieces) /\ Len(t) = Len(c) /\ \A i \in 1..Len(c) : t[i] = d[p][i]
  BY <1>1
<1>3. t = c <=> \A i \in 1..Len(c) : t[i] = c[i]
  <2> HIDE DEF t
  <2>1. ASSUME \A i \in 1..Len(c) : t[i] = c[i] PROVE t = c
    <3>1. \A i \in 1..Len(t) : t[i] = c[i]
      BY <1>2, <2>1
    <3> QED BY <1>1, <1>2, <3>1, SeqEqual, Zenon
  <2> QED BY <2>1
<1> QED BY <1>1, <1>2, <1>3 DEF Holds, Has

(* What LoadPartitionContents finds with one name.                           *)
LEMMA LoadOne ==
  ASSUME NEW d, IsDisk(d), NEW p \in Parts, NEW c \in {Source[p], Target[p]}
  PROVE  Load(d, p, {c}) = IF Has(d, p, c) THEN c ELSE None
<1> DEFINE found == {e \in {c} : Len(e) <= Len(d[p]) /\ SubSeq(d[p], 1, Len(e)) = e}
<1>1. Len(c) \in Nat /\ Len(c) <= Len(d[p]) /\ (SubSeq(d[p], 1, Len(c)) = c <=> Has(d, p, c))
  BY HoldsCells DEF Holds
<1>2. CASE Has(d, p, c)
  <2>1. found = {c}
    BY <1>1, <1>2
  <2>2. (CHOOSE e \in {c} : \A g \in {c} : Len(e) <= Len(g)) = c
    BY <1>1
  <2> QED BY <1>2, <2>1, <2>2 DEF Load
<1>3. CASE ~Has(d, p, c)
  <2>1. found = {}
    BY <1>1, <1>3
  <2> QED BY <1>3, <2>1 DEF Load
<1> QED BY <1>2, <1>3

(* What it finds with the names of both ends of a patch in place.            *)
LEMMA LoadTwo ==
  ASSUME NEW d, IsDisk(d), NEW p \in Parts
  PROVE  LET r == Load(d, p, {Source[p], Target[p]})
         IN  \/ r = None /\ ~Has(d, p, Source[p]) /\ ~Has(d, p, Target[p])
             \/ /\ r \in {Source[p], Target[p]} /\ Has(d, p, r)
                /\ Has(d, p, Target[p]) => Len(r) <= Len(Target[p])
<1> DEFINE names == {Source[p], Target[p]}
           found == {e \in names : Len(e) <= Len(d[p]) /\ SubSeq(d[p], 1, Len(e)) = e}
           r == Load(d, p, names)
<1>1. \A c \in names : Len(c) \in Nat /\ Len(c) <= Len(d[p]) /\ (SubSeq(d[p], 1, Len(c)) = c <=> Has(d, p, c))
  BY HoldsCells DEF Holds
<1>2. found = {e \in names : Has(d, p, e)}
  BY <1>1
<1>3. r = IF found = {} THEN None ELSE CHOOSE c \in found : \A e \in found : Len(c) <= Len(e)
  BY DEF Load
<1> HIDE DEF r, found
<1>4. CASE found = {}
  BY <1>2, <1>3, <1>4 DEF r
<1>5. CASE found # {}
  <2>1. \E c \in found : \A e \in found : Len(c) <= Len(e)
    <3>1. CASE found = {Source[p]} \/ found = {Target[p]}
      BY <1>1, <3>1
    <3>2. CASE found = {Source[p], Target[p]}
      BY <1>1, <3>2
    <3> QED BY <1>2, <1>5, <3>1, <3>2
  <2>2. r \in found /\ \A e \in found : Len(r) <= Len(e)
    BY <1>3, <1>5, <2>1
  <2> QED BY <1>2, <2>2 DEF r
<1> QED BY <1>4, <1>5

LEMMA LeastNumber ==
  ASSUME NEW S \in SUBSET Nat, S # {}
  PROVE  Min(S) \in S /\ \A y \in S : Min(S) <= y
<1> DEFINE R == OpToRel(<, Nat)
<1>1. \E x \in S : \A y \in S : ~(<<y, x>> \in R)
  BY NatLessThanWellFounded, WFMin
<1>2. \A x \in S, y \in S : <<y, x>> \in R <=> y < x
  BY DEF OpToRel
<1> HIDE DEF R
<1>3. \E x \in S : \A y \in S : x <= y
  <2>1. PICK x \in S : \A y \in S : ~(<<y, x>> \in R)
    BY <1>1
  <2>2. \A y \in S : ~(y < x)
    BY <1>2, <2>1
  <2>3. \A y \in S : x \in Nat /\ y \in Nat
    OBVIOUS
  <2>4. \A y \in S : x <= y
    BY <2>2, <2>3
  <2> QED BY <2>4
<1> QED BY <1>3 DEF Min

LEMMA PrefixCells ==
  ASSUME NEW p \in Parts, NEW q \in Parts,
         NEW c \in {Source[p], Target[p]}, NEW e \in {Source[q], Target[q], Device[q]}
  PROVE  IsPrefix(c, e) <=> Len(c) <= Len(e) /\ \A i \in 1..Len(c) : e[i] = c[i]
<1>1. c \in Seq(Pieces) /\ e \in Seq(Pieces) /\ Len(c) \in Nat /\ Len(e) \in Nat
  BY Images
<1> SUFFICES ASSUME Len(c) <= Len(e)
             PROVE  SubSeq(c, 1, Len(c)) = SubSeq(e, 1, Len(c)) <=> \A i \in 1..Len(c) : e[i] = c[i]
  BY DEF IsPrefix
<1> DEFINE a == SubSeq(c, 1, Len(c))
           b == SubSeq(e, 1, Len(c))
<1>2. /\ a \in Seq(Pieces) /\ Len(a) = Len(c) /\ \A i \in 1..Len(c) : a[i] = c[i]
      /\ b \in Seq(Pieces) /\ Len(b) = Len(c) /\ \A i \in 1..Len(c) : b[i] = e[i]
  BY <1>1
<1>3. a = b <=> \A i \in 1..Len(c) : a[i] = b[i]
  <2> HIDE DEF a, b
  <2>1. ASSUME \A i \in 1..Len(c) : a[i] = b[i] PROVE a = b
    <3>1. \A i \in 1..Len(a) : a[i] = b[i]
      BY <1>2, <2>1
    <3> QED BY <1>2, <3>1, SeqEqual, Zenon
  <2> QED BY <2>1
<1> QED BY <1>2, <1>3

(* A call is a call.                                                         *)
LEMMA CallType ==
  ASSUME NEW i \in DOMAIN Script
  PROVE  /\ Script[i].src \in Parts /\ Script[i].tgt \in Parts /\ Script[i].bytes \in Nat
         /\ i \in Nat \ {0} /\ i <= Len(Script) /\ Len(Script) \in Nat
         /\ i \in Patches <=> Script[i].op = "patch"
         /\ i \in Writes <=> Script[i].op \in {"patch", "flash"}
         /\ Script[i].sha1 \subseteq Contents
<1>1. Script[i] \in Calls /\ i \in Nat \ {0} /\ i <= Len(Script) /\ Len(Script) \in Nat
  BY PartAssumption
<1> QED BY <1>1 DEF Calls, Patches, Writes

(* A patch finds its target when the target is there, and takes the source   *)
(* for the source when it is there.                                          *)
LEMMA LoadSees ==
  ASSUME TypeOK, line \in Patches
  PROVE  LET t == Load(device, tgt, TargetName)
             s == Load(device, src, SourceName)
         IN  /\ t = Target[tgt] <=> Has(device, tgt, Target[tgt])
             /\ src = tgt => s = t
             /\ Found(s) => Has(device, src, Source[src])
<1> DEFINE t == Load(device, tgt, TargetName)
           s == Load(device, src, SourceName)
<1>1. line \in DOMAIN Script /\ src \in Parts /\ tgt \in Parts /\ IsDisk(device)
  BY CallType DEF Patches, src, tgt, Call, TypeOK
<1>2. CASE src # tgt
  <2>1. t = IF Has(device, tgt, Target[tgt]) THEN Target[tgt] ELSE None
    BY <1>1, <1>2, LoadOne DEF TargetName
  <2>2. SourceName = {Source[src]}
    BY <1>2 DEF SourceName, SourceNameOf, src, tgt
  <2>3. s = IF Has(device, src, Source[src]) THEN Source[src] ELSE None
    BY <1>1, <2>2, LoadOne
  <2> HIDE DEF t, s
  <2> QED BY <1>1, <1>2, <2>1, <2>3, Images DEF t, s, Found
<1>3. CASE src = tgt
  <2>1. SourceName = {Source[tgt], Target[tgt]} /\ TargetName = {Source[tgt], Target[tgt]}
    BY <1>3 DEF SourceName, SourceNameOf, TargetName, src, tgt
  <2>2. \/ t = None /\ ~Has(device, tgt, Source[tgt]) /\ ~Has(device, tgt, Target[tgt])
        \/ /\ t \in {Source[tgt], Target[tgt]} /\ Has(device, tgt, t)
           /\ Has(device, tgt, Target[tgt]) => Len(t) <= Len(Target[tgt])
    BY <1>1, <2>1, LoadTwo
  <2>3. s = t
    BY <1>3, <2>1
  <2> HIDE DEF t, s
  <2>4. ASSUME t = Source[tgt], Has(device, tgt, Target[tgt]) PROVE t = Target[tgt]
    <3>1. Len(t) \in Nat /\ Len(t) <= Len(Target[tgt]) /\ Len(Target[tgt]) \in Nat
      BY <1>1, <2>2, <2>4, Images
    <3>2. \A i \in 1..Len(t) : Target[tgt][i] = t[i]
      BY <1>1, <2>2, <2>4, <3>1, Images DEF Has
    <3>3. IsPrefix(Source[tgt], Target[tgt])
      BY <1>1, <2>4, <3>1, <3>2, PrefixCells
    <3> QED BY <1>1, <1>3, <2>4, <3>3, ImageAssumption DEF src, tgt, Call
  <2>5. t = Target[tgt] <=> Has(device, tgt, Target[tgt])
    BY <1>1, <2>2, <2>4, Images
  <2>6. Found(s) => Has(device, src, Source[src])
    BY <1>1, <1>3, <2>2, <2>3, Images DEF Found
  <2> QED BY <2>3, <2>5, <2>6 DEF t, s
<1> QED BY <1>2, <1>3

Loaded   == {"room", "open", "save", "apply"}
Writing  == {"write", "verify", "unlink"}

(* What is in memory at each step of a call.                                 *)
InMemory ==
  /\ pc \notin Writing => start = 0
  /\ pc \in {"load"} \cup Loaded \cup Writing => line \in Writes
  /\ pc \in Loaded => line \in Patches /\ data = Source[src]
  /\ pc \in Writing => data = Target[tgt]
  /\ pc = "write" => \A i \in 1..start : device[tgt][i] = data[i]

(* Only pieces of the target wait in the page cache, and a partition is not  *)
(* written when its target is seen on it.                                    *)
OnMedium ==
  /\ \A p \in Parts : \A i \in DOMAIN Device[p] :
       device[p][i] # platter[p][i] => i <= Len(Target[p]) /\ device[p][i] = Target[p][i]
  /\ pc \in Loaded => tgt \in blind \/ ~Has(device, tgt, Target[tgt])
  /\ pc \in Loaded \cup {"write"} => tgt \in blind \/ ~Has(platter, tgt, Target[tgt])
  /\ pc \in {"verify", "unlink"} => platter = device
  /\ pc = "unlink" => Has(device, tgt, Target[tgt])
  /\ \A p \in applied \ blind : OnBoth(p)

IInv == TypeOK /\ InMemory /\ OnMedium

-----------------------------------------------------------------------------
LEMMA Here ==
  ASSUME IInv, pc \in {"load"} \cup Loaded \cup Writing
  PROVE  /\ line \in DOMAIN Script /\ line \in Writes /\ src \in Parts /\ tgt \in Parts
         /\ line \in Nat /\ line <= Len(Script) /\ Len(Script) \in Nat
BY CallType DEF IInv, InMemory, Writes, src, tgt, Call

LEMMA Counts == TypeOK /\ Fails => errors' \in 0..MaxErrors
BY PartAssumption DEF TypeOK, Fails

(* The three parts of TypeOK that a step can leave alone.                    *)
ControlOK ==
  /\ pc \in {"next", "load", "room", "open", "save", "apply", "write", "verify", "unlink",
             "boot", "done", "failed"}
  /\ line \in 1..(Len(Script) + 1)
  /\ data \in Contents \cup {<<>>} /\ start \in 0..Len(data) /\ attempt \in 0..1
  /\ copy \in BOOLEAN
DisksOK == IsDisk(device) /\ IsDisk(platter)
CacheOK ==
  /\ saved \in Contents \cup {<<>>, None} /\ undo \in Contents \cup {<<>>, None}
  /\ deleted \subseteq DOMAIN Files
NotesOK ==
  /\ applied \subseteq Parts /\ blind \subseteq Parts
  /\ cut \in BOOLEAN /\ is_retry \in BOOLEAN
  /\ losses \in 0..MaxLosses /\ errors \in 0..MaxErrors

LEMMA TypeParts == TypeOK' <=> ControlOK' /\ DisksOK' /\ CacheOK' /\ NotesOK'
BY DEF TypeOK, ControlOK, DisksOK, CacheOK, NotesOK

LEMMA ReturnControl ==
  ASSUME TypeOK, line <= Len(Script), NEW ok, Return(ok)
  PROVE  ControlOK' /\ pc' \in {"next", "failed"} /\ start' = 0
<1>1. pc' \in {"next", "failed"} /\ line' \in {line, line + 1}
  BY DEF Return, Goto
<1>2. data' = <<>> /\ start' = 0 /\ attempt' = 0 /\ copy' = FALSE
  BY DEF Return, Forget
<1>3. line' \in 1..(Len(Script) + 1)
  BY <1>1, PartAssumption DEF TypeOK
<1>4. data' \in Contents \cup {<<>>} /\ Len(data') = 0
  BY <1>2
<1>5. start' \in 0..Len(data') /\ attempt' \in 0..1
  BY <1>2, <1>4
<1>6. copy' \in BOOLEAN
  BY <1>2
<1> QED BY <1>1, <1>2, <1>3, <1>4, <1>5, <1>6 DEF ControlOK

(* Steps that neither write nor note anything, and hold no data.             *)
LEMMA IdleStep ==
  ASSUME IInv, UNCHANGED <<disks, applied>>, blind \subseteq blind', start' = 0,
         pc' \notin Loaded \cup Writing, pc' = "load" => line' \in Writes
  PROVE  InMemory' /\ OnMedium'
<1>1. InMemory'
  BY DEF InMemory, Loaded, Writing
<1>2. OnMedium'
  BY DEF IInv, OnMedium, Loaded, Writing, disks, OnBoth, Has
<1> QED BY <1>1, <1>2

LEMMA DeletesFiles ==
  ASSUME NEW file, NEW gone, NEW n PROVE Deletes(file, gone, n) \subseteq DOMAIN Files \ OpenFiles
<1> DEFINE files == FindExpendableFiles(gone)
<1>1. files \subseteq DOMAIN Files \ OpenFiles /\ files \in SUBSET Nat
  BY PartAssumption DEF FindExpendableFiles
<1>2. files # {} => Min(files) \in DOMAIN Files \ OpenFiles
  BY <1>1, LeastNumber
<1>3. Deletes(file, gone, n) \in {{}, {Min(files)}, files} /\ (files = {} => Deletes(file, gone, n) = {})
  BY DEF Deletes
<1> QED BY <1>1, <1>2, <1>3

LEMMA FreeSpaceCache ==
  ASSUME NEW n, TypeOK, MakeFreeSpace(n) PROVE CacheOK'
BY DeletesFiles DEF MakeFreeSpace, TypeOK, CacheOK

LEMMA CheckStep == IInv /\ ApplypatchCheck => IInv'
<1> SUFFICES ASSUME IInv, ApplypatchCheck PROVE IInv'
  OBVIOUS
<1>1. /\ TypeOK /\ line <= Len(Script) /\ UNCHANGED <<disks, cache, notes, is_retry, losses>>
      /\ errors' \in 0..MaxErrors
  BY Counts DEF IInv, ApplypatchCheck, TypeOK
<1>2. ControlOK' /\ pc' \in {"next", "failed"} /\ start' = 0
  BY <1>1, ReturnControl DEF ApplypatchCheck
<1>3. DisksOK' /\ CacheOK' /\ NotesOK'
  BY <1>1 DEF TypeOK, DisksOK, CacheOK, NotesOK, disks, cache, notes, IsDisk
<1>4. InMemory' /\ OnMedium'
  BY <1>1, <1>2, IdleStep DEF notes, Loaded, Writing
<1> QED BY <1>2, <1>3, <1>4, TypeParts DEF IInv

LEMMA SpaceStep == IInv /\ ApplyPatchSpace => IInv'
<1> SUFFICES ASSUME IInv, ApplyPatchSpace PROVE IInv'
  OBVIOUS
<1>1. TypeOK /\ line <= Len(Script) /\ UNCHANGED <<disks, notes, is_retry, losses, errors>>
  BY DEF IInv, ApplyPatchSpace
<1>2. ControlOK' /\ pc' \in {"next", "failed"} /\ start' = 0
  BY <1>1, ReturnControl DEF ApplyPatchSpace
<1>3. CacheOK'
  <2>1. CASE UNCHANGED cache
    BY <1>1, <2>1 DEF TypeOK, CacheOK, cache
  <2>2. CASE MakeFreeSpace(Call.bytes)
    BY <1>1, <2>2, FreeSpaceCache
  <2> QED BY <2>1, <2>2 DEF ApplyPatchSpace
<1>4. DisksOK' /\ NotesOK'
  BY <1>1 DEF TypeOK, DisksOK, NotesOK, disks, notes, IsDisk
<1>5. InMemory' /\ OnMedium'
  BY <1>1, <1>2, IdleStep DEF notes, Loaded, Writing
<1> QED BY <1>2, <1>3, <1>4, <1>5, TypeParts DEF IInv

LEMMA RestingStep == IInv /\ (Begin \/ ScriptEnds \/ Restart \/ Rest \/ UNCHANGED vars) => IInv'
<1> SUFFICES ASSUME IInv, Begin \/ ScriptEnds \/ Restart \/ Rest \/ UNCHANGED vars PROVE IInv'
  OBVIOUS
<1>1. CASE Begin \/ ScriptEnds \/ Restart
  <2>1. /\ TypeOK /\ UNCHANGED <<memory, disks, cache, notes, losses, errors>>
        /\ pc \in {"next", "boot", "failed"} /\ pc' \in {"next", "load", "done"} /\ line' \in {line, 1}
    BY <1>1 DEF IInv, Begin, ScriptEnds, Restart, Goto
  <2>2. is_retry' \in BOOLEAN
    BY <1>1 DEF IInv, TypeOK, Begin, ScriptEnds, Restart
  <2>3. line' \in 1..(Len(Script) + 1)
    BY <2>1, PartAssumption DEF TypeOK
  <2>4. ControlOK'
    BY <2>1, <2>3 DEF TypeOK, ControlOK, memory
  <2>5. DisksOK' /\ CacheOK'
    BY <2>1 DEF TypeOK, DisksOK, CacheOK, disks, cache, IsDisk
  <2>6. NotesOK'
    BY <2>1, <2>2 DEF TypeOK, NotesOK, notes
  <2>7. start' = 0
    BY <2>1 DEF IInv, InMemory, memory, Writing
  <2>8. pc' = "load" => line' \in Writes
    <3> SUFFICES ASSUME pc' = "load" PROVE line' \in Writes
      OBVIOUS
    <3>1. Begin
      BY <1>1 DEF ScriptEnds, Restart, Goto
    <3>2. line' = line /\ line \in DOMAIN Script
      BY <2>1, <3>1, PartAssumption DEF Begin, Goto, TypeOK
    <3> QED BY <3>1, <3>2 DEF Begin, Call, Writes
  <2>9. InMemory' /\ OnMedium'
    BY <2>1, <2>7, <2>8, IdleStep DEF notes, Loaded, Writing
  <2> QED BY <2>4, <2>5, <2>6, <2>9, TypeParts DEF IInv
<1>2. CASE Rest \/ UNCHANGED vars
  <2>1. UNCHANGED vars
    BY <1>2 DEF Rest
  <2>2. UNCHANGED <<pc, line, data, copy, start, attempt, device, platter, saved, undo, deleted,
                    applied, blind, cut, is_retry, losses, errors>>
    BY <2>1 DEF vars, memory, disks, cache, notes
  <2>3. TypeOK'
    BY <2>2 DEF IInv, TypeOK, IsDisk
  <2>4. InMemory'
    BY <2>2 DEF IInv, InMemory, src, tgt, Call
  <2>5. OnMedium'
    BY <2>2 DEF IInv, OnMedium, tgt, Call, OnBoth, Has
  <2> QED BY <2>3, <2>4, <2>5 DEF IInv
<1> QED BY <1>1, <1>2

(* The early exit notes what it has seen.                                    *)
LEMMA AlreadyStep ==
  ASSUME IInv, tgt \in Parts, Has(device, tgt, Target[tgt]), Already, UNCHANGED disks
  PROVE  /\ applied' \subseteq Parts /\ blind' \subseteq Parts
         /\ \A p \in applied' \ blind' : OnBoth(p)'
<1>1. applied' \subseteq Parts /\ blind' \subseteq Parts
  BY DEF Already, IInv, TypeOK
<1>2. ASSUME NEW p \in applied' \ blind' PROVE OnBoth(p)
  <2>1. CASE p \in applied /\ p \notin blind
    BY <2>1 DEF IInv, OnMedium
  <2>2. CASE p = tgt /\ tgt \notin blind'
    <3>1. Load(platter, tgt, {Target[tgt]}) # None
      BY <2>2 DEF Already
    <3>2. Has(platter, tgt, Target[tgt])
      BY <3>1, LoadOne DEF IInv, TypeOK
    <3> QED BY <2>2, <3>2 DEF OnBoth
  <2> QED BY <1>2, <2>1, <2>2 DEF Already
<1>3. \A p : OnBoth(p)' <=> OnBoth(p)
  BY DEF OnBoth, Has, disks
<1> QED BY <1>1, <1>2, <1>3

LEMMA NotedStep ==
  ASSUME IInv, tgt \in Parts, line <= Len(Script), Has(device, tgt, Target[tgt]), Already,
         Return(TRUE), UNCHANGED <<disks, cache, cut, is_retry, losses>>, errors' \in 0..MaxErrors
  PROVE  IInv'
<1>1. TypeOK /\ ControlOK' /\ pc' \in {"next", "failed"} /\ start' = 0
  BY ReturnControl DEF IInv
<1>2. /\ applied' \subseteq Parts /\ blind' \subseteq Parts
      /\ \A p \in applied' \ blind' : OnBoth(p)'
  BY AlreadyStep
<1>3. DisksOK' /\ CacheOK' /\ NotesOK'
  BY <1>1, <1>2 DEF TypeOK, DisksOK, CacheOK, NotesOK, disks, cache, IsDisk
<1>4. InMemory'
  BY <1>1 DEF InMemory, Loaded, Writing
<1>5. OnMedium'
  BY <1>1, <1>2 DEF IInv, OnMedium, Loaded, Writing, disks
<1> QED BY <1>1, <1>3, <1>4, <1>5, TypeParts DEF IInv

(* A call that is given up before or after its writes.                       *)
LEMMA GivenUpStep ==
  ASSUME IInv, line <= Len(Script), Return(FALSE), UNCHANGED <<disks, applied, is_retry, losses>>,
         tgt \in Parts, blind' \in {blind, blind \cup {tgt}}, CacheOK',
         cut' \in BOOLEAN, errors' \in 0..MaxErrors
  PROVE  IInv'
<1>1. TypeOK /\ ControlOK' /\ pc' \in {"next", "failed"} /\ start' = 0
  BY ReturnControl DEF IInv
<1>2. DisksOK' /\ NotesOK'
  BY <1>1 DEF TypeOK, DisksOK, NotesOK, disks, IsDisk
<1>3. InMemory' /\ OnMedium'
  BY <1>1, IdleStep DEF Loaded, Writing
<1> QED BY <1>1, <1>2, <1>3, TypeParts DEF IInv

(* A step of a call from one place to another that leaves the disks alone.   *)
LEMMA MovesOn ==
  ASSUME IInv, pc \in {"load"} \cup Loaded, pc' \in Loaded \cup {"write"}, line' = line,
         UNCHANGED <<disks, applied, start, attempt, is_retry, losses>>,
         copy' \in BOOLEAN, cut' \in BOOLEAN, CacheOK', errors' \in 0..MaxErrors,
         blind' \in {blind, blind \cup {tgt}}, tgt \in blind' \/ ~Has(device, tgt, Target[tgt]),
         pc' \in Loaded => line \in Patches /\ data' = Source[src],
         pc' = "write" => data' = Target[tgt]
  PROVE  IInv'
<1>1. /\ line \in Writes /\ src \in Parts /\ tgt \in Parts /\ start = 0 /\ TypeOK
      /\ tgt' = tgt /\ src' = src
  BY Here DEF IInv, InMemory, Loaded, Writing, src, tgt, Call
<1>2. data' \in Contents /\ Len(data') \in Nat
  BY <1>1, Images
<1>3. ControlOK'
  BY <1>1, <1>2 DEF TypeOK, ControlOK, Loaded
<1>4. DisksOK' /\ NotesOK'
  BY <1>1 DEF TypeOK, DisksOK, NotesOK, disks, IsDisk
<1>5. InMemory'
  BY <1>1 DEF InMemory, Loaded, Writing
<1>6. tgt \in blind' \/ ~Has(platter, tgt, Target[tgt])
  <2> SUFFICES ASSUME tgt \notin blind' PROVE ~Has(platter, tgt, Target[tgt])
    OBVIOUS
  <2>1. PICK i \in 1..Len(Target[tgt]) : device[tgt][i] # Target[tgt][i]
    BY DEF Has
  <2>2. i \in DOMAIN Device[tgt]
    BY <1>1, Images
  <2>3. device[tgt][i] = platter[tgt][i]
    BY <1>1, <2>1, <2>2 DEF IInv, OnMedium
  <2> QED BY <2>1, <2>3 DEF Has
<1>7. OnMedium'
  BY <1>1, <1>6 DEF IInv, OnMedium, Loaded, disks, OnBoth, Has
<1> QED BY <1>3, <1>4, <1>5, <1>7, TypeParts DEF IInv

LEMMA MissedBlind ==
  ASSUME TypeOK, tgt \in Parts, Missed
  PROVE  /\ applied' = applied /\ blind' \in {blind, blind \cup {tgt}}
         /\ tgt \in blind' \/ ~Has(device, tgt, Target[tgt])
         /\ ~Has(device, tgt, Target[tgt]) => blind' = blind
BY LoadOne, Images DEF TypeOK, Missed

(* How the reads of a patch end, those that fail among them.                 *)
LEMMA LoadEnds ==
  ASSUME TypeOK, line \in Patches, LoadSource
  PROVE  /\ errors' = errors \/ Fails
         /\ \/ Has(device, tgt, Target[tgt]) /\ Already /\ Return(TRUE)
            \/ /\ Missed /\ Goto("room") /\ data' = Source[src] /\ UNCHANGED <<start, attempt>>
               /\ \/ Has(device, src, Source[src]) /\ copy' = FALSE
                  \/ saved = Source[src] /\ copy' = TRUE
            \/ Missed /\ Return(FALSE)
<1> DEFINE t == Load(device, tgt, TargetName)
           s == Load(device, src, SourceName)
<1>1. src \in Parts /\ tgt \in Parts
  BY CallType DEF Patches, src, tgt, Call
<1>2. /\ t = Target[tgt] <=> Has(device, tgt, Target[tgt])
      /\ src = tgt => s = t
      /\ Found(s) => Has(device, src, Source[src])
  BY LoadSees
<1>3. ~Found(None) /\ None # Target[tgt]
  BY <1>1, Images DEF Found
<1> HIDE DEF t, s
<1>4. ASSUME NEW tt \in {t, None}, NEW ss \in {s, None}, NEW c \in {saved, None}, LoadFrom(tt, ss, c)
      PROVE  \/ Has(device, tgt, Target[tgt]) /\ Already /\ Return(TRUE)
             \/ /\ Missed /\ Goto("room") /\ data' = Source[src] /\ UNCHANGED <<start, attempt>>
                /\ \/ Has(device, src, Source[src]) /\ copy' = FALSE
                   \/ saved = Source[src] /\ copy' = TRUE
             \/ Missed /\ Return(FALSE)
  <2> DEFINE from == IF tt # None /\ src = tgt THEN tt ELSE ss
  <2>1. Found(from) => Has(device, src, Source[src])
    BY <1>2, <1>3
  <2>2. from = Source[src] <=> Found(from)
    BY DEF Found
  <2>3. Found(c) => saved = Source[src] /\ c = Source[src]
    BY <1>3 DEF Found
  <2>4. \/ tt = Target[tgt] /\ Already /\ Return(TRUE)
        \/ /\ Found(from) /\ Goto("room") /\ data' = from /\ copy' = FALSE
           /\ Missed /\ UNCHANGED <<start, attempt>>
        \/ /\ Found(c) /\ Goto("room") /\ data' = c /\ copy' = TRUE
           /\ Missed /\ UNCHANGED <<start, attempt>>
        \/ Missed /\ Return(FALSE)
    BY <1>4, Zenon DEF LoadFrom
  <2>5. tt = Target[tgt] => Has(device, tgt, Target[tgt])
    BY <1>2, <1>3
  <2> HIDE DEF from
  <2> QED BY <2>1, <2>2, <2>3, <2>4, <2>5, Zenon
<1>5. \/ LoadFrom(t, s, saved) /\ UNCHANGED errors
      \/ Fails /\ (LoadFrom(None, s, saved) \/ LoadFrom(t, None, saved) \/ LoadFrom(t, s, None))
  BY Zenon DEF LoadSource, t, s
<1> QED BY <1>4, <1>5, Zenon

LEMMA LoadStep == IInv /\ (LoadSource \/ LoadImage) => IInv'
<1> SUFFICES ASSUME IInv, LoadSource \/ LoadImage PROVE IInv'
  OBVIOUS
<1>1. /\ pc = "load" /\ UNCHANGED <<disks, cache, cut, is_retry, losses>> /\ line \in DOMAIN Script
      /\ line <= Len(Script) /\ src \in Parts /\ tgt \in Parts /\ TypeOK
      /\ errors \in 0..MaxErrors /\ cut' \in BOOLEAN
  BY Here DEF IInv, TypeOK, LoadSource, LoadImage
<1>2. CacheOK'
  BY <1>1 DEF TypeOK, CacheOK, cache
<1>3. CASE LoadSource
  <2>1. line \in Patches
    BY <1>1, <1>3, CallType DEF LoadSource, Call
  <2>2. errors' \in 0..MaxErrors
    BY <1>1, <1>3, <2>1, LoadEnds, Counts
  <2>3. CASE Has(device, tgt, Target[tgt]) /\ Already /\ Return(TRUE)
    BY <1>1, <2>2, <2>3, NotedStep
  <2>4. CASE /\ Missed /\ Goto("room") /\ data' = Source[src] /\ copy' \in BOOLEAN
             /\ UNCHANGED <<start, attempt>>
    BY <1>1, <1>2, <2>1, <2>2, <2>4, MissedBlind, MovesOn DEF Goto, Loaded
  <2>5. CASE Missed /\ Return(FALSE)
    BY <1>1, <1>2, <2>2, <2>5, MissedBlind, GivenUpStep
  <2> QED BY <1>1, <1>3, <2>1, <2>3, <2>4, <2>5, LoadEnds
<1>4. CASE LoadImage
  <2> DEFINE t == Load(device, tgt, {Target[tgt]})
  <2>1. t = IF Has(device, tgt, Target[tgt]) THEN Target[tgt] ELSE None
    BY <1>1, LoadOne DEF TypeOK
  <2>2. Target[tgt] # None
    BY <1>1, Images
  <2> HIDE DEF t
  <2>3. CASE t = Target[tgt] /\ Already /\ Return(TRUE) /\ UNCHANGED errors
    BY <1>1, <2>1, <2>2, <2>3, NotedStep
  <2>4. CASE /\ (UNCHANGED errors \/ Fails) /\ Goto("write") /\ data' = Target[tgt]
             /\ Missed /\ UNCHANGED <<copy, start, attempt>>
    <3>1. copy' \in BOOLEAN /\ errors' \in 0..MaxErrors
      BY <1>1, <2>4, Counts DEF TypeOK
    <3> QED BY <1>1, <1>2, <2>4, <3>1, MissedBlind, MovesOn DEF Goto, Loaded
  <2>5. CASE Fails /\ Return(FALSE) /\ UNCHANGED <<applied, blind>>
    BY <1>1, <1>2, <2>5, Counts, GivenUpStep
  <2> QED BY <1>4, <2>3, <2>4, <2>5 DEF LoadImage, t
<1> QED BY <1>3, <1>4

LEMMA SaveStep == IInv /\ (MakeRoom \/ OpenSaved \/ SaveSource \/ ApplyInMemory) => IInv'
<1> SUFFICES ASSUME IInv, MakeRoom \/ OpenSaved \/ SaveSource \/ ApplyInMemory PROVE IInv'
  OBVIOUS
<1>1. /\ pc \in Loaded /\ UNCHANGED <<disks, applied, blind, is_retry, losses>>
      /\ TypeOK /\ copy \in BOOLEAN /\ cut \in BOOLEAN /\ errors \in 0..MaxErrors
      /\ line \in Patches /\ data = Source[src] /\ (tgt \in blind \/ ~Has(device, tgt, Target[tgt]))
  BY DEF IInv, TypeOK, InMemory, OnMedium, Loaded, MakeRoom, OpenSaved, SaveSource, ApplyInMemory, notes
<1>2. line <= Len(Script) /\ src \in Parts /\ tgt \in Parts /\ data \in Contents
  BY <1>1, Here, Images
<1>3. CASE MakeRoom
  <2>1. CacheOK' /\ UNCHANGED <<cut, errors>>
    BY <1>1, <1>3, FreeSpaceCache DEF MakeRoom, notes
  <2>2. CASE Goto("open") /\ UNCHANGED memory
    BY <1>1, <2>1, <2>2, MovesOn DEF Goto, memory, Loaded
  <2>3. CASE Return(FALSE)
    BY <1>1, <1>2, <2>1, <2>3, GivenUpStep
  <2> QED BY <1>3, <2>2, <2>3 DEF MakeRoom
<1>4. CASE OpenSaved
  <2>1. CacheOK' /\ cut' = cut
    BY <1>1, <1>4 DEF OpenSaved, TypeOK, CacheOK, notes
  <2>2. CASE Goto("save") /\ UNCHANGED <<memory, errors>>
    BY <1>1, <2>1, <2>2, MovesOn DEF Goto, memory, Loaded
  <2>3. CASE Fails /\ Return(FALSE)
    BY <1>1, <1>2, <2>1, <2>3, Counts, GivenUpStep
  <2> QED BY <1>4, <2>2, <2>3 DEF OpenSaved
<1>5. CASE SaveSource
  <2>1. CASE Goto("apply") /\ saved' = data /\ undo' = data /\ UNCHANGED <<memory, cut, errors>>
    <3>1. CacheOK'
      BY <1>1, <1>2, <1>5, <2>1 DEF SaveSource, TypeOK, CacheOK
    <3> QED BY <1>1, <2>1, <3>1, MovesOn DEF Goto, memory, Loaded
  <2>2. CASE Fails /\ Return(FALSE) /\ cut' = (cut \/ copy) /\ UNCHANGED <<saved, undo>>
    <3>1. CacheOK'
      BY <1>1, <1>5, <2>2 DEF SaveSource, TypeOK, CacheOK
    <3>2. cut' \in BOOLEAN
      BY <2>2
    <3> QED BY <1>1, <1>2, <2>2, <3>1, <3>2, Counts, GivenUpStep
  <2> QED BY <1>5, <2>1, <2>2 DEF SaveSource
<1>6. CASE ApplyInMemory
  <2>1. CacheOK' /\ cut' = cut
    BY <1>1, <1>6 DEF ApplyInMemory, TypeOK, CacheOK, cache, notes
  <2>2. CASE Goto("write") /\ data' = Target[tgt] /\ UNCHANGED <<copy, start, attempt, errors>>
    BY <1>1, <2>1, <2>2, MovesOn DEF Goto, Loaded
  <2>3. CASE Fails /\ Return(FALSE)
    BY <1>1, <1>2, <2>1, <2>3, Counts, GivenUpStep
  <2> QED BY <1>6, <2>2, <2>3 DEF ApplyInMemory
<1> QED BY <1>3, <1>4, <1>5, <1>6

-----------------------------------------------------------------------------
(* One piece of the target more in the page cache.                           *)
LEMMA PieceDisk ==
  ASSUME IInv, pc = "write", start < Len(data),
         device' = [device EXCEPT ![tgt][start + 1] = data[start + 1]]
  PROVE  /\ tgt \in Parts /\ start \in Nat /\ start + 1 \in 1..Len(Target[tgt]) /\ data = Target[tgt]
         /\ Len(Target[tgt]) \in Nat
         /\ IsDisk(device)'
         /\ \A p \in Parts : \A i \in DOMAIN Device[p] :
              device'[p][i] = IF p = tgt /\ i = start + 1 THEN Target[tgt][i] ELSE device[p][i]
<1>1. /\ tgt \in Parts /\ data = Target[tgt] /\ start \in Nat /\ Len(Target[tgt]) \in Nat
      /\ start + 1 \in 1..Len(Target[tgt]) /\ IsDisk(device)
  BY Here, Images DEF IInv, InMemory, TypeOK, Writing
<1>2. Target[tgt][start + 1] \in Pieces /\ start + 1 \in 1..Len(Device[tgt])
  BY <1>1, Images
<1>3. /\ device[tgt] \in Seq(Pieces) /\ Len(device[tgt]) = Len(Device[tgt])
      /\ DOMAIN device = Parts
  BY <1>1 DEF IsDisk
<1>4. device' = [device EXCEPT ![tgt] = [device[tgt] EXCEPT ![start + 1] = Target[tgt][start + 1]]]
  BY <1>1
<1> DEFINE new == [device[tgt] EXCEPT ![start + 1] = Target[tgt][start + 1]]
<1>5. new \in Seq(Pieces) /\ Len(new) = Len(device[tgt])
      /\ \A i \in 1..Len(Device[tgt]) : new[i] = IF i = start + 1 THEN Target[tgt][i] ELSE device[tgt][i]
  BY <1>2, <1>3
<1> HIDE DEF new
<1>6. \A p \in Parts : device'[p] = IF p = tgt THEN new ELSE device[p]
  BY <1>3, <1>4 DEF new
<1>7. device' \in [Parts -> Seq(Pieces)]
  <2>1. DOMAIN device' = Parts /\ device' = [p \in Parts |-> device'[p]]
    BY <1>3, <1>4
  <2>2. \A p \in Parts : device'[p] \in Seq(Pieces)
    BY <1>1, <1>5, <1>6 DEF IsDisk
  <2> QED BY <2>1, <2>2
<1>8. IsDisk(device)'
  BY <1>1, <1>3, <1>5, <1>6, <1>7 DEF IsDisk
<1>9. ASSUME NEW p \in Parts, NEW i \in DOMAIN Device[p]
      PROVE  device'[p][i] = IF p = tgt /\ i = start + 1 THEN Target[tgt][i] ELSE device[p][i]
  <2>1. CASE p = tgt
    <3>1. i \in 1..Len(Device[tgt]) /\ device'[tgt] = new
      BY <1>1, <1>6, <2>1, Images
    <3> QED BY <1>5, <2>1, <3>1
  <2>2. CASE p # tgt
    BY <1>6, <2>2
  <2> QED BY <2>1, <2>2
<1> QED BY <1>1, <1>8, <1>9

LEMMA WriteStep == IInv /\ WritePiece => IInv'
<1> SUFFICES ASSUME IInv, WritePiece PROVE IInv'
  OBVIOUS
<1>1. /\ pc = "write" /\ start < Len(data) /\ UNCHANGED <<platter, cache, notes, is_retry, losses>>
      /\ TypeOK /\ line <= Len(Script) /\ tgt \in Parts
  BY Here DEF IInv, WritePiece, Writing
<1>2. CASE Fails /\ Return(FALSE) /\ UNCHANGED device
  <2>1. CacheOK' /\ cut' \in BOOLEAN /\ UNCHANGED <<disks, applied, blind>>
    BY <1>1, <1>2 DEF TypeOK, CacheOK, cache, notes, disks
  <2> QED BY <1>1, <1>2, <2>1, Counts, GivenUpStep
<1>3. CASE /\ device' = [device EXCEPT ![tgt][start + 1] = data[start + 1]]
           /\ start' = start + 1 /\ Goto(pc) /\ UNCHANGED <<data, copy, attempt, errors>>
  <2>1. pc' = "write" /\ line' = line /\ tgt' = tgt /\ src' = src
    BY <1>1, <1>3 DEF Goto, tgt, src, Call
  <2>2. /\ start \in Nat /\ start + 1 \in 1..Len(Target[tgt]) /\ data = Target[tgt]
        /\ Len(Target[tgt]) \in Nat /\ IsDisk(device)'
        /\ \A p \in Parts : \A i \in DOMAIN Device[p] :
             device'[p][i] = IF p = tgt /\ i = start + 1 THEN Target[tgt][i] ELSE device[p][i]
    BY <1>1, <1>3, PieceDisk
  <2>3. ControlOK'
    BY <1>1, <1>3, <2>1, <2>2 DEF TypeOK, ControlOK
  <2>4. DisksOK' /\ CacheOK' /\ NotesOK'
    BY <1>1, <1>3, <2>2 DEF TypeOK, DisksOK, CacheOK, NotesOK, cache, notes, IsDisk
  <2>5. InMemory'
    <3>1. \A i \in 1..start' : device'[tgt][i] = data[i]
      <4> SUFFICES ASSUME NEW i \in 1..start' PROVE device'[tgt][i] = data[i]
        OBVIOUS
      <4>1. i \in DOMAIN Device[tgt]
        BY <1>1, <1>3, <2>2, Images
      <4>2. CASE i = start + 1
        BY <1>1, <2>2, <4>1, <4>2
      <4>3. CASE i # start + 1
        <5>1. i \in 1..start
          BY <1>3, <2>2, <4>3
        <5> QED BY <1>1, <2>2, <4>1, <4>3, <5>1 DEF IInv, InMemory
      <4> QED BY <4>2, <4>3
    <3> QED BY <1>1, <1>3, <2>1, <2>2, <3>1 DEF IInv, InMemory, Loaded, Writing
  <2>6. OnMedium'
    <3>1. \A p \in Parts : \A i \in DOMAIN Device[p] :
            device'[p][i] # platter'[p][i] => i <= Len(Target[p]) /\ device'[p][i] = Target[p][i]
      BY <1>1, <2>2 DEF IInv, OnMedium
    <3>2. ASSUME NEW p \in Parts, Has(device, p, Target[p]) PROVE Has(device, p, Target[p])'
      <4>1. \A i \in 1..Len(Target[p]) : i \in DOMAIN Device[p]
        BY Images
      <4> QED BY <2>2, <3>2, <4>1 DEF Has
    <3>3. \A p \in applied' \ blind' : OnBoth(p)'
      BY <1>1, <3>2 DEF IInv, OnMedium, TypeOK, OnBoth, Has, notes
    <3>4. (tgt \in blind \/ ~Has(platter, tgt, Target[tgt]))'
      BY <1>1, <2>1 DEF IInv, OnMedium, Has, notes
    <3> QED BY <2>1, <3>1, <3>3, <3>4 DEF OnMedium, Loaded
  <2> QED BY <2>3, <2>4, <2>5, <2>6, TypeParts DEF IInv
<1> QED BY <1>2, <1>3 DEF WritePiece

(* A piece of the target has reached the medium damaged.                     *)
LEMMA FlawDisk ==
  ASSUME IInv, pc = "write", NEW i \in 1..Len(data),
         platter' = [device EXCEPT ![tgt] = [device[tgt] EXCEPT ![i] = Junk]], device' = platter'
  PROVE  /\ IsDisk(device)' /\ IsDisk(platter)'
         /\ \A p \in Parts : p # tgt => device'[p] = device[p]
         /\ \A k \in 1..Len(Target[tgt]) : device'[tgt][k] \in {device[tgt][k], Junk}
<1>1. /\ tgt \in Parts /\ data = Target[tgt] /\ Len(data) \in Nat /\ IsDisk(device)
      /\ i \in 1..Len(Device[tgt]) /\ Len(Target[tgt]) \in 1..Len(Device[tgt])
  BY Here, Images DEF IInv, InMemory, TypeOK, Writing
<1>2. /\ device[tgt] \in Seq(Pieces) /\ Len(device[tgt]) = Len(Device[tgt])
      /\ DOMAIN device = Parts /\ Junk \in Pieces /\ Len(Device[tgt]) \in Nat
  <2>1. Junk \in Pieces
    BY Zenon DEF Pieces
  <2> QED BY <1>1, <2>1, Images DEF IsDisk
<1> DEFINE new == [device[tgt] EXCEPT ![i] = Junk]
<1>3. new \in Seq(Pieces) /\ Len(new) = Len(Device[tgt])
      /\ \A k \in 1..Len(Device[tgt]) : new[k] \in {device[tgt][k], Junk}
  BY <1>1, <1>2
<1> HIDE DEF new
<1>4. \A p \in Parts : device'[p] = IF p = tgt THEN new ELSE device[p]
  BY <1>2 DEF new
<1>5. device' \in [Parts -> Seq(Pieces)]
  <2>1. DOMAIN device' = Parts /\ device' = [p \in Parts |-> device'[p]]
    BY <1>2
  <2>2. \A p \in Parts : device'[p] \in Seq(Pieces)
    BY <1>1, <1>3, <1>4 DEF IsDisk
  <2> QED BY <2>1, <2>2
<1>6. IsDisk(device)' /\ IsDisk(platter)'
  BY <1>1, <1>3, <1>4, <1>5 DEF IsDisk
<1>7. \A k \in 1..Len(Target[tgt]) : device'[tgt][k] \in {device[tgt][k], Junk}
  BY <1>1, <1>2, <1>3, <1>4
<1> QED BY <1>4, <1>6, <1>7

LEMMA SyncStep == IInv /\ SyncPartition => IInv'
<1> SUFFICES ASSUME IInv, SyncPartition PROVE IInv'
  OBVIOUS
<1>1. /\ pc = "write" /\ UNCHANGED <<saved, deleted, applied, cut, is_retry, losses>> /\ undo' = saved
      /\ TypeOK /\ line \in Writes /\ line <= Len(Script) /\ tgt \in Parts /\ data = Target[tgt]
      /\ tgt \in blind \/ ~Has(platter, tgt, Target[tgt])
  BY Here DEF IInv, SyncPartition, InMemory, OnMedium, Writing
<1>2. CacheOK' /\ cut' \in BOOLEAN
  BY <1>1 DEF TypeOK, CacheOK
<1>3. CASE Fails /\ Return(FALSE) /\ UNCHANGED <<disks, blind>>
  BY <1>1, <1>2, <1>3, Counts, GivenUpStep
<1>4. CASE /\ Goto("verify") /\ UNCHANGED memory /\ errors' \in 0..MaxErrors /\ blind' \in {blind, blind \cup {tgt}}
           /\ device' = platter' /\ IsDisk(device)' /\ IsDisk(platter)'
           /\ \A p \in applied \ blind' : Has(device, p, Target[p])'
  <2>1. pc' = "verify" /\ line' = line /\ tgt' = tgt /\ src' = src
    BY <1>4 DEF Goto, tgt, src, Call
  <2>2. ControlOK' /\ DisksOK'
    BY <1>1, <1>4, <2>1 DEF TypeOK, ControlOK, DisksOK, memory
  <2>3. NotesOK'
    BY <1>1, <1>4 DEF TypeOK, NotesOK
  <2>4. InMemory'
    BY <1>1, <1>4, <2>1 DEF InMemory, Loaded, Writing, memory
  <2>5. OnMedium'
    BY <1>1, <1>4, <2>1 DEF OnMedium, Loaded, OnBoth, Has
  <2> QED BY <1>2, <2>2, <2>3, <2>4, <2>5, TypeParts DEF IInv
<1>5. \A p \in applied \ blind : p \in Parts /\ p # tgt /\ Has(device, p, Target[p])
  BY <1>1 DEF IInv, TypeOK, OnMedium, OnBoth
<1>6. CASE /\ Goto("verify") /\ platter' = device /\ UNCHANGED <<memory, device>>
           /\ \/ UNCHANGED <<blind, errors>>
              \/ Fails /\ blind' = blind \cup {tgt}
  <2>1. IsDisk(device)' /\ IsDisk(platter)'
    BY <1>1, <1>6 DEF TypeOK, IsDisk
  <2>2. errors' \in 0..MaxErrors
    BY <1>1, <1>6, Counts DEF TypeOK
  <2>3. \A p \in applied \ blind' : Has(device, p, Target[p])'
    BY <1>5, <1>6 DEF Has
  <2> QED BY <1>4, <1>6, <2>1, <2>2, <2>3
<1>7. CASE /\ Goto("verify") /\ Fails /\ UNCHANGED <<memory, blind>>
           /\ \E i \in 1..Len(data) :
                platter' = [device EXCEPT ![tgt] = [device[tgt] EXCEPT ![i] = Junk]] /\ device' = platter'
  <2>1. PICK i \in 1..Len(data) :
          platter' = [device EXCEPT ![tgt] = [device[tgt] EXCEPT ![i] = Junk]] /\ device' = platter'
    BY <1>7
  <2>2. IsDisk(device)' /\ IsDisk(platter)' /\ \A p \in Parts : p # tgt => device'[p] = device[p]
    BY <1>1, <2>1, FlawDisk
  <2>3. \A p \in applied \ blind' : Has(device, p, Target[p])'
    BY <1>5, <1>7, <2>2 DEF Has
  <2> QED BY <1>1, <1>4, <1>7, <2>1, <2>2, <2>3, Counts
<1> QED BY <1>3, <1>6, <1>7 DEF SyncPartition

LEMMA VerifyStep == IInv /\ Verify => IInv'
<1> SUFFICES ASSUME IInv, Verify PROVE IInv'
  OBVIOUS
<1>1. /\ pc = "verify" /\ UNCHANGED <<disks, cache, notes, is_retry, losses>> /\ TypeOK
      /\ line \in Writes /\ line <= Len(Script) /\ tgt \in Parts /\ data = Target[tgt]
      /\ platter = device /\ Len(Target[tgt]) \in Nat
  BY Here, Images DEF IInv, Verify, InMemory, OnMedium, Writing
<1>2. DisksOK' /\ CacheOK' /\ cut' \in BOOLEAN /\ UNCHANGED <<applied, blind>>
  BY <1>1 DEF TypeOK, DisksOK, CacheOK, disks, cache, notes, IsDisk
<1>3. CASE Return(FALSE) /\ (UNCHANGED errors \/ Fails)
  <2>1. errors' \in 0..MaxErrors
    BY <1>1, <1>3, Counts DEF TypeOK
  <2> QED BY <1>1, <1>2, <1>3, <2>1, GivenUpStep
<1>4. CASE Differs = {} /\ Goto("unlink") /\ UNCHANGED <<memory, errors>>
  <2>1. pc' = "unlink" /\ line' = line /\ tgt' = tgt /\ src' = src
    BY <1>4 DEF Goto, tgt, src, Call
  <2>2. Has(device, tgt, Target[tgt])
    BY <1>1, <1>4 DEF Differs, Has
  <2>3. ControlOK' /\ NotesOK'
    BY <1>1, <1>2, <1>4, <2>1 DEF TypeOK, ControlOK, NotesOK, memory, notes
  <2>4. InMemory'
    BY <1>1, <1>4, <2>1 DEF InMemory, Loaded, Writing, memory
  <2>5. OnMedium'
    BY <1>1, <1>2, <2>1, <2>2 DEF IInv, OnMedium, Loaded, OnBoth, Has, disks
  <2> QED BY <1>2, <2>3, <2>4, <2>5, TypeParts DEF IInv
<1>5. CASE /\ Differs # {} /\ Goto("write") /\ start' = Min(Differs) - 1 /\ attempt' = 1
           /\ UNCHANGED <<data, copy, errors>>
  <2>1. pc' = "write" /\ line' = line /\ tgt' = tgt /\ src' = src
    BY <1>5 DEF Goto, tgt, src, Call
  <2>2. Differs \in SUBSET Nat /\ Differs \subseteq 1..Len(data)
    BY <1>1 DEF Differs
  <2>3. Min(Differs) \in Differs /\ \A y \in Differs : Min(Differs) <= y
    BY <1>5, <2>2, LeastNumber
  <2>4. start' \in 0..Len(data) /\ start' + 1 = Min(Differs) /\ start' < Min(Differs)
    <3>1. Min(Differs) \in 1..Len(data) /\ Len(data) \in Nat
      BY <1>1, <2>2, <2>3
    <3> QED BY <1>5, <3>1
  <2>5. \A i \in 1..start' : device[tgt][i] = data[i]
    <3> SUFFICES ASSUME NEW i \in 1..start', device[tgt][i] # data[i] PROVE FALSE
      OBVIOUS
    <3>1. i \in 1..Len(data) /\ i < Min(Differs) /\ i \in Nat /\ Min(Differs) \in Nat
      BY <1>1, <2>2, <2>3, <2>4
    <3>2. i \in Differs
      BY <3>1 DEF Differs
    <3> QED BY <2>3, <3>1, <3>2
  <2>6. ~Has(device, tgt, Target[tgt])
    BY <1>1, <1>5 DEF Differs, Has
  <2>7. ControlOK'
    BY <1>1, <1>5, <2>1, <2>4 DEF TypeOK, ControlOK
  <2>8. NotesOK'
    BY <1>1, <1>2, <1>5 DEF TypeOK, NotesOK, notes
  <2>9. InMemory'
    BY <1>1, <1>5, <2>1, <2>5 DEF InMemory, Loaded, Writing, disks
  <2>10. OnMedium'
    BY <1>1, <1>2, <2>1, <2>6 DEF IInv, OnMedium, Loaded, OnBoth, Has, disks
  <2> QED BY <1>2, <2>7, <2>8, <2>9, <2>10, TypeParts DEF IInv
<1> QED BY <1>3, <1>4, <1>5 DEF Verify

LEMMA UnlinkStep == IInv /\ UnlinkSaved => IInv'
<1> SUFFICES ASSUME IInv, UnlinkSaved PROVE IInv'
  OBVIOUS
<1>1. /\ pc = "unlink" /\ UNCHANGED <<disks, deleted, blind, cut, is_retry, losses, errors>> /\ TypeOK
      /\ line <= Len(Script) /\ tgt \in Parts /\ OnBoth(tgt) /\ applied' = applied \cup {tgt}
  BY Here DEF IInv, UnlinkSaved, OnMedium, OnBoth, Has, Writing
<1>2. ControlOK' /\ pc' \in {"next", "failed"} /\ start' = 0
  BY <1>1, ReturnControl DEF UnlinkSaved
<1>3. DisksOK' /\ NotesOK'
  BY <1>1 DEF TypeOK, DisksOK, NotesOK, disks, IsDisk
<1>4. CacheOK'
  BY <1>1 DEF UnlinkSaved, TypeOK, CacheOK
<1>5. InMemory'
  BY <1>2 DEF InMemory, Loaded, Writing
<1>6. OnMedium'
  BY <1>1, <1>2 DEF IInv, OnMedium, Loaded, Writing, disks, OnBoth, Has
<1> QED BY <1>2, <1>3, <1>4, <1>5, <1>6, TypeParts DEF IInv

(* A power loss leaves of each piece what was on the medium or in the cache. *)
LEMMA LossDisk ==
  ASSUME TypeOK, PowerLoss
  PROVE  /\ device' = platter' /\ IsDisk(platter)'
         /\ \A p \in Parts : \A i \in DOMAIN Device[p] : platter'[p][i] \in {platter[p][i], device[p][i]}
<1>1. PICK lost \in SUBSET Unsynced :
        platter' = [p \in Parts |-> [i \in DOMAIN Device[p] |->
                      IF <<p, i>> \in lost THEN platter[p][i] ELSE device[p][i]]]
  BY DEF PowerLoss
<1>2. \A p \in Parts : platter'[p] = [i \in DOMAIN Device[p] |->
                                       IF <<p, i>> \in lost THEN platter[p][i] ELSE device[p][i]]
  BY <1>1
<1>3. ASSUME NEW p \in Parts
      PROVE  /\ platter'[p] \in Seq(Pieces) /\ Len(platter'[p]) = Len(Device[p])
             /\ \A i \in DOMAIN Device[p] : platter'[p][i] \in {platter[p][i], device[p][i]}
  <2>1. \A i \in DOMAIN Device[p] : platter'[p][i] \in {platter[p][i], device[p][i]}
    BY <1>2
  <2>2. \A i \in DOMAIN Device[p] : platter[p][i] \in Pieces /\ device[p][i] \in Pieces
    BY Images DEF TypeOK, IsDisk
  <2>3. platter'[p] \in [1..Len(Device[p]) -> Pieces] /\ Len(Device[p]) \in Nat
    BY <1>2, <2>1, <2>2, Images
  <2> QED BY <2>1, <2>3
<1>4. platter' \in [Parts -> Seq(Pieces)]
  BY <1>1, <1>3
<1>5. IsDisk(platter)'
  BY <1>3, <1>4 DEF IsDisk
<1> QED BY <1>3, <1>5 DEF PowerLoss

(* What was both on the medium and in the cache stays.                       *)
LEMMA LossKeeps ==
  ASSUME TypeOK, PowerLoss, NEW p \in Parts, NEW c \in {Source[p], Target[p]},
         Has(device, p, c), Has(platter, p, c)
  PROVE  Has(device, p, c)' /\ Has(platter, p, c)'
<1>1. \A i \in 1..Len(c) : i \in DOMAIN Device[p]
  BY Images
<1>2. \A i \in 1..Len(c) : platter'[p][i] = c[i]
  BY <1>1, LossDisk DEF Has
<1> QED BY <1>2, LossDisk DEF Has

LEMMA LossStep == IInv /\ PowerLoss => IInv'
<1> SUFFICES ASSUME IInv, PowerLoss PROVE IInv'
  OBVIOUS
<1>1. /\ TypeOK /\ pc' = "boot" /\ line' = 1 /\ data' = <<>> /\ copy' = FALSE /\ start' = 0 /\ attempt' = 0
      /\ saved' \in {saved, undo} /\ undo' = saved' /\ is_retry' = FALSE
      /\ UNCHANGED <<deleted, applied, blind, errors>>
  BY DEF IInv, PowerLoss, Forget
<1>2. losses' \in 0..MaxLosses
  BY <1>1, PartAssumption DEF TypeOK, PowerLoss
<1>3. cut' \in BOOLEAN /\ is_retry' \in BOOLEAN /\ copy' \in BOOLEAN
  BY <1>1 DEF PowerLoss
<1>4. ControlOK'
  BY <1>1, <1>3, PartAssumption DEF ControlOK
<1>5. DisksOK'
  BY <1>1, LossDisk DEF DisksOK, IsDisk
<1>6. CacheOK'
  BY <1>1 DEF TypeOK, CacheOK
<1>7. NotesOK'
  BY <1>1, <1>2, <1>3 DEF TypeOK, NotesOK
<1>8. InMemory'
  BY <1>1 DEF InMemory, Loaded, Writing
<1>9. OnMedium'
  <2>1. \A p \in applied' \ blind' : OnBoth(p)'
    BY <1>1, LossKeeps DEF IInv, TypeOK, OnMedium, OnBoth
  <2> QED BY <1>1, <2>1, LossDisk DEF OnMedium, Loaded
<1> QED BY <1>4, <1>5, <1>6, <1>7, <1>8, <1>9, TypeParts DEF IInv

LEMMA InitIInv == Init => IInv
<1> SUFFICES ASSUME Init PROVE IInv
  OBVIOUS
<1>1. IsDisk(Device)
  BY PartAssumption, Images DEF IsDisk
<1>2. TypeOK
  <2>1. copy \in BOOLEAN /\ cut \in BOOLEAN /\ is_retry \in BOOLEAN
    BY DEF Init
  <2> QED BY <1>1, <2>1, PartAssumption DEF Init, TypeOK
<1>3. InMemory
  BY DEF Init, InMemory, Loaded, Writing
<1>4. OnMedium
  BY DEF Init, OnMedium, Loaded
<1> QED BY <1>2, <1>3, <1>4 DEF IInv

LEMMA NextIInv == IInv /\ [Next]_vars => IInv'
BY CheckStep, SpaceStep, RestingStep, LoadStep, SaveStep, WriteStep, SyncStep, VerifyStep, UnlinkStep,
   LossStep DEF Next

LEMMA Invariance == Spec => []IInv
BY InitIInv, NextIInv, PTL DEF Spec

(* The variables keep their types; what is written stays within the data     *)
(* and within the partition (applypatch.cpp, WriteToPartition).              *)
THEOREM TypeCorrect == Spec => []TypeOK
BY Invariance, PTL DEF IInv

(* What apply_patch or a flash has reported as done is on the medium and     *)
(* stays there, through any number of errors, power losses and restarts,     *)
(* unless the page cache was all there was to look at, or the partition      *)
(* could not be read and was written once more (applypatch.cpp,              *)
(* WriteToPartition and GenerateTarget).                                     *)
THEOREM AppliedStays == Spec => []AppliedIsOnMedium
<1>1. IInv => AppliedIsOnMedium
  <2> SUFFICES ASSUME IInv, NEW p \in applied \ blind PROVE Holds(platter, p, Target[p])
    BY DEF AppliedIsOnMedium
  <2>1. p \in Parts /\ IsDisk(platter) /\ Has(platter, p, Target[p])
    BY DEF IInv, TypeOK, OnMedium, OnBoth
  <2> QED BY <2>1, HoldsCells
<1> QED BY <1>1, Invariance, PTL

-----------------------------------------------------------------------------
(* Where the source of the current call is.                                  *)
SavedHas(p) == saved = Source[p] /\ undo = Source[p]
InFile ==
  /\ pc \in {"room", "open"} /\ copy => saved = Source[src]
  /\ pc \in {"room", "open", "save"} /\ ~copy => Has(device, src, Source[src])
  /\ pc = "save" => saved = <<>>
  /\ pc \in {"apply"} \cup Writing /\ line \in Patches => SavedHas(src)

(* A partition holds pieces of what it held at first and of its target, or,  *)
(* once it has been synced, of its target and damage.                        *)
Unsunk(d, p) == \A i \in DOMAIN Device[p] :
  d[p][i] = Device[p][i] \/ (i <= Len(Target[p]) /\ d[p][i] = Target[p][i])
Sunk(d, p) == \A i \in 1..Len(Target[p]) : d[p][i] \in {Target[p][i], Junk}
Origin ==
  /\ \A p \in Parts : \/ Unsunk(device, p) /\ Unsunk(platter, p)
                      \/ Sunk(device, p) /\ Sunk(platter, p)
  /\ \A j \in Patches : \/ Has(Device, Script[j].src, Source[Script[j].src])
                         \/ blind # {} \/ OnBoth(Script[j].tgt)

Before(j) == \A k \in Writes : k < j => OnBoth(Script[k].tgt)

(* How a patch can still be done: it is done, its source has not been        *)
(* touched, or saved.file is its source (it may be on the way from there     *)
(* back to there), which no other patch replaces.                            *)
Way(j) ==
  \/ OnBoth(Script[j].tgt)
  \/ Fresh(Script[j].src)
  \/ /\ Script[j].src = Script[j].tgt /\ Before(j)
     /\ pc \in {"apply"} \cup Writing /\ line \in Patches => j <= line
     /\ SavedHas(Script[j].src) \/ (pc = "save" /\ copy /\ line = j)

(* Unless a patch was taken for done that is not, every one before the       *)
(* current line is done and every one can still be done.                     *)
Survival == cut \/ blind # {} \/ (Before(line) /\ \A j \in Patches : Way(j))

IFull == IInv /\ InFile /\ Origin /\ Survival

-----------------------------------------------------------------------------
(* The steps that change a disk.                                             *)
Piece  == /\ pc = "write" /\ start < Len(data) /\ UNCHANGED <<platter, pc, line, saved, undo>>
          /\ device' = [device EXCEPT ![tgt][start + 1] = data[start + 1]]
Synced == pc = "write" /\ pc' = "verify" /\ UNCHANGED <<device, line, saved>> /\ undo' = saved /\ platter' = device
Flawed == /\ pc = "write" /\ start = Len(data) /\ pc' = "verify" /\ UNCHANGED <<line, saved>> /\ undo' = saved
          /\ \E i \in 1..Len(data) :
               platter' = [device EXCEPT ![tgt] = [device[tgt] EXCEPT ![i] = Junk]] /\ device' = platter'

LEMMA DiskSteps == [Next]_vars => UNCHANGED disks \/ Piece \/ Synced \/ Flawed \/ PowerLoss
<1> SUFFICES ASSUME [Next]_vars PROVE UNCHANGED disks \/ Piece \/ Synced \/ Flawed \/ PowerLoss
  OBVIOUS
<1>1. CASE WritePiece
  BY <1>1 DEF WritePiece, Piece, Goto, disks, cache
<1>2. CASE SyncPartition
  <2>1. ASSUME NEW flaw \in {[device[tgt] EXCEPT ![i] = Junk] : i \in 1..Len(data)},
               platter' = [device EXCEPT ![tgt] = flaw] /\ device' = platter'
        PROVE  \E i \in 1..Len(data) :
                 platter' = [device EXCEPT ![tgt] = [device[tgt] EXCEPT ![i] = Junk]] /\ device' = platter'
    BY <2>1
  <2> QED BY <1>2, <2>1 DEF SyncPartition, Synced, Flawed, Goto, disks
<1>3. CASE ApplypatchCheck \/ ApplyPatchSpace \/ Begin \/ LoadSource \/ LoadImage
  BY <1>3 DEF ApplypatchCheck, ApplyPatchSpace, Begin, LoadSource, LoadImage
<1>4. CASE \/ MakeRoom \/ OpenSaved \/ SaveSource \/ ApplyInMemory \/ Verify \/ UnlinkSaved
           \/ ScriptEnds \/ Restart \/ Rest \/ UNCHANGED vars
  BY <1>4 DEF MakeRoom, OpenSaved, SaveSource, ApplyInMemory, Verify, UnlinkSaved, ScriptEnds, Restart,
              Rest, vars
<1> QED BY <1>1, <1>2, <1>3, <1>4 DEF Next

LEMMA SyncPlace ==
  ASSUME IInv, Piece \/ Synced \/ Flawed
  PROVE  /\ tgt \in Parts /\ line \in Writes /\ (tgt \in blind \/ ~Has(platter, tgt, Target[tgt]))
         /\ data = Target[tgt] /\ Len(data) \in Nat
         /\ \A i \in 1..start : device[tgt][i] = Target[tgt][i]
BY Here, Images DEF IInv, InMemory, OnMedium, Writing, Piece, Synced, Flawed

(* A write or a sync leaves the other partitions as they were in the cache.  *)
LEMMA OtherPartition ==
  ASSUME IInv, Piece \/ Synced \/ Flawed, NEW p \in Parts, p # tgt
  PROVE  \A i \in DOMAIN Device[p] :
           device'[p][i] = device[p][i] /\ platter'[p][i] \in {platter[p][i], device[p][i]}
<1>1. CASE Piece
  BY <1>1, PieceDisk DEF Piece
<1>2. CASE Synced
  BY <1>2 DEF Synced
<1>3. CASE Flawed
  BY <1>3, FlawDisk DEF Flawed
<1> QED BY <1>1, <1>2, <1>3

(* Once the target is both on the medium and in the cache it stays there,    *)
(* unless the partition is not seen as it is.                                *)
LEMMA OnBothStable ==
  ASSUME IInv, [Next]_vars, blind = {}, NEW p \in Parts, OnBoth(p)
  PROVE  OnBoth(p)'
<1>1. CASE UNCHANGED disks
  BY <1>1 DEF OnBoth, Has, disks
<1>2. CASE PowerLoss
  BY <1>2, LossKeeps DEF OnBoth, IInv
<1>3. CASE Piece \/ Synced \/ Flawed
  <2>1. p # tgt
    BY <1>3, SyncPlace DEF OnBoth
  <2>2. \A i \in 1..Len(Target[p]) : i \in DOMAIN Device[p]
    BY Images
  <2> QED BY <1>3, <2>1, <2>2, OtherPartition DEF OnBoth, Has
<1> QED BY <1>1, <1>2, <1>3, DiskSteps

(* A source that is untouched stays so unless the current call writes it.    *)
LEMMA FreshStable ==
  ASSUME IInv, [Next]_vars, NEW p \in Parts, Fresh(p), ~((Piece \/ Synced \/ Flawed) /\ p = tgt)
  PROVE  Fresh(p)'
<1>1. CASE UNCHANGED disks
  BY <1>1 DEF Fresh, Has, disks
<1>2. CASE PowerLoss
  BY <1>2, LossKeeps DEF Fresh, IInv
<1>3. CASE Piece \/ Synced \/ Flawed
  <2>1. \A i \in 1..Len(Source[p]) : i \in DOMAIN Device[p]
    BY Images
  <2> QED BY <1>3, <2>1, OtherPartition DEF Fresh, Has
<1> QED BY <1>1, <1>2, <1>3, DiskSteps

LEMMA PatchCall ==
  ASSUME NEW j \in Writes
  PROVE  j \in DOMAIN Script /\ Script[j].src \in Parts /\ Script[j].tgt \in Parts /\ j \in Nat \ {0}
BY CallType DEF Writes

LEMMA PatchesWrite == Patches \subseteq Writes
BY DEF Patches, Writes

LEMMA BeforeStable ==
  ASSUME IInv, [Next]_vars, blind = {}, NEW j, Before(j)
  PROVE  \A k \in Writes : k < j => OnBoth(Script[k].tgt)'
BY OnBothStable, PatchCall DEF Before

(* What a run has been spared so far it was spared before.                   *)
LEMMA BlindStays == [Next]_vars => (blind' = {} => blind = {})
<1> SUFFICES ASSUME [Next]_vars PROVE blind' = {} => blind = {}
  OBVIOUS
<1>1. CASE ApplypatchCheck \/ ApplyPatchSpace \/ Begin \/ MakeRoom \/ OpenSaved
  BY <1>1 DEF ApplypatchCheck, ApplyPatchSpace, Begin, MakeRoom, OpenSaved, notes
<1>2. CASE LoadSource \/ LoadImage
  <2>1. Already \/ Missed \/ blind' = blind
    <3>1. ASSUME NEW t, NEW s, NEW c, LoadFrom(t, s, c) PROVE Already \/ Missed
      BY <3>1, Zenon DEF LoadFrom
    <3>2. LoadSource => Already \/ Missed
      BY <3>1, Zenon DEF LoadSource
    <3>3. LoadImage => Already \/ Missed \/ blind' = blind
      BY Zenon DEF LoadImage
    <3> QED BY <1>2, <3>2, <3>3
  <2> QED BY <2>1 DEF Already, Missed
<1>3. CASE ApplyInMemory \/ WritePiece \/ Verify \/ UnlinkSaved \/ ScriptEnds \/ Restart
  BY <1>3 DEF ApplyInMemory, WritePiece, Verify, UnlinkSaved, ScriptEnds, Restart, notes
<1>4. CASE SaveSource \/ SyncPartition \/ PowerLoss
  BY <1>4 DEF SaveSource, SyncPartition, PowerLoss
<1>5. CASE Rest \/ UNCHANGED vars
  BY <1>5 DEF Rest, vars, notes
<1> QED BY <1>1, <1>2, <1>3, <1>4, <1>5 DEF Next

-----------------------------------------------------------------------------
LEMMA OriginStep == IInv /\ Origin /\ [Next]_vars => Origin'
<1> SUFFICES ASSUME IInv, Origin, [Next]_vars PROVE Origin'
  OBVIOUS
<1> DEFINE Kept(p) == \/ Unsunk(device, p) /\ Unsunk(platter, p)
                      \/ Sunk(device, p) /\ Sunk(platter, p)
<1>1. ASSUME NEW p \in Parts PROVE Kept(p)'
  <2>0. Kept(p) /\ \A i \in 1..Len(Target[p]) : i \in DOMAIN Device[p]
    BY Images DEF Origin
  <2>1. CASE UNCHANGED disks
    BY <2>0, <2>1 DEF Unsunk, Sunk, disks
  <2>2. CASE \A i \in DOMAIN Device[p] : /\ device'[p][i] \in {device[p][i], platter[p][i]}
                                         /\ platter'[p][i] \in {device[p][i], platter[p][i]}
    <3>1. CASE Unsunk(device, p) /\ Unsunk(platter, p)
      BY <2>2, <3>1 DEF Unsunk
    <3>2. CASE Sunk(device, p) /\ Sunk(platter, p)
      BY <2>0, <2>2, <3>2 DEF Sunk
    <3> QED BY <2>0, <3>1, <3>2
  <2>3. CASE PowerLoss
    BY <2>2, <2>3, LossDisk DEF IInv
  <2>4. CASE (Piece \/ Synced \/ Flawed) /\ p # tgt
    BY <2>2, <2>4, OtherPartition
  <2>5. CASE Synced
    BY <2>2, <2>5 DEF Synced
  <2>6. CASE Piece /\ p = tgt
    <3>1. /\ platter' = platter
          /\ \A i \in DOMAIN Device[p] :
               device'[p][i] = device[p][i] \/ (i \in 1..Len(Target[p]) /\ device'[p][i] = Target[p][i])
      BY <2>6, PieceDisk DEF Piece
    <3>2. CASE Unsunk(device, p) /\ Unsunk(platter, p)
      BY <3>1, <3>2 DEF Unsunk
    <3>3. CASE Sunk(device, p) /\ Sunk(platter, p)
      BY <2>0, <3>1, <3>3 DEF Sunk
    <3> QED BY <2>0, <3>2, <3>3
  <2>7. CASE Flawed /\ p = tgt
    <3>1. device' = platter' /\ \A i \in 1..Len(Target[p]) : device'[p][i] \in {device[p][i], Junk}
      BY <2>7, FlawDisk DEF Flawed
    <3>2. \A i \in 1..Len(Target[p]) : device[p][i] = Target[p][i]
      BY <2>7, SyncPlace DEF Flawed
    <3> QED BY <3>1, <3>2 DEF Sunk
  <2> QED BY <2>1, <2>3, <2>4, <2>5, <2>6, <2>7, DiskSteps
<1>2. ASSUME NEW j \in Patches
      PROVE  \/ Has(Device, Script[j].src, Source[Script[j].src])
             \/ blind' # {} \/ OnBoth(Script[j].tgt)'
  BY BlindStays, OnBothStable, PatchCall, PatchesWrite DEF Origin
<1> QED BY <1>1, <1>2 DEF Origin, Has

(* A source that the device shows, on a partition that is patched in place   *)
(* and not done, is on the medium as well.                                   *)
LEMMA SourceOnMedium ==
  ASSUME IInv, Origin, blind = {}, NEW j \in Patches, NEW p \in Parts, p = Script[j].src, p = Script[j].tgt,
         Has(device, p, Source[p]), ~Has(device, p, Target[p])
  PROVE  Has(platter, p, Source[p])
<1>1. /\ Len(Source[p]) \in Nat /\ Len(Target[p]) \in Nat
      /\ \A i \in 1..Len(Source[p]) : i \in DOMAIN Device[p] /\ i \in Nat /\ Source[p][i] # Junk
  <2>1. \A i \in 1..Len(Source[p]) : Source[p][i] # Junk
    BY ScriptAssumption, Images DEF ToSet
  <2> QED BY <2>1, Images
<1>2. Has(Device, p, Source[p])
  BY DEF Origin, OnBoth
<1>3. CASE Unsunk(device, p) /\ Unsunk(platter, p)
  <2> SUFFICES ASSUME NEW i \in 1..Len(Source[p]), platter[p][i] # Source[p][i] PROVE FALSE
    BY DEF Has
  <2>1. device[p][i] = Source[p][i] /\ Device[p][i] = Source[p][i] /\ i \in DOMAIN Device[p]
    BY <1>1, <1>2 DEF Has
  <2>2. device[p][i] = Target[p][i]
    BY <2>1 DEF IInv, OnMedium
  <2> QED BY <1>3, <2>1, <2>2 DEF Unsunk
<1>4. CASE Sunk(device, p) /\ Sunk(platter, p)
  <2>1. \A i \in 1..Len(Target[p]) : i <= Len(Source[p]) => Target[p][i] = Source[p][i]
    <3> TAKE i \in 1..Len(Target[p])
    <3> HAVE i <= Len(Source[p])
    <3>1. i \in 1..Len(Source[p])
      BY <1>1
    <3>2. device[p][i] = Source[p][i]
      BY <3>1, Zenon DEF Has
    <3>3. device[p][i] \in {Target[p][i], Junk}
      BY <1>4, Zenon DEF Sunk
    <3>4. Source[p][i] # Junk
      BY <1>1, <3>1, Zenon
    <3> QED BY <3>2, <3>3, <3>4, Zenon
  <2>2. CASE Len(Target[p]) <= Len(Source[p])
    <3>1. \A i \in 1..Len(Target[p]) : i \in 1..Len(Source[p])
      BY <1>1, <2>2
    <3> QED BY <2>1, <2>2, <3>1, <1>1 DEF Has
  <2>3. CASE ~(Len(Target[p]) <= Len(Source[p]))
    <3>1. Len(Source[p]) <= Len(Target[p]) /\ \A i \in 1..Len(Source[p]) : Target[p][i] = Source[p][i]
      BY <1>1, <2>1, <2>3
    <3>2. IsPrefix(Source[p], Target[p])
      BY <3>1, PrefixCells
    <3>3. Source[p] = Target[p]
      BY <3>2, ImageAssumption
    <3> QED BY <1>1, <2>3, <3>3
  <2> QED BY <2>2, <2>3
<1> QED BY <1>3, <1>4 DEF Origin

-----------------------------------------------------------------------------
LEMMA ReturnsOut == ASSUME NEW ok, Return(ok) PROVE pc' \in {"next", "failed"} /\ line' \in {line, line + 1}
BY DEF Return, Goto

(* The steps of a call that is going on.                                     *)
LEMMA InFileOutside == pc' \notin Loaded \cup Writing => InFile'
BY DEF InFile, Loaded, Writing

LEMMA InFileStep == IInv /\ InFile /\ [Next]_vars => InFile'
<1> SUFFICES ASSUME IInv, InFile, [Next]_vars, pc' \in Loaded \cup Writing PROVE InFile'
  BY InFileOutside
<1>1. CASE LoadSource
  <2>1. line \in Patches /\ TypeOK
    BY <1>1, Here, CallType DEF LoadSource, Call, IInv
  <2>2. /\ pc' = "room" /\ line' = line /\ UNCHANGED <<disks, cache>>
        /\ \/ Has(device, src, Source[src]) /\ copy' = FALSE
           \/ saved = Source[src] /\ copy' = TRUE
    BY <1>1, <2>1, LoadEnds, ReturnsOut DEF LoadSource, Goto, Loaded, Writing
  <2>3. src' = src /\ device' = device /\ saved' = saved
    BY <2>2 DEF src, Call, disks, cache
  <2> QED BY <2>2, <2>3 DEF InFile, Has, Writing
<1>2. CASE LoadImage
  <2>1. pc' = "write" /\ line' = line
    BY <1>2, ReturnsOut DEF LoadImage, Goto, Loaded, Writing
  <2>2. line \notin Patches
    BY <1>2 DEF LoadImage, Call, Patches
  <2> QED BY <2>1, <2>2 DEF InFile, Writing
<1>3. CASE MakeRoom
  <2>1. pc = "room" /\ pc' = "open" /\ UNCHANGED <<line, memory, disks, saved>>
    BY <1>3, ReturnsOut DEF MakeRoom, MakeFreeSpace, Goto, Loaded, Writing
  <2> QED BY <2>1 DEF InFile, src, Call, memory, disks, Has, Writing
<1>4. CASE OpenSaved
  <2>1. pc = "open" /\ pc' = "save" /\ saved' = <<>> /\ UNCHANGED <<line, memory, disks>>
    BY <1>4, ReturnsOut DEF OpenSaved, Goto, Loaded, Writing
  <2> QED BY <2>1 DEF InFile, src, Call, memory, disks, Has, Writing
<1>5. CASE SaveSource
  <2>1. pc = "save" /\ pc' = "apply" /\ saved' = data /\ undo' = data /\ UNCHANGED line
    BY <1>5, ReturnsOut DEF SaveSource, Goto, Loaded, Writing
  <2>2. data = Source[src] /\ src' = src
    BY <2>1 DEF IInv, InMemory, Loaded, src, Call
  <2> QED BY <2>1, <2>2 DEF InFile, SavedHas
<1>6. CASE ApplyInMemory \/ WritePiece \/ Verify
  <2>1. /\ pc \in {"apply"} \cup Writing /\ pc' \in Writing /\ UNCHANGED <<line, cache>>
    BY <1>6, ReturnsOut DEF ApplyInMemory, WritePiece, Verify, Goto, Loaded, Writing
  <2> QED BY <2>1 DEF InFile, SavedHas, src, Call, cache, Writing
<1>7. CASE SyncPartition
  <2>1. pc = "write" /\ pc' = "verify" /\ UNCHANGED <<line, saved>> /\ undo' = saved
    BY <1>7, ReturnsOut DEF SyncPartition, Goto, Loaded, Writing
  <2> QED BY <2>1 DEF InFile, SavedHas, src, Call, Writing
<1>8. CASE Rest \/ UNCHANGED vars
  <2>1. UNCHANGED <<pc, line, memory, disks, cache>>
    BY <1>8 DEF Rest, vars
  <2> QED BY <2>1 DEF InFile, SavedHas, src, Call, memory, disks, cache, Has
<1>9. CASE \/ ApplypatchCheck \/ ApplyPatchSpace \/ Begin \/ UnlinkSaved \/ ScriptEnds \/ Restart
           \/ PowerLoss
  BY <1>9, ReturnsOut DEF ApplypatchCheck, ApplyPatchSpace, Begin, UnlinkSaved, ScriptEnds, Restart,
                          PowerLoss, Goto, Loaded, Writing
<1> QED BY <1>1, <1>2, <1>3, <1>4, <1>5, <1>6, <1>7, <1>8, <1>9 DEF Next

-----------------------------------------------------------------------------
(* The script goes past a call that writes only when the target is there.    *)
LEMMA LineSteps ==
  ASSUME IInv, [Next]_vars, blind' = {}
  PROVE  line' \in {line, 1} \/ (line' = line + 1 /\ (line \in Writes => OnBoth(Script[line].tgt)))
<1>1. CASE ApplypatchCheck \/ ApplyPatchSpace
  <2>1. line \notin Writes
    BY <1>1 DEF ApplypatchCheck, ApplyPatchSpace, Call, Writes
  <2> QED BY <1>1, <2>1, ReturnsOut DEF ApplypatchCheck, ApplyPatchSpace
<1>2. CASE LoadSource \/ LoadImage
  <2>1. pc = "load" /\ tgt \in Parts /\ TypeOK /\ Target[tgt] # None
    BY <1>2, Here, Images DEF LoadSource, LoadImage, IInv
  <2>2. CASE Has(device, tgt, Target[tgt]) /\ Already /\ Return(TRUE)
    <3>1. Load(platter, tgt, {Target[tgt]}) # None
      BY <2>2 DEF Already
    <3>2. Has(platter, tgt, Target[tgt])
      BY <2>1, <3>1, LoadOne DEF TypeOK
    <3>3. OnBoth(Script[line].tgt)
      BY <2>2, <3>2 DEF OnBoth, tgt, Call
    <3> QED BY <2>2, <3>3, ReturnsOut
  <2>3. CASE line' = line
    BY <2>3
  <2>4. CASE LoadSource
    <3>1. line \in Patches
      BY <2>1, <2>4, Here, CallType DEF LoadSource, Call
    <3> QED BY <2>1, <2>2, <2>3, <2>4, <3>1, LoadEnds DEF Goto, Return
  <2>5. CASE LoadImage
    <3>1. Load(device, tgt, {Target[tgt]}) = Target[tgt] => Has(device, tgt, Target[tgt])
      BY <2>1, LoadOne DEF TypeOK
    <3> QED BY <2>2, <2>3, <2>5, <3>1 DEF LoadImage, Goto, Return
  <2> QED BY <1>2, <2>4, <2>5
<1>3. CASE UnlinkSaved
  <2>1. OnBoth(Script[line].tgt)
    BY <1>3 DEF UnlinkSaved, IInv, OnMedium, OnBoth, Has, tgt, Call
  <2> QED BY <1>3, <2>1, ReturnsOut DEF UnlinkSaved
<1>4. CASE MakeRoom \/ OpenSaved \/ SaveSource \/ ApplyInMemory \/ WritePiece \/ SyncPartition \/ Verify
  BY <1>4 DEF MakeRoom, OpenSaved, SaveSource, ApplyInMemory, WritePiece, SyncPartition, Verify,
              Return, Goto
<1>5. CASE Begin \/ ScriptEnds \/ Restart \/ PowerLoss \/ Rest \/ UNCHANGED vars
  BY <1>5 DEF Begin, ScriptEnds, Restart, PowerLoss, Rest, vars, Goto
<1> QED BY <1>1, <1>2, <1>3, <1>4, <1>5 DEF Next

LEMMA CutStays == [Next]_vars => (~cut' => ~cut)
<1> SUFFICES ASSUME [Next]_vars PROVE ~cut' => ~cut
  OBVIOUS
<1>1. CASE SaveSource
  <2>1. cut' = cut \/ cut' = (cut \/ copy)
    BY <1>1 DEF SaveSource
  <2> QED BY <2>1, Zenon
<1>2. CASE PowerLoss
  <2>1. cut' = (cut \/ (pc = "save" /\ copy))
    BY <1>2 DEF PowerLoss
  <2> QED BY <2>1, Zenon
<1>3. CASE ~SaveSource /\ ~PowerLoss
  <2>1. cut' = cut
    BY <1>3 DEF Next, ApplypatchCheck, ApplyPatchSpace, Begin, LoadSource, LoadImage, MakeRoom, OpenSaved,
                ApplyInMemory, WritePiece, SyncPartition, Verify, UnlinkSaved, ScriptEnds, Restart, Rest,
                vars, notes
  <2> QED BY <2>1, Zenon
<1> QED BY <1>1, <1>2, <1>3

(* The steps that change saved.file for good.                                *)
Saving == SaveSource /\ pc' = "apply" /\ UNCHANGED line /\ saved' = data /\ undo' = data
Opening == OpenSaved /\ pc' = "save" /\ UNCHANGED <<line, copy>> /\ saved' = <<>> /\ undo' = saved
LEMMA SavedSteps ==
  ASSUME [Next]_vars
  PROVE  \/ saved' \in {saved, undo} /\ undo' \in {saved, undo}
         \/ Opening \/ Saving \/ (UnlinkSaved /\ Call.op = "patch")
<1>1. CASE ApplypatchCheck \/ ApplyPatchSpace \/ Begin \/ MakeRoom \/ LoadSource \/ LoadImage
  BY <1>1 DEF ApplypatchCheck, ApplyPatchSpace, MakeFreeSpace, Begin, MakeRoom, LoadSource, LoadImage, cache
<1>2. CASE SaveSource \/ OpenSaved
  BY <1>2 DEF SaveSource, Saving, OpenSaved, Opening, Goto, memory
<1>3. CASE ApplyInMemory \/ WritePiece \/ Verify \/ UnlinkSaved \/ ScriptEnds \/ Restart
  BY <1>3 DEF ApplyInMemory, WritePiece, Verify, UnlinkSaved, ScriptEnds, Restart, cache
<1>4. CASE SyncPartition \/ PowerLoss
  BY <1>4 DEF SyncPartition, PowerLoss
<1>5. CASE Rest \/ UNCHANGED vars
  BY <1>5 DEF Rest, vars, cache
<1> QED BY <1>1, <1>2, <1>3, <1>4, <1>5 DEF Next

(* How a call comes to hold a saved source.                                  *)
LEMMA HoldingSteps ==
  ASSUME [Next]_vars, pc' \in {"apply"} \cup Writing, line' \in Patches
  PROVE  line' = line /\ (pc \in {"apply"} \cup Writing \/ Saving)
<1>1. CASE ApplypatchCheck \/ ApplyPatchSpace \/ Begin \/ MakeRoom \/ LoadSource \/ OpenSaved
  BY <1>1, ReturnsOut DEF ApplypatchCheck, ApplyPatchSpace, Begin, MakeRoom, LoadSource, LoadFrom, OpenSaved,
                          Goto, Writing
<1>2. CASE LoadImage
  <2>1. line \notin Patches
    BY <1>2 DEF LoadImage, Call, Patches
  <2> QED BY <1>2, <2>1, ReturnsOut DEF LoadImage, Goto, Writing
<1>3. CASE SaveSource
  BY <1>3, ReturnsOut DEF SaveSource, Saving, Goto, Writing
<1>4. CASE ApplyInMemory \/ WritePiece \/ SyncPartition \/ Verify
  BY <1>4, ReturnsOut DEF ApplyInMemory, WritePiece, SyncPartition, Verify, Goto, Writing
<1>5. CASE UnlinkSaved \/ ScriptEnds \/ Restart \/ PowerLoss
  BY <1>5, ReturnsOut DEF UnlinkSaved, ScriptEnds, Restart, PowerLoss, Goto, Writing
<1>6. CASE Rest \/ UNCHANGED vars
  BY <1>6 DEF Rest, vars
<1> QED BY <1>1, <1>2, <1>3, <1>4, <1>5, <1>6 DEF Next

(* A copy of saved.file is written back, or the run notes that it was cut.   *)
LEMMA WindowSteps ==
  ASSUME [Next]_vars, pc = "save", copy, ~cut'
  PROVE  Saving \/ UNCHANGED <<pc, line, copy>>
<1>1. CASE SaveSource
  <2>1. Saving \/ cut' = (cut \/ copy)
    BY <1>1 DEF SaveSource, Saving, Goto
  <2> QED BY <2>1, Zenon
<1>2. CASE PowerLoss
  <2>1. cut' = (cut \/ (pc = "save" /\ copy))
    BY <1>2 DEF PowerLoss
  <2> QED BY <2>1, Zenon
<1>3. CASE Rest \/ UNCHANGED vars
  BY <1>3 DEF Rest, vars, memory
<1>4. CASE ~SaveSource /\ ~PowerLoss /\ ~Rest /\ ~UNCHANGED vars
  BY <1>4 DEF Next, ApplypatchCheck, ApplyPatchSpace, Begin, LoadSource, LoadImage, MakeRoom, OpenSaved,
              ApplyInMemory, WritePiece, SyncPartition, Verify, UnlinkSaved, ScriptEnds, Restart
<1> QED BY <1>1, <1>2, <1>3, <1>4

(* Every patch keeps a way to be done.                                       *)
LEMMA WayStep ==
  ASSUME IInv, InFile, Origin, [Next]_vars, ~cut', blind = {}, Before(line), NEW j \in Patches, Way(j)
  PROVE  Way(j)'
<1> DEFINE p == Script[j].src
           q == Script[j].tgt
           Held == {"apply"} \cup Writing
<1>1. /\ p \in Parts /\ q \in Parts /\ j \in Writes /\ j \in Nat /\ line \in Nat
      /\ Source[p] # <<>> /\ j \in DOMAIN Script
  <2>1. p \in Parts /\ q \in Parts /\ j \in Writes /\ j \in Nat /\ j \in DOMAIN Script
    BY PatchCall, PatchesWrite
  <2>2. Len(Source[p]) # 0
    BY <2>1, Images
  <2> QED BY <2>1, <2>2 DEF IInv, TypeOK
<1>2. ASSUME OnBoth(q) PROVE Way(j)'
  BY <1>1, <1>2, OnBothStable DEF Way
<1>3. ASSUME j < line PROVE Way(j)'
  BY <1>1, <1>2, <1>3 DEF Before
<1>4. Before(j) => Before(j)'
  BY BeforeStable DEF Before
<1>5. ASSUME p = q, Before(j), SavedHas(p)', pc' \in Held /\ line' \in Patches => j <= line'
      PROVE  Way(j)'
  BY <1>4, <1>5 DEF Way
<1>6. CASE Fresh(p)
  <2>1. CASE ~((Piece \/ Synced \/ Flawed) /\ p = tgt)
    BY <1>1, <1>6, <2>1, FreshStable DEF Way
  <2>2. CASE (Piece \/ Synced \/ Flawed) /\ p = tgt
    <3>1. line \in Writes /\ ~(line < j)
      BY <2>2, SyncPlace, ScriptAssumption DEF tgt, Call
    <3>2. CASE line = j
      <4>1. p = q /\ src = p /\ line \in Patches
        BY <2>2, <3>2 DEF tgt, src, Call
      <4>2. pc = "write" /\ line' = line /\ saved' = saved /\ undo' \in {saved, undo}
        BY <2>2 DEF Piece, Synced, Flawed
      <4>3. SavedHas(p)'
        BY <4>1, <4>2 DEF InFile, SavedHas, Writing
      <4>4. j <= line'
        BY <1>1, <3>2, <4>2
      <4>5. Before(j)
        BY <3>2
      <4> QED BY <1>5, <4>1, <4>3, <4>4, <4>5
    <3> QED BY <1>1, <1>3, <3>1, <3>2
  <2> QED BY <2>1, <2>2
<1>7. CASE /\ p = q /\ Before(j) /\ (pc \in Held /\ line \in Patches => j <= line)
           /\ SavedHas(p) \/ (pc = "save" /\ copy /\ line = j)
  <2>1. CASE Saving
    <3>1. pc = "save" /\ line \in Patches /\ data = Source[src] /\ saved = <<>>
      BY <2>1 DEF Saving, SaveSource, IInv, InMemory, InFile, Loaded
    <3>2. line = j
      BY <1>1, <1>7, <3>1 DEF SavedHas
    <3>3. SavedHas(p)' /\ j <= line'
      BY <1>1, <2>1, <3>1, <3>2 DEF Saving, SavedHas, src, Call
    <3> QED BY <1>5, <1>7, <3>3
  <2>2. CASE ~Saving /\ pc = "save" /\ copy /\ line = j
    <3>1. UNCHANGED <<pc, line, copy>>
      BY <2>2, WindowSteps
    <3>2. pc' = "save" /\ copy' /\ line' = j
      BY <2>2, <3>1
    <3> QED BY <1>4, <1>7, <3>2 DEF Way, Writing
  <2>3. CASE ~Saving /\ SavedHas(p)
    <3>1. pc' \in Held /\ line' \in Patches => j <= line'
      BY <1>7, <2>3, HoldingSteps
    <3>2. CASE saved' \in {saved, undo} /\ undo' \in {saved, undo}
      <4>1. SavedHas(p)'
        BY <2>3, <3>2 DEF SavedHas
      <4> QED BY <1>5, <1>7, <3>1, <4>1
    <3>3. CASE Opening
      <4>1. /\ pc = "open" /\ pc' = "save" /\ line' = line /\ copy' = copy /\ UNCHANGED disks
            /\ line \in Patches /\ ~Has(device, tgt, Target[tgt])
        BY <3>3 DEF Opening, OpenSaved, IInv, InMemory, OnMedium, Loaded
      <4>2. line \in Writes /\ ~(line < j)
        <5>1. line \in Writes
          BY <4>1, PatchesWrite
        <5>2. ~OnBoth(Script[line].tgt)
          BY <4>1 DEF OnBoth, tgt, Call
        <5> QED BY <1>7, <5>1, <5>2 DEF Before
      <4>3. CASE line = j /\ copy
        <5>1. copy' /\ pc' = "save" /\ line' = j
          BY <4>1, <4>3
        <5> QED BY <1>4, <1>7, <5>1 DEF Way, Writing
      <4>4. CASE line = j /\ ~copy
        <5>1. src = p /\ tgt = p
          BY <1>7, <4>4 DEF src, tgt, Call
        <5>2. Has(device, p, Source[p])
          BY <4>1, <4>4, <5>1 DEF InFile
        <5>3. Has(platter, p, Source[p])
          BY <1>1, <1>7, <4>1, <5>1, <5>2, SourceOnMedium
        <5>4. Fresh(p)'
          BY <4>1, <5>2, <5>3 DEF Fresh, Has, disks
        <5> QED BY <5>4 DEF Way
      <4> QED BY <1>1, <1>3, <4>2, <4>3, <4>4
    <3>4. CASE UnlinkSaved /\ Call.op = "patch"
      <4>1. pc = "unlink" /\ line \in Patches /\ OnBoth(tgt)
        BY <3>4, Here, CallType DEF UnlinkSaved, IInv, OnMedium, OnBoth, Has, Call, Writing
      <4>2. j <= line
        BY <1>7, <4>1 DEF Writing
      <4>3. line = j => OnBoth(q)
        BY <4>1 DEF tgt, Call
      <4> QED BY <1>1, <1>2, <1>3, <4>2, <4>3
    <3> QED BY <2>3, <3>2, <3>3, <3>4, SavedSteps
  <2> QED BY <1>7, <2>1, <2>2, <2>3
<1> QED BY <1>2, <1>6, <1>7 DEF Way

LEMMA SurvivalStep == IInv /\ InFile /\ Origin /\ Survival /\ [Next]_vars => Survival'
<1> SUFFICES ASSUME IInv, InFile, Origin, Survival, [Next]_vars, ~cut', blind' = {}
             PROVE  Before(line)' /\ \A j \in Patches : Way(j)'
  BY DEF Survival
<1>1. blind = {} /\ Before(line) /\ \A j \in Patches : Way(j)
  BY BlindStays, CutStays DEF Survival
<1>2. Before(line)'
  <2> SUFFICES ASSUME NEW k \in Writes, k < line' PROVE OnBoth(Script[k].tgt)'
    BY DEF Before
  <2>1. k \in Nat \ {0} /\ Script[k].tgt \in Parts /\ line \in Nat
    BY PatchCall DEF IInv, TypeOK
  <2>2. OnBoth(Script[k].tgt)
    <3>1. CASE k < line
      BY <1>1, <3>1 DEF Before
    <3>2. CASE ~(k < line)
      <4>1. line' = line + 1 /\ k = line
        BY <2>1, <3>2, LineSteps
      <4> QED BY <2>1, <4>1, LineSteps
    <3> QED BY <3>1, <3>2
  <2> QED BY <1>1, <2>1, <2>2, OnBothStable
<1>3. \A j \in Patches : Way(j)'
  BY <1>1, WayStep
<1> QED BY <1>2, <1>3

LEMMA InitFull == Init => InFile /\ Origin /\ Survival
<1> SUFFICES ASSUME Init PROVE InFile /\ Origin /\ Survival
  OBVIOUS
<1>1. InFile
  BY DEF Init, InFile, Writing
<1>2. device = Device /\ platter = Device /\ line = 1
  BY DEF Init
<1>3. ASSUME NEW j \in Patches
      PROVE  \/ OnBoth(Script[j].tgt)
             \/ Fresh(Script[j].src) /\ Has(Device, Script[j].src, Source[Script[j].src])
  <2>1. Script[j].src \in Parts /\ Script[j].tgt \in Parts
    BY PatchCall, PatchesWrite
  <2>2. CASE IsPrefix(Source[Script[j].src], Device[Script[j].src])
    <3>1. Has(Device, Script[j].src, Source[Script[j].src])
      BY <2>1, <2>2, PrefixCells DEF Has
    <3> QED BY <1>2, <3>1 DEF Fresh
  <2>3. CASE IsPrefix(Target[Script[j].tgt], Device[Script[j].tgt])
    <3>1. Has(Device, Script[j].tgt, Target[Script[j].tgt])
      BY <2>1, <2>3, PrefixCells DEF Has
    <3> QED BY <1>2, <3>1 DEF OnBoth
  <2> QED BY <2>2, <2>3, ScriptAssumption
<1>4. Origin
  BY <1>2, <1>3 DEF Origin, Unsunk
<1>5. Before(line)
  BY <1>2, PatchCall DEF Before
<1> QED BY <1>1, <1>3, <1>4, <1>5 DEF Survival, Way

LEMMA FullInvariance == Spec => []IFull
<1>1. Init => IFull
  BY InitIInv, InitFull DEF IFull
<1>2. IFull /\ [Next]_vars => IFull'
  BY NextIInv, InFileStep, OriginStep, SurvivalStep DEF IFull
<1> QED BY <1>1, <1>2, PTL DEF Spec

(* Whenever the script has to start again, each partition that it patches    *)
(* holds its target, or its source is still on its partition or in           *)
(* saved.file, however often power was lost and whichever calls failed; but  *)
(* for a copy of saved.file that was cut while it replaced the original, an  *)
(* fsync that failed, and a failed read of a partition that had its target   *)
(* (applypatch.cpp, GenerateTarget and applypatch).                          *)
THEOREM SourcesSurvive == Spec => []SourceSurvives
<1>1. IFull => SourceSurvives
  <2> SUFFICES ASSUME IFull, ~cut, blind = {}, pc \in {"boot", "failed"}, NEW p \in Patched
               PROVE  LET from == CallFor(p).src
                      IN  \/ Holds(device, p, Target[p])
                          \/ Holds(device, from, Source[from])
                          \/ saved = Source[from]
    BY DEF SourceSurvives, NeverUnrecoverable
  <2> DEFINE j == CHOOSE i \in Patches : Script[i].tgt = p
  <2>1. j \in Patches /\ Script[j].tgt = p /\ CallFor(p) = Script[j]
    BY DEF Patched, CallFor
  <2> HIDE DEF j
  <2>2. p \in Parts /\ Script[j].src \in Parts /\ IsDisk(device)
    BY <2>1, PatchCall, PatchesWrite DEF IFull, IInv, TypeOK
  <2>3. Way(j)
    BY <2>1 DEF IFull, Survival
  <2>4. Has(device, p, Target[p]) \/ Has(device, Script[j].src, Source[Script[j].src])
        \/ saved = Source[Script[j].src]
    BY <2>1, <2>3 DEF Way, OnBoth, Fresh, SavedHas
  <2> QED BY <2>1, <2>2, <2>4, HoldsCells
<1> QED BY <1>1, FullInvariance, PTL

-----------------------------------------------------------------------------
(* Why a script fails.                                                       *)

(* A partition that the script never writes stays as it was.                 *)
Untouched(p) == \A i \in DOMAIN Device[p] : device[p][i] = Device[p][i] /\ platter[p][i] = Device[p][i]
LeftAlone == \A p \in Parts : (\A k \in Writes : Script[k].tgt # p) => Untouched(p)

Excused == NoRoom \/ (Call.op = "check" /\ ~Repeatable(Call))

(* Without errors only the partition being written is ahead of the medium,   *)
(* what is written reads back, nothing was taken for done on the word of the *)
(* page cache, and only two things make a call fail.                         *)
Untroubled ==
  /\ blind = {} /\ (pc = "failed" => Excused)
  /\ pc # "write" => platter = device
  /\ pc = "verify" => Has(device, tgt, Target[tgt])
IReason == LeftAlone /\ (errors = 0 /\ ~cut => Untroubled)

LEMMA LeftAloneStep == ASSUME IInv, LeftAlone, [Next]_vars PROVE LeftAlone'
<1> SUFFICES ASSUME NEW p \in Parts, \A k \in Writes : Script[k].tgt # p PROVE Untouched(p)'
  BY DEF LeftAlone
<1>1. Untouched(p)
  BY DEF LeftAlone
<1>2. CASE UNCHANGED disks
  BY <1>1, <1>2 DEF Untouched, disks
<1>3. CASE PowerLoss
  BY <1>1, <1>3, LossDisk DEF Untouched, IInv
<1>4. CASE Piece \/ Synced \/ Flawed
  <2>1. p # tgt
    BY <1>4, SyncPlace DEF tgt, Call
  <2> QED BY <1>1, <1>4, <2>1, OtherPartition DEF Untouched
<1> QED BY <1>2, <1>3, <1>4, DiskSteps

LEMMA ErrorsCount ==
  ASSUME TypeOK, [Next]_vars, errors' = 0 PROVE errors = 0 /\ ~Fails
<1>1. errors \in Nat
  BY PartAssumption DEF TypeOK
<1>2. ~Fails
  BY <1>1 DEF Fails
<1>3. errors' = errors
  <2>1. CASE ApplypatchCheck \/ ApplyPatchSpace \/ Begin \/ LoadSource \/ LoadImage \/ MakeRoom
    BY <1>2, <2>1 DEF ApplypatchCheck, ApplyPatchSpace, Begin, LoadSource, LoadImage, MakeRoom
  <2>2. CASE OpenSaved \/ SaveSource \/ ApplyInMemory \/ WritePiece \/ SyncPartition \/ Verify
    BY <1>2, <2>2 DEF OpenSaved, SaveSource, ApplyInMemory, WritePiece, SyncPartition, Verify
  <2>3. CASE UnlinkSaved \/ ScriptEnds \/ Restart \/ PowerLoss \/ Rest \/ UNCHANGED vars
    BY <2>3 DEF UnlinkSaved, ScriptEnds, Restart, PowerLoss, Rest, vars
  <2> QED BY <2>1, <2>2, <2>3 DEF Next
<1> QED BY <1>2, <1>3

(* A check finds an untouched partition as it was at first.                  *)
LEMMA UntouchedPasses ==
  ASSUME TypeOK, NEW i \in DOMAIN Script, Script[i].op = "check", Untouched(Script[i].src)
  PROVE  OnPartition(device, Script[i])
<1> DEFINE p == Script[i].src
<1>1. p \in Parts /\ IsDisk(device)
  BY CallType DEF TypeOK
<1>2. /\ device[p] \in Seq(Pieces) /\ Device[p] \in Seq(Pieces) /\ Len(device[p]) = Len(Device[p])
      /\ \A k \in 1..Len(device[p]) : device[p][k] = Device[p][k]
  BY <1>1, Images DEF IsDisk, Untouched
<1>3. device[p] = Device[p]
  BY <1>2, SeqEqual, Zenon
<1>4. Load(device, p, SourceNameOf(Script[i])) = Load(Device, p, SourceNameOf(Script[i]))
  BY <1>3 DEF Load
<1>5. OnPartition(Device, Script[i])
  BY ScriptAssumption
<1> QED BY <1>4, <1>5 DEF OnPartition

(* Every check that can be repeated passes.                                  *)
LEMMA ChecksPass ==
  ASSUME IFull, LeftAlone, Untroubled, ~cut, pc = "next", line \in DOMAIN Script,
         Call.op = "check", Repeatable(Call)
  PROVE  CheckPasses
<1>1. /\ src \in Parts /\ tgt \in Parts /\ TypeOK /\ Call = Script[line]
      /\ src = Call.src /\ tgt = Call.tgt /\ IsDisk(device)
  BY CallType DEF src, tgt, Call, IFull, IInv, TypeOK
<1>2. CASE \A k \in Writes : Script[k].tgt # src
  <2>1. Untouched(src)
    BY <1>1, <1>2 DEF LeftAlone
  <2> QED BY <1>1, <2>1, UntouchedPasses DEF CheckPasses, PartitionPasses
<1>3. CASE /\ src = tgt /\ {Source[src], Target[src]} \subseteq Call.sha1
           /\ \E k \in Patches : Script[k].src = src /\ Script[k].tgt = src
  <2>1. PICK j \in Patches : Script[j].src = src /\ Script[j].tgt = src
    BY <1>3
  <2>2. Way(j)
    BY Zenon DEF IFull, Survival, Untroubled
  <2>3. \/ Has(device, src, Source[src]) \/ Has(device, src, Target[src])
        \/ saved = Source[src]
    BY <2>1, <2>2, Zenon DEF Way, OnBoth, Fresh, SavedHas
  <2>4. CASE saved = Source[src]
    BY <1>1, <1>3, <2>4, Images DEF CheckPasses, SavedPasses
  <2>5. CASE Has(device, src, Source[src]) \/ Has(device, src, Target[src])
    <3>1. SourceNameOf(Call) = {Source[src], Target[src]}
      BY <1>1, <1>3 DEF SourceNameOf
    <3>2. Load(device, src, SourceNameOf(Call)) \in {Source[src], Target[src]}
      BY <1>1, <2>5, <3>1, LoadTwo
    <3>3. OnPartition(device, Call)
      BY <1>1, <1>3, <3>2, Images DEF OnPartition
    <3> QED BY <3>3 DEF CheckPasses, PartitionPasses
  <2> QED BY <2>3, <2>4, <2>5
<1> QED BY <1>1, <1>2, <1>3 DEF Repeatable

(* Every patch finds its target, or its source on the device or on /cache.   *)
LEMMA PatchFinds ==
  ASSUME IFull, Untroubled, ~cut, pc = "load", line \in Patches
  PROVE  LET t == Load(device, tgt, TargetName)
             s == Load(device, src, SourceName)
         IN  \/ t = Target[tgt] \/ Found(IF t # None /\ src = tgt THEN t ELSE s) \/ Found(saved)
<1> DEFINE t == Load(device, tgt, TargetName)
           s == Load(device, src, SourceName)
<1>1. /\ src \in Parts /\ tgt \in Parts /\ IsDisk(device) /\ TypeOK
      /\ src = Script[line].src /\ tgt = Script[line].tgt
  BY PatchCall, PatchesWrite DEF IFull, IInv, TypeOK, src, tgt, Call
<1>2. (t = Target[tgt] <=> Has(device, tgt, Target[tgt])) /\ (src = tgt => s = t)
  BY <1>1, LoadSees
<1>3. Way(line)
  BY Zenon DEF IFull, Survival, Untroubled
<1>4. Has(device, tgt, Target[tgt]) \/ Has(device, src, Source[src]) \/ saved = Source[src]
  BY <1>1, <1>3 DEF Way, OnBoth, Fresh, SavedHas
<1>5. ASSUME Has(device, src, Source[src]), t # Target[tgt] PROVE s = Source[src]
  <2>1. CASE src # tgt
    <3>1. SourceName = {Source[src]}
      BY <2>1 DEF SourceName, SourceNameOf, src, tgt
    <3> QED BY <1>1, <1>5, <3>1, LoadOne
  <2>2. CASE src = tgt
    <3>1. SourceName = {Source[src], Target[src]}
      BY <2>2 DEF SourceName, SourceNameOf, src, tgt
    <3>2. s \in {Source[src], Target[src]}
      BY <1>1, <1>5, <3>1, LoadTwo
    <3> HIDE DEF s, t
    <3> QED BY <1>2, <1>5, <2>2, <3>2
  <2> QED BY <2>1, <2>2
<1> HIDE DEF s, t
<1> QED BY <1>2, <1>4, <1>5 DEF Found, s, t

(* MakeFreeSpaceOnCache gives up.                                            *)
LEMMA GivesUp ==
  ASSUME NEW n, MakeFreeSpace(n), ~HasSpace(saved, deleted, n)
  PROVE  ~(FreeSpace(saved', deleted') >= n)
BY DEF MakeFreeSpace, HasSpace

LEMMA UntroubledStep ==
  ASSUME IFull, IReason, [Next]_vars, errors' = 0, ~cut'
  PROVE  Untroubled'
<1>1. /\ ~Fails /\ ~cut /\ Untroubled /\ LeftAlone /\ IInv /\ TypeOK /\ InFile
      /\ blind = {}
  BY ErrorsCount, CutStays DEF IReason, Untroubled, IFull, IInv
(* Outside of a write or of reading back it is enough that the disks agree.  *)
<1>2. ASSUME UNCHANGED <<disks, blind>>, pc # "write", pc' # "verify", pc' = "failed" => Excused'
      PROVE  Untroubled'
  BY <1>1, <1>2 DEF Untroubled, disks
<1>3. CASE ApplypatchCheck
  <2>1. pc = "next" /\ line \in DOMAIN Script /\ Call.op = "check" /\ UNCHANGED <<disks, blind>>
    BY <1>3, <1>1, PartAssumption DEF ApplypatchCheck, TypeOK, notes
  <2>2. pc' = "failed" => line' = line /\ ~CheckPasses
    BY <1>1, <1>3 DEF ApplypatchCheck, Return, Goto
  <2>3. pc' = "failed" => Excused'
    BY <1>1, <2>1, <2>2, ChecksPass DEF Excused, Call
  <2>4. pc' # "verify"
    BY <1>3, ReturnsOut DEF ApplypatchCheck
  <2> QED BY <1>2, <2>1, <2>3, <2>4
<1>4. CASE ApplyPatchSpace
  <2>1. pc = "next" /\ Call.op = "space" /\ UNCHANGED <<disks, blind>>
    BY <1>4 DEF ApplyPatchSpace, notes
  <2>2. pc' = "failed" => /\ line' = line /\ ~HasSpace(saved, deleted, Call.bytes)
                          /\ MakeFreeSpace(Call.bytes)
    BY <1>4 DEF ApplyPatchSpace, Return, Goto
  <2>3. pc' = "failed" => Excused'
    <3> SUFFICES ASSUME pc' = "failed" PROVE Excused'
      OBVIOUS
    <3>1. ~(FreeSpace(saved', deleted') >= Call.bytes)
      BY <2>2, GivesUp
    <3>2. Call' = Call
      BY <2>2 DEF Call
    <3> QED BY <2>1, <3>1, <3>2 DEF Excused, NoRoom
  <2>4. pc' # "verify"
    BY <1>4, ReturnsOut DEF ApplyPatchSpace
  <2> QED BY <1>2, <2>1, <2>3, <2>4
<1>5. CASE LoadSource
  <2> DEFINE t == Load(device, tgt, TargetName)
             s == Load(device, src, SourceName)
  <2>1. pc = "load" /\ line \in Patches /\ UNCHANGED disks /\ tgt \in Parts
    BY <1>1, <1>5, Here, CallType DEF LoadSource, Call
  <2>2. t = Target[tgt] \/ Found(IF t # None /\ src = tgt THEN t ELSE s) \/ Found(saved)
    BY <1>1, <2>1, PatchFinds
  <2>3. t = Target[tgt] <=> Has(device, tgt, Target[tgt])
    BY <1>1, <2>1, LoadSees
  <2> HIDE DEF t, s
  <2>4. LoadFrom(t, s, saved)
    BY <1>1, <1>5 DEF LoadSource, t, s
  <2>5. \/ t = Target[tgt] /\ Already /\ Return(TRUE)
        \/ t # Target[tgt] /\ Missed /\ Goto("room")
    BY <2>2, <2>4, Zenon DEF LoadFrom
  <2>6. ASSUME t = Target[tgt], Already PROVE blind' = blind
    <3>1. Has(platter, tgt, Target[tgt])
      BY <1>1, <2>1, <2>3, <2>6 DEF Untroubled
    <3>2. Load(platter, tgt, {Target[tgt]}) # None
      BY <1>1, <2>1, <3>1, LoadOne, Images DEF TypeOK
    <3> QED BY <2>6, <3>2 DEF Already
  <2>7. ASSUME t # Target[tgt], Missed PROVE blind' = blind
    BY <1>1, <2>1, <2>3, <2>7, MissedBlind
  <2>8. pc' \in {"next", "room"}
    BY <2>5 DEF Return, Goto
  <2> QED BY <1>2, <2>1, <2>5, <2>6, <2>7, <2>8
<1>6. CASE LoadImage
  <2>1. pc = "load" /\ UNCHANGED disks /\ tgt \in Parts
    BY <1>1, <1>6, Here DEF LoadImage
  <2>2. \/ Load(device, tgt, {Target[tgt]}) = Target[tgt] /\ Already /\ pc' = "next"
        \/ Load(device, tgt, {Target[tgt]}) = None /\ Missed /\ pc' = "write"
    BY <1>1, <1>6 DEF LoadImage, Return, Goto
  <2>3. ASSUME Load(device, tgt, {Target[tgt]}) = Target[tgt], Already PROVE blind' = blind
    <3>1. Load(platter, tgt, {Target[tgt]}) = Target[tgt] /\ Target[tgt] # None
      BY <1>1, <2>1, <2>3, Images DEF Untroubled
    <3> QED BY <2>3, <3>1 DEF Already
  <2>4. ASSUME Load(device, tgt, {Target[tgt]}) = None, Missed PROVE blind' = blind
    BY <2>4 DEF Missed
  <2> QED BY <1>2, <2>1, <2>2, <2>3, <2>4
<1>7. CASE MakeRoom
  <2>1. pc = "room" /\ Call.op = "patch" /\ data = Source[src] /\ UNCHANGED <<disks, blind>>
    BY <1>1, <1>7 DEF MakeRoom, IInv, InMemory, Loaded, Patches, Call, notes
  <2>2. pc' = "failed" => /\ line' = line /\ ~HasSpace(saved, deleted, Len(data))
                          /\ MakeFreeSpace(Len(data))
    BY <1>7 DEF MakeRoom, Return, Goto
  <2>3. pc' = "failed" => Excused'
    <3> SUFFICES ASSUME pc' = "failed" PROVE Excused'
      OBVIOUS
    <3>1. ~(FreeSpace(saved', deleted') >= Len(Source[src]))
      BY <2>1, <2>2, GivesUp
    <3>2. Call' = Call /\ src' = src
      BY <2>2 DEF Call, src
    <3> QED BY <2>1, <3>1, <3>2 DEF Excused, NoRoom
  <2>4. pc' # "verify"
    BY <1>7, ReturnsOut DEF MakeRoom, Goto
  <2> QED BY <1>2, <2>1, <2>3, <2>4
<1>8. CASE OpenSaved \/ SaveSource \/ ApplyInMemory \/ Begin
  <2>1. pc \in {"next", "open", "save", "apply"} /\ pc' \in {"load", "save", "apply", "write"}
        /\ UNCHANGED <<disks, blind>>
    BY <1>1, <1>8 DEF OpenSaved, SaveSource, ApplyInMemory, Begin, Goto, notes
  <2> QED BY <1>2, <2>1
<1>9. CASE WritePiece
  <2>1. pc' = "write" /\ blind' = blind
    BY <1>1, <1>9 DEF WritePiece, Goto, notes
  <2> QED BY <1>1, <2>1 DEF Untroubled
<1>10. CASE SyncPartition
  <2>1. pc = "write" /\ start = Len(data) /\ pc' = "verify" /\ line' = line /\ UNCHANGED <<device, blind>>
        /\ platter' = device
    BY <1>1, <1>10 DEF SyncPartition, Goto
  <2>2. Has(device, tgt, Target[tgt])
    BY <1>1, <2>1 DEF IInv, InMemory, Writing, Has
  <2>3. Has(device, tgt, Target[tgt])'
    BY <2>1, <2>2 DEF Has, tgt, Call
  <2> QED BY <1>1, <2>1, <2>3 DEF Untroubled
<1>11. CASE Verify
  <2>1. pc = "verify" /\ UNCHANGED <<disks, blind>> /\ data = Target[tgt]
    BY <1>1, <1>11 DEF Verify, IInv, InMemory, Writing, notes
  <2>2. Differs = {}
    BY <1>1, <2>1 DEF Differs, Untroubled, Has
  <2>3. pc' = "unlink"
    BY <1>1, <1>11, <2>2 DEF Verify, Goto
  <2> QED BY <1>2, <2>1, <2>3
<1>12. CASE UnlinkSaved \/ ScriptEnds \/ Restart
  <2>1. pc \in {"unlink", "next", "boot", "failed"} /\ pc' \in {"next", "done"} /\ UNCHANGED <<disks, blind>>
    BY <1>12 DEF UnlinkSaved, ScriptEnds, Restart, Return, Goto, notes
  <2> QED BY <1>2, <2>1
<1>13. CASE PowerLoss
  <2>1. pc' = "boot" /\ device' = platter' /\ blind' = blind
    BY <1>13 DEF PowerLoss
  <2> QED BY <1>1, <2>1 DEF Untroubled
<1>14. CASE Rest \/ UNCHANGED vars
  <2>1. UNCHANGED <<pc, line, disks, blind, saved, deleted>>
    BY <1>14 DEF Rest, vars, notes, cache
  <2>2. Excused => Excused'
    BY <2>1 DEF Excused, NoRoom, Repeatable, Call, src
  <2> QED BY <1>1, <2>1, <2>2 DEF Untroubled, disks, Has, tgt, Call
<1> QED BY <1>3, <1>4, <1>5, <1>6, <1>7, <1>8, <1>9, <1>10, <1>11, <1>12, <1>13, <1>14 DEF Next

LEMMA InitReason == ASSUME Init PROVE IReason
BY DEF Init, IReason, LeftAlone, Untouched, Untroubled

(* Power losses alone never make a script fail that is made for the device:  *)
(* however often power is lost, every patch and every check that can be      *)
(* repeated finds what it needs (applypatch.cpp, applypatch_check and        *)
(* applypatch).  What remains: a failing call or bad write, a save that was  *)
(* cut while it replaced the one copy of a source, a /cache without room     *)
(* (freecache.cpp, MakeFreeSpaceOnCache), and a check that does not list     *)
(* both hashes of a partition which the script rewrites.                     *)
THEOREM LossesAreNoFailures == Spec => []FailsForAReason
<1>1. Init => IFull /\ IReason
  BY InitIInv, InitFull, InitReason DEF IFull
<1>2. IFull /\ IReason /\ [Next]_vars => IFull' /\ IReason'
  BY NextIInv, InFileStep, OriginStep, SurvivalStep, LeftAloneStep, UntroubledStep DEF IFull, IReason
<1>3. IFull /\ IReason => FailsForAReason
  <2> SUFFICES ASSUME IFull, IReason, pc = "failed", ~cut, ~(errors > 0) PROVE Excused
    BY DEF FailsForAReason, Excused
  <2>1. errors = 0
    BY PartAssumption DEF IFull, IInv, TypeOK
  <2> QED BY <2>1 DEF IReason, Untroubled
<1> QED BY <1>1, <1>2, <1>3, PTL DEF Spec

=============================================================================
