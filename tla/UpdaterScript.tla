----------------------------- MODULE UpdaterScript -----------------------------
(***************************************************************************)
(* The updater binary evaluating a script: edify/expr.cpp and the script   *)
(* functions of updater/install.cpp, with the end of updater.cpp's main,   *)
(* on a device that may lose power at any point and, through reboot_now,   *)
(* installs a package in stages.  The block image functions and            *)
(* apply_patch have modules of their own; here block_image_update is only  *)
(* what the script sees of it.                                             *)
(*                                                                         *)
(* An expression is a record [fn, name, argv].  The C++ call stack is      *)
(* stack: one frame per function being evaluated, with the values of the   *)
(* arguments it has read so far; ret is the value just returned.           *)
(* disk is the volume the script works on, as the kernel shows it, and     *)
(* undo the states a power loss may leave of it.                           *)
(***************************************************************************)
EXTENDS Integers, Sequences, FiniteSets, SequencesExt

CONSTANTS
  Scripts,      \* records [root, ok, parts, files, mounts]: a script and what it promises
  MountPoint,   \* of the volume
  Paths, Parents, \* files of the volume, and the directories above each
  Files,        \* Files[p]: the volume at first
  FsType,       \* the type of its file system
  Parts,        \* raw partitions: [boot, recovery, ...] and what they hold
  Images,       \* Images[i]: "system" or "recovery" when that image boots
  Package,      \* Package[e]: data of an entry
  PackageDirs,  \* PackageDirs[d]: sequence of [dest, data] below a directory
  Props, FileProps, \* system properties; FileProps[data]: those of a file
  Number,       \* Number[s]: the value of the strings that are numbers
  Null, Idle,
  MaxLosses,    \* bound: power losses
  MaxErrors     \* bound: failing calls

ASSUME UpdaterAssumption == Null # Idle

VARIABLES
  script, pc,
  stack, ret,
  errmsg, cause_code,
  job, torn,    \* entries still to extract; has the first been opened?
  disk, undo, ram, mounted, fstype,
  part, bcb, reason, \* reason: what the reboot property asked for
  pipe, have_eio_error, patched, losses, errors

eval == <<stack, ret, errmsg, cause_code>>
volume == <<disk, undo, ram, mounted, fstype>>
misc == <<part, bcb, reason>>
vars == <<script, pc, eval, job, torn, volume, misc, pipe, have_eio_error, patched, losses, errors>>

Str(s)  == [type |-> "string", data |-> s]
Blob(s) == [type |-> "blob", data |-> s]
Invalid == [type |-> "invalid", data |-> ""]
Bool(b) == Str(IF b THEN "t" ELSE "")

Frame == Head(stack)
fn    == Frame.expr.fn
argv  == Frame.expr.argv
args  == Frame.args
n     == Len(args)
arg(i) == args[i].data
True(i) == arg(i) # ""

Fails == errors < MaxErrors /\ errors' = errors + 1
Works == UNCHANGED errors

-----------------------------------------------------------------------------
(* edify *)

Operators == {"concat", "ifelse", "assert", "sleep", "stdout", "&&", "||", "!", "is_substring", "==",
              "!=", ";", "less_than_int", "greater_than_int", "literal", "abort"}
Comparisons == {"less_than_int", "greater_than_int"}
(* Functions that return nullptr when an argument does; the others replace  *)
(* message and cause by their own.                                          *)
PassOn == (Operators \ {"abort"}) \cup {"delete", "getprop", "sha1_check"}

Arity ==
  [f \in {"ifelse"} |-> {2, 3}]
  @@ [f \in Comparisons \cup {"package_extract_dir", "rename", "show_progress", "file_getprop",
            "write_value", "reboot_now", "set_stage", "wipe_block_device"} |-> {2}]
  @@ [f \in {"is_mounted", "unmount", "set_progress", "getprop", "read_file", "get_stage"} |-> {1}]
  @@ [f \in {"wipe_cache", "enable_reboot"} |-> {0}]
  @@ [f \in {"mount"} |-> {4, 5}] @@ [f \in {"format"} |-> {5}]
  @@ [f \in {"package_extract_file"} |-> {1, 2}]
  @@ [f \in {"set_metadata", "set_metadata_recursive"} |-> {1, 3, 5, 7}]
BadArity == \/ fn \in DOMAIN Arity /\ Len(argv) \notin Arity[fn]
            \/ fn \in {"sha1_check", "symlink", "run_program", "tune2fs"} /\ argv = <<>>

(* The next argument the function evaluates, or 0 when it has what it needs. *)
Wants ==
  CASE BadArity \/ argv = <<>> -> 0
    [] fn = "ifelse" -> IF n = 0 THEN 1 ELSE IF n = 2 THEN 0 ELSE
                        IF True(1) THEN 2 ELSE IF Len(argv) = 3 THEN 3 ELSE 0
    [] fn = "&&" /\ n = 1 -> IF True(1) THEN 2 ELSE 0
    [] fn = "||" /\ n = 1 -> IF True(1) THEN 0 ELSE 2
    [] fn = "assert" /\ n > 0 /\ ~True(n) -> 0
    [] fn \in {"abort", "sleep"} -> 1 - n
    [] OTHER -> IF n < Len(argv) THEN n + 1 ELSE 0
TakesValue == \/ fn \in {";", "sha1_check"}
              \/ fn \in {"ifelse", "&&", "||"} /\ n = 1

Return(v) == ret' = v /\ stack' = Tail(stack)
Says(v)   == Return(v) /\ UNCHANGED <<errmsg, cause_code>>
(* ErrorAbort with a cause code replaces message and cause.                 *)
ErrorAbort(cause) == Return(Null) /\ errmsg' = <<cause>> /\ cause_code' = cause
Quiet == UNCHANGED <<script, pc, job, torn, have_eio_error, patched, losses>>

Evaluate ==
  /\ pc = "eval" /\ ret = Idle /\ job = <<>> /\ stack # <<>> /\ Wants # 0
  /\ stack' = <<[expr |-> argv[Wants], args |-> <<>>]>> \o stack
  /\ UNCHANGED <<ret, errmsg, cause_code, volume, misc, pipe, errors>> /\ Quiet

(* Evaluate and EvaluateValue return to the function that called them.      *)
Takes ==
  /\ pc = "eval" /\ ret # Idle /\ ret # Null /\ stack # <<>>
  /\ IF ret.type = "string" \/ TakesValue
     THEN /\ stack' = <<[Frame EXCEPT !.args = Append(@, ret)]>> \o Tail(stack)
          /\ ret' = Idle /\ UNCHANGED <<errmsg, cause_code>>
     ELSE /\ ret' = Null /\ errmsg' = <<"kArgsParsingFailure">>
          /\ cause_code' = "kArgsParsingFailure" /\ UNCHANGED stack
  /\ UNCHANGED <<volume, misc, pipe, errors>> /\ Quiet

MutUnwinds ==
  /\ pc = "eval" /\ ret = Null /\ stack # <<>>
  /\ IF fn = ";" /\ n = 0
     THEN /\ stack' = <<[Frame EXCEPT !.args = <<Str("")>>]>> \o Tail(stack)
          /\ ret' = Idle /\ UNCHANGED <<errmsg, cause_code>>
     ELSE Says(Null)
  /\ UNCHANGED <<volume, misc, pipe, errors>> /\ Quiet
Unwinds ==
  /\ pc = "eval" /\ ret = Null /\ stack # <<>>
  /\ IF fn = "abort" THEN Return(Null) /\ errmsg' = Append(errmsg, "called abort()") /\ UNCHANGED cause_code
     ELSE IF fn \in PassOn THEN Says(Null)
     ELSE ErrorAbort("kArgsParsingFailure")
  /\ UNCHANGED <<volume, misc, pipe, errors>> /\ Quiet

Ready(f) == pc = "eval" /\ ret = Idle /\ job = <<>> /\ stack # <<>> /\ Wants = 0 /\ fn = f

(* Arguments a function refuses: their number, empty ones, unreadable ones.  *)
NonEmpty == "mount" :> 1..4 @@ "is_mounted" :> {1} @@ "unmount" :> {1} @@ "format" :> {1, 2, 3, 5}
            @@ "rename" :> {1, 2} @@ "symlink" :> {1} @@ "write_value" :> {2}
Numeric  == "show_progress" :> {1, 2} @@ "set_progress" :> {1} @@ "format" :> {4}
            @@ [f \in Comparisons |-> {1, 2}]
Refused == ~BadArity =>
           \/ fn \in DOMAIN NonEmpty /\ \E i \in NonEmpty[fn] : ~True(i)
           \/ fn \in DOMAIN Numeric  /\ \E i \in Numeric[fn] : arg(i) \notin DOMAIN Number
Refuse ==
  /\ pc = "eval" /\ ret = Idle /\ job = <<>> /\ stack # <<>> /\ Wants = 0 /\ Refused
  /\ IF fn \in Comparisons \cup {"ifelse"}
     THEN Return(Null) /\ errmsg' = <<fn>> /\ UNCHANGED cause_code
     ELSE ErrorAbort("kArgsParsingFailure")
  /\ UNCHANGED <<volume, misc, pipe, errors>> /\ Quiet
Call(f) == Ready(f) /\ ~Refused

Substring(haystack, needle) ==
  \E i \in 0..(Len(haystack) - Len(needle)) : SubSeq(haystack, i + 1, i + Len(needle)) = needle
Compare(f) ==
  CASE f = "is_substring" -> Substring(arg(2), arg(1))
    [] f = "==" -> arg(1) = arg(2)
    [] f = "!=" -> arg(1) # arg(2)
    [] f = "less_than_int" -> Number[arg(1)] < Number[arg(2)]
    [] f = "greater_than_int" -> Number[arg(1)] > Number[arg(2)]
Joined == Str(FoldLeft(LAMBDA s, v : s \o v.data, "", args))
Value(f) ==
  CASE f = "literal" -> Str(Frame.expr.name)
    [] f = "concat" -> Joined
    [] f \in {"ifelse", "&&"} -> IF n = 2 THEN args[2] ELSE Str("")
    [] f \in {"||", ";"} -> args[n]
    [] f = "!" -> Bool(~True(1))
    [] f = "sleep" -> IF arg(1) \in DOMAIN Number THEN args[1] ELSE Null
    [] f \in {"assert", "stdout"} -> Str("")
    [] OTHER -> Bool(Compare(f))
Operator ==
  \E f \in Operators \ {"abort"} :
    /\ Call(f)
    /\ IF f = "assert" /\ n > 0 /\ ~True(n)
       THEN Return(Null) /\ errmsg' = <<"assert failed">> /\ UNCHANGED cause_code
       ELSE Says(Value(f))
    /\ UNCHANGED <<volume, misc, pipe, errors>> /\ Quiet

MutAbortFn ==
  /\ Call("abort")
  /\ ErrorAbort("kNoCause")
  /\ UNCHANGED <<volume, misc, pipe, errors>> /\ Quiet
AbortFn ==
  /\ Call("abort")
  /\ Return(Null) /\ UNCHANGED cause_code
  /\ errmsg' = Append(errmsg, IF n = 1 THEN arg(1) ELSE "called abort()")
  /\ UNCHANGED <<volume, misc, pipe, errors>> /\ Quiet

-----------------------------------------------------------------------------
(* The volume *)

Node(kind, data) == [kind |-> kind, data |-> data, meta |-> << >>]
Below(p)  == {q \in Paths : p \in Parents[q]}
view      == IF mounted THEN disk ELSE ram
(* The volume goes through the states of steps; before the next sync a       *)
(* power loss may leave it in any of them.                                   *)
Changes(steps) ==
  LET v == IF steps = <<>> THEN view ELSE Last(steps)
  IN  /\ IF mounted THEN disk' = v /\ undo' = undo \cup ToSet(steps) /\ UNCHANGED ram
         ELSE ram' = v /\ UNCHANGED <<disk, undo>>
      /\ UNCHANGED <<mounted, fstype>>
Put(v, p, node) == [v EXCEPT ![p] = node]

CanMakeParents(v, p) == \A d \in Parents[p] : v[d].kind \in {"none", "dir"}
MakeParents(v, p) == [q \in Paths |-> IF q \in Parents[p] /\ v[q].kind = "none"
                                      THEN Node("dir", "") ELSE v[q]]

MountFn ==
  /\ Call("mount")
  /\ \/ /\ Works /\ mounted' = TRUE                          \* blkid knows the type
        /\ Says(IF mounted THEN Str("") ELSE args[4])
     \/ /\ Fails /\ mounted' = (mounted \/ arg(1) = fstype) \* blkid does not
        /\ Says(IF ~mounted /\ mounted' THEN args[4] ELSE Str(""))
     \/ Fails /\ Says(Str("")) /\ UNCHANGED mounted
  /\ UNCHANGED <<disk, undo, ram, fstype, misc, pipe>> /\ Quiet

IsMountedFn ==
  /\ Call("is_mounted") /\ Works
  /\ Says(IF mounted /\ arg(1) = MountPoint THEN args[1] ELSE Str(""))
  /\ UNCHANGED <<volume, misc, pipe>> /\ Quiet

UnmountFn ==
  /\ Call("unmount")
  /\ IF ~(mounted /\ arg(1) = MountPoint) THEN Says(Null) /\ Works /\ UNCHANGED <<mounted, undo>>
     ELSE /\ Says(args[1])
          /\ \/ Works /\ mounted' = FALSE /\ undo' = {disk}
             \/ Fails /\ UNCHANGED <<mounted, undo>>
  /\ UNCHANGED <<disk, ram, fstype, misc, pipe>> /\ Quiet

Empty == [p \in Paths |-> Node("none", "")]
FormatFn ==
  /\ Call("format")
  /\ IF arg(1) \notin {"ext4", "f2fs"} THEN Says(Null) /\ Works /\ UNCHANGED volume
     ELSE \/ mounted /\ Says(Str("")) /\ Works /\ UNCHANGED volume
          \/ arg(1) = "f2fs" /\ Number[arg(4)] < 0 /\ Says(Str("")) /\ Works /\ UNCHANGED volume
          \/ /\ ~mounted /\ (arg(1) = "f2fs" => Number[arg(4)] >= 0)
             /\ disk' = Empty /\ undo' = {Empty} /\ fstype' = arg(1) /\ UNCHANGED <<ram, mounted>>
             /\ \/ Says(args[3]) /\ Works
                \/ Says(Str("")) /\ Fails       \* e2fsdroid, or sload.f2fs
  /\ UNCHANGED <<misc, pipe>> /\ Quiet

Exists(v, p) == v[p].kind # "none"
MutRenameFn ==
  /\ Call("rename")
  /\ LET s == arg(1)
         d == arg(2)
         made == MakeParents(view, d)
     IN  IF CanMakeParents(view, d) /\ Exists(made, s)
         THEN /\ Works /\ Says(args[2])
              /\ Changes(<<made, [made EXCEPT ![d] = made[s], ![s] = Node("none", "")]>>)
         ELSE Works /\ ErrorAbort("kFileRenameFailure") /\ UNCHANGED volume
  /\ UNCHANGED <<misc, pipe>> /\ Quiet
(* Files and links only: the scripts rename no directory.                    *)
RenameFn ==
  /\ Call("rename")
  /\ LET s == arg(1)
         d == arg(2)
         made == MakeParents(view, d)
     IN  IF ~CanMakeParents(view, d) THEN Works /\ ErrorAbort("kFileRenameFailure") /\ UNCHANGED volume
         ELSE IF Exists(made, d) /\ ~Exists(made, s) THEN Works /\ Says(args[2]) /\ Changes(<<made>>)
         ELSE \/ /\ Exists(made, s) /\ Works /\ Says(args[2])
                 /\ Changes(<<made, [made EXCEPT ![d] = made[s], ![s] = Node("none", "")]>>)
              \/ /\ (Exists(made, s) => errors < MaxErrors) /\ ErrorAbort("kFileRenameFailure")
                 /\ Changes(<<made>>)
                 /\ errors' = IF Exists(made, s) THEN errors + 1 ELSE errors
  /\ UNCHANGED <<misc, pipe>> /\ Quiet

Digit(k) == <<"0", "1", "2", "3">>[k + 1]
(* dirUnlinkHierarchy removes a tree from its leaves on.  Before the next     *)
(* sync any part of it that is closed downwards may be what is gone.          *)
Tree(v, p) == {q \in Below(p) \cup {p} : Exists(v, q)}
Without(v, gone) == [q \in Paths |-> IF q \in gone THEN Node("none", "") ELSE v[q]]
Prunings(v, gone) == {Without(v, d) : d \in {d \in SUBSET gone : \A q \in d : Below(q) \cap gone \subseteq d}}
(* unlink may fail at stuck: nothing above it is removed, what lies beside it *)
(* only if readdir has listed it earlier.                                     *)
Deleted(f, stuck, late) ==
  LET Deletable(v, p) == Exists(v, p) /\ (f = "delete" => v[p].kind # "dir")
      Gone(v, p) == IF stuck \notin Tree(v, p) THEN Tree(v, p)
                    ELSE {q \in Tree(v, p) : late /\ q # stuck /\ q \notin Parents[stuck]}
      Step(acc, v) ==
        LET p == v.data
            gone == Gone(acc.v, p)
        IN  IF Deletable(acc.v, p)
            THEN [v |-> Without(acc.v, gone),
                  count |-> acc.count + (IF gone = Tree(acc.v, p) THEN 1 ELSE 0),
                  steps |-> acc.steps \o SetToSeq(Prunings(acc.v, gone)) \o <<Without(acc.v, gone)>>]
            ELSE acc
  IN  FoldLeft(Step, [v |-> view, count |-> 0, steps |-> <<>>], args)

DeleteFn ==
  \E f \in {"delete", "delete_recursive"}, stuck \in Paths \cup {Null}, late \in BOOLEAN :
    /\ Call(f)
    /\ IF stuck = Null THEN Works ELSE Fails /\ \E v \in ToSet(args) : stuck \in Tree(view, v.data)
    /\ Changes(Deleted(f, stuck, late).steps)
    /\ Says(Str(Digit(Deleted(f, stuck, late).count)))
    /\ UNCHANGED <<misc, pipe>> /\ Quiet

SymlinkFn ==
  /\ Call("symlink")
  /\ LET Step(acc, v) ==
           LET p == v.data
               gone == Put(acc.v, p, Node("none", ""))
               made == MakeParents(gone, p)
               done == Put(made, p, Node("link", arg(1)))
           IN  IF acc.v[p].kind = "dir" THEN [acc EXCEPT !.bad = TRUE]
               ELSE IF ~CanMakeParents(gone, p)
               THEN [v |-> gone, bad |-> TRUE, steps |-> Append(acc.steps, gone)]
               ELSE [v |-> done, bad |-> acc.bad, steps |-> acc.steps \o <<gone, made, done>>]
         end == FoldLeft(Step, [v |-> view, bad |-> FALSE, steps |-> <<>>], Tail(args))
     IN  \/ /\ Works /\ Changes(end.steps)
            /\ IF end.bad THEN ErrorAbort("kSymlinkFailure") ELSE Says(Str("t"))
         \/ Fails /\ ErrorAbort("kSymlinkFailure") /\ Changes(SubSeq(end.steps, 1, Len(end.steps) - 1))
  /\ UNCHANGED <<misc, pipe>> /\ Quiet

(* ApplyParsedPerms: what a node keeps of the keys and values of set_metadata. *)
PermKeys == {"uid", "gid", "mode", "dmode", "fmode", "capabilities", "selabel"}
(* ParsePermArgs: a value that does not parse leaves the one before it.        *)
Parses(i) == IF arg(2 * i) = "selabel" THEN True(2 * i + 1) ELSE arg(2 * i + 1) \in DOMAIN Number
Pairs(k)  == {i \in 1..((n - 1) \div 2) : arg(2 * i) = k /\ Parses(i)}
Parsed    == [k \in {k \in PermKeys : Pairs(k) # {}} |-> arg(2 * Max(Pairs(k)) + 1)]
Applies(kind, k) == CASE k = "selabel" -> TRUE
                      [] k = "dmode" -> kind = "dir"
                      [] k \in {"fmode", "capabilities"} -> kind = "file"
                      [] OTHER -> kind # "link"
Attribute(k) == IF k \in {"dmode", "fmode"} THEN "mode" ELSE k
WithPerms(node, parsed) ==
  LET keys == {k \in DOMAIN parsed : Applies(node.kind, k)}
      Of(a) == LET ks == {k \in keys : Attribute(k) = a}
               IN  parsed[IF Cardinality(ks) > 1 THEN CHOOSE k \in ks : k # a ELSE CHOOSE k \in ks : TRUE]
  IN  [node EXCEPT !.meta = [a \in {Attribute(k) : k \in keys} |-> Of(a)] @@ @]
(* A walk that cannot start is taken for a success, as -1 > 0 is false; one   *)
(* that fails at a file stops there.                                          *)
SetMetadataFn ==
  \E f \in {"set_metadata", "set_metadata_recursive"} :
    /\ Call(f)
    /\ LET p == arg(1)
           set == {q \in (IF f = "set_metadata" THEN {} ELSE Below(p)) \cup {p} : Exists(view, q)}
           After(qs) == [q \in Paths |-> IF q \in qs THEN WithPerms(view[q], Parsed) ELSE view[q]]
       IN  IF ~Exists(view, p) THEN Works /\ ErrorAbort("kSetMetadataFailure") /\ UNCHANGED volume
           ELSE \/ Works /\ Says(Str("")) /\ Changes(<<After(set)>>)
                \/ Fails /\ ErrorAbort("kSetMetadataFailure") /\ Changes(<<After(set \ {p})>>)
                \/ Fails /\ f # "set_metadata" /\ Says(Str("")) /\ UNCHANGED volume
    /\ UNCHANGED <<misc, pipe>> /\ Quiet

FileGetPropFn ==
  /\ Call("file_getprop")
  /\ LET node == view[arg(1)]
     IN  \/ /\ node.kind = "file" /\ Works
            /\ Says(Str(IF node.data \in DOMAIN FileProps /\ arg(2) \in DOMAIN FileProps[node.data]
                        THEN FileProps[node.data][arg(2)] ELSE ""))
         \/ node.kind # "file" /\ Works /\ ErrorAbort("kFileGetPropFailure")
         \/ node.kind = "file" /\ Fails /\ ErrorAbort("kFreadFailure")
  /\ UNCHANGED <<volume, misc, pipe>> /\ Quiet

ReadFileFn ==
  /\ Call("read_file")
  /\ \/ /\ Works /\ Says(IF view[arg(1)].kind = "file" THEN Blob(view[arg(1)].data) ELSE Invalid)
     \/ Fails /\ Says(Invalid)
  /\ UNCHANGED <<volume, misc, pipe>> /\ Quiet

(* A digest stands for the data it is of.                                    *)
Sha1CheckFn ==
  /\ Call("sha1_check") /\ Works
  /\ LET hits == {i \in 2..n : args[i] = Str(arg(1))}
     IN  Says(IF args[1].type = "invalid" THEN Str("")
              ELSE IF n = 1 THEN Str(arg(1))
              ELSE IF hits = {} THEN Str("") ELSE Str(arg(1)))
  /\ UNCHANGED <<volume, misc, pipe>> /\ Quiet

(* WriteStringToFile: the file is cut to nothing, then written.                *)
WriteValueFn ==
  /\ Call("write_value")
  /\ LET p == arg(2)
         cut == Put(view, p, Node("file", ""))
         opens == view[p].kind \in {"none", "file"} /\ \A d \in Parents[p] : view[d].kind = "dir"
     IN  \/ opens /\ Works /\ Says(Str("t")) /\ Changes(<<cut, Put(view, p, Node("file", arg(1)))>>)
         \/ opens /\ Fails /\ Says(Str("")) /\ Changes(<<cut>>)
         \/ (IF opens THEN Fails ELSE Works) /\ Says(Str("")) /\ UNCHANGED volume
  /\ UNCHANGED <<misc, pipe>> /\ Quiet

-----------------------------------------------------------------------------
(* The package *)

PackageExtractFileFn ==
  /\ Call("package_extract_file")
  /\ IF arg(1) \in DOMAIN Package
     THEN IF n = 1
          THEN /\ UNCHANGED job
               /\ \/ Works /\ Says(Blob(Package[arg(1)]))
                  \/ Fails /\ ErrorAbort("kPackageExtractFileFailure")   \* ExtractToMemory
          ELSE Works /\ job' = <<[dest |-> arg(2), data |-> Package[arg(1)]]>> /\ UNCHANGED eval
     ELSE /\ IF n = 1 THEN ErrorAbort("kPackageExtractFileFailure") ELSE Says(Str(""))
          /\ Works /\ UNCHANGED job
  /\ UNCHANGED <<script, pc, torn, volume, misc, pipe, have_eio_error, patched, losses>>

PackageExtractDirFn ==
  /\ Call("package_extract_dir") /\ Works
  /\ LET entries == IF arg(1) \in DOMAIN PackageDirs THEN PackageDirs[arg(1)] ELSE <<>>
     IN  /\ job' = entries
         /\ IF entries = <<>> THEN Says(Str("t")) ELSE UNCHANGED eval
  /\ UNCHANGED <<script, pc, torn, volume, misc, pipe, have_eio_error, patched, losses>>

Dest == Head(job).dest
Into(node) == Changes(<<Put(IF fn = "package_extract_dir" THEN MakeParents(view, Dest) ELSE view, Dest, node)>>)
(* open(O_CREAT | O_TRUNC), or the first bytes on a raw partition.            *)
ExtractOpen ==
  /\ pc = "eval" /\ job # <<>> /\ ~torn
  /\ IF Dest \in DOMAIN part
     THEN part' = [part EXCEPT ![Dest] = "junk"] /\ torn' = TRUE /\ UNCHANGED <<volume, eval, job>>
     ELSE LET opens == /\ view[Dest].kind # "dir"
                       /\ IF fn = "package_extract_dir" THEN CanMakeParents(view, Dest)
                          ELSE \A d \in Parents[Dest] : view[d].kind = "dir"
          IN  /\ UNCHANGED part
              /\ IF opens THEN Into(Node("file", "")) /\ torn' = TRUE /\ UNCHANGED <<eval, job>>
                 ELSE Says(Str("")) /\ job' = <<>> /\ UNCHANGED <<volume, torn>>
  /\ UNCHANGED <<script, pc, bcb, reason, pipe, have_eio_error, patched, losses, errors>>

(* ExtractEntryToFile and fsync, which commits what the volume holds.         *)
ExtractWrite ==
  /\ pc = "eval" /\ job # <<>> /\ torn /\ torn' = FALSE
  /\ \/ /\ Works /\ UNCHANGED have_eio_error /\ job' = Tail(job)
        /\ IF Tail(job) = <<>> THEN Says(Str("t")) ELSE UNCHANGED eval
        /\ IF Dest \in DOMAIN part
           THEN part' = [part EXCEPT ![Dest] = Head(job).data] /\ UNCHANGED volume
           ELSE LET v == Put(view, Dest, Node("file", Head(job).data))
                IN  /\ IF mounted THEN disk' = v /\ undo' = {v} /\ UNCHANGED ram
                       ELSE ram' = v /\ UNCHANGED <<disk, undo>>
                    /\ UNCHANGED <<mounted, fstype, part>>
     \/ /\ Fails /\ have_eio_error' \in {TRUE, have_eio_error}
        /\ job' = <<>> /\ Says(Str("")) /\ UNCHANGED <<volume, part>>
  /\ UNCHANGED <<script, pc, bcb, reason, pipe, patched, losses>>

-----------------------------------------------------------------------------
(* Messages to recovery, properties, other programs *)

Tell(f, v) ==
  /\ Call(f) /\ Works /\ pipe' = pipe \cup {f} /\ Says(v)
  /\ UNCHANGED <<volume, misc>> /\ Quiet
UIPrintFn      == Tell("ui_print", Joined)
ShowProgressFn == Tell("show_progress", args[1])
SetProgressFn  == Tell("set_progress", args[1])
WipeCacheFn    == Tell("wipe_cache", Str("t"))
EnableRebootFn == Tell("enable_reboot", Str("t"))

GetPropFn ==
  /\ Call("getprop") /\ Works
  /\ Says(Str(IF arg(1) \in DOMAIN Props THEN Props[arg(1)] ELSE ""))
  /\ UNCHANGED <<volume, misc, pipe>> /\ Quiet

(* The wait status of the child: 256 for exit code 1.                         *)
RunProgramFn ==
  /\ Call("run_program")
  /\ \/ Works /\ Says(Str("0"))
     \/ Fails /\ Says(Str("256"))
  /\ UNCHANGED <<volume, misc, pipe>> /\ Quiet

Tune2FsFn ==
  /\ Call("tune2fs")
  /\ \/ Works /\ Says(Str("t"))
     \/ Fails /\ ErrorAbort("kTune2FsFailure")
  /\ UNCHANGED <<volume, misc, pipe>> /\ Quiet

WipeBlockDeviceFn ==
  /\ Call("wipe_block_device")
  /\ IF arg(2) \notin DOMAIN Number THEN Says(Null) /\ Works /\ UNCHANGED part
     ELSE \/ Works /\ Says(Str("t")) /\ part' = [part EXCEPT ![arg(1)] = "junk"]
          \/ Fails /\ Says(Str("")) /\ UNCHANGED part
  /\ UNCHANGED <<volume, bcb, reason, pipe>> /\ Quiet

(* Only what the script sees of it; BlockImage is its model.  Most failures   *)
(* have no cause code, and a failing last fsync only has one: the result is   *)
(* that of the commands.                                                      *)
BlockImageUpdateFn ==
  /\ Call("block_image_update")
  /\ \/ Works /\ Says(Str("t")) /\ UNCHANGED patched
     \/ \E failure_type \in {"kNoCause", "kPatchApplicationFailure", "kFsyncFailure"}, rc \in BOOLEAN :
          /\ rc => failure_type = "kFsyncFailure"
          /\ Fails /\ Return(Bool(rc)) /\ UNCHANGED errmsg
          /\ cause_code' = IF cause_code = "kNoCause" THEN failure_type ELSE cause_code
          /\ patched' = (failure_type = "kPatchApplicationFailure")
  /\ UNCHANGED <<script, pc, job, torn, volume, misc, pipe, have_eio_error, losses>>

-----------------------------------------------------------------------------
(* The bootloader message *)

MutSetStageFn ==
  /\ Call("set_stage") /\ Works /\ Says(args[1])
  /\ UNCHANGED <<volume, misc, pipe>> /\ Quiet
SetStageFn ==
  /\ Call("set_stage")
  /\ \/ Works /\ Says(args[1]) /\ bcb' = [bcb EXCEPT !.stage = arg(2)]
     \/ Fails /\ Says(Str("")) /\ UNCHANGED bcb
  /\ UNCHANGED <<volume, part, reason, pipe>> /\ Quiet

GetStageFn ==
  /\ Call("get_stage")
  /\ \/ Works /\ Says(Str(bcb.stage))
     \/ Fails /\ Says(Str(""))
  /\ UNCHANGED <<volume, misc, pipe>> /\ Quiet

RebootNowFn ==
  /\ Call("reboot_now")
  /\ \/ /\ Works /\ bcb' = [bcb EXCEPT !.command = ""]
        /\ pc' = "rebooting" /\ reason' = arg(2) /\ UNCHANGED eval
     \/ Fails /\ Says(Str("")) /\ UNCHANGED <<bcb, pc, reason>>
  /\ UNCHANGED <<script, job, torn, volume, part, pipe, have_eio_error, patched, losses>>

(* Five seconds have passed.                                                  *)
RebootFails ==
  /\ pc = "rebooting" /\ Fails
  /\ pc' = "eval" /\ ErrorAbort("kRebootFailure")
  /\ UNCHANGED <<script, job, torn, volume, misc, pipe, have_eio_error, patched, losses>>

-----------------------------------------------------------------------------
(* updater.cpp: main *)

Clear == /\ stack' = <<>> /\ ret' = Idle /\ errmsg' = <<>> /\ cause_code' = "kNoCause"
         /\ job' = <<>> /\ torn' = FALSE
         /\ ram' = Empty /\ mounted' = FALSE
         /\ pipe' = {} /\ have_eio_error' = FALSE /\ patched' = FALSE

Finish ==
  /\ pc = "eval" /\ stack = <<>> /\ ret # Idle
  /\ LET ok    == ret # Null /\ ret.type = "string"
         cause == IF ret # Null /\ ret.type # "string" THEN "kArgsParsingFailure" ELSE cause_code
         retry == have_eio_error \/ (~ok /\ cause = "kPatchApplicationFailure")
     IN  /\ pc' = IF ok THEN "done" ELSE "failed"
         /\ pipe' = pipe \cup (IF retry THEN {"retry_update"} ELSE {})
         /\ cause_code' = cause
         (* finish_recovery, when the install has succeeded *)
         /\ bcb' = IF ok THEN [command |-> "", recovery |-> FALSE, stage |-> ""] ELSE bcb
  /\ UNCHANGED <<script, stack, ret, errmsg, job, torn, volume, part, reason, have_eio_error, patched,
                 losses, errors>>

(* The bootloader, and get_args of the recovery it starts.                    *)
Chosen == IF bcb.command = "boot-recovery" \/ reason = "recovery" THEN part.recovery ELSE part.boot
MutBoot ==
  /\ pc = "off" /\ reason' = ""
  /\ CASE Chosen \notin DOMAIN Images -> pc' = "brick" /\ UNCHANGED <<bcb, stack>>
       [] Images[Chosen] = "system"  -> pc' = "system" /\ UNCHANGED <<bcb, stack>>
       [] OTHER -> /\ pc' = IF bcb.recovery THEN "eval" ELSE "menu"
                   /\ UNCHANGED bcb
                   /\ stack' = IF bcb.recovery THEN <<[expr |-> script.root, args |-> <<>>]>> ELSE stack
  /\ UNCHANGED <<script, ret, errmsg, cause_code, job, torn, volume, part, pipe, have_eio_error,
                 patched, losses, errors>>
Boot ==
  /\ pc = "off" /\ reason' = ""
  /\ CASE Chosen \notin DOMAIN Images -> pc' = "brick" /\ UNCHANGED <<bcb, stack>>
       [] Images[Chosen] = "system"  -> pc' = "system" /\ UNCHANGED <<bcb, stack>>
       [] OTHER -> /\ pc' = IF bcb.recovery THEN "eval" ELSE "menu"
                   /\ bcb' = [bcb EXCEPT !.command = "boot-recovery"]
                   /\ stack' = IF bcb.recovery THEN <<[expr |-> script.root, args |-> <<>>]>> ELSE stack
  /\ UNCHANGED <<script, ret, errmsg, cause_code, job, torn, volume, part, pipe, have_eio_error,
                 patched, losses, errors>>

(* init acts on the reboot property; file systems are synced.                 *)
InitReboots ==
  /\ pc = "rebooting" /\ pc' = "off" /\ Clear
  /\ undo' = {disk}
  /\ UNCHANGED <<script, disk, fstype, misc, losses, errors>>

PowerLoss ==
  /\ pc \in {"eval", "rebooting"} /\ losses < MaxLosses /\ losses' = losses + 1
  /\ pc' = "off" /\ reason' = "" /\ Clear
  /\ disk' \in undo /\ undo' = {disk'}
  /\ UNCHANGED <<script, fstype, part, bcb, errors>>

Init ==
  /\ script \in Scripts /\ pc = "off" /\ reason = ""
  /\ stack = <<>> /\ ret = Idle /\ errmsg = <<>> /\ cause_code = "kNoCause"
  /\ job = <<>> /\ torn = FALSE
  /\ disk = Files /\ undo = {Files} /\ ram = Empty /\ mounted = FALSE /\ fstype = FsType
  /\ part = Parts /\ bcb = [command |-> "boot-recovery", recovery |-> TRUE, stage |-> ""]
  /\ pipe = {} /\ have_eio_error = FALSE /\ patched = FALSE /\ losses = 0 /\ errors = 0

Updater ==
  \/ Evaluate \/ Takes \/ Unwinds \/ Refuse \/ Operator \/ AbortFn
  \/ MountFn \/ IsMountedFn \/ UnmountFn \/ FormatFn \/ RenameFn \/ DeleteFn \/ SymlinkFn
  \/ SetMetadataFn \/ FileGetPropFn \/ ReadFileFn \/ Sha1CheckFn \/ WriteValueFn
  \/ PackageExtractFileFn \/ PackageExtractDirFn \/ ExtractOpen \/ ExtractWrite
  \/ UIPrintFn \/ ShowProgressFn \/ SetProgressFn \/ WipeCacheFn \/ EnableRebootFn
  \/ GetPropFn \/ RunProgramFn \/ Tune2FsFn \/ WipeBlockDeviceFn \/ BlockImageUpdateFn
  \/ SetStageFn \/ GetStageFn \/ RebootNowFn \/ Finish
Ended == pc \in {"done", "failed", "menu", "system", "brick"} /\ UNCHANGED vars
Next == Updater \/ RebootFails \/ Boot \/ InitReboots \/ PowerLoss \/ Ended

(* The updater runs, the bootloader boots and init reboots.                   *)
Spec == Init /\ [][Next]_vars /\ WF_vars(Updater) /\ WF_vars(Boot) /\ WF_vars(InitReboots)

-----------------------------------------------------------------------------
TypeOK ==
  /\ pc \in {"off", "eval", "rebooting", "done", "failed", "menu", "system", "brick"}
  /\ disk \in undo /\ {torn, mounted, have_eio_error, patched} \subseteq BOOLEAN
  /\ DOMAIN disk = Paths /\ DOMAIN ram = Paths
  /\ losses \in 0..MaxLosses /\ errors \in 0..MaxErrors

(* A script that is interrupted by power losses and started again from the    *)
(* beginning ends the way it does without any: with the same verdict, the     *)
(* same partitions and the same files.  rename finds its file moved, symlink  *)
(* its link made, package_extract its file cut short.  Runs in which  *)
(* a call fails are left out: scripts stop there, or pass over it.            *)
RestartsAreInvisible ==
  errors = 0 /\ pc \in {"done", "failed"}
    => /\ (pc = "done") = script.ok
       /\ pc = "done" => part = script.parts /\ disk = script.files

(* Whenever the device starts, it finds a whole image, and the one it finds   *)
(* is not the main system while the install is on its way: reboot_now clears  *)
(* the command only because the boot partition then holds the recovery.       *)
(* Left out: a power loss while the recovery partition itself is written, as  *)
(* get_args has told the bootloader to start it, and failing calls, as        *)
(* get_stage then looks like the first stage.                                 *)
ComesBackToInstall ==
  pc = "off" /\ errors = 0 /\ part.recovery # "junk"
    => Chosen \in DOMAIN Images /\ (Images[Chosen] = "system" => ~bcb.recovery)

(* Once a function has given up with a message, no other function of the      *)
(* script touches the device: nullptr reaches main through every expression.  *)
NothingAfterAbort ==
  [][errmsg # <<>> /\ pc = "eval" /\ pc' # "off"
       => UNCHANGED <<disk, ram, mounted, part, bcb, job>>]_vars

(* A failed block_image_update that aborts the script makes recovery try the  *)
(* update again: abort() keeps the cause that the function has left.          *)
PatchFailureRetries == pc = "failed" /\ patched => "retry_update" \in pipe

(* Every install ends.                                                        *)
InstallEnds == <>(pc \in {"done", "failed", "menu", "system", "brick"})
=============================================================================
