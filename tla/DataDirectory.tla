--------------------------- MODULE DataDirectory ---------------------------
(***************************************************************************)
(* Where the data of one unit are, while storage is attached to it and     *)
(* detached from it.  Loki always uses the package's default path: a       *)
(* directory of the machine, or a link to the attached storage.            *)
(* loki.ensure_data_dir moves what is in that directory into the storage,  *)
(* one step of the file system at a time; the hook may be interrupted      *)
(* between two steps and Juju then runs it again from the beginning.       *)
(*                                                                         *)
(* Every subdirectory Loki uses (chunks, rules, compactor, ...) is treated *)
(* alike, so one stands for all.  shutil.move puts a directory into one of *)
(* the same name that exists at the destination; `depth' is the number of  *)
(* levels of directories of that name in each place, and a file is a       *)
(* triple <<place, level, datum>>.  Loki sees level 1 of the place that    *)
(* the default path leads to.                                              *)
(***************************************************************************)
EXTENDS Naturals

CONSTANTS
  Data,            \* what Loki may write
  WritesDuringMove,\* Loki may write while a storage hook runs
  MaxAttachments, MaxInterruptions

ASSUME BoundsAssumption == MaxAttachments \in Nat /\ MaxInterruptions \in Nat

Places == {"local", "store"}
Levels == 1..3

VARIABLES
  default,         \* the default path: "absent", "directory" or "link"
  depth, files,
  dataDir,         \* StoredState data_dir, as last committed
  attached,        \* the storage is mounted
  installed,       \* the package, and with it the user loki, is installed
  running,         \* Loki runs
  hook, step,      \* the hook that runs, or "none", and its next step
  todo, level,     \* of a copy: the files listed and not yet done, and its destination
  crossDevice,     \* the storage is another file system: a move copies
  written,         \* history: all data ever written
  attachments,     \* number of attachments so far
  interruptions    \* number of interrupted hooks so far

fileVars == <<default, depth, files>>
unitVars == <<dataDir, attached, installed, running, crossDevice, attachments>>
moveVars == <<todo, level>>
vars == <<fileVars, unitVars, moveVars, hook, step, written, interruptions>>

TypeOK ==
  /\ default \in {"absent", "directory", "link"}
  /\ depth \in [Places -> {0} \cup Levels]
  /\ files \subseteq Places \X Levels \X Data
  /\ \A f \in files : f[2] <= depth[f[1]]
  /\ dataDir \in {"default", "store"}
  /\ {attached, installed, running, crossDevice} \subseteq BOOLEAN
  /\ hook \in {"none", "attached", "detaching", "start"}
  /\ step \in {"begin", "move", "copy", "delete", "rmdir", "link", "permissions", "error"}
  /\ todo \subseteq Data
  /\ level \in {0} \cup Levels
  /\ written \subseteq Data
  /\ attachments \in 0..MaxAttachments
  /\ interruptions \in 0..MaxInterruptions

Init ==
  /\ default \in {"absent", "directory"}
  /\ depth = [p \in Places |-> 0]
  /\ files = {}
  /\ dataDir = "default"
  /\ attached = FALSE /\ installed = FALSE /\ running = FALSE
  /\ crossDevice \in BOOLEAN
  /\ hook = "none" /\ step = "begin"
  /\ todo = {} /\ level = 0
  /\ written = {}
  /\ attachments = 0 /\ interruptions = 0

In(p, k) == { d \in Data : <<p, k, d>> \in files }

-----------------------------------------------------------------------------
(* The hooks begin.  The storage may be attached before the package is      *)
(* installed, as on deployment.                                             *)

Begin(h) == hook = "none" /\ hook' = h /\ step' = "begin"

(* _on_loki_persisted_storage_attached *)
StorageAttached ==
  /\ Begin("attached") /\ ~attached /\ attachments < MaxAttachments
  /\ attached' = TRUE /\ attachments' = attachments + 1
  /\ UNCHANGED <<fileVars, moveVars, dataDir, installed, running, crossDevice, written,
                 interruptions>>

(* _on_loki_persisted_storage_detaching *)
StorageDetaching ==
  /\ Begin("detaching") /\ attached
  /\ UNCHANGED <<fileVars, unitVars, moveVars, written, interruptions>>

(* loki.install; the package may create its data directory.                 *)
Install ==
  /\ hook = "none" /\ ~installed
  /\ installed' = TRUE
  /\ default' \in IF default = "absent" THEN {"absent", "directory"} ELSE {default}
  /\ UNCHANGED <<depth, files, moveVars, hook, step, dataDir, attached, running, crossDevice,
                 attachments, written, interruptions>>

(* _on_start, on the first start and after every reboot.                    *)
Start ==
  /\ Begin("start") /\ installed
  /\ UNCHANGED <<fileVars, unitVars, moveVars, written, interruptions>>

-----------------------------------------------------------------------------
(* ensure_data_dir, step by step.                                           *)

Target == CASE hook = "attached" -> "store"
            [] hook = "detaching" -> "default"
            [] OTHER -> dataDir

Go(s) == step' = s /\ UNCHANGED <<hook, unitVars, written, interruptions>>

(* Mutant of LinkRemoved: the link to the storage is left in place.         *)
LinkRemovedNever == UNCHANGED default

(* A link is unlinked and the directory made.                               *)
LinkRemoved == default' = "directory"

(* The default directory is wanted.                                         *)
EnsureDefault ==
  /\ hook # "none" /\ step = "begin" /\ Target = "default"
  /\ LinkRemoved
  /\ Go("permissions")
  /\ UNCHANGED <<depth, files, moveVars>>

(* The storage is wanted: a link is left as it is, a directory is listed.   *)
EnsureStore ==
  /\ hook # "none" /\ step = "begin" /\ Target = "store"
  /\ Go(CASE default = "link" -> "permissions"
          [] default = "absent" -> "link"
          [] default = "directory" /\ depth["local"] = 0 -> "rmdir"
          [] OTHER -> "move")
  /\ UNCHANGED <<fileVars, moveVars>>

(* Mutant of MoveInto: a directory of the same name is one more level down. *)
MoveIntoNested == depth["store"] + 2

(* shutil.move: into the directory of the same name if there is one.        *)
MoveInto == depth["store"] + 1

(* Mutant of NameTaken: a directory of the same name is refused.            *)
NameTakenAtOnce == depth["store"] >= 1

(* The move fails when the name is taken one level down.                    *)
NameTaken == depth["store"] >= 2

(* Mutant of Made: the directory is not made before the files are moved.    *)
MadeNever == depth

Made == [depth EXCEPT !["store"] = MoveInto]

(* On one file system the move is a rename, on two a copy of what is listed *)
(* when it begins, followed by the deletion of the source.                  *)
Move ==
  /\ step = "move"
  /\ CASE NameTaken -> Go("error") /\ UNCHANGED <<fileVars, moveVars>>
       [] ~NameTaken /\ crossDevice ->
            /\ Go("copy")
            /\ level' = MoveInto
            /\ todo' = In("local", 1)
            /\ depth' = Made
            /\ UNCHANGED <<default, files>>
       [] ~NameTaken /\ ~crossDevice ->
            /\ Go("rmdir")
            /\ files' = { f \in files : f[1] = "store" }
                        \cup { <<"store", MoveInto, d>> : d \in In("local", 1) }
            /\ depth' = [Made EXCEPT !["local"] = 0]
            /\ UNCHANGED <<default, moveVars>>

Copy(d) ==
  /\ step = "copy" /\ d \in todo
  /\ files' = files \cup {<<"store", level, d>>}
  /\ todo' = todo \ {d}
  /\ Go("copy")
  /\ UNCHANGED <<default, depth, level>>

(* Mutant of CopyDone: the source is deleted whether or not all is copied.  *)
CopyDoneEarly == TRUE

CopyDone == todo = {}

(* rmtree of the source: what is in it by then is listed, deleted, and the  *)
(* directory removed if nothing else is in it.                              *)
List ==
  /\ step = "copy" /\ CopyDone
  /\ todo' = In("local", 1)
  /\ Go("delete")
  /\ UNCHANGED <<fileVars, level>>

Delete(d) ==
  /\ step = "delete" /\ d \in todo
  /\ files' = files \ {<<"local", 1, d>>}
  /\ todo' = todo \ {d}
  /\ Go("delete")
  /\ UNCHANGED <<default, depth, level>>

Deleted ==
  /\ step = "delete" /\ todo = {}
  /\ IF In("local", 1) = {}
     THEN depth' = [depth EXCEPT !["local"] = 0] /\ Go("rmdir")
     ELSE UNCHANGED depth /\ Go("error")
  /\ UNCHANGED <<default, files, moveVars>>

Rmdir ==
  /\ step = "rmdir"
  /\ IF depth["local"] = 0 THEN default' = "absent" /\ Go("link")
                           ELSE UNCHANGED default /\ Go("error")
  /\ UNCHANGED <<depth, files, moveVars>>

Link ==
  /\ step = "link"
  /\ default' = "link"
  /\ Go("permissions")
  /\ UNCHANGED <<depth, files, moveVars>>

(* _ensure_loki_permissions creates the subdirectories once the user loki   *)
(* exists; with it the hook ends and data_dir is committed.                 *)
Permissions ==
  LET place == IF Target = "store" THEN "store" ELSE "local" IN
  /\ step = "permissions"
  /\ depth' = IF installed /\ depth[place] = 0 THEN [depth EXCEPT ![place] = 1] ELSE depth
  /\ hook' = "none" /\ step' = "begin"
  /\ dataDir' = Target
  /\ attached' = IF hook = "detaching" THEN FALSE ELSE attached
  /\ running' = (running \/ hook = "start")
  /\ UNCHANGED <<default, files, moveVars, installed, crossDevice, attachments, written,
                 interruptions>>

(* Juju runs a failed hook again.                                           *)
Retry ==
  /\ step = "error"
  /\ Go("begin")
  /\ UNCHANGED <<fileVars, moveVars>>

(* The machine restarts in the middle of a hook.                            *)
Interrupt ==
  /\ hook # "none" /\ interruptions < MaxInterruptions
  /\ interruptions' = interruptions + 1
  /\ step' = "begin" /\ todo' = {} /\ level' = 0
  /\ UNCHANGED <<fileVars, unitVars, hook, written>>

-----------------------------------------------------------------------------
(* Loki writes below the default path; nothing while that path is absent.   *)

View == CASE default = "link" -> "store" [] default = "directory" -> "local" [] OTHER -> "none"

Write(d) ==
  /\ running /\ d \notin written /\ View # "none"
  /\ hook = "none" \/ WritesDuringMove
  /\ written' = written \cup {d}
  /\ files' = files \cup {<<View, 1, d>>}
  /\ depth' = IF depth[View] = 0 THEN [depth EXCEPT ![View] = 1] ELSE depth
  /\ UNCHANGED <<default, unitVars, moveVars, hook, step, interruptions>>

HookStep ==
  \/ EnsureDefault \/ EnsureStore \/ Move \/ List \/ Deleted \/ Rmdir \/ Link
  \/ Permissions \/ Retry
  \/ \E d \in Data : Copy(d) \/ Delete(d)

Next ==
  \/ StorageAttached \/ StorageDetaching \/ Install \/ Start
  \/ HookStep \/ Interrupt
  \/ \E d \in Data : Write(d)

Spec == Init /\ [][Next]_vars

FairSpec == Spec /\ WF_vars(HookStep)

-----------------------------------------------------------------------------
(* No datum Loki has written disappears, whatever is attached, detached and *)
(* interrupted (loki.ensure_data_dir).                                      *)
NothingLost ==
  \A d \in written : \E p \in Places, k \in Levels : <<p, k, d>> \in files

(* Between hooks, the committed data_dir is where the default path leads    *)
(* (charm._on_loki_persisted_storage_attached and _detaching).              *)
DirectoryMatches ==
  hook = "none" => (dataDir = "store" <=> default = "link")

(* The first attachment, if nothing interrupts it, keeps everything Loki    *)
(* has written before where Loki finds it (loki.ensure_data_dir).           *)
FirstAttachmentInView ==
  attachments = 1 /\ interruptions = 0 /\ hook = "none" /\ attached
    => \A d \in written : <<"store", 1, d>> \in files

(* A storage hook that nothing interrupts ends, up to the second attachment; *)
(* each attachment after a detachment nests the directories one level        *)
(* deeper, and a third finds the name taken for ever (shutil.move).          *)
HooksEnd ==
  hook # "none" ~> (hook = "none" \/ interruptions > 0 \/ attachments > 2)
=============================================================================
