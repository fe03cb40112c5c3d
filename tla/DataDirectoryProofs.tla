------------------------ MODULE DataDirectoryProofs ------------------------
(***************************************************************************)
(* Theorems about DataDirectory, for any data, any number of attachments   *)
(* and interruptions, on one file system or two.                           *)
(***************************************************************************)
EXTENDS DataDirectory, TLAPS

-----------------------------------------------------------------------------
(***************************************************************************)
(* The inductive invariant, in two parts.  The first holds even while Loki *)
(* writes during a move.                                                   *)
(***************************************************************************)

\* A hook is at its beginning when it has ended, and only a hook that wants the
\* storage moves anything.
InStep ==
  /\ hook = "none" => step = "begin"
  /\ step \in {"move", "copy", "delete", "rmdir", "link"} => Target = "store"

\* Loki writes to the first level only, so nothing local is nested.
LocalIsFlat == \A f \in files : f[1] = "local" => f[2] = 1

\* The destination of a copy under way has been made.
DestinationIsMade == step \in {"copy", "delete"} => level \in Levels /\ level <= depth["store"]

\* At its end a hook has left the default path as it wants it.
PathIsAsWanted ==
  /\ DirectoryMatches
  /\ step = "permissions" => (Target = "store" <=> default = "link")

Shape == TypeOK /\ InStep /\ LocalIsFlat /\ DestinationIsMade /\ PathIsAsWanted

\* While a copy is under way, each local file is in it or still to come, and
\* while the source is deleted, each is in it and yet to be deleted.
CopyInProgress ==
  /\ step = "copy" => In("local", 1) \subseteq todo \cup In("store", level)
  /\ step = "delete" => In("local", 1) \subseteq In("store", level)
                        /\ todo = In("local", 1)

IInv == Shape /\ CopyInProgress /\ NothingLost

\* Before the first attachment there is nothing in the storage.
NotYetAttached ==
  attachments = 0 =>
    /\ ~attached /\ dataDir = "default" /\ hook \in {"none", "start"}
    /\ default # "link" /\ depth["store"] = 0
    /\ default = "absent" => files = {}

\* All that is written is where Loki finds it in the storage.
InView == written \subseteq In("store", 1)

\* The first attachment meets no directory of the same name, and so no error.
FirstMove ==
  attachments = 1 /\ hook = "attached" =>
    /\ attached /\ step # "error" /\ depth["store"] <= 1
    /\ step \in {"begin", "move"} => depth["store"] = 0 /\ default # "link"
    /\ step = "begin" /\ default = "absent" => files = {}
    /\ step \in {"copy", "delete"} => level = 1
    /\ step = "rmdir" => depth["local"] = 0
    /\ step \in {"rmdir", "link", "permissions"} => InView

\* From then on the default path leads to the storage, until it is detached.
FirstUse ==
  attachments = 1 /\ attached /\ hook \in {"none", "start"} =>
    default = "link" /\ dataDir = "store" /\ step \in {"begin", "permissions"} /\ InView

Undisturbed == interruptions = 0 => NotYetAttached /\ FirstMove /\ FirstUse

-----------------------------------------------------------------------------
(***************************************************************************)
(* The shape.                                                              *)
(***************************************************************************)

LEMMA InitShape == Init => Shape
<1> SUFFICES ASSUME Init PROVE Shape
  OBVIOUS
<1>1. TypeOK
  <2>1. depth \in [Places -> {0} \cup Levels]
    BY DEF Init
  <2>2. files \subseteq Places \X Levels \X Data /\ \A f \in files : f[2] <= depth[f[1]]
    BY DEF Init
  <2>3. attachments \in 0..MaxAttachments /\ interruptions \in 0..MaxInterruptions
    BY BoundsAssumption DEF Init
  <2> QED
    BY <2>1, <2>2, <2>3 DEF Init, TypeOK
<1>2. InStep /\ LocalIsFlat /\ DestinationIsMade /\ PathIsAsWanted
  BY DEF Init, InStep, LocalIsFlat, DestinationIsMade, PathIsAsWanted, DirectoryMatches
<1> QED
  BY <1>1, <1>2 DEF Shape

\* What every step of a hook but its last one leaves alone.
LEMMA GoFacts ==
  ASSUME NEW s, Go(s)
  PROVE  Target' = Target /\ step' = s /\ hook' = hook /\ dataDir' = dataDir
BY DEF Go, Target, unitVars

LEMMA FilesOfUnchanged ==
  ASSUME Shape, UNCHANGED files, UNCHANGED depth
  PROVE  /\ depth' \in [Places -> {0} \cup Levels]
         /\ files' \subseteq Places \X Levels \X Data
         /\ \A f \in files' : f[2] <= depth'[f[1]]
         /\ LocalIsFlat'
BY DEF Shape, TypeOK, LocalIsFlat

\* The hooks that begin and the events outside of a hook.
LEMMA BeginShape ==
  ASSUME Shape, StorageAttached \/ StorageDetaching \/ Install \/ Start \/ Interrupt
  PROVE  Shape'
<1> USE DEF Shape, TypeOK, InStep, LocalIsFlat, DestinationIsMade, PathIsAsWanted,
            DirectoryMatches, Begin, fileVars, unitVars, moveVars, Target
<1>1. CASE StorageAttached
  BY <1>1, BoundsAssumption DEF StorageAttached
<1>2. CASE StorageDetaching
  BY <1>2 DEF StorageDetaching
<1>3. CASE Install
  BY <1>3 DEF Install
<1>4. CASE Start
  BY <1>4 DEF Start
<1>5. CASE Interrupt
  BY <1>5, BoundsAssumption DEF Interrupt
<1> QED
  BY <1>1, <1>2, <1>3, <1>4, <1>5

\* The steps of ensure_data_dir that move nothing.
LEMMA PathShape ==
  ASSUME Shape, EnsureDefault \/ EnsureStore \/ Rmdir \/ Link \/ Retry
  PROVE  Shape'
<1> USE DEF Shape, TypeOK, InStep, LocalIsFlat, DestinationIsMade, PathIsAsWanted,
            DirectoryMatches, Go, fileVars, unitVars, moveVars, Target
<1>1. CASE EnsureDefault
  BY <1>1 DEF EnsureDefault, LinkRemoved
<1>2. CASE EnsureStore
  BY <1>2 DEF EnsureStore
<1>3. CASE Rmdir
  BY <1>3 DEF Rmdir
<1>4. CASE Link
  BY <1>4 DEF Link
<1>5. CASE Retry
  BY <1>5 DEF Retry
<1> QED
  BY <1>1, <1>2, <1>3, <1>4, <1>5

LEMMA MoveShape ==
  ASSUME Shape, Move
  PROVE  Shape'
<1> USE DEF Shape
<1>1. CASE NameTaken
  BY <1>1, GoFacts DEF Move, TypeOK, InStep, LocalIsFlat, DestinationIsMade, PathIsAsWanted,
     DirectoryMatches, Go, fileVars, unitVars, moveVars
<1>2. CASE ~NameTaken
  <2>1. MoveInto \in Levels /\ MoveInto = depth["store"] + 1 /\ "store" \in Places
        /\ "local" \in Places
    BY <1>2 DEF NameTaken, MoveInto, TypeOK, Places, Levels
  <2>2. hook # "none" /\ step = "move" /\ Target = "store" /\ Target' = Target
        /\ hook' = hook /\ step' \in {"copy", "rmdir"} /\ UNCHANGED <<default, unitVars, written, interruptions>>
    BY <1>2, GoFacts DEF Move, InStep, Go
  <2>3. /\ depth' \in [Places -> {0} \cup Levels]
        /\ depth'["store"] = MoveInto
        /\ files' \subseteq Places \X Levels \X Data
        /\ \A f \in files' : f[2] <= depth'[f[1]]
        /\ LocalIsFlat'
        /\ todo' \subseteq Data /\ level' \in {0} \cup Levels
        /\ step' = "copy" => level' = MoveInto
    <3>1. CASE crossDevice
      <4>1. depth' = Made /\ files' = files /\ level' = MoveInto /\ todo' = In("local", 1)
        BY <1>2, <3>1 DEF Move
      <4>2. depth' = [depth EXCEPT !["store"] = depth["store"] + 1]
        BY <4>1 DEF Made, MoveInto
      <4>3. \A f \in files : f[1] \in Places /\ f[2] \in Levels
        BY DEF TypeOK
      <4>4. \A f \in files : f[2] <= depth'[f[1]]
        BY <4>2, <4>3 DEF TypeOK, Places, Levels
      <4> QED
        BY <4>1, <4>2, <4>4, <2>1 DEF TypeOK, LocalIsFlat, In
    <3>2. CASE ~crossDevice
      <4>1. /\ files' = { f \in files : f[1] = "store" }
                        \cup { <<"store", MoveInto, d>> : d \in In("local", 1) }
            /\ depth' = [Made EXCEPT !["local"] = 0] /\ UNCHANGED moveVars /\ step' = "rmdir"
        BY <1>2, <3>2 DEF Move, Go
      <4>2. /\ depth' \in [Places -> {0} \cup Levels]
            /\ depth'["store"] = MoveInto
        BY <4>1, <2>1 DEF Made, TypeOK, Places
      <4>3. \A f \in files' : f[1] = "store" /\ f[2] \in Levels /\ f[3] \in Data
                             /\ f[2] <= MoveInto /\ f \in Places \X Levels \X Data
        <5>1. \A f \in files : f[1] = "store" => f[2] <= depth["store"]
          BY DEF TypeOK
        <5>2. \A f \in files : f \in Places \X Levels \X Data
          BY DEF TypeOK
        <5>3. \A f \in files : f[1] = "store" => f[2] <= MoveInto
          BY <5>1, <5>2, <2>1 DEF TypeOK, Levels, Places
        <5>4. \A d \in In("local", 1) : d \in Data
          BY DEF In
        <5> QED
          BY <4>1, <5>2, <5>3, <5>4, <2>1 DEF Levels
      <4> QED
        BY <4>1, <4>2, <4>3 DEF TypeOK, LocalIsFlat, moveVars
    <3> QED
      BY <3>1, <3>2
  <2>4. TypeOK'
    BY <2>2, <2>3 DEF TypeOK, unitVars
  <2>5. InStep' /\ DestinationIsMade'
    BY <2>1, <2>2, <2>3 DEF InStep, DestinationIsMade, Levels
  <2>6. PathIsAsWanted'
    BY <2>2 DEF PathIsAsWanted, DirectoryMatches, unitVars
  <2> QED
    BY <2>3, <2>4, <2>5, <2>6
<1> QED
  BY <1>1, <1>2

LEMMA CopyShape ==
  ASSUME Shape, NEW d \in Data, Copy(d)
  PROVE  Shape'
<1> USE DEF Shape
<1>1. hook' = hook /\ step = "copy" /\ step' = "copy" /\ Target' = Target /\ Target = "store"
      /\ UNCHANGED <<default, depth, level, unitVars, written, interruptions>>
  BY GoFacts DEF Copy, Go, InStep
<1>2. level \in Levels /\ level <= depth["store"]
  BY <1>1 DEF DestinationIsMade
<1>3. /\ files' \subseteq Places \X Levels \X Data
      /\ \A f \in files' : f[2] <= depth'[f[1]]
      /\ LocalIsFlat'
  BY <1>1, <1>2 DEF Copy, TypeOK, LocalIsFlat, Places
<1> QED
  BY <1>1, <1>2, <1>3 DEF Copy, TypeOK, InStep, DestinationIsMade, PathIsAsWanted,
     DirectoryMatches, unitVars

LEMMA DeletionShape ==
  ASSUME Shape, List \/ Deleted \/ \E d \in Data : Delete(d)
  PROVE  Shape'
<1> USE DEF Shape
<1>1. CASE List
  BY <1>1, GoFacts DEF List, TypeOK, In, InStep, LocalIsFlat, DestinationIsMade, PathIsAsWanted,
     DirectoryMatches, Go, fileVars, unitVars
<1>2. CASE Deleted
  <2>1. hook' = hook /\ step = "delete" /\ step' \in {"rmdir", "error"} /\ Target' = Target
        /\ Target = "store"
        /\ UNCHANGED <<default, files, moveVars, unitVars, written, interruptions>>
    BY <1>2, GoFacts DEF Deleted, Go, InStep
  <2>2. depth' \in [Places -> {0} \cup Levels] /\ \A f \in files : f[2] <= depth'[f[1]]
    <3>1. CASE In("local", 1) = {}
      <4>1. depth' = [depth EXCEPT !["local"] = 0]
        BY <1>2, <3>1 DEF Deleted
      <4>2. \A f \in files : f \in Places \X Levels \X Data
        BY DEF TypeOK
      <4>3. \A f \in files : f[1] # "local"
        <5> SUFFICES ASSUME NEW f \in files, f[1] = "local" PROVE FALSE
          OBVIOUS
        <5>1. f = <<"local", 1, f[3]>> /\ f[3] \in Data
          BY <4>2 DEF LocalIsFlat
        <5> QED
          BY <5>1, <3>1 DEF In
      <4> QED
        BY <4>1, <4>2, <4>3 DEF TypeOK, Places
    <3>2. CASE In("local", 1) # {}
      BY <1>2, <3>2 DEF Deleted, TypeOK
    <3> QED
      BY <3>1, <3>2
  <2> QED
    BY <2>1, <2>2 DEF TypeOK, InStep, LocalIsFlat, DestinationIsMade, PathIsAsWanted,
       DirectoryMatches, unitVars, moveVars
<1>3. ASSUME NEW d \in Data, Delete(d)
      PROVE  Shape'
  BY <1>3, GoFacts DEF Delete, TypeOK, InStep, LocalIsFlat, DestinationIsMade, PathIsAsWanted,
     DirectoryMatches, Go, unitVars
<1> QED
  BY <1>1, <1>2, <1>3

LEMMA PermissionsShape ==
  ASSUME Shape, Permissions
  PROVE  Shape'
<1> USE DEF Shape
<1>1. Target \in {"default", "store"}
  BY DEF Target, TypeOK
<1>2. depth' \in [Places -> {0} \cup Levels] /\ \A f \in files : f[2] <= depth'[f[1]]
  <2>1. \A f \in files : f \in Places \X Levels \X Data
    BY DEF TypeOK
  <2> DEFINE place == IF Target = "store" THEN "store" ELSE "local"
  <2>2. depth' = IF installed /\ depth[place] = 0 THEN [depth EXCEPT ![place] = 1] ELSE depth
    BY DEF Permissions
  <2>3. place \in Places
    BY DEF Places
  <2> HIDE DEF place
  <2>4. depth' \in [Places -> {0} \cup Levels]
    BY <2>2, <2>3 DEF TypeOK, Levels
  <2>5. \A p \in Places : depth[p] <= depth'[p]
    BY <2>2, <2>3 DEF TypeOK, Levels
  <2>6. ASSUME NEW f \in files PROVE f[2] <= depth'[f[1]]
    <3>1. f[1] \in Places /\ f[2] \in Levels /\ f[2] <= depth[f[1]]
      BY <2>1 DEF TypeOK
    <3> QED
      BY <3>1, <2>4, <2>5 DEF TypeOK, Levels
  <2> QED
    BY <2>4, <2>6
<1>3. hook' = "none" /\ step' = "begin" /\ step = "permissions" /\ dataDir' = Target
      /\ UNCHANGED <<default, files, todo, level, installed, crossDevice, attachments, written, interruptions>>
      /\ attached' \in BOOLEAN /\ running' \in BOOLEAN
  BY DEF Permissions, moveVars, TypeOK
<1>4. TypeOK'
  BY <1>1, <1>2, <1>3 DEF TypeOK
<1> QED
  BY <1>1, <1>3, <1>4 DEF InStep, LocalIsFlat, DestinationIsMade, PathIsAsWanted, DirectoryMatches

LEMMA WriteShape ==
  ASSUME Shape, NEW d \in Data, Write(d)
  PROVE  Shape'
<1> USE DEF Shape
<1>1. View \in Places
  BY DEF Write, View, Places
<1>2. /\ depth' \in [Places -> {0} \cup Levels]
      /\ \A p \in Places : depth[p] <= depth'[p]
      /\ 1 <= depth'[View]
  BY <1>1 DEF Write, TypeOK, Levels
<1>3. files' = files \cup {<<View, 1, d>>} /\ 1 \in Levels
  BY DEF Write, Levels
<1>4. \A f \in files' : f[2] <= depth'[f[1]]
  <2>1. ASSUME NEW f \in files PROVE f[2] <= depth'[f[1]]
    <3>1. f[1] \in Places /\ f[2] \in Levels /\ f[2] <= depth[f[1]]
      BY DEF TypeOK
    <3> QED
      BY <3>1, <1>2 DEF TypeOK, Levels
  <2> QED
    BY <2>1, <1>2, <1>3
<1>5. files' \subseteq Places \X Levels \X Data /\ LocalIsFlat'
  BY <1>1, <1>3 DEF TypeOK, LocalIsFlat
<1>6. UNCHANGED <<default, unitVars, moveVars, hook, step, interruptions>> /\ written' \subseteq Data
  BY DEF Write, TypeOK
<1>7. DestinationIsMade'
  <2>1. "store" \in Places
    BY DEF Places
  <2>2. depth["store"] <= depth'["store"]
    BY <2>1, <1>2
  <2> QED
    BY <2>1, <2>2, <1>2, <1>6 DEF DestinationIsMade, moveVars, TypeOK, Levels
<1>8. InStep' /\ PathIsAsWanted'
  BY <1>6 DEF InStep, PathIsAsWanted, DirectoryMatches, Target, unitVars
<1> QED
  BY <1>2, <1>4, <1>5, <1>6, <1>7, <1>8 DEF TypeOK, unitVars, moveVars

LEMMA NextShape == Shape /\ [Next]_vars => Shape'
<1> SUFFICES ASSUME Shape, [Next]_vars PROVE Shape'
  OBVIOUS
<1>1. CASE Next
  BY <1>1, BeginShape, PathShape, MoveShape, CopyShape, DeletionShape, PermissionsShape, WriteShape
     DEF Next, HookStep
<1>2. CASE UNCHANGED vars
  BY <1>2 DEF Shape, TypeOK, InStep, LocalIsFlat, DestinationIsMade, PathIsAsWanted,
     DirectoryMatches, Target, vars, fileVars, unitVars, moveVars
<1> QED
  BY <1>1, <1>2

(***************************************************************************)
(* Every reachable state has the types of TypeOK, whether or not Loki      *)
(* writes during a move (loki.ensure_data_dir, charm._on_start and the     *)
(* storage hooks).                                                         *)
(***************************************************************************)
THEOREM TypeCorrect == Spec => []TypeOK
<1>1. Shape => TypeOK
  BY DEF Shape
<1> QED
  BY InitShape, NextShape, <1>1, PTL DEF Spec

(***************************************************************************)
(* Between hooks the committed data_dir is where the default path leads,   *)
(* whatever was interrupted and retried (charm's storage hooks).           *)
(***************************************************************************)
THEOREM DirectoryAgrees == Spec => []DirectoryMatches
<1>1. Shape => DirectoryMatches
  BY DEF Shape, PathIsAsWanted
<1> QED
  BY InitShape, NextShape, <1>1, PTL DEF Spec

-----------------------------------------------------------------------------
(***************************************************************************)
(* Nothing is lost, when Loki does not write during a move.                *)
(***************************************************************************)

\* Each place a written datum can be found in.
LEMMA WhereItIs ==
  ASSUME Shape, NothingLost, NEW d \in written
  PROVE  <<"local", 1, d>> \in files \/ \E k \in Levels : <<"store", k, d>> \in files
<1>1. PICK p \in Places, k \in Levels : <<p, k, d>> \in files
  BY DEF NothingLost
<1>2. p = "local" => k = 1
  BY <1>1 DEF Shape, LocalIsFlat
<1> QED
  BY <1>1, <1>2 DEF Places

\* A step that removes no file, and neither begins nor continues a copy.
LEMMA NothingRemoved ==
  ASSUME IInv, files \subseteq files', UNCHANGED written, step' \notin {"copy", "delete"}
  PROVE  CopyInProgress' /\ NothingLost'
BY DEF IInv, CopyInProgress, NothingLost

LEMMA BeginKeeps ==
  ASSUME IInv, StorageAttached \/ StorageDetaching \/ Install \/ Start \/ Interrupt
  PROVE  CopyInProgress' /\ NothingLost'
<1>1. files' = files /\ written' = written /\ step' \notin {"copy", "delete"}
  BY DEF IInv, Shape, InStep, StorageAttached, StorageDetaching, Install, Start, Interrupt, Begin,
     fileVars
<1> QED
  BY <1>1, NothingRemoved

LEMMA PathKeeps ==
  ASSUME IInv, EnsureDefault \/ EnsureStore \/ Rmdir \/ Link \/ Retry \/ Permissions \/ Deleted
  PROVE  CopyInProgress' /\ NothingLost'
<1>1. files' = files /\ written' = written /\ step' \notin {"copy", "delete"}
  BY DEF EnsureDefault, EnsureStore, Rmdir, Link, Retry, Permissions, Deleted, Go, fileVars
<1> QED
  BY <1>1, NothingRemoved

LEMMA MoveKeeps ==
  ASSUME IInv, Move
  PROVE  CopyInProgress' /\ NothingLost'
<1>1. written' = written
  BY DEF Move, Go
<1>2. CASE NameTaken
  BY <1>2, <1>1, NothingRemoved DEF Move, Go, fileVars
<1>3. CASE ~NameTaken /\ crossDevice
  <2>1. step' = "copy" /\ files' = files /\ todo' = In("local", 1)
    BY <1>3 DEF Move, Go
  <2> QED
    BY <2>1, <1>1 DEF IInv, CopyInProgress, NothingLost, In
<1>4. CASE ~NameTaken /\ ~crossDevice
  <2>1. /\ step' = "rmdir"
        /\ files' = { f \in files : f[1] = "store" }
                    \cup { <<"store", MoveInto, d>> : d \in In("local", 1) }
    BY <1>4 DEF Move, Go
  <2>2. MoveInto \in Levels
    BY <1>4 DEF NameTaken, MoveInto, IInv, Shape, TypeOK, Places, Levels
  <2>3. ASSUME NEW d \in written
        PROVE  \E k \in Levels : <<"store", k, d>> \in files'
    <3>1. CASE <<"local", 1, d>> \in files
      <4>1. d \in In("local", 1)
        BY <3>1 DEF In, IInv, Shape, TypeOK
      <4> QED
        BY <4>1, <2>1, <2>2
    <3>2. CASE \E k \in Levels : <<"store", k, d>> \in files
      BY <3>2, <2>1
    <3> QED
      BY <3>1, <3>2, WhereItIs DEF IInv
  <2> QED
    BY <1>1, <2>1, <2>3 DEF NothingLost, CopyInProgress, Places
<1> QED
  BY <1>2, <1>3, <1>4

LEMMA CopyKeeps ==
  ASSUME IInv, NEW d \in Data, Copy(d)
  PROVE  CopyInProgress' /\ NothingLost'
<1>1. /\ files' = files \cup {<<"store", level, d>>} /\ todo' = todo \ {d}
      /\ step = "copy" /\ step' = "copy" /\ level' = level /\ written' = written
  BY DEF Copy, Go
<1>2. In("local", 1)' = In("local", 1) /\ In("store", level)' = In("store", level) \cup {d}
  BY <1>1 DEF In
<1> QED
  BY <1>1, <1>2 DEF IInv, CopyInProgress, NothingLost

LEMMA ListKeeps ==
  ASSUME IInv, List
  PROVE  CopyInProgress' /\ NothingLost'
<1>1. /\ files' = files /\ todo = {} /\ todo' = In("local", 1)
      /\ step = "copy" /\ step' = "delete" /\ level' = level /\ written' = written
  BY DEF List, CopyDone, Go, fileVars
<1> QED
  BY <1>1 DEF IInv, CopyInProgress, NothingLost, In

LEMMA DeleteKeeps ==
  ASSUME IInv, NEW d \in Data, Delete(d)
  PROVE  CopyInProgress' /\ NothingLost'
<1>1. /\ files' = files \ {<<"local", 1, d>>} /\ todo' = todo \ {d}
      /\ step = "delete" /\ step' = "delete" /\ level' = level /\ written' = written
      /\ d \in todo
  BY DEF Delete, Go
<1>2. In("local", 1)' = In("local", 1) \ {d} /\ In("store", level)' = In("store", level)
  BY <1>1 DEF In
<1>3. level \in Levels /\ <<"store", level, d>> \in files
  BY <1>1 DEF IInv, Shape, DestinationIsMade, CopyInProgress, In
<1>4. ASSUME NEW e \in written
      PROVE  \E p \in Places, k \in Levels : <<p, k, e>> \in files'
  <2>1. CASE e = d
    BY <2>1, <1>1, <1>3 DEF Places
  <2>2. CASE e # d
    BY <2>2, <1>1 DEF IInv, NothingLost
  <2> QED
    BY <2>1, <2>2
<1> QED
  BY <1>1, <1>2, <1>4 DEF IInv, CopyInProgress, NothingLost

LEMMA WriteKeeps ==
  ASSUME WritesDuringMove = FALSE, IInv, NEW d \in Data, Write(d)
  PROVE  CopyInProgress' /\ NothingLost'
<1>1. /\ step = "begin" /\ step' = step /\ written' = written \cup {d}
      /\ files' = files \cup {<<View, 1, d>>} /\ View \in Places
  BY DEF Write, View, Places, IInv, Shape, InStep
<1>2. 1 \in Levels
  BY DEF Levels
<1> QED
  BY <1>1, <1>2 DEF IInv, CopyInProgress, NothingLost

LEMMA InitIInv == Init => IInv
BY InitShape DEF Init, IInv, CopyInProgress, NothingLost

LEMMA NextIInv ==
  ASSUME WritesDuringMove = FALSE
  PROVE  IInv /\ [Next]_vars => IInv'
<1> SUFFICES ASSUME IInv, [Next]_vars PROVE IInv'
  OBVIOUS
<1>1. Shape'
  BY NextShape DEF IInv
<1>2. CASE Next
  <2>1. CopyInProgress' /\ NothingLost'
    BY <1>2, BeginKeeps, PathKeeps, MoveKeeps, CopyKeeps, ListKeeps, DeleteKeeps, WriteKeeps
       DEF Next, HookStep
  <2> QED
    BY <1>1, <2>1 DEF IInv
<1>3. CASE UNCHANGED vars
  BY <1>1, <1>3 DEF IInv, CopyInProgress, NothingLost, In, vars, fileVars, moveVars
<1> QED
  BY <1>2, <1>3

(***************************************************************************)
(* No datum Loki has written disappears, whatever is attached, detached    *)
(* and interrupted, on one file system or two: as long as Loki does not    *)
(* write during the move (loki.ensure_data_dir).                           *)
(***************************************************************************)
THEOREM NothingIsLost == ASSUME WritesDuringMove = FALSE PROVE Spec => []NothingLost
<1>1. IInv => NothingLost
  BY DEF IInv
<1>2. IInv /\ [Next]_vars => IInv'
  BY NextIInv
<1> QED
  BY InitIInv, <1>1, <1>2, PTL DEF Spec

-----------------------------------------------------------------------------
(***************************************************************************)
(* The first attachment.                                                   *)
(***************************************************************************)

\* Nothing is found at a level that has not been made.
LEMMA NothingBelow ==
  ASSUME Shape, NEW p \in Places, NEW k \in Levels, NEW d, <<p, k, d>> \in files
  PROVE  k <= depth[p] /\ depth[p] # 0
<1>1. k <= depth[p]
  BY DEF Shape, TypeOK
<1> QED
  BY <1>1 DEF Shape, TypeOK, Levels

\* With no more than one level in the storage and nothing left behind, all is in view.
LEMMA AllMoved ==
  ASSUME Shape, NothingLost, In("local", 1) = {}, depth["store"] <= 1
  PROVE  InView
<1> SUFFICES ASSUME NEW d \in written PROVE d \in In("store", 1)
  BY DEF InView
<1>1. d \in Data
  BY DEF Shape, TypeOK
<1>2. PICK k \in Levels : <<"store", k, d>> \in files
  BY <1>1, WhereItIs DEF In
<1>3. k <= depth["store"]
  BY <1>2, NothingBelow DEF Places
<1>4. k = 1
  BY <1>3 DEF Shape, TypeOK, Places, Levels
<1> QED
  BY <1>1, <1>2, <1>4 DEF In

LEMMA InitUndisturbed == Init => Undisturbed
BY DEF Init, Undisturbed, NotYetAttached, FirstMove, FirstUse, Places

LEMMA BeginUndisturbed ==
  ASSUME IInv, Undisturbed, StorageAttached \/ StorageDetaching \/ Install \/ Start
  PROVE  Undisturbed'
<1> USE DEF Undisturbed, NotYetAttached, FirstMove, FirstUse, InView, In, Begin,
            fileVars, unitVars, moveVars
<1>0. attachments \in Nat /\ depth["store"] \in Nat
  BY BoundsAssumption DEF IInv, Shape, TypeOK, Places, Levels
<1>1. CASE StorageAttached
  BY <1>0, <1>1 DEF StorageAttached
<1>2. CASE StorageDetaching
  BY <1>0, <1>2 DEF StorageDetaching
<1>3. CASE Install
  <2>1. hook' = hook /\ hook = "none" /\ step' = step
        /\ UNCHANGED <<depth, files, dataDir, attached, attachments, written, interruptions>>
        /\ default' \in {default, "directory"} /\ (default = "link" => default' = default)
        /\ (default = "absent" \/ default' = default)
    BY <1>3 DEF Install
  <2> QED
    BY <2>1
<1>4. CASE Start
  BY <1>4 DEF Start, IInv, Shape, InStep
<1> QED
  BY <1>1, <1>2, <1>3, <1>4

LEMMA EnsureUndisturbed ==
  ASSUME IInv, Undisturbed, EnsureDefault \/ EnsureStore
  PROVE  Undisturbed'
<1>1. CASE EnsureDefault
  <2>1. /\ UNCHANGED <<depth, files, hook, dataDir, attached, attachments, written, interruptions>>
        /\ default' = "directory" /\ Target = "default"
    BY <1>1 DEF EnsureDefault, LinkRemoved, Go, unitVars
  <2>2. hook # "attached" /\ (hook = "start" => dataDir = "default") /\ hook # "none"
    BY <2>1, <1>1 DEF Target, EnsureDefault
  <2> QED
    BY <2>1, <2>2 DEF Undisturbed, NotYetAttached, FirstMove, FirstUse, InView, In
<1>2. CASE EnsureStore
  <2>1. /\ UNCHANGED <<default, depth, files, hook, dataDir, attached, attachments, written,
                       interruptions>>
        /\ step = "begin" /\ Target = "store" /\ hook # "none"
        /\ step' = CASE default = "link" -> "permissions"
                     [] default = "absent" -> "link"
                     [] default = "directory" /\ depth["local"] = 0 -> "rmdir"
                     [] OTHER -> "move"
    BY <1>2 DEF EnsureStore, Go, unitVars, fileVars
  <2> SUFFICES ASSUME interruptions = 0 PROVE (NotYetAttached /\ FirstMove /\ FirstUse)'
    BY <2>1 DEF Undisturbed
  <2>2. NotYetAttached /\ FirstMove /\ FirstUse
    BY DEF Undisturbed
  <2>3. NotYetAttached'
    BY <2>1, <2>2 DEF NotYetAttached
  <2>4. FirstUse'
    BY <2>1, <2>2 DEF FirstUse, InView, In
  <2>5. ASSUME attachments = 1, hook = "attached" PROVE FirstMove'
    <3>1. attached /\ depth["store"] = 0 /\ default # "link" /\ (default = "absent" => files = {})
      BY <2>1, <2>2, <2>5 DEF FirstMove
    <3>2. CASE default = "directory" /\ depth["local"] # 0
      BY <2>1, <3>1, <3>2 DEF FirstMove
    <3>3. CASE default = "absent" \/ depth["local"] = 0
      <4>1. In("local", 1) = {}
        BY <3>1, <3>3, NothingBelow DEF IInv, In, Places, Levels
      <4>2. InView
        BY <4>1, <3>1, AllMoved DEF IInv
      <4>3. default \in {"absent", "directory"}
        BY <3>1 DEF IInv, Shape, TypeOK
      <4>4. step' \in {"link", "rmdir"} /\ (step' = "rmdir" => depth["local"] = 0)
        BY <2>1, <3>1, <3>3, <4>3
      <4> QED
        BY <2>1, <3>1, <4>2, <4>4 DEF FirstMove, InView, In
    <3> QED
      BY <3>1, <3>2, <3>3 DEF IInv, Shape, TypeOK
  <2>6. ~(attachments = 1 /\ hook = "attached") => FirstMove'
    BY <2>1 DEF FirstMove
  <2> QED
    BY <2>3, <2>4, <2>5, <2>6
<1> QED
  BY <1>1, <1>2

\* A step that moves something is one of the first attachment, or of a later one.
LEMMA MovingUndisturbed ==
  ASSUME IInv, Undisturbed, step \in {"move", "copy", "delete", "rmdir", "link"},
         UNCHANGED <<hook, dataDir, attached, attachments, written, interruptions>>,
         attachments = 1 /\ hook = "attached" /\ FirstMove => FirstMove'
  PROVE  Undisturbed'
<1> SUFFICES ASSUME interruptions = 0 PROVE (NotYetAttached /\ FirstMove /\ FirstUse)'
  BY DEF Undisturbed
<1>1. NotYetAttached /\ FirstMove /\ FirstUse
  BY DEF Undisturbed
<1>2. Target = "store" /\ hook # "none"
  BY DEF IInv, Shape, InStep
<1>3. attachments # 0
  BY <1>1, <1>2 DEF NotYetAttached, Target
<1>4. ~(attachments = 1 /\ attached /\ hook \in {"none", "start"})
  BY <1>1 DEF FirstUse
<1> QED
  BY <1>1, <1>3, <1>4 DEF NotYetAttached, FirstUse, FirstMove

LEMMA MoveUndisturbed ==
  ASSUME IInv, Undisturbed, Move
  PROVE  Undisturbed'
<1>1. /\ UNCHANGED <<default, hook, dataDir, attached, attachments, written, interruptions>>
      /\ step = "move"
  BY DEF Move, Go, unitVars, fileVars
<1>2. ASSUME attachments = 1, hook = "attached", FirstMove
      PROVE  FirstMove'
  <2>1. depth["store"] = 0 /\ attached
    BY <1>1, <1>2 DEF FirstMove
  <2>2. ~NameTaken /\ MoveInto = 1
    BY <2>1 DEF NameTaken, MoveInto
  <2>3. /\ depth'["store"] = 1
        /\ \/ step' = "copy" /\ level' = 1
           \/ step' = "rmdir" /\ depth'["local"] = 0
    <3>1. depth \in [Places -> {0} \cup Levels] /\ Made = [depth EXCEPT !["store"] = 1]
      BY <2>2 DEF Made, IInv, Shape, TypeOK
    <3>2. CASE crossDevice
      <4>1. step' = "copy" /\ level' = MoveInto /\ depth' = Made
        BY <2>2, <3>2 DEF Move, Go
      <4> QED
        BY <2>2, <3>1, <4>1 DEF Places
    <3>3. CASE ~crossDevice
      <4>1. step' = "rmdir" /\ depth' = [Made EXCEPT !["local"] = 0]
        BY <2>2, <3>3 DEF Move, Go
      <4> QED
        BY <3>1, <4>1 DEF Places
    <3> QED
      BY <3>2, <3>3
  <2>4. step' = "rmdir" => InView'
    <3> SUFFICES ASSUME step' = "rmdir", NEW d \in written PROVE <<"store", 1, d>> \in files' /\ d \in Data
      BY <1>1 DEF InView, In
    <3>1. files' = { f \in files : f[1] = "store" }
                   \cup { <<"store", MoveInto, e>> : e \in In("local", 1) }
      BY <2>2 DEF Move, Go
    <3>2. \A k \in Levels : <<"store", k, d>> \notin files
      BY <2>1, NothingBelow DEF IInv, Places
    <3>3. d \in In("local", 1)
      BY <3>2, WhereItIs DEF IInv, Shape, TypeOK, In
    <3> QED
      BY <2>2, <3>1, <3>3 DEF In
  <2> QED
    BY <1>1, <2>1, <2>3, <2>4 DEF FirstMove
<1> QED
  BY <1>1, <1>2, MovingUndisturbed

LEMMA CopyUndisturbed ==
  ASSUME IInv, Undisturbed, List \/ \E d \in Data : Copy(d) \/ Delete(d)
  PROVE  Undisturbed'
<1>1. /\ UNCHANGED <<default, depth, level, hook, dataDir, attached, attachments, written,
                     interruptions>>
      /\ step \in {"copy", "delete"} /\ step' \in {"copy", "delete"}
  BY DEF List, Copy, Delete, Go, unitVars, fileVars
<1>2. attachments = 1 /\ hook = "attached" /\ FirstMove => FirstMove'
  BY <1>1 DEF FirstMove
<1> QED
  BY <1>1, <1>2, MovingUndisturbed

LEMMA RemovalUndisturbed ==
  ASSUME IInv, Undisturbed, Deleted \/ Rmdir \/ Link
  PROVE  Undisturbed'
<1>1. /\ UNCHANGED <<files, hook, dataDir, attached, attachments, written, interruptions>>
      /\ step \in {"delete", "rmdir", "link"}
  BY DEF Deleted, Rmdir, Link, Go, unitVars, moveVars
<1>2. ASSUME attachments = 1, hook = "attached", FirstMove
      PROVE  FirstMove'
  <2>1. CASE Deleted
    <3>1. step = "delete" /\ In("local", 1) = {}
      BY <2>1 DEF Deleted, IInv, CopyInProgress
    <3>2. InView
      BY <1>1, <1>2, <3>1, AllMoved DEF IInv, FirstMove
    <3>3. depth'["store"] = depth["store"] /\ depth'["local"] = 0 /\ step' = "rmdir"
      BY <2>1, <3>1 DEF Deleted, Go, IInv, Shape, TypeOK, Places
    <3> QED
      BY <1>1, <1>2, <3>2, <3>3 DEF FirstMove, InView, In
  <2>2. CASE Rmdir
    <3>1. depth["local"] = 0 /\ InView /\ attached /\ depth["store"] <= 1
      BY <1>2, <2>2 DEF FirstMove, Rmdir
    <3>2. step' = "link" /\ depth' = depth
      BY <2>2, <3>1 DEF Rmdir, Go
    <3> QED
      BY <1>1, <3>1, <3>2 DEF FirstMove, InView, In
  <2>3. CASE Link
    BY <1>1, <1>2, <2>3 DEF FirstMove, Link, Go, InView, In
  <2> QED
    BY <2>1, <2>2, <2>3
<1> QED
  BY <1>1, <1>2, MovingUndisturbed

LEMMA PermissionsUndisturbed ==
  ASSUME IInv, Undisturbed, Permissions
  PROVE  Undisturbed'
<1>1. /\ UNCHANGED <<default, files, attachments, written, interruptions>>
      /\ step = "permissions" /\ hook' = "none" /\ step' = "begin" /\ dataDir' = Target
      /\ attached' = IF hook = "detaching" THEN FALSE ELSE attached
  BY DEF Permissions
<1>2. (Target = "store" <=> default = "link") /\ hook # "none"
  BY <1>1 DEF IInv, Shape, PathIsAsWanted, InStep
<1> SUFFICES ASSUME interruptions = 0 PROVE (NotYetAttached /\ FirstMove /\ FirstUse)'
  BY <1>1 DEF Undisturbed
<1>3. NotYetAttached /\ FirstMove /\ FirstUse
  BY DEF Undisturbed
<1>4. NotYetAttached'
  <2> SUFFICES ASSUME attachments = 0 PROVE NotYetAttached'
    BY <1>1 DEF NotYetAttached
  <2>1. Target = "default" /\ hook = "start"
    BY <1>2, <1>3 DEF NotYetAttached, Target
  <2>2. depth'["store"] = depth["store"]
    BY <2>1 DEF Permissions, IInv, Shape, TypeOK, Places
  <2> QED
    BY <1>1, <1>3, <2>1, <2>2 DEF NotYetAttached
<1>5. FirstMove'
  BY <1>1 DEF FirstMove
<1>6. FirstUse'
  <2> SUFFICES ASSUME attachments = 1, attached' PROVE FirstUse'
    BY <1>1 DEF FirstUse
  <2>1. hook \in {"attached", "start"} /\ attached
    BY <1>1, <1>2 DEF IInv, Shape, TypeOK
  <2>2. InView /\ Target = "store"
    BY <1>1, <1>3, <2>1 DEF FirstMove, FirstUse, Target
  <2> QED
    BY <1>1, <1>2, <2>2 DEF FirstUse, InView, In
<1> QED
  BY <1>4, <1>5, <1>6

LEMMA OtherUndisturbed ==
  ASSUME IInv, Undisturbed, Retry \/ Interrupt
  PROVE  Undisturbed'
<1>1. CASE Retry
  <2>1. /\ UNCHANGED <<default, depth, files, hook, dataDir, attached, attachments, written,
                       interruptions>>
        /\ step = "error" /\ step' = "begin"
    BY <1>1 DEF Retry, Go, unitVars, fileVars
  <2> QED
    BY <2>1 DEF Undisturbed, NotYetAttached, FirstMove, FirstUse
<1>2. CASE Interrupt
  <2>1. interruptions \in Nat /\ interruptions' = interruptions + 1
    BY <1>2, BoundsAssumption DEF Interrupt, IInv, Shape, TypeOK
  <2>2. interruptions' # 0
    BY <2>1
  <2> QED
    BY <2>2 DEF Undisturbed
<1> QED
  BY <1>1, <1>2

LEMMA WriteUndisturbed ==
  ASSUME WritesDuringMove = FALSE, IInv, Undisturbed, NEW d \in Data, Write(d)
  PROVE  Undisturbed'
<1>1. /\ UNCHANGED <<default, hook, step, dataDir, attached, attachments, interruptions>>
      /\ files' = files \cup {<<View, 1, d>>} /\ written' = written \cup {d}
      /\ hook = "none" /\ View # "none"
      /\ depth' = IF depth[View] = 0 THEN [depth EXCEPT ![View] = 1] ELSE depth
  BY DEF Write, unitVars
<1> SUFFICES ASSUME interruptions = 0 PROVE (NotYetAttached /\ FirstMove /\ FirstUse)'
  BY <1>1 DEF Undisturbed
<1>2. NotYetAttached /\ FirstMove /\ FirstUse
  BY DEF Undisturbed
<1>3. default # "link" /\ View # "none" => View = "local" /\ default = "directory"
  BY DEF View, IInv, Shape, TypeOK
<1>4. NotYetAttached'
  <2> SUFFICES ASSUME attachments = 0 PROVE NotYetAttached'
    BY <1>1 DEF NotYetAttached
  <2>1. View = "local" /\ default = "directory"
    BY <1>1, <1>2, <1>3 DEF NotYetAttached
  <2>2. depth'["store"] = depth["store"]
    BY <1>1, <2>1
  <2> QED
    BY <1>1, <1>2, <2>1, <2>2 DEF NotYetAttached
<1>5. FirstUse'
  <2> SUFFICES ASSUME attachments = 1, attached PROVE FirstUse'
    BY <1>1 DEF FirstUse
  <2>1. default = "link" /\ dataDir = "store" /\ step \in {"begin", "permissions"} /\ InView
    BY <1>1, <1>2 DEF FirstUse
  <2>2. View = "store"
    BY <2>1 DEF View
  <2> QED
    BY <1>1, <2>1, <2>2 DEF FirstUse, InView, In
<1>6. FirstMove'
  BY <1>1 DEF FirstMove
<1> QED
  BY <1>4, <1>5, <1>6

LEMMA NextUndisturbed ==
  ASSUME WritesDuringMove = FALSE
  PROVE  IInv /\ Undisturbed /\ [Next]_vars => Undisturbed'
<1> SUFFICES ASSUME IInv, Undisturbed, [Next]_vars PROVE Undisturbed'
  OBVIOUS
<1>1. CASE Next
  <2>1. ASSUME HookStep PROVE Undisturbed'
    <3>1. CASE EnsureDefault \/ EnsureStore
      BY <3>1, EnsureUndisturbed
    <3>2. CASE Move
      BY <3>2, MoveUndisturbed
    <3>3. CASE List \/ \E d \in Data : Copy(d) \/ Delete(d)
      BY <3>3, CopyUndisturbed
    <3>4. CASE Deleted \/ Rmdir \/ Link
      BY <3>4, RemovalUndisturbed
    <3>5. CASE Permissions
      BY <3>5, PermissionsUndisturbed
    <3>6. CASE Retry
      BY <3>6, OtherUndisturbed
    <3> QED
      BY <2>1, <3>1, <3>2, <3>3, <3>4, <3>5, <3>6 DEF HookStep
  <2>2. ASSUME NEW d \in Data, Write(d) PROVE Undisturbed'
    BY <2>2, WriteUndisturbed
  <2>3. ASSUME StorageAttached \/ StorageDetaching \/ Install \/ Start PROVE Undisturbed'
    BY <2>3, BeginUndisturbed
  <2>4. ASSUME Interrupt PROVE Undisturbed'
    BY <2>4, OtherUndisturbed
  <2> QED
    BY <1>1, <2>1, <2>2, <2>3, <2>4 DEF Next
<1>2. CASE UNCHANGED vars
  BY <1>2 DEF Undisturbed, NotYetAttached, FirstMove, FirstUse, InView, In, vars, fileVars,
     unitVars, moveVars
<1> QED
  BY <1>1, <1>2

(***************************************************************************)
(* The first attachment, if nothing interrupts it, leaves everything Loki  *)
(* has written before where Loki finds it, and so it stays until the       *)
(* storage is detached (loki.ensure_data_dir).                             *)
(***************************************************************************)
THEOREM FirstAttachmentKeepsView ==
  ASSUME WritesDuringMove = FALSE PROVE Spec => []FirstAttachmentInView
<1>1. IInv /\ Undisturbed => FirstAttachmentInView
  BY DEF Undisturbed, FirstUse, InView, In, FirstAttachmentInView
<1>2. IInv /\ [Next]_vars => IInv'
  BY NextIInv
<1>3. IInv /\ Undisturbed /\ [Next]_vars => Undisturbed'
  BY NextUndisturbed
<1> QED
  BY InitIInv, InitUndisturbed, <1>1, <1>2, <1>3, PTL DEF Spec
=============================================================================
