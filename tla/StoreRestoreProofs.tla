------------------------- MODULE StoreRestoreProofs -------------------------
(***************************************************************************)
(* The properties of StoreRestore, for any files and any archives.         *)
(***************************************************************************)
EXTENDS StoreRestore, TLAPS

USE StoreRestoreAssumption

\* Which operation is at which command.
PhaseOK ==
  /\ pc \in {"move", "place", "rollback", "discard", "manifest", "failed"} => op = "import"
  /\ pc = "copy" => op \in Exporting \union {"import"}
  /\ pc = "zip" => op \in Exporting
  /\ pc \in {"remove", "clone"} => op = "setup"
  /\ op = "aborted" => pc = "idle"

\* What an export has copied is what is there.
ExportOK ==
  op \in Exporting =>
    /\ pc = "copy" /\ dir = "notes" => stage["store"] = FilesIn(live["store"])
    /\ pc = "zip" => \A d \in Directory : stage[d] = FilesIn(live[d])

\* What an import has copied, and then put in place, is what the archive holds.
NewOK ==
  op = "import" =>
    /\ pc = "copy" /\ dir = "notes" => stage["store"] = archive[arc]["store"]
    /\ pc \in {"move", "place", "rollback"} => stage[dir] = archive[arc][dir]
    /\ pc \in {"move", "place", "rollback", "discard"} =>
         /\ dir = "store" => stage["notes"] = archive[arc]["notes"]
         /\ dir = "notes" => live["store"] = archive[arc]["store"]
    /\ pc = "discard" => live[dir] = archive[arc][dir]
    /\ pc = "manifest" => live = archive[arc]

\* What it replaces is in its place, or renamed away while its turn has come.
OldOK ==
  op = "import" =>
    /\ pc = "copy" => live = before
    /\ pc = "move" => live[dir] = before[dir]
    /\ pc \in {"place", "rollback"} => moved[dir] = before[dir]
    /\ pc \in {"move", "place", "rollback", "discard"} /\ dir = "store" => live["notes"] = before["notes"]

\* Only the directory whose turn has come is renamed away.
MovedOK ==
  \A d \in Directory :
    moved[d] # Absent => pc \in {"place", "rollback", "discard"} /\ d = dir

IInv ==
  /\ TypeOK /\ PhaseOK /\ ExportOK /\ NewOK /\ OldOK /\ MovedOK
  /\ OldOrNew /\ ReportsAreTrue

-----------------------------------------------------------------------------
LEMMA Contents ==
  /\ \A c \in Content : c # Absent /\ FilesIn(c) = c
  /\ \A c \in Content \union {Absent} : FilesIn(c) \in Content
  /\ {} \in Content
  BY DEF FilesIn, Content

LEMMA InitIInv == Init => IInv
  BY Contents
  DEF Init, IInv, TypeOK, PhaseOK, ExportOK, NewOK, OldOK, MovedOK, OldOrNew, ReportsAreTrue, Exporting,
        Directory, Steps

\* The dialogues, and what others change
LEMMA BeginStep ==
  ASSUME IInv, ExportStore \/ ImportStore \/ Setup \/ Change
  PROVE  IInv'
<1> USE Contents
    DEF IInv, TypeOK, PhaseOK, ExportOK, NewOK, OldOK, MovedOK, OldOrNew, ReportsAreTrue, Use, Begin, places, archives, Exporting,
        Directory, Steps
<1>1. CASE ExportStore
  BY <1>1 DEF ExportStore
<1>2. CASE ImportStore
  BY <1>2 DEF ImportStore
<1>3. CASE Setup
  BY <1>3 DEF Setup
<1>4. CASE Change
  BY <1>4 DEF Change, Content, FilesIn
<1> QED BY <1>1, <1>2, <1>3, <1>4

\* Copies and archives
LEMMA CopyStep ==
  ASSUME IInv, Copy \/ Zip \/ ZipAstray
  PROVE  IInv'
<1> USE Contents
    DEF IInv, TypeOK, PhaseOK, ExportOK, NewOK, OldOK, MovedOK, OldOrNew, ReportsAreTrue, At, places, archives, Exporting,
        Directory, Steps
<1>1. CASE Copy
  <2>1. /\ pc = "copy" /\ op \in Exporting \union {"import"} /\ op' = op
        /\ UNCHANGED <<live, moved, left, archive, refused, arc, before, uses>>
    BY <1>1 DEF Copy
  <2>2. Source \in Content
    BY <2>1 DEF Source
  <2>3. stage' = [stage EXCEPT ![dir] = Source]
    BY <1>1 DEF Copy, Copied
  <2>4. op # "import" => Source = FilesIn(live[dir])
    BY <2>1 DEF Source
  <2>5. op = "import" => Source = archive[arc][dir]
    BY DEF Source
  <2>6. stage' \in [Directory -> Content \union {Absent}]
    BY <2>2, <2>3
  <2>7. CASE dir = "store"
    <3>1. dir' = "notes" /\ pc' = "copy"
      BY <1>1, <2>7 DEF Copy
    <3>2. stage'["store"] = Source
      BY <2>3, <2>7
    <3>3. TypeOK'
      BY <2>1, <2>7, <2>6, <3>1
    <3>4. (PhaseOK /\ ExportOK)'
      BY <2>1, <2>4, <2>7, <3>1, <3>2
    <3>5. (NewOK /\ OldOK /\ MovedOK /\ OldOrNew /\ ReportsAreTrue)'
      BY <2>1, <2>5, <2>7, <3>1, <3>2
    <3> QED BY <3>3, <3>4, <3>5
  <2>8. CASE dir = "notes"
    <3>1. dir' = "store" /\ pc' = IF op \in Exporting THEN "zip" ELSE "move"
      BY <1>1, <2>8 DEF Copy
    <3>2. stage'["store"] = stage["store"] /\ stage'["notes"] = Source
      BY <2>3, <2>8
    <3>3. \A d \in Directory : stage'[d] # Absent
      <4>1. stage["store"] # Absent
        BY <2>1, <2>8
      <4>2. Source # Absent
        BY <2>2
      <4> QED BY <3>2, <4>1, <4>2
    <3>4. TypeOK'
      BY <2>1, <2>8, <2>6, <3>1, <3>3
    <3>5. (PhaseOK /\ ExportOK)'
      BY <2>1, <2>4, <2>8, <3>1, <3>2
    <3>6. (NewOK /\ OldOK /\ MovedOK /\ OldOrNew /\ ReportsAreTrue)'
      BY <2>1, <2>5, <2>8, <3>1, <3>2
    <3> QED BY <3>4, <3>5, <3>6
  <2> QED BY <2>7, <2>8
<1>2. CASE Zip
  <2> DEFINE file == ZipName[arc]
  <2>1. file \in Archive BY <1>2
  <2>2. /\ pc = "zip" /\ pc' = "idle" /\ op = "export" /\ op' = "export" /\ dir' = "store"
        /\ archive' = [archive EXCEPT ![file] =
             [d \in Directory |-> stage[d] \union IF archive[file] = Absent THEN {} ELSE archive[file][d]]]
        /\ refused' \in {refused \ {file}, refused \union {file}}
        /\ UNCHANGED <<live, arc, before, uses>>
    BY <1>2 DEF Zip, Over
  <2>3. \A d \in Directory : stage[d] \in Content /\ stage[d] = FilesIn(live[d])
    BY <2>2
  <2> DEFINE made == [d \in Directory |-> stage[d] \union IF archive[file] = Absent THEN {} ELSE archive[file][d]]
  <2>4. made \in [Directory -> Content]
    BY <2>1, <2>3 DEF Content
  <2>5. archive'[ZipName[arc]'] = made
    BY <2>1, <2>2
  <2>6. made # Absent /\ \A d \in Directory : FilesIn(live[d]) \subseteq made[d]
    BY <2>3, <2>4
  <2> HIDE DEF file, made
  <2>7. archive' \in [Archive -> [Directory -> Content] \union {Absent}]
    BY <2>1, <2>2, <2>4 DEF made
  <2>8. refused' \subseteq Archive
    BY <2>1, <2>2
  <2>9. TypeOK'
    BY <1>2, <2>2, <2>7, <2>8 DEF Zip, Over
  <2>10. (PhaseOK /\ ExportOK /\ NewOK /\ OldOK /\ MovedOK /\ OldOrNew)'
    BY <1>2, <2>2 DEF Zip, Over
  <2>11. ReportsAreTrue'
    BY <2>2, <2>5, <2>6
  <2> QED BY <2>9, <2>10, <2>11
<1>3. CASE ZipAstray
  BY <1>3 DEF ZipAstray, Over
<1> QED BY <1>1, <1>2, <1>3

\* The replacement of a directory
LEMMA ReplaceStep ==
  ASSUME IInv, SetAside \/ PutInPlace \/ NotPlaced \/ Rollback \/ Discard
  PROVE  IInv'
<1> USE Contents
    DEF IInv, TypeOK, PhaseOK, ExportOK, NewOK, OldOK, MovedOK, OldOrNew, ReportsAreTrue, At, places, archives, Exporting,
        Directory, Steps
<1>1. CASE SetAside
  BY <1>1 DEF SetAside
<1>2. CASE PutInPlace
  BY <1>2 DEF PutInPlace
<1>3. CASE NotPlaced
  BY <1>3 DEF NotPlaced
<1>4. CASE Rollback
  BY <1>4 DEF Rollback
<1>5. CASE Discard
  <2>1. \A rest \in SUBSET FilesIn(moved[dir]) : rest \in Content
    BY DEF Content
  <2>2. left' \in [Directory -> Content \union {Absent}]
        /\ \A d \in Directory : d # dir => left'[d] = left[d]
    BY <1>5, <2>1 DEF Discard
  <2>3. TypeOK' /\ PhaseOK' /\ ExportOK' /\ MovedOK'
    BY <1>5, <2>2 DEF Discard
  <2>4. NewOK'
    <3>1. CASE dir = "store"
      BY <1>5, <3>1 DEF Discard
    <3>2. CASE dir = "notes"
      <4>1. live = archive[arc]
        BY <1>5, <3>2 DEF Discard
      <4> QED BY <1>5, <3>2, <4>1 DEF Discard
    <3> QED BY <3>1, <3>2
  <2>5. OldOK' /\ ReportsAreTrue'
    BY <1>5 DEF Discard
  <2>6. OldOrNew'
    BY <1>5, <2>2 DEF Discard
  <2> QED BY <2>3, <2>4, <2>5, <2>6
<1> QED BY <1>1, <1>2, <1>3, <1>4, <1>5

\* The end of an operation, and the setup wizard
LEMMA EndStep ==
  ASSUME IInv, Finish \/ RemoveStore \/ Clone \/ Fail \/ UNCHANGED vars
  PROVE  IInv'
<1> USE Contents
    DEF IInv, TypeOK, PhaseOK, ExportOK, NewOK, OldOK, MovedOK, OldOrNew, ReportsAreTrue, At, Over, places, archives, Exporting,
        Directory, Steps
<1>1. CASE Finish
  BY <1>1 DEF Finish
<1>2. CASE RemoveStore
  BY <1>2 DEF RemoveStore
<1>3. CASE Clone
  BY <1>3 DEF Clone
<1>4. CASE Fail
  BY <1>4 DEF Fail, Content
<1>5. CASE UNCHANGED vars
  BY <1>5 DEF vars
<1> QED BY <1>1, <1>2, <1>3, <1>4, <1>5

THEOREM Invariant == Spec => []IInv
<1>1. IInv /\ [Next]_vars => IInv'
  BY BeginStep, CopyStep, ReplaceStep, EndStep DEF Next
<1> QED BY InitIInv, <1>1, PTL DEF Spec

\* The variables stay in their types; a step finds the archive, the copies and
\* the free place it needs (tui_backup_container.cpp).
THEOREM StoreRestoreTypeCorrect == Spec => []TypeOK
  BY Invariant, PTL DEF IInv

\* An import that fails or is cut off anywhere leaves of each directory the old
\* one, the new one, or the old one renamed away (replace_directory_with_rollback).
THEOREM NothingHalfReplaced == Spec => []OldOrNew
  BY Invariant, PTL DEF IInv

\* A restore reported as complete leaves the store and the notes of the archive,
\* and a backup reported as complete holds everything (import_backup_container,
\* export_backup_container).
THEOREM ReportsTrue == Spec => []ReportsAreTrue
  BY Invariant, PTL DEF IInv
=============================================================================
