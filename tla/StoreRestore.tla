---------------------------- MODULE StoreRestore ----------------------------
(***************************************************************************)
(* Archives of the password store and its notes, and the replacement of    *)
(* both: the store half of tui_backup_container.cpp, and the clone of the  *)
(* setup wizard, which replaces the store as well.                         *)
(*                                                                         *)
(* An import copies both directories of the archive next to the live ones, *)
(* then, for the store and after it for the notes, renames the live one    *)
(* away, the copy to its place, and removes what was renamed away.  Every  *)
(* command may fail, and the program may end between any two.  An export   *)
(* goes through a staging directory, where zip runs and which is removed   *)
(* at the end.                                                             *)
(***************************************************************************)
EXTENDS Naturals

CONSTANTS
  File,     \* files of a directory
  Archive,  \* names of archives
  ZipName,  \* ZipName[a]: the file zip makes when it is to make a: that, or
            \* with .zip behind a name that has no extension
  MaxUses,  \* bound on operations and changes
  Absent    \* no such directory or archive

Directory == {"store", "notes"}
Exporting == {"export", "astray"}
Content == SUBSET File

ASSUME StoreRestoreAssumption ==
  /\ MaxUses \in Nat
  /\ ZipName \in [Archive -> Archive]
  /\ \A c \in Content : c # Absent
  /\ \A c \in [Directory -> Content] : c # Absent

VARIABLES
  live,     \* ~/.password-store and ~/.syncpss/notes
  stage,    \* the copies the operation in progress has made
  moved,    \* what it has renamed away and not yet removed
  left,     \* what the last operation that stopped in between left renamed away
  archive,  \* the archives,
  refused,  \* ... and those whose manifest is cut off, which no import accepts
  pc,       \* the command that runs next
  op,       \* the operation in progress or the last one, if nothing was done since
  arc, dir, \* ... its archive, and the directory it works on
  before,   \* ... and the directories when it began (history)
  uses      \* operations and changes so far

places == <<live, stage, moved, left>>
archives == <<archive, refused>>
vars == <<places, archives, pc, op, arc, dir, before, uses>>

FilesIn(c) == IF c = Absent THEN {} ELSE c

\* Notes are written to a directory of their own, made with the first.
Init ==
  /\ \E files \in Content : live = [d \in Directory |-> IF d = "store" THEN files ELSE Absent]
  /\ stage = [d \in Directory |-> Absent]
  /\ moved = [d \in Directory |-> Absent]
  /\ left = [d \in Directory |-> Absent]
  /\ archive = [a \in Archive |-> Absent]
  /\ refused = {}
  /\ pc = "idle" /\ op = "none" /\ dir = "store" /\ arc \in Archive
  /\ before = live
  /\ uses = 0

Use == pc = "idle" /\ uses < MaxUses /\ uses' = uses + 1

Begin(o, a, first) ==
  /\ Use
  /\ op' = o /\ arc' = a /\ pc' = first /\ dir' = "store"
  /\ before' = live
  /\ UNCHANGED <<places, archives>>

At(step) == pc = step /\ UNCHANGED <<arc, before, uses>>

\* The operation is over; its copies are removed, or stay behind unused, and so
\* does what it has renamed away.
Over(o) ==
  /\ pc' = "idle" /\ op' = o /\ dir' = "store"
  /\ stage' = [d \in Directory |-> Absent]
  /\ moved' = [d \in Directory |-> Absent]
  /\ left' = [d \in Directory |-> IF moved[d] = Absent THEN left[d] ELSE moved[d]]

-----------------------------------------------------------------------------
(* The dialogues.                                                          *)

\* export_backup_container, to a new archive or to one that is there; or to a
\* relative path, which zip takes from the directory it runs in ("astray")
ExportStore ==
  /\ FilesIn(live["store"]) # {}
  /\ \E a \in Archive, o \in Exporting : Begin(o, a, "copy")

\* import_backup_container, confirmed with REPLACE
ImportStore ==
  \E a \in Archive :
    /\ archive[a] # Absent /\ a \notin refused
    /\ Begin("import", a, "copy")

\* run_setup_wizard, confirmed with REPLACE
Setup == \E a \in Archive : Begin("setup", a, "remove")

-----------------------------------------------------------------------------
(* Copies and archives.                                                    *)

Source == IF op \in Exporting THEN FilesIn(live[dir]) ELSE archive[arc][dir]

\* The slip of a copy whose errors are ignored.
CopiedAny(part, all) == part \subseteq all

\* copy_directory_tree_filtered goes file by file, and what it throws ends it.
Copied(part, all) == part = all

\* prepare_staged_directory_copy
Copy ==
  /\ At("copy")
  /\ \E part \in Content :
       Copied(part, Source) /\ stage' = [stage EXCEPT ![dir] = part]
  /\ IF dir = "store"
     THEN dir' = "notes" /\ pc' = "copy"
     ELSE dir' = "store" /\ pc' = IF op \in Exporting THEN "zip" ELSE "move"
  /\ UNCHANGED <<live, moved, left, archives, op>>

\* zip adds to an archive that is there.  The manifest it takes along was
\* written without looking at the writes.
Zip ==
  /\ At("zip") /\ op = "export"
  /\ LET file == ZipName[arc]
     IN  /\ archive' = [archive EXCEPT ![file] =
              [d \in Directory |-> stage[d] \union IF archive[file] = Absent THEN {} ELSE archive[file][d]]]
         /\ refused' \in {refused \ {file}, refused \union {file}}
  /\ Over("export")
  /\ UNCHANGED live

\* zip makes its file in the staging directory, which is removed with it, or in
\* one beside it; the message names the path all the same.
ZipAstray ==
  /\ At("zip") /\ op = "astray"
  /\ Over("astray")
  /\ UNCHANGED <<live, archives>>

-----------------------------------------------------------------------------
(* replace_directory_with_rollback                                         *)

\* The slip of leaving the live directory where it is.
SetNothingAside ==
  /\ At("move")
  /\ pc' = "place"
  /\ UNCHANGED <<places, archives, op, dir>>

SetAside ==
  /\ At("move")
  /\ pc' = "place"
  /\ moved' = [moved EXCEPT ![dir] = live[dir]]
  /\ live' = [live EXCEPT ![dir] = Absent]
  /\ UNCHANGED <<stage, left, archives, op, dir>>

PutInPlace ==
  /\ At("place")
  /\ pc' = "discard"
  /\ live' = [live EXCEPT ![dir] = stage[dir]]
  /\ stage' = [stage EXCEPT ![dir] = Absent]
  /\ UNCHANGED <<moved, left, archives, op, dir>>

\* The second rename fails: the handler renames the first one back.
NotPlaced ==
  /\ At("place")
  /\ pc' = "rollback"
  /\ UNCHANGED <<places, archives, op, dir>>

\* The slip of clearing what was renamed away as well as the copy.
ClearMoved ==
  /\ At("rollback")
  /\ pc' = "failed"
  /\ moved' = [moved EXCEPT ![dir] = Absent]
  /\ UNCHANGED <<live, stage, left, archives, op, dir>>

Rollback ==
  /\ At("rollback")
  /\ pc' = "failed"
  /\ live' = [live EXCEPT ![dir] = moved[dir]]
  /\ moved' = [moved EXCEPT ![dir] = Absent]
  /\ UNCHANGED <<stage, left, archives, op, dir>>

\* The slip of ending with the store.
DiscardAndFinish ==
  /\ At("discard")
  /\ pc' = "manifest"
  /\ moved' = [moved EXCEPT ![dir] = Absent]
  /\ UNCHANGED <<live, stage, left, archives, op, dir>>

\* Errors of the removal are ignored: a part of the directory may stay.
Discard ==
  /\ At("discard")
  /\ IF dir = "store"
     THEN dir' = "notes" /\ pc' = "move"
     ELSE dir' = dir /\ pc' = "manifest"
  /\ moved' = [moved EXCEPT ![dir] = Absent]
  /\ left' \in {left} \union {[left EXCEPT ![dir] = rest] : rest \in SUBSET FilesIn(moved[dir])}
  /\ UNCHANGED <<live, stage, archives, op>>

\* write_store_manifest_file, rebuild_clients, the message
Finish ==
  /\ At("manifest")
  /\ Over("import")
  /\ UNCHANGED <<live, archives>>

-----------------------------------------------------------------------------
(* The clone of the setup wizard.                                          *)

RemoveStore ==
  /\ At("remove")
  /\ pc' = "clone"
  /\ live' = [live EXCEPT !["store"] = Absent]
  /\ UNCHANGED <<stage, moved, left, archives, op, dir>>

Clone ==
  /\ At("clone")
  /\ \E files \in Content : live' = [live EXCEPT !["store"] = files]
  /\ Over("none")
  /\ UNCHANGED archives

-----------------------------------------------------------------------------
(* What goes wrong, and what happens in between.                           *)

\* An exception: a removal and a clone may have got to any point.
Fail ==
  /\ pc # "idle" /\ UNCHANGED <<arc, before, uses, archives>>
  /\ Over(IF op = "import" THEN "aborted" ELSE "none")
  /\ \/ UNCHANGED live
     \/ /\ pc = "remove"
        /\ \E rest \in SUBSET FilesIn(live["store"]) : live' = [live EXCEPT !["store"] = rest]
     \/ /\ pc = "clone"
        /\ \E part \in Content : live' = [live EXCEPT !["store"] = part]

\* pass, or a pull: a file of one of the directories comes or goes.
Change ==
  /\ Use
  /\ \E d \in Directory, f \in File :
       /\ d = "store" => live[d] # Absent
       /\ \/ live' = [live EXCEPT ![d] = FilesIn(@) \union {f}]
          \/ f \in FilesIn(live[d]) /\ live' = [live EXCEPT ![d] = @ \ {f}]
  /\ op' = "none"
  /\ UNCHANGED <<stage, moved, left, archives, pc, arc, dir, before>>

Next ==
  \/ ExportStore \/ ImportStore \/ Setup
  \/ Copy \/ Zip \/ ZipAstray
  \/ SetAside \/ PutInPlace \/ NotPlaced \/ Rollback \/ Discard \/ Finish
  \/ RemoveStore \/ Clone
  \/ Fail \/ Change

Spec == Init /\ [][Next]_vars

-----------------------------------------------------------------------------
Steps == {"copy", "zip", "move", "place", "rollback", "discard", "manifest", "failed", "remove", "clone"}

\* The values of the variables, and what a step finds: an archive to copy from,
\* copies of what it puts in place, and no directory where it renames to.
TypeOK ==
  /\ live \in [Directory -> Content \union {Absent}]
  /\ stage \in [Directory -> Content \union {Absent}]
  /\ moved \in [Directory -> Content \union {Absent}]
  /\ left \in [Directory -> Content \union {Absent}]
  /\ archive \in [Archive -> [Directory -> Content] \union {Absent}]
  /\ pc \in Steps \union {"idle"}
  /\ refused \subseteq Archive
  /\ op \in Exporting \union {"none", "import", "aborted", "setup"}
  /\ arc \in Archive
  /\ dir \in Directory
  /\ before \in [Directory -> Content \union {Absent}]
  /\ uses \in Nat
  /\ op \in {"import", "aborted"} => archive[arc] # Absent
  /\ pc = "zip" => \A d \in Directory : stage[d] # Absent
  /\ pc \in {"move", "place", "rollback"} => stage[dir] # Absent
  /\ pc \in {"place", "rollback"} => live[dir] = Absent

\* During an import, and after one that failed or was cut off, each directory is
\* wholly as it was, or wholly that of the archive, or what it was has been
\* renamed away and kept (replace_directory_with_rollback for two directories,
\* with failures of its own handler and the end of the process).
OldOrNew ==
  op \in {"import", "aborted"} =>
    \A d \in Directory :
      \/ live[d] \in {before[d], archive[arc][d]}
      \/ before[d] \in {moved[d], left[d]}

\* What the screen reports as complete is: after a restore the store and the
\* notes are those of the archive, with nothing of what was there before; after
\* a backup to a full path the archive zip has made of that name holds everything
\* in both.  Two things the message hides: the name zip has made may end in .zip,
\* and the archive may be refused by every import.  After a backup to a relative
\* path there need be no archive at all.
ReportsAreTrue ==
  pc = "idle" =>
    /\ op = "import" => live = archive[arc]
    /\ op = "export" =>
         LET made == archive[ZipName[arc]]
         IN  made # Absent /\ \A d \in Directory : FilesIn(live[d]) \subseteq made[d]
=============================================================================
