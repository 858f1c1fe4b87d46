-------------------------- MODULE PasswordActions --------------------------
(***************************************************************************)
(* Adding, editing, renaming and deleting entries: password_actions.cpp    *)
(* over the password store and the metadata ledger.                        *)
(*                                                                         *)
(* One operation is a dialogue followed by several commands, each of which *)
(* may fail: pass insert, the note file, the removal of the old entry and  *)
(* of its notes, the ledger.  The dialogue up to the first command is one  *)
(* action; then every command is one.  Add and edit catch a failure; in    *)
(* manual mode they ask for another name and start over, in combo mode     *)
(* they pass it on, as every delete does.  Between operations, a pull or   *)
(* another program on top of `pass` changes entries: Outside.  When it     *)
(* starts, syncpss offers to move the notes an old version left in plain   *)
(* text into their entries.                                                *)
(***************************************************************************)
EXTENDS PasswordStore, Naturals

CONSTANTS
  Combo,      \* the pairs <<name, username>> the combo builder can produce
  Logging,    \* metadata_logging_enabled
  Legacies,   \* what notes.json may hold at first: notes by entry, or no file
  MaxUses,    \* bound on operations and outside changes
  Unclaimed   \* no note has been reported as saved

ASSUME PasswordActionsAssumption ==
  /\ Combo \subseteq Name \X User
  /\ Logging \in BOOLEAN
  /\ Legacies \subseteq [Name -> NoteText] \union {Absent}
  /\ MaxUses \in Nat
  /\ Unclaimed \notin NoteText

EL == INSTANCE EntryLedger

VARIABLES
  entries,    \* the entries of the store
  notes,      \* the note files
  ledger,     \* the metadata file,
  readable,   \* ... and whether it parses: it is rewritten in place
  legacy,     \* notes.json, the plain notes of an old version,
  backup,     \* ... and the copy made of it
  phase,      \* the command the operation in progress runs next
  job,        \* what that operation has asked the user
  given,      \* the note last reported as saved with an entry, but for one whose
              \* own file the operation removed again (history)
  uses        \* operations and outside changes so far

disk == <<entries, notes, ledger, readable>>
old  == <<legacy, backup>>
vars == <<disk, old, phase, job, given, uses>>

Phase == {"idle", "insert", "note", "oldNote", "askOld", "remove", "removeNotes", "record", "retry",
          "copy", "migrate", "migrateNote"}

\* What an operation remembers: the entry to save, or to delete, and the name
\* and the username it had; the folder to delete; whether the mode is manual;
\* and the note files still to remove with the entries that are gone.
SaveJob   == [kind : {"add", "edit", "password"}, entry : Entry, from : Name,
              oldUser : Username, manual : BOOLEAN, orphans : SUBSET (Name \X Username)]
DeleteJob == [kind : {"delete"}, from : Name, orphans : SUBSET (Name \X Username)]
FolderJob == [kind : {"folder"}, folder : Folder, orphans : SUBSET (Name \X Username)]

\* What a migration remembers: the entries it has not come to, and the one it saves.
MigrateJob == [kind : {"migrate"}, todo : SUBSET Name, from : Name]

TypeOK ==
  /\ entries \in Entries
  /\ notes \in Notes
  /\ ledger \in EL!Ledger
  /\ readable \in BOOLEAN
  /\ legacy \in [Name -> NoteText] \union {Absent}
  /\ backup \in [Name -> NoteText] \union {Absent}
  /\ phase \in Phase
  /\ phase = "idle" => job = Absent
  /\ phase \in {"insert", "note", "oldNote", "askOld", "retry"} => job \in SaveJob
  /\ phase \in {"remove", "removeNotes", "record"} => job \in SaveJob \union DeleteJob \union FolderJob
  /\ phase \in {"copy", "migrate", "migrateNote"} => job \in MigrateJob /\ legacy # Absent
  /\ given \in [Name -> NoteText \union {Unclaimed}]
  /\ uses \in Nat

Init ==
  /\ entries = [n \in Name |-> Absent]
  /\ notes = [n \in Name |-> [t \in Token |-> NoNote]]
  /\ ledger = EL!NoRecords
  /\ readable = TRUE
  /\ legacy \in Legacies
  /\ backup = Absent
  /\ phase = "idle"
  /\ job = Absent
  /\ given = [n \in Name |-> Unclaimed]
  /\ uses = 0

-----------------------------------------------------------------------------
(* The dialogues.                                                          *)

Use == phase = "idle" /\ uses < MaxUses /\ uses' = uses + 1

Begin(first, j) ==
  /\ phase' = first
  /\ job' = j
  /\ UNCHANGED <<disk, given>>

Saving(kind, entry, from, oldUser, manual) ==
  [kind |-> kind, entry |-> entry, from |-> from, oldUser |-> oldUser,
   manual |-> manual, orphans |-> {}]

\* prompt_password_value with the return on an empty password
PasswordsEntered == Password

\* The names and usernames a form can end with: any name and the username at
\* hand in manual mode, what the builder composes in combo mode.
FormNames(manual, username) == IF manual THEN Name \X {username} ELSE Combo

\* add_password; the form starts empty, so a manual entry has no username
AddPassword ==
  \E manual \in BOOLEAN, password \in PasswordsEntered, text \in NoteText :
    \E nu \in FormNames(manual, NoUser) :
      /\ Use
      /\ Begin("insert",
               Saving("add",
                      [name |-> nu[1], password |-> password, username |-> nu[2], notes |-> text],
                      nu[1], nu[2], manual))

\* The preferred mode comes from the ledger, which must parse.
CanEdit(n) == n \in Stored(entries) /\ readable

\* edit_password, "Only change the password and keep the rest as-is?"
EditPasswordOnly ==
  \E n \in Name, password \in PasswordsEntered :
    /\ CanEdit(n)
    /\ LET read == ReadEntry(entries, notes, n)
       IN  /\ Use
           /\ Begin("insert", Saving("password", [read EXCEPT !.password = password],
                                     n, read.username, FALSE))

\* edit_password, all fields.  The prompts of a new password and of the note
\* answer Esc, which the screen calls cancel, with the empty text, and go on:
\* the note is removed, the password refused.
EditPassword ==
  \E n \in Name, manual \in BOOLEAN, text \in NoteText :
    /\ CanEdit(n)
    /\ LET read == ReadEntry(entries, notes, n)
       IN  \E nu \in FormNames(manual, read.username), password \in PasswordText :
             /\ Use
             /\ Begin("insert",
                      Saving("edit",
                             [name |-> nu[1], password |-> password, username |-> nu[2], notes |-> text],
                             n, read.username, manual))

\* delete_password of one entry, confirmed
DeletePassword ==
  \E n \in Stored(entries) :
    /\ Use
    /\ Begin("remove", [kind |-> "delete", from |-> n, orphans |-> {}])

\* delete_password of a folder; the browser shows those with an entry inside
DeleteFolder ==
  \E f \in Folder :
    /\ EntriesBelow(entries, f) \ {f} # {}
    /\ Use
    /\ Begin("remove", [kind |-> "folder", folder |-> f, orphans |-> {}])

\* A pull, or another program on top of pass, while syncpss waits in a menu.
Outside ==
  \E n \in Name, c \in Contents :
    /\ Use
    /\ c # entries[n]
    /\ entries' = [entries EXCEPT ![n] = c]
    /\ given' = [given EXCEPT ![n] = Unclaimed]
    /\ UNCHANGED <<notes, ledger, readable, phase, job>>

-----------------------------------------------------------------------------
(* The commands.                                                           *)

Goto(p) == phase' = p /\ UNCHANGED <<job, uses>>

\* save_entry, the entry: pass insert
Insert ==
  /\ phase = "insert"
  /\ job.entry.password # NoPassword
  /\ entries' = PassInsert(entries, job.entry)
  /\ given' = [given EXCEPT ![job.entry.name] = Unclaimed]
  /\ Goto("note")
  /\ UNCHANGED <<notes, ledger, readable>>

\* Slips: the old note goes, or the old entry is asked for, whatever was edited.
AlwaysDropsOldNote(j) == j.kind # "add"
AlwaysAsksForOld(j) == j.kind = "edit"

\* The note moved with the username of an entry that keeps its name.
DropsOldNote(j) == j.kind # "add" /\ j.entry.name = j.from /\ j.entry.username # j.oldUser

\* ... to a username with the same token: the note dropped is the one just written.
DropsNewNote(j) ==
  /\ j.kind # "add" /\ j.entry.name = j.from
  /\ j.entry.username # j.oldUser /\ TokenOf[j.entry.username] = TokenOf[j.oldUser]

\* What an operation leaves of the entry it saves.
Left(j) == IF DropsNewNote(j) THEN [j.entry EXCEPT !.notes = NoNote] ELSE j.entry

\* The entry was renamed.
AsksForOld(j) == j.kind = "edit" /\ j.entry.name # j.from

\* save_entry, the note
WriteNote ==
  /\ phase = "note"
  /\ notes' = SaveNotes(notes, job.entry)
  /\ Goto(IF DropsOldNote(job) THEN "oldNote" ELSE IF AsksForOld(job) THEN "askOld" ELSE "record")
  /\ UNCHANGED <<entries, ledger, readable, given>>

DropOldNote ==
  /\ phase = "oldNote"
  /\ notes' = DeleteNotes(notes, job.from, job.oldUser)
  /\ Goto(IF AsksForOld(job) THEN "askOld" ELSE "record")
  /\ UNCHANGED <<entries, ledger, readable, given>>

\* "Delete the old entry '...' now?"
AskOld ==
  /\ phase = "askOld"
  /\ \E yes \in BOOLEAN : Goto(IF yes THEN "remove" ELSE "record")
  /\ UNCHANGED <<disk, given>>

\* The entries in gone leave the store; the notes of those in read go next.
Remove(gone, orphans) ==
  /\ phase = "remove"
  /\ entries' = [n \in Name |-> IF n \in gone THEN Absent ELSE entries[n]]
  /\ given' = [n \in Name |-> IF \E o \in orphans : o[1] = n THEN Unclaimed ELSE given[n]]
  /\ phase' = "removeNotes"
  /\ job' = [job EXCEPT !.orphans = orphans]
  /\ UNCHANGED <<notes, ledger, readable, uses>>

\* delete_entry, up to pass rm, which fails if the entry is gone already
DeleteEntry ==
  /\ phase = "remove" /\ job.kind # "folder"
  /\ job.from \in Stored(entries)
  /\ \E u \in UsernamesRead(entries, job.from) : Remove({job.from}, {<<job.from, u>>})

\* delete_tree, up to pass rm -r
DeleteTree ==
  /\ phase = "remove" /\ job.kind = "folder"
  /\ LET all == EntriesBelow(entries, job.folder)
     IN  \E unread \in SUBSET all :
           Remove(RemovedByPass(entries, job.folder),
                  {<<n, IF n \in unread THEN NoUser ELSE entries[n].username>> : n \in all})

\* delete_entry and delete_tree, one note after the other
RemoveNote ==
  /\ phase = "removeNotes"
  /\ \E o \in job.orphans :
       /\ notes' = DeleteNotes(notes, o[1], o[2])
       /\ job' = [job EXCEPT !.orphans = @ \ {o}]
       /\ phase' = IF job.orphans = {o} THEN "record" ELSE "removeNotes"
  /\ UNCHANGED <<entries, ledger, readable, given, uses>>

\* The record of an operation that has done the rest
Recorded(j) ==
  CASE j.kind = "add"                  -> EL!RecordCreation(ledger, j.entry.name)
    [] j.kind \in {"edit", "password"} -> EL!RecordModification(ledger, j.from, j.entry.name)
    [] j.kind = "delete"               -> EL!RecordDeletion(ledger, j.from)
    [] j.kind = "folder"               -> EL!RecordRecursiveDeletion(ledger, Below[j.folder])

\* The ledger is updated and the message of success shown.
Succeed ==
  /\ phase = "record"
  /\ IF Logging THEN readable /\ ledger' = Recorded(job) ELSE UNCHANGED ledger
  /\ given' = IF job \in SaveJob /\ ~DropsNewNote(job)
                THEN [given EXCEPT ![job.entry.name] = job.entry.notes] ELSE given
  /\ phase' = "idle"
  /\ job' = Absent
  /\ UNCHANGED <<entries, notes, readable, uses>>

-----------------------------------------------------------------------------
(* Failures.                                                               *)

Abandon == phase' = "idle" /\ job' = Absent /\ UNCHANGED <<entries, notes, ledger, given, uses>>

Commands == {"insert", "note", "oldNote", "remove", "removeNotes", "record"}

\* In manual mode the loop around save_entry asks for another name; everything
\* else ends the operation.
Handle ==
  IF job \in SaveJob /\ job.manual
    THEN phase' = "retry" /\ UNCHANGED job
    ELSE phase' = "idle" /\ job' = Absent

\* The command fails, or save_entry refuses an empty password.
Fail ==
  /\ phase \in Commands
  /\ Handle
  /\ UNCHANGED <<disk, given, uses>>

\* The ledger is saved and the runtime log cannot be written; when a folder is
\* deleted the log comes first.
LogFails ==
  /\ phase = "record" /\ job.kind # "folder"
  /\ Logging /\ readable
  /\ ledger' = Recorded(job)
  /\ Handle
  /\ UNCHANGED <<entries, notes, readable, given, uses>>

\* A slip: an empty name is not the end of the operation.
EnterAnyName ==
  /\ phase = "retry"
  /\ \E n \in Name \union {NoUser} : job' = [job EXCEPT !.entry.name = n]
  /\ phase' = "insert"
  /\ UNCHANGED <<disk, given, uses>>

\* "Please correct the entry and try again."
EnterName ==
  /\ phase = "retry"
  /\ \E n \in Name : job' = [job EXCEPT !.entry.name = n]
  /\ phase' = "insert"
  /\ UNCHANGED <<disk, given, uses>>

GiveUp == phase = "retry" /\ Abandon /\ UNCHANGED readable

\* The process ends between two commands; while it rewrites the ledger, a
\* part of the file may be all that is left.
Kill ==
  /\ phase # "idle"
  /\ Abandon
  /\ IF phase = "record" /\ Logging THEN readable' \in {readable, FALSE} ELSE UNCHANGED readable

-----------------------------------------------------------------------------
(* The migration of plain notes.                                           *)

\* maybe_migrate_legacy_plaintext_notes, answered with yes
Migrate ==
  /\ Use
  /\ legacy # Absent
  /\ \E n \in Name :
       Begin("copy", [kind |-> "migrate", todo |-> {m \in Name : legacy[m] # NoNote}, from |-> n])
  /\ UNCHANGED old

\* A slip: no copy is made when there is one.
CopyOnce ==
  /\ phase = "copy"
  /\ backup' = IF backup = Absent THEN [n \in Name |-> NoNote] ELSE backup
  /\ Goto("migrate")
  /\ UNCHANGED <<disk, given, legacy>>

CopyLegacy ==
  /\ phase = "copy"
  /\ backup' = legacy
  /\ Goto("migrate")
  /\ UNCHANGED <<disk, given, legacy>>

\* The entry is not there, has a note, or cannot be read or saved; all are
\* passed over alike.
SkipEntry ==
  /\ phase = "migrate"
  /\ \E n \in job.todo : job' = [job EXCEPT !.todo = @ \ {n}]
  /\ UNCHANGED <<disk, old, phase, given, uses>>

\* save_entry of an entry without a note, first half
InsertWithNote ==
  /\ phase = "migrate"
  /\ \E n \in job.todo \intersect Stored(entries) :
       /\ ReadNotes(entries, notes, n) = NoNote
       /\ entries[n].password # NoPassword
       /\ entries' = PassInsert(entries, ReadEntry(entries, notes, n))
       /\ given' = [given EXCEPT ![n] = Unclaimed]
       /\ job' = [job EXCEPT !.todo = @ \ {n}, !.from = n]
  /\ phase' = "migrateNote"
  /\ UNCHANGED <<notes, ledger, readable, old, uses>>

\* ... and second half, which may fail
WriteLegacyNote ==
  /\ phase = "migrateNote"
  /\ LET e == [ReadEntry(entries, notes, job.from) EXCEPT !.notes = legacy[job.from]]
     IN  \/ notes' = SaveNotes(notes, e) /\ given' = [given EXCEPT ![job.from] = e.notes]
         \/ UNCHANGED <<notes, given>>
  /\ Goto("migrate")
  /\ UNCHANGED <<entries, ledger, readable, old>>

RemoveLegacy ==
  /\ phase = "migrate" /\ job.todo = {}
  /\ legacy' = Absent
  /\ phase' = "idle" /\ job' = Absent
  /\ UNCHANGED <<disk, backup, given, uses>>

-----------------------------------------------------------------------------
Dialogue == AddPassword \/ EditPasswordOnly \/ EditPassword \/ DeletePassword \/ DeleteFolder
Command == Insert \/ WriteNote \/ DropOldNote \/ AskOld \/ DeleteEntry \/ DeleteTree \/ RemoveNote \/ Succeed
Failure == Fail \/ LogFails \/ EnterName \/ GiveUp \/ Kill
Migration == Migrate \/ CopyLegacy \/ SkipEntry \/ InsertWithNote \/ WriteLegacyNote \/ RemoveLegacy

Next ==
  \/ (Dialogue \/ Outside \/ Command \/ Failure) /\ UNCHANGED old
  \/ Migration

Spec == Init /\ [][Next]_vars

-----------------------------------------------------------------------------
(* Properties of the code.                                                 *)

\* What the user edits is in the store, under its old name or, with password
\* and note as typed, under its new one: whatever fails and however often the
\* form is entered again, an entry only leaves because its deletion was
\* confirmed or because its replacement is complete.  The plain notes only leave
\* once all of them are in the backup.
NothingLost ==
  [][/\ \A n \in Stored(entries) :
          n \notin Stored(entries)' =>
            \/ phase = "idle"
            \/ job.kind = "delete" /\ n = job.from
            \/ job.kind = "folder" /\ n \in Below[job.folder]
            \/ /\ job.kind = "edit" /\ n = job.from /\ job.entry.name \in Stored(entries)'
               /\ ReadEntry(entries, notes, job.entry.name)' = job'.entry
     /\ legacy' # legacy => backup = legacy]_vars

\* The note reported as saved with an entry is read with it as long as the
\* entry is not changed: operations on other entries, old notes dropped with a
\* username, and failures of any of them leave it alone.  An edit that changes
\* the username to another one with the same token reports a note that it has
\* removed itself; that note alone is not claimed.
NotesReadBack ==
  \A n \in Name :
    given[n] # Unclaimed => n \in Stored(entries) /\ ReadNotes(entries, notes, n) = given[n]

\* A message of success is true of the store and of the ledger at once: the
\* entry saved is the form shown, the name it had is gone from the ledger, and
\* what was deleted is no longer there.  Two exceptions: of a folder that is an
\* entry as well pass removes the entry and leaves the folder; and an entry whose
\* new username has the token of the old one is saved as shown but without its
\* note, although the message says that it was updated.
SuccessMeansDone ==
  [][Succeed =>
       IF job \in SaveJob
         THEN /\ job.entry.name \in Stored(entries)
              /\ ReadEntry(entries, notes, job.entry.name) = Left(job)
              /\ Logging =>
                   /\ ledger'[job.entry.name] = "active"
                   /\ job.kind # "add" /\ job.from # job.entry.name => ledger'[job.from] = "none"
         ELSE LET named == IF job.kind = "delete" THEN {job.from} ELSE Below[job.folder]
              IN  /\ \/ named \intersect Stored(entries) = {}
                     \/ job.kind = "folder" /\ job.folder \in Name
                  /\ Logging => \A n \in named : ledger'[n] # "active"]_vars

-----------------------------------------------------------------------------
(* What the program says and does not keep.                                *)

\* "Only change the password and keep the rest as-is?": lines of an entry that
\* syncpss does not know are a part of the rest.
RestKeptAsIs ==
  [][phase = "insert" /\ job.kind = "password" /\ phase' = "note" =>
       entries'[job.from].foreign = entries[job.from].foreign]_vars
=============================================================================
