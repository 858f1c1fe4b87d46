----------------------- MODULE PasswordActionsProofs -----------------------
(***************************************************************************)
(* The properties of PasswordActions, for any names, folders and texts.    *)
(***************************************************************************)
EXTENDS PasswordActions, TLAPS

USE PasswordStoreAssumption, AbsentIsNoContent, PasswordActionsAssumption

Saves == job \in SaveJob

\* The entry of a save job is stored once it has been inserted; its note file
\* holds the note once that is written and the one Left says once the old note is
\* gone; and an old note or an old entry goes only if the name or the username
\* is another one.
SavedOK ==
  /\ Saves /\ phase \in {"note", "oldNote", "askOld", "remove", "removeNotes", "record"} =>
       /\ entries[job.entry.name] = SerializeEntry(job.entry)
       /\ given[job.entry.name] = Unclaimed
       /\ phase = "oldNote" => notes[job.entry.name][TokenOf[job.entry.username]] = job.entry.notes
       /\ phase \notin {"note", "oldNote"} =>
            notes[job.entry.name][TokenOf[job.entry.username]] = Left(job).notes
  /\ phase = "oldNote" =>
       job.kind # "add" /\ job.entry.name = job.from /\ job.entry.username # job.oldUser
  /\ Saves /\ phase \in {"askOld", "remove", "removeNotes"} =>
       job.kind = "edit" /\ job.entry.name # job.from

\* What a deletion has removed stays removed until it is recorded.
RemovedOK ==
  phase \in {"removeNotes", "record"} =>
    /\ job \in DeleteJob => job.from \notin Stored(entries)
    /\ job \in FolderJob =>
         \/ Below[job.folder] \intersect Stored(entries) = {}
         \/ job.folder \in Name

\* The note files still to remove belong to no entry with a claim, and while
\* an old entry goes, not to the new one.
OrphansOK ==
  phase = "removeNotes" =>
    /\ \A o \in job.orphans : given[o[1]] = Unclaimed
    /\ Saves => \A o \in job.orphans : o[1] # job.entry.name

ActionsInv == TypeOK /\ SavedOK /\ RemovedOK /\ OrphansOK /\ NotesReadBack

\* While notes are migrated the backup is complete, and the entry whose note
\* comes next has been saved without one and has no note file.
MigratedOK ==
  /\ phase \in {"migrate", "migrateNote"} => backup = legacy
  /\ phase = "migrateNote" =>
       /\ job.from \in Stored(entries) /\ entries[job.from] \in Content /\ entries[job.from].inline = NoNote
       /\ notes[job.from][TokenOf[entries[job.from].username]] = NoNote

IInv == ActionsInv /\ MigratedOK

-----------------------------------------------------------------------------
(* The operators of PasswordStore.                                         *)

\* What is read of an entry is a form that can be saved.
LEMMA ReadEntryType ==
  ASSUME entries \in Entries, notes \in Notes, NEW n \in Stored(entries)
  PROVE  /\ n \in Name
         /\ entries[n] \in Content
         /\ ReadEntry(entries, notes, n) \in Entry
<1>1. n \in Name /\ entries[n] \in Content BY DEF Stored, Entries, Contents
<1>2. entries[n].username \in Username /\ entries[n].password \in PasswordText /\ entries[n].inline \in NoteText
  BY <1>1 DEF Content
<1>3. notes[n][TokenOf[entries[n].username]] \in NoteText BY <1>1, <1>2 DEF Notes, Username
<1>4. ReadNotes(entries, notes, n) \in NoteText BY <1>2, <1>3 DEF ReadNotes
<1> QED BY <1>1, <1>2, <1>4 DEF ReadEntry, Entry

\* Saving a form and reading it gives the form.
LEMMA SaveThenRead ==
  ASSUME NEW e \in Entry, entries[e.name] = SerializeEntry(e), notes[e.name][TokenOf[e.username]] = e.notes
  PROVE  e.name \in Stored(entries) /\ ReadEntry(entries, notes, e.name) = e
<1>1. SerializeEntry(e) \in Content BY DEF SerializeEntry, Content, Entry, NoteText
<1>2. e.name \in Stored(entries) BY <1>1 DEF Stored, Entry
<1>3. ReadNotes(entries, notes, e.name) = e.notes BY DEF ReadNotes, SerializeEntry
<1>4. e = [name |-> e.name, password |-> e.password, username |-> e.username, notes |-> e.notes]
  BY DEF Entry
<1> QED BY <1>2, <1>3, <1>4 DEF ReadEntry, SerializeEntry

LEMMA InsertType ==
  ASSUME entries \in Entries, NEW e \in Entry
  PROVE  PassInsert(entries, e) \in Entries
<1>1. SerializeEntry(e) \in Contents BY DEF SerializeEntry, Content, Contents, Entry, NoteText
<1> QED BY <1>1 DEF PassInsert, Entries

LEMMA NotesType ==
  ASSUME notes \in Notes, NEW n \in Name, NEW u \in Username, NEW t \in NoteText
  PROVE  [notes EXCEPT ![n][TokenOf[u]] = t] \in Notes
<1>1. TokenOf[u] \in Token BY DEF Username
<1> QED BY <1>1 DEF Notes

\* What a save leaves of a form is the form, with or without its note.
LEMMA LeftType ==
  ASSUME NEW j \in SaveJob
  PROVE  /\ Left(j) \in Entry
         /\ Left(j).name = j.entry.name /\ Left(j).username = j.entry.username
         /\ SerializeEntry(Left(j)) = SerializeEntry(j.entry)
         /\ Left(j).notes = IF DropsNewNote(j) THEN NoNote ELSE j.entry.notes
         /\ ~DropsNewNote(j) => Left(j) = j.entry
<1>1. j.entry \in Entry BY DEF SaveJob
<1>2. NoNote \in NoteText BY DEF NoteText
<1> QED BY <1>1, <1>2 DEF Left, Entry, SerializeEntry

-----------------------------------------------------------------------------
LEMMA InitIInv == Init => IInv
<1> SUFFICES ASSUME Init PROVE IInv OBVIOUS
<1>1. TypeOK
  BY DEF Init, TypeOK, Entries, Contents, Notes, NoteText, Phase, EL!Ledger, EL!NoRecords, EL!Record
<1>2. SavedOK /\ RemovedOK /\ OrphansOK /\ NotesReadBack /\ MigratedOK
  BY DEF Init, SavedOK, RemovedOK, OrphansOK, NotesReadBack, MigratedOK
<1> QED BY <1>1, <1>2 DEF IInv, ActionsInv

\* A dialogue ends with a job to run and changes nothing else.
LEMMA DialogueStep == ASSUME ActionsInv, Dialogue, UNCHANGED old PROVE ActionsInv'
<1> USE DEF ActionsInv, TypeOK, old
<1>1. ASSUME NEW first \in {"insert", "remove"}, NEW j, Use, Begin(first, j),
             first = "insert" => j \in SaveJob,
             first = "remove" => j \in DeleteJob \union FolderJob
      PROVE  ActionsInv'
  <2>1. TypeOK' BY <1>1 DEF Use, Begin, disk, Phase
  <2>2. j \in DeleteJob \union FolderJob => j \notin SaveJob BY DEF SaveJob, DeleteJob, FolderJob
  <2>3. SavedOK' BY <1>1, <2>2 DEF Use, Begin, disk, SavedOK, Saves
  <2>4. (RemovedOK /\ OrphansOK)' BY <1>1 DEF Begin, RemovedOK, OrphansOK
  <2>5. NotesReadBack' BY <1>1 DEF Begin, disk, NotesReadBack, Stored, ReadNotes
  <2> QED BY <2>1, <2>3, <2>4, <2>5
<1>2. ASSUME NEW kind \in {"add", "edit", "password"}, NEW e \in Entry, NEW n \in Name,
             NEW u \in Username, NEW manual \in BOOLEAN
      PROVE  Saving(kind, e, n, u, manual) \in SaveJob
  BY DEF Saving, SaveJob
<1>3. ASSUME NEW manual \in BOOLEAN, NEW u \in Username, NEW nu \in FormNames(manual, u)
      PROVE  nu[1] \in Name /\ nu[2] \in Username
  BY DEF FormNames, Username
<1>4. CASE AddPassword
  BY <1>1, <1>2, <1>3, <1>4 DEF AddPassword, PasswordsEntered, PasswordText, Entry, Username
<1>5. CASE EditPasswordOnly
  <2>1. PICK n \in Name, password \in Password :
          /\ CanEdit(n) /\ Use
          /\ Begin("insert", Saving("password",
                                    [ReadEntry(entries, notes, n) EXCEPT !.password = password],
                                    n, ReadEntry(entries, notes, n).username, FALSE))
    BY <1>5 DEF EditPasswordOnly, PasswordsEntered
  <2>2. ReadEntry(entries, notes, n) \in Entry BY <2>1, ReadEntryType DEF CanEdit
  <2>3. /\ [ReadEntry(entries, notes, n) EXCEPT !.password = password] \in Entry
        /\ ReadEntry(entries, notes, n).username \in Username
    BY <2>2 DEF Entry, PasswordText
  <2> QED BY <1>1, <1>2, <2>1, <2>3
<1>6. CASE EditPassword
  <2>1. PICK n \in Name, manual \in BOOLEAN, text \in NoteText :
          /\ CanEdit(n)
          /\ \E nu \in FormNames(manual, ReadEntry(entries, notes, n).username), password \in PasswordText :
               /\ Use
               /\ Begin("insert", Saving("edit",
                       [name |-> nu[1], password |-> password, username |-> nu[2], notes |-> text],
                       n, ReadEntry(entries, notes, n).username, manual))
    BY <1>6 DEF EditPassword
  <2>2. ReadEntry(entries, notes, n).username \in Username
    BY <2>1, ReadEntryType DEF CanEdit, Entry
  <2>3. PICK nu \in FormNames(manual, ReadEntry(entries, notes, n).username), password \in PasswordText :
          /\ Use
          /\ Begin("insert", Saving("edit",
                  [name |-> nu[1], password |-> password, username |-> nu[2], notes |-> text],
                  n, ReadEntry(entries, notes, n).username, manual))
    BY <2>1
  <2>4. nu[1] \in Name /\ nu[2] \in Username BY <1>3, <2>2
  <2>5. [name |-> nu[1], password |-> password, username |-> nu[2], notes |-> text] \in Entry
    BY <2>4 DEF Entry
  <2> QED BY <1>1, <1>2, <2>2, <2>3, <2>5
<1>7. CASE DeletePassword
  <2>1. PICK n \in Stored(entries) : Use /\ Begin("remove", [kind |-> "delete", from |-> n, orphans |-> {}])
    BY <1>7 DEF DeletePassword
  <2>2. [kind |-> "delete", from |-> n, orphans |-> {}] \in DeleteJob BY DEF DeleteJob, Stored
  <2> QED BY <1>1, <2>1, <2>2
<1>8. CASE DeleteFolder
  <2>1. PICK f \in Folder : Use /\ Begin("remove", [kind |-> "folder", folder |-> f, orphans |-> {}])
    BY <1>8 DEF DeleteFolder
  <2>2. [kind |-> "folder", folder |-> f, orphans |-> {}] \in FolderJob BY DEF FolderJob
  <2> QED BY <1>1, <2>1, <2>2
<1> QED BY <1>4, <1>5, <1>6, <1>7, <1>8 DEF Dialogue

LEMMA OutsideStep == ASSUME ActionsInv, Outside, UNCHANGED old PROVE ActionsInv'
<1> USE DEF ActionsInv, TypeOK, old
<1>1. PICK n \in Name, c \in Contents :
        /\ Use
        /\ entries' = [entries EXCEPT ![n] = c]
        /\ given' = [given EXCEPT ![n] = Unclaimed]
        /\ UNCHANGED <<notes, ledger, readable, phase, job>>
  BY DEF Outside
<1>2. TypeOK' BY <1>1 DEF Use, Entries
<1>3. (SavedOK /\ RemovedOK /\ OrphansOK)' BY <1>1 DEF Use, SavedOK, RemovedOK, OrphansOK
<1>4. NotesReadBack' BY <1>1 DEF NotesReadBack, Stored, ReadNotes, Entries
<1> QED BY <1>2, <1>3, <1>4

LEMMA KindsDiffer ==
  /\ \A j \in DeleteJob : j.kind = "delete" /\ j \notin SaveJob /\ j \notin FolderJob
  /\ \A j \in FolderJob : j.kind = "folder" /\ j \notin SaveJob /\ j \notin DeleteJob
  /\ \A j \in SaveJob : j.kind \in {"add", "edit", "password"} /\ j \notin DeleteJob /\ j \notin FolderJob
  /\ \A j \in MigrateJob : j.kind = "migrate" /\ j \notin SaveJob /\ j \notin DeleteJob /\ j \notin FolderJob
  BY DEF SaveJob, DeleteJob, FolderJob, MigrateJob

LEMMA InsertStep == ASSUME ActionsInv, Insert, UNCHANGED old PROVE ActionsInv'
<1> USE DEF ActionsInv, TypeOK, old
<1>1. /\ phase = "insert" /\ phase' = "note" /\ job' = job /\ uses' = uses
      /\ entries' = PassInsert(entries, job.entry)
      /\ given' = [given EXCEPT ![job.entry.name] = Unclaimed]
      /\ UNCHANGED <<notes, ledger, readable>>
      /\ job \in SaveJob /\ job.entry \in Entry /\ job.entry.name \in Name
  BY DEF Insert, Goto, SaveJob, Entry
<1>2. TypeOK' BY <1>1, InsertType DEF Phase
<1>3. SavedOK' BY <1>1 DEF SavedOK, Saves, PassInsert, Entries
<1>4. (RemovedOK /\ OrphansOK)' BY <1>1 DEF RemovedOK, OrphansOK
<1>5. NotesReadBack' BY <1>1 DEF NotesReadBack, Stored, ReadNotes, PassInsert, Entries
<1> QED BY <1>2, <1>3, <1>4, <1>5

LEMMA WriteNoteStep == ASSUME ActionsInv, WriteNote, UNCHANGED old PROVE ActionsInv'
<1> USE DEF ActionsInv, TypeOK, old
<1>1. /\ phase = "note" /\ job' = job /\ uses' = uses
      /\ phase' = IF DropsOldNote(job) THEN "oldNote" ELSE IF AsksForOld(job) THEN "askOld" ELSE "record"
      /\ notes' = SaveNotes(notes, job.entry)
      /\ UNCHANGED <<entries, ledger, readable, given>>
      /\ job \in SaveJob /\ job.entry \in Entry /\ job.from \in Name
      /\ job.entry.name \in Name /\ job.entry.username \in Username /\ job.entry.notes \in NoteText
  BY DEF WriteNote, Goto, SaveJob, Entry
<1>2. TypeOK' BY <1>1, NotesType DEF SaveNotes, Phase
<1>3. notes'[job.entry.name][TokenOf[job.entry.username]] = job.entry.notes
  BY <1>1 DEF SaveNotes, Notes, Username
<1>4. ASSUME NEW n \in Name, n # job.entry.name PROVE notes'[n] = notes[n]
  BY <1>1, <1>4 DEF SaveNotes, Notes
<1>5. phase' # "oldNote" => ~DropsNewNote(job) BY <1>1 DEF DropsNewNote, DropsOldNote
<1>9. phase' \notin {"note", "oldNote"} => Left(job)' = job.entry
  BY <1>1, <1>5, LeftType DEF Left, DropsNewNote
<1>10. SavedOK' BY <1>1, <1>3, <1>9 DEF SavedOK, Saves, DropsOldNote, AsksForOld
<1>6. (RemovedOK /\ OrphansOK)' BY <1>1, KindsDiffer DEF RemovedOK, OrphansOK, DropsOldNote, AsksForOld
<1>7. given[job.entry.name] = Unclaimed BY <1>1 DEF SavedOK, Saves
<1>8. NotesReadBack' BY <1>1, <1>4, <1>7 DEF NotesReadBack, Stored, ReadNotes
<1> QED BY <1>2, <1>6, <1>8, <1>10

LEMMA DropOldNoteStep == ASSUME ActionsInv, DropOldNote, UNCHANGED old PROVE ActionsInv'
<1> USE DEF ActionsInv, TypeOK, old
<1>1. /\ phase = "oldNote" /\ job' = job /\ uses' = uses
      /\ notes' = DeleteNotes(notes, job.from, job.oldUser)
      /\ UNCHANGED <<entries, ledger, readable, given>>
      /\ job \in SaveJob /\ job.entry \in Entry /\ job.from \in Name /\ job.oldUser \in Username
      /\ job.entry.name \in Name /\ job.entry.username \in Username
  BY DEF DropOldNote, Goto, SaveJob, Entry
<1>2. /\ job.kind # "add" /\ job.entry.name = job.from /\ job.entry.username # job.oldUser
      /\ given[job.entry.name] = Unclaimed
      /\ entries[job.entry.name] = SerializeEntry(job.entry)
      /\ notes[job.entry.name][TokenOf[job.entry.username]] = job.entry.notes
  BY <1>1 DEF SavedOK, Saves
<1>3. phase' = "record" BY <1>1, <1>2 DEF DropOldNote, Goto, AsksForOld
<1>4. TypeOK' BY <1>1, <1>3, NotesType DEF DeleteNotes, Phase, NoteText
<1>5. notes'[job.entry.name][TokenOf[job.entry.username]] = Left(job).notes
  <2>1. TokenOf[job.entry.username] \in Token /\ TokenOf[job.oldUser] \in Token
    BY <1>1 DEF Username
  <2>2. DropsNewNote(job) <=> TokenOf[job.entry.username] = TokenOf[job.oldUser]
    BY <1>1, <1>2 DEF DropsNewNote
  <2> QED BY <1>1, <1>2, <2>1, <2>2, LeftType DEF DeleteNotes, Notes
<1>6. ASSUME NEW n \in Name, n # job.entry.name PROVE notes'[n] = notes[n]
  BY <1>1, <1>2, <1>6 DEF DeleteNotes, Notes
<1>10. Left(job)' = Left(job) BY <1>1 DEF Left, DropsNewNote
<1>7. SavedOK' BY <1>1, <1>2, <1>3, <1>5, <1>10 DEF SavedOK, Saves
<1>8. (RemovedOK /\ OrphansOK)' BY <1>1, <1>3, KindsDiffer DEF RemovedOK, OrphansOK
<1>9. NotesReadBack' BY <1>1, <1>2, <1>6 DEF NotesReadBack, Stored, ReadNotes
<1> QED BY <1>4, <1>7, <1>8, <1>9

LEMMA AskOldStep == ASSUME ActionsInv, AskOld, UNCHANGED old PROVE ActionsInv'
<1> USE DEF ActionsInv, TypeOK, old
<1>1. /\ phase = "askOld" /\ phase' \in {"remove", "record"} /\ job' = job /\ uses' = uses
      /\ UNCHANGED <<entries, notes, ledger, readable, given>>
      /\ job \in SaveJob
  BY DEF AskOld, Goto, disk
<1>2. TypeOK' BY <1>1 DEF Phase
<1>6. Left(job)' = Left(job) BY <1>1 DEF Left, DropsNewNote
<1>3. SavedOK' BY <1>1, <1>6 DEF SavedOK, Saves
<1>4. (RemovedOK /\ OrphansOK)' BY <1>1, KindsDiffer DEF RemovedOK, OrphansOK
<1>5. NotesReadBack' BY <1>1 DEF NotesReadBack, Stored, ReadNotes
<1> QED BY <1>2, <1>3, <1>4, <1>5

\* What Remove does, wherever it is used
LEMMA RemoveStep ==
  ASSUME ActionsInv, UNCHANGED old, NEW gone \in SUBSET Name, NEW orphans \in SUBSET (Name \X Username),
         Remove(gone, orphans),
         \A n \in gone : \E o \in orphans : o[1] = n,
         Saves => job.entry.name \notin gone /\ \A o \in orphans : o[1] # job.entry.name,
         job \in DeleteJob => job.from \in gone,
         job \in FolderJob => \/ Below[job.folder] \intersect Stored(entries) \subseteq gone
                              \/ job.folder \in Name
  PROVE  ActionsInv'
<1> USE DEF ActionsInv, TypeOK, old
<1>1. /\ phase = "remove" /\ phase' = "removeNotes"
      /\ entries' = [n \in Name |-> IF n \in gone THEN Absent ELSE entries[n]]
      /\ given' = [n \in Name |-> IF \E o \in orphans : o[1] = n THEN Unclaimed ELSE given[n]]
      /\ job' = [job EXCEPT !.orphans = orphans]
      /\ UNCHANGED <<notes, ledger, readable, uses>>
      /\ job \in SaveJob \union DeleteJob \union FolderJob
  BY DEF Remove
<1>2. /\ job \in SaveJob => job' \in SaveJob /\ job'.entry = job.entry
                            /\ job'.from = job.from /\ job'.kind = job.kind
      /\ job \in DeleteJob => job' \in DeleteJob /\ job'.from = job.from
      /\ job \in FolderJob => job' \in FolderJob /\ job'.folder = job.folder
      /\ job'.orphans = orphans
  BY <1>1 DEF SaveJob, DeleteJob, FolderJob
<1>3. TypeOK' BY <1>1, <1>2 DEF Phase, Entries, Contents
<1>4. job' \in SaveJob => job \in SaveJob BY <1>1, <1>2, KindsDiffer
<1>5. ASSUME job \in SaveJob PROVE job.entry.name \in Name BY <1>5 DEF SaveJob, Entry
<1>11. job \in SaveJob => job'.oldUser = job.oldUser BY <1>1 DEF SaveJob
<1>12. job \in SaveJob => Left(job)' = Left(job)
  BY <1>2, <1>11 DEF Left, DropsNewNote
<1>6. SavedOK' BY <1>1, <1>2, <1>4, <1>5, <1>12 DEF SavedOK, Saves
<1>7. Stored(entries)' = Stored(entries) \ gone BY <1>1 DEF Stored
<1>8. RemovedOK' BY <1>1, <1>2, <1>7, KindsDiffer DEF RemovedOK
<1>9. OrphansOK' BY <1>1, <1>2, <1>4 DEF OrphansOK, Saves
<1>10. NotesReadBack' BY <1>1, <1>7 DEF NotesReadBack, Stored, ReadNotes
<1> QED BY <1>3, <1>6, <1>8, <1>9, <1>10

LEMMA DeleteEntryStep == ASSUME ActionsInv, DeleteEntry, UNCHANGED old PROVE ActionsInv'
<1> USE DEF ActionsInv, TypeOK, old
<1>1. PICK u \in UsernamesRead(entries, job.from) : Remove({job.from}, {<<job.from, u>>})
  BY DEF DeleteEntry
<1>2. phase = "remove" /\ job.kind # "folder" /\ job.from \in Stored(entries) BY DEF DeleteEntry
<1>3. job.from \in Name /\ u \in Username
  BY <1>2, ReadEntryType DEF UsernamesRead, Username, Content, Stored
<1>4. Saves => job.entry.name # job.from BY <1>2 DEF SavedOK, Saves
<1>5. job \notin FolderJob BY <1>2, KindsDiffer
<1> DEFINE gone == {job.from}
           orphans == {<<job.from, u>>}
<1>6. /\ gone \in SUBSET Name /\ orphans \in SUBSET (Name \X Username)
      /\ Remove(gone, orphans)
      /\ \A n \in gone : \E o \in orphans : o[1] = n
      /\ Saves => job.entry.name \notin gone /\ \A o \in orphans : o[1] # job.entry.name
      /\ job.from \in gone
  BY <1>1, <1>3, <1>4
<1> HIDE DEF ActionsInv, TypeOK, old, gone, orphans
<1> QED BY <1>5, <1>6, RemoveStep

LEMMA DeleteTreeStep == ASSUME ActionsInv, DeleteTree, UNCHANGED old PROVE ActionsInv'
<1> USE DEF ActionsInv, TypeOK, old
<1> DEFINE all == EntriesBelow(entries, job.folder)
           gone == RemovedByPass(entries, job.folder)
<1>1. phase = "remove" /\ job.kind = "folder" /\ job \in FolderJob /\ job.folder \in Folder
  BY KindsDiffer DEF DeleteTree, FolderJob
<1>2. PICK unread \in SUBSET all :
        Remove(gone, {<<n, IF n \in unread THEN NoUser ELSE entries[n].username>> : n \in all})
  BY DEF DeleteTree
<1> DEFINE orphans == {<<n, IF n \in unread THEN NoUser ELSE entries[n].username>> : n \in all}
<1>3. all \subseteq Stored(entries) /\ all \subseteq Name
  BY DEF EntriesBelow, Stored
<1>4. gone \subseteq all
  BY <1>1 DEF RemovedByPass, EntriesBelow, Stored
<1>5. orphans \subseteq Name \X Username
  <2> SUFFICES ASSUME NEW n \in all
               PROVE  <<n, IF n \in unread THEN NoUser ELSE entries[n].username>> \in Name \X Username
    OBVIOUS
  <2>1. entries[n].username \in Username BY <1>3, ReadEntryType DEF Content
  <2> QED BY <1>3, <2>1 DEF Username
<1>6. \A n \in gone : \E o \in orphans : o[1] = n
  <2> SUFFICES ASSUME NEW n \in gone PROVE \E o \in orphans : o[1] = n OBVIOUS
  <2>1. <<n, IF n \in unread THEN NoUser ELSE entries[n].username>> \in orphans BY <1>4
  <2> QED BY <2>1
<1>7. job \notin SaveJob /\ job \notin DeleteJob BY <1>1, KindsDiffer
<1>8. \/ Below[job.folder] \intersect Stored(entries) \subseteq gone
      \/ job.folder \in Name
  BY DEF RemovedByPass, EntriesBelow, Stored
<1>9. Remove(gone, orphans) BY <1>2
<1>10. gone \in SUBSET Name /\ orphans \in SUBSET (Name \X Username) BY <1>3, <1>4, <1>5
<1> HIDE DEF ActionsInv, TypeOK, old, gone, orphans, all
<1> QED BY <1>6, <1>7, <1>8, <1>9, <1>10, RemoveStep DEF Saves

LEMMA RemoveNoteStep == ASSUME ActionsInv, RemoveNote, UNCHANGED old PROVE ActionsInv'
<1> USE DEF ActionsInv, TypeOK, old
<1>1. PICK o \in job.orphans :
        /\ notes' = DeleteNotes(notes, o[1], o[2])
        /\ job' = [job EXCEPT !.orphans = @ \ {o}]
        /\ phase' = IF job.orphans = {o} THEN "record" ELSE "removeNotes"
  BY DEF RemoveNote
<1>2. /\ phase = "removeNotes" /\ UNCHANGED <<entries, ledger, readable, given, uses>>
      /\ job \in SaveJob \union DeleteJob \union FolderJob
  BY DEF RemoveNote
<1>3. /\ job \in SaveJob => job' \in SaveJob /\ job'.entry = job.entry
                            /\ job'.from = job.from /\ job'.kind = job.kind
      /\ job \in DeleteJob => job' \in DeleteJob /\ job'.from = job.from
      /\ job \in FolderJob => job' \in FolderJob /\ job'.folder = job.folder
      /\ job'.orphans = job.orphans \ {o}
      /\ o[1] \in Name /\ o[2] \in Username
  BY <1>1, <1>2 DEF SaveJob, DeleteJob, FolderJob
<1>4. TypeOK' BY <1>1, <1>2, <1>3, NotesType DEF DeleteNotes, Phase, NoteText
<1>5. ASSUME NEW n \in Name, n # o[1] PROVE notes'[n] = notes[n]
  BY <1>1, <1>3, <1>5 DEF DeleteNotes, Notes
<1>6. job' \in SaveJob => job \in SaveJob BY <1>2, <1>3, KindsDiffer
<1>7. Saves => o[1] # job.entry.name /\ job.entry.name \in Name
  BY <1>2 DEF OrphansOK, Saves, SaveJob, Entry
<1>13. job \in SaveJob => job'.oldUser = job.oldUser BY <1>1 DEF SaveJob
<1>14. job \in SaveJob => Left(job)' = Left(job)
  BY <1>3, <1>13 DEF Left, DropsNewNote
<1>8. SavedOK' BY <1>1, <1>2, <1>3, <1>5, <1>6, <1>7, <1>14 DEF SavedOK, Saves
<1>9. RemovedOK' BY <1>1, <1>2, <1>3, KindsDiffer DEF RemovedOK
<1>10. OrphansOK' BY <1>1, <1>2, <1>3, <1>6 DEF OrphansOK, Saves
<1>11. given[o[1]] = Unclaimed BY <1>2 DEF OrphansOK
<1>12. NotesReadBack' BY <1>2, <1>5, <1>11 DEF NotesReadBack, Stored, ReadNotes
<1> QED BY <1>4, <1>8, <1>9, <1>10, <1>12

\* The record of an operation is a ledger.
LEMMA RecordedType == ASSUME TypeOK, phase = "record" PROVE Recorded(job) \in EL!Ledger
<1> USE DEF TypeOK
<1>1. CASE job \in SaveJob
  BY <1>1 DEF SaveJob, Recorded, EL!Ledger, EL!Record, EL!RecordCreation, EL!RecordModification
<1>2. CASE job \in DeleteJob
  BY <1>2, KindsDiffer DEF Recorded, EL!Ledger, EL!Record, EL!RecordDeletion
<1>3. CASE job \in FolderJob
  BY <1>3, KindsDiffer DEF Recorded, EL!Ledger, EL!Record, EL!RecordRecursiveDeletion
<1> QED BY <1>1, <1>2, <1>3

LEMMA SucceedStep == ASSUME ActionsInv, Succeed, UNCHANGED old PROVE ActionsInv'
<1> USE DEF ActionsInv, TypeOK, old
<1>1. /\ phase = "record" /\ phase' = "idle" /\ job' = Absent
      /\ given' = IF job \in SaveJob /\ ~DropsNewNote(job)
                    THEN [given EXCEPT ![job.entry.name] = job.entry.notes] ELSE given
      /\ UNCHANGED <<entries, notes, readable, uses>>
      /\ job \in SaveJob \union DeleteJob \union FolderJob
  BY DEF Succeed
<1>2. Recorded(job) \in EL!Ledger BY <1>1, RecordedType
<1>3. ledger' \in EL!Ledger BY <1>2 DEF Succeed
<1>4. job \in SaveJob => job.entry \in Entry /\ job.entry.name \in Name /\ job.entry.notes \in NoteText
  BY DEF SaveJob, Entry
<1>5. TypeOK' BY <1>1, <1>3, <1>4 DEF Phase
<1>6. (SavedOK /\ RemovedOK /\ OrphansOK)' BY <1>1 DEF SavedOK, RemovedOK, OrphansOK
<1>7. CASE job \in SaveJob /\ ~DropsNewNote(job)
  <2>1. /\ entries[job.entry.name] = SerializeEntry(job.entry)
        /\ notes[job.entry.name][TokenOf[job.entry.username]] = job.entry.notes
    BY <1>1, <1>7, LeftType DEF SavedOK, Saves
  <2>2. /\ job.entry.name \in Stored(entries)
        /\ ReadNotes(entries, notes, job.entry.name) = job.entry.notes
    BY <1>4, <1>7, <2>1, SaveThenRead DEF ReadEntry
  <2>3. NotesReadBack' BY <1>1, <1>4, <1>7, <2>2 DEF NotesReadBack, Stored, ReadNotes
  <2> QED BY <1>5, <1>6, <2>3
<1>8. CASE ~(job \in SaveJob /\ ~DropsNewNote(job))
  BY <1>1, <1>5, <1>6, <1>8 DEF NotesReadBack, Stored, ReadNotes
<1> QED BY <1>7, <1>8

LEMMA FailureStep == ASSUME ActionsInv, Failure, UNCHANGED old PROVE ActionsInv'
<1> USE DEF ActionsInv, TypeOK, old
<1>1. ASSUME Abandon, readable' \in BOOLEAN PROVE ActionsInv'
  <2>1. TypeOK' BY <1>1 DEF Abandon, Phase
  <2>2. (SavedOK /\ RemovedOK /\ OrphansOK)' BY <1>1 DEF Abandon, SavedOK, RemovedOK, OrphansOK
  <2>3. NotesReadBack' BY <1>1 DEF Abandon, NotesReadBack, Stored, ReadNotes
  <2> QED BY <2>1, <2>2, <2>3
<1>6. ASSUME Handle, ledger' \in EL!Ledger, UNCHANGED <<entries, notes, readable, given, uses>>
      PROVE  ActionsInv'
  <2>1. TypeOK' BY <1>6 DEF Handle, Phase
  <2>2. (SavedOK /\ RemovedOK /\ OrphansOK)' BY <1>6 DEF Handle, SavedOK, RemovedOK, OrphansOK
  <2>3. NotesReadBack' BY <1>6 DEF NotesReadBack, Stored, ReadNotes
  <2> QED BY <2>1, <2>2, <2>3
<1>7. CASE LogFails
  <2>1. phase = "record" /\ ledger' = Recorded(job) BY <1>7 DEF LogFails
  <2>2. ledger' \in EL!Ledger BY <2>1, RecordedType
  <2> QED BY <1>6, <1>7, <2>2 DEF LogFails
<1>2. CASE Fail
  BY <1>2, <1>6 DEF Fail, disk
<1>3. CASE EnterName
  <2>1. PICK n \in Name : job' = [job EXCEPT !.entry.name = n]
    BY <1>3 DEF EnterName
  <2>2. /\ phase = "retry" /\ phase' = "insert" /\ job \in SaveJob
        /\ UNCHANGED <<entries, notes, ledger, readable, given, uses>>
    BY <1>3 DEF EnterName, disk
  <2>3. job' \in SaveJob BY <2>1, <2>2 DEF SaveJob, Entry
  <2>4. TypeOK' BY <2>2, <2>3 DEF Phase
  <2>5. (SavedOK /\ RemovedOK /\ OrphansOK)' BY <2>2 DEF SavedOK, RemovedOK, OrphansOK
  <2>6. NotesReadBack' BY <2>2 DEF NotesReadBack, Stored, ReadNotes
  <2> QED BY <2>4, <2>5, <2>6
<1>4. CASE GiveUp
  BY <1>1, <1>4 DEF GiveUp
<1>5. CASE Kill
  BY <1>1, <1>5 DEF Kill
<1> QED BY <1>2, <1>3, <1>4, <1>5, <1>7 DEF Failure

-----------------------------------------------------------------------------
(* The migration.                                                          *)

\* Everything else leaves the migration alone.
LEMMA OtherSteps ==
  ASSUME IInv, Dialogue \/ Outside \/ Command \/ Failure
  PROVE  MigratedOK'
<1>1. Dialogue => phase' \in {"insert", "remove"}
  BY DEF Dialogue, AddPassword, EditPasswordOnly, EditPassword, DeletePassword, DeleteFolder, Begin
<1>2. Outside => phase' = "idle" BY DEF Outside, Use
<1>3. Command => phase' \notin {"migrate", "migrateNote"}
  BY DEF Command, Insert, WriteNote, DropOldNote, AskOld, DeleteEntry, DeleteTree, Remove, RemoveNote,
         Succeed, Goto
<1>4. Failure => phase' \in {"idle", "retry", "insert"}
  BY DEF Failure, Fail, LogFails, Handle, EnterName, GiveUp, Kill, Abandon
<1> QED BY <1>1, <1>2, <1>3, <1>4 DEF MigratedOK

\* Outside the phases of the other operations their conditions hold.
LEMMA MigrationTouches ==
  ASSUME phase' \in {"idle", "copy", "migrate", "migrateNote"}
  PROVE  (SavedOK /\ RemovedOK /\ OrphansOK)'
  BY DEF SavedOK, RemovedOK, OrphansOK

LEMMA MigrateStep == ASSUME IInv, Migrate PROVE IInv'
<1> USE DEF IInv, ActionsInv, TypeOK
<1>1. PICK n \in Name :
        Begin("copy", [kind |-> "migrate", todo |-> {m \in Name : legacy[m] # NoNote}, from |-> n])
  BY DEF Migrate
<1>2. /\ phase' = "copy" /\ legacy # Absent /\ uses' = uses + 1
      /\ UNCHANGED <<entries, notes, ledger, readable, given, legacy, backup>>
  BY <1>1 DEF Migrate, Begin, Use, disk, old
<1>3. job' \in MigrateJob BY <1>1 DEF Begin, MigrateJob
<1>4. TypeOK' BY <1>2, <1>3 DEF Phase
<1>5. NotesReadBack' BY <1>2 DEF NotesReadBack, Stored, ReadNotes
<1> QED BY <1>2, <1>4, <1>5, MigrationTouches DEF MigratedOK

LEMMA CopyLegacyStep == ASSUME IInv, CopyLegacy PROVE IInv'
<1> USE DEF IInv, ActionsInv, TypeOK
<1>1. /\ phase = "copy" /\ phase' = "migrate" /\ backup' = legacy
      /\ UNCHANGED <<entries, notes, ledger, readable, given, legacy, job, uses>>
  BY DEF CopyLegacy, Goto, disk
<1>2. TypeOK' BY <1>1 DEF Phase
<1>3. NotesReadBack' BY <1>1 DEF NotesReadBack, Stored, ReadNotes
<1> QED BY <1>1, <1>2, <1>3, MigrationTouches DEF MigratedOK

LEMMA SkipEntryStep == ASSUME IInv, SkipEntry PROVE IInv'
<1> USE DEF IInv, ActionsInv, TypeOK
<1>1. PICK n \in job.todo : job' = [job EXCEPT !.todo = @ \ {n}]
  BY DEF SkipEntry
<1>2. /\ phase = "migrate"
      /\ UNCHANGED <<entries, notes, ledger, readable, given, legacy, backup, phase, uses>>
  BY DEF SkipEntry, disk, old
<1>3. job' \in MigrateJob BY <1>1, <1>2 DEF MigrateJob
<1>4. TypeOK' BY <1>2, <1>3
<1>5. NotesReadBack' BY <1>2 DEF NotesReadBack, Stored, ReadNotes
<1> QED BY <1>2, <1>4, <1>5, MigrationTouches DEF MigratedOK

LEMMA InsertWithNoteStep == ASSUME IInv, InsertWithNote PROVE IInv'
<1> USE DEF IInv, ActionsInv, TypeOK
<1>1. PICK n \in job.todo \intersect Stored(entries) :
        /\ entries' = PassInsert(entries, ReadEntry(entries, notes, n))
        /\ given' = [given EXCEPT ![n] = Unclaimed]
        /\ job' = [job EXCEPT !.todo = @ \ {n}, !.from = n]
        /\ ReadNotes(entries, notes, n) = NoNote
  BY DEF InsertWithNote
<1>2. /\ phase = "migrate" /\ phase' = "migrateNote" /\ job \in MigrateJob
      /\ UNCHANGED <<notes, ledger, readable, legacy, backup, uses>>
  BY DEF InsertWithNote, old
<1> DEFINE e == ReadEntry(entries, notes, n)
<1>3. n \in Name /\ e \in Entry BY <1>1, ReadEntryType
<1>4. e.name = n BY DEF ReadEntry
<1>5. /\ entries' = [entries EXCEPT ![n] = SerializeEntry(e)]
      /\ SerializeEntry(e) \in Content /\ SerializeEntry(e).inline = NoNote
      /\ SerializeEntry(e).username = entries[n].username
  BY <1>1, <1>3, <1>4 DEF PassInsert, SerializeEntry, Content, Entry, NoteText, ReadEntry
<1> HIDE DEF e
<1>6. entries' \in Entries BY <1>5 DEF Entries, Contents
<1>7. job' \in MigrateJob /\ job'.from = n BY <1>1, <1>2, <1>3 DEF MigrateJob
<1>8. TypeOK' BY <1>1, <1>2, <1>6, <1>7 DEF Phase
<1>9. /\ n \in Stored(entries)' /\ entries'[n] \in Content /\ entries'[n].inline = NoNote
      /\ notes'[n][TokenOf[entries'[n].username]] = NoNote
  <2>1. notes[n][TokenOf[entries[n].username]] = NoNote
    BY <1>1, <1>3 DEF ReadNotes
  <2> QED
    BY <1>2, <1>3, <1>5, <2>1 DEF Stored, Entries
<1>10. MigratedOK' BY <1>2, <1>7, <1>9 DEF MigratedOK
<1>11. NotesReadBack' BY <1>1, <1>2, <1>5 DEF NotesReadBack, Stored, ReadNotes, Entries
<1> QED BY <1>2, <1>8, <1>10, <1>11, MigrationTouches

LEMMA WriteLegacyNoteStep == ASSUME IInv, WriteLegacyNote PROVE IInv'
<1> USE DEF IInv, ActionsInv, TypeOK
<1> DEFINE n == job.from
           e == [ReadEntry(entries, notes, n) EXCEPT !.notes = legacy[n]]
<1>1. /\ phase = "migrateNote" /\ phase' = "migrate"
      /\ UNCHANGED <<entries, ledger, readable, legacy, backup, job, uses>>
      /\ \/ notes' = SaveNotes(notes, e) /\ given' = [given EXCEPT ![n] = e.notes]
         \/ UNCHANGED <<notes, given>>
      /\ job \in MigrateJob /\ legacy # Absent
  BY DEF WriteLegacyNote, Goto, old
<1>2. n \in Stored(entries) /\ n \in Name /\ entries[n] \in Content /\ entries[n].inline = NoNote
  BY <1>1 DEF MigratedOK, MigrateJob
<1>3. /\ e.name = n /\ e.username = entries[n].username /\ e.notes = legacy[n]
      /\ entries[n].username \in Username /\ legacy[n] \in NoteText
  BY <1>1, <1>2 DEF ReadEntry, Content
<1> HIDE DEF e
<1>4. MigratedOK' BY <1>1 DEF MigratedOK
<1>5. CASE UNCHANGED <<notes, given>>
  <2>1. TypeOK' BY <1>1, <1>5 DEF Phase
  <2>2. NotesReadBack' BY <1>1, <1>5 DEF NotesReadBack, Stored, ReadNotes
  <2> QED BY <1>1, <1>4, <2>1, <2>2, MigrationTouches
<1>6. CASE notes' = SaveNotes(notes, e) /\ given' = [given EXCEPT ![n] = e.notes]
  <2>1. notes' \in Notes BY <1>2, <1>3, <1>6, NotesType DEF SaveNotes
  <2>2. given' \in [Name -> NoteText \union {Unclaimed}] BY <1>3, <1>6
  <2>3. TypeOK' BY <1>1, <2>1, <2>2 DEF Phase
  <2>4. notes'[n][TokenOf[entries[n].username]] = legacy[n]
    BY <1>2, <1>3, <1>6 DEF SaveNotes, Notes, Username
  <2>5. ASSUME NEW m \in Name, m # n PROVE notes'[m] = notes[m] /\ given'[m] = given[m]
    BY <1>3, <1>6, <2>5 DEF SaveNotes, Notes
  <2>6. given'[n] = legacy[n] BY <1>2, <1>3, <1>6
  <2>7. ReadNotes(entries', notes', n) = legacy[n] BY <1>1, <1>2, <2>4 DEF ReadNotes
  <2>8. NotesReadBack'
    BY <1>1, <1>2, <2>5, <2>6, <2>7 DEF NotesReadBack, Stored, ReadNotes
  <2> QED BY <1>1, <1>4, <2>3, <2>8, MigrationTouches
<1> QED BY <1>1, <1>5, <1>6

LEMMA RemoveLegacyStep == ASSUME IInv, RemoveLegacy PROVE IInv'
<1> USE DEF IInv, ActionsInv, TypeOK
<1>1. /\ phase' = "idle" /\ job' = Absent /\ legacy' = Absent
      /\ UNCHANGED <<entries, notes, ledger, readable, backup, given, uses>>
  BY DEF RemoveLegacy, disk
<1>2. TypeOK' BY <1>1 DEF Phase
<1>3. NotesReadBack' BY <1>1 DEF NotesReadBack, Stored, ReadNotes
<1> QED BY <1>1, <1>2, <1>3, MigrationTouches DEF MigratedOK

LEMMA NextIInv == IInv /\ [Next]_vars => IInv'
<1> SUFFICES ASSUME IInv, [Next]_vars PROVE IInv' OBVIOUS
<1>1. CASE UNCHANGED vars
  BY <1>1 DEF vars, disk, old, IInv, ActionsInv, MigratedOK, TypeOK, SavedOK, Saves, RemovedOK, OrphansOK,
              NotesReadBack, Stored, ReadNotes
<1>2. CASE Command /\ UNCHANGED old
  BY <1>2, InsertStep, WriteNoteStep, DropOldNoteStep, AskOldStep, DeleteEntryStep,
     DeleteTreeStep, RemoveNoteStep, SucceedStep, OtherSteps DEF Command, IInv
<1>3. CASE (Dialogue \/ Outside \/ Failure) /\ UNCHANGED old
  BY <1>3, DialogueStep, OutsideStep, FailureStep, OtherSteps DEF IInv
<1>4. CASE Migration
  BY <1>4, MigrateStep, CopyLegacyStep, SkipEntryStep, InsertWithNoteStep, WriteLegacyNoteStep,
     RemoveLegacyStep DEF Migration
<1> QED BY <1>1, <1>2, <1>3, <1>4 DEF Next

LEMMA Invariance == Spec => []IInv
  BY InitIInv, NextIInv, PTL DEF Spec

-----------------------------------------------------------------------------
\* Every behaviour keeps its types, for any names, folders and texts.
THEOREM ActionsTypeCorrect == Spec => []TypeOK
<1>1. IInv => TypeOK BY DEF IInv, ActionsInv
<1> QED BY <1>1, Invariance, PTL

\* The note reported as saved with an entry is the one read with it.
THEOREM SavedNotesReadBack == Spec => []NotesReadBack
<1>1. IInv => NotesReadBack BY DEF IInv, ActionsInv
<1> QED BY <1>1, Invariance, PTL

\* An entry leaves the store only by a confirmed deletion or for a complete
\* replacement.
THEOREM EntriesNotLost == Spec => NothingLost
<1> DEFINE Kept(n) ==
      n \notin Stored(entries)' =>
         \/ phase = "idle"
         \/ job.kind = "delete" /\ n = job.from
         \/ job.kind = "folder" /\ n \in Below[job.folder]
         \/ /\ job.kind = "edit" /\ n = job.from /\ job.entry.name \in Stored(entries)'
            /\ ReadEntry(entries, notes, job.entry.name)' = job'.entry
<1>1. ASSUME IInv, [Next]_vars, NEW n \in Stored(entries) PROVE Kept(n)
  <2>1. CASE phase = "idle" \/ UNCHANGED entries
    BY <1>1, <2>1 DEF Stored
  <2>2. CASE Insert
    <3>1. job.entry \in Entry /\ entries' = PassInsert(entries, job.entry)
      BY <1>1, <2>2 DEF Insert, IInv, ActionsInv, TypeOK, SaveJob
    <3>2. entries' \in Entries BY <1>1, <3>1, InsertType DEF IInv, ActionsInv, TypeOK
    <3>3. SerializeEntry(job.entry) \in Content
      BY <3>1 DEF SerializeEntry, Content, Entry, NoteText
    <3>4. n \in Stored(entries)'
      BY <1>1, <3>1, <3>3 DEF Stored, PassInsert, IInv, ActionsInv, TypeOK, Entries
    <3> QED BY <3>4
  <2>3. CASE DeleteEntry
    <3>1. job \in SaveJob \union DeleteJob /\ phase = "remove"
      BY <1>1, <2>3, KindsDiffer DEF DeleteEntry, IInv, ActionsInv, TypeOK
    <3>2. entries' = [m \in Name |-> IF m \in {job.from} THEN Absent ELSE entries[m]] /\ notes' = notes
      BY <2>3 DEF DeleteEntry, Remove
    <3>3. SUFFICES ASSUME n \notin Stored(entries)', job.kind # "delete" PROVE Kept(n)
      BY <3>2 DEF Stored
    <3>4. n = job.from BY <3>2, <3>3 DEF Stored
    <3>5. job \in SaveJob BY <3>1, <3>3, KindsDiffer
    <3>6. /\ job.kind = "edit" /\ job.entry.name # job.from /\ job.entry \in Entry
          /\ job.entry.name \in Name
          /\ entries[job.entry.name] = SerializeEntry(job.entry)
          /\ notes[job.entry.name][TokenOf[job.entry.username]] = job.entry.notes
      <4>1. /\ job.kind = "edit" /\ job.entry.name # job.from /\ job.entry \in Entry
            /\ entries[job.entry.name] = SerializeEntry(job.entry)
            /\ notes[job.entry.name][TokenOf[job.entry.username]] = Left(job).notes
        BY <1>1, <3>1, <3>5 DEF IInv, ActionsInv, SavedOK, Saves, SaveJob
      <4>2. ~DropsNewNote(job) BY <4>1 DEF DropsNewNote
      <4> QED BY <3>5, <4>1, <4>2, LeftType DEF Entry
    <3>7. job.entry.name \in Stored(entries) /\ ReadEntry(entries, notes, job.entry.name) = job.entry
      BY <3>6, SaveThenRead
    <3>8. job'.entry = job.entry BY <2>3, <3>5 DEF DeleteEntry, Remove, SaveJob
    <3>9. job.entry.name \in Stored(entries)' BY <3>2, <3>6, <3>7 DEF Stored
    <3>10. ReadEntry(entries, notes, job.entry.name)' = job'.entry
      BY <3>2, <3>6, <3>7, <3>8 DEF ReadEntry, ReadNotes
    <3> QED BY <3>4, <3>6, <3>9, <3>10
  <2>4. CASE DeleteTree
    <3>1. job.kind = "folder" /\ job.folder \in Folder
      BY <1>1, <2>4, KindsDiffer DEF DeleteTree, IInv, ActionsInv, TypeOK, FolderJob
    <3>2. entries' = [m \in Name |-> IF m \in RemovedByPass(entries, job.folder) THEN Absent ELSE entries[m]]
      BY <2>4 DEF DeleteTree, Remove
    <3>3. n \notin Stored(entries)' => n \in Below[job.folder]
      BY <3>1, <3>2 DEF Stored, RemovedByPass, EntriesBelow
    <3> QED BY <3>1, <3>3
  <2>5. Dialogue \/ Outside => phase = "idle"
    BY DEF Dialogue, AddPassword, EditPasswordOnly, EditPassword, DeletePassword, DeleteFolder, Outside, Use
  <2>6. Failure \/ UNCHANGED vars => UNCHANGED entries
    BY DEF Failure, Fail, LogFails, EnterName, GiveUp, Kill, Abandon, disk, vars
  <2>7. WriteNote \/ DropOldNote \/ AskOld \/ RemoveNote \/ Succeed => UNCHANGED entries
    BY DEF WriteNote, DropOldNote, AskOld, RemoveNote, Succeed, disk
  <2>8. CASE InsertWithNote
    <3>1. PICK m \in Stored(entries) : entries' = PassInsert(entries, ReadEntry(entries, notes, m))
      BY <2>8 DEF InsertWithNote
    <3>2. ReadEntry(entries, notes, m) \in Entry BY <1>1, <3>1, ReadEntryType DEF IInv, ActionsInv, TypeOK
    <3>3. SerializeEntry(ReadEntry(entries, notes, m)) \in Content
      BY <3>2 DEF SerializeEntry, Content, Entry, NoteText
    <3>4. n \in Stored(entries)'
      BY <1>1, <3>1, <3>3 DEF Stored, PassInsert, IInv, ActionsInv, TypeOK, Entries
    <3> QED BY <3>4
  <2>9. Migration => UNCHANGED entries \/ InsertWithNote
    BY DEF Migration, Migrate, CopyLegacy, SkipEntry, WriteLegacyNote, RemoveLegacy, Begin, disk
  <2> QED BY <1>1, <2>1, <2>2, <2>3, <2>4, <2>5, <2>6, <2>7, <2>8, <2>9 DEF Next, Command
<1>2. ASSUME IInv, [Next]_vars, legacy' # legacy PROVE backup = legacy
  <2>1. RemoveLegacy
    BY <1>2 DEF Next, Migration, Migrate, CopyLegacy, SkipEntry, InsertWithNote, WriteLegacyNote, old, vars
  <2> QED BY <1>2, <2>1 DEF RemoveLegacy, IInv, MigratedOK
<1>3. IInv /\ [Next]_vars => [(\A n \in Stored(entries) : Kept(n)) /\ (legacy' # legacy => backup = legacy)]_vars
  BY <1>1, <1>2
<1> QED BY <1>3, Invariance, PTL DEF Spec, NothingLost

\* Success is reported only of what the store and the ledger hold.
THEOREM SuccessIsTrue == Spec => SuccessMeansDone
<1> DEFINE Done ==
       IF job \in SaveJob
         THEN /\ job.entry.name \in Stored(entries)
              /\ ReadEntry(entries, notes, job.entry.name) = Left(job)
              /\ Logging =>
                   /\ ledger'[job.entry.name] = "active"
                   /\ job.kind # "add" /\ job.from # job.entry.name => ledger'[job.from] = "none"
         ELSE LET named == IF job.kind = "delete" THEN {job.from} ELSE Below[job.folder]
              IN  /\ \/ named \intersect Stored(entries) = {}
                     \/ job.kind = "folder" /\ job.folder \in Name
                  /\ Logging => \A n \in named : ledger'[n] # "active"
<1>1. ASSUME IInv, Succeed PROVE Done
  <2>1. /\ phase = "record" /\ (Logging => ledger' = Recorded(job))
        /\ job \in SaveJob \union DeleteJob \union FolderJob /\ ledger \in EL!Ledger
    BY <1>1 DEF Succeed, IInv, ActionsInv, TypeOK
  <2>2. CASE job \in SaveJob
    <3>1. /\ job.entry \in Entry /\ job.entry.name \in Name /\ job.from \in Name
          /\ entries[job.entry.name] = SerializeEntry(job.entry)
          /\ notes[job.entry.name][TokenOf[job.entry.username]] = Left(job).notes
      BY <1>1, <2>1, <2>2 DEF IInv, ActionsInv, SavedOK, Saves, SaveJob, Entry
    <3>2. job.entry.name \in Stored(entries) /\ ReadEntry(entries, notes, job.entry.name) = Left(job)
      <4> DEFINE e == Left(job)
      <4>1. /\ e \in Entry /\ e.name = job.entry.name /\ e.username = job.entry.username
            /\ SerializeEntry(e) = SerializeEntry(job.entry)
        BY <2>2, LeftType
      <4>2. entries[e.name] = SerializeEntry(e) /\ notes[e.name][TokenOf[e.username]] = e.notes
        BY <3>1, <4>1
      <4> HIDE DEF e
      <4>3. e.name \in Stored(entries) /\ ReadEntry(entries, notes, e.name) = e
        BY <4>1, <4>2, SaveThenRead
      <4> QED BY <4>1, <4>3 DEF e
    <3>3. Logging => /\ ledger'[job.entry.name] = "active"
                     /\ job.kind # "add" /\ job.from # job.entry.name => ledger'[job.from] = "none"
      BY <2>1, <2>2, <3>1, KindsDiffer
         DEF Recorded, EL!Ledger, EL!RecordCreation, EL!RecordModification
    <3> QED BY <2>2, <3>2, <3>3
  <2>3. CASE job \in DeleteJob
    <3>1. job.kind = "delete" /\ job \notin SaveJob /\ job.from \in Name /\ job.from \notin Stored(entries)
      BY <1>1, <2>1, <2>3, KindsDiffer DEF IInv, ActionsInv, RemovedOK, DeleteJob
    <3>2. Logging => ledger'[job.from] = "deleted"
      BY <2>1, <3>1 DEF Recorded, EL!Ledger, EL!RecordDeletion
    <3> QED BY <3>1, <3>2
  <2>4. CASE job \in FolderJob
    <3>1. /\ job.kind = "folder" /\ job \notin SaveJob /\ job.folder \in Folder
          /\ \/ Below[job.folder] \intersect Stored(entries) = {}
             \/ job.folder \in Name
      BY <1>1, <2>1, <2>4, KindsDiffer DEF IInv, ActionsInv, RemovedOK, FolderJob
    <3>2. Logging => \A n \in Below[job.folder] : ledger'[n] # "active"
      BY <2>1, <3>1 DEF Recorded, EL!Ledger, EL!Record, EL!RecordRecursiveDeletion
    <3> QED BY <3>1, <3>2
  <2> QED BY <2>1, <2>2, <2>3, <2>4
<1>2. IInv => [Succeed => Done]_vars
  BY <1>1
<1> QED BY <1>2, Invariance, PTL DEF SuccessMeansDone
-----------------------------------------------------------------------------
\* Migrating notes changes no password and no username and overwrites no note
\* that can be read: it only adds a note to entries that had none.
MigrationKeepsEntries ==
  [][Migration =>
       \A n \in Stored(entries) :
         /\ n \in Stored(entries)'
         /\ entries'[n].password = entries[n].password
         /\ entries'[n].username = entries[n].username
         /\ ReadNotes(entries, notes, n) # NoNote =>
              ReadNotes(entries, notes, n)' = ReadNotes(entries, notes, n)]_vars

\* A migration is gentle to entries wherever it stops, for any notes.json.
THEOREM MigrationIsGentle == Spec => MigrationKeepsEntries
<1> DEFINE Same(n) ==
      /\ n \in Stored(entries)'
      /\ entries'[n].password = entries[n].password
      /\ entries'[n].username = entries[n].username
      /\ ReadNotes(entries, notes, n) # NoNote =>
           ReadNotes(entries', notes', n) = ReadNotes(entries, notes, n)
<1>1. ASSUME IInv, Migration, NEW n \in Stored(entries) PROVE Same(n)
  <2>1. CASE UNCHANGED <<entries, notes>>
    BY <2>1 DEF Stored, ReadNotes
  <2>2. CASE InsertWithNote
    <3>1. PICK k \in job.todo \intersect Stored(entries) :
            /\ ReadNotes(entries, notes, k) = NoNote
            /\ entries' = PassInsert(entries, ReadEntry(entries, notes, k))
      BY <2>2 DEF InsertWithNote
    <3>2. notes' = notes BY <2>2 DEF InsertWithNote
    <3> DEFINE e == ReadEntry(entries, notes, k)
    <3>3. k \in Name /\ e \in Entry
      BY <1>1, <3>1, ReadEntryType DEF IInv, ActionsInv, TypeOK
    <3>4. e.name = k /\ e.password = entries[k].password /\ e.username = entries[k].username
      BY DEF ReadEntry
    <3>5. entries' = [entries EXCEPT ![k] = SerializeEntry(e)] BY <3>1, <3>4 DEF PassInsert
    <3> HIDE DEF e
    <3>6. /\ SerializeEntry(e) \in Content
          /\ SerializeEntry(e).password = entries[k].password
          /\ SerializeEntry(e).username = entries[k].username
      BY <3>3, <3>4 DEF SerializeEntry, Content, Entry, NoteText
    <3>7. entries'[k] = SerializeEntry(e) /\ \A m \in Name \ {k} : entries'[m] = entries[m]
      BY <1>1, <3>3, <3>5 DEF IInv, ActionsInv, TypeOK, Entries
    <3>8. CASE n = k
      BY <3>1, <3>3, <3>6, <3>7, <3>8 DEF Stored
    <3>9. CASE n # k
      BY <1>1, <3>2, <3>7, <3>9 DEF Stored, ReadNotes
    <3> QED BY <3>8, <3>9
  <2>3. CASE WriteLegacyNote /\ ~UNCHANGED notes
    <3> DEFINE k == job.from
               e == [ReadEntry(entries, notes, k) EXCEPT !.notes = legacy[k]]
    <3>1. notes' = SaveNotes(notes, e) /\ entries' = entries /\ phase = "migrateNote"
      BY <2>3 DEF WriteLegacyNote
    <3>2. /\ k \in Stored(entries) /\ entries[k].inline = NoNote
          /\ notes[k][TokenOf[entries[k].username]] = NoNote
      BY <1>1, <3>1 DEF IInv, MigratedOK
    <3>3. e.name = k /\ e.username = entries[k].username BY DEF ReadEntry
    <3> HIDE DEF e
    <3>4. \A m \in Name \ {k} : notes'[m] = notes[m]
      BY <1>1, <3>1, <3>3 DEF SaveNotes, Notes, IInv, ActionsInv, TypeOK
    <3>5. ReadNotes(entries, notes, k) = NoNote BY <3>2 DEF ReadNotes
    <3> QED BY <1>1, <3>1, <3>4, <3>5 DEF Stored, ReadNotes
  <2>4. UNCHANGED <<entries, notes>> \/ InsertWithNote \/ (WriteLegacyNote /\ ~UNCHANGED notes)
    BY <1>1 DEF Migration, Migrate, CopyLegacy, SkipEntry, WriteLegacyNote, RemoveLegacy, Begin, disk
  <2> QED BY <2>1, <2>2, <2>3, <2>4
<1>2. ASSUME IInv, Migration, NEW n \in Stored(entries)
      PROVE  /\ Same(n)
             /\ ReadNotes(entries, notes, n)' = ReadNotes(entries', notes', n)
  BY <1>1, <1>2 DEF ReadNotes
<1>3. IInv => [Migration =>
        \A n \in Stored(entries) :
          /\ n \in Stored(entries)'
          /\ entries'[n].password = entries[n].password
          /\ entries'[n].username = entries[n].username
          /\ ReadNotes(entries, notes, n) # NoNote =>
               ReadNotes(entries, notes, n)' = ReadNotes(entries, notes, n)]_vars
  BY <1>2
<1> QED BY <1>3, Invariance, PTL DEF Spec, MigrationKeepsEntries

-----------------------------------------------------------------------------
(* An operation changes nothing that it does not name.                     *)

\* The entries an operation is about.
Named(j) ==
  IF j.kind = "folder" THEN Below[j.folder]
  ELSE IF j.kind = "delete" THEN {j.from}
  ELSE IF j.kind = "add" THEN {j.entry.name}
  ELSE IF j.kind = "migrate" THEN {}
  ELSE {j.entry.name, j.from}

OrphansNamed == phase = "removeNotes" => \A o \in job.orphans : o[1] \in Named(job)

\* The commands of an operation, its retries and its failures leave the other
\* entries, their note files and their records as they are.
OperationsConfined ==
  [][Command \/ Failure =>
       \A n \in Name \ Named(job) :
         entries'[n] = entries[n] /\ notes'[n] = notes[n] /\ ledger'[n] = ledger[n]]_vars

LEMMA NamedBy ==
  /\ \A j \in SaveJob : j.entry.name \in Named(j)
  /\ \A j \in SaveJob : j.kind \in {"edit", "password"} => Named(j) = {j.entry.name, j.from}
  /\ \A j \in DeleteJob : Named(j) = {j.from}
  /\ \A j \in FolderJob : Named(j) = Below[j.folder]
  BY KindsDiffer DEF Named

\* The notes still to remove are of entries the operation is about.
LEMMA OrphansNamedStep ==
  ASSUME IInv, OrphansNamed, [Next]_vars
  PROVE  OrphansNamed'
<1> USE DEF IInv, ActionsInv, TypeOK
<1>1. CASE DeleteEntry
  <2>1. PICK u : Remove({job.from}, {<<job.from, u>>})
    BY <1>1 DEF DeleteEntry
  <2>2. job \in SaveJob \union DeleteJob /\ (Saves => job.kind = "edit")
    BY <1>1, KindsDiffer DEF DeleteEntry, SavedOK, Saves
  <2>3. job' = [job EXCEPT !.orphans = {<<job.from, u>>}]
    BY <2>1 DEF Remove
  <2>4. CASE job \in SaveJob
    <3>1. /\ job' \in [kind : {"add", "edit", "password"}, entry : Entry, from : Name,
                       oldUser : Username, manual : BOOLEAN, orphans : {{<<job.from, u>>}}]
          /\ job'.kind = "edit" /\ job'.from = job.from /\ job'.orphans = {<<job.from, u>>}
      BY <2>2, <2>3, <2>4 DEF SaveJob, Saves
    <3> QED BY <3>1 DEF OrphansNamed, Named
  <2>5. CASE job \in DeleteJob
    <3>1. job'.kind = "delete" /\ job'.from = job.from /\ job'.orphans = {<<job.from, u>>}
      BY <2>3, <2>5 DEF DeleteJob
    <3> QED BY <3>1 DEF OrphansNamed, Named
  <2> QED BY <2>2, <2>4, <2>5
<1>2. CASE DeleteTree
  <2> DEFINE all == EntriesBelow(entries, job.folder)
  <2>1. job \in FolderJob /\ phase = "remove"
    BY <1>2, KindsDiffer DEF DeleteTree
  <2>2. PICK unread \in SUBSET all :
          Remove(RemovedByPass(entries, job.folder),
                 {<<n, IF n \in unread THEN NoUser ELSE entries[n].username>> : n \in all})
    BY <1>2 DEF DeleteTree
  <2> DEFINE orphans == {<<n, IF n \in unread THEN NoUser ELSE entries[n].username>> : n \in all}
  <2>3. job' = [job EXCEPT !.orphans = orphans]
    BY <2>2 DEF Remove
  <2>4. \A o \in orphans : o[1] \in Below[job.folder]
    BY DEF EntriesBelow
  <2> HIDE DEF orphans
  <2>5. job'.kind = "folder" /\ job'.folder = job.folder /\ job'.orphans = orphans
    BY <2>1, <2>3 DEF FolderJob
  <2> QED BY <2>4, <2>5 DEF OrphansNamed, Named
<1>3. CASE RemoveNote
  <2>1. PICK o \in job.orphans : job' = [job EXCEPT !.orphans = @ \ {o}]
    BY <1>3 DEF RemoveNote
  <2>2. job \in SaveJob \union DeleteJob \union FolderJob /\ phase = "removeNotes"
    BY <1>3 DEF RemoveNote
  <2>3. /\ job \in SaveJob => job'.entry = job.entry /\ job'.from = job.from
        /\ job \in DeleteJob => job'.from = job.from
        /\ job \in FolderJob => job'.folder = job.folder
        /\ job'.kind = job.kind /\ job'.orphans \subseteq job.orphans
    BY <2>1, <2>2 DEF SaveJob, DeleteJob, FolderJob
  <2>4. Named(job') = Named(job)
    BY <2>2, <2>3, KindsDiffer DEF Named
  <2> QED BY <2>2, <2>3, <2>4 DEF OrphansNamed
<1>4. CASE UNCHANGED <<phase, job>>
  BY <1>4 DEF OrphansNamed, Named
<1>5. phase' # "removeNotes" \/ DeleteEntry \/ DeleteTree \/ RemoveNote \/ UNCHANGED <<phase, job>>
  BY DEF Next, Dialogue, AddPassword, EditPasswordOnly, EditPassword, DeletePassword, DeleteFolder, Begin,
         Outside, Command, Insert, WriteNote, DropOldNote, AskOld, Succeed, Goto,
         Failure, Fail, LogFails, Handle, EnterName, GiveUp, Kill, Abandon,
         Migration, Migrate, CopyLegacy, SkipEntry, InsertWithNote, WriteLegacyNote, RemoveLegacy, vars
<1> QED BY <1>1, <1>2, <1>3, <1>4, <1>5 DEF OrphansNamed

\* What an operation records is a record of the entries it is about.
LEMMA RecordedConfined ==
  ASSUME TypeOK, phase = "record", NEW n \in Name \ Named(job)
  PROVE  Recorded(job)[n] = ledger[n]
<1>1. job \in SaveJob \union DeleteJob \union FolderJob /\ ledger \in EL!Ledger
  BY DEF TypeOK
<1>2. CASE job \in SaveJob
  <2>1. n # job.entry.name /\ (job.kind \in {"edit", "password"} => n # job.from)
    BY <1>2, NamedBy
  <2>2. CASE job.kind = "add"
    BY <1>1, <2>1, <2>2 DEF Recorded, EL!RecordCreation, EL!Ledger
  <2>3. CASE job.kind \in {"edit", "password"}
    BY <1>1, <2>1, <2>3 DEF Recorded, EL!RecordModification, EL!Ledger
  <2> QED BY <1>2, <2>2, <2>3, KindsDiffer
<1>3. CASE job \in DeleteJob
  BY <1>1, <1>3, NamedBy, KindsDiffer DEF Recorded, EL!RecordDeletion, EL!Ledger
<1>4. CASE job \in FolderJob
  BY <1>1, <1>4, NamedBy, KindsDiffer DEF Recorded, EL!RecordRecursiveDeletion, EL!Ledger
<1> QED BY <1>1, <1>2, <1>3, <1>4

\* Whatever is asked, fails or is tried again, an operation is confined to the
\* entries it is about.
THEOREM OperationsAreConfined == Spec => OperationsConfined
<1> DEFINE Same(n) == entries'[n] = entries[n] /\ notes'[n] = notes[n] /\ ledger'[n] = ledger[n]
<1>1. ASSUME IInv, OrphansNamed, Command \/ Failure, NEW n \in Name \ Named(job) PROVE Same(n)
  <2> USE DEF IInv, ActionsInv, TypeOK
  <2>1. CASE Insert
    <3>1. job \in SaveJob /\ entries' = PassInsert(entries, job.entry) /\ UNCHANGED <<notes, ledger>>
      BY <1>1, <2>1 DEF Insert
    <3>2. n # job.entry.name BY <1>1, <3>1, NamedBy
    <3> QED BY <1>1, <3>1, <3>2 DEF PassInsert, Entries
  <2>2. CASE WriteNote
    <3>1. job \in SaveJob /\ notes' = SaveNotes(notes, job.entry) /\ UNCHANGED <<entries, ledger>>
      BY <1>1, <2>2 DEF WriteNote
    <3>2. n # job.entry.name BY <1>1, <3>1, NamedBy
    <3> QED BY <1>1, <3>1, <3>2 DEF SaveNotes, Notes
  <2>3. CASE DropOldNote
    <3>1. /\ job \in SaveJob /\ job.entry.name = job.from
          /\ notes' = DeleteNotes(notes, job.from, job.oldUser) /\ UNCHANGED <<entries, ledger>>
      BY <1>1, <2>3 DEF DropOldNote, SavedOK
    <3>2. n # job.from BY <1>1, <3>1, NamedBy
    <3> QED BY <1>1, <3>1, <3>2 DEF DeleteNotes, Notes
  <2>4. CASE DeleteEntry
    <3>1. /\ job \in SaveJob \union DeleteJob /\ (Saves => job.kind = "edit")
          /\ entries' = [m \in Name |-> IF m \in {job.from} THEN Absent ELSE entries[m]]
          /\ UNCHANGED <<notes, ledger>>
      BY <1>1, <2>4, KindsDiffer DEF DeleteEntry, Remove, SavedOK, Saves
    <3>2. n # job.from BY <1>1, <3>1, NamedBy DEF Saves
    <3> QED BY <3>1, <3>2
  <2>5. CASE DeleteTree
    <3>1. /\ job \in FolderJob
          /\ entries' = [m \in Name |-> IF m \in RemovedByPass(entries, job.folder) THEN Absent ELSE entries[m]]
          /\ UNCHANGED <<notes, ledger>>
      BY <1>1, <2>5, KindsDiffer DEF DeleteTree, Remove
    <3>2. n \notin Below[job.folder] /\ job.folder \in Folder
      BY <1>1, <3>1, NamedBy DEF FolderJob
    <3>3. n \notin RemovedByPass(entries, job.folder)
      BY <3>2 DEF RemovedByPass, EntriesBelow, Stored
    <3> QED BY <3>1, <3>3
  <2>6. CASE RemoveNote
    <3>1. PICK o \in job.orphans : notes' = DeleteNotes(notes, o[1], o[2])
      BY <2>6 DEF RemoveNote
    <3>2. phase = "removeNotes" /\ UNCHANGED <<entries, ledger>> BY <2>6 DEF RemoveNote
    <3>3. o[1] \in Named(job) BY <1>1, <3>1, <3>2 DEF OrphansNamed
    <3> QED BY <1>1, <3>1, <3>2, <3>3 DEF DeleteNotes, Notes
  <2>7. CASE Succeed \/ LogFails
    <3>1. phase = "record" /\ (ledger' = Recorded(job) \/ UNCHANGED ledger) /\ UNCHANGED <<entries, notes>>
      BY <2>7 DEF Succeed, LogFails
    <3> QED BY <1>1, <3>1, RecordedConfined
  <2>8. AskOld \/ Fail \/ EnterName \/ GiveUp \/ Kill => UNCHANGED <<entries, notes, ledger>>
    BY DEF AskOld, Fail, EnterName, GiveUp, Kill, Abandon, disk
  <2> QED BY <1>1, <2>1, <2>2, <2>3, <2>4, <2>5, <2>6, <2>7, <2>8 DEF Command, Failure
<1>2. IInv /\ OrphansNamed =>
        [Command \/ Failure =>
           \A n \in Name \ Named(job) :
             entries'[n] = entries[n] /\ notes'[n] = notes[n] /\ ledger'[n] = ledger[n]]_vars
  BY <1>1
<1>3. Init => OrphansNamed
  BY DEF Init, OrphansNamed
<1> QED BY <1>2, <1>3, OrphansNamedStep, Invariance, PTL DEF Spec, OperationsConfined
=============================================================================
