--------------------------- MODULE PasswordStore ---------------------------
(***************************************************************************)
(* The password store of store.cpp as its callers see it: entries, which   *)
(* are the files `pass` encrypts, and notes, which are files of their own  *)
(* in ~/.syncpss/notes, named by the entry and its username.               *)
(*                                                                         *)
(* Encryption is left out: a file is its plaintext.  The note file of an   *)
(* entry is named by a hash of the entry's name, which the model takes for *)
(* the name, and by a token made from the username.  The token keeps few   *)
(* characters of a username, so usernames may share one.                   *)
(***************************************************************************)
EXTENDS FiniteSets

CONSTANTS
  Name,       \* paths of entries
  Folder,     \* paths of folders; a path may be both
  Below,      \* Below[f]: the entries at or under f
  Password, User, Note,
  Token,      \* what sanitize_note_token makes of usernames
  TokenOf,    \* TokenOf[u]: what it makes of username u
  NoPassword, \* the empty password
  NoUser,     \* the empty username
  NoNote,     \* the empty note
  Absent      \* no file

ASSUME PasswordStoreAssumption ==
  /\ NoPassword \notin Password
  /\ NoUser \notin User
  /\ NoNote \notin Note
  /\ TokenOf \in [User \union {NoUser} -> Token]
  /\ Below \in [Folder -> SUBSET Name]
  /\ \A f \in Folder \intersect Name : f \in Below[f]

PasswordText == Password \union {NoPassword}
Username == User \union {NoUser}
NoteText == Note \union {NoNote}

\* A decrypted entry: the password on the first line, the username line, the
\* note kept in the entry by an older version, and whether there are lines
\* syncpss does not know, which other programs on top of `pass` write.
Content == [password : PasswordText, username : Username, inline : NoteText, foreign : BOOLEAN]

Contents == Content \union {Absent}
Entries == [Name -> Contents]
Notes   == [Name -> [Token -> NoteText]]

ASSUME AbsentIsNoContent == Absent \notin Content

\* struct Entry; url is handled as username is and left out
Entry == [name : Name, password : PasswordText, username : Username, notes : NoteText]

\* serialize_entry: password, username, and nothing else
SerializeEntry(e) ==
  [password |-> e.password, username |-> e.username, inline |-> NoNote, foreign |-> FALSE]

\* The note read_entry returns with an entry that exists: the note file if
\* there is one, else what the entry itself holds.
ReadNotes(entries, notes, n) ==
  LET file == notes[n][TokenOf[entries[n].username]]
  IN  IF file # NoNote THEN file ELSE entries[n].inline

\* parse_entry and read_entry of an entry that exists
ReadEntry(entries, notes, n) ==
  [name     |-> n,
   password |-> entries[n].password,
   username |-> entries[n].username,
   notes    |-> ReadNotes(entries, notes, n)]

\* pass insert, which never asks on a pipe and so always overwrites
PassInsert(entries, e) == [entries EXCEPT ![e.name] = SerializeEntry(e)]

\* the second half of save_entry: write the note file, or remove it
SaveNotes(notes, e) == [notes EXCEPT ![e.name][TokenOf[e.username]] = e.notes]

\* delete_notes
DeleteNotes(notes, n, u) == [notes EXCEPT ![n][TokenOf[u]] = NoNote]

\* The username delete_entry and delete_tree work with: that of the entry, or
\* the empty one if the entry cannot be read (gpg cancelled, for instance).
UsernamesRead(entries, n) == {entries[n].username, NoUser}

Stored(entries) == {n \in Name : entries[n] # Absent}

\* list_entries restricted to what delete_tree removes
EntriesBelow(entries, f) == Stored(entries) \intersect Below[f]

\* pass rm -r -f: of a path that is an entry too only the entry goes
RemovedByPass(entries, f) ==
  IF f \in Stored(entries) THEN {f} ELSE EntriesBelow(entries, f)
=============================================================================
