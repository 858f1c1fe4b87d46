------------------------------ MODULE StoreTree ------------------------------
(***************************************************************************)
(* The contents of a password store as git sees them, and what git does    *)
(* with three versions of it.                                              *)
(*                                                                         *)
(* A tree maps every path of the store to its content.  The paths are the  *)
(* encrypted password entries, written by `pass`, and the one hash file    *)
(* `.syncpss-store.sha256`, which src/src/git/git.cpp rewrites whenever it *)
(* publishes a store version.  An encrypted entry is opaque: two versions  *)
(* of it are equal or different, and git cannot merge them line by line.   *)
(* The hash file is one line, "<sha256 of the entries>  v<n>".             *)
(***************************************************************************)
EXTENDS Naturals

CONSTANTS
  Entry,     \* paths of password entries
  Value,     \* encrypted contents an entry can have
  SumFile,   \* the path .syncpss-store.sha256
  Absent,    \* the content of a path that does not exist
  Marker,    \* a text file left with <<<<<<< conflict markers by git merge
  MaxVersion \* bound on store versions v0.0.n

ASSUME StoreTreeAssumption ==
  /\ SumFile \notin Entry
  /\ MaxVersion \in Nat \ {0}

File    == Entry \union {SumFile}
Version == 1..MaxVersion

(***************************************************************************)
(* The hash line determines, and is determined by, the entries it was      *)
(* computed over and the version written after it (SHA-256 is taken to be  *)
(* collision free).                                                        *)
(***************************************************************************)
EntryContent == Value \union {Absent}
Entries      == [Entry -> EntryContent]
Sum          == [of : Entries, ver : Version]
SumContent   == Sum \union {Absent, Marker}
Tree         == {t \in [File -> EntryContent \union SumContent] :
                   t[SumFile] \in SumContent /\ \A e \in Entry : t[e] \in EntryContent}

EntriesOf(t) == [e \in Entry |-> t[e]]

\* A slip: the hash file carries the version before the one that is tagged.
WithLastSum(t, v) ==
  [t EXCEPT ![SumFile] = [of |-> EntriesOf(t), ver |-> IF v = 1 THEN 1 ELSE v - 1]]

\* A slip: the hash covers the hash file itself.
WithSumOfAll(t, v) == [t EXCEPT ![SumFile] = [of |-> t, ver |-> v]]

\* write_store_hash_file: the hash covers every file except the hash file.
WithSum(t, v) == [t EXCEPT ![SumFile] = [of |-> EntriesOf(t), ver |-> v]]

\* The hash file of t is the one computed over the entries of t.
SumMatches(t) == t[SumFile] \in Sum /\ t[SumFile].of = EntriesOf(t)

-----------------------------------------------------------------------------
(***************************************************************************)
(* git's three-way merge of ours (o) and theirs (t) over a base (b).       *)
(***************************************************************************)

\* Paths on which the two trees differ: git diff --name-only.
Changed(a, b) == {f \in File : a[f] # b[f]}

\* Paths both sides changed, to different contents.
Conflicts(b, o, t) ==
  {f \in File : o[f] # t[f] /\ o[f] # b[f] /\ t[f] # b[f]}

\* What git leaves in the worktree for a conflicted path: markers in the text
\* file, our version of a binary entry, or the surviving side of a
\* modify/delete conflict.
ConflictLeaves(f, o, t) ==
  IF f = SumFile THEN Marker ELSE IF o = Absent THEN t ELSE o

\* The worktree after the merge.
Merged(b, o, t) ==
  [f \in File |->
     IF f \in Conflicts(b, o, t) THEN ConflictLeaves(f, o[f], t[f])
     ELSE IF o[f] = b[f] THEN t[f]
     ELSE o[f]]
=============================================================================
