---------------------------- MODULE EntryLedger ----------------------------
(***************************************************************************)
(* The metadata ledger of entry_metadata.cpp: one record for every entry   *)
(* name that syncpss has created, changed or deleted, kept in one JSON     *)
(* file beside the store.  A record is abstracted to whether it has a      *)
(* deletion event; host fields, time stamps and modes are left out.        *)
(*                                                                         *)
(* Every function of the source loads the file, changes it and writes it   *)
(* back; the operators here are the change.                                *)
(***************************************************************************)
CONSTANT Name    \* paths of entries

Record == {"none", "active", "deleted"}

Ledger == [Name -> Record]

NoRecords == [n \in Name |-> "none"]

\* record_entry_creation: creation event anew, deletion cleared
RecordCreation(ledger, n) == [ledger EXCEPT ![n] = "active"]

\* A slip: the record of the previous name stays as well.
CopyRecord(ledger, previous, n) == [ledger EXCEPT ![n] = "active"]

\* record_entry_modification: the record of the previous name moves to the
\* new one, over the record that name may have had.
RecordModification(ledger, previous, n) ==
  [m \in Name |-> CASE m = n                    -> "active"
                    [] m = previous /\ m # n    -> "none"
                    [] OTHER                    -> ledger[m]]

\* record_entry_deletion: a deletion event, in a new record if there is none
RecordDeletion(ledger, n) == [ledger EXCEPT ![n] = "deleted"]

\* record_recursive_entry_deletion: a deletion event in every record below
RecordRecursiveDeletion(ledger, below) ==
  [m \in Name |-> IF m \in below /\ ledger[m] # "none" THEN "deleted" ELSE ledger[m]]
=============================================================================
