----------------------------- MODULE KeyBackups -----------------------------
(***************************************************************************)
(* The GPG key ring and its backups: tui_remote_keys.cpp and the keys half *)
(* of tui_backup_container.cpp over gpg, VeraCrypt and the directory of    *)
(* key rings set aside, which the installer fills and prunes as well.      *)
(*                                                                         *)
(* Four operations work on a mounted volume.  "backup" fills a staging     *)
(* volume and copies it into the store; "export" fills a local archive;    *)
(* "restore" and "import" read them back and may replace the whole key     *)
(* ring.  An operation is one action per command.  Every command may fail, *)
(* which leads to the handler of the source (Cleanup), and the program may *)
(* end between any two (Kill).  The installer copies the key ring aside,   *)
(* or replaces it with the same steps as a restore.  A sync may bring the  *)
(* container of another machine; the one a backup ends with asks for each  *)
(* conflict which side to keep.                                            *)
(***************************************************************************)
EXTENDS Naturals, FiniteSets

CONSTANTS
  Key,         \* secret keys
  Configured,  \* the key of the configuration
  Subkeyed,    \* the keys with subkeys, which have fingerprints of their own
  Archive,     \* names of local archives
  MaxBackups,  \* how many key rings set aside are kept
  MaxAside,    \* bound on key rings set aside
  MaxUses,     \* bound on operations
  Absent,      \* no such file or directory
  Unreadable   \* a file that is not a volume, or not a whole one

VARIABLES
  keyring,     \* ~/.gnupg
  aside,       \* the key rings in gnupg-backups
  count,       \* key rings set aside so far, which dates them
  lastAside,   \* the one the last rebase set aside, if any (history)
  volume,      \* the volume files
  left,        \* volumes left mounted by operations that are over
  pc,          \* the command the operation in progress runs next
  op,          \* that operation, or the one whose completion the screen reports
               \* ("theirs": a backup, for which the container of another
               \* machine was kept in the end),
  vol,         \* ... the volume it works on,
  here,        \* ... and whether it is mounted at the operation's mount point
  uses         \* operations so far

ringVars == <<keyring, aside, count, lastAside>>
vars == <<ringVars, volume, left, pc, op, vol, here, uses>>

Exporting == {"backup", "export"}
Importing == {"restore", "import"}
Volume == Archive \union {"staging", "keys"}

\* A key ring, or a file of exported keys.
Ring == {Absent} \union SUBSET Key

\* What a container holds: the exported secret keys, the copy of the whole
\* directory, and the manifest, which has no type if it was cut off.
Container == [secret : Ring, raw : Ring, manifest : {"none", "cutOff", "whole"}]

ASSUME KeyBackupsAssumption ==
  /\ Configured \in Key
  /\ Subkeyed \subseteq Key
  /\ MaxBackups \in Nat \ {0}
  /\ MaxAside \in Nat
  /\ MaxUses \in Nat
  /\ Archive \intersect {"staging", "keys"} = {}
  /\ \A keys \in SUBSET Key : keys # Absent
  /\ \A c \in Container : c \notin {Absent, Unreadable}

Readable(c) == c \notin {Absent, Unreadable}
Empty == [secret |-> Absent, raw |-> Absent, manifest |-> "none"]

\* The containers of a backup that ran to its end: all keys in both forms, and
\* a manifest, which a volume that was full by then has cut off.
Backups(keys) == {[secret |-> keys, raw |-> keys, manifest |-> m] : m \in {"cutOff", "whole"}}

\* What the store of another machine may hold in this place.
Theirs == {Unreadable} \union UNION {Backups(keys) : keys \in (SUBSET Key) \ {{}}}

\* The keys in a key ring, or in a file; one that does not exist has none.
KeysIn(ring) == IF ring = Absent THEN {} ELSE ring

-----------------------------------------------------------------------------
(* The key rings set aside.  Their names start with what made them; in the *)
(* order of the names gnupg-rebase.N comes before gnupg-replace.N, and     *)
(* this before gnupg.N.                                                    *)

Rank == [rebase |-> 0, replace |-> 1, copy |-> 2]
SetAside == [by : DOMAIN Rank, at : Nat, keys : SUBSET Key]

SortsAfter(t, s) ==
  \/ Rank[t.by] > Rank[s.by]
  \/ Rank[t.by] = Rank[s.by] /\ t.at > s.at

\* The slip of sorting the other way round.
KeptFirst(rings) == {s \in rings : Cardinality({t \in rings : SortsAfter(s, t)}) < MaxBackups}

\* prune_old_gnupg_backups
Kept(rings) == {s \in rings : Cardinality({t \in rings : SortsAfter(t, s)}) < MaxBackups}

Mover == [restore |-> "rebase", import |-> "rebase", installer |-> "replace"]

-----------------------------------------------------------------------------
\* A store that was cloned may bring the container of another machine.
Init ==
  /\ keyring = {Configured}
  /\ aside = {}
  /\ count = 0
  /\ lastAside = {}
  /\ \E container \in {Absent} \union Theirs :
       volume = [v \in Volume |-> IF v = "keys" THEN container ELSE Absent]
  /\ left = {}
  /\ op = "none" /\ pc = "idle" /\ vol = "keys" /\ here = FALSE
  /\ uses = 0

\* The command of the operation that runs when pc is step, and the one after it;
\* after the last the screen says that the operation is complete.
At(step, next) == pc = step /\ pc' = next /\ UNCHANGED <<op, vol, uses>>

Begin(o, v, first) ==
  /\ pc = "idle"
  /\ uses < MaxUses /\ uses' = uses + 1
  /\ op' = o /\ vol' = v /\ pc' = first
  /\ here' = FALSE
  /\ UNCHANGED <<ringVars, left>>

\* The operation is over without a message that it is complete.
End ==
  /\ pc' = "idle" /\ op' = "none" /\ vol' = "keys" /\ here' = FALSE
  /\ UNCHANGED <<ringVars, uses>>

\* Nothing but a message of before is on the screen.
Elsewhere ==
  /\ pc = "idle"
  /\ UNCHANGED <<pc, here, uses>>
  /\ op' = "none" /\ vol' = "keys"

-----------------------------------------------------------------------------
(* Filling a container.                                                    *)

\* backup_keys_to_remote: a staging volume of before is removed
BackupKeys ==
  /\ Begin("backup", "staging", "create")
  /\ volume' = [volume EXCEPT !["staging"] = Absent]

\* export_local_keys_backup, to an archive named after the time
ExportKeys ==
  \E a \in Archive :
    /\ volume[a] = Absent
    /\ Begin("export", a, "create")
    /\ UNCHANGED volume

Fill(contents) == volume' = [volume EXCEPT ![vol] = contents]

CreateVolume ==
  /\ At("create", "mount")
  /\ Fill(Empty)
  /\ UNCHANGED <<ringVars, left, here>>

\* The slip of mounting without looking at the exit code.
MountAny ==
  /\ At("mount", IF op \in Exporting THEN "secret" ELSE "check")
  /\ here' = TRUE
  /\ UNCHANGED <<ringVars, volume, left>>

\* A volume that is mounted already cannot be mounted once more.
Mount ==
  /\ At("mount", IF op \in Exporting THEN "secret" ELSE "check")
  /\ Readable(volume[vol])
  /\ vol \notin left
  /\ here' = TRUE
  /\ UNCHANGED <<ringVars, volume, left>>

\* export_to_directory: gpg makes the directory if there is none
ExportSecretKeys ==
  /\ At("secret", "raw")
  /\ keyring' = KeysIn(keyring)
  /\ Fill([volume[vol] EXCEPT !.secret = KeysIn(keyring)])
  /\ UNCHANGED <<aside, count, lastAside, left, here>>

\* The slip of a copy whose errors are ignored.
CopiedAny(part, all) == part \subseteq all

\* A copy of a directory is file by file, and what it throws ends it there.
Copied(part, all) == part = all

ExportRaw ==
  /\ pc = "raw"
  /\ \E part \in SUBSET keyring :
       /\ At("raw", IF Copied(part, keyring) THEN "manifest" ELSE "failed")
       /\ Fill([volume[vol] EXCEPT !.raw = part])
  /\ UNCHANGED <<ringVars, left, here>>

\* write_manifest_file looks at the opening of the file, and at no write
WriteManifest ==
  /\ At("manifest", "dismount")
  /\ \E m \in {"cutOff", "whole"} : Fill([volume[vol] EXCEPT !.manifest = m])
  /\ UNCHANGED <<ringVars, left, here>>

Dismount ==
  /\ At("dismount", CASE op = "backup" -> "publish"
                      [] op = "export" -> "idle"
                      [] OTHER         -> "save")
  /\ here' = FALSE
  /\ UNCHANGED <<ringVars, volume, left>>

\* copy_file truncates the container in the store, then writes it.
OverwriteRemote ==
  /\ At("publish", "publishing")
  /\ volume' = [volume EXCEPT !["keys"] = Unreadable]
  /\ UNCHANGED <<ringVars, left, here>>

RemoteWritten ==
  /\ At("publishing", "unstage")
  /\ volume' = [volume EXCEPT !["keys"] = volume["staging"]]
  /\ UNCHANGED <<ringVars, left, here>>

RemoveStaging ==
  /\ At("unstage", "save")
  /\ volume' = [volume EXCEPT !["staging"] = Absent]
  /\ UNCHANGED <<ringVars, left, here>>

\* gpg_keys_remote is set and the runtime configuration saved.
SaveConfig ==
  /\ At("save", CASE op = "backup"  -> "sync"
                  [] op = "restore" -> "verify"
                  [] OTHER          -> "idle")
  /\ UNCHANGED <<ringVars, volume, left, here>>

\* sync and, if the pull conflicts, resolve_conflicts: the container of this
\* machine is kept ("Keep local version"), or was not in conflict ...
Sync ==
  /\ At("sync", "idle")
  /\ UNCHANGED <<ringVars, volume, left, here>>

\* ... or gives way to the other one ("Keep remote version").  The message is
\* the same.
SyncKeepingRemote ==
  /\ pc = "sync" /\ pc' = "idle"
  /\ op' = "theirs"
  /\ \E c \in Theirs : volume' = [volume EXCEPT !["keys"] = c]
  /\ UNCHANGED <<ringVars, left, vol, here, uses>>

-----------------------------------------------------------------------------
(* Reading a container back.                                               *)

RestoreKeys ==
  /\ volume["keys"] # Absent
  /\ Begin("restore", "keys", "mount")
  /\ UNCHANGED volume

ImportKeys ==
  \E a \in Archive :
    /\ volume[a] # Absent
    /\ Begin("import", a, "mount")
    /\ UNCHANGED volume

\* validate_expected_secret_key_material: every fingerprint in the exported
\* secret keys must be that of the configured key; without such a file there
\* is nothing to compare.
ExpectedOnly(secret) ==
  secret # Absent => secret = {Configured} /\ Configured \notin Subkeyed

\* The slip of checking the manifest of an archive as loosely as that of the
\* container in the store.
AcceptedUnfinished(c) == ExpectedOnly(c.secret) /\ c.manifest # "cutOff"

\* A container in the store may lack the manifest, an archive may not; one
\* without a type passes neither.
Accepted(c) ==
  /\ ExpectedOnly(c.secret)
  /\ c.manifest # "cutOff"
  /\ op = "import" => c.manifest = "whole"

CheckContents ==
  /\ At("check", "merge")
  /\ Accepted(volume[vol])
  /\ UNCHANGED <<ringVars, volume, left, here>>

\* merge_from_directory
Merge ==
  /\ At("merge", "ask")
  /\ keyring' = KeysIn(keyring) \union KeysIn(volume[vol].secret)
  /\ UNCHANGED <<aside, count, lastAside, volume, left, here>>

\* "Replace the entire local ~/.gnupg with the container copy?"
KeepKeyring ==
  /\ At("ask", "dismount")
  /\ UNCHANGED <<ringVars, volume, left, here>>

Rebase ==
  /\ At("ask", "move")
  /\ volume[vol].raw # Absent
  /\ UNCHANGED <<ringVars, volume, left, here>>

\* The slip of overwriting the key ring where it is.
MoveNothing ==
  /\ At("move", "prune")
  /\ keyring' = Absent
  /\ UNCHANGED <<aside, count, lastAside, volume, left, here>>

MoveAside ==
  /\ At("move", IF keyring = Absent THEN "copy" ELSE "prune")
  /\ IF keyring = Absent
     THEN UNCHANGED ringVars
     ELSE LET ring == [by |-> Mover[op], at |-> count, keys |-> keyring]
          IN  /\ count < MaxAside
              /\ aside' = aside \union {ring}
              /\ keyring' = Absent
              /\ count' = count + 1
              /\ lastAside' = IF op = "installer" THEN lastAside ELSE {ring}
  /\ UNCHANGED <<volume, left, here>>

Prune ==
  /\ At("prune", IF op = "copy" THEN "idle" ELSE "copy")
  /\ aside' = Kept(aside)
  /\ UNCHANGED <<keyring, count, lastAside, volume, left, here>>

\* copy_live_gnupg_contents and the permissions
CopyBack ==
  /\ pc = "copy"
  /\ keyring' \in SUBSET volume[vol].raw
  /\ At("copy", CASE ~Copied(keyring', volume[vol].raw) -> "failed"
                  [] op = "installer"                   -> "idle"
                  [] OTHER                              -> "dismount")
  /\ UNCHANGED <<aside, count, lastAside, volume, left, here>>

\* "Expected GPG key is still missing after restore"
Verify ==
  /\ At("verify", "idle")
  /\ Configured \in KeysIn(keyring)
  /\ UNCHANGED <<ringVars, volume, left, here>>

-----------------------------------------------------------------------------
(* What goes wrong.                                                        *)

\* Any command may fail; a volume that could not be made may be there.
Fail ==
  /\ pc \notin {"idle", "failed"}
  /\ pc' = "failed"
  /\ \/ UNCHANGED volume
     \/ pc = "create" /\ Fill(Unreadable)
  /\ UNCHANGED <<ringVars, left, op, vol, here, uses>>

\* The handler dismounts.  When that fails it removes what is under the mount
\* point, which for a volume that can be written is what is in the volume.
Cleanup ==
  /\ pc = "failed"
  /\ End
  /\ \E dismounted \in BOOLEAN :
       LET erased == IF here /\ ~dismounted /\ op \in Exporting
                     THEN [volume EXCEPT ![vol] = Empty] ELSE volume
       IN  /\ left' = IF here /\ ~dismounted THEN left \union {vol} ELSE left
           /\ volume' = IF op = "backup" THEN [erased EXCEPT !["staging"] = Absent] ELSE erased

\* The process ends, and what it mounted stays mounted.
Kill ==
  /\ pc # "idle"
  /\ End
  /\ left' = IF here THEN left \union {vol} ELSE left
  /\ UNCHANGED volume

-----------------------------------------------------------------------------
(* Everything else.                                                        *)

\* generate_key_interactive, or gpg by hand
GenerateKey ==
  /\ Elsewhere
  /\ \E k \in Key \ KeysIn(keyring) : keyring' = KeysIn(keyring) \union {k}
  /\ UNCHANGED <<aside, count, lastAside, volume, left>>

\* A sync from the menu brings the container of another machine, or the removal
\* of the one that was there.
SyncStore ==
  /\ pc = "idle"
  /\ uses < MaxUses /\ uses' = uses + 1
  /\ op' = "none" /\ vol' = "keys"
  /\ \E c \in {Absent} \union Theirs : volume' = [volume EXCEPT !["keys"] = c]
  /\ UNCHANGED <<ringVars, left, pc, here>>

\* The volumes left mounted are dismounted by hand or by a restart.
DismountAll ==
  /\ Elsewhere
  /\ left # {} /\ left' = {}
  /\ UNCHANGED <<ringVars, volume>>

\* backup_current_gnupg_if_requested
InstallerCopies ==
  /\ pc = "idle" /\ keyring # Absent
  /\ count < MaxAside
  /\ aside' = aside \union {[by |-> "copy", at |-> count, keys |-> keyring]}
  /\ count' = count + 1
  /\ op' = "copy" /\ vol' = "keys" /\ pc' = "prune"
  /\ UNCHANGED <<keyring, lastAside, volume, left, here, uses>>

\* restore_gpg_from_remote_keys, replace mode
InstallerReplaces ==
  /\ Readable(volume["keys"]) /\ volume["keys"].raw # Absent
  /\ Begin("installer", "keys", "move")
  /\ UNCHANGED volume

Next ==
  \/ BackupKeys \/ ExportKeys \/ CreateVolume \/ Mount \/ ExportSecretKeys \/ ExportRaw
  \/ WriteManifest \/ Dismount \/ OverwriteRemote \/ RemoteWritten \/ RemoveStaging
  \/ SaveConfig \/ Sync \/ SyncKeepingRemote
  \/ RestoreKeys \/ ImportKeys \/ CheckContents \/ Merge \/ KeepKeyring \/ Rebase
  \/ MoveAside \/ Prune \/ CopyBack \/ Verify
  \/ Fail \/ Cleanup \/ Kill
  \/ GenerateKey \/ SyncStore \/ DismountAll \/ InstallerCopies \/ InstallerReplaces

Spec == Init /\ [][Next]_vars

-----------------------------------------------------------------------------
Steps == {"create", "mount", "secret", "raw", "manifest", "dismount", "publish", "publishing",
          "unstage", "save", "sync", "check", "merge", "ask", "move", "prune", "copy", "verify"}

\* The values of the variables, and what a step finds: a volume it works on is
\* readable, a key ring it exports exists, a copy it restores is there.
TypeOK ==
  /\ keyring \in Ring
  /\ aside \subseteq SetAside
  /\ count \in Nat
  /\ lastAside \subseteq SetAside
  /\ volume \in [Volume -> {Absent, Unreadable} \union Container]
  /\ left \subseteq Volume
  /\ op \in Exporting \union Importing \union {"installer", "copy", "theirs", "none"}
  /\ pc \in Steps \union {"idle", "failed"}
  /\ vol \in Volume
  /\ here \in BOOLEAN
  /\ uses \in Nat
  /\ pc \in {"secret", "raw", "manifest", "check", "merge", "ask"} => Readable(volume[vol])
  /\ pc = "raw" => keyring # Absent
  /\ (pc \in {"move", "copy"} \/ (pc = "prune" /\ op # "copy")) =>
       Readable(volume[vol]) /\ volume[vol].raw # Absent

Foreign == {s \in aside : s.by # "rebase"}

\* Whatever fails during a rebase or after it, and however often it is tried
\* again, the key ring that the last one moved away is removed only if the
\* installer has left as many backups as are kept: they sort after it
\* (rename and prune_old_gnupg_backups in restore_keys_from_remote and in
\* import_local_keys_backup).
SetAsideKept ==
  [][\A ring \in lastAside :
       ring \in aside \ aside' => Cardinality(Foreign) >= MaxBackups]_vars

\* No key is lost by a step other than the removal of old backups: what leaves
\* the key ring was set aside (the order of rename, prune and copy).
KeysReachable ==
  [][\A k \in KeysIn(keyring) \ KeysIn(keyring') : \E s \in aside' : k \in s.keys]_vars

\* When the screen says that a backup or an export is complete, the container
\* has all the keys of the key ring, in both forms, although every copy may have
\* failed and volumes of before may be mounted.  It need not be of use: nobody
\* notices when its manifest is cut off, and then no restore accepts it.  And of
\* a backup for which the user kept the container of another machine nothing is
\* claimed, although the message is the same.
BackupIsWhole ==
  pc = "idle" =>
    /\ op = "backup" => volume["keys"] \in Backups(keyring)
    /\ op = "export" => volume[vol] \in Backups(keyring)

\* When the screen says that a restore or an import is complete, the configured
\* key is in the key ring, replaced or not, also when the container comes from
\* an export that failed or was cut off.
RestoreDelivers ==
  pc = "idle" /\ op \in Importing => Configured \in KeysIn(keyring)

\* "The current retention policy keeps: [...] the newest 20 `.gnupg` backups"
\* (docs/internals/RUNTIME-CONFIG-AND-STORE.md:30-33): what is removed is older
\* than all that is kept.
NewestBackupsKept ==
  [][\A gone \in aside \ aside', kept \in aside' : gone.at < kept.at]_vars
=============================================================================
