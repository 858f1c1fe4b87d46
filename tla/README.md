# A verification development for syncpss

syncpss is a terminal program around `pass`: it keeps GPG-encrypted entries in a
git repository, synchronises that repository with a private remote, shows and
edits entries, leases the clipboard, and moves stores and keys in VeraCrypt
containers. This directory models the parts of it whose correctness depends on
the order in which things happen, checks the models with TLC and proves the
main results with TLAPS.

## 1. The system

| Component | State | Operations | Talks to |
|---|---|---|---|
| Git sync engine (`src/git/git.cpp`) | worktree, index, HEAD, MERGE_HEAD, remote-tracking branch, version tags, `.syncpss-store.sha256` | sync, prepare_sync, fetch_preview, push_force, pull_force, nuke_passwords, start/abort/finalize merge, resolve_conflict | git, origin |
| Sync menu and review (`src/tui/tui_sync.cpp`) | choice per file, running operation | sync_store, push/pull_store_force, fetch_store_preview, nuke_store, review_sync_preview | the engine |
| Password store (`src/store/store.cpp`) | `*.gpg` entries, encrypted notes outside the repository | list, read, save, delete, initialise, migrate notes | pass, gpg |
| Password actions (`src/tui/password_actions.cpp`) | selection, form fields | view, add, edit (rename), delete | store, metadata, clipboard |
| Entry metadata (`src/util/entry_metadata.cpp`) | one JSON ledger | record creation, modification, move, deletion, runtime events | file system |
| Clipboard leases (`src/util/clipboard_lease.cpp`) | current token, clipboard, detached expiry threads | copy with expiry, query lease | other programs |
| Windows clipboard helpers (`src/util/clipboard_wsl_windows.cpp`) | lease files, the Windows clipboard and its history, detached PowerShell helpers | copy, register, cancel, watch, clear | Windows, the leases |
| Process runner (`src/util/process.cpp`) | pipes, child | run with input and captured output | kernel |
| Backup containers (`src/tui/tui_backup_container.cpp`, `tui_remote_keys.cpp`) | container, staged copies, rollback directories | export, import, backup and restore keys | VeraCrypt, sync engine |
| Release check and update (`tui_main_menu.cpp`, `release.cpp`, `tui_update.cpp`, the Linux installer) | `latest_release_*` fields, installed files | check in the background, check on request, update, verify | GitHub |
| Configuration (`tui_configuration.cpp`, `tui_setup_wizard.cpp`, `tui_gpg_keys.cpp`, `runtime_config.cpp`, `config.cpp`) | config.json, the INI file, the git remote, two records in memory | set up, rename the remote store, select a key, privacy, record backed up keys | git, gh, gpg |
| GPG and SSH helpers, other installers, scripts | key rings | see PROJECT.json | external tools |

Components interact in three ways. The TUI calls everything else synchronously,
on one thread; only the clipboard expiry threads, the clipboard helpers of Windows
and the release check run beside it. The sync engine shares the store's worktree with `pass` and with the
user. Machines share nothing but the remote branch and its tags. Every error is
an exception; `TuiApp::run` catches it, shows it and returns to the main menu,
so an operation may end between any two of its steps with the disk as it was.

What is hard, and what correctness means:

* **Sync engine.** Two machines interleave at every git command; operations
  end half way; the next one starts from whatever they left. Correct means: no
  published or local commit is lost unless the user forces it, the hash file at
  origin is the hash of what is there, tags name the version and the commit they
  claim, a conflict is never resolved without the user.
* **Review.** Choices are made per file against an index that changes under
  them. Correct means: what is shown is what is committed.
* **Password store and actions.** One save is several commands, each of which may
  fail or be the last. Correct means: a failure in the middle leaves the old entry
  or the new one, notes follow their entry, what is reported is so.
* **Entry metadata.** Event records survive renames and crashes.
* **Clipboard.** An expired lease clears only its own content. Under WSL the helpers
  of a lease outlive syncpss: what it copied is cleared all the same, as far as Windows
  lets them.
* **Process runner.** No deadlock on full pipes.
* **Configuration.** The same facts are in five places, changed one after another.
  Correct means: the program starts again, what was reported as saved is, the store
  is pushed where the screen says.
* **Release check and update.** Two threads ask the same question and share the
  answer; an update replaces files one by one. Correct means: what is said of the
  installed version is true, and an update that was cut off does not go unnoticed.
* **Backup.** What is reported as backed up is whole, what is reported as restored is
  there, and a failure or a crash leaves the old key ring or directory reachable.

The complete list of hazards, each at its line, is in `PROJECT.json`.

## 2. The modules

| Module | Role |
|---|---|
| `StoreTree` | contents of a store as git sees it: entries, hash file, three-way merge |
| `GitSync` | sync engine and sync menu on several machines |
| `SharedHistory` | what the engine promises about history; `GitSync` refines it |
| `MCGitSync` | the cases of conduct and the symmetry of the TLC runs |
| `SyncReview` | one review: keys, labels, index, the commit |
| `GitSyncProofs` | lemmas on trees, tags and merge bases; the invariants of types, of history, of hash files, of versions; all properties of both runs, the refinement, and that both models of a review agree |
| `PasswordStore` | entries and note files, the steps of save and delete |
| `EntryLedger` | the metadata file: one record per name |
| `PasswordActions`, `MCPasswordActions`, `PasswordActionsProofs` | add, edit, rename, delete over both, and the migration of plain notes |
| `EntryNames` | the combo builder and the parser of its names, as operators |
| `ClipboardLease`, `ClipboardLeaseProofs` | copies that expire, their threads, other programs |
| `WindowsClipboard`, `WindowsClipboardProofs` | copies under WSL, their lease files and the helpers that clear them, over several runs of syncpss |
| `ProcessRunner`, `ProcessRunnerProofs` | children, pipes and threads |
| `KeyBackups`, `KeyBackupsProofs` | the key ring, its containers and the key rings set aside |
| `StoreRestore`, `MCStoreRestore`, `StoreRestoreProofs` | archives of the store and its notes, and the replacement of both |
| `Configuration` | the configuration in its five places and the handlers that change it |
| `ReleaseCheck` | the look for a newer release, on two threads, and the update |
| `Session`, `MCSession`, `SessionProofs` | both together: starting, menus, updating, ending; symmetry for TLC |

### GitSync

A tree maps paths to contents: entries to opaque encrypted contents, the hash
file to the pair (entries hashed, version), which is what SHA-256 determines. A
commit has a number, a tree and the set of its ancestors. For every machine the
module keeps HEAD, the remote-tracking branch, MERGE_HEAD, worktree, index,
unmerged paths, tags, and the running operation (`pc`, `mode`) with the store
version it has chosen (`ver`, `SyncReport::store_version`).

One action is one git command that changes shared or durable state together
with the code around it: `SyncStore` is the preview fetch and the branch on
overlapping paths; `Fetch`, `StageChanges`, `CommitStaged`, `VersionKnown`,
`TrackVersion` are the steps of `prepare_sync`, `sync` and `push_force`; `Pull`,
`StartMerge`, `KeepSide`, `EditFile`, `AbortReview`, `FinalizeMergeCommit`,
`Push`, `CreateTag`, `PushTag`, `Dismiss` are the rest. `PassWrite` is a commit
made by `pass`, which is not one of syncpss' own but moves the same index.
`Stop` ends an operation between two steps.

`Conduct` is a set of cases, each of which says on which machines the user forces
(`Forcing`), operations may stop (`Stopping`) and uncommitted files may lie about
(`Untidy`). A behaviour keeps the case it begins with (`users`), and the properties
that speak of one case name it, so that one run covers several cases and the proofs
cover all of them. `SharedHistory` has the forcing users as a constant of its
behaviours, too: what it promises of published commits depends on them.

Two properties have a form that the code does not suggest at first sight.
`VersionsFollowHistory` makes an exception for a tag that was left behind
(`TagLeftBehind`). A machine m2 stops between `git tag v0.0.2` and the push of the tag
(git.cpp:249-258), and later publishes version 3, for its own tags say that 2 is taken.
Another machine, m1, which never saw that tag, has chosen version 2 in the meantime; it
merges m2's store and pushes its tag 2 on a commit above the commit of version 3. The
documents call the tags an "auditable progression of sync points"
(src/docs/internals/RUNTIME-CONFIG-AND-STORE.md:106); with a third write, and without the exception, TLC finds
these 31 steps. `TagNamesItsVersion` asks for the hash file of version v in the history of
the tagged commit and not in that commit itself: with five writes and machines that stop,
a tag can be retried on a later commit whose hash file is another version's. The run
has two writes, where neither happens; the theorems hold for any number.

What git does was taken from how the code uses it and confirmed against git
2.39: `checkout --ours/--theirs` on a path that is not unmerged restores the
index; `fetch --tags` fails on a clobbered tag but still updates the branch;
`git pull` refuses to start with a MERGE_HEAD; `git commit` refuses unmerged
paths and concludes a merge; `git add -A` marks every path resolved.

Abstractions: rename detection (a rename is a removal and an addition), virtual
merge bases (one best common ancestor is chosen), the different manifest format
the installer hashes for its first commit, and file contents.

### SyncReview

`GitSync` models the keys of the review by what they do to the index of one of
several machines; `SyncReview` starts from any two published stores that
diverged and follows one review with its screen (`choices`). `Up` and `Down` are
`resolve_conflict`: `Taken` says which content `git checkout --ours/--theirs`
gives, which is a side only while the path is unmerged. `Edit` is nano and
`stage_file`, `Enter(v)` is `finalize_merge_commit` with the version v, `Quit` aborts the
merge. `Started` is what git leaves of the merge when the review opens; `ReviewInit`
chooses the trees. The variables (`worktree`, `index`, `conflicted`) are not called as in
`GitSync`, so that `GitSyncProofs` extends both modules and relates them.

### PasswordStore, EntryLedger, PasswordActions

`PasswordStore` has the operators of `store.cpp` on two pieces of state: entries
(password, username, the note an older version kept inside, and whether there are lines
syncpss does not know) and note files, which are named by the entry and by a token made
from the username (`TokenOf`, `sanitize_note_token`: separators become a dash, other
characters are dropped, nothing left becomes "note"). Usernames may share a token, and
then their notes of one entry are one file; `TokenOf` is any function. `EntryLedger` has
the four functions of `entry_metadata.cpp` that record operations. `PasswordActions`
composes them: an operation is a dialogue, one action (`AddPassword`, `EditPassword`,
`DeleteFolder`, ...), which fixes the `job`, followed by one action per command:
`Insert`, `WriteNote`, `DropOldNote`, `AskOld`, `DeleteEntry` or `DeleteTree`,
`RemoveNote` per file, `Succeed` with the ledger. `Fail` is the handler of the source:
in manual mode the form is entered again (`EnterName`) and everything starts over.
`Kill` ends the process between two commands and may leave the ledger, which is
rewritten in place, unreadable. `Outside` is a pull or another program while syncpss
waits in a menu. `LogFails` is the failure behind the ledger: the record is saved, the
runtime log is not written, and the operation counts as failed although it did
everything.

`Migrate` is the offer made when the program starts and finds the plain notes of an old
version (`legacy`, notes.json): `CopyLegacy` makes the backup, `SkipEntry` or
`InsertWithNote` and `WriteLegacyNote` follow for each entry, `RemoveLegacy` removes the
file at the end. A failure of one entry passes over it, so the backup is all that is
left of its note: that is why `NothingLost` asks for the backup and not for the notes.

A command that fails after it has changed the store (`pass insert` whose commit
fails) behaves as the command followed by a failure of the next one, which the
model has. Left out: the url, which is handled as the username is; the token of the
entry's own name, to which the file name adds a hash of the whole name, taken for
the name here; changes from outside in the middle of a dialogue.

An edit that changes the username to another one with the same token (`DropsNewNote`:
from "a b" to "a-b", for instance, or from one name in a non-latin script to another)
writes the new note and then removes the old one, which is the same file
(`password_actions.cpp:701-704`). The note is gone, and "Password entry updated." is shown.
`NotesReadBack` and `SuccessMeansDone` would be wrong without an exception for it, and TLC
refutes both when the exception is taken out. The exception is no wider than that: of such an edit the
entry without its note is still claimed to be as shown (`Left`), and of every other operation
the note as well, also where it belongs to a username whose token another one has.

### EntryNames

In combo mode the name of an entry is put together from the fields of a form
(`Build`), and the form of the editor begins with the fields it finds in the name
(`Defaults`); `PasswordActions` takes what the builder can produce as a constant.
`EntryNames` has both directions, character by character: `Encode` and `Decode` with
the order of their replacements, the brackets, the search for the separating @
outside of brackets, the port behind the last colon. `DefaultsKeepEntry` says what
makes them fit: a built name can be saved, and an edit that takes every default
saves the entry where it was. Otherwise it would be a rename, after which the editor asks for the
deletion of the old entry. `MCPasswordActions` assumes this of all forms of
short texts (hosts of up to three characters with colons, dots and slashes, users and
locations with brackets, percent signs and @, and so on), so that TLC evaluates it
before each run of that module: 35 thousand forms. `Unambiguous` is what it needs: no
brackets in any field, no @ but in the location, no slash in the host.

The last one is a real exception. "http://www.example.com" is an example the prompt of
the host gives (`password_actions.cpp:454`); the parser sees the host "http" and the query
"www.example.com" in it, so that taking every default in the editor renames the entry
and offers to delete the old one.

### ClipboardLease

One lease per copy: `Announce`, `Activate`, `CopyText`, `Launch` are the steps of
`copy_to_clipboard_with_expiry` on the user's thread; `LoopTest`, `CheckCurrent`,
`ReadText`, `ReadClipboard`, `ClearClipboard`, `Report`, `Release` are the steps of
the detached thread between two accesses to shared state (the mutex-protected
table, the two atomics, the clipboard). The deadline is a nondeterministic
`Expire`. `OtherCopies` is any other program. Reading the clipboard may fail and
then returns the empty text; a tool started with empty input waits for the
terminal (`Typed`), because `run` makes no pipe for it. `Quit` ends the program
and its threads. Times, and the delay between two looks at the clipboard, are
left out.

### WindowsClipboard

Under WSL a copy is made by a PowerShell helper, and two more are started for it
which belong to Windows: a watcher that loops until the lease no longer matches, and
a timer. `Announce`, `CancelStale`, `SetClipboard`, `WriteRecord`, `WaitForLeaseMatch`,
`CopyAgain`, `Register`, `LaunchWatcher` and `ScheduleClear` are the steps of
`copy_to_clipboard_with_expiry` on the user's thread, with the steps of the script in
the modes it waits for; every helper may fail and nobody looks. `WatchLease`, `Wake`,
`ReadRecord`, `ClearCurrentValue`, `RemoveHistoryItem` and `RemoveLease` are the script
in the modes watch, clear and cancel, for any number of helpers at once (`at`).
`Exit` ends syncpss and leaves the helpers; `Start` is its next run, which counts
leases from one again, so that `lease-1.json` may now be another lease's.

The state is the clipboard, its history, and the lease files. A file names the run that
wrote it, which stands for the hash and the history item it records; history items are
pairs of a run and a lease. `Match` is `Test-LeaseMatch`. The polling thread of
`ClipboardLease` is left out: the output of `Get-Clipboard` ends in a line break, so
under WSL it never recognises its text and only reports. A history that is switched off
is an empty one; times are left out.

Windows may refuse what a helper asks (`Granted`, `Denied`). A history that cannot be
read makes `Test-LeaseMatch` compare texts, and a text that cannot be read is the empty
one, which is nobody's (`TestLeaseMatch`; lines 103-182, 302-327). A clearing that throws
ends the script (266-277). Whether an item could be removed is thrown away with
`Out-Null`, and so is whether the file could be (329-343). The code has no answer to
these, and the properties say so:

* a helper of the last lease that cannot read the clipboard takes its own text for
  another's: the watcher drops the lease, removes its file, and the timer then finds
  none; the secret stays on the clipboard (`misread`);
* a helper whose clearing throws leaves text and file; if no second helper of the lease is
  there, the secret stays (the rest of `Refused`);
* a helper that could not remove the item removes the file all the same, and the secret
  stays in the clipboard history with nothing that names it (`left`).

`CopiedIsCleared` excepts the first two, `RecordOutlivesItem` the third, each only for
the helpers of the lease itself; TLC refutes both properties without their
exceptions. What they still claim is that one refusal does no other harm: a failed removal
keeps nobody from clearing, and the other helper clears where the first one threw.

A record without an item, or with the newest item because none with the text was
found (184-210), counts as one whose item cannot be removed; that the helper then
removes some other program's item is left out.

The properties have the condition `~Elder`: no helper of an earlier run of syncpss is
about. It is needed. Without it TLC finds: syncpss copies a secret as lease 1 and
quits; it is started again and copies the next secret, lease 1 again. The timer of the
first copy is due in between: its item is not the newest, so it leaves the clipboard
alone, and it reads the old record and removes the old item; when it comes to remove
the file, `lease-1.json` is the new copy's. The new copy's watcher and timer find no
file and end, and the secret stays, although the screen says "Clipboard will clear in
the background" (`tui_ui.cpp:190`).

### ProcessRunner

`Run` (the pipes), `Fork`, `CloseChildEnds`, `WriteAll`, `CloseStdin`, `Capture`,
`EndOfOutput`, `Wait` are the steps of `run`; the child reads, writes, exits or
fails on its own. A forked child inherits every pipe end that is open in any
thread (`Inherit`), since the pipes are made without `O_CLOEXEC`. Writing to a
pipe without reader ends the program (SIGPIPE is not handled). stdout and stderr
are one pipe, failures of `pipe` and `fork` are left out, and children read all
their input before they write much, as those syncpss runs do, or wait for a
terminal (`Kind`).

### KeyBackups

The state is the key ring, the directory of key rings set aside (`gnupg-backups`),
the volume files (the container in the store, local archives, the staging volume),
which of them are mounted, and the running operation (`op`, `pc`, `vol`, `here`).
Its first action (`BackupKeys`, `ExportKeys`, `RestoreKeys`, `ImportKeys`,
`InstallerReplaces`) is the dialogue, then follows one action per command, shared
where the code of the operations is the same: `CreateVolume`, `Mount`,
`ExportSecretKeys`, `ExportRaw`, `WriteManifest`, `Dismount`, `OverwriteRemote`,
`RemoteWritten`, `RemoveStaging`, `SaveConfig`, `Sync` or `SyncKeepingRemote` to fill a container;
`CheckContents`, `Merge`, `KeepKeyring` or `Rebase`, `MoveAside`, `Prune`,
`CopyBack`, `Verify` to read one back. Any command may fail (`Fail`, then the catch
handler as `Cleanup`) and the process may end before any (`Kill`, which leaves
volumes mounted). The installer copies the key ring aside (`InstallerCopies`) or
replaces it with the same steps as a rebase, under names of its own (`Mover`).
`SyncStore` is a sync from the menu that brings another machine's container or removes
the one that was there.

Two commands report nothing when they go wrong. `write_manifest_file` looks only at
whether the file opens (`backup_manifest.cpp:63-84`), so on a full volume the manifest
is cut off and the operation completes; restore and import find no type in it
(`read_manifest_type`, 132-147) and refuse the container. And the sync at the end of a
backup may conflict, and the user keep the remote version of the container
(`tui_sync.cpp:425-461`, `SyncKeepingRemote`); "GPG Backup Complete" comes all the same
(`tui_remote_keys.cpp:54-57`). `BackupIsWhole` says what is true of the message in spite
of this: every key is in the container in both forms, whether the manifest is whole or
not, and of a backup whose container gave way to another machine's (`op` is "theirs")
nothing.

A key ring is the set of secret keys in it. Public keys, owner trust, permissions,
passwords and sizes are left out, and so are the installer's merge mode and the
installer's own mounts. A copy may stop at any subset, since directories are copied
file by file. The names of key rings set aside are what made them and when; two of
the same second would be one name, for which `rename` fails.

### StoreRestore

The state is the two live directories, the staged copies, what has been renamed away,
and the archives. `ExportStore` is followed by `Copy` (the store, then the notes) and
`Zip`; `ImportStore` by `Copy` twice, then for the store and after it for the notes by
`SetAside`, `PutInPlace` or `NotPlaced` and `Rollback`, and `Discard`, and by `Finish`;
`Setup` by `RemoveStore` and `Clone`. `Fail` is an exception or the end of the
process before, or for the removal and the clone in the middle of, any of them; both leave the disk alike,
because the handlers of the operations only remove temporary directories.
`Change` is `pass` or a pull. The history variable `before` holds the directories as
they were when the operation began.

`zip` runs in the staging directory and is given the path as it was typed
(`tui_backup_container.cpp:262-273`, `util/process.cpp:194`). A path such as `./x.bak` is
made in the staging directory, which line 279 removes, and `../x.bak` in the directory of
temporary files; "Password-Store Backup Complete" names the path in both cases. This is
`ZipAstray`, an export (`op` is "astray") that writes no archive. A bare `x.bak` is
refused before anything, because its parent is the empty path and `create_directories`
throws, and a relative path through a directory that is not in the staging directory makes `zip`
fail (`Fail`). `zip` puts `.zip` behind a name without an extension: `ZipName` maps the
names to the files it makes. The manifest it takes along may be cut off, as in
`KeyBackups`: `refused` holds the archives whose type an import cannot read, which
it refuses before it changes anything. `ReportsAreTrue` claims of an export to a full path that the
file `zip` makes of that name holds everything in both directories, refused or not, and of an
export astray nothing.

A directory is a set of files, and their contents are left out; so are owners and permissions.
Archives are those that were made by an export. The names of directories renamed
away carry the time, so a second import does not meet those of the first; of several
left behind, the model keeps the last one of each directory.

### Configuration, ReleaseCheck, Session

`Configuration` keeps the two files (`file` is config.json, `ini` the older INI file),
the git remote of the store (`origin`), whether the store holds a keys container, the
records in memory (`config` with what the clients of the store use, `runtime` with what
the screens show) and the wizard's own record (`draft`). `pc` is the command the main
thread is at. Handlers begin in the menu (`Use`): `Setup`, `FillForm`, `ReplaceStore`,
`Clone`, then `Decline`, `BackupKeys` or `RestoreKeys` are the wizard; `Rename`,
`SelectKey` and `PersistKey`, `Privacy` are the other handlers that save; `SaveRuntime`
and `SaveIni` are the two files, in the order of the code. `Fail` is an exception at
any of these commands, `End` the end of the program. The history variables are
`chosen`, the telemetry modes asked for, and `unsettled`, what a handler that stopped
in between has changed.

`ReleaseCheck` has one instance of `refresh_latest_release_info` per thread
(`refresh[c]`): `BeginRefresh` under the mutex, `ReadLocal` and `Answer` without it,
`StoreAnswer` under it again. The update copies the answer (`Snapshot`), offers it,
runs the installer (`Download`, then `InstallNext` once per file of `InstallOrder`; the helper is that of
the latest release, and the one of this commit stops at once, which is a `Download` that fails),
reads the new configuration (`Reload`) and becomes the new program. `installed` is the
release each file is of.

`Session` joins them: `Launch`, the splash screen with its thread, the menu, an update
that rewrites both configuration files between two of its own, and `Leave`. A step
beside the main thread may come between any two of its steps.

Abstractions: a branch is part of its repository and a provider goes with it; each file
of a release is copied whole; a full disk, on which a truncated config.json would be
renamed into place, is left out; one session runs at a time; a terminal that is closed
ends the installer as well. Whether the container is there after a clone is
nondeterministic, for it depends on the repository.

## 3. The runs

| Run | Instance | Checks |
|---|---|---|
| `git_sync` | two machines; either one user forces, or on one machine files lie about uncommitted and operations stop anywhere | types, hash file matches, tags name their version, are published and follow history, local commits kept, only force rewrites, the review shows every conflict, refinement of `SharedHistory` |
| `sync_review` | two entries, two contents, three keys | conflicts decided, one-sided changes survive |
| `password_actions` | two entries, one a folder too, a second folder, two usernames of one token, three uses | types, notes read back, nothing lost, success is true; the builder of names and its parser fit |
| `clipboard_lease` | two leases, two secrets, another program | types, newest lease active, threads end |
| `windows_clipboard` | two copies of one secret, in one run of syncpss or two, another program, failing helpers, one refusal by Windows | types, a copy is cleared even after syncpss has quit, a file outlives the item it names |
| `key_backups` | two keys, one with a subkey, one archive, two backups kept of three, three operations, other uses or pulls | types, backups whole, restores deliver, key rings set aside kept, keys reachable |
| `store_restore` | two files, two archives and a name of one of them without its extension, five operations or changes | types, old or new directory kept, what is reported as restored or exported is whole |
| `session` | two repositories, two keys, two telemetry modes, three handlers, one newer release | types, starts again, success is kept, pushes where shown, telemetry as chosen, what is said of the version is true, half an update is seen |
| `process_runner` | two threads, pipes of one block, two blocks of input and output | types, output captured, input delivered, runs return |

*Bounds.* In `GitSync` commits and versions are bounded at values no behaviour of the
instances reaches: these runs check for deadlock, and a binding bound would show as one.
Two writes are what it takes for two machines to diverge and for one of them to diverge
again while the other reviews. Three keys in `SyncReview` are a choice, a second one on
the same file, and one elsewhere. Two usernames with one token, and the empty one with
another, are what a note needs to be shared or not. Three uses in `PasswordActions` are
a change from outside, an operation and a later one that meets what both left; within an
operation, failures and retries are unbounded. Two leases are needed for one to
supersede the other, two threads for a child to inherit another's pipes. Two copies and
two runs of syncpss in `WindowsClipboard` are one copy that supersedes another, or one
in each run with the same number; one helper of the first run is still there when the
second begins (`MaxElders`), which is what the counterexamples above take. Any number of
helpers may fail to start, and one request of a helper is refused (`MaxRefusals`): one
refusal is what each of the three failures above takes, and a second helper that never
started stands for one that is refused as well. Three operations in `KeyBackups` are a
backup that fails, an import of what it left and another one after it; three key rings
set aside are one more than are kept, so that the prune removes one, and a second key is
what tells a partial copy from a whole one; a pull counts as a use, and the container it
brings is unreadable or one that was backed up from any keys, with its manifest whole or
cut off (`Theirs`). Five uses in `StoreRestore` are two changes, an export, a setup or a
change that makes the archive and the store differ, and an import that meets what all of
them left; two archives tell the one that is imported from another, and a third name is
what `zip` makes one of them from. Three handlers in `Session` are one that stops half
way and two that meet what it left, in sessions of their own if need be, before or after
an update; a second repository and a second key are what a wrong one is told by. With
two releases and two handlers the run finds no error either, so an answer older than the
newest release adds nothing. `password_actions`, `key_backups` and `store_restore` do
not check for deadlock: with their uses spent, the user stops.

*Fairness.* `GitSync`, `SyncReview`, `PasswordActions`, `KeyBackups`, `StoreRestore` and
`Session` have safety properties only: the user may leave any screen open for ever, and
a sync may fail for ever, so the code justifies no liveness. In `ClipboardLease` the
steps of the user's thread and of every lease's thread are weakly fair (they never block
on one another) and every deadline passes; the tool that reads the terminal has no
fairness, for nothing makes the user end it. In `WindowsClipboard` some helper takes a
step as long as one can: they are processes of Windows, no step of theirs waits for
another's, and both the watcher and the timer end at a deadline. Nothing is assumed of
syncpss, which may end in the middle. In `ProcessRunner` the parent's steps and those of
children that do not wait for the terminal are weakly fair.

Disagreements between the program's own statements and its behaviour, each with a
counterexample; the first was reproduced on the built `GitClient`, the others
rest on the models:

* `conflicts_resolved_by_user`: after a review that ended with an exception the
  next sync stages and commits the conflicts.
* `rest_kept_as_is`: changing only the password of an entry removes the lines
  syncpss does not know.
* `newest_backups_kept`: key rings set aside are pruned in the order of their
  names, so that after enough backups of the installer a rebase removes the key
  ring it has just moved away.

Further behaviour the models show, without a run of its own.

* Sync: after an aborted review or a refused push every later sync fails with
  "nothing to commit" until entries or tags change. In `GitSync`: `CommitStaged` and
  `TrackVersion` commit the entry and the hash file, `Push` fails or the review is
  cancelled (`tui_sync.cpp` says "any local sync commit created during preparation was
  kept"), so HEAD has no tag; the next sync finds a clean status, is ahead of
  origin, and chooses the version it had chosen before; the hash file it writes is the
  one that is there, `git commit` has nothing to commit and `require_ok` throws
  (`TrackVersion` ends in `Leave`). `push_force` goes the same way. Two machines that choose one
  version leave the slower one with a tag that makes every later `fetch --tags`
  fail (both reproduced on the built `GitClient`); a review that finds the merge
  concluded reports a push that was not made; a second key on a file changes the
  label and not the content.
* Clipboard: the command that clears the clipboard waits for the terminal, and so
  does copying an empty username, which blocks the screen (reproduced on the built
  clipboard code); a clipboard tool that fails once is taken for an empty clipboard;
  a copy that fails leaves the text before it without a timer.
* Processes: a child that exits early ends syncpss by SIGPIPE.
* Entries: deleting a folder that is an entry as well removes the entry and leaves
  the folder; adding under an existing name overwrites; [Esc] at the note of the editor,
  which the screen calls cancel, removes the note, and at the new password gives an empty
  one, which is refused with the request for another name, whichever is entered; a
  notes.json that does not parse ends the program at every start, for the offer to migrate
  it counts the notes outside of any handler; a rename or a deletion that
  arrives by a pull leaves its note behind.
* Keys: the container in the store is overwritten in place, and what a failed copy
  leaves is published by the next sync; a cleanup whose dismount fails erases the
  archive just exported; an import marks the keys as backed up remotely although
  the store has no container; a container of a key with a subkey is refused by every
  restore, because the check compares every fingerprint gpg prints and gpg 2.2 prints
  those of subkeys as well; a backup is reported complete when the review has just put another
  machine's container in the place of its own, and when its manifest is cut off, with
  which no restore accepts it.
* Store archives: an export to a relative path such as `./x.bak` is reported complete and its archive
  removed with the staging directory, one to `../x.bak` ends up among the temporary files, one
  to a name without extension under that name with `.zip`, and one whose manifest is cut off is refused by
  every import; `zip` adds to an archive that is there, so a second export to one
  name is the union of two snapshots, with what was deleted in between; a failed
  import leaves its staged copies, and may leave a new store with old notes; the next
  sync after an import finds the restored repository behind origin and pulls what the
  import has undone.
* Configuration: the key manager never writes the INI file, though
  `main_installer.cpp:478` says of the installer "We keep both config formats in sync";
  a rename whose save fails leaves the git remote at the new repository and the saved
  name at the old one, and entering the new name again in that session returns at once;
  a key whose save fails is the one shown while entries are encrypted for the other; a
  second setup whose backup is declined keeps the mark that keys are backed up although
  the new store has no container.
* Update: at this commit it ends before it installs anything, because `installer.sh` is downloaded
  alone to a fresh directory (`tui_update.cpp:99-189`) and exits without `managed_paths.sh` beside it
  (`installer.sh:8-14`); the rest takes the helper of another release, or the installer run by
  hand. It turns telemetry off, for the installer does not know the mode; one that
  fails after the installer rewrote the configuration leaves the older record in memory,
  which the next save writes back; an update cut off after the manifest is not offered
  again and only the fingerprint check sees it. The answer of the splash screen's thread
  may replace that of a later check, and an answer that comes after an update whose
  restart failed offers the installed release again. The request has no time limit, so
  a check on request may block the screen for ever, and the thread, which is detached,
  may outlive the object it stores its answer in.

## 4. The proofs

All theorems hold for any values of the constants that satisfy the named
assumptions.

`TypeCorrect` proves `TypeOK` of `GitSync` from `TypeInv`, which adds the facts it is
not inductive without. `KeepSide` reads `tree[mergeHead]`, so a path may be unmerged
only while a merge is in progress (`MergeOK`); `CommitStaged` ends the merge, so
nothing may be unmerged when it runs (`StagedOK`); `PushTag` indexes the tags with
`ver`, so it must be known by then (`VerOK`).

`GraphCorrect` proves `GraphInv` on top of it. Each step is first shown to be a
`LocalMove` or a `PushMove`, one lemma per group of actions; what happens to
commits and references follows from these two shapes alone: `RefsOK`, `AncOK`,
`PublishedOK`. `TagOK`, `ModeOK` and `CleanOK` are proved by action. From the
invariant follow `TagsPublished`, `OnlyForceRewrites`, `LocalCommitsSurvive` and `ImplementsSharedHistory`.

`SumsCorrect` proves `SumInv`, the invariant of hash files. Not every commit has a hash
file that matches: `CommitStaged` commits entries before `TrackVersion` writes the line.
But such a commit is private to one clone and has no child but the one that repairs it
(`LeafOK`), so it is never published, never tagged and never a merge base (`BaseOK`,
`MergeBaseMatches`). `PlaceOK` says at which commands HEAD is one. Two trees whose hash
files match and agree have the same entries (`SumDetermines`). Hence when both sides
changed anything, the hash file at least is in conflict, and `pull` never merges two
changed stores by itself: what it merges without a conflict is one of the two sides
(`MergedIsASide`), whose hash file matches. From this follow `SumsPublished`,
`TagsNameVersions`, and `DivergenceIsReviewed`, which is no property of the run: a plain
sync of two stores that have both changed always ends in the review.

`ConflictsShown` needs that the base the preview computes is the base git merged over:
neither HEAD nor MERGE_HEAD moves while the review is open (`Between`), and
`merge-base` is a function of the two.

`VersionsOrdered` proves `VersionInv` with `VersionStep`. A version is made (`Made`)
when its tag is at origin or on a machine that may stop. A clone has in its own tags only
versions that were made, or are about to be, so all versions below the one it chooses
were (`NextIsNew`). It tags HEAD only after a push that was not forced, onto a branch that
has never lost a commit (`BranchKept`), so HEAD then has the commits of all of them below
it (`NextAboveMade`, `TagAbove`). The exception `TagLeftBehind` is part of `Below`: a tag
that stayed on a machine which stopped counts as made without anybody else knowing of it.

`SyncReview`: `ConflictsAlwaysDecided` needs that a conflict is unmerged or has a
choice, and that the commit leaves nothing unmerged. `OneSidedChangesAlwaysSurvive`
needs that until the review is left a path without conflict and without choice is as git
merged it (`Untouched`): a key changes the file it is pressed on and gives that file a
choice, and Enter rewrites only the hash file, which is no entry. Both proofs are in
`GitSyncProofs`, before the theorems that relate the two models of a review.

*Two models of a review.* `Reviewed(m)` says that the review on the screen is the one
machine m is in: the same trees, worktree, index and unmerged paths, and MERGE_HEAD is
origin as m knows it. (A review opened over a merge that was left from an earlier fetch is
outside of it; `GitSync` has that case, `SyncReview` starts with a fresh merge.)
`ReviewsBegin` proves that a merge begun for the review, or left open by a pull, is what
`SyncReview` starts from; `KeysAreShown`, that any key `GitSync` lets the user press is,
with its outcome on the screen, the key of `SyncReview`. `ReviewsAgree` is about a
behaviour of the system in which a review runs in both models side by side while the other
machines do whatever they do (`SideBySide`): the files and the outcome stay the same.
Another machine neither moves this one's HEAD or MERGE_HEAD nor changes a commit, so that
the merge base stays the same as well (`OthersApart`). Of that behaviour
`ReviewedCommitKeeps` follows: what `SyncReview` says of its worktree holds of the commit
`GitSync` is about to push, and the hash file of that commit matches.

`PasswordActionsProofs` proves all four properties of its run from one invariant.
`SavedOK` follows a save job through its commands: once inserted the entry is the
serialised form, once written the note is there, and what goes afterwards is another
entry, or the note of another username; if that has the same token, the note file then
is as `Left` says, empty (`LeftType`). Nothing is assumed of `TokenOf`, so the theorems
hold for a token that tells all usernames apart and for one that tells none. `RemovedOK`
says that what a deletion removed is still gone when it is recorded, `OrphansOK` that no
note file about to be removed belongs to an entry with a claim. `SaveThenRead` is the
fact behind them: reading what was saved gives the form. `MigratedOK` says of the
migration that the backup holds all of notes.json before the first entry is touched, and
that the entry whose note comes next has none of its own, neither inside nor in a file;
every other step leaves it alone (`OtherSteps`), so the other lemmas do without it. From
it follows `MigrationIsGentle`, too: a migration changes no password and no username and
overwrites no note, wherever it fails. `OperationsAreConfined` says what an operation
does not touch: entries, note files and records of names it is not about. It needs that
the notes still to remove are of entries it is about (`OrphansNamed`), which a folder's
deletion settles several commands before it removes them. No run checks these two; the
theorems are all there is of them.

`ClipboardLeaseProofs`: `NewestIsActive` needs that no thread runs for a lease
before its copy is on the clipboard (`ThreadsFollow`), so that a release compares
against an identifier that no newer copy is about to set.

`WindowsClipboardProofs` proves one invariant, `IInv`. `HelpersFollow` says that the
newest lease has no helper before its copy is over, and that a helper which cancels is
waited for, so that nobody writes the file of a lease that a helper of this run is working
on; `Recorded`, that what such a helper has
noted is what the file names or the file is gone, and that by the time it removes the file
the item has left the history; a helper that could not remove it is at another place
(`left`), of which nothing is claimed. `FileGoesLast` (`RecordOutlivesItem`) follows, because
`Elder` excludes the helpers of which this is not true. `WindowsTypeCorrect` needs
that every copy has a place (`RoomForOne`, by the pigeonhole theorem of the library) and
that the history has no repetitions (`FirstRemoved`).

`ProcessRunnerProofs`: a block the child has written is in the pipe or captured
(`FlowOK`); a running child keeps its end of the pipe (`ChildOK`), so that after the
end of file nothing is left in the pipe and nobody can write to it (`OutputOK`); the
parent keeps the write end while there is input left, and a child that has ended by
itself was given all of it (`InputOK`). `WholeOutputCaptured` and
`WholeInputDelivered` follow.

`KeyBackupsProofs`: `OpOK` says which operation is at which command and that a rebase
copies to where no key ring is, which is why only a prune can lose a key
(`KeysStayReachable`). `ExportOK` follows how much of the key ring the container holds
from command to command, and that its manifest is there at the end, whole or cut off; an
empty volume is what makes the copy whole. A manifest, whole or not, is written last
(`ManifestOK`), on another machine too (`TheirsStep`), so an archive that has one and
whose exported keys are the configured key alone has that key in its directory as well
(`ImportOK`), replaced or not. `RingsOK` dates the key rings set aside; whatever sorts
after the newest of the rebases is the installer's, which gives `LastSetAsideIsKept`.

`StoreRestoreProofs`: an import works on the store and then on the notes, so at every
command the invariant says of each directory whether it is before or behind the
exchange. Behind it the live directory is the archive's (`NewOK`), before it the
one of `before` (`OldOK`); in the exchange itself there is no live directory and what
was there is renamed away (`MovedOK`). `NothingHalfReplaced` needs all three, since a
failure may come at any command. `ReportsTrue` is `NewOK` at the last command of an
import and `ExportOK`, which follows the copies up to the archive, at that of an export
to a full path.

`SessionProofs`: the invariant has a half for the configuration, a half for the
releases and `UpdateOK` between them. `OriginOK` and `MemoryOK` say at which commands
the repository counts as unsettled and that both records name one repository, so that
whichever of them a later save writes, it is the one git pushes to; `FileOK` has a
config.json before the INI file is touched, which gives `ProgramStartsAgain`.
`CheckOK` says that what a check has read of the manifest is no newer than it is now,
so the older of two answers claims less than is installed (`LatestClaimIsTrue`).
`InstalledOK` keeps the program as new as the manifest: once both are of the new
release the fingerprint fails until all files are (`CutOffUpdateIsSeen`), whatever
mixture of releases earlier updates left.

Every safety invariant and every action property of the passing runs is a theorem. Only
model-checked are the liveness properties (`ThreadsEnd`, `RunsReturn`,
`CopiedIsCleared`), which are out of the prover's reach, and what `EntryNames` says of
its recursive functions, which takes an induction over texts.

## 5. The plan

1. `GitSync`, `SyncReview`, `PasswordActions`, `ClipboardLease`, `ProcessRunner`,
   `KeyBackups`, `StoreRestore` and their proofs (done).
2. `Configuration`, `ReleaseCheck`, `Session` and their proofs (done).
3. `WindowsClipboard`, the migration of old notes (done); the Windows installer.
4. `EntryNames`, the combo builder and its parser (done).
5. Proofs of `PublishedSumMatches`, `TagNamesItsVersion`, `VersionsFollowHistory`,
   `ConflictsAreShown`, `OneSidedChangesSurvive`, and of `WindowsClipboard` (done).
6. What a review publishes, across `SyncReview` and `GitSync`; what a migration and an
   operation leave alone (done).

## 6. Not modelled

Rendering, input and the parsing of files and of the output of other programs; the
Windows installer, the build and release scripts; the SSH and GPG set-up dialogues
beyond the key they select. They are I/O, or sequences of external commands whose state
lives elsewhere. `PROJECT.json` lists every component with its status.
