---------------------------- MODULE ReleaseCheck ----------------------------
(***************************************************************************)
(* The look for a newer release and the update to it (tui_main_menu.cpp,   *)
(* release.cpp, tui_update.cpp, installer/linux/main_installer.cpp).       *)
(*                                                                         *)
(* A detached thread asks GitHub while the splash screen is up, and the    *)
(* main thread asks again when the user wants an update.  Both run the     *)
(* same function: they take latest_release_mutex_ to begin and to store    *)
(* the answer, and hold nothing in between.  The update then replaces the  *)
(* installed files one by one; any of them may be the last.                *)
(***************************************************************************)
EXTENDS Naturals, Sequences, Functions

CONSTANT MaxRelease \* bound on the releases published

ASSUME ReleaseAssumption == MaxRelease \in Nat

Release == 0 .. MaxRelease
Caller == {"main", "thread"}

\* The slip of registering the release before its program is there.
ManifestFirst == <<"manifest", "binary", "config", "ini", "fingerprint",
                   "install", "installer.sh", "managed_paths.sh", "uninstall_syncpss.sh">>

\* The order main_installer.cpp and save_all_config work in.  "config" and
\* "ini" are the two configuration files, the others files of the release.
InstallOrder == <<"binary", "manifest", "config", "ini", "fingerprint",
                  "install", "installer.sh", "managed_paths.sh", "uninstall_syncpss.sh">>

Part == Range(InstallOrder) \ {"config", "ini"}

\* The files compute_local_install_fingerprint hashes.
Hashed == Part \ {"manifest", "fingerprint"}

VARIABLES
  published, \* the newest release on GitHub
  installed, \* the release each installed file is of
  check,     \* the latest_release_* fields
  refresh,   \* refresh_latest_release_info, as run by each thread
  at,        \* what the update the main thread runs is at
  shown,     \* the release it shows as the latest
  target,    \* the release the installer has resolved and verified
  step       \* the file it writes next, as an index of InstallOrder

releaseVars == <<published, installed, check, refresh, at, shown, target, step>>
updateVars == <<at, shown, target, step>>

NoCheck == [checked |-> FALSE, asking |-> FALSE, latest |-> 0, available |-> FALSE, error |-> FALSE]
NotAsking == [stage |-> "idle", local |-> 0, latest |-> 0, error |-> FALSE]

ReleaseInit ==
  /\ published = 0
  /\ installed = [p \in Part |-> 0]
  /\ check = NoCheck
  /\ refresh = [c \in Caller |-> NotAsking]
  /\ at = "idle" /\ shown = 0 /\ target = 0 /\ step = 1

Publish ==
  /\ published < MaxRelease
  /\ published' = published + 1
  /\ UNCHANGED <<installed, check, refresh, updateVars>>

-----------------------------------------------------------------------------
(* refresh_latest_release_info(true) and fetch_latest_release_version_info *)

CanStart == ~check.checked /\ ~check.asking

\* show_startup_splash starts the thread, unless an answer is there or awaited.
StartThread ==
  /\ CanStart
  /\ check' = [check EXCEPT !.asking = TRUE]
  /\ refresh' = [refresh EXCEPT !["thread"].stage = "begin"]
  /\ UNCHANGED <<published, installed, updateVars>>

BeginRefresh(c) ==
  /\ refresh[c].stage = "begin"
  /\ check' = [check EXCEPT !.asking = TRUE]
  /\ refresh' = [refresh EXCEPT ![c].stage = "local"]
  /\ UNCHANGED <<published, installed, updateVars>>

ReadLocal(c) ==
  /\ refresh[c].stage = "local"
  /\ refresh' = [refresh EXCEPT ![c].stage = "ask", ![c].local = installed["manifest"]]
  /\ UNCHANGED <<published, installed, check, updateVars>>

\* curl or gh answers, or fails.
Answer(c) ==
  /\ refresh[c].stage = "ask"
  /\ \E failed \in BOOLEAN :
       refresh' = [refresh EXCEPT ![c].stage = "answered", ![c].error = failed,
                                  ![c].latest = IF failed THEN 0 ELSE published]
  /\ UNCHANGED <<published, installed, check, updateVars>>

\* The slip of keeping the verdict of the check that answered first.
StoreFirstVerdict(c) ==
  LET info == refresh[c] IN
  /\ info.stage = "answered"
  /\ check' = [checked |-> TRUE, asking |-> FALSE, latest |-> info.latest, error |-> info.error,
               available |-> IF check.checked THEN check.available
                             ELSE ~info.error /\ info.local < info.latest]
  /\ refresh' = [refresh EXCEPT ![c] = NotAsking]
  /\ at' = IF c = "main" THEN "snapshot" ELSE at
  /\ UNCHANGED <<published, installed, shown, target, step>>

StoreAnswer(c) ==
  LET info == refresh[c] IN
  /\ info.stage = "answered"
  /\ check' = [checked |-> TRUE, asking |-> FALSE, latest |-> info.latest, error |-> info.error,
               available |-> ~info.error /\ info.local < info.latest]
  /\ refresh' = [refresh EXCEPT ![c] = NotAsking]
  /\ at' = IF c = "main" THEN "snapshot" ELSE at
  /\ UNCHANGED <<published, installed, shown, target, step>>

Refresh(c) == BeginRefresh(c) \/ ReadLocal(c) \/ Answer(c) \/ StoreAnswer(c)

-----------------------------------------------------------------------------
(* update_to_latest_version                                                *)

BeginUpdate ==
  /\ at = "idle" /\ at' = "refresh"
  /\ refresh' = [refresh EXCEPT !["main"].stage = "begin"]
  /\ UNCHANGED <<published, installed, check, shown, target, step>>

UpdateOver(outcome) ==
  /\ at' = outcome /\ target' = 0 /\ step' = 1
  /\ UNCHANGED <<published, installed, refresh>>

\* The four fields are copied under the mutex, and decide what is shown: that
\* the check failed, that this is the latest release, or the offer to update.
Snapshot ==
  /\ at = "snapshot"
  /\ at' = IF ~check.checked \/ check.error THEN "idle"
           ELSE IF check.available THEN "offer" ELSE "latest"
  /\ shown' = IF at' = "idle" THEN 0 ELSE check.latest
  /\ UNCHANGED <<published, installed, check, refresh, target, step>>

\* The message is read, the offer is turned down, what the update needs is
\* missing, or a download, a checksum, a copy or the restart fails.
GiveUp ==
  /\ at \in {"latest", "offer", "download", "install", "reload", "exec"}
  /\ UpdateOver("idle")
  /\ shown' = 0
  /\ UNCHANGED check

Accept ==
  /\ at = "offer" /\ at' = "download"
  /\ UNCHANGED <<published, installed, check, refresh, shown, target, step>>

\* The installer resolves the newest tag once; every file it fetches is of that
\* release, and the checksums and the fingerprint of all of them are verified
\* before the first is installed.
ResolvedRelease == published

\* The newest installer.sh is fetched, checked and run as the helper.
Download ==
  /\ at = "download" /\ at' = "install"
  /\ target' = ResolvedRelease /\ step' = 1
  /\ UNCHANGED <<published, installed, check, refresh, shown>>

InstallNext ==
  /\ at = "install"
  /\ LET part == InstallOrder[step] IN
       installed' = [p \in Part |-> IF p = part THEN target ELSE installed[p]]
  /\ IF step = Len(InstallOrder)
     THEN at' = "reload" /\ step' = 1
     ELSE at' = at /\ step' = step + 1
  /\ UNCHANGED <<published, check, refresh, shown, target>>

\* The release shown is taken for the one installed.
Reload ==
  /\ at = "reload" /\ at' = "exec"
  /\ check' = [checked |-> TRUE, asking |-> FALSE, latest |-> shown, available |-> FALSE, error |-> FALSE]
  /\ UNCHANGED <<published, installed, refresh, shown, target, step>>

\* The process ends, or becomes the installed program; its threads go with it.
EndProcess ==
  /\ check' = NoCheck
  /\ refresh' = [c \in Caller |-> NotAsking]
  /\ at' = "idle" /\ shown' = 0 /\ target' = 0 /\ step' = 1
  /\ UNCHANGED <<published, installed>>

\* verify_local_fingerprint says OK.
Verified == \A p \in Hashed : installed[p] = installed["fingerprint"]
=============================================================================
