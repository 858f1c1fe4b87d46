--------------------------- MODULE SessionProofs ---------------------------
(***************************************************************************)
(* The properties of Session, for any repositories, keys and modes and any *)
(* number of handlers and releases.                                        *)
(***************************************************************************)
EXTENDS Session, TLAPS

USE ConfigurationAssumption, ReleaseAssumption

(* The configuration.                                                      *)

ConfigTypeOK ==
  /\ file \in RuntimeConfig \union {None} /\ ini \in AppConfig \union {None, Torn}
  /\ origin \in Repo \union {None} /\ container \in BOOLEAN
  /\ config \in AppConfig \union {None}
  /\ runtime \in RuntimeConfig \union {None} /\ draft \in RuntimeConfig \union {None}
  /\ chosen \subseteq Mode /\ unsettled \subseteq {"repo", "key"} /\ uses \in 0 .. MaxUses
  /\ config = None <=> runtime = None \/ runtime.repo = None

\* What each command of a handler finds in memory and on disk.
CommandOK ==
  /\ pc \in {"stopped", "splash", "form", "menu", "replace", "clone", "offer", "save", "saveKeys",
             "keysSaved", "ini", "done", "persist", "homer", "updating"}
  /\ pc \in {"stopped", "splash", "menu", "homer", "updating", "form", "persist"} => draft = None
  /\ pc \in {"replace", "clone", "offer"} => draft # None
  /\ pc \in {"offer", "save", "saveKeys", "keysSaved", "ini"} => config # None
  /\ pc = "persist" => runtime # None
  /\ pc = "ini" => file = runtime
  /\ draft # None => draft.repo # None

\* A config.json that was saved names a repository, and one is there before the
\* INI file is touched.
FileOK ==
  /\ file # None => file.repo # None
  /\ ini = Torn => file # None

\* Both records in memory name one repository, and one key unless a save of it
\* failed; a wizard that has cloned has made both from its own.
MemoryOK ==
  config # None =>
    /\ config.repo = runtime.repo
    /\ "key" \notin unsettled => config.key = runtime.key
    /\ draft # None /\ pc \in {"offer", "save", "saveKeys", "keysSaved", "ini"} =>
         config.key = runtime.key

\* Between the removal of the store or the change of its remote and the last
\* save the repository counts as unsettled; from the clone on, git has the new one.
OriginOK ==
  /\ draft # None /\ pc \in {"clone", "offer", "save", "saveKeys", "keysSaved", "ini"} => "repo" \in unsettled
  /\ pc \in {"save", "ini"} => "repo" \in unsettled
  /\ draft # None /\ pc \in {"offer", "saveKeys", "keysSaved"} => origin = runtime.repo
  /\ pc \in {"save", "ini"} => origin = runtime.repo

\* No record holds a mode that was not chosen.
ModeOK == \A r \in {runtime, draft} : r # None => r.telemetry \in chosen \union {Off}

ConfigOK ==
  /\ ConfigTypeOK /\ CommandOK /\ FileOK /\ MemoryOK /\ OriginOK /\ ModeOK
  /\ SuccessIsKept /\ PushesWhereShown /\ TelemetryAsChosen

(* The releases.                                                           *)

ReleaseTypeOK ==
  /\ published \in Release /\ installed \in [Part -> Release]
  /\ check \in [checked : BOOLEAN, asking : BOOLEAN, latest : Release, available : BOOLEAN, error : BOOLEAN]
  /\ refresh \in [Caller -> [stage : {"idle", "begin", "local", "ask", "answered"}, local : Release,
                             latest : Release, error : BOOLEAN]]
  /\ at \in {"idle", "refresh", "snapshot", "offer", "latest", "download", "install", "reload", "exec"}
  /\ shown \in Release /\ target \in Release /\ step \in 1 .. 9
  /\ refresh["main"].stage # "idle" <=> at = "refresh"

\* What a check has read of the installed manifest is no newer than it is now,
\* and no answer is newer than what was published.
CheckOK ==
  /\ \A c \in Caller :
       /\ refresh[c].stage \in {"ask", "answered"} => refresh[c].local <= installed["manifest"]
       /\ refresh[c].latest <= published
  /\ check.latest <= published /\ shown <= published
  /\ check.checked /\ ~check.error /\ ~check.available => check.latest <= installed["manifest"]

\* The installer writes the program, then the manifest, then the rest.
InstalledOK ==
  /\ \A p \in Part : installed[p] <= published
  /\ installed["manifest"] <= installed["binary"]
  /\ target <= published
  /\ at = "install" => shown <= target /\ \A p \in Part : installed[p] <= target
  /\ at = "install" /\ step > 1 => installed["binary"] = target
  /\ at = "install" /\ step > 2 => installed["manifest"] = target
  /\ at = "reload" => shown <= installed["manifest"]

ReleaseOK == ReleaseTypeOK /\ CheckOK /\ InstalledOK /\ LatestClaimHolds /\ HalfInstalledIsSeen

(* Between them: an update runs in its place, and the new config.json is   *)
(* there from the file after it on.                                        *)

UpdateOK ==
  /\ at = "idle" <=> pc # "updating"
  /\ at = "install" /\ step > 3 => file # None
  /\ at = "reload" => file # None
  /\ at \in {"download", "install"} => config # None

IInv == ConfigOK /\ ReleaseOK /\ UpdateOK

-----------------------------------------------------------------------------
\* What the records made of one another hold.
LEMMA Records ==
  /\ \A c \in AppConfig : c.repo \in Repo /\ c.key \in Key
  /\ \A c : c.repo \in Repo \union {None} /\ c.key \in Key => Seeded(c) \in RuntimeConfig
  /\ \A c : Seeded(c).repo = c.repo /\ Seeded(c).key = c.key /\ Seeded(c).telemetry = Off
  /\ \A r \in RuntimeConfig : r.repo # None => AppOf(r) \in AppConfig
  /\ \A r : AppOf(r).repo = r.repo /\ AppOf(r).key = r.key
  /\ \A r \in RuntimeConfig, b \in BOOLEAN :
       LET s == [r EXCEPT !.remoteKeys = b] IN
         s \in RuntimeConfig /\ s.repo = r.repo /\ s.key = r.key /\ s.telemetry = r.telemetry
  BY DEF AppConfig, RuntimeConfig, Seeded, AppOf

\* The files of a release in the order they are installed.
LEMMA Parts ==
  /\ Len(InstallOrder) = 9
  /\ Part = {"binary", "manifest", "fingerprint", "install", "installer.sh", "managed_paths.sh",
             "uninstall_syncpss.sh"}
  /\ InstallOrder[1] = "binary" /\ InstallOrder[2] = "manifest" /\ InstallOrder[3] = "config"
  /\ InstallOrder[4] = "ini" /\ InstallOrder[5] = "fingerprint"
  /\ \A i \in 3 .. 9 : InstallOrder[i] # "binary" /\ InstallOrder[i] # "manifest"
  /\ \A i \in 5 .. 9 : InstallOrder[i] # "config" /\ InstallOrder[i] # "ini"
<1>1. Len(InstallOrder) = 9 BY DEF InstallOrder
<1>2. /\ InstallOrder[1] = "binary" /\ InstallOrder[2] = "manifest" /\ InstallOrder[3] = "config"
      /\ InstallOrder[4] = "ini" /\ InstallOrder[5] = "fingerprint" /\ InstallOrder[6] = "install"
      /\ InstallOrder[7] = "installer.sh" /\ InstallOrder[8] = "managed_paths.sh"
      /\ InstallOrder[9] = "uninstall_syncpss.sh"
  BY DEF InstallOrder
<1>3. \A i \in 1 .. 9 : i = 1 \/ i = 2 \/ i = 3 \/ i = 4 \/ i = 5 \/ i = 6 \/ i = 7 \/ i = 8 \/ i = 9
  OBVIOUS
<1>4. DOMAIN InstallOrder = 1 .. 9 BY DEF InstallOrder
<1>5. Range(InstallOrder) = {"binary", "manifest", "config", "ini", "fingerprint", "install",
                             "installer.sh", "managed_paths.sh", "uninstall_syncpss.sh"}
  BY <1>2, <1>3, <1>4 DEF Range
<1>6. Part = {"binary", "manifest", "fingerprint", "install", "installer.sh", "managed_paths.sh",
              "uninstall_syncpss.sh"}
  BY <1>5 DEF Part
<1> QED BY <1>1, <1>2, <1>3, <1>6

LEMMA InitIInv == Init => IInv
<1> SUFFICES ASSUME Init PROVE IInv OBVIOUS
<1>1. ConfigOK
  <2> USE DEF Init, ConfigInit, ConfigOK, ConfigTypeOK, CommandOK, FileOK, MemoryOK, OriginOK, ModeOK,
              SuccessIsKept, PushesWhereShown, TelemetryAsChosen, Loaded
  <2>0. uses \in 0 .. MaxUses /\ chosen \subseteq Mode /\ unsettled = {} /\ {config, runtime, draft} = {None}
    OBVIOUS
  <2>1. CASE file = None /\ ini = None /\ origin = None /\ container = FALSE
    <3>1. ConfigTypeOK BY <2>0, <2>1
    <3> QED BY <2>0, <2>1, <3>1
  <2>2. CASE ini \in AppConfig /\ origin = ini.repo /\ container \in BOOLEAN /\ file = None
    BY <2>2, Records
  <2>3. CASE /\ ini \in AppConfig /\ origin = ini.repo /\ container \in BOOLEAN
             /\ file = [Seeded(ini) EXCEPT !.remoteKeys = container]
    <3>1. ini.repo \in Repo /\ ini.key \in Key /\ Seeded(ini) \in RuntimeConfig
      BY <2>3, Records
    <3>2. file \in RuntimeConfig /\ file.repo = ini.repo /\ file.telemetry = Off
      BY <2>3, <3>1, Records
    <3>3. AppOf(file) \in AppConfig /\ AppOf(file).repo = ini.repo
      BY <3>1, <3>2, Records
    <3> QED BY <2>3, <3>1, <3>2, <3>3
  <2> QED BY <2>1, <2>2, <2>3
<1>2. ReleaseOK
  BY Parts DEF Init, ReleaseInit, ReleaseOK, ReleaseTypeOK, CheckOK, InstalledOK, LatestClaimHolds,
     HalfInstalledIsSeen, NoCheck, NotAsking, Release, Caller
<1>3. UpdateOK
  BY DEF Init, ConfigInit, ReleaseInit, UpdateOK
<1> QED BY <1>1, <1>2, <1>3 DEF IInv
-----------------------------------------------------------------------------
\* Every command of a handler, the start and the end of the program.
LEMMA HandlerStep == ASSUME ConfigOK, Start \/ EndSplash \/ Handlers \/ End PROVE ConfigOK'
<1> USE DEF ConfigOK, ConfigTypeOK, CommandOK, FileOK, MemoryOK, OriginOK, ModeOK,
        SuccessIsKept, PushesWhereShown, TelemetryAsChosen, disk, memory, Loaded, Use
<1>1. CASE Start BY <1>1, Records DEF Start
<1>2. CASE EndSplash BY <1>2, Records DEF EndSplash
<1>3. CASE Setup BY <1>3, Records DEF Setup
<1>4. CASE FillForm
  <2>1. /\ draft' \in RuntimeConfig /\ draft'.repo \in Repo
        /\ draft'.telemetry = IF runtime = None THEN Off ELSE runtime.telemetry
    <3>1. PICK r \in Repo, k \in Key :
            draft' = IF runtime = None THEN Seeded([repo |-> r, key |-> k])
                     ELSE [runtime EXCEPT !.repo = r, !.key = k]
      BY <1>4 DEF FillForm
    <3>2. CASE runtime = None BY <3>1, <3>2, Records
    <3>3. CASE runtime # None BY <3>1, <3>3 DEF RuntimeConfig
    <3> QED BY <3>2, <3>3
  <2>2. pc = "form" /\ pc' = "replace" /\ UNCHANGED <<disk, config, runtime, chosen, unsettled, uses>>
    BY <1>4 DEF FillForm
  <2> QED BY <2>1, <2>2
<1>5. CASE ReplaceStore BY <1>5, Records DEF ReplaceStore
<1>6. CASE Clone BY <1>6, Records DEF Clone
<1>7. CASE Decline
  <2>1. /\ runtime' \in RuntimeConfig /\ runtime'.repo = runtime.repo /\ runtime'.key = runtime.key
        /\ runtime'.telemetry = runtime.telemetry
    BY <1>7 DEF Decline, RuntimeConfig
  <2>2. pc = "offer" /\ pc' = "save" /\ UNCHANGED <<disk, config, draft, chosen, unsettled, uses>>
    BY <1>7 DEF Decline
  <2> QED BY <2>1, <2>2
<1>8. CASE BackupKeys \/ RestoreKeys
  <2>1. /\ config # None /\ uses' \in 0 .. MaxUses /\ container' \in BOOLEAN
        /\ pc \in {"offer", "menu"} /\ pc' = "saveKeys"
        /\ UNCHANGED <<file, ini, origin, config, draft, chosen, unsettled>>
    <3>1. CASE BackupKeys
      <4>1. config # None /\ UNCHANGED <<file, ini, origin, config, draft, chosen, unsettled>>
        BY <3>1 DEF BackupKeys, HandleKeys
      <4>2. container' = TRUE /\ ((Offered /\ ~container) \/ Use("saveKeys"))
        BY <3>1 DEF BackupKeys, HandleKeys
      <4> QED BY <4>1, <4>2 DEF Offered
    <3>2. CASE RestoreKeys
      <4>1. config # None /\ UNCHANGED <<file, ini, origin, config, draft, chosen, unsettled>>
        BY <3>2 DEF RestoreKeys, HandleKeys
      <4>2. container' = container /\ ((Offered /\ container) \/ Use("saveKeys"))
        BY <3>2 DEF RestoreKeys, HandleKeys
      <4> QED BY <4>1, <4>2 DEF Offered
    <3> QED BY <1>8, <3>1, <3>2
  <2>2. /\ runtime' \in RuntimeConfig /\ runtime'.repo = runtime.repo /\ runtime'.key = runtime.key
        /\ runtime'.telemetry = runtime.telemetry
    BY <1>8, <2>1 DEF BackupKeys, RestoreKeys, HandleKeys, RuntimeConfig
  <2> QED BY <2>1, <2>2
<1>9. CASE SaveKeys BY <1>9, Records DEF SaveKeys
<1>10. CASE KeysDone BY <1>10, Records DEF KeysDone
<1>11. CASE Rename
  <2>1. /\ config # None /\ runtime # None /\ origin # None
        /\ pc = "menu" /\ pc' = "save" /\ uses' \in 0 .. MaxUses
        /\ unsettled' = unsettled \union {"repo"} /\ UNCHANGED <<file, ini, container, draft, chosen>>
    BY <1>11 DEF Rename
  <2>2. /\ runtime' \in RuntimeConfig /\ runtime'.repo \in Repo /\ runtime'.key = runtime.key
        /\ runtime'.telemetry = runtime.telemetry
        /\ config' \in AppConfig /\ config'.repo = runtime'.repo /\ config'.key = config.key
        /\ origin' = runtime'.repo
    BY <1>11, <2>1 DEF Rename, RuntimeConfig, AppConfig
  <2> QED BY <2>1, <2>2
<1>12. CASE SaveRuntime BY <1>12, Records DEF SaveRuntime
<1>13. CASE SaveIni BY <1>13, Records DEF SaveIni
<1>14. CASE Dismiss BY <1>14, Records DEF Dismiss
<1>15. CASE SelectKey
  <2>1. /\ pc = "menu" /\ pc' = "persist" /\ uses' \in 0 .. MaxUses
        /\ unsettled' = unsettled \union {"key"} /\ UNCHANGED <<disk, config, draft, chosen>>
    BY <1>15 DEF SelectKey
  <2>2. /\ runtime' \in RuntimeConfig
        /\ runtime = None => runtime'.repo = None /\ runtime'.telemetry = Off
        /\ runtime # None => runtime'.repo = runtime.repo /\ runtime'.telemetry = runtime.telemetry
    <3>1. PICK k \in Key : runtime' = IF runtime = None THEN Seeded([repo |-> None, key |-> k])
                                     ELSE [runtime EXCEPT !.key = k]
      BY <1>15 DEF SelectKey
    <3>2. CASE runtime = None BY <3>1, <3>2, Records
    <3>3. CASE runtime # None BY <3>1, <3>3 DEF RuntimeConfig
    <3> QED BY <3>2, <3>3
  <2> QED BY <2>1, <2>2
<1>16. CASE PersistKey
  <2>1. /\ pc = "persist" /\ pc' = "done" /\ runtime.repo # None /\ file' = runtime
        /\ unsettled' = unsettled \ {"key"}
        /\ UNCHANGED <<ini, origin, container, runtime, draft, chosen, uses>>
    BY <1>16 DEF PersistKey
  <2>2. config' = [config EXCEPT !.key = runtime.key]
    BY <1>16 DEF PersistKey
  <2>3. runtime # None /\ config # None
    BY <2>1
  <2>4. config' \in AppConfig /\ config'.repo = config.repo /\ config'.key = runtime.key
    BY <2>2, <2>3 DEF RuntimeConfig, AppConfig
  <2> QED BY <2>1, <2>3, <2>4, Records
<1>17. CASE Privacy
  <2>1. PICK m \in Mode : runtime' = [runtime EXCEPT !.telemetry = m] /\ chosen' = {m}
    BY <1>17 DEF Privacy
  <2>2. /\ runtime # None /\ runtime.repo # None /\ file' = runtime'
        /\ pc = "menu" /\ pc' = "done" /\ uses' \in 0 .. MaxUses
        /\ UNCHANGED <<ini, origin, container, config, draft, unsettled>>
    BY <1>17 DEF Privacy
  <2>3. /\ runtime' \in RuntimeConfig /\ runtime'.repo = runtime.repo /\ runtime'.key = runtime.key
        /\ runtime'.telemetry = m
    BY <2>1, <2>2 DEF RuntimeConfig
  <2>4. config # None /\ AppOf(file') \in AppConfig /\ AppOf(file').repo = runtime.repo
    BY <2>2, <2>3, Records
  <2>5. m \in chosen' \union {Off} /\ chosen' \subseteq Mode
    BY <2>1
  <2> QED BY <2>2, <2>3, <2>4, <2>5
<1>18. CASE PrivacyFails
  <2>1. PICK m \in Mode :
          /\ file' \in {file} \union IF runtime.repo = None THEN {} ELSE {[runtime EXCEPT !.telemetry = m]}
          /\ chosen' = chosen \union {m}
    BY <1>18 DEF PrivacyFails
  <2>2. /\ runtime # None /\ pc = "menu" /\ pc' = "menu" /\ uses' \in 0 .. MaxUses
        /\ UNCHANGED <<ini, origin, container, memory, unsettled>>
    BY <1>18 DEF PrivacyFails
  <2>3. CASE file' = file
    BY <2>1, <2>2, <2>3
  <2>4. CASE runtime.repo # None /\ file' = [runtime EXCEPT !.telemetry = m]
    <3>1. /\ file' \in RuntimeConfig /\ file'.repo = runtime.repo /\ file'.telemetry = m
      BY <2>2, <2>4 DEF RuntimeConfig
    <3>2. config # None /\ AppOf(file') \in AppConfig /\ AppOf(file').repo = runtime.repo
      BY <2>2, <2>4, <3>1, Records
    <3>3. m \in chosen' \union {Off} /\ chosen' \subseteq Mode /\ chosen \subseteq chosen'
      BY <2>1
    <3> QED BY <2>2, <2>4, <3>1, <3>2, <3>3
  <2> QED BY <2>1, <2>3, <2>4
<1>19. CASE Fail
  <2>1. /\ pc \in {"form", "replace", "clone", "offer", "save", "saveKeys", "keysSaved", "persist"}
        /\ pc' = "menu" /\ draft' = None
        /\ UNCHANGED <<ini, origin, container, config, runtime, chosen, unsettled, uses>>
    BY <1>19 DEF Fail
  <2>2. CASE file' = file
    BY <2>1, <2>2
  <2>3. CASE pc \in {"save", "saveKeys", "persist"} /\ runtime.repo # None /\ file' = runtime
    <3>1. config # None /\ runtime # None /\ AppOf(file') \in AppConfig /\ AppOf(file').repo = runtime.repo
      BY <2>1, <2>3, Records
    <3> QED BY <2>1, <2>3, <3>1
  <2> QED BY <1>19, <2>2, <2>3 DEF Fail, Saving
<1>20. CASE End BY <1>20, Records DEF End
<1> QED
  BY <1>1, <1>2, <1>3, <1>4, <1>5, <1>6, <1>7, <1>8, <1>9, <1>10, <1>11, <1>12, <1>13, <1>14, <1>15,
     <1>16, <1>17, <1>18, <1>19, <1>20
  DEF Handlers

-----------------------------------------------------------------------------
\* Either check, at any of its steps; the main thread is in an update meanwhile.
LEMMA RefreshStep ==
  ASSUME ReleaseOK, NEW c \in Caller, Refresh(c)
  PROVE  ReleaseOK' /\ (c = "main" => at = "refresh" /\ at' \in {"refresh", "snapshot"})
                    /\ (c = "thread" => at' = at)
<1> USE DEF ReleaseOK, ReleaseTypeOK, CheckOK, InstalledOK, LatestClaimHolds, HalfInstalledIsSeen,
            updateVars, Release, Verified, Hashed, NotAsking
<1>0. Caller = {"main", "thread"} BY DEF Caller
<1>1. CASE BeginRefresh(c)
  <2>1. /\ check' \in [checked : BOOLEAN, asking : BOOLEAN, latest : Release, available : BOOLEAN, error : BOOLEAN]
        /\ check'.checked = check.checked /\ check'.latest = check.latest
        /\ check'.available = check.available /\ check'.error = check.error
    BY <1>1 DEF BeginRefresh
  <2>2. /\ refresh' \in [Caller -> [stage : {"idle", "begin", "local", "ask", "answered"}, local : Release,
                                    latest : Release, error : BOOLEAN]]
        /\ refresh[c].stage = "begin" /\ refresh'[c].stage = "local" /\ refresh'[c].latest = refresh[c].latest
        /\ \A d \in Caller \ {c} : refresh'[d] = refresh[d]
        /\ UNCHANGED <<published, installed, updateVars>>
    BY <1>1 DEF BeginRefresh
  <2> QED BY <1>0, <2>1, <2>2, Parts
<1>2. CASE ReadLocal(c) BY <1>0, <1>2, Parts DEF ReadLocal
<1>3. CASE Answer(c) BY <1>0, <1>3, Parts DEF Answer
<1>4. CASE StoreAnswer(c)
  <2>1. /\ check' \in [checked : BOOLEAN, asking : BOOLEAN, latest : Release, available : BOOLEAN, error : BOOLEAN]
        /\ check'.checked /\ check'.latest = refresh[c].latest /\ check'.error = refresh[c].error
        /\ check'.available <=> ~refresh[c].error /\ refresh[c].local < refresh[c].latest
    BY <1>4 DEF StoreAnswer
  <2>2. /\ refresh' = [refresh EXCEPT ![c] = NotAsking]
        /\ refresh[c].stage = "answered"
        /\ at' = IF c = "main" THEN "snapshot" ELSE at
        /\ UNCHANGED <<published, installed, shown, target, step>>
    BY <1>4 DEF StoreAnswer
  <2>3. /\ refresh[c].local <= installed["manifest"] /\ refresh[c].latest <= published
        /\ {refresh[c].local, refresh[c].latest, installed["manifest"]} \subseteq Nat
    BY <2>2, Parts
  <2>4. ReleaseTypeOK' BY <1>0, <2>1, <2>2
  <2>5. CheckOK' BY <1>0, <2>1, <2>2, <2>3
  <2>6. InstalledOK' BY <1>0, <2>2
  <2> QED BY <1>0, <2>2, <2>4, <2>5, <2>6, Parts
<1> QED BY <1>1, <1>2, <1>3, <1>4 DEF Refresh

\* Everything else that leaves the installed files alone.
LEMMA CheckStep ==
  ASSUME ReleaseOK, Publish \/ StartThread \/ BeginUpdate \/ Snapshot \/ GiveUp \/ Accept \/ Download
                    \/ Reload \/ EndProcess
  PROVE  ReleaseOK'
<1> USE DEF ReleaseOK, ReleaseTypeOK, CheckOK, InstalledOK, LatestClaimHolds, HalfInstalledIsSeen,
            updateVars, Release, Verified, Hashed, NotAsking, NoCheck
<1>0. Caller = {"main", "thread"} BY DEF Caller
<1>1. CASE Publish BY <1>0, <1>1, Parts DEF Publish
<1>2. CASE StartThread
  <2>1. /\ check' \in [checked : BOOLEAN, asking : BOOLEAN, latest : Release, available : BOOLEAN, error : BOOLEAN]
        /\ check'.checked = check.checked /\ check'.latest = check.latest
        /\ check'.available = check.available /\ check'.error = check.error
    BY <1>2 DEF StartThread
  <2>2. /\ refresh' \in [Caller -> [stage : {"idle", "begin", "local", "ask", "answered"}, local : Release,
                                    latest : Release, error : BOOLEAN]]
        /\ refresh'["thread"].stage = "begin" /\ refresh'["thread"].latest = refresh["thread"].latest
        /\ refresh'["main"] = refresh["main"]
        /\ UNCHANGED <<published, installed, updateVars>>
    BY <1>0, <1>2 DEF StartThread
  <2> QED BY <1>0, <2>1, <2>2, Parts
<1>3. CASE BeginUpdate BY <1>0, <1>3, Parts DEF BeginUpdate
<1>4. CASE Snapshot BY <1>0, <1>4, Parts DEF Snapshot
<1>5. CASE GiveUp BY <1>0, <1>5, Parts DEF GiveUp, UpdateOver
<1>6. CASE Accept BY <1>0, <1>6, Parts DEF Accept
<1>7. CASE Download BY <1>0, <1>7, Parts DEF Download, ResolvedRelease
<1>8. CASE Reload BY <1>0, <1>8, Parts DEF Reload
<1>9. CASE EndProcess BY <1>0, <1>9, Parts DEF EndProcess
<1> QED BY <1>1, <1>2, <1>3, <1>4, <1>5, <1>6, <1>7, <1>8, <1>9

\* The program comes first, so it is as new as the manifest at least; once both are
\* of the release being installed, the fingerprint check fails until all files are.
LEMMA InstallStep == ASSUME ReleaseOK, InstallNext PROVE ReleaseOK'
<1> USE DEF ReleaseOK, ReleaseTypeOK, CheckOK, InstalledOK, LatestClaimHolds, HalfInstalledIsSeen, Release
<1>1. ReleaseTypeOK' BY Parts DEF InstallNext
<1>2. /\ at = "install" /\ UNCHANGED <<published, check, refresh, shown, target>>
      /\ \A p \in Part : installed'[p] = IF p = InstallOrder[step] THEN target ELSE installed[p]
  BY DEF InstallNext
<1>3. InstalledOK' BY <1>1, <1>2, Parts DEF InstallNext
<1>4. CheckOK' BY <1>1, <1>2, Parts
<1>5. HalfInstalledIsSeen'
  <2>1. CASE step = 1 /\ installed["manifest"] < published
    BY <1>2, <2>1, Parts
  <2>2. CASE step = 1 /\ installed["manifest"] = published
    <3>0. /\ {installed["binary"], installed["manifest"], target, published} \subseteq Nat
          /\ installed["manifest"] <= installed["binary"] /\ installed["binary"] <= target /\ target <= published
      BY <1>2, Parts
    <3>1. installed["binary"] = target
      BY <2>2, <3>0
    <3>2. \A p \in Part : installed'[p] = installed[p]
      BY <1>2, <2>2, <3>1, Parts
    <3>3. Verified' => Verified
      BY <3>2, Parts DEF Verified, Hashed
    <3> QED BY <1>2, <3>2, <3>3, Parts
  <2>3. CASE step > 1
    <3>1. installed'["binary"] = target /\ installed'["manifest"] = target
      BY <1>2, <2>3, Parts
    <3>2. ASSUME Verified' PROVE \A p \in Part : installed'[p] = target
      BY <3>1, <3>2, Parts DEF Verified, Hashed
    <3> QED BY <3>2
  <2> QED BY <2>1, <2>2, <2>3, Parts
<1> QED BY <1>1, <1>2, <1>3, <1>4, <1>5, Parts DEF InstallNext
\* A step to another screen keeps what the records say.
LEMMA MenuStep ==
  ASSUME ConfigOK, pc \in {"splash", "homer", "menu", "updating"}, pc' \in {"homer", "menu", "updating"},
         uses' \in 0 .. MaxUses, UNCHANGED <<disk, memory, chosen, unsettled>>
  PROVE  ConfigOK'
BY DEF disk, memory, ConfigOK, ConfigTypeOK, CommandOK, FileOK, MemoryOK, OriginOK, ModeOK, SuccessIsKept,
   PushesWhereShown, TelemetryAsChosen, Loaded

\* What the installer writes is what the program had, with telemetry off.
LEMMA ReinstallStep ==
  ASSUME ConfigOK, config # None, pc = "updating", pc' \in {"updating", "menu"},
         UNCHANGED <<origin, container, draft, chosen, unsettled, uses, config, runtime>>,
         \/ file' = Reinstalled /\ ini' = ini
         \/ file # None /\ file' = file /\ ini' \in {ini, AppOf(file), Torn}
  PROVE  ConfigOK' /\ file' # None
<1> USE DEF ConfigOK, ConfigTypeOK, CommandOK, FileOK, MemoryOK, OriginOK, ModeOK, SuccessIsKept,
            PushesWhereShown, TelemetryAsChosen, Loaded
<1>1. CASE file' = Reinstalled /\ ini' = ini
  <2>1. runtime \in RuntimeConfig /\ runtime.repo \in Repo /\ runtime.key \in Key
    BY DEF RuntimeConfig
  <2>2. file' \in RuntimeConfig /\ file'.repo = runtime.repo /\ file'.telemetry = Off
    BY <1>1, <2>1, Records DEF Reinstalled
  <2>3. AppOf(file') \in AppConfig /\ AppOf(file').repo = runtime.repo
    BY <2>1, <2>2, Records
  <2> QED BY <1>1, <2>1, <2>2, <2>3
<1>2. CASE file # None /\ file' = file /\ ini' \in {ini, AppOf(file), Torn}
  BY <1>2, Records
<1> QED BY <1>1, <1>2

LEMMA StepIInv == IInv /\ [Next]_vars => IInv'
<1> SUFFICES ASSUME IInv, [Next]_vars PROVE IInv'
  OBVIOUS
<1> USE DEF IInv
<1>1. ASSUME UNCHANGED releaseVars PROVE ReleaseOK'
  BY <1>1 DEF releaseVars, ReleaseOK, ReleaseTypeOK, CheckOK, InstalledOK, LatestClaimHolds,
     HalfInstalledIsSeen, Verified
<1>2. ASSUME UNCHANGED configVars PROVE ConfigOK'
  BY <1>2 DEF configVars, disk, memory, ConfigOK, ConfigTypeOK, CommandOK, FileOK, MemoryOK, OriginOK,
     ModeOK, SuccessIsKept, PushesWhereShown, TelemetryAsChosen, Loaded
<1>3. CASE UNCHANGED vars
  <2>1. UNCHANGED configVars /\ UNCHANGED releaseVars BY <1>3 DEF vars
  <2>2. ConfigOK' /\ ReleaseOK' BY <1>1, <1>2, <2>1
  <2>3. UpdateOK' BY <2>1 DEF configVars, releaseVars, updateVars, disk, memory, UpdateOK
  <2> QED BY <2>2, <2>3
<1>4. CASE Launch \/ Handle \/ SplashEnds
  <2>1. ConfigOK' /\ ReleaseOK' /\ UNCHANGED <<at, step>>
    BY <1>1, <1>4, HandlerStep DEF Launch, Handle, SplashEnds, releaseVars, updateVars
  <2>2. pc # "updating" /\ pc' # "updating"
    BY <1>4 DEF Launch, Handle, SplashEnds, Start, EndSplash, Handlers, Setup, FillForm, ReplaceStore, Clone,
       Decline, BackupKeys, RestoreKeys, HandleKeys, Offered, SaveKeys, KeysDone, Rename, SaveRuntime, SaveIni,
       Dismiss, SelectKey, PersistKey, Privacy, PrivacyFails, Fail, Use
  <2> QED BY <2>1, <2>2 DEF UpdateOK
<1>5. CASE LookForRelease
  <2>1. UNCHANGED configVars /\ StartThread
    BY <1>5 DEF LookForRelease
  <2>2. ConfigOK' /\ ReleaseOK' BY <1>2, <2>1, CheckStep
  <2>3. UpdateOK' BY <2>1 DEF StartThread, configVars, disk, memory, updateVars, UpdateOK
  <2> QED BY <2>2, <2>3
<1>6. CASE HomerMode
  <2>1. /\ pc = "menu" /\ pc' = "homer" /\ uses' \in 0 .. MaxUses
        /\ UNCHANGED <<disk, memory, chosen, unsettled, releaseVars>>
    BY <1>6 DEF HomerMode, Use, ConfigOK, ConfigTypeOK
  <2>2. ConfigOK' /\ ReleaseOK' BY <1>1, <2>1, MenuStep
  <2>3. UpdateOK' BY <2>1 DEF disk, memory, releaseVars, updateVars, UpdateOK
  <2> QED BY <2>2, <2>3
<1>7. CASE Update
  <2>1. /\ pc \in {"splash", "homer", "menu"} /\ pc' = "updating" /\ uses' \in 0 .. MaxUses
        /\ UNCHANGED <<disk, memory, chosen, unsettled>> /\ BeginUpdate
    BY <1>7 DEF Update, Use, ConfigOK, ConfigTypeOK
  <2> QED BY <2>1, MenuStep, CheckStep DEF BeginUpdate, UpdateOK
<1>8. CASE Leave
  <2>1. End /\ EndProcess /\ at' = "idle" /\ pc' = "stopped"
    BY <1>8 DEF Leave, End, EndProcess
  <2> QED BY <2>1, HandlerStep, CheckStep DEF UpdateOK
<1>9. CASE Beside
  <2>1. UNCHANGED configVars /\ (Publish \/ Refresh("thread"))
    BY <1>9 DEF Beside
  <2>2. ReleaseOK'
    BY <2>1, CheckStep, RefreshStep DEF Caller
  <2>3. at' = at /\ step' = step
    BY <2>1 DEF Publish, Refresh, BeginRefresh, ReadLocal, Answer, StoreAnswer, updateVars
  <2>4. UpdateOK' BY <2>1, <2>3 DEF configVars, disk, memory, UpdateOK
  <2> QED BY <1>2, <2>1, <2>2, <2>4
<1>10. CASE Ask
  <2>1. /\ pc = "updating" /\ pc' = IF at' = "idle" THEN "menu" ELSE pc
        /\ UNCHANGED <<disk, memory, chosen, unsettled, uses>>
        /\ \/ Refresh("main") \/ Snapshot \/ GiveUp \/ Download
           \/ Accept /\ runtime # None /\ runtime.repo # None
    BY <1>10 DEF Ask, Updating, disk, memory
  <2>2. ReleaseOK'
    BY <2>1, CheckStep, RefreshStep DEF Caller
  <2>3. UpdateOK'
    <3>1. at # "idle" /\ at' \notin {"reload"} /\ (at' = "install" => step' = 1)
          /\ (at' \in {"download", "install"} => at = "download" \/ config # None)
      <4>1. CASE Refresh("main")
        BY <4>1, RefreshStep DEF Caller
      <4>2. CASE Snapshot \/ GiveUp \/ Download
        BY <4>2 DEF Snapshot, GiveUp, UpdateOver, Download
      <4>3. CASE Accept /\ runtime # None /\ runtime.repo # None
        BY <4>3 DEF Accept, ConfigOK, ConfigTypeOK
      <4> QED BY <2>1, <4>1, <4>2, <4>3
    <3> QED BY <2>1, <3>1 DEF UpdateOK, disk, memory
  <2> QED BY <2>1, <2>2, <2>3, MenuStep DEF ConfigOK, ConfigTypeOK
<1>11. CASE Install
  <2>1. /\ InstallNext /\ pc = "updating" /\ pc' = IF at' = "idle" THEN "menu" ELSE pc
        /\ UNCHANGED <<origin, container, draft, chosen, unsettled, uses, config, runtime>>
        /\ file' = IF InstallOrder[step] = "config" THEN Reinstalled ELSE file
        /\ ini' = IF InstallOrder[step] = "ini" THEN AppOf(file) ELSE ini
    BY <1>11 DEF Install, Updating
  <2>2. at = "install" /\ config # None /\ step \in 1 .. 9 /\ at' \in {"install", "reload"}
    BY <2>1 DEF InstallNext, UpdateOK, ReleaseOK, ReleaseTypeOK
  <2>3. ReleaseOK'
    BY <2>1, InstallStep
  <2>4. /\ step \in {1, 2} => InstallOrder[step] \in {"binary", "manifest"}
        /\ step = 3 => InstallOrder[step] = "config"
        /\ step > 3 => InstallOrder[step] # "config"
        /\ at' = "install" => step' = step + 1
        /\ at' = "reload" => step = 9
    BY <2>1, <2>2, Parts DEF InstallNext
  <2>5. CASE step \in {1, 2}
    <3>1. ConfigOK'
      BY <2>1, <2>2, <2>4, <2>5, MenuStep DEF disk, memory, ConfigOK, ConfigTypeOK
    <3> QED BY <2>1, <2>2, <2>3, <2>4, <2>5, <3>1 DEF UpdateOK
  <2>6. CASE step = 3
    <3>1. ConfigOK' /\ file' # None
      BY <2>1, <2>2, <2>4, <2>6, ReinstallStep
    <3> QED BY <2>1, <2>2, <2>3, <3>1 DEF UpdateOK
  <2>7. CASE step > 3
    <3>1. file # None
      BY <2>2, <2>7 DEF UpdateOK
    <3>2. ConfigOK' /\ file' # None
      BY <2>1, <2>2, <2>4, <2>7, <3>1, ReinstallStep
    <3> QED BY <2>1, <2>2, <2>3, <3>2 DEF UpdateOK
  <2> QED BY <2>2, <2>5, <2>6, <2>7
<1>12. CASE TearIni
  <2>1. /\ at = "install" /\ InstallOrder[step] = "ini" /\ pc = "updating" /\ GiveUp
        /\ pc' = IF at' = "idle" THEN "menu" ELSE pc
        /\ ini' = Torn /\ file' = file
        /\ UNCHANGED <<origin, container, draft, chosen, unsettled, uses, config, runtime>>
    BY <1>12 DEF TearIni, Updating
  <2>2. file # None /\ config # None
    BY <2>1, Parts DEF UpdateOK, ReleaseOK, ReleaseTypeOK
  <2>3. at' = "idle" /\ pc' = "menu"
    BY <2>1 DEF GiveUp, UpdateOver
  <2> QED BY <2>1, <2>2, <2>3, ReinstallStep, CheckStep DEF UpdateOK
<1>13. CASE ReloadConfig
  <2>1. /\ Reload /\ at = "reload" /\ at' = "exec" /\ pc = "updating" /\ pc' = "updating"
        /\ runtime' = file /\ config' = AppOf(file)
        /\ UNCHANGED <<file, ini, origin, container, draft, chosen, unsettled, uses>>
    BY <1>13 DEF ReloadConfig, Updating, Reload
  <2>2. file # None /\ file \in RuntimeConfig /\ file.repo # None /\ AppOf(file) \in AppConfig
    BY <2>1, Records DEF UpdateOK, ConfigOK, ConfigTypeOK, FileOK
  <2>3. ConfigOK'
    BY <2>1, <2>2, Records
    DEF ConfigOK, ConfigTypeOK, CommandOK, FileOK, MemoryOK, OriginOK, ModeOK, SuccessIsKept,
        PushesWhereShown, TelemetryAsChosen, Loaded
  <2> QED BY <2>1, <2>3, CheckStep DEF UpdateOK
<1>14. CASE Restart
  <2>1. /\ at' = "idle" /\ pc' = "stopped" /\ config' = None /\ runtime' = None
        /\ at = "exec" /\ EndProcess /\ UNCHANGED <<disk, draft, chosen, unsettled, uses>>
    BY <1>14 DEF Restart, EndProcess
  <2>2. pc = "updating" BY <2>1 DEF UpdateOK
  <2>3. ConfigOK'
    BY <2>1, <2>2 DEF ConfigOK, ConfigTypeOK, CommandOK, FileOK, MemoryOK, OriginOK, ModeOK,
       SuccessIsKept, PushesWhereShown, TelemetryAsChosen, disk, Loaded
  <2> QED BY <2>1, <2>3, CheckStep DEF UpdateOK
<1> QED BY <1>3, <1>4, <1>5, <1>6, <1>7, <1>8, <1>9, <1>10, <1>11, <1>12, <1>13, <1>14 DEF Next

LEMMA Always == Spec => []IInv
  BY InitIInv, StepIInv, PTL DEF Spec

-----------------------------------------------------------------------------
\* What a handler finds at each of its commands, for any number of handlers and
\* releases: the wizard's record, one to save, an update that is under way.
THEOREM SessionTypeCorrect == Spec => []TypeOK
<1>1. IInv => TypeOK
  BY Parts DEF IInv, ConfigOK, ConfigTypeOK, CommandOK, ReleaseOK, ReleaseTypeOK, UpdateOK, TypeOK
<1> QED BY Always, <1>1, PTL

\* Wherever a save or an installation is cut off, the program starts again.
THEOREM ProgramStartsAgain == Spec => []StartsAgain
<1>1. IInv => StartsAgain
  BY Records DEF IInv, ConfigOK, ConfigTypeOK, FileOK, StartsAgain, Loaded
<1> QED BY Always, <1>1, PTL

\* What is reported as saved is in the file, on the screens and in the clients.
THEOREM ReportedIsKept == Spec => []SuccessIsKept
<1>1. IInv => SuccessIsKept
  BY DEF IInv, ConfigOK
<1> QED BY Always, <1>1, PTL

\* The store is pushed where the screens and the file say, unless a setup or a
\* rename stopped in between.
THEOREM StorePushedWhereShown == Spec => []PushesWhereShown
<1>1. IInv => PushesWhereShown
  BY DEF IInv, ConfigOK
<1> QED BY Always, <1>1, PTL

\* No save brings back a telemetry mode the user has turned away from.
THEOREM NoOlderModeReturns == Spec => []TelemetryAsChosen
<1>1. IInv => TelemetryAsChosen
  BY DEF IInv, ConfigOK
<1> QED BY Always, <1>1, PTL

\* What is said of the installed version is true, whichever check stored last.
THEOREM LatestClaimIsTrue == Spec => []LatestClaimHolds
<1>1. IInv => LatestClaimHolds
  BY DEF IInv, ReleaseOK
<1> QED BY Always, <1>1, PTL

\* An update that was cut off is offered again or seen by the fingerprint check,
\* whatever releases and updates came before it.
THEOREM CutOffUpdateIsSeen == Spec => []HalfInstalledIsSeen
<1>1. IInv => HalfInstalledIsSeen
  BY DEF IInv, ReleaseOK
<1> QED BY Always, <1>1, PTL
=============================================================================
