--------------------------- MODULE Configuration ---------------------------
(***************************************************************************)
(* What a session knows of the user's setup and the handlers that change   *)
(* it: the setup wizard, the rename of the remote store, the key manager   *)
(* and the privacy settings (main.cpp, tui_core.cpp, tui_setup_wizard.cpp, *)
(* tui_configuration.cpp, tui_gpg_keys.cpp, tui_remote_keys.cpp), with the *)
(* two files it is kept in (runtime_config.cpp, config.cpp).               *)
(*                                                                         *)
(* The same facts live in five places: config.json, the INI file, the git  *)
(* remote of the store, and the two records in memory.  A handler changes  *)
(* them one after another, each change may fail, and the program may end   *)
(* between any two.                                                        *)
(***************************************************************************)
EXTENDS Naturals

CONSTANTS
  Repo,     \* private repositories, each with its branch
  Key,      \* GPG keys of the keyring
  Mode,     \* telemetry modes
  Off,      \* the mode that writes nothing
  MaxUses,  \* bound on the handlers begun from the menu
  None,     \* no such file or value
  Torn      \* an INI file that was not written to its end

AppConfig == [repo : Repo, key : Key]
RuntimeConfig == [repo : Repo \union {None}, key : Key, telemetry : Mode, remoteKeys : BOOLEAN]

ASSUME ConfigurationAssumption ==
  /\ Off \in Mode
  /\ MaxUses \in Nat
  /\ None # Torn /\ None \notin Repo
  /\ \A v \in {None, Torn} : v \notin AppConfig /\ v \notin RuntimeConfig

VARIABLES
  file,      \* ~/.syncpss/config.json
  ini,       \* /etc/syncpass/config
  origin,    \* the remote the git repository of the store pushes to
  container, \* whether the store holds a keys container
  config,    \* config_, with what the clients of the store use
  runtime,   \* runtime_config_, which the screens show and the file is written from
  draft,     \* the wizard's own record, while it runs
  pc,        \* what the main thread is at
  chosen,    \* telemetry modes saved, or tried since the last one saved (history)
  unsettled, \* "repo" or "key": what a handler that stopped in between changed (history)
  uses       \* handlers begun from the menu

disk == <<file, ini, origin, container>>
memory == <<config, runtime, draft>>
configVars == <<disk, memory, pc, chosen, unsettled, uses>>

AppOf(r) == [repo |-> r.repo, key |-> r.key]

\* the runtime record TuiApp makes of an INI file
Seeded(c) == [repo |-> c.repo, key |-> c.key, telemetry |-> Off, remoteKeys |-> FALSE]

\* A computer with no configuration yet, with the INI file of an old version, or
\* as the installer leaves it.
ConfigInit ==
  /\ \/ file = None /\ ini = None /\ origin = None /\ container = FALSE
     \/ /\ ini \in AppConfig /\ origin = ini.repo /\ container \in BOOLEAN
        /\ file \in {None, [Seeded(ini) EXCEPT !.remoteKeys = container]}
  /\ config = None /\ runtime = None /\ draft = None
  /\ pc = "stopped"
  /\ chosen = {Off} /\ unsettled = {}
  /\ uses = 0

\* The slip of reading the INI file first.
LoadedIniFirst == IF ini # None THEN ini ELSE IF file # None THEN AppOf(file) ELSE None

\* What main loads.
Loaded == IF file # None THEN AppOf(file) ELSE ini

\* A file that cannot be read ends the program with a startup error.
Start ==
  /\ pc = "stopped"
  /\ Loaded # Torn
  /\ config' = Loaded
  /\ runtime' = IF file # None THEN file ELSE IF ini # None THEN Seeded(ini) ELSE None
  /\ pc' = "splash"
  /\ unsettled' = unsettled \ {"key"}
  /\ UNCHANGED <<disk, draft, chosen, uses>>

\* run: without a configuration the wizard comes first.
EndSplash ==
  /\ \/ pc = "splash" /\ pc' = IF config = None THEN "form" ELSE "menu"
     \/ pc = "homer" /\ pc' = "menu"
  /\ UNCHANGED <<disk, memory, chosen, unsettled, uses>>

Use(next) == pc = "menu" /\ uses < MaxUses /\ uses' = uses + 1 /\ pc' = next

-----------------------------------------------------------------------------
(* run_setup_wizard                                                        *)

Setup ==
  /\ Use("form")
  /\ UNCHANGED <<disk, memory, chosen, unsettled>>

FillForm ==
  /\ pc = "form" /\ pc' = "replace"
  /\ \E r \in Repo, k \in Key :
       draft' = IF runtime = None THEN Seeded([repo |-> r, key |-> k])
                ELSE [runtime EXCEPT !.repo = r, !.key = k]
  /\ UNCHANGED <<disk, config, runtime, chosen, unsettled, uses>>

ReplaceStore ==
  /\ pc = "replace" /\ pc' = "clone"
  /\ origin' = None /\ container' = FALSE
  /\ unsettled' = unsettled \union {"repo"}
  /\ UNCHANGED <<file, ini, memory, chosen, uses>>

\* The slip of keeping the runtime record for the end of the wizard.
CloneForClients ==
  /\ pc = "clone" /\ pc' = "offer"
  /\ origin' = draft.repo
  /\ container' \in BOOLEAN
  /\ config' = AppOf(draft)
  /\ UNCHANGED <<file, ini, runtime, draft, chosen, unsettled, uses>>

Clone ==
  /\ pc = "clone" /\ pc' = "offer"
  /\ origin' = draft.repo
  /\ container' \in BOOLEAN
  /\ config' = AppOf(draft) /\ runtime' = draft
  /\ UNCHANGED <<file, ini, draft, chosen, unsettled, uses>>

\* Restoring or uploading the keys is declined.
Decline ==
  /\ pc = "offer" /\ pc' = "save"
  /\ runtime' = [runtime EXCEPT !.remoteKeys = container \/ @]
  /\ UNCHANGED <<disk, config, draft, chosen, unsettled, uses>>

-----------------------------------------------------------------------------
(* backup_keys_to_remote, restore_keys_from_remote and                     *)
(* import_local_keys_backup, from the wizard or the menu; KeyBackups has    *)
(* their volumes.                                                          *)

HandleKeys(begin) ==
  /\ config # None
  /\ begin \/ Use("saveKeys")
  /\ runtime' = [runtime EXCEPT !.remoteKeys = TRUE]
  /\ UNCHANGED <<file, ini, origin, config, draft, chosen, unsettled>>

Offered == pc = "offer" /\ pc' = "saveKeys" /\ uses' = uses

BackupKeys == HandleKeys(Offered /\ ~container) /\ container' = TRUE

RestoreKeys == HandleKeys(Offered /\ container) /\ container' = container

SaveKeys ==
  /\ pc = "saveKeys" /\ pc' = "keysSaved"
  /\ runtime.repo # None
  /\ file' = runtime
  /\ UNCHANGED <<ini, origin, container, memory, chosen, unsettled, uses>>

\* sync, or the look for the restored key, and the message
KeysDone ==
  /\ pc = "keysSaved" /\ pc' = IF draft = None THEN "menu" ELSE "save"
  /\ UNCHANGED <<disk, memory, chosen, unsettled, uses>>

-----------------------------------------------------------------------------
(* change_remote_password_store_name                                       *)

\* The slip of pointing git at the new repository and forgetting the clients.
RenameForGit ==
  /\ config # None /\ runtime # None /\ origin # None
  /\ Use("save")
  /\ \E r \in Repo \ {runtime.repo} :
       origin' = r /\ runtime' = [runtime EXCEPT !.repo = r]
  /\ unsettled' = unsettled \union {"repo"}
  /\ UNCHANGED <<file, ini, container, config, draft, chosen>>

\* The repository exists or is made, git remote set-url succeeds, and nothing
\* can fail before both records have the name.
Rename ==
  /\ config # None /\ runtime # None /\ origin # None
  /\ Use("save")
  /\ \E r \in Repo \ {runtime.repo} :
       /\ origin' = r
       /\ runtime' = [runtime EXCEPT !.repo = r]
       /\ config' = [config EXCEPT !.repo = r]
  /\ unsettled' = unsettled \union {"repo"}
  /\ UNCHANGED <<file, ini, container, draft, chosen>>

-----------------------------------------------------------------------------
(* The two saves that end the wizard and the rename: config.json goes to a  *)
(* temporary file that is renamed, the INI file is written in its place.   *)

SaveRuntime ==
  /\ pc = "save" /\ pc' = "ini"
  /\ runtime.repo # None
  /\ file' = runtime
  /\ UNCHANGED <<ini, origin, container, memory, chosen, unsettled, uses>>

\* /etc may not be writable: that is a warning.  The wizard chose the key too.
SaveIni ==
  /\ pc = "ini" /\ pc' = "done"
  /\ ini' \in {ini, config}
  /\ unsettled' = unsettled \ IF draft = None THEN {"repo"} ELSE {"repo", "key"}
  /\ UNCHANGED <<file, origin, container, memory, chosen, uses>>

Dismiss ==
  /\ pc = "done" /\ pc' = "menu"
  /\ draft' = None
  /\ UNCHANGED <<disk, config, runtime, chosen, unsettled, uses>>

-----------------------------------------------------------------------------
(* manage_gpg_keys and configure_privacy_settings                          *)

\* persist_active_key, up to the save
SelectKey ==
  /\ Use("persist")
  /\ \E k \in Key :
       runtime' = IF runtime = None THEN Seeded([repo |-> None, key |-> k])
                  ELSE [runtime EXCEPT !.key = k]
  /\ unsettled' = unsettled \union {"key"}
  /\ UNCHANGED <<disk, config, draft, chosen>>

\* The slip of leaving config_, and the clients, with the key they had.
PersistRuntimeKey ==
  /\ pc = "persist" /\ pc' = "done"
  /\ runtime.repo # None
  /\ file' = runtime
  /\ unsettled' = unsettled \ {"key"}
  /\ UNCHANGED <<ini, origin, container, memory, chosen, uses>>

PersistKey ==
  /\ pc = "persist" /\ pc' = "done"
  /\ runtime.repo # None
  /\ file' = runtime
  /\ config' = [config EXCEPT !.key = runtime.key]
  /\ unsettled' = unsettled \ {"key"}
  /\ UNCHANGED <<ini, origin, container, runtime, draft, chosen, uses>>

\* The slip of saving the mode and not keeping it.
SavePrivacyOnly ==
  /\ runtime # None /\ runtime.repo # None
  /\ Use("done")
  /\ \E m \in Mode : file' = [runtime EXCEPT !.telemetry = m] /\ chosen' = {m}
  /\ UNCHANGED <<ini, origin, container, memory, unsettled>>

Privacy ==
  /\ runtime # None /\ runtime.repo # None
  /\ Use("done")
  /\ \E m \in Mode : runtime' = [runtime EXCEPT !.telemetry = m] /\ chosen' = {m}
  /\ file' = runtime'
  /\ UNCHANGED <<ini, origin, container, config, draft, unsettled>>

\* The save throws, before the rename of config.json or, for the preferences
\* file, after it.
PrivacyFails ==
  /\ runtime # None
  /\ Use("menu")
  /\ \E m \in Mode :
       /\ file' \in {file} \union IF runtime.repo = None THEN {} ELSE {[runtime EXCEPT !.telemetry = m]}
       /\ chosen' = chosen \union {m}
  /\ UNCHANGED <<ini, origin, container, memory, unsettled>>

-----------------------------------------------------------------------------
(* Failure and the end of the program.                                     *)

Saving == pc \in {"save", "saveKeys", "persist"} /\ runtime.repo # None

\* What a step throws is shown, and the main menu is next.
Fail ==
  /\ pc \in {"form", "replace", "clone", "offer", "save", "saveKeys", "keysSaved", "persist"}
  /\ pc' = "menu"
  /\ file' \in {file} \union IF Saving THEN {runtime} ELSE {}
  /\ draft' = None
  /\ UNCHANGED <<ini, origin, container, config, runtime, chosen, unsettled, uses>>

\* The user quits, or the program is killed wherever it is.
End ==
  /\ pc # "stopped" /\ pc' = "stopped"
  /\ config' = None /\ runtime' = None /\ draft' = None
  /\ ini' \in {ini} \union IF pc = "ini" THEN {Torn} ELSE {}
  /\ UNCHANGED <<file, origin, container, chosen, unsettled, uses>>

Handlers ==
  \/ Setup \/ FillForm \/ ReplaceStore \/ Clone \/ Decline
  \/ BackupKeys \/ RestoreKeys \/ SaveKeys \/ KeysDone
  \/ Rename \/ SaveRuntime \/ SaveIni \/ Dismiss
  \/ SelectKey \/ PersistKey \/ Privacy \/ PrivacyFails \/ Fail
=============================================================================
