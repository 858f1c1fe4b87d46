------------------------------ MODULE Session ------------------------------
(***************************************************************************)
(* A user's sessions with syncpss: starting it, its splash screen and main *)
(* menu, the handlers of Configuration, and the release check and update   *)
(* of ReleaseCheck, which installs a new program and rewrites the          *)
(* configuration from the one in memory.                                   *)
(***************************************************************************)
EXTENDS Configuration, ReleaseCheck

vars == <<configVars, releaseVars>>

Init == ConfigInit /\ ReleaseInit

-----------------------------------------------------------------------------
(* The splash screen and the menu.                                         *)

Launch == Start /\ UNCHANGED releaseVars

Handle == Handlers /\ UNCHANGED releaseVars

\* show_startup_splash, at the start or as the menu's Homer mode
LookForRelease ==
  /\ pc \in {"splash", "homer"}
  /\ StartThread
  /\ UNCHANGED configVars

SplashEnds == EndSplash /\ UNCHANGED releaseVars

HomerMode == Use("homer") /\ UNCHANGED <<disk, memory, chosen, unsettled, releaseVars>>

\* [u] in the splash screen, where the answer offers an update, or in the menu
Update ==
  /\ \/ /\ pc \in {"splash", "homer"} /\ check.available /\ runtime # None
        /\ pc' = "updating" /\ uses' = uses
     \/ Use("updating")
  /\ BeginUpdate
  /\ UNCHANGED <<disk, memory, chosen, unsettled>>

Leave == End /\ EndProcess

-----------------------------------------------------------------------------
(* The update.                                                             *)

\* What goes on beside the main thread.
Beside == (Publish \/ Refresh("thread")) /\ UNCHANGED configVars

\* Back to the menu when the update is over.
Updating ==
  /\ pc = "updating"
  /\ pc' = IF at' = "idle" THEN "menu" ELSE pc
  /\ UNCHANGED <<origin, container, draft, chosen, unsettled, uses>>

Ask ==
  /\ \/ Refresh("main") \/ Snapshot \/ GiveUp \/ Download
     \/ Accept /\ runtime # None /\ runtime.repo # None
  /\ Updating
  /\ UNCHANGED <<file, ini, config, runtime>>

\* save_all_config knows what the update passes on, and what is in the store.
Reinstalled == [Seeded(runtime) EXCEPT !.remoteKeys = container]

Install ==
  /\ InstallNext
  /\ Updating
  /\ file' = IF InstallOrder[step] = "config" THEN Reinstalled ELSE file
  /\ ini' = IF InstallOrder[step] = "ini" THEN AppOf(file) ELSE ini
  /\ UNCHANGED <<config, runtime>>

\* The installer is cut off while it writes the INI file.
TearIni ==
  /\ at = "install" /\ InstallOrder[step] = "ini"
  /\ GiveUp
  /\ Updating
  /\ ini' = Torn
  /\ UNCHANGED <<file, config, runtime>>

ReloadConfig ==
  /\ Reload
  /\ Updating
  /\ runtime' = file /\ config' = AppOf(file)
  /\ UNCHANGED <<file, ini>>

\* exec: the new program starts where the old one was.
Restart ==
  /\ at = "exec"
  /\ EndProcess
  /\ pc' = "stopped"
  /\ config' = None /\ runtime' = None
  /\ UNCHANGED <<disk, draft, chosen, unsettled, uses>>

Next ==
  \/ Launch \/ Handle \/ LookForRelease \/ SplashEnds \/ HomerMode \/ Update \/ Leave
  \/ Beside \/ Ask \/ Install \/ TearIni \/ ReloadConfig \/ Restart

Spec == Init /\ [][Next]_vars
-----------------------------------------------------------------------------
(* Properties.                                                             *)

\* The type invariant, with what a step of a handler finds: the wizard's own
\* record from the form on, one in memory to save, and one of both or neither.
TypeOK ==
  /\ file \in RuntimeConfig \union {None} /\ ini \in AppConfig \union {None, Torn}
  /\ origin \in Repo \union {None} /\ container \in BOOLEAN
  /\ config \in AppConfig \union {None}
  /\ runtime \in RuntimeConfig \union {None} /\ draft \in RuntimeConfig \union {None}
  /\ chosen \subseteq Mode /\ unsettled \subseteq {"repo", "key"} /\ uses \in 0 .. MaxUses
  /\ published \in Release /\ installed \in [Part -> Release]
  /\ refresh["main"].stage # "idle" => at = "refresh"
  /\ (at = "idle") = (pc # "updating")
  /\ step \in 1 .. Len(InstallOrder) /\ {shown, target} \subseteq Release
  /\ pc \in {"replace", "clone", "offer"} => draft # None
  /\ config = None <=> runtime = None \/ runtime.repo = None

\* Whatever was saved and wherever a save was cut off, the program starts
\* again: an INI file that is torn is never the one it reads.  (config.json is
\* saved first, in every handler and in the installer.)
StartsAgain == Loaded # Torn

\* What is reported as set up, renamed or selected is what the file, the
\* screens and the clients of the store have, all three.
SuccessIsKept ==
  pc = "done" =>
    /\ file = runtime
    /\ config.repo = runtime.repo
    /\ "key" \notin unsettled => config.key = runtime.key

\* Unless a setup or a rename stopped in between, the store is pushed to the
\* repository that is shown and that is saved, through failures of other
\* handlers, updates and restarts.
PushesWhereShown ==
  "repo" \notin unsettled =>
    /\ origin = IF Loaded = None THEN None ELSE Loaded.repo
    /\ config # None => config.repo = origin /\ runtime.repo = origin

\* The mode in the file is one the user chose last, or tried to since, or off:
\* no later save brings an older choice back.
TelemetryAsChosen == file # None => file.telemetry \in chosen \union {Off}

\* "You are already on the latest syncpss release" is never said next to the
\* number of a release newer than the one installed, whichever of the two
\* checks stored last.
LatestClaimHolds == at = "latest" => shown <= installed["manifest"]

\* An update that was cut off between two files is either offered again, as
\* the version check finds an older release installed than the published one,
\* or seen by the fingerprint check.
HalfInstalledIsSeen ==
  (\E p, q \in Part : installed[p] # installed[q]) =>
    installed["manifest"] < published \/ ~Verified
=============================================================================
