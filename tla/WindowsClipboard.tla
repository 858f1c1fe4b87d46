--------------------------- MODULE WindowsClipboard ---------------------------
(***************************************************************************)
(* The lease of a copied secret under WSL: syncpss runs a PowerShell helper *)
(* (src/src/util/clipboard_wsl_windows.cpp) that copies the text, writes a  *)
(* lease file, and starts two helpers of Windows, a watcher and a timer,    *)
(* which clear the clipboard even when syncpss has ended.  Lease ids count  *)
(* from 1 in every run of syncpss; lease files are named after them.        *)
(*                                                                         *)
(* The thread that ClipboardLease describes is left out: what Get-Clipboard *)
(* prints ends in a line break, so that under WSL it never recognises its   *)
(* own text and only reports.  Windows keeps an item of the clipboard       *)
(* history for every copy and shows it at once.  When the history is off,   *)
(* there is nothing to remove and the helper compares texts, as for an      *)
(* empty history.                                                          *)
(*                                                                         *)
(* What a helper asks of Windows may be refused: reading the clipboard, its *)
(* history or the lease file, clearing the clipboard, removing an item or a *)
(* file.  A record without an item, or with the newest item in its place    *)
(* because the helper found no item with the text, acts like one whose item *)
(* cannot be read or removed; that the removal then takes another program's *)
(* item is left out.                                                       *)
(***************************************************************************)
EXTENDS Integers, FiniteSets, SequencesExt

CONSTANTS
  Secret,     \* texts syncpss copies
  Other,      \* what other programs copy
  Empty,      \* the empty clipboard; a lease not taken
  MaxLeases,  \* bound on copies
  MaxLives,   \* bound on runs of syncpss
  MaxElders,  \* bound on helpers still there when syncpss starts again
  MaxRefusals \* bound on what Windows refuses to helpers

ASSUME WindowsClipboardAssumption ==
  /\ MaxLeases \in Nat
  /\ MaxLives \in Nat \ {0}
  /\ MaxElders \in Nat
  /\ MaxRefusals \in Nat
  /\ Empty \notin Secret \union Other
  /\ Secret \intersect Other = {}
  /\ Other \intersect ((1..MaxLives) \X (1..MaxLeases)) = {}

VARIABLES
  clipboard,  \* what a paste gives
  history,    \* items of the clipboard history, newest first
  file,       \* lease-<id>.json, by id: the run that wrote it, 0 without a file
  copied,     \* text by run and lease
  life,       \* runs of syncpss so far
  generation, \* g_clipboard_generation
  stale,      \* stale_leases still to cancel
  phase,      \* where the user's thread is
  at,         \* where each helper is
  wipes,      \* its $ClearCurrentClipboard
  noted,      \* its $leaseRecord
  refusals,   \* how often Windows refused so far
  misread     \* a helper of the last lease took it for overwritten when it was not

windows == <<clipboard, history, file>>
refused == <<refusals, misread>>
syncpss == <<copied, life, generation, stale, phase>>
helpers == <<at, wipes, noted, refused>>
vars    == <<windows, syncpss, helpers>>

Lease   == 1..MaxLeases
Life    == 1..MaxLives
Item    == (Life \X Lease) \union Other
Mode    == {"cancel", "watch", "clear"}
Process == Life \X Lease \X Mode
Place   == {"none", "waiting", "read", "wipe", "item", "file", "left", "thrown"}

\* A value for every helper: that of run l, lease i and mode m is f[l][i][m].
OfHelper(S) == [Life -> [Lease -> [Mode -> S]]]
All(v)      == [l \in Life |-> [i \in Lease |-> [m \in Mode |-> v]]]
Of(f, p)    == f[p[1]][p[2]][p[3]]

TypeOK ==
  /\ clipboard \in Secret \union Other \union {Empty}
  /\ history \in Seq(Item)
  /\ file \in [Lease -> 0..life]
  /\ copied \in [Life -> [Lease -> Secret \union {Empty}]]
  /\ life \in Life
  /\ generation \in 0..MaxLeases
  /\ stale \in SUBSET Lease
  /\ phase \in {"idle", "cancel", "record", "match", "again", "register",
                "watch", "schedule", "exited"}
  /\ at \in OfHelper(Place)
  /\ wipes \in OfHelper(BOOLEAN)
  /\ noted \in OfHelper(0..life)
  /\ refusals \in 0..MaxRefusals
  /\ misread \in BOOLEAN

Init ==
  /\ clipboard \in Other \union {Empty}
  /\ history = <<>>
  /\ file = [i \in Lease |-> 0]
  /\ copied = [l \in Life |-> [i \in Lease |-> Empty]]
  /\ life = 1
  /\ generation = 0
  /\ stale = {}
  /\ phase = "idle"
  /\ at = All("none")
  /\ wipes = All(FALSE)
  /\ noted = All(0)
  /\ refusals = 0
  /\ misread = FALSE

-----------------------------------------------------------------------------
(* Copies, leases and helpers                                              *)

Copies == {r \in Life \X Lease : copied[r[1]][r[2]] # Empty}
Newest == <<life, generation>>

\* The lease of the last copy: the newest one, or the last of an earlier run.
LastCopy ==
  CHOOSE r \in Copies :
    \A q \in Copies : q[1] < r[1] \/ (q[1] = r[1] /\ q[2] <= r[2])

Running(l, i, m) == at[l][i][m] \notin {"none", "thrown"}

-----------------------------------------------------------------------------
(* The helper script                                                       *)

\* The newest item is the lease's; without items, the texts agree.
Match(i) ==
  /\ file[i] # 0
  /\ IF history = <<>>
       THEN clipboard = copied[file[i]][i]
       ELSE Head(history) = <<file[i], i>>

\* Windows grants what a helper asks, or refuses it.
Granted == UNCHANGED refusals
Denied  == refusals < MaxRefusals /\ refusals' = refusals + 1

\* Test-LeaseMatch: without the history, the texts are compared; without the text
\* or the record, nothing matches.
TestLeaseMatch(i, result) ==
  \/ Granted /\ result = Match(i)
  \/ Denied /\ file[i] # 0 /\ result \in {clipboard = copied[file[i]][i], FALSE}

\* Windows puts content on the clipboard and its item first in the history.
Without(item) == RemoveFirst(history, item)

Shown(c, item) ==
  /\ clipboard' = c
  /\ history' = <<item>> \o Without(item)

Goto(p, where) == at' = [at EXCEPT ![p[1]][p[2]][p[3]] = where]

Drop(p) ==
  /\ Goto(p, "read")
  /\ wipes' = [wipes EXCEPT ![p[1]][p[2]][p[3]] = FALSE]

\* The test came out as result: it may have missed the last text of syncpss.
Tested(p, result) ==
  LET mine == <<p[1], p[2]>> = LastCopy /\ file[p[2]] = p[1]
  IN misread' = (misread \/ (mine /\ Match(p[2]) /\ ~result))

\* A slip of the test: the watcher drops a lease that still matches.
WatchInverted(p) ==
  /\ p[3] = "watch" /\ Of(at, p) = "waiting"
  /\ \/ file[p[2]] = 0 /\ Goto(p, "none") /\ UNCHANGED <<wipes, refused>>
     \/ file[p[2]] # 0 /\ TestLeaseMatch(p[2], TRUE) /\ Drop(p) /\ Tested(p, TRUE)
  /\ UNCHANGED <<windows, syncpss, noted>>

\* The watcher's loop: it ends without a file, drops a lease that no longer
\* matches, and leaves one that does alone.
WatchLease(p) ==
  /\ p[3] = "watch" /\ Of(at, p) = "waiting"
  /\ \/ file[p[2]] = 0 /\ Goto(p, "none") /\ UNCHANGED <<wipes, refused>>
     \/ file[p[2]] # 0 /\ TestLeaseMatch(p[2], FALSE) /\ Drop(p) /\ Tested(p, FALSE)
  /\ UNCHANGED <<windows, syncpss, noted>>

\* The delay is over, or the watcher saw a paste: the lease is tested once more
\* for the argument of Clear-LeaseArtifacts.
Wake(p) ==
  /\ Of(at, p) = "waiting"
  /\ \E result \in BOOLEAN :
       /\ TestLeaseMatch(p[2], result)
       /\ wipes' = [wipes EXCEPT ![p[1]][p[2]][p[3]] = result]
       /\ Tested(p, result)
  /\ Goto(p, "read")
  /\ UNCHANGED <<windows, syncpss, noted>>

\* A slip: the record is read after the clipboard is cleared, and not at all
\* when it is not.
ReadToWipe(p) ==
  /\ Of(at, p) = "read"
  /\ noted' = [noted EXCEPT ![p[1]][p[2]][p[3]] = IF Of(wipes, p) THEN file[p[2]] ELSE 0]
  /\ Goto(p, IF Of(wipes, p) THEN "wipe" ELSE "item")
  /\ wipes' = [wipes EXCEPT ![p[1]][p[2]][p[3]] = FALSE]
  /\ UNCHANGED <<windows, syncpss, refused>>

\* Clear-LeaseArtifacts, from here on.
ReadRecord(p) ==
  /\ Of(at, p) = "read"
  /\ noted' = [noted EXCEPT ![p[1]][p[2]][p[3]] = file[p[2]]]
  /\ Goto(p, IF Of(wipes, p) THEN "wipe" ELSE "item")
  /\ wipes' = [wipes EXCEPT ![p[1]][p[2]][p[3]] = FALSE]
  /\ UNCHANGED <<windows, syncpss, refused>>

\* When Clear and Set-Clipboard both throw, the script ends there.
ClearCurrentValue(p) ==
  /\ Of(at, p) = "wipe"
  /\ \/ Granted /\ clipboard' = Empty /\ Goto(p, "item")
     \/ Denied /\ Goto(p, "thrown") /\ UNCHANGED clipboard
  /\ UNCHANGED <<history, file, syncpss, wipes, noted, misread>>

\* Whether the item could be removed is not looked at.
RemoveHistoryItem(p) ==
  /\ Of(at, p) = "item"
  /\ \/ Granted /\ history' = Without(<<Of(noted, p), p[2]>>) /\ Goto(p, "file")
     \/ Denied /\ Goto(p, "left") /\ UNCHANGED history
  /\ noted' = [noted EXCEPT ![p[1]][p[2]][p[3]] = 0]
  /\ UNCHANGED <<clipboard, file, syncpss, wipes, misread>>

\* Nor is whether the file could be.
RemoveLease(p) ==
  /\ Of(at, p) \in {"file", "left"}
  /\ \/ Granted /\ file' = [file EXCEPT ![p[2]] = 0]
     \/ Denied /\ UNCHANGED file
  /\ Goto(p, "none")
  /\ UNCHANGED <<clipboard, history, syncpss, wipes, noted, misread>>

Helper(p) ==
  /\ Running(p[1], p[2], p[3])
  /\ \/ WatchLease(p) \/ Wake(p) \/ ReadRecord(p) \/ ClearCurrentValue(p)
     \/ RemoveHistoryItem(p) \/ RemoveLease(p)

-----------------------------------------------------------------------------
(* copy_to_clipboard_with_expiry, on the user's thread                     *)

\* A slip: leases are counted from zero.
AnnounceFromZero(t) ==
  /\ phase = "idle"
  /\ Cardinality(Copies) < MaxLeases
  /\ generation' = generation + 1
  /\ copied' = [copied EXCEPT ![life][generation + 1] = t]
  /\ stale' = 0..generation
  /\ phase' = "cancel"
  /\ misread' = FALSE
  /\ UNCHANGED <<windows, life, at, wipes, noted, refusals>>

Announce(t) ==
  /\ phase = "idle"
  /\ Cardinality(Copies) < MaxLeases
  /\ generation' = generation + 1
  /\ copied' = [copied EXCEPT ![life][generation + 1] = t]
  /\ stale' = 1..generation
  /\ phase' = "cancel"
  /\ misread' = FALSE
  /\ UNCHANGED <<windows, life, at, wipes, noted, refusals>>

\* cancel_windows_clipboard_lease waits for its helper; that it could not run
\* goes unnoticed.
Cancelling == \E i \in Lease : Running(life, i, "cancel")

CancelStale(i) ==
  /\ phase = "cancel" /\ ~Cancelling
  /\ i \in stale
  /\ stale' = stale \ {i}
  /\ Drop(<<life, i, "cancel">>) \/ UNCHANGED <<at, wipes>>
  /\ UNCHANGED <<windows, copied, life, generation, phase, noted, refused>>

\* Mode copy: Set-Clipboard, the lease file, Wait-ForLeaseMatch; each can fail.
SetClipboard ==
  /\ phase = "cancel" /\ ~Cancelling
  /\ stale = {}
  /\ \/ Shown(copied[life][generation], Newest) /\ phase' = "record"
     \/ phase' = "again" /\ UNCHANGED <<clipboard, history>>
  /\ UNCHANGED <<file, copied, life, generation, stale, helpers>>

WriteRecord ==
  /\ phase = "record"
  /\ file' \in {file, [file EXCEPT ![generation] = life]}
  /\ \/ phase' = "match" /\ file'[generation] = life
     \/ phase' = "again"
  /\ UNCHANGED <<clipboard, history, copied, life, generation, stale, helpers>>

WaitForLeaseMatch ==
  /\ phase = "match"
  /\ \E result \in BOOLEAN :
       /\ TestLeaseMatch(generation, result)
       /\ phase' = IF result THEN "watch" ELSE "again"
  /\ UNCHANGED <<windows, copied, life, generation, stale, at, wipes, noted, misread>>

\* Without the helper, copy_to_clipboard; when it throws, no helper is started.
CopyAgain ==
  /\ phase = "again"
  /\ \/ Shown(copied[life][generation], Newest) /\ phase' = "register"
     \/ phase' = "idle" /\ UNCHANGED <<clipboard, history>>
  /\ UNCHANGED <<file, copied, life, generation, stale, helpers>>

\* Mode register; the results of this and of the launches are not looked at.
Register ==
  /\ phase = "register"
  /\ file' \in {file, [file EXCEPT ![generation] = life]}
  /\ phase' = "watch"
  /\ UNCHANGED <<clipboard, history, copied, life, generation, stale, helpers>>

Launch(mode, next) ==
  /\ Goto(<<life, generation, mode>>, "waiting") \/ UNCHANGED at
  /\ phase' = next
  /\ UNCHANGED <<windows, copied, life, generation, stale, wipes, noted, refused>>

LaunchWatcher == phase = "watch" /\ Launch("watch", "schedule")
ScheduleClear == phase = "schedule" /\ Launch("clear", "idle")

\* syncpss quits; its helpers stay.  A terminal closed in the middle of a copy
\* leaves what a copy leaves whose remaining steps fail.
Exit ==
  /\ phase = "idle"
  /\ phase' = "exited"
  /\ UNCHANGED <<windows, copied, life, generation, stale, helpers>>

Start ==
  /\ phase = "exited" /\ generation > 0
  /\ life < MaxLives /\ Cardinality(Copies) < MaxLeases
  /\ Cardinality({p \in Process : Running(p[1], p[2], p[3])}) <= MaxElders
  /\ life' = life + 1
  /\ generation' = 0
  /\ stale' = {}
  /\ phase' = "idle"
  /\ UNCHANGED <<windows, copied, helpers>>

Copying ==
  \/ \E i \in Lease : CancelStale(i)
  \/ SetClipboard \/ WriteRecord \/ WaitForLeaseMatch \/ CopyAgain
  \/ Register \/ LaunchWatcher \/ ScheduleClear

\* Other programs may keep what they copy out of the history.
OtherCopies(c) ==
  /\ \/ Shown(c, c)
     \/ clipboard' = c /\ UNCHANGED history
  /\ UNCHANGED <<file, syncpss, helpers>>

-----------------------------------------------------------------------------
Next ==
  \/ \E t \in Secret : Announce(t)
  \/ Copying \/ Exit \/ Start
  \/ \E p \in Process : Helper(p)
  \/ \E c \in Other : OtherCopies(c)

\* Windows runs its helpers and time passes.  Nothing is assumed of syncpss.
Fairness == WF_vars(\E p \in Process : Helper(p))

Spec == Init /\ [][Next]_vars /\ Fairness

-----------------------------------------------------------------------------
\* The clipboard shows the newest lease, as its file tells, and a helper of it
\* waits.
Guarded ==
  \E i \in Lease :
    /\ i = generation /\ file[i] = life /\ Match(i)
    /\ \E mode \in {"watch", "clear"} : at[life][i][mode] = "waiting"

\* A helper that an earlier run of syncpss started is still there.
Elder == \E p \in Process : p[1] < life /\ Running(p[1], p[2], p[3])

Gone == clipboard \notin Secret \/ phase = "cancel"

\* Windows would not let the helpers of the last lease do their work: one of them
\* could not read that its text is there, or one could not clear it and none is
\* left.
Refused ==
  \/ misread
  \/ /\ \E m \in Mode : at[LastCopy[1]][LastCopy[2]][m] = "thrown"
     /\ \A m \in Mode : ~Running(LastCopy[1], LastCopy[2], m)

\* A secret whose lease has a helper and a file leaves the clipboard, or the next
\* copy begins, even when syncpss has ended, unless helpers of an earlier run of
\* syncpss are about or Windows refuses its helpers.  An item of the history that
\* cannot be removed is no excuse, nor is a clearing that fails in one of two helpers.
CopiedIsCleared == Guarded /\ ~Elder ~> Gone \/ Refused

\* The file of a lease goes after its item of the clipboard history, as a secret
\* in the history can only be found by its lease: but for the item that the helper
\* itself could not remove, whose failure the script does not look at.
RecordOutlivesItem ==
  [][ \A i \in Lease : file[i] # 0 /\ file'[i] = 0 /\ ~Elder
        => \/ <<file[i], i>> \notin ToSet(history')
           \/ \E m \in Mode : at[life][i][m] = "left" /\ at'[life][i][m] = "none" ]_vars
=============================================================================
