-------------------------- MODULE KeyBackupsProofs --------------------------
(***************************************************************************)
(* The properties of KeyBackups, for any keys and archives and any number  *)
(* of backups kept.                                                        *)
(***************************************************************************)
EXTENDS KeyBackups, FiniteSetTheorems, TLAPS

USE KeyBackupsAssumption

\* Which operation is at which command, and on which volume; a rebase that has
\* moved the key ring away has not put another one there.
OpOK ==
  /\ pc \in {"create", "secret", "raw", "manifest"} => op \in Exporting
  /\ pc \in {"publish", "publishing", "unstage", "sync"} => op = "backup"
  /\ pc \in {"check", "merge", "ask", "verify"} => op \in Importing
  /\ pc \in {"mount", "dismount"} => op \in Exporting \union Importing
  /\ pc = "save" => op \in Importing \union {"backup"}
  /\ pc \in {"move", "copy"} => op \in Importing \union {"installer"}
  /\ pc = "prune" => op \in Importing \union {"installer", "copy"}
  /\ pc = "copy" \/ (pc = "prune" /\ op # "copy") => keyring = Absent
  /\ op = "backup" => vol = "staging"
  /\ op \in {"export", "import"} => vol \in Archive

\* How much of the key ring the container holds at each command of an export.
ExportOK ==
  /\ pc = "secret" \/ (pc = "mount" /\ op \in Exporting) => volume[vol] = Empty
  /\ pc = "raw" =>
       volume[vol].secret = keyring /\ volume[vol].manifest = "none"
  /\ pc = "manifest" =>
       keyring # Absent /\ volume[vol] = [secret |-> keyring, raw |-> keyring, manifest |-> "none"]
  /\ pc = "dismount" /\ op \in Exporting =>
       keyring # Absent /\ volume[vol] \in Backups(keyring)
  /\ pc \in {"publish", "publishing"} =>
       keyring # Absent /\ volume["staging"] \in Backups(keyring)
  /\ pc \in {"unstage", "sync"} \/ (pc = "save" /\ op = "backup") =>
       volume["keys"] \in Backups(keyring)

\* A manifest is written last.
ManifestOK ==
  \A v \in Volume :
    Readable(volume[v]) /\ volume[v].manifest # "none" =>
      volume[v].secret # Absent /\ volume[v].raw = volume[v].secret

\* An import has accepted a container with the configured key alone, which is
\* in the key ring from then on, or about to be copied there.
ImportOK ==
  op = "import" =>
    /\ pc \in {"merge", "ask", "move", "prune", "copy"} =>
         /\ Readable(volume[vol])
         /\ volume[vol].secret = {Configured}
         /\ volume[vol].raw = {Configured}
    /\ pc \in {"ask", "dismount", "save"} => Configured \in KeysIn(keyring)

IInv == TypeOK /\ OpOK /\ ExportOK /\ ManifestOK /\ ImportOK /\ BackupIsWhole /\ RestoreDelivers

-----------------------------------------------------------------------------
(* What the operators return.                                              *)

LEMMA RingFacts ==
  /\ \A keys \in SUBSET Key : keys # Absent /\ keys \in Ring
  /\ \A ring \in Ring : KeysIn(ring) \in SUBSET Key
  /\ \A keys \in SUBSET Key : KeysIn(keys) = keys
  BY DEF Ring, KeysIn

LEMMA ContainerFacts ==
  /\ Empty \in Container /\ Readable(Empty)
  /\ \A c \in Container : Readable(c)
  /\ \A c \in {Absent, Unreadable} \union Container : Readable(c) => c \in Container
  /\ \A keys \in SUBSET Key : Backups(keys) \subseteq Container
  /\ Theirs \subseteq {Unreadable} \union Container
  /\ \A c \in Theirs : Readable(c) => c.secret # Absent /\ c.raw = c.secret
<1>1. /\ Empty \in Container /\ Readable(Empty)
      /\ \A c \in Container : Readable(c)
      /\ \A c \in {Absent, Unreadable} \union Container : Readable(c) => c \in Container
  BY DEF Container, Empty, Ring, Readable
<1>2. \A keys \in SUBSET Key : Backups(keys) \subseteq Container
  BY DEF Container, Ring, Backups
<1>3. \A keys \in SUBSET Key : \A c \in Backups(keys) : c.secret # Absent /\ c.raw = c.secret
  BY RingFacts DEF Backups
<1>4. \A c \in Theirs : c = Unreadable \/ \E keys \in SUBSET Key : c \in Backups(keys)
  BY DEF Theirs
<1> QED BY <1>1, <1>2, <1>3, <1>4 DEF Readable

\* The commands of an export fill the parts of a container one after another.
LEMMA FillFacts ==
  ASSUME NEW c \in Container, NEW x, NEW m \in {"cutOff", "whole"}
  PROVE  /\ [c EXCEPT !.raw = x] = [secret |-> c.secret, raw |-> x, manifest |-> c.manifest]
         /\ [c EXCEPT !.manifest = m] = [secret |-> c.secret, raw |-> c.raw, manifest |-> m]
<1>1. [c EXCEPT !.raw = x] = [secret |-> c.secret, raw |-> x, manifest |-> c.manifest]
  BY DEF Container
<1>2. [c EXCEPT !.manifest = m] = [secret |-> c.secret, raw |-> c.raw, manifest |-> m]
  BY DEF Container
<1> QED BY <1>1, <1>2

LEMMA VolumeFacts ==
  /\ "keys" \in Volume /\ "staging" \in Volume /\ Archive \subseteq Volume
  /\ "keys" \notin Archive /\ "staging" \notin Archive
  BY DEF Volume

-----------------------------------------------------------------------------
LEMMA InitIInv == Init => IInv
<1> SUFFICES ASSUME Init PROVE IInv
  OBVIOUS
<1>1. PICK container \in {Absent} \union Theirs :
        volume = [v \in Volume |-> IF v = "keys" THEN container ELSE Absent]
  BY DEF Init
<1>2. volume \in [Volume -> {Absent, Unreadable} \union Container]
  BY <1>1, ContainerFacts
<1>3. ManifestOK
  BY <1>1, ContainerFacts DEF ManifestOK, Readable
<1> QED
  BY <1>2, <1>3, VolumeFacts
  DEF Init, IInv, TypeOK, OpOK, ExportOK, ImportOK, BackupIsWhole, RestoreDelivers, Ring, SetAside,
      Exporting, Importing, Steps

\* Another machine's container comes into the store while nothing else happens.
LEMMA TheirsStep ==
  ASSUME IInv, pc' = "idle", op' \in {"none", "theirs"}, vol' \in Volume, uses' \in Nat,
         NEW c \in {Absent} \union Theirs, volume' = [volume EXCEPT !["keys"] = c],
         UNCHANGED <<ringVars, left, here>>, op' = "none" \/ vol' = vol
  PROVE  IInv'
<1> USE VolumeFacts, ContainerFacts DEF IInv, TypeOK, ringVars, Exporting, Importing, Steps
<1>1. TypeOK' BY DEF TypeOK
<1>2. OpOK' BY DEF OpOK
<1>3. (ExportOK /\ ImportOK /\ BackupIsWhole /\ RestoreDelivers)'
  BY DEF ExportOK, ImportOK, BackupIsWhole, RestoreDelivers
<1>4. \A v \in Volume \ {"keys"} : volume'[v] = volume[v] BY DEF TypeOK
<1>5. volume'["keys"] = c BY DEF TypeOK
<1>6. ManifestOK' BY <1>4, <1>5 DEF ManifestOK, Readable
<1> QED BY <1>1, <1>2, <1>3, <1>6

\* The commands of a backup or an export
LEMMA ExportStep ==
  ASSUME IInv,
         BackupKeys \/ ExportKeys \/ CreateVolume \/ ExportSecretKeys \/ ExportRaw \/ WriteManifest
           \/ OverwriteRemote \/ RemoteWritten \/ RemoveStaging \/ Sync \/ SyncKeepingRemote
  PROVE  IInv'
<1> USE VolumeFacts, RingFacts, ContainerFacts
    DEF IInv, TypeOK, OpOK, ExportOK, ManifestOK, ImportOK, BackupIsWhole, RestoreDelivers,
        At, Fill, Begin, ringVars, Exporting, Importing, Steps
<1>1. CASE BackupKeys
  <2>1. TypeOK'
    <3>1. volume' \in [Volume -> {Absent, Unreadable} \union Container]
      BY <1>1 DEF BackupKeys
    <3>2. uses' \in Nat
      BY <1>1 DEF BackupKeys
    <3> QED BY <1>1, <3>1, <3>2 DEF BackupKeys
  <2>2. OpOK'
    BY <1>1 DEF BackupKeys, Readable
  <2>3. ExportOK'
    BY <1>1 DEF BackupKeys, Readable
  <2>4. ManifestOK'
    BY <1>1 DEF BackupKeys, Readable
  <2>5. ImportOK'
    BY <1>1 DEF BackupKeys, Readable
  <2>6. BackupIsWhole'
    BY <1>1 DEF BackupKeys, Readable
  <2>7. RestoreDelivers'
    BY <1>1 DEF BackupKeys, Readable
  <2> QED BY <2>1, <2>2, <2>3, <2>4, <2>5, <2>6, <2>7
<1>2. CASE ExportKeys
  <2>1. TypeOK'
    <3>1. PICK a \in Archive : Begin("export", a, "create")
      BY <1>2 DEF ExportKeys
    <3>2. a \in Volume /\ uses' \in Nat /\ UNCHANGED volume
      BY <1>2, <3>1 DEF ExportKeys
    <3> QED BY <3>1, <3>2
  <2>2. OpOK'
    BY <1>2 DEF ExportKeys
  <2>3. ExportOK'
    BY <1>2 DEF ExportKeys
  <2>4. ManifestOK'
    BY <1>2 DEF ExportKeys
  <2>5. ImportOK'
    BY <1>2 DEF ExportKeys
  <2>6. BackupIsWhole'
    BY <1>2 DEF ExportKeys
  <2>7. RestoreDelivers'
    BY <1>2 DEF ExportKeys
  <2> QED BY <2>1, <2>2, <2>3, <2>4, <2>5, <2>6, <2>7
<1>3. CASE CreateVolume
  BY <1>3 DEF CreateVolume, Empty
<1>4. CASE ExportSecretKeys
  BY <1>4 DEF ExportSecretKeys, Empty, Container, Ring
<1>5. CASE ExportRaw
  <2>1. TypeOK'
    BY <1>5 DEF ExportRaw, Copied, Container, Ring, Backups
  <2>2. OpOK'
    BY <1>5 DEF ExportRaw, Copied, Container, Ring, Backups
  <2>3. ExportOK'
    <3>1. PICK part \in SUBSET keyring :
            /\ At("raw", IF Copied(part, keyring) THEN "manifest" ELSE "failed")
            /\ Fill([volume[vol] EXCEPT !.raw = part])
      BY <1>5 DEF ExportRaw
    <3>2. volume'[vol] = [volume[vol] EXCEPT !.raw = part] /\ UNCHANGED <<keyring, vol, op>>
      BY <1>5, <3>1 DEF ExportRaw
    <3>3. pc' = "manifest" => part = keyring
      BY <3>1 DEF Copied
    <3>4. volume[vol] \in Container /\ keyring # Absent
      BY <3>1
    <3>5. pc' = "manifest" =>
            volume'[vol] = [secret |-> keyring, raw |-> keyring, manifest |-> "none"]
      <4>1. volume[vol].secret = keyring /\ volume[vol].manifest = "none"
        BY <3>1, <3>4 DEF Container
      <4>2. volume'[vol] = [secret |-> keyring, raw |-> part, manifest |-> "none"]
        BY <3>2, <3>4, <4>1, FillFacts
      <4> QED BY <3>3, <4>2
    <3>6. pc' \in {"manifest", "failed"}
      BY <3>1
    <3> QED BY <3>2, <3>4, <3>5, <3>6
  <2>4. ManifestOK'
    BY <1>5 DEF ExportRaw, Copied, Container, Ring, Backups
  <2>5. ImportOK'
    BY <1>5 DEF ExportRaw, Copied, Container, Ring, Backups
  <2>6. BackupIsWhole'
    BY <1>5 DEF ExportRaw, Copied, Container, Ring, Backups
  <2>7. RestoreDelivers'
    BY <1>5 DEF ExportRaw, Copied, Container, Ring, Backups
  <2> QED BY <2>1, <2>2, <2>3, <2>4, <2>5, <2>6, <2>7
<1>6. CASE WriteManifest
  <2>1. PICK m \in {"cutOff", "whole"} : volume' = [volume EXCEPT ![vol] = [volume[vol] EXCEPT !.manifest = m]]
    BY <1>6 DEF WriteManifest
  <2>2. /\ pc = "manifest" /\ pc' = "dismount" /\ UNCHANGED <<op, vol, uses, keyring, left, here>>
        /\ UNCHANGED <<aside, count, lastAside>>
        /\ volume[vol] \in Container /\ vol \in Volume /\ keyring # Absent
        /\ volume[vol].secret = keyring /\ volume[vol].raw = keyring
    BY <1>6 DEF WriteManifest
  <2>3. volume'[vol] = [secret |-> keyring, raw |-> keyring, manifest |-> m]
    BY <2>1, <2>2, FillFacts
  <2>4. volume'[vol] \in Backups(keyring) BY <2>3 DEF Backups
  <2>5. \A v \in Volume \ {vol} : volume'[v] = volume[v] BY <2>1
  <2>6. TypeOK'
    <3>1. [volume[vol] EXCEPT !.manifest = m] \in Container
      BY <2>2 DEF Container
    <3> QED BY <2>1, <2>2, <3>1
  <2>7. OpOK' BY <2>2
  <2>8. ExportOK' BY <2>2, <2>4
  <2>9. ManifestOK' BY <2>2, <2>3, <2>5
  <2>10. (ImportOK /\ BackupIsWhole /\ RestoreDelivers)' BY <2>2
  <2> QED BY <2>6, <2>7, <2>8, <2>9, <2>10
<1>7. CASE OverwriteRemote
  BY <1>7 DEF OverwriteRemote, Readable
<1>8. CASE RemoteWritten
  BY <1>8 DEF RemoteWritten
<1>9. CASE RemoveStaging
  BY <1>9 DEF RemoveStaging, Readable
<1>10. CASE Sync
  BY <1>10 DEF Sync
<1>11. CASE SyncKeepingRemote
  BY <1>11, TheirsStep DEF SyncKeepingRemote
<1> QED BY <1>1, <1>2, <1>3, <1>4, <1>5, <1>6, <1>7, <1>8, <1>9, <1>10, <1>11

\* The commands both have, and what goes wrong
LEMMA CommonStep ==
  ASSUME IInv, Mount \/ Dismount \/ SaveConfig \/ Fail \/ Cleanup \/ Kill
  PROVE  IInv'
<1> USE VolumeFacts, RingFacts, ContainerFacts
    DEF IInv, TypeOK, OpOK, ExportOK, ManifestOK, ImportOK, BackupIsWhole, RestoreDelivers,
        At, Fill, End, ringVars, Exporting, Importing, Steps
<1>1. CASE Mount
  BY <1>1 DEF Mount
<1>2. CASE Dismount
  BY <1>2 DEF Dismount
<1>3. CASE SaveConfig
  <2>1. TypeOK'
    BY <1>3 DEF SaveConfig
  <2>2. OpOK'
    BY <1>3 DEF SaveConfig
  <2>3. ExportOK'
    BY <1>3 DEF SaveConfig
  <2>4. ManifestOK'
    BY <1>3 DEF SaveConfig
  <2>5. ImportOK'
    BY <1>3 DEF SaveConfig
  <2>6. BackupIsWhole'
    BY <1>3 DEF SaveConfig
  <2>7. RestoreDelivers'
    BY <1>3 DEF SaveConfig
  <2> QED BY <2>1, <2>2, <2>3, <2>4, <2>5, <2>6, <2>7
<1>4. CASE Fail
  BY <1>4 DEF Fail, Readable
<1>5. CASE Cleanup
  <2>1. TypeOK'
    <3>1. volume' \in [Volume -> {Absent, Unreadable} \union Container]
      BY <1>5 DEF Cleanup
    <3>2. left' \subseteq Volume
      BY <1>5 DEF Cleanup
    <3> QED BY <1>5, <3>1, <3>2 DEF Cleanup
  <2>2. OpOK'
    BY <1>5 DEF Cleanup, Empty, Readable
  <2>3. ExportOK'
    BY <1>5 DEF Cleanup, Empty, Readable
  <2>4. ManifestOK'
    BY <1>5 DEF Cleanup, Empty, Readable
  <2>5. ImportOK'
    BY <1>5 DEF Cleanup, Empty, Readable
  <2>6. BackupIsWhole'
    BY <1>5 DEF Cleanup, Empty, Readable
  <2>7. RestoreDelivers'
    BY <1>5 DEF Cleanup, Empty, Readable
  <2> QED BY <2>1, <2>2, <2>3, <2>4, <2>5, <2>6, <2>7
<1>6. CASE Kill
  BY <1>6 DEF Kill
<1> QED BY <1>1, <1>2, <1>3, <1>4, <1>5, <1>6

\* The commands of a restore or an import
LEMMA ImportStep ==
  ASSUME IInv,
         RestoreKeys \/ ImportKeys \/ CheckContents \/ Merge \/ KeepKeyring \/ Rebase
           \/ MoveAside \/ Prune \/ CopyBack \/ Verify
  PROVE  IInv'
<1> USE VolumeFacts, RingFacts, ContainerFacts
    DEF IInv, TypeOK, OpOK, ExportOK, ManifestOK, ImportOK, BackupIsWhole, RestoreDelivers,
        At, Begin, ringVars, Exporting, Importing, Steps
<1>1. CASE RestoreKeys
  <2>1. TypeOK'
    <3>1. uses' \in Nat
      BY <1>1 DEF RestoreKeys
    <3> QED BY <1>1, <3>1 DEF RestoreKeys
  <2>2. OpOK'
    BY <1>1 DEF RestoreKeys
  <2>3. ExportOK'
    BY <1>1 DEF RestoreKeys
  <2>4. ManifestOK'
    BY <1>1 DEF RestoreKeys
  <2>5. ImportOK'
    BY <1>1 DEF RestoreKeys
  <2>6. BackupIsWhole'
    BY <1>1 DEF RestoreKeys
  <2>7. RestoreDelivers'
    BY <1>1 DEF RestoreKeys
  <2> QED BY <2>1, <2>2, <2>3, <2>4, <2>5, <2>6, <2>7
<1>2. CASE ImportKeys
  <2>1. TypeOK'
    <3>1. PICK a \in Archive : Begin("import", a, "mount")
      BY <1>2 DEF ImportKeys
    <3>2. a \in Volume /\ uses' \in Nat /\ UNCHANGED volume
      BY <1>2, <3>1 DEF ImportKeys
    <3> QED BY <3>1, <3>2
  <2>2. OpOK'
    BY <1>2 DEF ImportKeys
  <2>3. ExportOK'
    BY <1>2 DEF ImportKeys
  <2>4. ManifestOK'
    BY <1>2 DEF ImportKeys
  <2>5. ImportOK'
    BY <1>2 DEF ImportKeys
  <2>6. BackupIsWhole'
    BY <1>2 DEF ImportKeys
  <2>7. RestoreDelivers'
    BY <1>2 DEF ImportKeys
  <2> QED BY <2>1, <2>2, <2>3, <2>4, <2>5, <2>6, <2>7
<1>3. CASE CheckContents
  BY <1>3 DEF CheckContents, Accepted, ExpectedOnly
<1>4. CASE Merge
  BY <1>4 DEF Merge, Container, Ring
<1>5. CASE KeepKeyring
  BY <1>5 DEF KeepKeyring
<1>6. CASE Rebase
  BY <1>6 DEF Rebase
<1>7. CASE MoveAside
  BY <1>7 DEF MoveAside, Mover, SetAside, Rank, Ring
<1>8. CASE Prune
  BY <1>8 DEF Prune, Kept
<1>9. CASE CopyBack
  BY <1>9 DEF CopyBack, Copied, Container, Ring
<1>10. CASE Verify
  BY <1>10 DEF Verify
<1> QED BY <1>1, <1>2, <1>3, <1>4, <1>5, <1>6, <1>7, <1>8, <1>9, <1>10

\* Everything else
LEMMA OtherStep ==
  ASSUME IInv, GenerateKey \/ SyncStore \/ DismountAll \/ InstallerCopies \/ InstallerReplaces \/ UNCHANGED vars
  PROVE  IInv'
<1> USE VolumeFacts, RingFacts, ContainerFacts
    DEF IInv, TypeOK, OpOK, ExportOK, ManifestOK, ImportOK, BackupIsWhole, RestoreDelivers,
        Begin, Elsewhere, ringVars, vars, Exporting, Importing, Steps
<1>1. CASE GenerateKey
  BY <1>1 DEF GenerateKey
<1>2. CASE DismountAll
  BY <1>2 DEF DismountAll
<1>3. CASE InstallerCopies
  BY <1>3 DEF InstallerCopies, SetAside, Rank, Ring
<1>4. CASE InstallerReplaces
  <2>1. TypeOK'
    <3>1. uses' \in Nat
      BY <1>4 DEF InstallerReplaces
    <3> QED BY <1>4, <3>1 DEF InstallerReplaces
  <2>2. OpOK'
    BY <1>4 DEF InstallerReplaces
  <2>3. ExportOK'
    BY <1>4 DEF InstallerReplaces
  <2>4. ManifestOK'
    BY <1>4 DEF InstallerReplaces
  <2>5. ImportOK'
    BY <1>4 DEF InstallerReplaces
  <2>6. BackupIsWhole'
    BY <1>4 DEF InstallerReplaces
  <2>7. RestoreDelivers'
    BY <1>4 DEF InstallerReplaces
  <2> QED BY <2>1, <2>2, <2>3, <2>4, <2>5, <2>6, <2>7
<1>5. CASE UNCHANGED vars
  BY <1>5
<1>6. CASE SyncStore
  BY <1>6, TheirsStep DEF SyncStore
<1> QED BY <1>1, <1>2, <1>3, <1>4, <1>5, <1>6

THEOREM Invariant == Spec => []IInv
<1>1. IInv /\ [Next]_vars => IInv'
  BY ExportStep, CommonStep, ImportStep, OtherStep DEF Next
<1> QED BY InitIInv, <1>1, PTL DEF Spec

\* The variables stay in their types; a step finds the volume, the key ring and
\* the copy it works on (the guards and exceptions of tui_remote_keys.cpp and
\* tui_backup_container.cpp).
THEOREM KeyBackupsTypeCorrect == Spec => []TypeOK
  BY Invariant, PTL DEF IInv

\* A backup or an export reported as complete holds the whole key ring, whatever
\* failed before it (backup_keys_to_remote, export_local_keys_backup).
THEOREM BackupsAreWhole == Spec => []BackupIsWhole
  BY Invariant, PTL DEF IInv

\* After a restore or an import reported as complete the configured key is in
\* the key ring (restore_keys_from_remote, import_local_keys_backup).
THEOREM RestoresDeliver == Spec => []RestoreDelivers
  BY Invariant, PTL DEF IInv

-----------------------------------------------------------------------------
(* What is set aside.                                                      *)

\* Only a removal of old backups can lose keys: what moves the key ring away
\* sets it aside, and a copy goes where there is none.
THEOREM KeysStayReachable == Spec => KeysReachable
<1> DEFINE Step == \A k \in KeysIn(keyring) \ KeysIn(keyring') : \E s \in aside' : k \in s.keys
<1>1. ASSUME IInv, [Next]_vars PROVE Step
  <2> USE <1>1 DEF KeysIn
  <2>1. CASE MoveAside
    <3>1. CASE keyring = Absent
      BY <3>1
    <3>2. CASE keyring # Absent
      <4> DEFINE ring == [by |-> Mover[op], at |-> count, keys |-> keyring]
      <4>1. ring \in aside' /\ ring.keys = keyring
        BY <2>1, <3>2 DEF MoveAside
      <4> QED BY <3>2, <4>1
    <3> QED BY <3>1, <3>2
  <2>2. CASE CopyBack
    <3>1. keyring = Absent
      BY <2>2 DEF CopyBack, IInv, OpOK
    <3> QED BY <3>1
  <2>3. CASE ~MoveAside /\ ~CopyBack
    <3>1. CASE keyring' = keyring
      BY <3>1
    <3>2. CASE ExportSecretKeys \/ Merge \/ GenerateKey
      <4>1. KeysIn(keyring) \in SUBSET Key
        BY RingFacts DEF IInv, TypeOK
      <4>2. \E keys \in SUBSET Key : keyring' = KeysIn(keyring) \union keys
        <5>1. CASE ExportSecretKeys
          BY <5>1 DEF ExportSecretKeys
        <5>2. CASE Merge
          <6>1. volume[vol].secret \in Ring
            BY <5>2, ContainerFacts DEF Merge, At, IInv, TypeOK, Container
          <6> QED BY <5>2, <6>1, RingFacts DEF Merge
        <5>3. CASE GenerateKey
          BY <5>3 DEF GenerateKey
        <5> QED BY <3>2, <5>1, <5>2, <5>3
      <4>3. keyring' \in SUBSET Key
        BY <4>1, <4>2
      <4> QED BY <4>1, <4>2, <4>3, RingFacts
    <3> QED
      BY <2>3, <3>1, <3>2
      DEF Next, vars, ringVars, At, Begin, End, Elsewhere, BackupKeys, ExportKeys, CreateVolume, Mount,
          ExportRaw, WriteManifest, Dismount, OverwriteRemote, RemoteWritten, RemoveStaging, SaveConfig,
          Sync, SyncKeepingRemote, SyncStore,
          RestoreKeys, ImportKeys, CheckContents, KeepKeyring, Rebase, Prune, Verify, Fail, Cleanup,
          Kill, DismountAll, InstallerCopies, InstallerReplaces
  <2> QED BY <2>1, <2>2, <2>3
<1> QED BY Invariant, <1>1, PTL DEF Spec, KeysReachable

\* A key ring set aside is older than the next; of those the rebases have set
\* aside, the last is the newest.
RingsOK ==
  /\ IsFiniteSet(aside)
  /\ \A s \in aside : s.at < count
  /\ \A ring \in lastAside :
       /\ ring.by = "rebase" /\ ring.at < count
       /\ \A s \in aside : s.by = "rebase" => s.at <= ring.at

LEMMA RingsStep ==
  ASSUME IInv, RingsOK, [Next]_vars
  PROVE  RingsOK'
<1> USE DEF RingsOK
<1>1. CASE MoveAside
  <2>1. CASE keyring = Absent
    BY <1>1, <2>1 DEF MoveAside, ringVars
  <2>2. CASE keyring # Absent
    <3> DEFINE ring == [by |-> Mover[op], at |-> count, keys |-> keyring]
    <3>1. aside' = aside \union {ring} /\ count' = count + 1 /\ count \in Nat
          /\ lastAside' = IF op = "installer" THEN lastAside ELSE {ring}
      BY <1>1, <2>2 DEF MoveAside, IInv, TypeOK
    <3>2. ring.by = IF op = "installer" THEN "replace" ELSE "rebase"
      BY <1>1 DEF MoveAside, At, IInv, OpOK, Mover, Importing
    <3>3. ring.at = count
      OBVIOUS
    <3> HIDE DEF ring
    <3>4. IsFiniteSet(aside')
      BY <3>1, FS_AddElement
    <3>5. \A s \in aside : s.at \in Nat
      BY DEF IInv, TypeOK, SetAside
    <3>6. \A s \in lastAside : s.at \in Nat
      BY DEF IInv, TypeOK, SetAside
    <3>7. \A s \in aside' : s.at < count'
      BY <3>1, <3>3, <3>5
    <3>8. CASE op = "installer"
      BY <3>1, <3>2, <3>4, <3>6, <3>7, <3>8
    <3>9. CASE op # "installer"
      BY <3>1, <3>2, <3>3, <3>4, <3>5, <3>7, <3>9
    <3> QED BY <3>8, <3>9
  <2> QED BY <2>1, <2>2
<1>2. CASE Prune
  <2>1. aside' \subseteq aside /\ UNCHANGED <<count, lastAside>>
    BY <1>2 DEF Prune, Kept
  <2> QED BY <2>1, FS_Subset
<1>3. CASE InstallerCopies
  <2> DEFINE ring == [by |-> "copy", at |-> count, keys |-> keyring]
  <2>1. aside' = aside \union {ring} /\ count' = count + 1 /\ count \in Nat /\ lastAside' = lastAside
    BY <1>3 DEF InstallerCopies, IInv, TypeOK
  <2>2. ring.by = "copy" /\ ring.at = count
    OBVIOUS
  <2> HIDE DEF ring
  <2>3. IsFiniteSet(aside')
    BY <2>1, FS_AddElement
  <2>4. \A s \in aside \union lastAside : s.at \in Nat
    BY DEF IInv, TypeOK, SetAside
  <2> QED BY <2>1, <2>2, <2>3, <2>4
<1>4. CASE UNCHANGED <<aside, count, lastAside>>
  BY <1>4
<1> QED
  BY <1>1, <1>2, <1>3, <1>4
  DEF Next, vars, ringVars, At, Begin, End, Elsewhere, BackupKeys, ExportKeys, CreateVolume, Mount,
      ExportSecretKeys, ExportRaw, WriteManifest, Dismount, OverwriteRemote, RemoteWritten, RemoveStaging,
      SaveConfig, Sync, SyncKeepingRemote, SyncStore,
      RestoreKeys, ImportKeys, CheckContents, Merge, KeepKeyring, Rebase, CopyBack,
      Verify, Fail, Cleanup, Kill, GenerateKey, DismountAll, InstallerReplaces

\* The key ring the last rebase moved away sorts after all that rebases have
\* set aside: whatever sorts after it is the installer's (MoveAside, Prune).
THEOREM LastSetAsideIsKept == Spec => SetAsideKept
<1> DEFINE Step == \A ring \in lastAside :
                     ring \in aside \ aside' => Cardinality(Foreign) >= MaxBackups
<1>1. ASSUME IInv, RingsOK, Prune PROVE Step
  <2> SUFFICES ASSUME NEW ring \in lastAside, ring \in aside, ring \notin aside'
               PROVE  Cardinality(Foreign) >= MaxBackups
    OBVIOUS
  <2> DEFINE After == {t \in aside : SortsAfter(t, ring)}
  <2>1. ~(Cardinality(After) < MaxBackups)
    BY <1>1 DEF Prune, Kept
  <2>2. After \subseteq Foreign
    <3> SUFFICES ASSUME NEW t \in aside, SortsAfter(t, ring), t.by = "rebase" PROVE FALSE
      BY DEF Foreign
    <3>1. t.at \in Nat /\ ring.at \in Nat
      BY <1>1 DEF IInv, TypeOK, SetAside
    <3> QED BY <1>1, <3>1 DEF SortsAfter, Rank, RingsOK
  <2>3. IsFiniteSet(Foreign) /\ Foreign \subseteq aside
    BY <1>1, FS_Subset DEF Foreign, RingsOK
  <2>4. Cardinality(After) <= Cardinality(Foreign) /\ Cardinality(After) \in Nat
        /\ Cardinality(Foreign) \in Nat
    BY <2>2, <2>3, FS_Subset, FS_CardinalityType
  <2> QED BY <2>1, <2>4
<1>2. ASSUME [Next]_vars, ~Prune PROVE aside \subseteq aside'
  BY <1>2
  DEF Next, vars, ringVars, At, Begin, End, Elsewhere, BackupKeys, ExportKeys, CreateVolume, Mount,
      ExportSecretKeys, ExportRaw, WriteManifest, Dismount, OverwriteRemote, RemoteWritten, RemoveStaging,
      SaveConfig, Sync, SyncKeepingRemote, SyncStore,
      RestoreKeys, ImportKeys, CheckContents, Merge, KeepKeyring, Rebase, MoveAside,
      CopyBack, Verify, Fail, Cleanup, Kill, GenerateKey, DismountAll, InstallerCopies, InstallerReplaces
<1>3. IInv /\ RingsOK /\ [Next]_vars => [Step]_vars
  BY <1>1, <1>2
<1>4. Init => RingsOK
  BY FS_EmptySet DEF Init, RingsOK
<1> QED BY Invariant, RingsStep, <1>3, <1>4, PTL DEF Spec, SetAsideKept
=============================================================================
