---------------------------- MODULE GitSyncProofs ----------------------------
(***************************************************************************)
(* Theorems about GitSync that hold for any number of machines, entries,   *)
(* contents, versions and commits, with their proofs.                      *)
(***************************************************************************)
EXTENDS GitSync, SyncReview, TLAPS, WellFoundedInduction

-----------------------------------------------------------------------------
(* Trees: what the code writes into the worktree is a tree.                *)

\* A tree is a function on the files that gives each file a content of its
\* kind; this is the form in which the proofs below use it.
LEMMA TreeIntro ==
  ASSUME NEW t, t = [f \in File |-> t[f]],
         t[SumFile] \in SumContent,
         \A e \in Entry : t[e] \in EntryContent
  PROVE  t \in Tree
<1>1. \A f \in File : t[f] \in EntryContent \union SumContent
  BY DEF File
<1>2. t \in [File -> EntryContent \union SumContent]
  BY <1>1
<1> QED
  BY <1>2 DEF Tree

LEMMA TreeElim ==
  ASSUME NEW t \in Tree
  PROVE  /\ t = [f \in File |-> t[f]]
         /\ t[SumFile] \in SumContent
         /\ \A e \in Entry : t[e] \in EntryContent
BY DEF Tree

\* write_store_hash_file leaves a store whose hash file matches its entries.
LEMMA WithSumTree ==
  ASSUME NEW t \in Tree, NEW v \in Version
  PROVE  /\ WithSum(t, v) \in Tree
         /\ SumMatches(WithSum(t, v))
         /\ WithSum(t, v)[SumFile].ver = v
<1> DEFINE w == WithSum(t, v)
<1>1. SumFile \in File /\ \A e \in Entry : e \in File /\ e # SumFile
  BY StoreTreeAssumption DEF File
<1>2. EntriesOf(t) \in Entries
  BY TreeElim DEF EntriesOf, Entries
<1>3. w[SumFile] = [of |-> EntriesOf(t), ver |-> v]
  BY <1>1, TreeElim DEF WithSum
<1>4. \A e \in Entry : w[e] = t[e]
  BY <1>1, TreeElim DEF WithSum
<1>5. w[SumFile] \in Sum
  BY <1>2, <1>3 DEF Sum
<1>6. w = [f \in File |-> w[f]]
  BY TreeElim DEF WithSum
<1>7. w \in Tree
  <2>1. w[SumFile] \in SumContent
    BY <1>5 DEF SumContent
  <2>2. \A e \in Entry : w[e] \in EntryContent
    BY <1>4, TreeElim
  <2> QED
    BY <1>6, <2>1, <2>2, TreeIntro
<1>8. EntriesOf(w) = EntriesOf(t)
  BY <1>4 DEF EntriesOf
<1> QED
  BY <1>3, <1>5, <1>7, <1>8 DEF SumMatches

\* Whatever the base, a merge takes every content from one of the two sides,
\* or leaves markers in the hash file.
LEMMA MergedTree ==
  ASSUME NEW b, NEW o \in Tree, NEW t \in Tree
  PROVE  Merged(b, o, t) \in Tree
<1> DEFINE w == Merged(b, o, t)
<1>1. SumFile \in File /\ \A e \in Entry : e \in File /\ e # SumFile
  BY StoreTreeAssumption DEF File
<1>2. w = [f \in File |-> w[f]]
  BY DEF Merged
<1>3. \A f \in File : w[f] \in {o[f], t[f], ConflictLeaves(f, o[f], t[f])}
  BY DEF Merged
<1>4. w[SumFile] \in SumContent
  BY <1>1, <1>3, TreeElim DEF ConflictLeaves, SumContent
<1>5. \A e \in Entry : w[e] \in EntryContent
  BY <1>1, <1>3, TreeElim DEF ConflictLeaves
<1> QED
  BY <1>2, <1>4, <1>5, TreeIntro

\* One path of a tree takes another content of its kind.
LEMMA ExceptTree ==
  ASSUME NEW t \in Tree, NEW f \in File, NEW c,
         f = SumFile => c \in SumContent,
         f \in Entry => c \in EntryContent
  PROVE  [t EXCEPT ![f] = c] \in Tree
<1> DEFINE w == [t EXCEPT ![f] = c]
<1>1. w = [g \in File |-> w[g]]
  BY TreeElim
<1>2. SumFile \in File /\ \A e \in Entry : e \in File
  BY DEF File
<1>3. w[SumFile] \in SumContent
  BY <1>2, TreeElim
<1>4. \A e \in Entry : w[e] \in EntryContent
  BY <1>2, TreeElim
<1> QED
  BY <1>1, <1>3, <1>4, TreeIntro

LEMMA SeedIsTree == SeedTree \in Tree
<1>1. SumFile \in File /\ \A e \in Entry : e \in File /\ e # SumFile
  BY StoreTreeAssumption DEF File
<1>2. SeedTree = [f \in File |-> SeedTree[f]]
  BY DEF SeedTree
<1>3. \A e \in Entry : SeedTree[e] \in EntryContent
  BY <1>1, GitSyncAssumption DEF SeedTree, EntryContent
<1>4. SeedTree[SumFile] \in SumContent
  <2>1. 1 \in Version
    BY StoreTreeAssumption DEF Version
  <2>2. [e \in Entry |-> Seed] \in Entries
    BY GitSyncAssumption DEF Entries, EntryContent
  <2> QED
    BY <1>1, <2>1, <2>2 DEF SeedTree, SumContent, Sum
<1> QED
  BY <1>2, <1>3, <1>4, TreeIntro

-----------------------------------------------------------------------------
(* The inductive invariant behind the types, in parts.                     *)

\* A path is unmerged only while a merge is in progress.
MergeOK == \A m \in Machine : unmerged[m] # {} => mergeHead[m] # 0

\* Between git add -A and git commit the index is the worktree.
StagedOK == \A m \in Machine : pc[m] = "commit" => work[m] = idx[m] /\ unmerged[m] = {}

\* A tag is made only for a known version.
VerOK == \A m \in Machine : pc[m] \in {"tag", "pushtag"} => ver[m] # 0

TypeInv == TypeOK /\ MergeOK /\ StagedOK /\ VerOK

-----------------------------------------------------------------------------
(* Types are preserved by what the actions are built from.                 *)

LEMMA MakeCommitType ==
  ASSUME TypeOK, NEW m \in Machine, NEW t \in Tree, NEW other \in Ref,
         MakeCommit(m, t, other)
  PROVE  /\ commits' \in Commit
         /\ tree' \in [Commit -> Tree]
         /\ anc' \in [Commit -> SUBSET Commit]
         /\ head' \in [Machine -> Commit]
<1>1. commits + 1 \in Commit
  <2>1. commits \in 1..MaxCommits /\ commits < MaxCommits
    BY DEF TypeOK, MakeCommit, Commit
  <2> QED
    BY <2>1, GitSyncAssumption DEF Commit
<1>2. (IF other = 0 THEN {} ELSE anc[other]) \subseteq Commit
  <2>1. other # 0 => other \in Commit
    BY GitSyncAssumption DEF Ref, Commit
  <2> QED
    BY <2>1 DEF TypeOK
<1>3. anc[head[m]] \subseteq Commit
  BY DEF TypeOK
<1> QED
  BY <1>1, <1>2, <1>3 DEF TypeOK, MakeCommit

LEMMA CheckoutType ==
  ASSUME TypeOK, NEW m \in Machine, NEW t \in Tree, Checkout(m, t)
  PROVE  /\ work' \in [Machine -> Tree]
         /\ idx' \in [Machine -> Tree]
         /\ unmerged' \in [Machine -> SUBSET File]
BY DEF TypeOK, Checkout

LEMMA FetchTagsType ==
  ASSUME TypeOK, NEW m \in Machine, FetchTags(m)
  PROVE  /\ origin' \in [Machine -> Commit]
         /\ tag' \in [Machine -> [Version -> Ref]]
BY DEF TypeOK, FetchTags

\* The index git merge leaves is a tree as well.
LEMMA BeginMergeType ==
  ASSUME TypeOK, NEW m \in Machine, NEW other \in Commit, BeginMerge(m, other)
  PROVE  /\ work' \in [Machine -> Tree]
         /\ idx' \in [Machine -> Tree]
         /\ unmerged' \in [Machine -> SUBSET File]
         /\ mergeHead' = [mergeHead EXCEPT ![m] = other]
         /\ \A x \in Machine : x # m => unmerged'[x] = unmerged[x]
<1> DEFINE b == tree[MergeBase(head[m], other)]
           o == tree[head[m]]
           t == tree[other]
           w == Merged(b, o, t)
           i == [f \in File |-> IF f \in Conflicts(b, o, t) THEN o[f] ELSE w[f]]
<1>1. o \in Tree /\ t \in Tree
  BY DEF TypeOK
<1>2. w \in Tree
  BY <1>1, MergedTree
<1>3. i \in Tree
  <2>1. SumFile \in File /\ \A e \in Entry : e \in File
    BY DEF File
  <2>2. i[SumFile] \in SumContent
    BY <1>1, <1>2, <2>1, TreeElim
  <2>3. \A e \in Entry : i[e] \in EntryContent
    BY <1>1, <1>2, <2>1, TreeElim
  <2> HIDE DEF b, o, t, w
  <2> QED
    BY <2>2, <2>3, TreeIntro
<1>4. Conflicts(b, o, t) \subseteq File
  BY DEF Conflicts
<1>5. /\ work' = [work EXCEPT ![m] = w]
      /\ idx' = [idx EXCEPT ![m] = i]
      /\ unmerged' = [unmerged EXCEPT ![m] = Conflicts(b, o, t)]
      /\ mergeHead' = [mergeHead EXCEPT ![m] = other]
  BY DEF BeginMerge
<1> HIDE DEF b, o, t, w, i
<1> QED
  BY <1>2, <1>3, <1>4, <1>5 DEF TypeOK

LEMMA RefIsCommit == Commit \subseteq Ref /\ 0 \in Ref /\ \A r \in Ref : r # 0 => r \in Commit
BY GitSyncAssumption DEF Ref, Commit

-----------------------------------------------------------------------------
(* The type invariant, action by action.                                   *)

LEMMA InitType == Init => TypeInv
<1> SUFFICES ASSUME Init PROVE TypeInv
  OBVIOUS
<1>1. 1 \in Commit /\ 1 \in Ref /\ 0 \in Ref
  BY GitSyncAssumption DEF Commit, Ref
<1>2. FirstTag \in [Version -> Ref]
  BY <1>1 DEF FirstTag
<1>3. anc \in [Commit -> SUBSET Commit]
  BY <1>1 DEF Init
<1>4. tree \in [Commit -> Tree]
  BY SeedIsTree DEF Init
<1>5. 0 \in 0..MaxWrites
  BY GitSyncAssumption
<1>6. TypeOK
  BY <1>1, <1>2, <1>3, <1>4, <1>5, SeedIsTree DEF Init, TypeOK, Step, Mode
<1>7. MergeOK /\ StagedOK /\ VerOK
  BY DEF Init, MergeOK, StagedOK, VerOK
<1> QED
  BY <1>6, <1>7 DEF TypeInv

LEMMA PassWriteType ==
  ASSUME TypeInv, NEW m \in Machine, NEW e \in Entry, NEW c \in EntryContent,
         PassWrite(m, e, c)
  PROVE  TypeInv'
<1> DEFINE t == [idx[m] EXCEPT ![e] = c]
           u == unmerged[m] \ {e}
<1> USE DEF TypeInv
<1>1. e \in File /\ e # SumFile
  BY StoreTreeAssumption DEF File
<1>2. t \in Tree /\ [work[m] EXCEPT ![e] = c] \in Tree
  BY <1>1, ExceptTree DEF TypeOK
<1>3. writes' \in 0..MaxWrites
  BY GitSyncAssumption DEF TypeOK, PassWrite, Write
<1>4. /\ work' = [work EXCEPT ![m] = [work[m] EXCEPT ![e] = c]]
      /\ idx' = [idx EXCEPT ![m] = t]
      /\ unmerged' = [unmerged EXCEPT ![m] = u]
      /\ pc[m] = "idle"
      /\ UNCHANGED <<remote, origin, tag, session>>
  BY DEF PassWrite
<1>5. u \subseteq File
  BY DEF TypeOK
<1>6. \/ u # {} /\ UNCHANGED <<objects, head, mergeHead>>
      \/ u = {} /\ UNCHANGED <<objects, head, mergeHead>>
      \/ /\ u = {}
         /\ MakeCommit(m, t, mergeHead[m])
         /\ mergeHead' = [mergeHead EXCEPT ![m] = 0]
  BY DEF PassWrite
<1>7. /\ commits' \in Commit
      /\ tree' \in [Commit -> Tree]
      /\ anc' \in [Commit -> SUBSET Commit]
      /\ head' \in [Machine -> Commit]
      /\ mergeHead' \in [Machine -> Ref]
  <2>1. CASE UNCHANGED <<objects, head, mergeHead>>
    BY <2>1 DEF TypeOK, objects
  <2>2. CASE MakeCommit(m, t, mergeHead[m]) /\ mergeHead' = [mergeHead EXCEPT ![m] = 0]
    <3>1. mergeHead[m] \in Ref
      BY DEF TypeOK
    <3>2. mergeHead' \in [Machine -> Ref]
      BY <2>2, RefIsCommit DEF TypeOK
    <3> HIDE DEF t
    <3> QED
      BY <2>2, <3>1, <3>2, <1>2, MakeCommitType
  <2> QED
    BY <1>6, <2>1, <2>2
<1> HIDE DEF t, u
<1>8. TypeOK'
  BY <1>2, <1>3, <1>4, <1>5, <1>7 DEF TypeOK, remote, session
<1>9. MergeOK' 
  BY <1>4, <1>6 DEF MergeOK, TypeOK, u
<1>10. StagedOK' /\ VerOK'
  BY <1>4 DEF StagedOK, VerOK, TypeOK, session
<1> QED
  BY <1>8, <1>9, <1>10

LEMMA LeaveUncommittedType ==
  ASSUME TypeInv, NEW m \in Machine, NEW e \in Entry, NEW c \in EntryContent,
         LeaveUncommitted(m, e, c)
  PROVE  TypeInv'
<1> USE DEF TypeInv
<1>1. e \in File /\ e # SumFile
  BY StoreTreeAssumption DEF File
<1>2. [work[m] EXCEPT ![e] = c] \in Tree
  BY <1>1, ExceptTree DEF TypeOK
<1>3. writes' \in 0..MaxWrites
  BY GitSyncAssumption DEF TypeOK, LeaveUncommitted, Write
<1>4. TypeOK'
  BY <1>2, <1>3 DEF TypeOK, LeaveUncommitted, objects, remote, session
<1>5. MergeOK' /\ StagedOK' /\ VerOK'
  BY DEF LeaveUncommitted, MergeOK, StagedOK, VerOK, TypeOK, session
<1> QED
  BY <1>4, <1>5

\* The steps that touch neither trees nor files.
LEMMA LightType ==
  ASSUME TypeInv, NEW m \in Machine,
         \/ SyncStore(m) \/ PushStoreForce(m) \/ FetchStorePreview(m) \/ Fetch(m)
         \/ VersionKnown(m) \/ Push(m) \/ CreateTag(m) \/ PushTag(m) \/ Dismiss(m) \/ Stop(m)
  PROVE  TypeInv'
<1> USE DEF TypeInv
<1>1. CASE SyncStore(m)
  <2>1. TypeOK'
    BY <1>1, FetchTagsType
    DEF TypeOK, SyncStore, Goto, SetMode, Step, Mode, objects, remote, files, session
  <2>2. MergeOK' /\ StagedOK' /\ VerOK'
    BY <1>1 DEF SyncStore, Goto, SetMode, MergeOK, StagedOK, VerOK, TypeOK, files, session
  <2> QED
    BY <2>1, <2>2
<1>2. CASE PushStoreForce(m)
  <2>1. TypeOK'
    BY <1>2 DEF TypeOK, PushStoreForce, Goto, SetMode, Step, Mode, objects, remote, files
  <2>2. MergeOK' /\ StagedOK' /\ VerOK'
    BY <1>2 DEF PushStoreForce, Goto, SetMode, MergeOK, StagedOK, VerOK, TypeOK, files
  <2> QED
    BY <2>1, <2>2
<1>3. CASE FetchStorePreview(m)
  <2>1. TypeOK'
    BY <1>3, FetchTagsType DEF TypeOK, FetchStorePreview, objects, remote, files, session
  <2>2. MergeOK' /\ StagedOK' /\ VerOK'
    BY <1>3 DEF FetchStorePreview, MergeOK, StagedOK, VerOK, TypeOK, files, session
  <2> QED
    BY <2>1, <2>2
<1>4. CASE Fetch(m)
  <2>1. TypeOK'
    BY <1>4, FetchTagsType
    DEF TypeOK, Fetch, Leave, Stay, Goto, SetMode, SetVer, Step, Mode, objects, remote, files
  <2>2. MergeOK' /\ StagedOK' /\ VerOK'
    BY <1>4 DEF Fetch, Leave, Stay, Goto, SetMode, SetVer, MergeOK, StagedOK, VerOK, TypeOK, files
  <2> QED
    BY <2>1, <2>2
<1>5. CASE VersionKnown(m)
  <2>1. pc' \in [Machine -> Step] /\ pc'[m] \in {"merge", "pull", "push"}
        /\ \A x \in Machine : x # m => pc'[x] = pc[x]
    BY <1>5 DEF TypeOK, VersionKnown, AfterTracking, Goto, Step
  <2>2. ver' \in [Machine -> Version \union {0}] /\ \A x \in Machine : x # m => ver'[x] = ver[x]
    BY <1>5 DEF TypeOK, VersionKnown, SetVer, HeadTags
  <2>3. TypeOK'
    BY <1>5, <2>1, <2>2 DEF TypeOK, VersionKnown, objects, remote, files
  <2>4. MergeOK' /\ StagedOK' /\ VerOK'
    BY <1>5, <2>1, <2>2 DEF VersionKnown, MergeOK, StagedOK, VerOK, files
  <2> QED
    BY <2>3, <2>4
<1>6. CASE Push(m)
  <2>1. TypeOK'
    BY <1>6
    DEF TypeOK, Push, Leave, Stay, Goto, SetMode, SetVer, Step, Mode, objects, files
  <2>2. MergeOK' /\ StagedOK' /\ VerOK'
    BY <1>6 DEF Push, Leave, Stay, Goto, SetMode, SetVer, MergeOK, StagedOK, VerOK, TypeOK, files
  <2> QED
    BY <2>1, <2>2
<1>7. CASE CreateTag(m)
  <2>1. head[m] \in Ref
    BY RefIsCommit DEF TypeOK
  <2>2. tag' \in [Machine -> [Version -> Ref]]
    BY <1>7, <2>1 DEF TypeOK, CreateTag
  <2>3. TypeOK'
    BY <1>7, <2>2 DEF TypeOK, CreateTag, Goto, Step, objects, remote, files
  <2>4. MergeOK' /\ StagedOK' /\ VerOK'
    BY <1>7 DEF CreateTag, Goto, MergeOK, StagedOK, VerOK, TypeOK, files
  <2> QED
    BY <2>3, <2>4
<1>8. CASE PushTag(m)
  <2>1. ver[m] \in Version
    BY <1>8 DEF TypeOK, VerOK, PushTag
  <2>2. remoteTag' \in [Version -> Ref]
    <3>1. tag[m][ver[m]] \in Ref
      BY <2>1 DEF TypeOK
    <3>2. \/ remoteTag' = [remoteTag EXCEPT ![ver[m]] = tag[m][ver[m]]]
          \/ UNCHANGED remoteTag
      BY <1>8 DEF PushTag
    <3> QED
      BY <3>1, <3>2 DEF TypeOK
  <2>3. TypeOK'
    BY <1>8, <2>2
    DEF TypeOK, PushTag, Leave, Stay, Goto, SetMode, SetVer, Step, Mode, objects, files
  <2>4. MergeOK' /\ StagedOK' /\ VerOK'
    BY <1>8 DEF PushTag, Leave, Stay, Goto, SetMode, SetVer, MergeOK, StagedOK, VerOK, TypeOK, files
  <2> QED
    BY <2>3, <2>4
<1>9. CASE Dismiss(m) \/ Stop(m)
  <2>1. TypeOK'
    BY <1>9
    DEF TypeOK, Dismiss, Stop, Leave, Goto, SetMode, SetVer, Step, Mode, objects, remote, files
  <2>2. MergeOK' /\ StagedOK' /\ VerOK'
    BY <1>9
    DEF Dismiss, Stop, Leave, Goto, SetMode, SetVer, MergeOK, StagedOK, VerOK, TypeOK, files
  <2> QED
    BY <2>1, <2>2
<1> QED
  BY <1>1, <1>2, <1>3, <1>4, <1>5, <1>6, <1>7, <1>8, <1>9

LEMMA PullStoreForceType ==
  ASSUME TypeInv, NEW m \in Machine, PullStoreForce(m)
  PROVE  TypeInv'
<1> USE DEF TypeInv
<1> DEFINE target == tree[remoteHead]
           w == [f \in File |-> IF idx[m][f] = Absent /\ target[f] = Absent
                                THEN work[m][f] ELSE target[f]]
<1>1. target \in Tree /\ work[m] \in Tree
  BY DEF TypeOK
<1>2. w \in Tree
  <2>1. SumFile \in File /\ \A e \in Entry : e \in File
    BY DEF File
  <2>2. w[SumFile] \in SumContent
    BY <1>1, <2>1, TreeElim
  <2>3. \A e \in Entry : w[e] \in EntryContent
    BY <1>1, <2>1, TreeElim
  <2> HIDE DEF target
  <2> QED
    BY <2>2, <2>3, TreeIntro
<1>3. /\ mergeHead[m] = 0
      /\ FetchTags(m)
      /\ UNCHANGED <<writes, objects, remote, session, mergeHead>>
      /\ \/ UNCHANGED <<head, files>>
         \/ /\ head' = [head EXCEPT ![m] = remoteHead]
            /\ work' = [work EXCEPT ![m] = w]
            /\ idx' = [idx EXCEPT ![m] = target]
            /\ unmerged' = [unmerged EXCEPT ![m] = {}]
            /\ UNCHANGED mergeHead
  BY DEF PullStoreForce, files
<1>4. pc[m] = "idle"
  BY DEF PullStoreForce
<1> HIDE DEF target, w
<1>5. TypeOK'
  <2>1. CASE UNCHANGED <<head, files>>
    BY <1>3, <2>1, FetchTagsType DEF TypeOK, objects, remote, session, files
  <2>2. CASE /\ head' = [head EXCEPT ![m] = remoteHead]
             /\ work' = [work EXCEPT ![m] = w]
             /\ idx' = [idx EXCEPT ![m] = target]
             /\ unmerged' = [unmerged EXCEPT ![m] = {}]
             /\ UNCHANGED mergeHead
    BY <1>1, <1>2, <1>3, <2>2, FetchTagsType DEF TypeOK, objects, remote, session
  <2> QED
    BY <1>3, <2>1, <2>2
<1>6. MergeOK' /\ StagedOK' /\ VerOK'
  BY <1>3, <1>4 DEF MergeOK, StagedOK, VerOK, TypeOK, session, files
<1> QED
  BY <1>5, <1>6

LEMMA NukePasswordsType ==
  ASSUME TypeInv, NEW m \in Machine, NEW r \in BOOLEAN, NukePasswords(m, r)
  PROVE  TypeInv'
<1> USE DEF TypeInv
<1> DEFINE v == NextVersion(m)
           s == [f \in File |-> IF f \in Entry THEN Absent ELSE work[m][f]]
           t == WithSum(s, v)
<1>1. s \in Tree
  <2>1. SumFile \in File /\ SumFile \notin Entry /\ \A e \in Entry : e \in File
    BY StoreTreeAssumption DEF File
  <2>2. s[SumFile] \in SumContent
    BY <2>1, TreeElim DEF TypeOK
  <2>3. \A e \in Entry : s[e] \in EntryContent
    BY <2>1 DEF EntryContent
  <2> QED
    BY <2>2, <2>3, TreeIntro
<1>2. v \in Version
  BY DEF NukePasswords
<1>3. t \in Tree
  <2> HIDE DEF s, v
  <2> QED
    BY <1>1, <1>2, WithSumTree
<1>4. /\ mergeHead[m] = 0
      /\ pc[m] = "idle"
      /\ writes < MaxWrites /\ writes' = writes + 1
      /\ Checkout(m, t)
      /\ UNCHANGED <<remote, origin, mergeHead, tag>>
      /\ \/ UNCHANGED <<objects, head, session>>
         \/ /\ MakeCommit(m, t, 0)
            /\ \/ Goto(m, "push") /\ SetMode(m, "nuke") /\ SetVer(m, v)
               \/ UNCHANGED session
  BY DEF NukePasswords, Write
<1> HIDE DEF v, s, t
<1>5. writes' \in 0..MaxWrites
  BY <1>4, GitSyncAssumption DEF TypeOK
<1>6. /\ commits' \in Commit
      /\ tree' \in [Commit -> Tree]
      /\ anc' \in [Commit -> SUBSET Commit]
      /\ head' \in [Machine -> Commit]
  BY <1>3, <1>4, MakeCommitType, RefIsCommit DEF TypeOK, objects
<1>7. /\ work' \in [Machine -> Tree]
      /\ idx' \in [Machine -> Tree]
      /\ unmerged' \in [Machine -> SUBSET File]
  BY <1>3, <1>4, CheckoutType
<1>8. pc' \in [Machine -> Step] /\ mode' \in [Machine -> Mode]
      /\ ver' \in [Machine -> Version \union {0}]
  <2>1. CASE UNCHANGED session
    BY <2>1 DEF TypeOK, session
  <2>2. CASE Goto(m, "push") /\ SetMode(m, "nuke") /\ SetVer(m, v)
    BY <1>2, <2>2 DEF TypeOK, Goto, SetMode, SetVer, Step, Mode
  <2> QED
    BY <1>4, <2>1, <2>2
<1>9. TypeOK'
  BY <1>4, <1>5, <1>6, <1>7, <1>8 DEF TypeOK, remote
<1>10. MergeOK' /\ StagedOK' /\ VerOK'
  BY <1>4 DEF MergeOK, StagedOK, VerOK, TypeOK, session, Checkout, Goto, SetMode, SetVer
<1> QED
  BY <1>9, <1>10

LEMMA StageChangesType ==
  ASSUME TypeInv, NEW m \in Machine, StageChanges(m)
  PROVE  TypeInv'
<1> USE DEF TypeInv
<1> DEFINE v == NextVersion(m)
           t == WithSum(work[m], v)
<1>1. /\ pc[m] = "stage"
      /\ UNCHANGED <<writes, objects, remote, head, origin, mergeHead, tag, mode>>
      /\ \/ Goto(m, "track") /\ UNCHANGED <<work, idx, unmerged, ver>>
         \/ /\ v \in Version
            /\ Checkout(m, t)
            /\ SetVer(m, v)
            /\ Goto(m, "commit")
  BY DEF StageChanges
<1>2. v \in Version => t \in Tree
  BY WithSumTree DEF TypeOK
<1> HIDE DEF v, t
<1>3. /\ work' \in [Machine -> Tree]
      /\ idx' \in [Machine -> Tree]
      /\ unmerged' \in [Machine -> SUBSET File]
  BY <1>1, <1>2, CheckoutType DEF TypeOK
<1>4. pc' \in [Machine -> Step] /\ ver' \in [Machine -> Version \union {0}]
  <2>1. CASE Goto(m, "track") /\ UNCHANGED ver
    BY <2>1 DEF TypeOK, Goto, Step
  <2>2. CASE Goto(m, "commit") /\ SetVer(m, v) /\ v \in Version
    BY <2>2 DEF TypeOK, Goto, SetVer, Step
  <2> QED
    BY <1>1, <2>1, <2>2
<1>5. TypeOK'
  BY <1>1, <1>3, <1>4 DEF TypeOK, objects, remote
<1>6. MergeOK' /\ StagedOK' /\ VerOK'
  <2>1. CASE Goto(m, "track") /\ UNCHANGED <<work, idx, unmerged, ver>>
    BY <1>1, <2>1 DEF MergeOK, StagedOK, VerOK, TypeOK, Goto
  <2>2. CASE Checkout(m, t) /\ SetVer(m, v) /\ Goto(m, "commit")
    <3>1. work'[m] = t /\ idx'[m] = t /\ unmerged'[m] = {}
      BY <2>2 DEF TypeOK, Checkout
    <3>2. \A x \in Machine : x # m =>
            /\ work'[x] = work[x] /\ idx'[x] = idx[x] /\ unmerged'[x] = unmerged[x]
            /\ pc'[x] = pc[x] /\ ver'[x] = ver[x]
      BY <2>2 DEF TypeOK, Checkout, Goto, SetVer
    <3>3. pc'[m] = "commit"
      BY <2>2 DEF TypeOK, Goto
    <3> QED
      BY <1>1, <3>1, <3>2, <3>3 DEF MergeOK, StagedOK, VerOK
  <2> QED
    BY <1>1, <2>1, <2>2
<1> QED
  BY <1>5, <1>6

LEMMA CommitStagedType ==
  ASSUME TypeInv, NEW m \in Machine, CommitStaged(m)
  PROVE  TypeInv'
<1> USE DEF TypeInv
<1>1. idx[m] \in Tree /\ mergeHead[m] \in Ref
  BY DEF TypeOK
<1>2. /\ commits' \in Commit
      /\ tree' \in [Commit -> Tree]
      /\ anc' \in [Commit -> SUBSET Commit]
      /\ head' \in [Machine -> Commit]
  BY <1>1, MakeCommitType DEF CommitStaged, TypeOK, objects
<1>3. mergeHead' \in [Machine -> Ref]
  BY RefIsCommit DEF CommitStaged, TypeOK
<1>4. TypeOK'
  BY <1>2, <1>3 DEF TypeOK, CommitStaged, Goto, Step, remote
<1>5. MergeOK' /\ StagedOK' /\ VerOK'
  BY DEF MergeOK, StagedOK, VerOK, TypeOK, CommitStaged, Goto
<1> QED
  BY <1>4, <1>5

LEMMA TrackVersionType ==
  ASSUME TypeInv, NEW m \in Machine, TrackVersion(m)
  PROVE  TypeInv'
<1> USE DEF TypeInv
<1> DEFINE t == TrackedTree(m)
           v == NextVersion(m)
<1>1. t \in Tree /\ v \in Version
  BY WithSumTree DEF TypeOK, TrackedTree, TrackVersion
<1>2. /\ pc[m] = "track"
      /\ Checkout(m, t)
      /\ UNCHANGED <<writes, remote, origin, tag>>
      /\ \/ UNCHANGED <<objects, head, mergeHead>> /\ Leave(m)
         \/ /\ MakeCommit(m, t, mergeHead[m])
            /\ mergeHead' = [mergeHead EXCEPT ![m] = 0]
            /\ SetVer(m, v)
            /\ AfterTracking(m)
            /\ UNCHANGED mode
  BY DEF TrackVersion, NeedsTracking
<1> HIDE DEF t, v
<1>3. mergeHead[m] \in Ref /\ mergeHead' \in [Machine -> Ref]
  BY <1>2, RefIsCommit DEF TypeOK
<1>4. /\ commits' \in Commit
      /\ tree' \in [Commit -> Tree]
      /\ anc' \in [Commit -> SUBSET Commit]
      /\ head' \in [Machine -> Commit]
  BY <1>1, <1>2, <1>3, MakeCommitType DEF TypeOK, objects
<1>5. /\ work' \in [Machine -> Tree]
      /\ idx' \in [Machine -> Tree]
      /\ unmerged' \in [Machine -> SUBSET File]
  BY <1>1, <1>2, CheckoutType
<1>6. /\ pc' \in [Machine -> Step]
      /\ pc'[m] \in {"idle", "merge", "pull", "push"}
      /\ \A x \in Machine : x # m => pc'[x] = pc[x]
  BY <1>2 DEF TypeOK, Leave, AfterTracking, Goto, Step
<1>7. /\ mode' \in [Machine -> Mode]
      /\ ver' \in [Machine -> Version \union {0}]
      /\ \A x \in Machine : x # m => ver'[x] = ver[x]
  <2>1. CASE Leave(m)
    BY <2>1 DEF TypeOK, Leave, SetMode, SetVer, Mode
  <2>2. CASE SetVer(m, v) /\ UNCHANGED mode
    BY <1>1, <2>2 DEF TypeOK, SetVer
  <2> QED
    BY <1>2, <2>1, <2>2
<1>8. TypeOK'
  BY <1>2, <1>3, <1>4, <1>5, <1>6, <1>7 DEF TypeOK, remote
<1>9. MergeOK' /\ StagedOK' /\ VerOK'
  BY <1>2, <1>6, <1>7 DEF MergeOK, StagedOK, VerOK, TypeOK, Checkout
<1> QED
  BY <1>8, <1>9

LEMMA PullType ==
  ASSUME TypeInv, NEW m \in Machine, Pull(m)
  PROVE  TypeInv'
<1> USE DEF TypeInv
<1> DEFINE b == tree[MergeBase(head[m], remoteHead)]
           o == tree[head[m]]
           t == tree[remoteHead]
<1>1. o \in Tree /\ t \in Tree /\ remoteHead \in Commit /\ remoteHead \in Ref
  BY RefIsCommit DEF TypeOK
<1>2. Merged(b, o, t) \in Tree
  BY <1>1, MergedTree
<1>3. UNCHANGED <<writes, remote, tag>> /\ pc[m] = "pull"
  BY DEF Pull
<1>4. CASE Leave(m) /\ UNCHANGED <<objects, head, origin, files>>
  <2>1. TypeOK'
    BY <1>3, <1>4 DEF TypeOK, Leave, Goto, SetMode, SetVer, Step, Mode, objects, remote, files
  <2>2. MergeOK' /\ StagedOK' /\ VerOK'
    BY <1>4 DEF MergeOK, StagedOK, VerOK, TypeOK, Leave, Goto, SetMode, SetVer, files
  <2> QED
    BY <2>1, <2>2
<1>5. CASE /\ origin' = [origin EXCEPT ![m] = remoteHead]
           /\ Stay
           /\ Goto(m, "push") \/ Goto(m, "review")
           /\ \/ UNCHANGED <<objects, head, files>>
              \/ /\ head' = [head EXCEPT ![m] = remoteHead]
                 /\ Checkout(m, t)
                 /\ UNCHANGED <<objects, mergeHead>>
              \/ /\ MakeCommit(m, Merged(b, o, t), remoteHead)
                 /\ Checkout(m, Merged(b, o, t))
                 /\ UNCHANGED mergeHead
              \/ BeginMerge(m, remoteHead) /\ UNCHANGED <<objects, head>>
  <2> HIDE DEF b, o, t
  <2>1. /\ origin' \in [Machine -> Commit]
        /\ pc' \in [Machine -> Step]
        /\ pc'[m] \in {"push", "review"}
        /\ \A x \in Machine : x # m => pc'[x] = pc[x]
        /\ UNCHANGED <<mode, ver>>
    BY <1>1, <1>5 DEF TypeOK, Goto, Step, Stay
  <2>2. CASE UNCHANGED <<objects, head, files>>
    <3>1. TypeOK'
      BY <1>3, <2>1, <2>2 DEF TypeOK, objects, remote, files
    <3>2. MergeOK' /\ StagedOK' /\ VerOK'
      BY <2>1, <2>2 DEF MergeOK, StagedOK, VerOK, files
    <3> QED
      BY <3>1, <3>2
  <2>3. CASE /\ head' = [head EXCEPT ![m] = remoteHead]
             /\ Checkout(m, t)
             /\ UNCHANGED <<objects, mergeHead>>
    <3>1. TypeOK'
      BY <1>1, <1>3, <2>1, <2>3, CheckoutType DEF TypeOK, objects, remote
    <3>2. MergeOK' /\ StagedOK' /\ VerOK'
      BY <2>1, <2>3 DEF MergeOK, StagedOK, VerOK, TypeOK, Checkout
    <3> QED
      BY <3>1, <3>2
  <2>4. CASE /\ MakeCommit(m, Merged(b, o, t), remoteHead)
             /\ Checkout(m, Merged(b, o, t))
             /\ UNCHANGED mergeHead
    <3>1. TypeOK'
      BY <1>1, <1>2, <1>3, <2>1, <2>4, CheckoutType, MakeCommitType DEF TypeOK, remote
    <3>2. MergeOK' /\ StagedOK' /\ VerOK'
      BY <2>1, <2>4 DEF MergeOK, StagedOK, VerOK, TypeOK, Checkout
    <3> QED
      BY <3>1, <3>2
  <2>5. CASE BeginMerge(m, remoteHead) /\ UNCHANGED <<objects, head>>
    <3>1. /\ work' \in [Machine -> Tree]
          /\ idx' \in [Machine -> Tree]
          /\ unmerged' \in [Machine -> SUBSET File]
          /\ mergeHead' = [mergeHead EXCEPT ![m] = remoteHead]
          /\ \A x \in Machine : x # m => unmerged'[x] = unmerged[x]
      BY <1>1, <2>5, BeginMergeType
    <3>2. TypeOK'
      BY <1>1, <1>3, <2>1, <2>5, <3>1 DEF TypeOK, objects, remote
    <3>3. remoteHead # 0
      BY GitSyncAssumption DEF TypeOK, Commit
    <3>4. \A x \in Machine : x # m => work'[x] = work[x] /\ idx'[x] = idx[x]
      BY <2>5 DEF BeginMerge, TypeOK
    <3>5. MergeOK' /\ StagedOK' /\ VerOK'
      BY <2>1, <3>1, <3>3, <3>4 DEF MergeOK, StagedOK, VerOK, TypeOK
    <3> QED
      BY <3>2, <3>5
  <2> QED
    BY <1>5, <2>2, <2>3, <2>4, <2>5
<1> HIDE DEF b, o, t
<1> QED
  BY <1>4, <1>5 DEF Pull, b, o, t

LEMMA StartMergeType ==
  ASSUME TypeInv, NEW m \in Machine, StartMerge(m)
  PROVE  TypeInv'
<1> USE DEF TypeInv
<1>1. /\ Goto(m, "review")
      /\ UNCHANGED <<writes, objects, remote, head, origin, tag, mode, ver>>
      /\ UNCHANGED files \/ BeginMerge(m, origin[m])
  BY DEF StartMerge
<1>2. /\ pc' \in [Machine -> Step]
      /\ pc'[m] = "review"
      /\ \A x \in Machine : x # m => pc'[x] = pc[x]
  BY <1>1 DEF TypeOK, Goto, Step
<1>3. CASE UNCHANGED files
  <2>1. TypeOK'
    BY <1>1, <1>2, <1>3 DEF TypeOK, objects, remote, files
  <2>2. MergeOK' /\ StagedOK' /\ VerOK'
    BY <1>1, <1>2, <1>3 DEF MergeOK, StagedOK, VerOK, files
  <2> QED
    BY <2>1, <2>2
<1>4. CASE BeginMerge(m, origin[m])
  <2>1. origin[m] \in Commit /\ origin[m] \in Ref /\ origin[m] # 0
    BY RefIsCommit, GitSyncAssumption DEF TypeOK, Commit
  <2>2. /\ work' \in [Machine -> Tree]
        /\ idx' \in [Machine -> Tree]
        /\ unmerged' \in [Machine -> SUBSET File]
        /\ mergeHead' = [mergeHead EXCEPT ![m] = origin[m]]
        /\ \A x \in Machine : x # m => unmerged'[x] = unmerged[x]
    BY <1>4, <2>1, BeginMergeType
  <2>3. TypeOK'
    BY <1>1, <1>2, <2>1, <2>2 DEF TypeOK, objects, remote
  <2>4. \A x \in Machine : x # m => work'[x] = work[x] /\ idx'[x] = idx[x]
    BY <1>4 DEF BeginMerge, TypeOK
  <2>5. MergeOK' /\ StagedOK' /\ VerOK'
    BY <1>1, <1>2, <2>1, <2>2, <2>4 DEF MergeOK, StagedOK, VerOK, TypeOK
  <2> QED
    BY <2>3, <2>5
<1> QED
  BY <1>1, <1>3, <1>4

LEMMA ResolveType ==
  ASSUME TypeInv, NEW m \in Machine, NEW f \in File, NEW c, Resolve(m, f, c),
         f = SumFile => c \in SumContent,
         f \in Entry => c \in EntryContent,
         pc[m] = "review",
         UNCHANGED <<writes, objects, remote, head, origin, tag>>
  PROVE  TypeInv'
<1> USE DEF TypeInv
<1>1. [work[m] EXCEPT ![f] = c] \in Tree /\ [idx[m] EXCEPT ![f] = c] \in Tree
  BY ExceptTree DEF TypeOK
<1>2. CASE Leave(m) /\ UNCHANGED files
  <2>1. TypeOK'
    BY <1>2 DEF TypeOK, Leave, Goto, SetMode, SetVer, Step, Mode, objects, remote, files
  <2>2. MergeOK' /\ StagedOK' /\ VerOK'
    BY <1>2 DEF MergeOK, StagedOK, VerOK, TypeOK, Leave, Goto, SetMode, SetVer, files
  <2> QED
    BY <2>1, <2>2
<1>3. CASE /\ work' = [work EXCEPT ![m] = [work[m] EXCEPT ![f] = c]]
           /\ idx' = [idx EXCEPT ![m] = [idx[m] EXCEPT ![f] = c]]
           /\ unmerged' = [unmerged EXCEPT ![m] = unmerged[m] \ {f}]
           /\ UNCHANGED <<mergeHead, session>>
  <2>1. TypeOK'
    BY <1>1, <1>3 DEF TypeOK, objects, remote, session
  <2>2. MergeOK' /\ StagedOK' /\ VerOK'
    BY <1>3 DEF MergeOK, StagedOK, VerOK, TypeOK, session
  <2> QED
    BY <2>1, <2>2
<1> QED
  BY <1>2, <1>3 DEF Resolve

\* Whatever side the user keeps, the file gets a content of its kind: this
\* rests on MergeOK, for "theirs" of an unmerged path is read from MERGE_HEAD.
LEMMA KeepSideType ==
  ASSUME TypeInv, NEW m \in Machine, NEW f \in File, NEW side \in BOOLEAN,
         KeepSide(m, f, side)
  PROVE  TypeInv'
<1> DEFINE c == ChosenContent(m, f, side)
<1>1. /\ tree[head[m]] \in Tree /\ tree[origin[m]] \in Tree /\ idx[m] \in Tree
      /\ f \in unmerged[m] => tree[mergeHead[m]] \in Tree
  BY RefIsCommit DEF TypeInv, TypeOK, MergeOK
<1>2. \/ c \in {tree[head[m]][f], tree[origin[m]][f], idx[m][f]}
      \/ f \in unmerged[m] /\ c = tree[mergeHead[m]][f]
  BY DEF ChosenContent
<1>3. (f = SumFile => c \in SumContent) /\ (f \in Entry => c \in EntryContent)
  <2> HIDE DEF c
  <2> QED
    BY <1>1, <1>2, TreeElim
<1>4. Resolve(m, f, c) /\ pc[m] = "review"
      /\ UNCHANGED <<writes, objects, remote, head, origin, tag>>
  BY DEF KeepSide
<1> HIDE DEF c
<1> QED
  BY <1>3, <1>4, ResolveType

LEMMA EditFileType ==
  ASSUME TypeInv, NEW m \in Machine, NEW f \in File, NEW c, EditFile(m, f, c)
  PROVE  TypeInv'
<1>1. (f = SumFile => c \in SumContent) /\ (f \in Entry => c \in EntryContent)
  BY TreeElim, StoreTreeAssumption DEF TypeInv, TypeOK, EntryContent, EditFile
<1>2. Resolve(m, f, c) /\ pc[m] = "review"
      /\ UNCHANGED <<writes, objects, remote, head, origin, tag>>
  BY DEF EditFile
<1> QED
  BY <1>1, <1>2, ResolveType

LEMMA AbortReviewType ==
  ASSUME TypeInv, NEW m \in Machine, AbortReview(m)
  PROVE  TypeInv'
<1> USE DEF TypeInv
<1>1. /\ Leave(m)
      /\ UNCHANGED <<writes, objects, remote, head, origin, tag>>
      /\ \/ UNCHANGED files
         \/ Checkout(m, tree[head[m]]) /\ mergeHead' = [mergeHead EXCEPT ![m] = 0]
  BY DEF AbortReview
<1>2. /\ work' \in [Machine -> Tree]
      /\ idx' \in [Machine -> Tree]
      /\ unmerged' \in [Machine -> SUBSET File]
      /\ mergeHead' \in [Machine -> Ref]
  <2>1. CASE UNCHANGED files
    BY <2>1 DEF TypeOK, files
  <2>2. CASE Checkout(m, tree[head[m]]) /\ mergeHead' = [mergeHead EXCEPT ![m] = 0]
    <3>1. tree[head[m]] \in Tree
      BY DEF TypeOK
    <3>2. mergeHead' \in [Machine -> Ref]
      BY <2>2, RefIsCommit DEF TypeOK
    <3> QED
      BY <2>2, <3>1, <3>2, CheckoutType
  <2> QED
    BY <1>1, <2>1, <2>2
<1>3. TypeOK'
  BY <1>1, <1>2 DEF TypeOK, Leave, Goto, SetMode, SetVer, Step, Mode, objects, remote
<1>4. MergeOK' /\ StagedOK' /\ VerOK'
  BY <1>1 DEF MergeOK, StagedOK, VerOK, TypeOK, Leave, Goto, SetMode, SetVer, files, Checkout
<1> QED
  BY <1>3, <1>4

LEMMA FinalizeMergeCommitType ==
  ASSUME TypeInv, NEW m \in Machine, FinalizeMergeCommit(m)
  PROVE  TypeInv'
<1> USE DEF TypeInv
<1> DEFINE v == IF ver[m] = 0 THEN NextVersion(m) ELSE ver[m]
           t == WithSum(work[m], v)
<1>1. /\ UNCHANGED <<writes, remote, origin, tag>>
      /\ \/ Goto(m, "done") /\ Stay /\ UNCHANGED <<objects, head, files>>
         \/ /\ v \in Version
            /\ Checkout(m, t)
            /\ MakeCommit(m, t, mergeHead[m])
            /\ mergeHead' = [mergeHead EXCEPT ![m] = 0]
            /\ SetVer(m, v)
            /\ Goto(m, "push")
            /\ UNCHANGED mode
  BY DEF FinalizeMergeCommit
<1>2. v \in Version => t \in Tree
  <2> HIDE DEF v
  <2> QED
    BY WithSumTree DEF TypeOK
<1> HIDE DEF v, t
<1>3. CASE Goto(m, "done") /\ Stay /\ UNCHANGED <<objects, head, files>>
  <2>1. TypeOK'
    BY <1>1, <1>3 DEF TypeOK, Goto, Stay, Step, objects, remote, files
  <2>2. MergeOK' /\ StagedOK' /\ VerOK'
    BY <1>3 DEF MergeOK, StagedOK, VerOK, TypeOK, Goto, Stay, files
  <2> QED
    BY <2>1, <2>2
<1>4. CASE /\ v \in Version
           /\ Checkout(m, t)
           /\ MakeCommit(m, t, mergeHead[m])
           /\ mergeHead' = [mergeHead EXCEPT ![m] = 0]
           /\ SetVer(m, v)
           /\ Goto(m, "push")
           /\ UNCHANGED mode
  <2>1. mergeHead[m] \in Ref /\ mergeHead' \in [Machine -> Ref]
    BY <1>4, RefIsCommit DEF TypeOK
  <2>2. /\ work' \in [Machine -> Tree]
        /\ idx' \in [Machine -> Tree]
        /\ unmerged' \in [Machine -> SUBSET File]
    BY <1>2, <1>4, CheckoutType
  <2>3. /\ commits' \in Commit
        /\ tree' \in [Commit -> Tree]
        /\ anc' \in [Commit -> SUBSET Commit]
        /\ head' \in [Machine -> Commit]
    BY <1>2, <1>4, <2>1, MakeCommitType
  <2>4. TypeOK'
    BY <1>1, <1>4, <2>1, <2>2, <2>3 DEF TypeOK, Goto, SetVer, Step, remote
  <2>5. MergeOK' /\ StagedOK' /\ VerOK'
    BY <1>1, <1>4 DEF MergeOK, StagedOK, VerOK, TypeOK, Checkout, Goto, SetVer
  <2> QED
    BY <2>4, <2>5
<1> QED
  BY <1>1, <1>3, <1>4

LEMMA TypeStep == TypeInv /\ [Next]_vars => TypeInv'
<1> SUFFICES ASSUME TypeInv, [Next]_vars PROVE TypeInv'
  OBVIOUS
<1>1. CASE UNCHANGED vars
  BY <1>1 DEF TypeInv, TypeOK, MergeOK, StagedOK, VerOK, vars, objects, remote, files, session
<1>2. ASSUME NEW m \in Machine, Outside(m) PROVE TypeInv'
  BY <1>2, PassWriteType, LeaveUncommittedType DEF Outside
<1>3. ASSUME NEW m \in Machine, Menu(m) PROVE TypeInv'
  BY <1>3, LightType, PullStoreForceType, NukePasswordsType DEF Menu
<1>4. ASSUME NEW m \in Machine, Review(m) PROVE TypeInv'
  BY <1>4, KeepSideType, EditFileType, AbortReviewType, FinalizeMergeCommitType DEF Review
<1>5. ASSUME NEW m \in Machine, Engine(m) PROVE TypeInv'
  BY <1>5, LightType, StageChangesType, CommitStagedType, TrackVersionType,
     StartMergeType, PullType DEF Engine
<1>6. ASSUME NEW m \in Machine, Stop(m) PROVE TypeInv'
  BY <1>6, LightType
<1> QED
  BY <1>1, <1>2, <1>3, <1>4, <1>5, <1>6 DEF Next

LEMMA TypeInvariant == Spec => []TypeInv
<1>1. Init => TypeInv
  BY InitType
<1>2. TypeInv /\ [Next]_vars => TypeInv'
  BY TypeStep
<1> QED
  BY <1>1, <1>2, PTL DEF Spec

\* Every variable of the sync engine keeps its type: in particular the index
\* and the worktree always hold whole trees, and MERGE_HEAD names a commit
\* whenever a path is unmerged.
THEOREM TypeCorrect == Spec => [](TypeOK /\ MergeOK)
<1>1. TypeInv => TypeOK /\ MergeOK
  BY DEF TypeInv
<1> QED
  BY <1>1, TypeInvariant, PTL

-----------------------------------------------------------------------------
(* What the sync engine does to history: published commits are dropped only *)
(* by a forced push, local ones only by a forced pull, tags name published *)
(* commits, and GitSync implements SharedHistory.                          *)

\* Only a user who forces runs a forced operation.
ModeOK == \A m \in Machine : mode[m] \in {"push", "nuke"} => m \in Forcing

\* Every reference names a commit that has been made.
RefsOK ==
  /\ remoteHead \in 1..commits
  /\ \A m \in Machine :
       head[m] \in 1..commits /\ origin[m] \in 1..commits /\ mergeHead[m] \in 0..commits

\* Ancestry is reflexive and transitive on the commits made so far.
AncOK ==
  \A c \in 1..commits :
    /\ c \in anc[c]
    /\ anc[c] \subseteq 1..commits
    /\ \A d \in anc[c] : anc[d] \subseteq anc[c]

\* What a clone knows of origin was there once.
PublishedOK ==
  /\ published \subseteq 1..commits
  /\ remoteHead \in published
  /\ \A c \in published : anc[c] \subseteq published
  /\ \A m \in Machine : origin[m] \in published /\ mergeHead[m] \in published \union {0}

\* Tags are made after the push.
TagOK ==
  /\ \A m \in Machine : pc[m] \in {"tag", "pushtag"} => head[m] \in published
  /\ \A m \in Machine, v \in Version : tag[m][v] \in published \union {0}
  /\ \A v \in Version : remoteTag[v] \in published \union {0}

\* Version tracking leaves a clean worktree to every step after it.
CleanOK == \A m \in Machine : pc[m] \in {"track", "merge", "pull"} => Clean(m)

GraphOK  == RefsOK /\ AncOK /\ PublishedOK
GraphInv == GraphOK /\ ModeOK /\ TagOK /\ CleanOK

-----------------------------------------------------------------------------
(* Every step moves the commits and the references in one of two ways.     *)

\* A commit on HEAD, a fast-forward or a reset to origin, or neither; the
\* clone may learn where origin is, and begin or end a merge.
LocalMove(m) ==
  /\ UNCHANGED <<remoteHead, published>>
  /\ \/ UNCHANGED <<objects, head>>
     \/ /\ UNCHANGED objects
        /\ head' = [head EXCEPT ![m] = remoteHead]
        /\ head[m] \in anc[remoteHead] \/ PullStoreForce(m)
     \/ \E t \in Tree, other \in {0, mergeHead[m], remoteHead} : MakeCommit(m, t, other)
  /\ \E o \in {origin[m], remoteHead} : origin' = [origin EXCEPT ![m] = o]
  /\ \E h \in {0, mergeHead[m], remoteHead, origin[m]} : mergeHead' = [mergeHead EXCEPT ![m] = h]

\* The branch at origin becomes HEAD.
PushMove(m) ==
  /\ pc[m] = "push"
  /\ UNCHANGED <<objects, head, mergeHead>>
  /\ remoteHead \in anc[head[m]] \/ mode[m] \in {"push", "nuke"}
  /\ remoteHead' = head[m]
  /\ published' = published \union anc[head[m]]
  /\ origin' = [origin EXCEPT ![m] = head[m]]

LEMMA OutsideMove ==
  ASSUME TypeInv, NEW m \in Machine, Outside(m)
  PROVE  LocalMove(m)
<1>1. PICK e \in Entry, c \in EntryContent : PassWrite(m, e, c) \/ LeaveUncommitted(m, e, c)
  BY DEF Outside
<1>2. origin' = [origin EXCEPT ![m] = origin[m]] /\ UNCHANGED <<remoteHead, published>>
  BY <1>1 DEF PassWrite, LeaveUncommitted, remote, TypeInv, TypeOK
<1>3. \E h \in {0, mergeHead[m]} : mergeHead' = [mergeHead EXCEPT ![m] = h]
  BY <1>1 DEF PassWrite, LeaveUncommitted, TypeInv, TypeOK
<1>4. \/ UNCHANGED <<objects, head>>
      \/ \E t \in Tree : MakeCommit(m, t, mergeHead[m])
  <2>1. [idx[m] EXCEPT ![e] = c] \in Tree
    BY ExceptTree, StoreTreeAssumption DEF TypeInv, TypeOK, File
  <2> QED
    BY <1>1, <2>1 DEF PassWrite, LeaveUncommitted
<1> QED
  BY <1>2, <1>3, <1>4 DEF LocalMove

\* Nothing moves but what is known of origin.
LEMMA FetchMove ==
  ASSUME TypeInv, NEW m \in Machine, UNCHANGED <<objects, head, mergeHead, remoteHead, published>>,
         UNCHANGED origin \/ FetchTags(m)
  PROVE  LocalMove(m)
<1>1. \E o \in {origin[m], remoteHead} : origin' = [origin EXCEPT ![m] = o]
  BY DEF FetchTags, TypeInv, TypeOK
<1>2. \E h \in {0, mergeHead[m], remoteHead, origin[m]} : mergeHead' = [mergeHead EXCEPT ![m] = h]
  BY DEF TypeInv, TypeOK
<1> QED
  BY <1>1, <1>2 DEF LocalMove

\* A commit is made, and the merge in progress is concluded or not.
LEMMA CommitMove ==
  ASSUME TypeInv, NEW m \in Machine, NEW t \in Tree, NEW other \in {0, mergeHead[m], remoteHead},
         MakeCommit(m, t, other),
         UNCHANGED mergeHead \/ mergeHead' = [mergeHead EXCEPT ![m] = 0],
         UNCHANGED origin \/ origin' = [origin EXCEPT ![m] = remoteHead],
         UNCHANGED <<remoteHead, published>>
  PROVE  LocalMove(m)
<1>1. \E o \in {origin[m], remoteHead} : origin' = [origin EXCEPT ![m] = o]
  BY DEF TypeInv, TypeOK
<1>2. \E h \in {0, mergeHead[m], remoteHead, origin[m]} : mergeHead' = [mergeHead EXCEPT ![m] = h]
  BY DEF TypeInv, TypeOK
<1> QED
  BY <1>1, <1>2 DEF LocalMove

LEMMA MenuMove ==
  ASSUME TypeInv, NEW m \in Machine, Menu(m)
  PROVE  LocalMove(m)
<1>1. CASE SyncStore(m) \/ PushStoreForce(m) \/ FetchStorePreview(m)
  BY <1>1, FetchMove DEF SyncStore, PushStoreForce, FetchStorePreview, remote, files
<1>2. CASE PullStoreForce(m)
  <2>1. CASE UNCHANGED head
    BY <1>2, <2>1, FetchMove DEF PullStoreForce, remote, files
  <2>2. CASE head' = [head EXCEPT ![m] = remoteHead]
    <3>1. \E o \in {origin[m], remoteHead} : origin' = [origin EXCEPT ![m] = o]
      BY <1>2 DEF PullStoreForce, FetchTags
    <3>2. \E h \in {0, mergeHead[m]} : mergeHead' = [mergeHead EXCEPT ![m] = h]
      BY <1>2 DEF PullStoreForce, files, TypeInv, TypeOK
    <3>3. UNCHANGED <<objects, remoteHead, published>>
      BY <1>2 DEF PullStoreForce, remote
    <3> QED
      BY <1>2, <2>2, <3>1, <3>2, <3>3 DEF LocalMove
  <2> QED
    BY <1>2, <2>1, <2>2 DEF PullStoreForce
<1>3. ASSUME NEW r \in BOOLEAN, NukePasswords(m, r) PROVE LocalMove(m)
  <2> DEFINE v == NextVersion(m)
             s == [f \in File |-> IF f \in Entry THEN Absent ELSE work[m][f]]
             t == WithSum(s, v)
  <2>1. s \in Tree
    <3>1. SumFile \in File /\ SumFile \notin Entry /\ \A e \in Entry : e \in File
      BY StoreTreeAssumption DEF File
    <3>2. s[SumFile] \in SumContent
      BY <3>1, TreeElim DEF TypeInv, TypeOK
    <3>3. \A e \in Entry : s[e] \in EntryContent
      BY <3>1 DEF EntryContent
    <3> QED
      BY <3>2, <3>3, TreeIntro
  <2>2. v \in Version
    BY <1>3 DEF NukePasswords
  <2>3. t \in Tree
    <3> HIDE DEF s, v
    <3> QED
      BY <2>1, <2>2, WithSumTree
  <2>4. /\ UNCHANGED <<remote, origin, mergeHead>>
        /\ UNCHANGED <<objects, head>> \/ MakeCommit(m, t, 0)
    BY <1>3 DEF NukePasswords
  <2> HIDE DEF t
  <2> QED
    BY <2>3, <2>4, FetchMove, CommitMove DEF remote
<1> QED
  BY <1>1, <1>2, <1>3 DEF Menu

LEMMA ReviewMove ==
  ASSUME TypeInv, NEW m \in Machine, Review(m)
  PROVE  LocalMove(m)
<1>1. ASSUME NEW f \in File, NEW side \in BOOLEAN, KeepSide(m, f, side) PROVE LocalMove(m)
  BY <1>1, FetchMove DEF KeepSide, Resolve, remote, files
<1>2. ASSUME NEW f \in File, NEW c, EditFile(m, f, c) PROVE LocalMove(m)
  BY <1>2, FetchMove DEF EditFile, Resolve, files, remote
<1>3. CASE AbortReview(m)
  <2>1. /\ UNCHANGED <<objects, head, origin, remoteHead, published>>
        /\ UNCHANGED mergeHead \/ mergeHead' = [mergeHead EXCEPT ![m] = 0]
    BY <1>3 DEF AbortReview, remote, files
  <2>2. origin' = [origin EXCEPT ![m] = origin[m]]
    BY <2>1 DEF TypeInv, TypeOK
  <2>3. \E h \in {0, mergeHead[m]} : mergeHead' = [mergeHead EXCEPT ![m] = h]
    BY <2>1 DEF TypeInv, TypeOK
  <2> QED
    BY <2>1, <2>2, <2>3 DEF LocalMove
<1>4. CASE FinalizeMergeCommit(m)
  <2> DEFINE v == IF ver[m] = 0 THEN NextVersion(m) ELSE ver[m]
             t == WithSum(work[m], v)
  <2>1. /\ UNCHANGED <<origin, remoteHead, published>>
        /\ \/ UNCHANGED <<objects, head, mergeHead>>
           \/ /\ v \in Version
              /\ MakeCommit(m, t, mergeHead[m])
              /\ mergeHead' = [mergeHead EXCEPT ![m] = 0]
    BY <1>4 DEF FinalizeMergeCommit, remote, files
  <2>2. v \in Version => t \in Tree
    <3> HIDE DEF v
    <3> QED
      BY WithSumTree DEF TypeInv, TypeOK
  <2> HIDE DEF v, t
  <2> QED
    BY <2>1, <2>2, FetchMove, CommitMove
<1> QED
  BY <1>1, <1>2, <1>3, <1>4 DEF Review

LEMMA EngineMove ==
  ASSUME TypeInv, NEW m \in Machine, Engine(m)
  PROVE  LocalMove(m) \/ PushMove(m)
<1>1. CASE Fetch(m) \/ VersionKnown(m) \/ CreateTag(m) \/ PushTag(m) \/ Dismiss(m)
  BY <1>1, FetchMove DEF Fetch, VersionKnown, CreateTag, PushTag, Dismiss, remote, files
<1>2. CASE StageChanges(m)
  BY <1>2, FetchMove DEF StageChanges, remote
<1>3. CASE CommitStaged(m)
  <2>1. idx[m] \in Tree
    BY DEF TypeInv, TypeOK
  <2> QED
    BY <1>3, <2>1, FetchMove, CommitMove DEF CommitStaged, remote
<1>4. CASE TrackVersion(m)
  <2>1. TrackedTree(m) \in Tree
    BY <1>4, WithSumTree DEF TrackVersion, TrackedTree, TypeInv, TypeOK
  <2> QED
    BY <1>4, <2>1, FetchMove, CommitMove DEF TrackVersion, remote
<1>5. CASE StartMerge(m)
  <2>1. UNCHANGED <<objects, head, origin, remoteHead, published>>
    BY <1>5 DEF StartMerge, remote
  <2>2. \E h \in {mergeHead[m], origin[m]} : mergeHead' = [mergeHead EXCEPT ![m] = h]
    BY <1>5 DEF StartMerge, BeginMerge, files, TypeInv, TypeOK
  <2>3. origin' = [origin EXCEPT ![m] = origin[m]]
    BY <2>1 DEF TypeInv, TypeOK
  <2> QED
    BY <2>1, <2>2, <2>3 DEF LocalMove
<1>6. CASE Pull(m)
  <2> DEFINE b == tree[MergeBase(head[m], remoteHead)]
             t == Merged(b, tree[head[m]], tree[remoteHead])
  <2>1. t \in Tree
    BY MergedTree DEF TypeInv, TypeOK
  <2>2. /\ UNCHANGED <<remoteHead, published>>
        /\ UNCHANGED origin \/ origin' = [origin EXCEPT ![m] = remoteHead]
        /\ \/ UNCHANGED <<objects, head, mergeHead>>
           \/ /\ UNCHANGED <<objects, mergeHead>>
              /\ head' = [head EXCEPT ![m] = remoteHead]
              /\ head[m] \in anc[remoteHead]
           \/ MakeCommit(m, t, remoteHead) /\ UNCHANGED mergeHead
           \/ /\ UNCHANGED <<objects, head>>
              /\ mergeHead' = [mergeHead EXCEPT ![m] = remoteHead]
    BY <1>6 DEF Pull, BeginMerge, remote, files
  <2> HIDE DEF t
  <2>3. \E o \in {origin[m], remoteHead} : origin' = [origin EXCEPT ![m] = o]
    BY <2>2 DEF TypeInv, TypeOK
  <2>4. \E h \in {mergeHead[m], remoteHead} : mergeHead' = [mergeHead EXCEPT ![m] = h]
    BY <2>2 DEF TypeInv, TypeOK
  <2> QED
    BY <2>1, <2>2, <2>3, <2>4 DEF LocalMove
<1>7. CASE Push(m)
  <2>1. CASE UNCHANGED <<remoteHead, origin, published>>
    BY <1>7, <2>1, FetchMove DEF Push, files
  <2>2. CASE ~UNCHANGED <<remoteHead, origin, published>>
    BY <1>7, <2>2 DEF Push, ForcesPush, PushMove, files
  <2> QED
    BY <2>1, <2>2
<1> QED
  BY <1>1, <1>2, <1>3, <1>4, <1>5, <1>6, <1>7 DEF Engine

LEMMA MoveOfStep ==
  ASSUME TypeInv, NEW m \in Machine,
         Outside(m) \/ Menu(m) \/ Review(m) \/ Engine(m) \/ Stop(m)
  PROVE  LocalMove(m) \/ PushMove(m)
<1>1. CASE Stop(m)
  BY <1>1, FetchMove DEF Stop, remote, files
<1> QED
  BY <1>1, OutsideMove, MenuMove, ReviewMove, EngineMove

-----------------------------------------------------------------------------
(* The graph of commits.                                                   *)

\* A commit extends the graph and leaves the ancestry of older ones alone.
LEMMA MakeCommitGraph ==
  ASSUME TypeInv, RefsOK, AncOK, NEW m \in Machine, NEW t \in Tree, NEW other \in 0..commits,
         MakeCommit(m, t, other)
  PROVE  /\ commits' = commits + 1
         /\ 1..commits' = 1..commits \union {commits'}
         /\ \A c \in 1..commits : anc'[c] = anc[c]
         /\ anc'[commits'] = {commits'} \union anc[head[m]]
                                \union (IF other = 0 THEN {} ELSE anc[other])
         /\ head' = [head EXCEPT ![m] = commits']
         /\ AncOK'
<1>1. commits \in Nat /\ commits \in 1..MaxCommits /\ MaxCommits \in Nat
  BY GitSyncAssumption DEF TypeInv, TypeOK, Commit
<1>2. commits' = commits + 1 /\ commits' \in Commit /\ commits' \notin 1..commits
  BY <1>1 DEF MakeCommit, Commit
<1>3. 1..commits' = 1..commits \union {commits'}
  BY <1>1, <1>2
<1>4. 1..commits \subseteq Commit
  BY <1>1 DEF Commit
<1>5. \A c \in 1..commits : anc'[c] = anc[c]
  BY <1>2, <1>4 DEF MakeCommit, TypeInv, TypeOK
<1>6. anc'[commits'] = {commits'} \union anc[head[m]]
                          \union (IF other = 0 THEN {} ELSE anc[other])
  BY <1>2 DEF MakeCommit, TypeInv, TypeOK
<1>7. head[m] \in 1..commits /\ (other # 0 => other \in 1..commits)
  BY <1>1 DEF RefsOK
<1>8. anc'[commits'] \subseteq 1..commits'
  BY <1>3, <1>6, <1>7 DEF AncOK
<1>9. \A d \in anc'[commits'] : anc'[d] \subseteq anc'[commits']
  <2> SUFFICES ASSUME NEW d \in anc'[commits'], d # commits'
               PROVE  anc'[d] \subseteq anc'[commits']
    OBVIOUS
  <2>1. d \in anc[head[m]] \/ (other # 0 /\ d \in anc[other])
    BY <1>6
  <2>2. d \in 1..commits /\ (anc[d] \subseteq anc[head[m]] \/ (other # 0 /\ anc[d] \subseteq anc[other]))
    BY <1>7, <2>1 DEF AncOK
  <2> QED
    BY <1>5, <1>6, <2>2
<1>10. AncOK'
  <2> SUFFICES ASSUME NEW c \in 1..commits'
               PROVE  /\ c \in anc'[c]
                      /\ anc'[c] \subseteq 1..commits'
                      /\ \A d \in anc'[c] : anc'[d] \subseteq anc'[c]
    BY DEF AncOK
  <2>1. CASE c = commits'
    BY <1>6, <1>8, <1>9, <2>1
  <2>2. CASE c \in 1..commits
    <3>1. /\ c \in anc[c] /\ anc[c] \subseteq 1..commits
          /\ \A d \in anc[c] : d \in 1..commits /\ anc[d] \subseteq anc[c]
      BY <2>2 DEF AncOK
    <3> QED
      BY <1>3, <1>5, <2>2, <3>1
  <2> QED
    BY <1>3, <2>1, <2>2
<1> QED
  BY <1>2, <1>3, <1>5, <1>6, <1>10 DEF MakeCommit

LEMMA LocalMoveGraph ==
  ASSUME TypeInv, GraphOK, NEW m \in Machine, LocalMove(m)
  PROVE  GraphOK'
<1> USE DEF GraphOK
<1>1. PICK o \in {origin[m], remoteHead} : origin' = [origin EXCEPT ![m] = o]
  BY DEF LocalMove
<1>2. PICK h \in {0, mergeHead[m], remoteHead, origin[m]} : mergeHead' = [mergeHead EXCEPT ![m] = h]
  BY DEF LocalMove
<1>3. o \in published /\ h \in published \union {0}
  BY DEF PublishedOK
<1>4. UNCHANGED <<remoteHead, published>>
  BY DEF LocalMove
<1>5. /\ commits \in Nat
      /\ \A x \in Machine : /\ origin'[x] \in published
                            /\ mergeHead'[x] \in published \union {0}
  BY <1>1, <1>2, <1>3, GitSyncAssumption DEF PublishedOK, TypeInv, TypeOK, Commit
<1>6. CASE UNCHANGED objects /\ (UNCHANGED head \/ head' = [head EXCEPT ![m] = remoteHead])
  <2>1. AncOK' /\ PublishedOK'
    BY <1>4, <1>5, <1>6 DEF objects, AncOK, PublishedOK
  <2>2. RefsOK'
    <3>1. published \subseteq 1..commits /\ 0..commits = 1..commits \union {0}
      BY <1>5 DEF PublishedOK
    <3>2. \A x \in Machine : head'[x] \in 1..commits
      BY <1>6 DEF RefsOK, TypeInv, TypeOK
    <3>3. commits' = commits /\ remoteHead' \in 1..commits
      BY <1>4, <1>6 DEF objects, RefsOK
    <3> QED
      BY <1>5, <3>1, <3>2, <3>3 DEF RefsOK
  <2> QED
    BY <2>1, <2>2
<1>7. ASSUME NEW t \in Tree, NEW other \in {0, mergeHead[m], remoteHead}, MakeCommit(m, t, other)
      PROVE  GraphOK'
  <2>1. other \in 0..commits
    BY <1>5 DEF RefsOK
  <2>2. /\ commits' = commits + 1
        /\ 1..commits' = 1..commits \union {commits'}
        /\ \A c \in 1..commits : anc'[c] = anc[c]
        /\ head' = [head EXCEPT ![m] = commits']
        /\ AncOK'
    BY <1>7, <2>1, MakeCommitGraph
  <2>3. PublishedOK'
    BY <1>4, <1>5, <2>2 DEF PublishedOK
  <2>4. RefsOK'
    <3>1. published \subseteq 1..commits' /\ 0..commits' = 1..commits' \union {0}
      BY <1>5, <2>2 DEF PublishedOK
    <3>2. \A x \in Machine : head'[x] \in 1..commits'
      BY <2>2 DEF RefsOK, TypeInv, TypeOK
    <3>3. remoteHead' \in 1..commits'
      BY <1>4, <2>2 DEF RefsOK
    <3> QED
      BY <1>5, <3>1, <3>2, <3>3 DEF RefsOK
  <2> QED
    BY <2>2, <2>3, <2>4
<1> QED
  BY <1>6, <1>7 DEF LocalMove

LEMMA PushMoveGraph ==
  ASSUME TypeInv, GraphOK, NEW m \in Machine, PushMove(m)
  PROVE  GraphOK'
<1> USE DEF GraphOK
<1>1. /\ head[m] \in 1..commits /\ head[m] \in anc[head[m]] /\ anc[head[m]] \subseteq 1..commits
      /\ \A d \in anc[head[m]] : anc[d] \subseteq anc[head[m]]
  BY DEF RefsOK, AncOK
<1>2. AncOK'
  BY DEF AncOK, PushMove, objects
<1>3. RefsOK'
  BY <1>1 DEF RefsOK, PushMove, objects, TypeInv, TypeOK
<1>4. PublishedOK'
  BY <1>1 DEF PublishedOK, PushMove, objects, TypeInv, TypeOK
<1> QED
  BY <1>2, <1>3, <1>4

-----------------------------------------------------------------------------
(* Forced operations and tags.                                             *)

LEMMA ModeStep ==
  ASSUME TypeInv, ModeOK, UNCHANGED users, NEW m \in Machine,
         Outside(m) \/ Menu(m) \/ Review(m) \/ Engine(m) \/ Stop(m)
  PROVE  ModeOK'
<1>1. \/ UNCHANGED mode
      \/ \E mo \in {"none", "review", "sync"} : mode' = [mode EXCEPT ![m] = mo]
      \/ m \in Forcing /\ \E mo \in {"push", "nuke"} : mode' = [mode EXCEPT ![m] = mo]
  <2>1. CASE Outside(m)
    BY <2>1 DEF Outside, PassWrite, LeaveUncommitted, session
  <2>2. CASE Menu(m)
    BY <2>2 DEF Menu, SyncStore, PushStoreForce, FetchStorePreview, PullStoreForce,
                NukePasswords, SetMode, session
  <2>3. CASE Review(m)
    BY <2>3 DEF Review, KeepSide, EditFile, Resolve, AbortReview, FinalizeMergeCommit,
                Leave, Stay, SetMode, session
  <2>4. CASE Engine(m)
    BY <2>4 DEF Engine, Fetch, StageChanges, CommitStaged, VersionKnown, TrackVersion,
                StartMerge, Pull, Push, CreateTag, PushTag, Dismiss, Leave, Stay, SetMode
  <2>5. CASE Stop(m)
    BY <2>5 DEF Stop, Leave, SetMode
  <2> QED
    BY <2>1, <2>2, <2>3, <2>4, <2>5
<1> QED
  BY <1>1 DEF ModeOK, Forcing, TypeInv, TypeOK

LEMMA PcFrame ==
  ASSUME TypeInv, NEW m \in Machine,
         Outside(m) \/ Menu(m) \/ Review(m) \/ Engine(m) \/ Stop(m),
         NEW x \in Machine, x # m
  PROVE  pc'[x] = pc[x]
<1>1. UNCHANGED pc \/ \E s \in Step : pc' = [pc EXCEPT ![m] = s]
  <2>1. CASE Outside(m)
    BY <2>1 DEF Outside, PassWrite, LeaveUncommitted, session
  <2>2. CASE Menu(m)
    BY <2>2 DEF Menu, SyncStore, PushStoreForce, FetchStorePreview, PullStoreForce,
                NukePasswords, Goto, session, Step
  <2>3. CASE Review(m)
    BY <2>3 DEF Review, KeepSide, EditFile, Resolve, AbortReview, FinalizeMergeCommit,
                Leave, Goto, session, Step
  <2>4. CASE Engine(m)
    BY <2>4 DEF Engine, Fetch, StageChanges, CommitStaged, VersionKnown, TrackVersion,
                AfterTracking, StartMerge, Pull, Push, CreateTag, PushTag, Dismiss,
                Leave, Goto, Step
  <2>5. CASE Stop(m)
    BY <2>5 DEF Stop, Leave, Goto, Step
  <2> QED
    BY <2>1, <2>2, <2>3, <2>4, <2>5
<1> QED
  BY <1>1 DEF TypeInv, TypeOK

\* Tags change by a fetch, and by git tag or the push of a tag.
LEMMA TagMove ==
  ASSUME TypeInv, NEW m \in Machine,
         Outside(m) \/ Menu(m) \/ Review(m) \/ Engine(m) \/ Stop(m)
  PROVE  UNCHANGED tag \/ FetchTags(m) \/ CreateTag(m)
<1>1. CASE Outside(m) \/ Stop(m)
  BY <1>1 DEF Outside, PassWrite, LeaveUncommitted, Stop
<1>2. CASE Menu(m)
  BY <1>2 DEF Menu, SyncStore, PushStoreForce, FetchStorePreview, PullStoreForce,
              NukePasswords
<1>3. CASE Review(m)
  BY <1>3 DEF Review, KeepSide, EditFile, Resolve, AbortReview, FinalizeMergeCommit
<1>4. CASE Engine(m)
  BY <1>4 DEF Engine, Fetch, StageChanges, CommitStaged, VersionKnown, TrackVersion,
              StartMerge, Pull, Push, PushTag, Dismiss
<1> QED
  BY <1>1, <1>2, <1>3, <1>4

LEMMA RemoteTagMove ==
  ASSUME TypeInv, NEW m \in Machine,
         Outside(m) \/ Menu(m) \/ Review(m) \/ Engine(m) \/ Stop(m)
  PROVE  UNCHANGED remoteTag \/ PushTag(m)
<1>1. CASE Outside(m) \/ Stop(m)
  BY <1>1 DEF Outside, PassWrite, LeaveUncommitted, Stop, remote
<1>2. CASE Menu(m)
  BY <1>2 DEF Menu, SyncStore, PushStoreForce, FetchStorePreview, PullStoreForce,
              NukePasswords, remote
<1>3. CASE Review(m)
  BY <1>3 DEF Review, KeepSide, EditFile, Resolve, AbortReview, FinalizeMergeCommit, remote
<1>4. CASE Engine(m)
  BY <1>4 DEF Engine, Fetch, StageChanges, CommitStaged, VersionKnown, TrackVersion,
              StartMerge, Pull, Push, CreateTag, Dismiss, remote
<1> QED
  BY <1>1, <1>2, <1>3, <1>4

\* A tag is made and pushed right after the push that published its commit;
\* nothing moves HEAD of that clone in between.
LEMMA TagStep ==
  ASSUME TypeInv, GraphOK, TagOK, NEW m \in Machine,
         Outside(m) \/ Menu(m) \/ Review(m) \/ Engine(m) \/ Stop(m)
  PROVE  TagOK'
<1>1. published \subseteq published'
  BY MoveOfStep DEF LocalMove, PushMove
<1>2. \A x \in Machine : x # m => pc'[x] = pc[x] /\ head'[x] = head[x]
  <2>1. \A x \in Machine : x # m => head'[x] = head[x]
    BY MoveOfStep DEF LocalMove, PushMove, MakeCommit, TypeInv, TypeOK
  <2>2. \A x \in Machine : x # m => pc'[x] = pc[x]
    BY PcFrame
  <2> QED
    BY <2>1, <2>2
<1>3. pc'[m] \in {"tag", "pushtag"} => head'[m] \in published'
  <2> SUFFICES ASSUME pc'[m] \in {"tag", "pushtag"} PROVE head'[m] \in published'
    OBVIOUS
  <2>1. CASE Push(m)
    <3>1. head[m] \in anc[head[m]]
      BY DEF GraphOK, RefsOK, AncOK
    <3> QED
      BY <2>1, <3>1 DEF Push, Leave, Goto, TypeInv, TypeOK
  <2>2. CASE CreateTag(m)
    BY <1>1, <2>2 DEF CreateTag, TagOK
  <2>3. CASE ~Push(m) /\ ~CreateTag(m)
    <3>1. ~Outside(m)
      BY DEF Outside, PassWrite, LeaveUncommitted, session
    <3>2. ~Menu(m)
      BY DEF Menu, SyncStore, PushStoreForce, FetchStorePreview, PullStoreForce,
             NukePasswords, Goto, session, TypeInv, TypeOK
    <3>3. ~Review(m)
      BY DEF Review, KeepSide, EditFile, Resolve, AbortReview, FinalizeMergeCommit,
             Leave, Goto, session, TypeInv, TypeOK
    <3>4. ~Stop(m)
      BY DEF Stop, Leave, Goto, TypeInv, TypeOK
    <3>5. ~Engine(m)
      BY <2>3 DEF Engine, Fetch, StageChanges, CommitStaged, VersionKnown, TrackVersion,
                  AfterTracking, StartMerge, Pull, PushTag, Dismiss, Leave, Goto,
                  TypeInv, TypeOK
    <3> QED
      BY <3>1, <3>2, <3>3, <3>4, <3>5
  <2> QED
    BY <2>1, <2>2, <2>3
<1>4. remoteHead \in published /\ published \subseteq Commit
  BY DEF GraphOK, PublishedOK, TypeInv, TypeOK
<1>5. \A x \in Machine, v \in Version : tag'[x][v] \in published' \union {0}
  <2>1. CASE UNCHANGED tag
    BY <1>1, <2>1 DEF TagOK
  <2>2. CASE FetchTags(m)
    BY <1>1, <2>2 DEF FetchTags, TagOK, TypeInv, TypeOK
  <2>3. CASE CreateTag(m)
    BY <1>1, <2>3 DEF CreateTag, TagOK, TypeInv, TypeOK
  <2> QED
    BY <2>1, <2>2, <2>3, TagMove
<1>6. \A v \in Version : remoteTag'[v] \in published' \union {0}
  <2>1. CASE UNCHANGED remoteTag
    BY <1>1, <2>1 DEF TagOK
  <2>2. CASE PushTag(m)
    <3>1. ver[m] \in Version /\ tag[m][ver[m]] \in published \union {0}
      BY <2>2 DEF PushTag, TagOK, TypeInv, TypeOK, VerOK
    <3>2. \/ remoteTag' = [remoteTag EXCEPT ![ver[m]] = tag[m][ver[m]]]
          \/ UNCHANGED remoteTag
      BY <2>2 DEF PushTag
    <3> QED
      BY <1>1, <3>1, <3>2 DEF TagOK, TypeInv, TypeOK
  <2> QED
    BY <2>1, <2>2, RemoteTagMove
<1>7. \A x \in Machine : pc'[x] \in {"tag", "pushtag"} => head'[x] \in published'
  <2> SUFFICES ASSUME NEW x \in Machine, x # m, pc'[x] \in {"tag", "pushtag"}
               PROVE  head'[x] \in published'
    BY <1>3
  <2> QED
    BY <1>1, <1>2 DEF TagOK
<1> QED
  BY <1>5, <1>6, <1>7 DEF TagOK

-----------------------------------------------------------------------------
(* A clean worktree.                                                       *)

\* A step of one machine leaves the files, the place and the HEAD tree of the
\* others alone.
LEMMA FilesFrame ==
  ASSUME TypeInv, NEW m \in Machine,
         Outside(m) \/ Menu(m) \/ Review(m) \/ Engine(m) \/ Stop(m),
         NEW x \in Machine, x # m
  PROVE  work'[x] = work[x] /\ idx'[x] = idx[x] /\ unmerged'[x] = unmerged[x]
<1> DEFINE Same == work'[x] = work[x] /\ idx'[x] = idx[x] /\ unmerged'[x] = unmerged[x]
<1>1. UNCHANGED files => Same
  BY DEF files
<1>2. ASSUME NEW t, Checkout(m, t) PROVE Same
  BY <1>2 DEF Checkout, TypeInv, TypeOK
<1>3. ASSUME NEW c, BeginMerge(m, c) PROVE Same
  BY <1>3 DEF BeginMerge, TypeInv, TypeOK
<1>4. CASE Outside(m)
  BY <1>4 DEF Outside, PassWrite, LeaveUncommitted, TypeInv, TypeOK
<1>5. CASE Menu(m)
  <2>1. CASE PullStoreForce(m)
    BY <2>1 DEF PullStoreForce, files, TypeInv, TypeOK
  <2>2. ASSUME NEW r \in BOOLEAN, NukePasswords(m, r) PROVE Same
    BY <2>2, <1>2 DEF NukePasswords
  <2> QED
    BY <1>1, <1>5, <2>1, <2>2 DEF Menu, SyncStore, PushStoreForce, FetchStorePreview
<1>6. CASE Review(m)
  <2>1. ASSUME NEW f \in File, NEW side \in BOOLEAN, KeepSide(m, f, side) PROVE Same
    BY <2>1 DEF KeepSide, Resolve, files, TypeInv, TypeOK
  <2>2. ASSUME NEW f \in File, NEW c, EditFile(m, f, c) PROVE Same
    BY <2>2 DEF EditFile, Resolve, files, TypeInv, TypeOK
  <2>3. CASE AbortReview(m)
    BY <1>1, <1>2, <2>3 DEF AbortReview
  <2>4. CASE FinalizeMergeCommit(m)
    BY <1>1, <1>2, <2>4 DEF FinalizeMergeCommit
  <2> QED
    BY <1>6, <2>1, <2>2, <2>3, <2>4 DEF Review
<1>7. CASE Engine(m)
  <2>1. CASE StageChanges(m)
    BY <1>2, <2>1 DEF StageChanges
  <2>2. CASE TrackVersion(m)
    BY <1>2, <2>2 DEF TrackVersion
  <2>3. CASE StartMerge(m)
    BY <1>1, <1>3, <2>3 DEF StartMerge
  <2>4. CASE Pull(m)
    <3>1. \/ UNCHANGED files
          \/ \E t : Checkout(m, t)
          \/ BeginMerge(m, remoteHead)
      BY <2>4 DEF Pull
    <3> QED
      BY <1>1, <1>2, <1>3, <3>1
  <2>5. CASE \/ Fetch(m) \/ CommitStaged(m) \/ VersionKnown(m) \/ Push(m)
             \/ CreateTag(m) \/ PushTag(m) \/ Dismiss(m)
    BY <1>1, <2>5 DEF Fetch, CommitStaged, VersionKnown, Push, CreateTag, PushTag, Dismiss
  <2> QED
    BY <1>7, <2>1, <2>2, <2>3, <2>4, <2>5 DEF Engine
<1>8. CASE Stop(m)
  BY <1>1, <1>8 DEF Stop
<1> QED
  BY <1>4, <1>5, <1>6, <1>7, <1>8

LEMMA HeadFrame ==
  ASSUME TypeInv, GraphOK, NEW m \in Machine, LocalMove(m) \/ PushMove(m),
         NEW x \in Machine, x # m
  PROVE  head'[x] = head[x] /\ tree'[head[x]] = tree[head[x]]
<1>1. head'[x] = head[x]
  BY DEF LocalMove, PushMove, MakeCommit, TypeInv, TypeOK
<1>2. CASE UNCHANGED objects
  BY <1>1, <1>2 DEF objects
<1>3. ASSUME NEW t \in Tree, NEW other, MakeCommit(m, t, other)
      PROVE  tree'[head[x]] = tree[head[x]]
  <2>1. head[x] # commits + 1 /\ head[x] \in Commit
    BY GitSyncAssumption DEF GraphOK, RefsOK, TypeInv, TypeOK, Commit
  <2> QED
    BY <1>3, <2>1 DEF MakeCommit, TypeInv, TypeOK
<1> QED
  BY <1>1, <1>2, <1>3 DEF LocalMove, PushMove

LEMMA CleanStep ==
  ASSUME TypeInv, GraphOK, CleanOK, NEW m \in Machine,
         Outside(m) \/ Menu(m) \/ Review(m) \/ Engine(m) \/ Stop(m)
  PROVE  CleanOK'
<1> USE DEF TypeInv
<1>1. ASSUME NEW x \in Machine, x # m, pc'[x] \in {"track", "merge", "pull"}
      PROVE  Clean(x)'
  <2>1. pc'[x] = pc[x]
    BY <1>1, PcFrame
  <2>2. work'[x] = work[x] /\ idx'[x] = idx[x] /\ unmerged'[x] = unmerged[x]
    BY <1>1, FilesFrame
  <2>3. head'[x] = head[x] /\ tree'[head[x]] = tree[head[x]]
    BY <1>1, MoveOfStep, HeadFrame
  <2> QED
    BY <1>1, <2>1, <2>2, <2>3 DEF CleanOK, Clean
<1>2. ASSUME NEW t \in Tree, NEW other, MakeCommit(m, t, other)
      PROVE  tree'[head'[m]] = t
  <2>1. commits + 1 \in Commit
    BY <1>2, GitSyncAssumption DEF MakeCommit, TypeOK, Commit
  <2> QED
    BY <1>2, <2>1 DEF MakeCommit, TypeOK
<1>3. ASSUME pc'[m] \in {"track", "merge", "pull"}
      PROVE  Clean(m)'
  <2>1. CASE StageChanges(m)
    <3>1. pc'[m] = "track"
      BY <1>3, <2>1 DEF StageChanges, Goto, TypeOK
    <3>2. Clean(m) /\ UNCHANGED <<work, idx, unmerged, head, tree>>
      BY <2>1, <3>1 DEF StageChanges, Goto, TypeOK, objects
    <3> QED
      BY <3>2 DEF Clean
  <2>2. CASE CommitStaged(m)
    <3>1. work[m] = idx[m] /\ unmerged[m] = {} /\ idx[m] \in Tree
      BY <2>2 DEF CommitStaged, StagedOK, TypeOK
    <3>2. UNCHANGED <<work, idx, unmerged>>
      BY <2>2 DEF CommitStaged
    <3>3. tree'[head'[m]] = idx[m]
      BY <1>2, <2>2, <3>1 DEF CommitStaged, objects
    <3> QED
      BY <3>1, <3>2, <3>3 DEF Clean
  <2>3. CASE VersionKnown(m)
    <3>1. UNCHANGED <<work, idx, unmerged, head, tree>> /\ pc[m] = "track"
      BY <2>3 DEF VersionKnown, objects, files
    <3> QED
      BY <3>1 DEF CleanOK, Clean
  <2>4. CASE TrackVersion(m)
    <3> DEFINE t == TrackedTree(m)
    <3>1. t \in Tree
      BY <2>4, WithSumTree DEF TrackVersion, TrackedTree, TypeOK
    <3> HIDE DEF t
    <3>2. /\ Checkout(m, t)
          /\ MakeCommit(m, t, mergeHead[m])
      BY <1>3, <2>4 DEF TrackVersion, Leave, Goto, TypeOK, t
    <3>3. tree'[head'[m]] = t
      BY <1>2, <3>1, <3>2
    <3> QED
      BY <3>2, <3>3 DEF Checkout, Clean, TypeOK
  <2>5. StageChanges(m) \/ CommitStaged(m) \/ VersionKnown(m) \/ TrackVersion(m)
    <3>1. ~Outside(m)
      BY <1>3 DEF Outside, PassWrite, LeaveUncommitted, session
    <3>2. ~Menu(m)
      BY <1>3 DEF Menu, SyncStore, PushStoreForce, FetchStorePreview, PullStoreForce,
                  NukePasswords, Goto, session, TypeOK
    <3>3. ~Review(m)
      BY <1>3 DEF Review, KeepSide, EditFile, Resolve, AbortReview, FinalizeMergeCommit,
                  Leave, Goto, session, TypeOK
    <3>4. ~Stop(m)
      BY <1>3 DEF Stop, Leave, Goto, TypeOK
    <3>5. Engine(m) =>
            StageChanges(m) \/ CommitStaged(m) \/ VersionKnown(m) \/ TrackVersion(m)
      BY <1>3 DEF Engine, Fetch, StartMerge, Pull, Push, CreateTag, PushTag, Dismiss,
                  Leave, Goto, TypeOK
    <3> QED
      BY <3>1, <3>2, <3>3, <3>4, <3>5
  <2> QED
    BY <2>1, <2>2, <2>3, <2>4, <2>5
<1> QED
  BY <1>1, <1>3 DEF CleanOK

-----------------------------------------------------------------------------
(* The inductive invariant.                                                *)

LEMMA InitGraph == Init => GraphInv
<1> SUFFICES ASSUME Init PROVE GraphInv
  OBVIOUS
<1>1. 1 \in Commit /\ 1..1 = {1} /\ 1 \in 1..1 /\ 1 \in 0..1 /\ 0 \in 0..1
  BY GitSyncAssumption DEF Commit
<1>2. commits = 1 /\ anc[1] = {1}
  BY <1>1 DEF Init
<1>3. GraphOK
  BY <1>1, <1>2 DEF Init, GraphOK, RefsOK, AncOK, PublishedOK
<1>4. ModeOK /\ TagOK /\ CleanOK
  BY DEF Init, ModeOK, TagOK, CleanOK, FirstTag
<1> QED
  BY <1>3, <1>4 DEF GraphInv

LEMMA GraphStep == TypeInv /\ GraphInv /\ [Next]_vars => GraphInv'
<1> SUFFICES ASSUME TypeInv, GraphInv, [Next]_vars PROVE GraphInv'
  OBVIOUS
<1>1. CASE UNCHANGED vars
  BY <1>1 DEF GraphInv, GraphOK, ModeOK, Forcing, RefsOK, AncOK, PublishedOK, TagOK, CleanOK, Clean,
              vars, objects, remote, files, session
<1>2. ASSUME UNCHANGED users, NEW m \in Machine,
             Outside(m) \/ Menu(m) \/ Review(m) \/ Engine(m) \/ Stop(m)
      PROVE  GraphInv'
  <2>1. GraphOK'
    BY <1>2, MoveOfStep, LocalMoveGraph, PushMoveGraph DEF GraphInv
  <2> QED
    BY <1>2, <2>1, ModeStep, TagStep, CleanStep DEF GraphInv
<1> QED
  BY <1>1, <1>2 DEF Next

\* References, ancestry, tags and worktrees stay consistent with each other.
THEOREM GraphCorrect == Spec => [](TypeInv /\ GraphInv)
<1>1. Init => TypeInv /\ GraphInv
  BY InitType, InitGraph
<1>2. TypeInv /\ GraphInv /\ [Next]_vars => (TypeInv /\ GraphInv)'
  BY TypeStep, GraphStep
<1> QED
  BY <1>1, <1>2, PTL DEF Spec

-----------------------------------------------------------------------------
(* The properties.                                                         *)

\* A version tag at origin always names a commit that has been on the branch:
\* the push comes before the tag, and no tag is left over from a failed push.
THEOREM TagsPublished == Spec => []TagIsPublished
<1>1. TypeInv /\ GraphInv => TagIsPublished
  BY DEF GraphInv, TagOK, TagIsPublished
<1> QED
  BY <1>1, GraphCorrect, PTL

\* Only a machine whose user forces it drops published commits from origin.
THEOREM OnlyForceRewrites == Spec => RewrittenOnlyByForce
<1>1. TypeInv /\ GraphInv /\ [Next]_vars =>
        [remoteHead' # remoteHead =>
           \/ remoteHead \in anc'[remoteHead']
           \/ \E m \in Forcing : mode[m] \in {"push", "nuke"} /\ remoteHead' = head[m]]_vars
  <2> SUFFICES ASSUME TypeInv, GraphInv, NEW m \in Machine, remoteHead' # remoteHead,
                      Outside(m) \/ Menu(m) \/ Review(m) \/ Engine(m) \/ Stop(m)
               PROVE  \/ remoteHead \in anc'[remoteHead']
                      \/ \E x \in Forcing : mode[x] \in {"push", "nuke"} /\ remoteHead' = head[x]
    BY DEF Next
  <2>1. PushMove(m)
    BY MoveOfStep DEF LocalMove
  <2> QED
    BY <2>1 DEF PushMove, objects, GraphInv, ModeOK
<1> QED
  BY <1>1, GraphCorrect, PTL DEF Spec, RewrittenOnlyByForce

\* Only a forced pull drops local commits.
THEOREM LocalCommitsSurvive == Spec => LocalCommitsKept
<1>1. TypeInv /\ GraphInv /\ (TypeInv /\ GraphInv)' /\ [Next]_vars =>
        [\A m \in Machine : head[m] \in anc'[head'[m]] \/ PullStoreForce(m)]_vars
  <2> SUFFICES ASSUME TypeInv, GraphInv, GraphInv', NEW m \in Machine,
                      Outside(m) \/ Menu(m) \/ Review(m) \/ Engine(m) \/ Stop(m),
                      NEW x \in Machine
               PROVE  head[x] \in anc'[head'[x]] \/ PullStoreForce(x)
    BY DEF Next
  <2>1. head'[x] \in anc'[head'[x]]
    BY DEF GraphInv, GraphOK, RefsOK, AncOK
  <2>2. CASE head'[x] = head[x]
    BY <2>1, <2>2
  <2>3. CASE head'[x] # head[x]
    <3>1. x = m /\ LocalMove(m)
      BY <2>3, MoveOfStep, HeadFrame DEF PushMove, GraphInv
    <3>2. CASE UNCHANGED objects
      BY <2>3, <3>1, <3>2 DEF LocalMove, objects, MakeCommit, GraphInv, GraphOK, RefsOK,
                              TypeInv, TypeOK
    <3>3. ASSUME NEW t \in Tree, NEW other \in {0, mergeHead[m], remoteHead},
                 MakeCommit(m, t, other)
          PROVE  head[m] \in anc'[head'[m]]
      <4>1. other \in 0..commits
        BY GitSyncAssumption DEF GraphInv, GraphOK, RefsOK, TypeInv, TypeOK, Commit
      <4>2. anc[head[m]] \subseteq anc'[head'[m]]
        BY <3>3, <4>1, MakeCommitGraph DEF GraphInv, GraphOK, TypeInv, TypeOK
      <4> QED
        BY <4>2 DEF GraphInv, GraphOK, RefsOK, AncOK
    <3> QED
      BY <2>3, <3>1, <3>2, <3>3 DEF LocalMove
  <2> QED
    BY <2>2, <2>3
<1> QED
  BY <1>1, GraphCorrect, PTL DEF Spec, LocalCommitsKept

-----------------------------------------------------------------------------
(* GitSync implements SharedHistory.                                       *)

\* A local step extends one replica with at most one new change and with
\* published ones; only a forced pull resets it.
LEMMA LocalMoveRefines ==
  ASSUME TypeInv, GraphInv, UNCHANGED users, NEW m \in Machine, LocalMove(m)
  PROVE  History!Extend(m) \/ History!Reset(m) \/ UNCHANGED History!hvars
<1> DEFINE replica == [x \in Machine |-> anc[head[x]]]
<1> USE DEF GraphInv, GraphOK
<1>1. UNCHANGED <<remoteHead, published>>
  BY DEF LocalMove
<1>2. remoteHead \in published /\ mergeHead[m] \in published \union {0} /\ published \subseteq 1..commits
  BY DEF PublishedOK
<1>3. CASE UNCHANGED <<objects, head>>
  BY <1>1, <1>3 DEF History!hvars, Forcing, objects
<1>4. CASE /\ UNCHANGED objects
           /\ head' = [head EXCEPT ![m] = remoteHead]
           /\ head[m] \in anc[remoteHead]
  <2>1. anc[head[m]] \subseteq anc[remoteHead] /\ anc[remoteHead] \subseteq published
    BY <1>4 DEF RefsOK, AncOK, PublishedOK
  <2>2. replica' = [replica EXCEPT ![m] = @ \union {} \union anc[remoteHead]]
    BY <1>4, <2>1 DEF objects, TypeInv, TypeOK
  <2>3. (1..commits)' = (1..commits) \union {} /\ anc'[remoteHead'] = anc[remoteHead]
    BY <1>1, <1>4 DEF objects
  <2> HIDE DEF replica
  <2>4. replica'[m] = replica[m] \union anc[remoteHead] /\ replica' = [replica EXCEPT ![m] = replica'[m]]
    BY <2>2 DEF replica
  <2>5. History!Extend(m)
    BY <1>1, <2>1, <2>3, <2>4 DEF History!Extend, replica
  <2> QED
    BY <2>5
<1>5. CASE /\ UNCHANGED objects
           /\ head' = [head EXCEPT ![m] = remoteHead]
           /\ PullStoreForce(m)
  <2>1. m \in Forcing
    BY <1>5 DEF PullStoreForce
  <2>2. replica' = [replica EXCEPT ![m] = anc[remoteHead]]
    BY <1>5 DEF objects, TypeInv, TypeOK
  <2> QED
    BY <1>1, <1>5, <2>1, <2>2 DEF History!Reset, objects
<1>6. ASSUME NEW t \in Tree, NEW other \in {0, mergeHead[m], remoteHead}, MakeCommit(m, t, other)
      PROVE  History!Extend(m)
  <2> DEFINE taken == IF other = 0 THEN {} ELSE anc[other]
  <2>1. commits \in Nat /\ other \in 0..commits
    BY GitSyncAssumption DEF RefsOK, TypeInv, TypeOK, Commit
  <2>2. /\ commits' = commits + 1
        /\ 1..commits' = 1..commits \union {commits'}
        /\ \A c \in 1..commits : anc'[c] = anc[c]
        /\ anc'[commits'] = {commits'} \union anc[head[m]] \union taken
        /\ head' = [head EXCEPT ![m] = commits']
    BY <1>6, <2>1, MakeCommitGraph
  <2>3. taken \subseteq published
    BY <1>2 DEF PublishedOK
  <2>4. commits' \in Commit \ (1..commits)
    <3>1. other \in Ref
      BY RefIsCommit DEF TypeInv, TypeOK
    <3>2. commits' \in Commit
      BY <1>6, <3>1, MakeCommitType DEF TypeInv
    <3> QED
      BY <2>1, <2>2, <3>2
  <2> HIDE DEF taken
  <2>5. \A x \in Machine : x # m => anc'[head'[x]] = anc[head[x]]
    BY <2>2 DEF RefsOK, TypeInv, TypeOK
  <2>6. anc'[head'[m]] = anc[head[m]] \union {commits'} \union taken
    BY <2>2 DEF TypeInv, TypeOK
  <2>7. replica' = [replica EXCEPT ![m] = @ \union {commits'} \union taken]
    BY <2>5, <2>6
  <2>8. anc'[remoteHead'] = anc[remoteHead]
    BY <1>1, <1>2, <2>2
  <2>9. {commits'} \in {{}} \union {{c} : c \in Commit \ (1..commits)}
    BY <2>4
  <2>10. replica'[m] = replica[m] \union {commits'} \union taken /\ replica' = [replica EXCEPT ![m] = replica'[m]]
    BY <2>7 DEF replica
  <2> HIDE DEF replica
  <2> QED
    BY <1>1, <2>2, <2>3, <2>8, <2>9, <2>10 DEF History!Extend, replica
<1> QED
  BY <1>3, <1>4, <1>5, <1>6 DEF LocalMove

LEMMA PushMoveRefines ==
  ASSUME TypeInv, GraphInv, NEW m \in Machine, PushMove(m)
  PROVE  History!Publish(m) \/ History!Overwrite(m)
<1> USE DEF GraphInv, GraphOK
<1>1. /\ UNCHANGED <<objects, head>>
      /\ anc'[remoteHead'] = anc[head[m]]
      /\ published' = published \union anc[head[m]]
  BY DEF PushMove, objects
<1>2. CASE remoteHead \in anc[head[m]]
  <2>1. anc[remoteHead] \subseteq anc[head[m]]
    BY <1>2 DEF RefsOK, AncOK
  <2> QED
    BY <1>1, <2>1 DEF History!Publish, objects
<1>3. CASE mode[m] \in {"push", "nuke"}
  <2>1. m \in Forcing
    BY <1>3 DEF ModeOK
  <2> QED
    BY <1>1, <2>1 DEF History!Overwrite, objects
<1> QED
  BY <1>2, <1>3 DEF PushMove

\* Commits, fetches, merges, pushes and everything that can go wrong between
\* them amount to replicas that grow and a branch that only takes in a replica
\* containing it, except where a user forces it.
THEOREM ImplementsSharedHistory == Spec => HistorySpec
<1>1. Init => History!HInit
  <2> SUFFICES ASSUME Init PROVE History!HInit
    OBVIOUS
  <2>1. 1 \in Commit /\ 1..1 = {1}
    BY GitSyncAssumption DEF Commit
  <2>2. anc[1] = {1}
    BY <2>1 DEF Init
  <2>3. Forcing \in SUBSET Machine
    BY GitSyncAssumption DEF Init, Forcing
  <2> QED
    BY <2>1, <2>2, <2>3 DEF Init, History!HInit
<1>2. TypeInv /\ GraphInv /\ [Next]_vars => [History!HNext]_(History!hvars)
  <2> SUFFICES ASSUME TypeInv, GraphInv, [Next]_vars PROVE [History!HNext]_(History!hvars)
    OBVIOUS
  <2>1. CASE UNCHANGED vars
    BY <2>1 DEF vars, Forcing, objects, remote, History!hvars
  <2>2. ASSUME UNCHANGED users, NEW m \in Machine,
               Outside(m) \/ Menu(m) \/ Review(m) \/ Engine(m) \/ Stop(m)
        PROVE  [History!HNext]_(History!hvars)
    BY <2>2, MoveOfStep, LocalMoveRefines, PushMoveRefines DEF History!HNext, Forcing
  <2> QED
    BY <2>1, <2>2 DEF Next
<1> QED
  BY <1>1, <1>2, GraphCorrect, PTL DEF Spec, HistorySpec, History!HSpec

-----------------------------------------------------------------------------
(* Best common ancestors and what a merge makes of hash files.             *)

\* A set of naturals with a bound has a greatest element: the one whose
\* distance from the bound is least.
LEMMA GreatestElement ==
  ASSUME NEW n \in Nat, NEW S \in SUBSET (0..n), S # {}
  PROVE  \E x \in S : \A y \in S : y <= x
<1> DEFINE T == {n - x : x \in S}
<1>1. T \subseteq Nat /\ T # {}
  <2>1. \A x \in S : n - x \in Nat
    BY SMT
  <2>2. PICK x \in S : TRUE
    OBVIOUS
  <2>3. n - x \in T
    BY <2>2, Zenon DEF T
  <2>4. T \subseteq Nat
    BY <2>1, Zenon DEF T
  <2> QED
    BY <2>3, <2>4, Zenon
<1> HIDE DEF T
<1>2. PICK k \in T : \A y \in T : <<y, k>> \notin OpToRel(<, Nat)
  BY <1>1, WFMin, NatLessThanWellFounded, Zenon
<1>3. \A y \in T : ~(y < k)
  BY <1>1, <1>2, Zenon DEF OpToRel
<1>4. PICK x \in S : k = n - x
  BY DEF T
<1>5. \A y \in S : y <= x
  <2> SUFFICES ASSUME NEW y \in S PROVE y <= x
    OBVIOUS
  <2>1. ~(n - y < k)
    BY <1>3 DEF T
  <2> QED
    BY <1>4, <2>1
<1> QED
  BY <1>5

\* Every commit descends from the one the installer made, and an ancestor is
\* older than its descendants.
RootOK == \A c \in 1..commits : 1 \in anc[c] /\ \A d \in anc[c] : d <= c

LEMMA MergeBaseIsBest ==
  ASSUME TypeInv, GraphOK, RootOK, NEW a \in 1..commits, NEW b \in 1..commits
  PROVE  MergeBase(a, b) \in BestBases(a, b)
<1> DEFINE common == anc[a] \intersect anc[b]
<1>1. commits \in Nat /\ common \subseteq 1..commits /\ 1 \in common
  BY GitSyncAssumption DEF GraphOK, AncOK, RootOK, TypeInv, TypeOK, Commit
<1>2. PICK c \in common : \A d \in common : d <= c
  <2>1. common \in SUBSET (0..commits) /\ common # {}
    BY <1>1
  <2> HIDE DEF common
  <2> QED
    BY <1>1, <2>1, GreatestElement
<1>3. \A d \in common : c \in anc[d] => d = c
  <2> SUFFICES ASSUME NEW d \in common, c \in anc[d] PROVE d = c
    OBVIOUS
  <2>1. d <= c /\ c <= d
    BY <1>1, <1>2 DEF RootOK
  <2> QED
    BY <1>1, <2>1
<1>4. c \in BestBases(a, b)
  BY <1>2, <1>3 DEF BestBases
<1> QED
  BY <1>4 DEF MergeBase

\* The merge base of two commits depends on their ancestors only.
LEMMA MergeBaseFrame ==
  ASSUME TypeInv, GraphOK, NEW a \in 1..commits, NEW b \in 1..commits,
         \A c \in 1..commits : anc'[c] = anc[c]
  PROVE  (CHOOSE c \in BestBases(a, b)' : TRUE) = MergeBase(a, b)
<1>1. BestBases(a, b)' = BestBases(a, b)
  BY DEF BestBases, GraphOK, AncOK
<1> QED
  BY <1>1 DEF MergeBase

\* A matching hash file determines the store.
LEMMA SumDetermines ==
  ASSUME NEW x \in Tree, NEW y \in Tree, SumMatches(x), SumMatches(y), x[SumFile] = y[SumFile]
  PROVE  x = y
<1>1. EntriesOf(x) = EntriesOf(y)
  BY DEF SumMatches
<1>2. \A e \in Entry : x[e] = y[e]
  <2> SUFFICES ASSUME NEW e \in Entry PROVE x[e] = y[e]
    OBVIOUS
  <2>1. EntriesOf(x)[e] = x[e] /\ EntriesOf(y)[e] = y[e]
    BY DEF EntriesOf
  <2> QED
    BY <1>1, <2>1
<1>3. \A f \in File : x[f] = y[f]
  BY <1>2 DEF File
<1>4. x = [f \in File |-> x[f]] /\ y = [f \in File |-> y[f]]
  BY TreeElim
<1> QED
  BY <1>3, <1>4

\* Two stores that both changed since their merge base, differently, conflict
\* in the hash file, when the hash files of all three match.
LEMMA DivergedConflict ==
  ASSUME NEW b \in Tree, NEW o \in Tree, NEW t \in Tree,
         SumMatches(b), SumMatches(o), SumMatches(t), o # t, o # b, t # b
  PROVE  SumFile \in Conflicts(b, o, t)
<1>1. o[SumFile] # t[SumFile] /\ o[SumFile] # b[SumFile] /\ t[SumFile] # b[SumFile]
  BY SumDetermines
<1> QED
  BY <1>1 DEF Conflicts, File

\* So their merge without conflicts is one of the two.
LEMMA MergedIsASide ==
  ASSUME NEW b \in Tree, NEW o \in Tree, NEW t \in Tree,
         SumMatches(b), SumMatches(o), SumMatches(t), Conflicts(b, o, t) = {}
  PROVE  Merged(b, o, t) \in {o, t}
<1>1. o = t \/ o = b \/ t = b
  BY DivergedConflict
<1>2. Merged(b, o, t) = [f \in File |-> IF o[f] = b[f] THEN t[f] ELSE o[f]]
  BY DEF Merged
<1>3. o = [f \in File |-> o[f]] /\ t = [f \in File |-> t[f]]
  BY TreeElim
<1>4. CASE o = t \/ t = b
  <2>1. \A f \in File : (IF o[f] = b[f] THEN t[f] ELSE o[f]) = o[f]
    BY <1>4
  <2> QED
    BY <1>2, <1>3, <2>1
<1>5. CASE o = b
  <2>1. \A f \in File : (IF o[f] = b[f] THEN t[f] ELSE o[f]) = t[f]
    BY <1>5
  <2> QED
    BY <1>2, <1>3, <2>1
<1> QED
  BY <1>1, <1>4, <1>5

-----------------------------------------------------------------------------
(* Which commits have a hash file that matches their entries.  Users make  *)
(* commits with `pass`, which leaves the hash file as it was; such a       *)
(* commit never gets past the clone it was made on without a tracked one   *)
(* on top of it.                                                           *)

Matches(c) == SumMatches(tree[c])

\* Some ancestor of c has the hash file written for version v.
Carries(c, v) == \E d \in anc[c] : Matches(d) /\ tree[d][SumFile].ver = v

\* Whatever a clone knows of origin matches.
RefsMatch ==
  /\ Matches(remoteHead)
  /\ \A m \in Machine : Matches(origin[m]) /\ (mergeHead[m] # 0 => Matches(mergeHead[m]))

\* A HEAD that does not match is known to its clone only: it is an ancestor of
\* no other commit, and no other clone is at it.
LeafOK ==
  \A m \in Machine : ~Matches(head[m]) =>
    /\ \A c \in 1..commits : head[m] \in anc[c] => c = head[m]
    /\ \A x \in Machine : head[x] = head[m] => x = m

\* A commit that does not match is never a best common ancestor: whatever two
\* commits descend from it share a descendant of it.
BaseOK ==
  \A c \in 1..commits : ~Matches(c) =>
    \A x, y \in (1..commits) \ {c} :
      c \in anc[x] /\ c \in anc[y] => \E d \in anc[x] \intersect anc[y] : d # c /\ c \in anc[d]

ShapeOK == RootOK /\ RefsMatch /\ LeafOK /\ BaseOK

\* HEAD of m matches, and carries the version of the operation when it has one.
HeadGood(m) == Matches(head[m]) /\ (ver[m] # 0 => Carries(head[m], ver[m]))

\* Where an operation stands with its version and the hash file.
PlaceOK(m) ==
  /\ pc[m] \in {"idle", "fetch", "stage"} => ver[m] = 0
  /\ pc[m] = "commit" => SumMatches(idx[m]) /\ idx[m][SumFile].ver = ver[m]
  /\ pc[m] = "track" /\ ver[m] # 0 => HeadGood(m)
  /\ pc[m] \in {"merge", "pull", "push", "tag", "pushtag"} => HeadGood(m)

\* The commit a tag names matches and carries its version.
TagGood(c, v) == c # 0 => Matches(c) /\ Carries(c, v)

TagsGood ==
  /\ \A m \in Machine, v \in Version : TagGood(tag[m][v], v)
  /\ \A v \in Version : TagGood(remoteTag[v], v)

SumInv == ShapeOK /\ TagsGood /\ \A m \in Machine : PlaceOK(m)

-----------------------------------------------------------------------------
\* Commits are never changed.
LEMMA ObjectsGrow ==
  ASSUME TypeInv, GraphOK, NEW m \in Machine, LocalMove(m) \/ PushMove(m)
  PROVE  /\ 1..commits \subseteq 1..commits'
         /\ \A c \in 1..commits : tree'[c] = tree[c] /\ anc'[c] = anc[c]
         /\ \A c \in 1..commits : Matches(c)' = Matches(c)
         /\ \A c \in 1..commits, v \in Version : Carries(c, v) => Carries(c, v)'
<1>1. /\ 1..commits \subseteq 1..commits'
      /\ \A c \in 1..commits : tree'[c] = tree[c] /\ anc'[c] = anc[c]
  <2>1. CASE UNCHANGED objects
    BY <2>1 DEF objects
  <2>2. ASSUME NEW t \in Tree, NEW other \in {0, mergeHead[m], remoteHead}, MakeCommit(m, t, other)
        PROVE  /\ 1..commits \subseteq 1..commits'
               /\ \A c \in 1..commits : tree'[c] = tree[c] /\ anc'[c] = anc[c]
    <3>1. commits \in Nat /\ commits \in 1..MaxCommits
      BY GitSyncAssumption DEF TypeInv, TypeOK, Commit
    <3>2. commits' = commits + 1 /\ \A c \in 1..commits : c # commits + 1 /\ c \in Commit
      BY <2>2, <3>1, GitSyncAssumption DEF MakeCommit, Commit
    <3>3. \A c \in 1..commits : tree'[c] = tree[c] /\ anc'[c] = anc[c]
      BY <2>2, <3>2 DEF MakeCommit, TypeInv, TypeOK
    <3>4. 1..commits \subseteq 1..commits'
      BY <3>1, <3>2
    <3> QED
      BY <3>3, <3>4
  <2> QED
    BY <2>1, <2>2 DEF LocalMove, PushMove
<1>2. \A c \in 1..commits : Matches(c)' = Matches(c)
  BY <1>1 DEF Matches
<1>3. \A c \in 1..commits, v \in Version : Carries(c, v) => Carries(c, v)'
  <2> SUFFICES ASSUME NEW c \in 1..commits, NEW v \in Version, NEW d \in anc[c],
                      Matches(d), tree[d][SumFile].ver = v
               PROVE  Carries(c, v)'
    BY DEF Carries
  <2>1. d \in 1..commits /\ d \in anc'[c]
    BY <1>1 DEF GraphOK, AncOK
  <2>2. Matches(d)' /\ tree'[d][SumFile].ver = v
    BY <1>1, <1>2, <2>1
  <2> QED
    BY <2>1, <2>2 DEF Carries
<1> QED
  BY <1>1, <1>2, <1>3

\* A commit, seen from the machine that makes it.
LEMMA NewHead ==
  ASSUME TypeInv, GraphOK, NEW m \in Machine, NEW t \in Tree,
         NEW other \in {0, mergeHead[m], remoteHead}, MakeCommit(m, t, other)
  PROVE  /\ commits' = commits + 1
         /\ commits' \notin 1..commits
         /\ 1..commits' = 1..commits \union {commits'}
         /\ head' = [head EXCEPT ![m] = commits']
         /\ head'[m] = commits'
         /\ tree'[commits'] = t
         /\ anc'[commits'] = {commits'} \union anc[head[m]]
                                \union (IF other = 0 THEN {} ELSE anc[other])
         /\ other # 0 => other \in 1..commits
<1>1. commits \in Nat /\ commits \in 1..MaxCommits
  BY GitSyncAssumption DEF TypeInv, TypeOK, Commit
<1>2. other \in 0..commits
  BY <1>1 DEF GraphOK, RefsOK
<1>3. /\ commits' = commits + 1
      /\ 1..commits' = 1..commits \union {commits'}
      /\ anc'[commits'] = {commits'} \union anc[head[m]]
                                \union (IF other = 0 THEN {} ELSE anc[other])
      /\ head' = [head EXCEPT ![m] = commits']
  BY <1>2, MakeCommitGraph DEF GraphOK
<1>4. commits' \in Commit /\ commits' \notin 1..commits
  BY <1>1, <1>3, GitSyncAssumption DEF MakeCommit, Commit
<1>5. tree'[commits'] = t
  BY <1>3, <1>4 DEF MakeCommit, TypeInv, TypeOK
<1>6. head'[m] = commits'
  BY <1>3 DEF TypeInv, TypeOK
<1> QED
  BY <1>1, <1>2, <1>3, <1>4, <1>5, <1>6

-----------------------------------------------------------------------------
(* The shape of history.                                                   *)

LEMMA RootStep ==
  ASSUME TypeInv, GraphOK, RootOK, NEW m \in Machine, LocalMove(m) \/ PushMove(m)
  PROVE  RootOK'
<1>1. CASE UNCHANGED objects
  BY <1>1 DEF objects, RootOK
<1>2. ASSUME NEW t \in Tree, NEW other \in {0, mergeHead[m], remoteHead}, MakeCommit(m, t, other)
      PROVE  RootOK'
  <2> SUFFICES ASSUME NEW c \in 1..commits'
               PROVE  1 \in anc'[c] /\ \A d \in anc'[c] : d <= c
    BY DEF RootOK
  <2>1. CASE c \in 1..commits
    BY <1>2, <2>1, ObjectsGrow DEF RootOK, LocalMove, PushMove
  <2>2. CASE c = commits'
    <3>1. /\ commits' = commits + 1
          /\ anc'[c] = {c} \union anc[head[m]] \union (IF other = 0 THEN {} ELSE anc[other])
          /\ other # 0 => other \in 1..commits
      BY <1>2, <2>2, NewHead
    <3>2. head[m] \in 1..commits /\ commits \in Nat
      BY GitSyncAssumption DEF GraphOK, RefsOK, TypeInv, TypeOK, Commit
    <3>3. \A d \in anc[head[m]] : d \in 1..commits
      BY <3>2 DEF GraphOK, AncOK
    <3>4. other # 0 => \A d \in anc[other] : d \in 1..commits
      BY <3>1 DEF GraphOK, AncOK
    <3>5. 1 \in anc[head[m]]
      BY <3>2 DEF RootOK
    <3>6. \A d \in anc'[c] : d = c \/ d \in 1..commits
      BY <3>1, <3>3, <3>4
    <3>7. \A d \in anc'[c] : d <= c
      BY <2>2, <3>1, <3>2, <3>6
    <3> QED
      BY <3>1, <3>5, <3>7
  <2> QED
    BY <1>2, <2>1, <2>2, NewHead
<1> QED
  BY <1>1, <1>2 DEF LocalMove, PushMove

LEMMA RefsMatchStep ==
  ASSUME TypeInv, GraphOK, RefsMatch, NEW m \in Machine, LocalMove(m) \/ PushMove(m),
         pc[m] = "push" => Matches(head[m])
  PROVE  RefsMatch'
<1>1. /\ remoteHead \in 1..commits
      /\ \A x \in Machine : /\ head[x] \in 1..commits /\ origin[x] \in 1..commits
                            /\ mergeHead[x] # 0 => mergeHead[x] \in 1..commits
  BY GitSyncAssumption DEF GraphOK, RefsOK, TypeInv, TypeOK, Commit
<1>2. \A c \in 1..commits : Matches(c)' = Matches(c)
  BY ObjectsGrow
<1>3. CASE LocalMove(m)
  <2>1. remoteHead' = remoteHead
    BY <1>3 DEF LocalMove
  <2>2. PICK o \in {origin[m], remoteHead} : origin' = [origin EXCEPT ![m] = o]
    BY <1>3 DEF LocalMove
  <2>3. PICK h \in {0, mergeHead[m], remoteHead, origin[m]} : mergeHead' = [mergeHead EXCEPT ![m] = h]
    BY <1>3 DEF LocalMove
  <2>4. o \in 1..commits /\ Matches(o) /\ (h # 0 => h \in 1..commits /\ Matches(h))
    BY <1>1 DEF RefsMatch
  <2>5. \A x \in Machine : /\ origin'[x] \in 1..commits /\ Matches(origin'[x])
                           /\ mergeHead'[x] # 0 => mergeHead'[x] \in 1..commits /\ Matches(mergeHead'[x])
    BY <1>1, <2>2, <2>3, <2>4 DEF RefsMatch, TypeInv, TypeOK
  <2> QED
    BY <1>1, <1>2, <2>1, <2>5 DEF RefsMatch, Matches
<1>4. CASE PushMove(m)
  <2>1. Matches(head[m])
    BY <1>4 DEF PushMove
  <2>2. \A x \in Machine : /\ origin'[x] \in 1..commits /\ Matches(origin'[x])
                           /\ mergeHead'[x] = mergeHead[x]
    BY <1>1, <1>4, <2>1 DEF PushMove, RefsMatch, TypeInv, TypeOK
  <2>3. remoteHead' = head[m]
    BY <1>4 DEF PushMove
  <2> QED
    BY <1>1, <1>2, <2>1, <2>2, <2>3 DEF RefsMatch, Matches
<1> QED
  BY <1>3, <1>4

\* A commit made on top of a HEAD that does not match hides it from no one
\* else, for nobody else has it.
LEMMA LeafStep ==
  ASSUME TypeInv, GraphOK, RefsMatch, LeafOK, NEW m \in Machine, LocalMove(m) \/ PushMove(m)
  PROVE  LeafOK'
<1>1. \A x \in Machine : head[x] \in 1..commits
  BY DEF GraphOK, RefsOK
<1>2. \A c \in 1..commits : Matches(c)' = Matches(c) /\ anc'[c] = anc[c]
  BY ObjectsGrow
<1>3. remoteHead \in 1..commits
  BY DEF GraphOK, RefsOK
<1>4. CASE UNCHANGED objects /\ (UNCHANGED head \/ head' = [head EXCEPT ![m] = remoteHead])
  <2> SUFFICES ASSUME NEW x \in Machine, ~Matches(head[x])'
               PROVE  /\ \A c \in 1..commits' : head'[x] \in anc'[c] => c = head'[x]
                      /\ \A y \in Machine : head'[y] = head'[x] => y = x
    BY DEF LeafOK, Matches
  <2>1. \A y \in Machine : head'[y] \in {head[y], remoteHead}
    BY <1>4 DEF TypeInv, TypeOK
  <2>2. Matches(remoteHead)
    BY DEF RefsMatch
  <2>3. ~Matches(head'[x])
    BY <1>1, <1>2, <1>3, <2>1 DEF Matches
  <2>4. head'[x] = head[x]
    BY <2>1, <2>2, <2>3
  <2>5. \A c \in 1..commits : head[x] \in anc[c] => c = head[x]
    BY <2>3, <2>4 DEF LeafOK
  <2>6. \A y \in Machine : head'[y] = head'[x] => head[y] = head[x]
    BY <2>1, <2>2, <2>3, <2>4
  <2>7. \A y \in Machine : head[y] = head[x] => y = x
    BY <2>3, <2>4 DEF LeafOK
  <2> QED
    BY <1>4, <2>4, <2>5, <2>6, <2>7 DEF objects
<1>5. ASSUME NEW t \in Tree, NEW other \in {0, mergeHead[m], remoteHead}, MakeCommit(m, t, other)
      PROVE  LeafOK'
  <2>1. /\ commits' \notin 1..commits
        /\ 1..commits' = 1..commits \union {commits'}
        /\ head' = [head EXCEPT ![m] = commits']
        /\ head'[m] = commits'
        /\ anc'[commits'] = {commits'} \union anc[head[m]]
                                \union (IF other = 0 THEN {} ELSE anc[other])
        /\ other # 0 => other \in 1..commits
    BY <1>5, NewHead
  <2>2. other # 0 => Matches(other)
    BY DEF RefsMatch
  <2>3. \A y \in Machine : y # m => head'[y] = head[y]
    BY <2>1 DEF TypeInv, TypeOK
  <2>4. \A c \in 1..commits : commits' \notin anc'[c]
    BY <1>2, <2>1 DEF GraphOK, AncOK
  <2>5. ASSUME NEW x \in Machine, x # m, ~Matches(head[x])
        PROVE  head[x] \notin anc'[commits']
    <3>1. head[x] \notin anc[head[m]]
      BY <1>1, <2>5 DEF LeafOK
    <3>2. other # 0 => head[x] \notin anc[other]
      BY <2>1, <2>2, <2>5 DEF LeafOK
    <3>3. head[x] # commits'
      BY <1>1, <2>1
    <3> QED
      BY <2>1, <3>1, <3>2, <3>3
  <2> SUFFICES ASSUME NEW x \in Machine, ~Matches(head[x])'
               PROVE  /\ \A c \in 1..commits' : head'[x] \in anc'[c] => c = head'[x]
                      /\ \A y \in Machine : head'[y] = head'[x] => y = x
    BY DEF LeafOK, Matches
  <2>6. CASE x = m
    BY <1>1, <2>1, <2>3, <2>4, <2>6
  <2>7. CASE x # m
    <3>1. head'[x] = head[x] /\ ~Matches(head[x])
      BY <1>1, <1>2, <2>3, <2>7 DEF Matches
    <3>2. \A c \in 1..commits : head[x] \in anc'[c] => c = head[x]
      BY <1>2, <3>1 DEF LeafOK
    <3>3. head[x] \notin anc'[commits']
      BY <2>5, <2>7, <3>1
    <3>4. \A y \in Machine : head'[y] = head[x] => y = x
      BY <1>1, <2>1, <2>3, <3>1 DEF LeafOK
    <3> QED
      BY <2>1, <3>1, <3>2, <3>3, <3>4
  <2> QED
    BY <2>6, <2>7
<1> QED
  BY <1>4, <1>5 DEF LocalMove, PushMove

LEMMA BaseStep ==
  ASSUME TypeInv, GraphOK, RootOK, RefsMatch, LeafOK, BaseOK,
         NEW m \in Machine, LocalMove(m) \/ PushMove(m)
  PROVE  BaseOK'
<1>1. CASE UNCHANGED objects
  BY <1>1 DEF objects, BaseOK, Matches
<1>2. ASSUME NEW t \in Tree, NEW other \in {0, mergeHead[m], remoteHead}, MakeCommit(m, t, other)
      PROVE  BaseOK'
  <2> DEFINE n == commits'
  <2>1. /\ n \notin 1..commits
        /\ 1..n = 1..commits \union {n}
        /\ anc'[n] = {n} \union anc[head[m]] \union (IF other = 0 THEN {} ELSE anc[other])
        /\ other # 0 => other \in 1..commits
    BY <1>2, NewHead
  <2>2. /\ \A c \in 1..commits : Matches(c)' = Matches(c) /\ anc'[c] = anc[c]
        /\ head[m] \in 1..commits
        /\ \A c \in 1..commits : c \in anc[c] /\ anc[c] \subseteq 1..commits
        /\ \A c \in 1..commits : \A d \in anc[c] : anc[d] \subseteq anc[c]
    BY <1>2, ObjectsGrow DEF LocalMove, PushMove, GraphOK, RefsOK, AncOK
  <2>3. other # 0 => Matches(other)
    BY DEF RefsMatch
  <2> HIDE DEF n
  <2>4. ASSUME NEW c \in 1..commits, ~Matches(c), NEW y \in (1..commits) \ {c},
               c \in anc[y], c \in anc'[n]
        PROVE  \E d \in anc'[n] \intersect anc[y] : d # c /\ c \in anc[d]
    <3>1. CASE c \in anc[head[m]]
      <4>1. c # head[m]
        BY <2>4 DEF LeafOK
      <4>2. \E d \in anc[head[m]] \intersect anc[y] : d # c /\ c \in anc[d]
        BY <2>2, <2>4, <3>1, <4>1 DEF BaseOK
      <4> QED
        BY <2>1, <4>2
    <3>2. CASE other # 0 /\ c \in anc[other]
      <4>1. c # other
        BY <2>3, <2>4, <3>2
      <4>2. \E d \in anc[other] \intersect anc[y] : d # c /\ c \in anc[d]
        BY <2>1, <2>4, <3>2, <4>1 DEF BaseOK
      <4> QED
        BY <2>1, <3>2, <4>2
    <3> QED
      BY <2>1, <2>4, <3>1, <3>2
  <2> SUFFICES ASSUME NEW c \in 1..n, ~Matches(c)', NEW x \in (1..n) \ {c}, NEW y \in (1..n) \ {c},
                      c \in anc'[x], c \in anc'[y]
               PROVE  \E d \in anc'[x] \intersect anc'[y] : d # c /\ c \in anc'[d]
    BY DEF BaseOK, n
  <2>5. c \in 1..commits
    <3>1. x \in 1..commits => anc'[x] \subseteq 1..commits
      BY <2>2
    <3> QED
      BY <2>1, <3>1
  <2>6. ~Matches(c)
    BY <2>2, <2>5
  <2>7. CASE x = n /\ y = n
    BY <2>1, <2>5, <2>7
  <2>8. CASE x = n /\ y # n
    <3>1. y \in (1..commits) \ {c} /\ c \in anc[y] /\ anc'[y] = anc[y]
      BY <2>1, <2>2, <2>8
    <3>2. PICK d \in anc'[n] \intersect anc[y] : d # c /\ c \in anc[d]
      BY <2>4, <2>5, <2>6, <2>8, <3>1
    <3> QED
      BY <2>2, <2>8, <3>1, <3>2
  <2>9. CASE x # n /\ y = n
    <3>1. x \in (1..commits) \ {c} /\ c \in anc[x] /\ anc'[x] = anc[x]
      BY <2>1, <2>2, <2>9
    <3>2. PICK d \in anc'[n] \intersect anc[x] : d # c /\ c \in anc[d]
      BY <2>4, <2>5, <2>6, <2>9, <3>1
    <3> QED
      BY <2>2, <2>9, <3>1, <3>2
  <2>10. CASE x # n /\ y # n
    <3>1. x \in (1..commits) \ {c} /\ y \in (1..commits) \ {c}
      BY <2>1, <2>10
    <3>2. anc'[x] = anc[x] /\ anc'[y] = anc[y]
      BY <2>2, <3>1
    <3>3. PICK d \in anc[x] \intersect anc[y] : d # c /\ c \in anc[d]
      BY <2>5, <2>6, <3>1, <3>2 DEF BaseOK
    <3>4. d \in 1..commits
      BY <2>2, <3>1, <3>3
    <3> QED
      BY <2>2, <3>2, <3>3, <3>4
  <2> QED
    BY <2>7, <2>8, <2>9, <2>10
<1> QED
  BY <1>1, <1>2 DEF LocalMove, PushMove

\* Two stores that match are merged over one that matches.
LEMMA MergeBaseMatches ==
  ASSUME TypeInv, GraphOK, RootOK, BaseOK, NEW a \in 1..commits, NEW b \in 1..commits,
         Matches(a), Matches(b)
  PROVE  Matches(MergeBase(a, b))
<1> DEFINE c == MergeBase(a, b)
<1>1. c \in BestBases(a, b)
  BY MergeBaseIsBest
<1> HIDE DEF c
<1>2. /\ c \in 1..commits /\ c \in anc[a] /\ c \in anc[b]
      /\ \A d \in anc[a] \intersect anc[b] : c \in anc[d] => d = c
  BY <1>1 DEF BestBases, GraphOK, AncOK
<1>3. SUFFICES ASSUME ~Matches(c) PROVE FALSE
  BY DEF c
<1>4. a # c /\ b # c
  BY <1>3
<1>5. \E d \in anc[a] \intersect anc[b] : d # c /\ c \in anc[d]
  BY <1>2, <1>3, <1>4 DEF BaseOK
<1> QED
  BY <1>2, <1>5

-----------------------------------------------------------------------------
(* Where operations stand.                                                 *)

LEMMA VerFrame ==
  ASSUME TypeInv, NEW m \in Machine,
         Outside(m) \/ Menu(m) \/ Review(m) \/ Engine(m) \/ Stop(m),
         NEW x \in Machine, x # m
  PROVE  ver'[x] = ver[x]
<1>1. UNCHANGED ver \/ \E v : ver' = [ver EXCEPT ![m] = v]
  <2>1. CASE Outside(m)
    BY <2>1 DEF Outside, PassWrite, LeaveUncommitted, session
  <2>2. CASE Menu(m)
    BY <2>2 DEF Menu, SyncStore, PushStoreForce, FetchStorePreview, PullStoreForce,
                NukePasswords, SetVer, session
  <2>3. CASE Review(m)
    BY <2>3 DEF Review, KeepSide, EditFile, Resolve, AbortReview, FinalizeMergeCommit,
                Leave, SetVer, Stay, session
  <2>4. CASE Engine(m)
    BY <2>4 DEF Engine, Fetch, StageChanges, CommitStaged, VersionKnown, TrackVersion,
                StartMerge, Pull, Push, CreateTag, PushTag, Dismiss,
                Leave, SetVer, Stay
  <2>5. CASE Stop(m)
    BY <2>5 DEF Stop, Leave, SetVer
  <2> QED
    BY <2>1, <2>2, <2>3, <2>4, <2>5
<1> QED
  BY <1>1 DEF TypeInv, TypeOK

LEMMA HeadGoodKept ==
  ASSUME TypeInv, GraphOK, NEW m \in Machine, LocalMove(m) \/ PushMove(m),
         NEW x \in Machine, head'[x] = head[x], ver'[x] = ver[x], HeadGood(x)
  PROVE  HeadGood(x)'
<1>1. head[x] \in 1..commits /\ (ver[x] # 0 => ver[x] \in Version)
  BY DEF GraphOK, RefsOK, TypeInv, TypeOK
<1>2. /\ Matches(head[x]) /\ SumMatches(tree'[head[x]]) = SumMatches(tree[head[x]])
  BY <1>1, ObjectsGrow DEF HeadGood
<1>3. ver[x] # 0 => \E d \in anc'[head[x]] : SumMatches(tree'[d]) /\ tree'[d][SumFile].ver = ver[x]
  <2> SUFFICES ASSUME ver[x] # 0
               PROVE  \E d \in anc'[head[x]] : SumMatches(tree'[d]) /\ tree'[d][SumFile].ver = ver[x]
    OBVIOUS
  <2>1. PICK d \in anc[head[x]] : SumMatches(tree[d]) /\ tree[d][SumFile].ver = ver[x]
    BY DEF HeadGood, Carries, Matches
  <2>2. d \in 1..commits
    BY <1>1, <2>1 DEF GraphOK, AncOK
  <2> QED
    BY <1>1, <2>1, <2>2, ObjectsGrow
<1> QED
  BY <1>2, <1>3 DEF HeadGood, Carries, Matches

\* A commit whose hash file was written for its entries and the version of the
\* operation.
LEMMA TrackedCommit ==
  ASSUME TypeInv, GraphOK, NEW m \in Machine, NEW t \in Tree,
         NEW other \in {0, mergeHead[m], remoteHead}, MakeCommit(m, t, other),
         SumMatches(t), ver'[m] = t[SumFile].ver
  PROVE  HeadGood(m)'
<1>1. /\ head'[m] \in anc'[head'[m]]
      /\ tree'[head'[m]] = t
  BY NewHead
<1> QED
  BY <1>1 DEF HeadGood, Carries, Matches

\* Another machine is where it was.
LEMMA PlaceFrame ==
  ASSUME TypeInv, GraphOK, NEW m \in Machine,
         Outside(m) \/ Menu(m) \/ Review(m) \/ Engine(m) \/ Stop(m),
         NEW x \in Machine, x # m, PlaceOK(x)
  PROVE  PlaceOK(x)'
<1>1. LocalMove(m) \/ PushMove(m)
  BY MoveOfStep
<1>2. /\ pc'[x] = pc[x] /\ ver'[x] = ver[x]
      /\ idx'[x] = idx[x] /\ head'[x] = head[x]
  BY <1>1, PcFrame, VerFrame, FilesFrame, HeadFrame
<1>3. HeadGood(x) => HeadGood(x)'
  BY <1>1, <1>2, HeadGoodKept
<1> QED
  BY <1>2, <1>3 DEF PlaceOK

\* A pull that merges commits the store of one of the two sides, and what HEAD
\* carried it still carries.
LEMMA PullPlace ==
  ASSUME TypeInv, GraphOK, RootOK, RefsMatch, BaseOK, NEW m \in Machine, Pull(m), PlaceOK(m)
  PROVE  PlaceOK(m)'
<1> DEFINE b == tree[MergeBase(head[m], remoteHead)]
           o == tree[head[m]]
           t == tree[remoteHead]
<1>1. pc[m] = "pull" /\ HeadGood(m)
  BY DEF Pull, PlaceOK
<1>2. pc'[m] \in {"idle", "push", "review"} /\ (pc'[m] = "idle" => ver'[m] = 0)
  BY DEF Pull, Leave, Goto, SetVer, TypeInv, TypeOK
<1>3. LocalMove(m) \/ PushMove(m)
  BY MoveOfStep DEF Engine
<1>4. head[m] \in 1..commits /\ remoteHead \in 1..commits /\ Matches(head[m]) /\ Matches(remoteHead)
  BY <1>1 DEF GraphOK, RefsOK, RefsMatch, HeadGood
<1>5. ASSUME pc'[m] = "push" PROVE HeadGood(m)'
  <2>1. ver'[m] = ver[m]
    BY <1>5 DEF Pull, Leave, Stay, Goto, TypeInv, TypeOK
  <2>2. CASE UNCHANGED head
    BY <1>1, <1>3, <2>1, <2>2, HeadGoodKept
  <2>3. CASE UNCHANGED objects /\ head' = [head EXCEPT ![m] = remoteHead] /\ head[m] \in anc[remoteHead]
    <3>1. head'[m] = remoteHead /\ tree' = tree /\ anc' = anc
      BY <2>3 DEF objects, TypeInv, TypeOK
    <3>2. anc[head[m]] \subseteq anc[remoteHead]
      BY <1>4, <2>3 DEF GraphOK, AncOK
    <3>3. ver[m] # 0 => Carries(remoteHead, ver[m])
      BY <1>1, <3>2 DEF HeadGood, Carries
    <3> QED
      BY <1>4, <2>1, <3>1, <3>3 DEF HeadGood, Carries, Matches
  <2>4. CASE Conflicts(b, o, t) = {} /\ MakeCommit(m, Merged(b, o, t), remoteHead)
    <3>1. MergeBase(head[m], remoteHead) \in 1..commits
      BY <1>4, MergeBaseIsBest DEF BestBases, GraphOK, AncOK
    <3>2. b \in Tree /\ o \in Tree /\ t \in Tree
      <4>1. 1..commits \subseteq Commit
        BY GitSyncAssumption DEF TypeInv, TypeOK, Commit
      <4> QED
        BY <1>4, <3>1, <4>1 DEF TypeInv, TypeOK
    <3>3. SumMatches(b) /\ SumMatches(o) /\ SumMatches(t)
      BY <1>4, MergeBaseMatches DEF Matches
    <3> HIDE DEF b, o, t
    <3>4. Merged(b, o, t) \in {o, t} /\ Merged(b, o, t) \in Tree
      BY <2>4, <3>2, <3>3, MergedIsASide, MergedTree
    <3>5. /\ tree'[head'[m]] = Merged(b, o, t)
          /\ anc[head[m]] \subseteq anc'[head'[m]]
      BY <2>4, <3>4, NewHead
    <3>6. Matches(head[m])'
      BY <3>3, <3>4, <3>5 DEF Matches
    <3>7. ASSUME ver[m] # 0 PROVE \E d \in anc'[head'[m]] : SumMatches(tree'[d]) /\ tree'[d][SumFile].ver = ver[m]
      <4>1. PICK d \in anc[head[m]] : SumMatches(tree[d]) /\ tree[d][SumFile].ver = ver[m]
        BY <1>1, <3>7 DEF HeadGood, Carries, Matches
      <4>2. tree'[d] = tree[d]
        BY <1>3, <1>4, <4>1, ObjectsGrow DEF GraphOK, AncOK
      <4> QED
        BY <3>5, <4>1, <4>2
    <3> QED
      BY <2>1, <3>6, <3>7 DEF HeadGood, Carries, Matches
  <2>5. \/ UNCHANGED head
        \/ UNCHANGED objects /\ head' = [head EXCEPT ![m] = remoteHead] /\ head[m] \in anc[remoteHead]
        \/ Conflicts(b, o, t) = {} /\ MakeCommit(m, Merged(b, o, t), remoteHead)
    BY DEF Pull
  <2> QED
    BY <2>2, <2>3, <2>4, <2>5
<1> QED
  BY <1>2, <1>5 DEF PlaceOK

\* Version tracking: an operation goes on with a version it has given to the
\* store, with one it finds on HEAD, or with what origin has already.
LEMMA TrackingPlace ==
  ASSUME TypeInv, GraphOK, RefsMatch, LeafOK, TagsGood, NEW m \in Machine, PlaceOK(m),
         StageChanges(m) \/ CommitStaged(m) \/ VersionKnown(m) \/ TrackVersion(m)
  PROVE  PlaceOK(m)'
<1> USE DEF TypeInv
<1>1. LocalMove(m) \/ PushMove(m)
  BY MoveOfStep DEF Engine
<1>2. CASE StageChanges(m)
  <2> DEFINE t == WithSum(work[m], NextVersion(m))
  <2>1. pc[m] = "stage" /\ ver[m] = 0
    BY <1>2 DEF StageChanges, PlaceOK
  <2>2. CASE Clean(m)
    <3>1. pc'[m] = "track" /\ ver'[m] = 0
      BY <1>2, <2>1, <2>2 DEF StageChanges, Goto, TypeOK
    <3> QED
      BY <3>1 DEF PlaceOK
  <2>3. CASE ~Clean(m)
    <3>1. NextVersion(m) \in Version /\ work[m] \in Tree
      BY <1>2, <2>3 DEF StageChanges, TypeOK
    <3>2. SumMatches(t) /\ t[SumFile].ver = NextVersion(m)
      BY <3>1, WithSumTree
    <3>3. pc'[m] = "commit" /\ ver'[m] = NextVersion(m) /\ idx'[m] = t
      BY <1>2, <2>3 DEF StageChanges, Checkout, SetVer, Goto, TypeOK
    <3> QED
      BY <3>2, <3>3 DEF PlaceOK
  <2> QED
    BY <2>2, <2>3
<1>3. CASE CommitStaged(m)
  <2>1. /\ pc'[m] = "track" /\ ver'[m] = ver[m]
        /\ idx[m] \in Tree /\ SumMatches(idx[m]) /\ idx[m][SumFile].ver = ver[m]
    BY <1>3 DEF CommitStaged, Goto, PlaceOK, TypeOK
  <2>2. CASE idx[m] = tree[head[m]]
    <3>1. head' = head
      BY <1>3, <2>2 DEF CommitStaged
    <3>2. head[m] \in anc[head[m]]
      BY DEF GraphOK, RefsOK, AncOK
    <3>3. HeadGood(m)
      BY <2>1, <2>2, <3>2 DEF HeadGood, Carries, Matches
    <3>4. HeadGood(m)'
      BY <1>1, <2>1, <3>1, <3>3, HeadGoodKept
    <3> QED
      BY <2>1, <3>4 DEF PlaceOK
  <2>3. CASE MakeCommit(m, idx[m], mergeHead[m])
    <3>1. HeadGood(m)'
      BY <2>1, <2>3, TrackedCommit
    <3> QED
      BY <2>1, <3>1 DEF PlaceOK
  <2> QED
    BY <1>3, <2>2, <2>3 DEF CommitStaged
<1>4. CASE VersionKnown(m)
  <2>1. /\ pc[m] = "track" /\ pc'[m] \in {"merge", "pull", "push"}
        /\ UNCHANGED <<objects, head>>
    BY <1>4 DEF VersionKnown, AfterTracking, Goto, TypeOK
  <2>2. head[m] \in 1..commits /\ origin[m] \in 1..commits
    BY DEF GraphOK, RefsOK
  <2>3. CASE ver[m] # 0 /\ UNCHANGED ver
    <3>1. HeadGood(m)
      BY <2>1, <2>3 DEF PlaceOK
    <3>2. HeadGood(m)'
      BY <1>1, <2>1, <2>3, <3>1, HeadGoodKept
    <3> QED
      BY <2>1, <3>2 DEF PlaceOK
  <2>4. ASSUME NEW v \in HeadTags(m), SetVer(m, v)
        PROVE  PlaceOK(m)'
    <3>1. v \in Version /\ tag[m][v] = head[m] /\ ver'[m] = v
      BY <2>4 DEF HeadTags, SetVer, TypeOK
    <3>2. Matches(head[m]) /\ Carries(head[m], v)
      <4>1. head[m] # 0
        BY DEF TypeOK, Commit
      <4> QED
        BY <3>1, <4>1 DEF TagsGood, TagGood
    <3>3. HeadGood(m)'
      BY <2>1, <3>1, <3>2 DEF HeadGood, Matches, Carries, objects
    <3> QED
      BY <2>1, <3>3 DEF PlaceOK
  <2>5. CASE ver[m] = 0 /\ ~AheadOfOrigin(m) /\ UNCHANGED ver
    <3>1. head[m] \in anc[origin[m]] /\ Matches(origin[m])
      BY <2>5 DEF AheadOfOrigin, RefsMatch
    <3>2. Matches(head[m])
      BY <2>2, <3>1 DEF LeafOK
    <3>3. HeadGood(m)
      BY <2>5, <3>2 DEF HeadGood
    <3>4. HeadGood(m)'
      BY <1>1, <2>1, <2>5, <3>3, HeadGoodKept
    <3> QED
      BY <2>1, <3>4 DEF PlaceOK
  <2> QED
    BY <1>4, <2>3, <2>4, <2>5 DEF VersionKnown
<1>5. CASE TrackVersion(m)
  <2> DEFINE t == TrackedTree(m)
  <2>1. NextVersion(m) \in Version /\ work[m] \in Tree
    BY <1>5 DEF TrackVersion, TypeOK
  <2>2. t \in Tree /\ SumMatches(t) /\ t[SumFile].ver = NextVersion(m)
    BY <2>1, WithSumTree DEF TrackedTree
  <2> HIDE DEF t
  <2>3. CASE Leave(m)
    <3>1. pc'[m] = "idle" /\ ver'[m] = 0
      BY <2>3 DEF Leave, Goto, SetVer, TypeOK
    <3> QED
      BY <3>1 DEF PlaceOK
  <2>4. CASE MakeCommit(m, t, mergeHead[m]) /\ SetVer(m, NextVersion(m)) /\ AfterTracking(m)
    <3>1. ver'[m] = NextVersion(m) /\ pc'[m] \in {"merge", "pull", "push"}
      BY <2>4 DEF SetVer, AfterTracking, Goto, TypeOK
    <3>2. HeadGood(m)'
      BY <2>2, <2>4, <3>1, TrackedCommit
    <3> QED
      BY <3>1, <3>2 DEF PlaceOK
  <2> QED
    BY <1>5, <2>3, <2>4 DEF TrackVersion, t
<1> QED
  BY <1>2, <1>3, <1>4, <1>5

\* A commit made outside version tracking, by the review or by a nuke.
LEMMA OwnCommitPlace ==
  ASSUME TypeInv, GraphOK, NEW m \in Machine, NEW t \in Tree, NEW v \in Version,
         NEW other \in {0, mergeHead[m]}, MakeCommit(m, WithSum(t, v), other),
         Goto(m, "push"), SetVer(m, v)
  PROVE  PlaceOK(m)'
<1>1. pc'[m] = "push" /\ ver'[m] = v
  BY DEF Goto, SetVer, TypeInv, TypeOK
<1>2. /\ WithSum(t, v) \in Tree /\ SumMatches(WithSum(t, v))
      /\ WithSum(t, v)[SumFile].ver = v
  BY WithSumTree
<1>3. HeadGood(m)'
  BY <1>1, <1>2, TrackedCommit
<1> QED
  BY <1>1, <1>3 DEF PlaceOK

LEMMA PlaceStep ==
  ASSUME TypeInv, GraphOK, ShapeOK, TagsGood, NEW m \in Machine, PlaceOK(m),
         Outside(m) \/ Menu(m) \/ Review(m) \/ Engine(m) \/ Stop(m)
  PROVE  PlaceOK(m)'
<1> USE DEF TypeInv
<1>1. LocalMove(m) \/ PushMove(m)
  BY MoveOfStep
<1>2. ASSUME Leave(m) PROVE PlaceOK(m)'
  <2>1. pc'[m] = "idle" /\ ver'[m] = 0
    BY <1>2 DEF Leave, Goto, SetVer, TypeOK
  <2> QED
    BY <2>1 DEF PlaceOK
<1>3. ASSUME pc'[m] \in {"review", "done"} PROVE PlaceOK(m)'
  BY <1>3 DEF PlaceOK
<1>4. ASSUME pc[m] \in {"idle", "fetch", "stage"}, pc'[m] \in {"idle", "fetch", "stage"},
             UNCHANGED ver
      PROVE  PlaceOK(m)'
  BY <1>4 DEF PlaceOK
<1>5. CASE Outside(m)
  BY <1>4, <1>5 DEF Outside, PassWrite, LeaveUncommitted, session
<1>6. CASE Menu(m)
  <2>1. CASE SyncStore(m) \/ PushStoreForce(m) \/ FetchStorePreview(m) \/ PullStoreForce(m)
    <3>1. pc[m] = "idle" /\ pc'[m] \in {"idle", "fetch"} /\ UNCHANGED ver
      BY <2>1 DEF SyncStore, PushStoreForce, FetchStorePreview, PullStoreForce, Goto, session, TypeOK
    <3> QED
      BY <1>4, <3>1
  <2>2. ASSUME NEW r \in BOOLEAN, NukePasswords(m, r) PROVE PlaceOK(m)'
    <3> DEFINE v == NextVersion(m)
               s == [f \in File |-> IF f \in Entry THEN Absent ELSE work[m][f]]
    <3>1. s \in Tree
      <4>1. SumFile \in File /\ SumFile \notin Entry /\ \A e \in Entry : e \in File
        BY StoreTreeAssumption DEF File
      <4>2. s[SumFile] \in SumContent
        BY <4>1, TreeElim DEF TypeOK
      <4>3. \A e \in Entry : s[e] \in EntryContent
        BY <4>1 DEF EntryContent
      <4> QED
        BY <4>2, <4>3, TreeIntro
    <3>2. /\ v \in Version /\ pc[m] = "idle"
          /\ \/ UNCHANGED session
             \/ MakeCommit(m, WithSum(s, v), 0) /\ Goto(m, "push") /\ SetVer(m, v)
      BY <2>2 DEF NukePasswords
    <3> HIDE DEF v, s
    <3>3. UNCHANGED session => PlaceOK(m)'
      BY <1>4, <3>2 DEF session
    <3> QED
      BY <3>1, <3>2, <3>3, OwnCommitPlace
  <2> QED
    BY <1>6, <2>1, <2>2 DEF Menu
<1>7. CASE Review(m)
  <2>1. ASSUME pc[m] = "review", UNCHANGED session PROVE PlaceOK(m)'
    BY <1>3, <2>1 DEF session
  <2>2. ASSUME NEW f \in File, NEW side \in BOOLEAN, KeepSide(m, f, side) PROVE PlaceOK(m)'
    BY <1>2, <2>1, <2>2 DEF KeepSide, Resolve
  <2>3. ASSUME NEW f \in File, NEW c, EditFile(m, f, c) PROVE PlaceOK(m)'
    BY <1>2, <2>1, <2>3 DEF EditFile, Resolve
  <2>4. CASE AbortReview(m)
    BY <1>2, <2>4 DEF AbortReview
  <2>5. CASE FinalizeMergeCommit(m)
    <3> DEFINE v == IF ver[m] = 0 THEN NextVersion(m) ELSE ver[m]
    <3>1. \/ Goto(m, "done")
          \/ /\ v \in Version /\ MakeCommit(m, WithSum(work[m], v), mergeHead[m])
             /\ SetVer(m, v) /\ Goto(m, "push")
      BY <2>5 DEF FinalizeMergeCommit
    <3> HIDE DEF v
    <3>2. Goto(m, "done") => PlaceOK(m)'
      BY <1>3 DEF Goto, TypeOK
    <3>3. work[m] \in Tree
      BY DEF TypeOK
    <3> QED
      BY <3>1, <3>2, <3>3, OwnCommitPlace
  <2> QED
    BY <1>7, <2>2, <2>3, <2>4, <2>5 DEF Review
<1>8. CASE Engine(m)
  <2>1. CASE Fetch(m)
    <3>1. Leave(m) \/ (pc[m] = "fetch" /\ pc'[m] = "stage" /\ UNCHANGED ver)
      BY <2>1 DEF Fetch, Goto, Stay, TypeOK
    <3> QED
      BY <1>2, <1>4, <3>1
  <2>2. CASE StageChanges(m) \/ CommitStaged(m) \/ VersionKnown(m) \/ TrackVersion(m)
    BY <2>2, TrackingPlace DEF ShapeOK
  <2>3. CASE StartMerge(m)
    BY <1>3, <2>3 DEF StartMerge, Goto, TypeOK
  <2>4. CASE Pull(m)
    BY <2>4, PullPlace DEF ShapeOK
  <2>5. CASE Push(m)
    <3>1. pc[m] = "push" /\ UNCHANGED head
      BY <2>5 DEF Push
    <3>2. Leave(m) \/ (pc'[m] \in {"done", "tag"} /\ UNCHANGED ver)
      BY <2>5 DEF Push, Goto, Stay, TypeOK
    <3>3. UNCHANGED ver => HeadGood(m)'
      BY <1>1, <3>1, HeadGoodKept DEF PlaceOK
    <3>4. ASSUME pc'[m] = "tag", UNCHANGED ver PROVE PlaceOK(m)'
      BY <3>3, <3>4 DEF PlaceOK
    <3> QED
      BY <1>2, <1>3, <3>2, <3>4
  <2>6. CASE CreateTag(m)
    <3>1. pc[m] = "tag" /\ pc'[m] = "pushtag" /\ UNCHANGED <<head, ver>>
      BY <2>6 DEF CreateTag, Goto, TypeOK
    <3>2. HeadGood(m)'
      BY <1>1, <3>1, HeadGoodKept DEF PlaceOK
    <3> QED
      BY <3>1, <3>2 DEF PlaceOK
  <2>7. CASE PushTag(m)
    <3>1. Leave(m) \/ pc'[m] = "done"
      BY <2>7 DEF PushTag, Goto, TypeOK
    <3> QED
      BY <1>2, <1>3, <3>1
  <2>8. CASE Dismiss(m)
    BY <1>2, <2>8 DEF Dismiss
  <2> QED
    BY <1>8, <2>1, <2>2, <2>3, <2>4, <2>5, <2>6, <2>7, <2>8 DEF Engine
<1>9. CASE Stop(m)
  BY <1>2, <1>9 DEF Stop
<1> QED
  BY <1>5, <1>6, <1>7, <1>8, <1>9

-----------------------------------------------------------------------------
\* A tag is made on the HEAD that was just pushed with that version, and
\* tags travel unchanged.
LEMMA TagsGoodStep ==
  ASSUME TypeInv, GraphOK, TagOK, TagsGood, NEW m \in Machine, PlaceOK(m),
         Outside(m) \/ Menu(m) \/ Review(m) \/ Engine(m) \/ Stop(m)
  PROVE  TagsGood'
<1> USE DEF TypeInv
<1>1. \A c \in (1..commits) \union {0}, v \in Version : TagGood(c, v) => TagGood(c, v)'
  <2>1. LocalMove(m) \/ PushMove(m)
    BY MoveOfStep
  <2> QED
    BY <2>1, ObjectsGrow DEF TagGood
<1>2. /\ \A x \in Machine, v \in Version : tag[x][v] \in (1..commits) \union {0}
      /\ \A v \in Version : remoteTag[v] \in (1..commits) \union {0}
  BY DEF TagOK, GraphOK, PublishedOK
<1>3. \A x \in Machine, v \in Version : tag'[x][v] \in (1..commits) \union {0} /\ TagGood(tag'[x][v], v)
  <2>1. CASE UNCHANGED tag
    BY <1>2, <2>1 DEF TagsGood
  <2>2. CASE FetchTags(m)
    <3>1. \A x \in Machine, v \in Version : tag'[x][v] \in {tag[x][v], remoteTag[v]}
      BY <2>2 DEF FetchTags, TypeOK
    <3> QED
      BY <1>2, <3>1 DEF TagsGood
  <2>3. CASE CreateTag(m)
    <3>1. pc[m] = "tag" /\ ver[m] # 0 /\ HeadGood(m)
      BY <2>3 DEF CreateTag, VerOK, PlaceOK
    <3>2. head[m] \in 1..commits /\ TagGood(head[m], ver[m])
      BY <3>1 DEF GraphOK, RefsOK, HeadGood, TagGood
    <3>3. \A x \in Machine, v \in Version :
            tag'[x][v] = tag[x][v] \/ (tag'[x][v] = head[m] /\ v = ver[m])
      BY <2>3 DEF CreateTag, TypeOK
    <3> QED
      BY <1>2, <3>2, <3>3 DEF TagsGood
  <2> QED
    BY <2>1, <2>2, <2>3, TagMove
<1>4. \A v \in Version : remoteTag'[v] \in (1..commits) \union {0} /\ TagGood(remoteTag'[v], v)
  <2>1. CASE UNCHANGED remoteTag
    BY <1>2, <2>1 DEF TagsGood
  <2>2. CASE PushTag(m)
    <3>1. ver[m] \in Version
      BY <2>2 DEF PushTag, VerOK, TypeOK
    <3>2. \A v \in Version :
            remoteTag'[v] = remoteTag[v] \/ (remoteTag'[v] = tag[m][v] /\ v = ver[m])
      BY <2>2, <3>1 DEF PushTag, TypeOK
    <3> QED
      BY <1>2, <3>2 DEF TagsGood
  <2> QED
    BY <2>1, <2>2, RemoteTagMove
<1> QED
  BY <1>1, <1>3, <1>4 DEF TagsGood, TagGood, Carries, Matches

-----------------------------------------------------------------------------
\* The store the installer commits and pushes matches, with version 1.
LEMMA InitSum == Init => SumInv
<1> SUFFICES ASSUME Init PROVE SumInv
  OBVIOUS
<1>1. commits = 1 /\ 1..1 = {1} /\ 1 \in Commit /\ anc[1] = {1} /\ tree[1] = SeedTree
  <2>1. 1 \in Commit /\ 1..1 = {1}
    BY GitSyncAssumption DEF Commit
  <2> QED
    BY <2>1 DEF Init
<1>2. SumMatches(SeedTree) /\ SeedTree[SumFile].ver = 1
  <2>1. SumFile \in File /\ \A e \in Entry : e \in File /\ e # SumFile
    BY StoreTreeAssumption DEF File
  <2>2. 1 \in Version
    BY StoreTreeAssumption DEF Version
  <2>3. SeedTree[SumFile] = [of |-> [e \in Entry |-> Seed], ver |-> 1]
    BY <2>1 DEF SeedTree
  <2>4. [e \in Entry |-> Seed] \in Entries
    BY GitSyncAssumption DEF Entries, EntryContent
  <2>5. EntriesOf(SeedTree) = [e \in Entry |-> Seed]
    BY <2>1 DEF EntriesOf, SeedTree
  <2>6. [of |-> [e \in Entry |-> Seed], ver |-> 1] \in Sum
    BY <2>2, <2>4 DEF Sum
  <2> QED
    BY <2>3, <2>5, <2>6 DEF SumMatches
<1>3. Matches(1) /\ Carries(1, 1)
  BY <1>1, <1>2 DEF Matches, Carries
<1>4. RootOK
  BY <1>1 DEF RootOK
<1>5. RefsMatch
  BY <1>3 DEF Init, RefsMatch
<1>6. LeafOK
  BY <1>3 DEF Init, LeafOK
<1>7. BaseOK
  BY <1>1, <1>3 DEF BaseOK
<1>8. TagsGood
  BY <1>3 DEF Init, TagsGood, TagGood, FirstTag
<1>9. \A m \in Machine : PlaceOK(m)
  BY DEF Init, PlaceOK
<1> QED
  BY <1>4, <1>5, <1>6, <1>7, <1>8, <1>9 DEF SumInv, ShapeOK

LEMMA SumStep == TypeInv /\ GraphInv /\ SumInv /\ [Next]_vars => SumInv'
<1> SUFFICES ASSUME TypeInv, GraphInv, SumInv, [Next]_vars PROVE SumInv'
  OBVIOUS
<1> USE DEF GraphInv
<1>1. CASE UNCHANGED vars
  <2>1. UNCHANGED <<tree, anc, commits, remoteHead, remoteTag, head, origin, mergeHead, idx, tag, pc, ver>>
    BY <1>1 DEF vars, objects, remote, files, session
  <2>2. RootOK' /\ RefsMatch' /\ LeafOK' /\ BaseOK'
    BY <2>1 DEF SumInv, ShapeOK, RootOK, RefsMatch, LeafOK, BaseOK, Matches
  <2>3. TagsGood' /\ \A m \in Machine : PlaceOK(m)'
    BY <2>1 DEF SumInv, TagsGood, TagGood, PlaceOK, HeadGood, Carries, Matches
  <2> QED
    BY <2>2, <2>3 DEF SumInv, ShapeOK
<1>2. ASSUME NEW m \in Machine, Outside(m) \/ Menu(m) \/ Review(m) \/ Engine(m) \/ Stop(m)
      PROVE  SumInv'
  <2>1. LocalMove(m) \/ PushMove(m)
    BY <1>2, MoveOfStep
  <2>2. RootOK' /\ LeafOK' /\ BaseOK'
    BY <2>1, RootStep, LeafStep, BaseStep DEF SumInv, ShapeOK
  <2>3. RefsMatch'
    <3>1. pc[m] = "push" => Matches(head[m])
      BY DEF SumInv, PlaceOK, HeadGood
    <3> QED
      BY <2>1, <3>1, RefsMatchStep DEF SumInv, ShapeOK
  <2>4. TagsGood'
    BY <1>2, TagsGoodStep DEF SumInv
  <2>5. PlaceOK(m)'
    BY <1>2, PlaceStep DEF SumInv
  <2>6. ASSUME NEW x \in Machine, x # m PROVE PlaceOK(x)'
    BY <1>2, <2>6, PlaceFrame DEF SumInv
  <2> QED
    BY <2>2, <2>3, <2>4, <2>5, <2>6 DEF SumInv, ShapeOK
<1> QED
  BY <1>1, <1>2 DEF Next

LEMMA SumsCorrect == Spec => [](TypeInv /\ GraphInv /\ SumInv)
<1>1. Init => TypeInv /\ GraphInv /\ SumInv
  BY InitType, InitGraph, InitSum
<1>2. TypeInv /\ GraphInv /\ SumInv /\ [Next]_vars => (TypeInv /\ GraphInv /\ SumInv)'
  BY TypeStep, GraphStep, SumStep
<1> QED
  BY <1>1, <1>2, PTL DEF Spec

\* The store at origin always has the hash file of its entries.
THEOREM SumsPublished == Spec => []PublishedSumMatches
<1>1. TypeInv /\ GraphInv /\ SumInv => PublishedSumMatches
  BY DEF SumInv, ShapeOK, RefsMatch, Matches, PublishedSumMatches
<1> QED
  BY <1>1, SumsCorrect, PTL

\* A version tag at origin names a store with a matching hash file whose
\* history holds the hash file of that version.
THEOREM TagsNameVersions == Spec => []TagNamesItsVersion
<1>1. TypeInv /\ GraphInv /\ SumInv => TagNamesItsVersion
  BY DEF SumInv, TagsGood, TagGood, Carries, Matches, TagNamesItsVersion
<1> QED
  BY <1>1, SumsCorrect, PTL

\* The commits a and b have the same store, or one of them the store of their
\* merge base, or their merge conflicts in the hash file.
OneSidedOrConflict(a, b) ==
  LET c == tree[MergeBase(a, b)]
  IN  tree[a] # tree[b] /\ tree[a] # c /\ tree[b] # c =>
        SumFile \in Conflicts(c, tree[a], tree[b])

\* Neither a pull nor the merge of a review ever combines the changes of two
\* machines by itself: when both changed the store, and not to the same, the
\* merge stops at the hash file, even if no entry is in conflict.
DivergedStoresConflict ==
  \A m \in Machine :
    /\ pc[m] = "merge" => OneSidedOrConflict(head[m], origin[m])
    /\ pc[m] = "pull" => OneSidedOrConflict(head[m], remoteHead)

\* A sync merges the changes of two machines only with the user.
THEOREM DivergenceIsReviewed == Spec => []DivergedStoresConflict
<1>1. ASSUME TypeInv, GraphInv, SumInv, NEW a \in 1..commits, NEW b \in 1..commits,
             Matches(a), Matches(b)
      PROVE  OneSidedOrConflict(a, b)
  <2> DEFINE c == MergeBase(a, b)
  <2>1. c \in 1..commits
    BY <1>1, MergeBaseIsBest DEF BestBases, GraphInv, GraphOK, AncOK, SumInv, ShapeOK
  <2>2. Matches(c)
    BY <1>1, MergeBaseMatches DEF GraphInv, SumInv, ShapeOK
  <2> HIDE DEF c
  <2>3. 1..commits \subseteq Commit
    BY <1>1, GitSyncAssumption DEF TypeInv, TypeOK, Commit
  <2>4. tree[a] \in Tree /\ tree[b] \in Tree /\ tree[c] \in Tree
    BY <1>1, <2>1, <2>3 DEF TypeInv, TypeOK
  <2> QED
    BY <1>1, <2>2, <2>4, DivergedConflict DEF OneSidedOrConflict, Matches, c
<1>2. TypeInv /\ GraphInv /\ SumInv => DivergedStoresConflict
  <2> SUFFICES ASSUME TypeInv, GraphInv, SumInv, NEW m \in Machine
               PROVE  /\ pc[m] = "merge" => OneSidedOrConflict(head[m], origin[m])
                      /\ pc[m] = "pull" => OneSidedOrConflict(head[m], remoteHead)
    BY DEF DivergedStoresConflict
  <2>1. head[m] \in 1..commits /\ origin[m] \in 1..commits /\ remoteHead \in 1..commits
    BY DEF GraphInv, GraphOK, RefsOK
  <2>2. Matches(origin[m]) /\ Matches(remoteHead)
    BY DEF SumInv, ShapeOK, RefsMatch
  <2>3. pc[m] \in {"merge", "pull"} => Matches(head[m])
    BY DEF SumInv, PlaceOK, HeadGood
  <2> QED
    BY <1>1, <2>1, <2>2, <2>3
<1> QED
  BY <1>2, SumsCorrect, PTL

-----------------------------------------------------------------------------
(* The review.                                                             *)

\* The files changed between two commits and their merge base.
Between(a, b) ==
  LET c == tree[MergeBase(a, b)]
  IN  Changed(c, tree[a]) \union Changed(c, tree[b])

LEMMA BetweenFrame ==
  ASSUME TypeInv, GraphOK, RootOK, NEW m \in Machine, LocalMove(m) \/ PushMove(m),
         NEW a \in 1..commits, NEW b \in 1..commits
  PROVE  Between(a, b)' = Between(a, b)
<1> DEFINE c == MergeBase(a, b)
<1>1. \A d \in 1..commits : tree'[d] = tree[d] /\ anc'[d] = anc[d]
  BY ObjectsGrow
<1>2. c \in 1..commits
  BY MergeBaseIsBest DEF BestBases, GraphOK, AncOK
<1>3. MergeBase(a, b)' = c
  BY <1>1, MergeBaseFrame DEF MergeBase
<1> HIDE DEF c
<1>4. Between(a, b) = Changed(tree[c], tree[a]) \union Changed(tree[c], tree[b])
  BY DEF Between, c
<1>5. Between(a, b)' = Changed(tree'[c], tree'[a]) \union Changed(tree'[c], tree'[b])
  BY <1>3 DEF Between, Changed
<1> QED
  BY <1>1, <1>2, <1>4, <1>5

\* The files the review of a machine shows stay the same while its HEAD and what
\* it knows of origin do.
LEMMA PreviewFrame ==
  ASSUME TypeInv, GraphOK, RootOK, NEW m \in Machine, LocalMove(m) \/ PushMove(m),
         NEW x \in Machine, head'[x] = head[x], origin'[x] = origin[x]
  PROVE  PreviewFiles(x)' = PreviewFiles(x)
<1>1. \A a, b \in 1..commits : head[x] = a /\ origin[x] = b => PreviewFiles(x) = Between(a, b)
  BY DEF PreviewFiles, Between
<1>2. \A a, b \in 1..commits : (head[x] = a /\ origin[x] = b => PreviewFiles(x) = Between(a, b))'
  BY DEF PreviewFiles, Between
<1>3. \A a, b \in 1..commits : Between(a, b)' = Between(a, b)
  BY BetweenFrame
<1>4. head[x] \in 1..commits /\ origin[x] \in 1..commits
  BY DEF GraphOK, RefsOK
<1> QED
  BY <1>1, <1>2, <1>3, <1>4

\* git lists as conflicted only paths that differ from the merge base on both
\* sides, over the same merge base the review was built on, and resolving a
\* path takes it off that list.
LEMMA ReviewStep ==
  ASSUME TypeInv, GraphOK, CleanOK, RootOK, ConflictsAreShown, NEW m \in Machine,
         Outside(m) \/ Menu(m) \/ Review(m) \/ Engine(m) \/ Stop(m)
  PROVE  ConflictsAreShown'
<1> USE DEF TypeInv
<1>1. LocalMove(m) \/ PushMove(m)
  BY MoveOfStep
<1>2. \A x \in Machine : pc'[x] = "review" => unmerged'[x] \in SUBSET PreviewFiles(x)'
  <2> SUFFICES ASSUME NEW x \in Machine, pc'[x] = "review"
               PROVE  unmerged'[x] \subseteq PreviewFiles(x)'
    OBVIOUS
  <2>1. ASSUME head'[x] = head[x], origin'[x] = origin[x],
               unmerged'[x] \subseteq PreviewFiles(x)
        PROVE  unmerged'[x] \subseteq PreviewFiles(x)'
    BY <1>1, <2>1, PreviewFrame
  <2>2. CASE x # m
    <3>1. pc[x] = "review" /\ unmerged'[x] = unmerged[x]
      BY <2>2, PcFrame, FilesFrame
    <3>2. head'[x] = head[x] /\ origin'[x] = origin[x]
      BY <1>1, <2>2 DEF LocalMove, PushMove, MakeCommit, TypeOK
    <3> QED
      BY <2>1, <3>1, <3>2 DEF ConflictsAreShown
  <2>3. CASE x = m
    <3>1. CASE StartMerge(m)
      <4>1. UNCHANGED <<head, origin>> /\ unmerged[m] = {}
        BY <3>1 DEF StartMerge, CleanOK, Clean
      <4>2. CASE UNCHANGED files
        BY <2>1, <2>3, <4>1, <4>2 DEF files
      <4>3. CASE BeginMerge(m, origin[m])
        <5> DEFINE b == tree[MergeBase(head[m], origin[m])]
        <5>1. unmerged'[m] = Conflicts(b, tree[head[m]], tree[origin[m]])
          BY <4>3 DEF BeginMerge, TypeOK
        <5>2. PreviewFiles(m) = Changed(b, tree[head[m]]) \union Changed(b, tree[origin[m]])
          BY DEF PreviewFiles
        <5> HIDE DEF b
        <5>3. unmerged'[m] \subseteq PreviewFiles(m)
          BY <5>1, <5>2 DEF Conflicts, Changed
        <5> QED
          BY <2>1, <2>3, <4>1, <5>3
      <4> QED
        BY <3>1, <4>2, <4>3 DEF StartMerge
    <3>2. CASE Pull(m)
      <4> DEFINE h == head[m]
                 r == remoteHead
                 b == tree[MergeBase(h, r)]
      <4>1. UNCHANGED <<objects, head>> /\ BeginMerge(m, r) /\ origin'[m] = r
        BY <2>3, <3>2 DEF Pull, Leave, Goto, TypeOK
      <4>2. unmerged'[m] = Conflicts(b, tree[h], tree[r])
        BY <4>1 DEF BeginMerge, TypeOK
      <4>3. head'[m] = h /\ tree' = tree /\ anc' = anc
        BY <4>1 DEF objects
      <4>4. PreviewFiles(m)' = Changed(b, tree[h]) \union Changed(b, tree[r])
        <5>1. \A c, d \in 1..commits : (head[m] = c /\ origin[m] = d => PreviewFiles(m) = Between(c, d))'
          BY DEF PreviewFiles, Between
        <5>2. \A c, d \in 1..commits : Between(c, d)' = Between(c, d)
          BY <1>1, BetweenFrame
        <5>3. h \in 1..commits /\ r \in 1..commits
          BY DEF GraphOK, RefsOK
        <5>4. Between(h, r) = Changed(b, tree[h]) \union Changed(b, tree[r])
          BY DEF Between
        <5> QED
          BY <4>1, <4>3, <5>1, <5>2, <5>3, <5>4
      <4> HIDE DEF b, h, r
      <4> QED
        BY <2>3, <4>2, <4>4 DEF Conflicts, Changed
    <3>3. CASE Review(m)
      <4>1. ASSUME NEW f \in File, NEW c, Resolve(m, f, c), pc[m] = "review", UNCHANGED <<head, origin>>
            PROVE  unmerged'[m] \subseteq PreviewFiles(m)'
        <5>1. unmerged'[m] \subseteq unmerged[m]
          BY <4>1 DEF Resolve, files, TypeOK
        <5> QED
          BY <2>1, <2>3, <4>1, <5>1 DEF ConflictsAreShown
      <4>2. ASSUME NEW f \in File, NEW side \in BOOLEAN, KeepSide(m, f, side)
            PROVE  unmerged'[m] \subseteq PreviewFiles(m)'
        BY <4>1, <4>2 DEF KeepSide
      <4>3. ASSUME NEW f \in File, NEW c, EditFile(m, f, c)
            PROVE  unmerged'[m] \subseteq PreviewFiles(m)'
        BY <4>1, <4>3 DEF EditFile
      <4>4. ~AbortReview(m) /\ ~FinalizeMergeCommit(m)
        BY <2>3 DEF AbortReview, FinalizeMergeCommit, Leave, Goto, TypeOK
      <4> QED
        BY <2>3, <3>3, <4>2, <4>3, <4>4 DEF Review
    <3>4. ~Outside(m) /\ ~Menu(m) /\ ~Stop(m)
      BY <2>3 DEF Outside, PassWrite, LeaveUncommitted, Menu, SyncStore, PushStoreForce,
                  FetchStorePreview, PullStoreForce, NukePasswords, Stop, Leave, Goto,
                  session, TypeOK
    <3>5. Engine(m) => StartMerge(m) \/ Pull(m)
      <4>1. ~VersionKnown(m)
        BY <2>3 DEF VersionKnown, AfterTracking, Goto, TypeOK
      <4>2. ~TrackVersion(m)
        BY <2>3 DEF TrackVersion, NeedsTracking, AfterTracking, Leave, Goto, TypeOK
      <4> QED
        BY <2>3, <4>1, <4>2 DEF Engine, Fetch, StageChanges, CommitStaged, Push, CreateTag, PushTag,
                                Dismiss, Leave, Goto, TypeOK
    <3> QED
      BY <2>3, <3>1, <3>2, <3>3, <3>4, <3>5
  <2> QED
    BY <2>2, <2>3
<1> QED
  BY <1>2 DEF ConflictsAreShown

\* The review shows every conflict, so that the user can resolve it.
THEOREM ConflictsShown == Spec => []ConflictsAreShown
<1>1. Init => ConflictsAreShown
  BY DEF Init, ConflictsAreShown
<1>2. TypeInv /\ GraphInv /\ SumInv /\ ConflictsAreShown /\ [Next]_vars => ConflictsAreShown'
  <2> SUFFICES ASSUME TypeInv, GraphInv, SumInv, ConflictsAreShown, [Next]_vars
               PROVE  ConflictsAreShown'
    OBVIOUS
  <2>1. CASE UNCHANGED vars
    BY <2>1 DEF vars, objects, files, session, ConflictsAreShown, PreviewFiles, MergeBase, BestBases
  <2>2. ASSUME NEW m \in Machine, Outside(m) \/ Menu(m) \/ Review(m) \/ Engine(m) \/ Stop(m)
        PROVE  ConflictsAreShown'
    BY <2>2, ReviewStep DEF GraphInv, SumInv, ShapeOK
  <2> QED
    BY <2>1, <2>2 DEF Next
<1> QED
  BY <1>1, <1>2, SumsCorrect, PTL DEF Spec

-----------------------------------------------------------------------------
(* Versions follow the history.                                            *)

\* A tag for version v is at origin, or left on a machine that can stop.
Made(v) == remoteTag[v] # 0 \/ \E y \in Stopping : tag[y][v] # 0

\* Commit d contains the commit tagged v at origin; or a machine that can stop
\* has another one, or, while origin has none, one that d contains.
Below(v, d) ==
  \/ remoteTag[v] # 0 /\ remoteTag[v] \in anc[d]
  \/ \E y \in Stopping :
       /\ tag[y][v] # 0
       /\ IF remoteTag[v] = 0 THEN tag[y][v] \in anc[d] ELSE tag[y][v] # remoteTag[v]

\* The branch has never lost a commit.
BranchKept == published \subseteq anc[remoteHead]

\* A tag of a clone is at origin, or left behind, or about to be pushed.
TagsMade ==
  \A z \in Machine, v \in Version :
    tag[z][v] # 0 => Made(v) \/ (pc[z] = "pushtag" /\ ver[z] = v)

\* Each tag of a clone, and each tag at origin, is above those of lower versions.
TagsOrdered ==
  \A z \in Machine : \A v, w \in Version : v < w /\ tag[z][w] # 0 => Below(v, tag[z][w])

RemoteTagsOrdered ==
  \A v, w \in Version : v < w /\ remoteTag[w] # 0 => Below(v, remoteTag[w])

\* An operation takes a new version only after every lower one was made ...
NextIsNew ==
  \A z \in Machine :
    ver[z] # 0 /\ tag[z][ver[z]] = 0 => \A v \in Version : v < ver[z] => Made(v)

\* ... and tags it only on a commit above theirs.
TagAbove ==
  \A z \in Machine :
    pc[z] = "tag" /\ tag[z][ver[z]] = 0 => \A v \in Version : v < ver[z] => Below(v, head[z])

VersionParts ==
  BranchKept /\ TagsMade /\ TagsOrdered /\ RemoteTagsOrdered /\ NextIsNew /\ TagAbove

VersionInv == Forcing = {} => VersionParts

-----------------------------------------------------------------------------
\* next_store_version is 1, or one above a version the clone has a tag for.
LEMMA NextVersionTagged ==
  ASSUME TypeInv, NEW m \in Machine
  PROVE  /\ NextVersion(m) \in 1..(MaxVersion + 1)
         /\ NextVersion(m) = 1 \/ tag[m][NextVersion(m) - 1] # 0
<1> DEFINE S == {v \in Version : tag[m][v] # 0}
           Next1(v) == /\ v = 1 \/ tag[m][v - 1] # 0
                       /\ \A w \in Version : tag[m][w] # 0 => w < v
<1>1. MaxVersion \in Nat /\ MaxVersion # 0
  BY StoreTreeAssumption
<1>2. \E v \in 1..(MaxVersion + 1) : Next1(v)
  <2>1. CASE S = {}
    <3>1. 1 \in 1..(MaxVersion + 1) /\ Next1(1)
      BY <1>1, <2>1
    <3> QED
      BY <3>1
  <2>2. CASE S # {}
    <3>1. S \in SUBSET (0..MaxVersion)
      BY <1>1 DEF Version
    <3> HIDE DEF S
    <3>2. PICK x \in S : \A y \in S : y <= x
      BY <1>1, <2>2, <3>1, GreatestElement
    <3>3. x \in 1..MaxVersion /\ tag[m][x] # 0 /\ \A w \in Version : tag[m][w] # 0 => w <= x
      BY <3>2 DEF S, Version
    <3>4. x + 1 \in 1..(MaxVersion + 1) /\ (x + 1) - 1 = x
      BY <1>1, <3>3
    <3>5. \A w \in Version : tag[m][w] # 0 => w < x + 1
      BY <1>1, <3>3 DEF Version
    <3>6. Next1(x + 1)
      BY <3>3, <3>4, <3>5
    <3> QED
      BY <3>4, <3>6
  <2> QED
    BY <2>1, <2>2
<1>3. NextVersion(m) = CHOOSE v \in 1..(MaxVersion + 1) : Next1(v)
  BY DEF NextVersion
<1> HIDE DEF Next1
<1>4. NextVersion(m) \in 1..(MaxVersion + 1) /\ Next1(NextVersion(m))
  BY <1>2, <1>3
<1> QED
  BY <1>4 DEF Next1

\* Tags are never moved.
LEMMA TagsKept ==
  ASSUME TypeInv, NEW m \in Machine,
         Outside(m) \/ Menu(m) \/ Review(m) \/ Engine(m) \/ Stop(m)
  PROVE  /\ \A x \in Machine, v \in Version : tag[x][v] # 0 => tag'[x][v] = tag[x][v]
         /\ \A v \in Version : remoteTag[v] # 0 => remoteTag'[v] = remoteTag[v]
<1> USE DEF TypeInv
<1>1. \A x \in Machine, v \in Version : tag[x][v] # 0 => tag'[x][v] = tag[x][v]
  <2>1. CASE FetchTags(m)
    BY <2>1 DEF FetchTags, TypeOK
  <2>2. CASE CreateTag(m)
    BY <2>2 DEF CreateTag, TypeOK
  <2> QED
    BY <2>1, <2>2, TagMove
<1>2. ASSUME PushTag(m), NEW v \in Version, remoteTag[v] # 0
      PROVE  remoteTag'[v] = remoteTag[v]
  <2>1. ver[m] \in Version
    BY <1>2 DEF PushTag, VerOK, TypeOK
  <2> QED
    BY <1>2, <2>1 DEF PushTag, TypeOK
<1> QED
  BY <1>1, <1>2, RemoteTagMove

LEMMA BelowKept ==
  ASSUME TypeInv, GraphOK, TagOK, UNCHANGED users, Stopping \subseteq Machine,
         NEW m \in Machine, Outside(m) \/ Menu(m) \/ Review(m) \/ Engine(m) \/ Stop(m),
         NEW v \in Version
  PROVE  /\ Made(v) => Made(v)'
         /\ \A d \in 1..commits : Below(v, d) => Below(v, d)'
<1>1. /\ Stopping' = Stopping
      /\ \A y \in Stopping : tag[y][v] # 0 => tag'[y][v] = tag[y][v]
      /\ remoteTag[v] # 0 => remoteTag'[v] = remoteTag[v]
  BY TagsKept DEF Stopping
<1>2. \A d \in 1..commits : anc'[d] = anc[d]
  BY MoveOfStep, ObjectsGrow
<1>3. Made(v) => Made(v)'
  BY <1>1 DEF Made
<1>4. ASSUME NEW d \in 1..commits, Below(v, d) PROVE Below(v, d)'
  <2>1. CASE remoteTag[v] # 0 /\ remoteTag[v] \in anc[d]
    BY <1>1, <1>2, <2>1 DEF Below
  <2>2. ASSUME NEW y \in Stopping, tag[y][v] # 0,
               IF remoteTag[v] = 0 THEN tag[y][v] \in anc[d] ELSE tag[y][v] # remoteTag[v]
        PROVE  Below(v, d)'
    <3>1. tag'[y][v] = tag[y][v] /\ y \in Stopping' /\ anc'[d] = anc[d]
      BY <1>1, <1>2, <2>2
    <3>2. CASE remoteTag[v] # 0
      BY <1>1, <2>2, <3>1, <3>2 DEF Below
    <3>3. CASE remoteTag[v] = 0
      BY <2>2, <3>1, <3>3 DEF Below
    <3> QED
      BY <3>2, <3>3
  <2> QED
    BY <1>4, <2>1, <2>2 DEF Below
<1> QED
  BY <1>3, <1>4

\* What was made is below every commit the branch is at, or will be at once
\* HEAD of m is pushed.
LEMMA MadeIsBelow ==
  ASSUME TypeInv, GraphOK, TagOK, BranchKept, Stopping \subseteq Machine,
         NEW e \in 1..commits, remoteHead \in anc[e], NEW v \in Version, Made(v)
  PROVE  Below(v, e)
<1>1. published \subseteq anc[e]
  BY DEF BranchKept, GraphOK, AncOK
<1>2. /\ remoteTag[v] # 0 => remoteTag[v] \in anc[e]
      /\ \A y \in Stopping : tag[y][v] # 0 => tag[y][v] \in anc[e]
  BY <1>1 DEF TagOK
<1> QED
  BY <1>2 DEF Made, Below

\* A new version is above versions that were all made.
LEMMA NextAboveMade ==
  ASSUME TypeInv, TagsMade, TagsOrdered, NEW m \in Machine, pc[m] # "pushtag",
         NEW v \in Version, v < NextVersion(m)
  PROVE  Made(v)
<1> DEFINE w == NextVersion(m) - 1
<1>1. /\ NextVersion(m) \in 1..(MaxVersion + 1)
      /\ NextVersion(m) = 1 \/ tag[m][w] # 0
      /\ MaxVersion \in Nat
  BY NextVersionTagged, StoreTreeAssumption
<1>2. v \in Nat /\ v # 0 /\ w \in Version /\ tag[m][w] # 0 /\ (v = w \/ v < w)
  BY <1>1 DEF Version
<1> HIDE DEF w
<1>3. CASE v = w
  BY <1>2, <1>3 DEF TagsMade
<1>4. CASE v < w
  <2>1. Below(v, tag[m][w])
    BY <1>2, <1>4 DEF TagsOrdered
  <2> QED
    BY <2>1 DEF Below, Made
<1> QED
  BY <1>2, <1>3, <1>4

\* What a step does to the version of its operation.
LEMMA VerMove ==
  ASSUME TypeInv, NEW m \in Machine, m \notin Forcing,
         Outside(m) \/ Menu(m) \/ Review(m) \/ Engine(m) \/ Stop(m)
  PROVE  \/ ver'[m] \in {0, ver[m]}
         \/ pc[m] # "pushtag" /\ ver'[m] \in {NextVersion(m)} \union HeadTags(m)
<1> USE DEF TypeInv
<1>1. CASE Outside(m)
  BY <1>1 DEF Outside, PassWrite, LeaveUncommitted, session
<1>2. CASE Menu(m)
  <2>1. ~\E r \in BOOLEAN : NukePasswords(m, r)
    BY DEF NukePasswords
  <2> QED
    BY <1>2, <2>1 DEF Menu, SyncStore, PushStoreForce, FetchStorePreview, PullStoreForce, session
<1>3. ASSUME Leave(m) PROVE ver'[m] = 0
  BY <1>3 DEF Leave, SetVer, TypeOK
<1>4. CASE Review(m)
  <2>1. CASE FinalizeMergeCommit(m)
    BY <2>1 DEF FinalizeMergeCommit, Stay, SetVer, TypeOK
  <2>2. CASE ~FinalizeMergeCommit(m)
    <3>1. UNCHANGED ver \/ Leave(m)
      BY <1>4, <2>2 DEF Review, KeepSide, EditFile, Resolve, AbortReview, session
    <3> QED
      BY <1>3, <3>1
  <2> QED
    BY <2>1, <2>2
<1>5. CASE Engine(m)
  <2>1. CASE StageChanges(m)
    BY <2>1 DEF StageChanges, SetVer, TypeOK
  <2>2. CASE VersionKnown(m)
    BY <2>2 DEF VersionKnown, SetVer, TypeOK
  <2>3. CASE TrackVersion(m)
    <3>1. Leave(m) \/ (pc[m] = "track" /\ SetVer(m, NextVersion(m)))
      BY <2>3 DEF TrackVersion, NeedsTracking
    <3> QED
      BY <1>3, <3>1 DEF SetVer, TypeOK
  <2>4. CASE \/ Fetch(m) \/ CommitStaged(m) \/ StartMerge(m) \/ Pull(m) \/ Push(m)
             \/ CreateTag(m) \/ PushTag(m) \/ Dismiss(m)
    <3>1. UNCHANGED ver \/ Leave(m)
      BY <2>4 DEF Fetch, CommitStaged, StartMerge, Pull, Push, CreateTag, PushTag, Dismiss, Stay
    <3> QED
      BY <1>3, <3>1
  <2> QED
    BY <1>5, <2>1, <2>2, <2>3, <2>4 DEF Engine
<1>6. CASE Stop(m)
  BY <1>3, <1>6 DEF Stop
<1> QED
  BY <1>1, <1>2, <1>4, <1>5, <1>6

\* Only a push leads to tagging.
LEMMA ToTag ==
  ASSUME TypeInv, NEW m \in Machine,
         Outside(m) \/ Menu(m) \/ Review(m) \/ Engine(m) \/ Stop(m), pc'[m] = "tag"
  PROVE  Push(m) /\ remoteHead' = head[m] /\ UNCHANGED <<head, ver, tag>>
<1> USE DEF TypeInv
<1>1. ~Outside(m)
  BY DEF Outside, PassWrite, LeaveUncommitted, session
<1>2. ~Menu(m)
  BY DEF Menu, SyncStore, PushStoreForce, FetchStorePreview, PullStoreForce,
         NukePasswords, Goto, session, TypeOK
<1>3. ~Review(m)
  BY DEF Review, KeepSide, EditFile, Resolve, AbortReview, FinalizeMergeCommit,
         Leave, Goto, session, TypeOK
<1>4. ~Stop(m)
  BY DEF Stop, Leave, Goto, TypeOK
<1>5. Engine(m) => Push(m)
  BY DEF Engine, Fetch, StageChanges, CommitStaged, VersionKnown, TrackVersion,
         AfterTracking, StartMerge, Pull, CreateTag, PushTag, Dismiss, Leave, Goto, TypeOK
<1>6. Push(m)
  BY <1>1, <1>2, <1>3, <1>4, <1>5
<1> QED
  BY <1>6 DEF Push, Leave, Goto, Stay, TypeOK

LEMMA BranchKeptStep ==
  ASSUME TypeInv, GraphOK, ModeOK, BranchKept, Forcing = {}, NEW m \in Machine,
         LocalMove(m) \/ PushMove(m)
  PROVE  BranchKept'
<1>1. /\ remoteHead \in 1..commits /\ head[m] \in 1..commits
      /\ \A c \in 1..commits : anc'[c] = anc[c]
  BY ObjectsGrow DEF GraphOK, RefsOK
<1>2. CASE LocalMove(m)
  BY <1>1, <1>2 DEF LocalMove, BranchKept
<1>3. CASE PushMove(m)
  <2>1. remoteHead \in anc[head[m]]
    BY <1>3 DEF PushMove, ModeOK
  <2>2. anc[remoteHead] \subseteq anc[head[m]]
    BY <1>1, <2>1 DEF GraphOK, AncOK
  <2> QED
    BY <1>1, <1>3, <2>2 DEF PushMove, BranchKept
<1> QED
  BY <1>2, <1>3

LEMMA TagsMadeStep ==
  ASSUME TypeInv, GraphOK, TagOK, TagsMade, UNCHANGED users, Stopping \subseteq Machine,
         NEW m \in Machine, Outside(m) \/ Menu(m) \/ Review(m) \/ Engine(m) \/ Stop(m)
  PROVE  TagsMade'
<1> SUFFICES ASSUME NEW z \in Machine, NEW v \in Version, tag'[z][v] # 0
             PROVE  Made(v)' \/ (pc'[z] = "pushtag" /\ ver'[z] = v)
  BY DEF TagsMade
<1>1. Made(v) => Made(v)'
  BY BelowKept
<1>2. CASE z # m
  <2>1. pc'[z] = pc[z] /\ ver'[z] = ver[z]
    BY <1>2, PcFrame, VerFrame
  <2>2. tag'[z] = tag[z]
    <3>1. CASE FetchTags(m)
      BY <1>2, <3>1 DEF FetchTags, TypeInv, TypeOK
    <3>2. CASE CreateTag(m)
      BY <1>2, <3>2 DEF CreateTag, TypeInv, TypeOK
    <3> QED
      BY <3>1, <3>2, TagMove
  <2> QED
    BY <1>1, <2>1, <2>2 DEF TagsMade
<1>3. CASE z = m /\ tag[m][v] # 0
  <2>1. CASE Made(v)
    BY <1>1, <2>1
  <2>2. CASE ~Made(v)
    <3>1. pc[m] = "pushtag" /\ ver[m] = v /\ remoteTag[v] = 0 /\ m \notin Stopping
      BY <1>3, <2>2 DEF TagsMade, Made
    <3>2. PushTag(m)
      <4>1. ~Outside(m) /\ ~Menu(m) /\ ~Review(m) /\ ~Stop(m)
        BY <3>1 DEF Outside, PassWrite, LeaveUncommitted, Menu, SyncStore, PushStoreForce,
                    FetchStorePreview, PullStoreForce, NukePasswords, Review, KeepSide,
                    EditFile, AbortReview, FinalizeMergeCommit, Stop
      <4> QED
        BY <3>1, <4>1 DEF Engine, Fetch, StageChanges, CommitStaged, VersionKnown, TrackVersion,
                          NeedsTracking, StartMerge, Pull, Push, CreateTag, Dismiss
    <3>3. remoteTag'[v] = tag[m][v]
      BY <3>1, <3>2 DEF PushTag, TypeInv, TypeOK
    <3> QED
      BY <1>3, <3>3 DEF Made
  <2> QED
    BY <2>1, <2>2
<1>4. CASE z = m /\ tag[m][v] = 0
  <2>1. CASE FetchTags(m)
    <3>1. remoteTag[v] # 0
      BY <1>4, <2>1 DEF FetchTags, TypeInv, TypeOK
    <3> QED
      BY <1>1, <3>1 DEF Made
  <2>2. CASE CreateTag(m)
    <3>1. pc'[m] = "pushtag" /\ ver'[m] = ver[m]
      BY <2>2 DEF CreateTag, Goto, TypeInv, TypeOK
    <3>2. v = ver[m]
      BY <1>4, <2>2 DEF CreateTag, TypeInv, TypeOK
    <3> QED
      BY <1>4, <3>1, <3>2
  <2> QED
    BY <1>4, <2>1, <2>2, TagMove
<1> QED
  BY <1>2, <1>3, <1>4

LEMMA TagsOrderedStep ==
  ASSUME TypeInv, GraphOK, TagOK, TagsOrdered, RemoteTagsOrdered, TagAbove,
         UNCHANGED users, Stopping \subseteq Machine,
         NEW m \in Machine, Outside(m) \/ Menu(m) \/ Review(m) \/ Engine(m) \/ Stop(m)
  PROVE  TagsOrdered' /\ RemoteTagsOrdered'
<1>1. /\ \A x \in Machine : head[x] \in 1..commits
      /\ \A x \in Machine, v \in Version : tag[x][v] # 0 => tag[x][v] \in 1..commits
      /\ \A v \in Version : remoteTag[v] # 0 => remoteTag[v] \in 1..commits
  BY DEF GraphOK, RefsOK, PublishedOK, TagOK
<1>2. \A v \in Version : \A d \in 1..commits : Below(v, d) => Below(v, d)'
  BY BelowKept
<1>3. TagsOrdered'
  <2> SUFFICES ASSUME NEW z \in Machine, NEW v \in Version, NEW w \in Version, v < w,
                      NEW d \in 1..commits, d = tag'[z][w]
               PROVE  Below(v, d)
    <3>1. \A z \in Machine, w \in Version : tag'[z][w] # 0 => tag'[z][w] \in 1..commits
      <4>1. CASE UNCHANGED tag
        BY <1>1, <4>1
      <4>2. CASE FetchTags(m)
        BY <1>1, <4>2 DEF FetchTags, TypeInv, TypeOK
      <4>3. CASE CreateTag(m)
        BY <1>1, <4>3 DEF CreateTag, TypeInv, TypeOK
      <4> QED
        BY <4>1, <4>2, <4>3, TagMove
    <3>2. \A z \in Machine, v, w \in Version, d \in 1..commits :
            v < w /\ d = tag'[z][w] => Below(v, d)'
      BY <1>2
    <3> QED
      BY <3>1, <3>2 DEF TagsOrdered
  <2>1. d # 0
    BY GitSyncAssumption DEF TypeInv, TypeOK, Commit
  <2>2. CASE d = tag[z][w]
    BY <2>1, <2>2 DEF TagsOrdered
  <2>3. CASE FetchTags(m) /\ d # tag[z][w]
    <3>1. d = remoteTag[w]
      BY <2>3 DEF FetchTags, TypeInv, TypeOK
    <3> QED
      BY <2>1, <3>1 DEF RemoteTagsOrdered
  <2>4. CASE CreateTag(m) /\ d # tag[z][w]
    <3>1. pc[m] = "tag" /\ w = ver[m] /\ tag[m][w] = 0 /\ d = head[m]
      BY <2>4 DEF CreateTag, TypeInv, TypeOK
    <3> QED
      BY <3>1 DEF TagAbove
  <2> QED
    BY <2>2, <2>3, <2>4, TagMove
<1>4. RemoteTagsOrdered'
  <2> SUFFICES ASSUME NEW v \in Version, NEW w \in Version, v < w,
                      NEW d \in 1..commits, d = remoteTag'[w]
               PROVE  Below(v, d)
    <3>1. \A w \in Version : remoteTag'[w] # 0 => remoteTag'[w] \in 1..commits
      <4>1. CASE UNCHANGED remoteTag
        BY <1>1, <4>1
      <4>2. CASE PushTag(m)
        BY <1>1, <4>2 DEF PushTag, TypeInv, TypeOK
      <4> QED
        BY <4>1, <4>2, RemoteTagMove
    <3>2. \A v, w \in Version, d \in 1..commits : v < w /\ d = remoteTag'[w] => Below(v, d)'
      BY <1>2
    <3> QED
      BY <3>1, <3>2 DEF RemoteTagsOrdered
  <2>1. d # 0
    BY GitSyncAssumption DEF TypeInv, TypeOK, Commit
  <2>2. CASE d = remoteTag[w]
    BY <2>1, <2>2 DEF RemoteTagsOrdered
  <2>3. CASE PushTag(m) /\ d # remoteTag[w]
    <3>1. d = tag[m][w]
      BY <2>3 DEF PushTag, TypeInv, TypeOK
    <3> QED
      BY <2>1, <3>1 DEF TagsOrdered
  <2> QED
    BY <2>2, <2>3, RemoteTagMove
<1> QED
  BY <1>3, <1>4

LEMMA NextIsNewStep ==
  ASSUME TypeInv, GraphOK, TagOK, TagsMade, TagsOrdered, NextIsNew, Forcing = {},
         UNCHANGED users, Stopping \subseteq Machine,
         NEW m \in Machine, Outside(m) \/ Menu(m) \/ Review(m) \/ Engine(m) \/ Stop(m)
  PROVE  NextIsNew'
<1>1. \A v \in Version : Made(v) => Made(v)'
  BY BelowKept
<1>2. ASSUME NEW z \in Machine, ver'[z] # 0, tag'[z][ver'[z]] = 0, NEW v \in Version, v < ver'[z]
      PROVE  Made(v)
  <2>1. ver'[z] \in Version => tag[z][ver'[z]] = 0
    BY <1>2, TagsKept
  <2>2. CASE ver'[z] = ver[z]
    <3>1. ver[z] \in Version
      BY <1>2, <2>2 DEF TypeInv, TypeOK
    <3> QED
      BY <1>2, <2>1, <2>2, <3>1 DEF NextIsNew
  <2>3. CASE z = m /\ ver'[m] \in {NextVersion(m)} /\ pc[m] # "pushtag"
    BY <1>2, <2>3, NextAboveMade
  <2>4. CASE z = m /\ ver'[m] \in HeadTags(m)
    <3>1. ver'[m] \in Version /\ tag[m][ver'[m]] = head[m]
      BY <2>4 DEF HeadTags
    <3>2. head[m] # 0
      BY GitSyncAssumption DEF TypeInv, TypeOK, Commit
    <3> QED
      BY <2>1, <2>4, <3>1, <3>2
  <2>5. z # m => ver'[z] = ver[z]
    BY VerFrame
  <2> QED
    BY <1>2, <2>2, <2>3, <2>4, <2>5, VerMove
<1> QED
  BY <1>1, <1>2 DEF NextIsNew

LEMMA TagAboveStep ==
  ASSUME TypeInv, GraphOK, TagOK, ModeOK, BranchKept, NextIsNew, TagAbove, Forcing = {},
         UNCHANGED users, Stopping \subseteq Machine,
         NEW m \in Machine, Outside(m) \/ Menu(m) \/ Review(m) \/ Engine(m) \/ Stop(m)
  PROVE  TagAbove'
<1>1. \A v \in Version : \A d \in 1..commits : Below(v, d) => Below(v, d)'
  BY BelowKept
<1>2. \A x \in Machine : head[x] \in 1..commits
  BY DEF GraphOK, RefsOK
<1>3. ASSUME NEW z \in Machine, pc'[z] = "tag", tag'[z][ver'[z]] = 0, NEW v \in Version, v < ver'[z]
      PROVE  head'[z] = head[z] /\ Below(v, head[z])
  <2>1. CASE z = m
    <3>1. Push(m) /\ remoteHead' = head[m] /\ UNCHANGED <<head, ver, tag>>
      BY <1>3, <2>1, ToTag
    <3>2. remoteHead \in anc[head[m]]
      <4>1. mode[m] \notin {"push", "nuke"}
        BY DEF ModeOK
      <4>2. ~Leave(m)
        BY <1>3, <2>1 DEF Leave, Goto, TypeInv, TypeOK
      <4> QED
        BY <3>1, <4>1, <4>2 DEF Push, ForcesPush
    <3>3. ver[m] # 0
      BY <1>3, <2>1, <3>1 DEF Push, Goto, Leave, TypeInv, TypeOK
    <3>4. Made(v)
      BY <1>3, <2>1, <3>1, <3>3 DEF NextIsNew
    <3>5. Below(v, head[m])
      BY <1>2, <3>2, <3>4, MadeIsBelow
    <3> QED
      BY <2>1, <3>1, <3>5
  <2>2. CASE z # m
    <3>1. pc'[z] = pc[z] /\ ver'[z] = ver[z] /\ head'[z] = head[z]
      BY <2>2, PcFrame, VerFrame, HeadFrame, MoveOfStep
    <3>2. ver[z] \in Version
      BY <1>3, <3>1 DEF TypeInv, TypeOK, VerOK
    <3>3. tag[z][ver[z]] = 0
      BY <1>3, <3>1, <3>2, TagsKept
    <3> QED
      BY <1>3, <3>1, <3>3 DEF TagAbove
  <2> QED
    BY <2>1, <2>2
<1>4. \A z \in Machine, v \in Version, d \in 1..commits :
        pc'[z] = "tag" /\ tag'[z][ver'[z]] = 0 /\ v < ver'[z] /\ d = head'[z] => Below(v, d)'
  BY <1>1, <1>3
<1>5. \A z \in Machine : pc'[z] = "tag" /\ tag'[z][ver'[z]] = 0 =>
        \A v \in Version : v < ver'[z] => head'[z] \in 1..commits
  BY <1>2, <1>3
<1> QED
  BY <1>4, <1>5 DEF TagAbove

-----------------------------------------------------------------------------
LEMMA InitVersions == Init => VersionInv /\ Stopping \subseteq Machine
<1> SUFFICES ASSUME Init PROVE VersionInv /\ Stopping \subseteq Machine
  OBVIOUS
<1>1. Stopping \subseteq Machine
  BY GitSyncAssumption DEF Init, Stopping
<1>2. 1 \in Commit /\ anc[1] = {1}
  BY GitSyncAssumption DEF Init, Commit
<1>3. BranchKept
  BY <1>2 DEF Init, BranchKept
<1>4. TagsMade
  BY DEF Init, TagsMade, Made, FirstTag
<1>5. TagsOrdered /\ RemoteTagsOrdered
  BY DEF Init, TagsOrdered, RemoteTagsOrdered, FirstTag, Version
<1>6. NextIsNew /\ TagAbove
  BY DEF Init, NextIsNew, TagAbove
<1> QED
  BY <1>1, <1>3, <1>4, <1>5, <1>6 DEF VersionInv, VersionParts

LEMMA VersionStep ==
  ASSUME TypeInv, GraphInv, VersionInv, Stopping \subseteq Machine, [Next]_vars
  PROVE  VersionInv' /\ (Stopping \subseteq Machine)'
<1>1. UNCHANGED users
  BY DEF Next, vars
<1>2. (Stopping \subseteq Machine)' /\ Forcing' = Forcing
  BY <1>1 DEF Stopping, Forcing
<1>3. ASSUME Forcing = {} PROVE VersionParts'
  <2> USE DEF GraphInv
  <2>1. VersionParts
    BY <1>3 DEF VersionInv
  <2>2. CASE UNCHANGED vars
    <3>1. UNCHANGED <<anc, remoteHead, remoteTag, published, head, tag, pc, ver, users>>
      BY <2>2 DEF vars, objects, remote, session
    <3>2. BranchKept' /\ TagsMade' /\ NextIsNew'
      BY <2>1, <3>1 DEF VersionParts, BranchKept, TagsMade, NextIsNew, Made, Stopping
    <3>3. TagsOrdered' /\ RemoteTagsOrdered' /\ TagAbove'
      BY <2>1, <3>1 DEF VersionParts, TagsOrdered, RemoteTagsOrdered, TagAbove, Below, Stopping
    <3> QED
      BY <3>2, <3>3 DEF VersionParts
  <2>3. ASSUME NEW m \in Machine, Outside(m) \/ Menu(m) \/ Review(m) \/ Engine(m) \/ Stop(m)
        PROVE  VersionParts'
    <3>1. LocalMove(m) \/ PushMove(m)
      BY <2>3, MoveOfStep
    <3>2. BranchKept'
      BY <1>3, <2>1, <3>1, BranchKeptStep DEF VersionParts
    <3>3. TagsMade'
      BY <1>1, <2>1, <2>3, TagsMadeStep DEF VersionParts
    <3>4. TagsOrdered' /\ RemoteTagsOrdered'
      BY <1>1, <2>1, <2>3, TagsOrderedStep DEF VersionParts
    <3>5. NextIsNew'
      BY <1>1, <1>3, <2>1, <2>3, NextIsNewStep DEF VersionParts
    <3>6. TagAbove'
      BY <1>1, <1>3, <2>1, <2>3, TagAboveStep DEF VersionParts
    <3> QED
      BY <3>2, <3>3, <3>4, <3>5, <3>6 DEF VersionParts
  <2> QED
    BY <2>2, <2>3 DEF Next
<1> QED
  BY <1>2, <1>3 DEF VersionInv

\* Without force the versions at origin are in the order of the commits they
\* name, but for a version whose tag was left behind by a machine that stopped.
THEOREM VersionsOrdered == Spec => []VersionsFollowHistory
<1> DEFINE Inv == VersionInv /\ Stopping \subseteq Machine
<1>1. Init => Inv
  BY InitVersions
<1>2. TypeInv /\ GraphInv /\ Inv /\ [Next]_vars => Inv'
  BY VersionStep
<1>3. Inv => VersionsFollowHistory
  BY DEF VersionInv, VersionParts, RemoteTagsOrdered, Below, VersionsFollowHistory, TagLeftBehind
<1> QED
  BY <1>1, <1>2, <1>3, GraphCorrect, PTL DEF Spec

-----------------------------------------------------------------------------
(* SyncReview: what one review guarantees, for any store and any number of *)
(* keys.                                                                   *)

\* A path in conflict is unmerged or has a choice; nothing is unmerged after the
\* commit.
DecidedOrLeft ==
  /\ choices \in [File -> ReviewChoice]
  /\ screen \in {"review", "committed"} =>
       \A f \in Conflicts(base, ours, theirs) : f \in conflicted \/ choices[f] # "None"
  /\ screen = "committed" => conflicted = {}

LEMMA StartedDecides ==
  ASSUME Started PROVE DecidedOrLeft
  BY DEF Started, DecidedOrLeft, ReviewChoice

LEMMA StageDecides ==
  ASSUME DecidedOrLeft, screen = "review",
         NEW f \in File, NEW c, NEW choice \in ReviewChoice \ {"None"}, Stage(f, c, choice)
  PROVE  DecidedOrLeft'
<1>1. UNCHANGED <<base, ours, theirs>>
  BY DEF Stage, trees
<1>2. CASE screen' = "error" /\ UNCHANGED choices
  BY <1>2 DEF DecidedOrLeft
<1>3. CASE /\ conflicted' = conflicted \ {f}
           /\ choices' = [choices EXCEPT ![f] = choice]
           /\ UNCHANGED screen
  BY <1>1, <1>3 DEF DecidedOrLeft, Conflicts
<1> QED
  BY <1>2, <1>3 DEF Stage

LEMMA DecidedStep == DecidedOrLeft /\ [ReviewNext]_reviewVars => DecidedOrLeft'
<1> SUFFICES ASSUME DecidedOrLeft, [ReviewNext]_reviewVars PROVE DecidedOrLeft'
  OBVIOUS
<1>1. CASE UNCHANGED reviewVars
  BY <1>1 DEF DecidedOrLeft, Conflicts, reviewVars, trees
<1>2. ASSUME NEW f \in ReviewFiles, Up(f) \/ Down(f) \/ \E c : Edit(f, c)
      PROVE  DecidedOrLeft'
  <2>1. f \in File
    BY DEF ReviewFiles, Changed
  <2>2. CASE Up(f)
    BY <2>1, <2>2, StageDecides DEF Up, Press, ReviewChoice
  <2>3. CASE Down(f)
    BY <2>1, <2>3, StageDecides DEF Down, Press, ReviewChoice
  <2>4. ASSUME NEW c, Edit(f, c) PROVE DecidedOrLeft'
    BY <2>1, <2>4, StageDecides DEF Edit, Press, ReviewChoice
  <2> QED
    BY <1>2, <2>2, <2>3, <2>4
<1>3. ASSUME NEW v \in Version, Enter(v) PROVE DecidedOrLeft'
  BY <1>3 DEF Enter, DecidedOrLeft, Conflicts, trees
<1>4. CASE Quit
  BY <1>4 DEF Quit, DecidedOrLeft
<1>5. CASE Done
  BY <1>1, <1>5 DEF Done
<1> QED
  BY <1>1, <1>2, <1>3, <1>4, <1>5 DEF ReviewNext

\* A committed review has a choice of the user for every conflict.
THEOREM ConflictsAlwaysDecided == ReviewSpec => []ConflictsDecided
<1>1. ReviewInit => DecidedOrLeft
  BY StartedDecides DEF ReviewInit
<1>2. DecidedOrLeft /\ [ReviewNext]_reviewVars => DecidedOrLeft'
  BY DecidedStep
<1>3. DecidedOrLeft => ConflictsDecided
  BY DEF DecidedOrLeft, ConflictsDecided
<1> QED
  BY <1>1, <1>2, <1>3, PTL DEF ReviewSpec
-----------------------------------------------------------------------------
(* What happens to the changes of one side.  Git has merged them before    *)
(* the review begins; every key touches the file it is pressed on and      *)
(* gives it a choice, Enter rewrites only the hash file, and q, which does *)
(* take the merge back, leads to no commit.                                *)

\* The content git gives a path that is not in conflict.
OneSided(f) == IF ours[f] = base[f] THEN theirs[f] ELSE ours[f]

\* Until the review is left, a path without conflict and without choice is as
\* git merged it; after the commit, an entry still is.
Untouched ==
  /\ \E S : worktree \in [File -> S]
  /\ ours \in Tree
  /\ choices \in [File -> ReviewChoice]
  /\ screen = "review" =>
       \A f \in File \ Conflicts(base, ours, theirs) :
         choices[f] = "None" => worktree[f] = OneSided(f)
  /\ OneSidedChangesSurvive

\* The merge leaves every path without conflict as the side that changed it.
LEMMA MergedOneSided ==
  ASSUME Started, ours \in Tree PROVE Untouched
<1>1. worktree = Merged(base, ours, theirs) /\ screen = "review"
  BY DEF Started
<1>2. \A f \in File \ Conflicts(base, ours, theirs) : worktree[f] = OneSided(f)
  BY <1>1 DEF Merged, OneSided
<1>3. worktree \in [File -> {worktree[f] : f \in File}]
  BY <1>1 DEF Merged
<1>4. choices \in [File -> ReviewChoice]
  BY DEF Started, ReviewChoice
<1> QED
  BY <1>1, <1>2, <1>3, <1>4 DEF Untouched, OneSidedChangesSurvive

\* A key changes no file but its own, which it gives a choice.
LEMMA StageTouchesOne ==
  ASSUME Untouched, screen = "review",
         NEW f \in File, NEW c, NEW choice \in ReviewChoice \ {"None"}, Stage(f, c, choice)
  PROVE  Untouched'
<1>1. UNCHANGED <<base, ours, theirs>> /\ ours' \in Tree /\ screen' # "committed"
  BY DEF Stage, trees, Untouched
<1>2. OneSidedChangesSurvive'
  BY <1>1 DEF OneSidedChangesSurvive
<1>3. PICK S : worktree \in [File -> S]
  BY DEF Untouched
<1>4. CASE screen' = "error" /\ UNCHANGED <<worktree, choices>>
  BY <1>1, <1>2, <1>3, <1>4 DEF Untouched
<1>5. CASE /\ worktree' = [worktree EXCEPT ![f] = c]
           /\ choices' = [choices EXCEPT ![f] = choice]
           /\ UNCHANGED screen
  <2>1. worktree' \in [File -> S \union {c}]
    BY <1>3, <1>5
  <2>2. choices' \in [File -> ReviewChoice]
    BY <1>5 DEF Untouched
  <2>3. ASSUME NEW g \in File \ Conflicts(base', ours', theirs'), choices'[g] = "None"
        PROVE  worktree'[g] = OneSided(g)'
    <3>1. g # f
      BY <1>5, <2>3 DEF Untouched
    <3>2. worktree'[g] = worktree[g] /\ choices[g] = "None"
      BY <1>3, <1>5, <2>3, <3>1 DEF Untouched
    <3>3. g \in File \ Conflicts(base, ours, theirs) /\ OneSided(g)' = OneSided(g)
      BY <1>1, <2>3 DEF OneSided
    <3> QED
      BY <3>2, <3>3 DEF Untouched
  <2> QED
    BY <1>1, <1>2, <2>1, <2>2, <2>3 DEF Untouched
<1> QED
  BY <1>4, <1>5 DEF Stage

\* The commit rewrites the hash file, which is no entry.
LEMMA EnterKeepsEntries ==
  ASSUME Untouched, NEW v \in Version, Enter(v) PROVE Untouched'
<1>1. UNCHANGED <<base, ours, theirs, choices>> /\ screen = "review" /\ screen' = "committed"
  BY DEF Enter, trees
<1>2. PICK S : worktree \in [File -> S]
  BY DEF Untouched
<1>3. PICK sum : worktree' = [worktree EXCEPT ![SumFile] = sum]
  BY DEF Enter, WithSum
<1>4. worktree' \in [File -> S \union {sum}] /\ ours' \in Tree
  BY <1>1, <1>2, <1>3 DEF Untouched
<1>5. ASSUME NEW e \in Entry \ Conflicts(base, ours, theirs), choices[e] = "None"
      PROVE  worktree'[e] = OneSided(e)
  <2>1. e \in File /\ e # SumFile
    BY <1>5, StoreTreeAssumption DEF File
  <2> QED
    BY <1>1, <1>2, <1>3, <1>5, <2>1 DEF Untouched
<1>6. OneSidedChangesSurvive'
  BY <1>1, <1>5 DEF OneSidedChangesSurvive, OneSided
<1> QED
  BY <1>1, <1>4, <1>6 DEF Untouched

LEMMA UntouchedStep == Untouched /\ [ReviewNext]_reviewVars => Untouched'
<1> SUFFICES ASSUME Untouched, [ReviewNext]_reviewVars PROVE Untouched'
  OBVIOUS
<1>1. CASE UNCHANGED reviewVars
  BY <1>1 DEF Untouched, OneSided, OneSidedChangesSurvive, reviewVars, trees
<1>2. ASSUME NEW f \in ReviewFiles, Up(f) \/ Down(f) \/ \E c : Edit(f, c)
      PROVE  Untouched'
  <2>1. f \in File
    BY DEF ReviewFiles, Changed
  <2>2. CASE Up(f)
    BY <2>1, <2>2, StageTouchesOne DEF Up, Press, ReviewChoice
  <2>3. CASE Down(f)
    BY <2>1, <2>3, StageTouchesOne DEF Down, Press, ReviewChoice
  <2>4. ASSUME NEW c, Edit(f, c) PROVE Untouched'
    BY <2>1, <2>4, StageTouchesOne DEF Edit, Press, ReviewChoice
  <2> QED
    BY <1>2, <2>2, <2>3, <2>4
<1>3. ASSUME NEW v \in Version, Enter(v) PROVE Untouched'
  BY <1>3, EnterKeepsEntries
<1>4. CASE Quit
  <2>1. screen' = "aborted" /\ worktree' = ours /\ UNCHANGED <<ours, choices>>
    BY <1>4 DEF Quit, trees
  <2>2. OneSidedChangesSurvive'
    BY <2>1 DEF OneSidedChangesSurvive
  <2>3. ours \in Tree /\ worktree' \in [File -> EntryContent \union SumContent]
    BY <2>1 DEF Untouched, Tree
  <2> QED
    BY <2>1, <2>2, <2>3 DEF Untouched
<1>5. CASE Done
  BY <1>1, <1>5 DEF Done
<1> QED
  BY <1>1, <1>2, <1>3, <1>4, <1>5 DEF ReviewNext

\* A committed review has every change one side made to an entry the user did
\* not touch, for any store and any number of keys.
THEOREM OneSidedChangesAlwaysSurvive == ReviewSpec => []OneSidedChangesSurvive
<1>1. ReviewInit => Untouched
  BY MergedOneSided DEF ReviewInit, Published
<1>2. Untouched /\ [ReviewNext]_reviewVars => Untouched'
  BY UntouchedStep
<1>3. Untouched => OneSidedChangesSurvive
  BY DEF Untouched
<1> QED
  BY <1>1, <1>2, <1>3, PTL DEF ReviewSpec

-----------------------------------------------------------------------------
(* GitSync and SyncReview: the two models of a review agree.  A key does   *)
(* the same to the files of a machine in both, whatever other machines do  *)
(* meanwhile, so that what SyncReview says of the committed worktree holds *)
(* of the commit GitSync makes of it.                                      *)

\* The trees on the screen are those of the merge machine m is in.
TreesOf(m) ==
  /\ base = tree[MergeBase(head[m], origin[m])]
  /\ ours = tree[head[m]]
  /\ theirs = tree[origin[m]]

FilesOf(m) == worktree = work[m] /\ index = idx[m] /\ conflicted = unmerged[m]

\* The review on the screen is the one machine m is in.
Reviewed(m) ==
  /\ pc[m] = "review" /\ screen = "review"
  /\ mergeHead[m] = origin[m]
  /\ TreesOf(m) /\ FilesOf(m)

\* It has ended, with the same files and, if it was committed, in this commit.
ReviewOver(m) ==
  /\ pc[m] \in {"push", "idle"} /\ screen \in {"committed", "aborted", "error"}
  /\ pc[m] = "push" <=> screen = "committed"
  /\ FilesOf(m)
  /\ screen = "committed" => tree[head[m]] = worktree /\ SumMatches(worktree)

Agree(m) == Reviewed(m) \/ ReviewOver(m)

\* The user of machine m presses a key.
ReviewKey(m) ==
  \/ \E f \in File :
       \/ KeepSide(m, f, TRUE) /\ Up(f)
       \/ KeepSide(m, f, FALSE) /\ Down(f)
       \/ \E c : EditFile(m, f, c) /\ Edit(f, c)
  \/ AbortReview(m) /\ Quit
  \/ FinalizeMergeCommit(m) /\ Enter(ver'[m])

StepOf(n) == Outside(n) \/ Menu(n) \/ Review(n) \/ Engine(n) \/ Stop(n)

\* Both models, side by side, while other machines take steps of their own.
SideBySide(m) ==
  /\ ReviewKey(m) \/ (UNCHANGED reviewVars /\ \E n \in Machine \ {m} : StepOf(n))
  /\ UNCHANGED users

\* Both models offer the same files, and find the same contents for the two sides.
THEOREM ReviewsOffer ==
  ASSUME TypeInv, NEW m \in Machine, Reviewed(m)
  PROVE  /\ PreviewFiles(m) = ReviewFiles
         /\ \A f \in File : /\ ChosenContent(m, f, TRUE) = Taken(f, theirs)
                            /\ ChosenContent(m, f, FALSE) = Taken(f, ours)
<1>1. PreviewFiles(m) = ReviewFiles
  BY DEF PreviewFiles, ReviewFiles, Reviewed, TreesOf
<1>2. ASSUME NEW f \in File
      PROVE  /\ ChosenContent(m, f, TRUE) = Taken(f, theirs)
             /\ ChosenContent(m, f, FALSE) = Taken(f, ours)
  BY DEF ChosenContent, Taken, Reviewed, TreesOf, FilesOf
<1> QED
  BY <1>1, <1>2

\* A merge that git has just begun, for the review or in a pull, is what SyncReview
\* starts from.
THEOREM ReviewsBegin ==
  ASSUME TypeInv, GraphInv, NEW m \in Machine,
         \/ StartMerge(m) /\ mergeHead[m] = 0 /\ origin[m] \notin anc[head[m]]
         \/ Pull(m) /\ pc'[m] = "review",
         TreesOf(m)', Started'
  PROVE  Reviewed(m)'
<1>1. PICK r \in {origin[m], remoteHead} :
        /\ BeginMerge(m, r)
        /\ UNCHANGED <<objects, head>>
        /\ origin'[m] = r
        /\ pc'[m] = "review"
  <2>1. CASE StartMerge(m) /\ mergeHead[m] = 0 /\ origin[m] \notin anc[head[m]]
    BY <2>1 DEF StartMerge, Goto, TypeInv, TypeOK
  <2>2. CASE Pull(m) /\ pc'[m] = "review"
    BY <2>2 DEF Pull, Leave, Goto, TypeInv, TypeOK
  <2> QED
    BY <2>1, <2>2
<1> DEFINE h == head[m]
           b == tree[MergeBase(h, r)]
<1>2. h \in 1..commits /\ r \in 1..commits
  BY DEF GraphInv, GraphOK, RefsOK
<1>3. head'[m] = h /\ tree' = tree /\ anc' = anc
  BY <1>1 DEF objects
<1>4. base' = b /\ ours' = tree[h] /\ theirs' = tree[r]
  <2>1. MergeBase(h, r)' = MergeBase(h, r)
    BY <1>2, <1>3, MergeBaseFrame DEF MergeBase, GraphInv
  <2>2. \A c, d \in 1..commits :
          (head[m] = c /\ origin[m] = d => base = tree[MergeBase(c, d)])'
    BY DEF TreesOf
  <2>3. ours' = tree'[head'[m]] /\ theirs' = tree'[origin'[m]]
    BY DEF TreesOf
  <2> QED
    BY <1>1, <1>2, <1>3, <2>1, <2>2, <2>3
<1>5. /\ work'[m] = Merged(b, tree[h], tree[r])
      /\ idx'[m] = [f \in File |-> IF f \in Conflicts(b, tree[h], tree[r]) THEN tree[h][f]
                                   ELSE Merged(b, tree[h], tree[r])[f]]
      /\ unmerged'[m] = Conflicts(b, tree[h], tree[r])
      /\ mergeHead'[m] = r
  BY <1>1 DEF BeginMerge, TypeInv, TypeOK
<1>6. /\ worktree' = Merged(base', ours', theirs')
      /\ conflicted' = Conflicts(base', ours', theirs')
      /\ index' = [f \in File |-> IF f \in conflicted' THEN ours'[f] ELSE worktree'[f]]
      /\ screen' = "review"
  BY DEF Started, Merged, Conflicts
<1> HIDE DEF h, b
<1>7. FilesOf(m)'
  BY <1>4, <1>5, <1>6 DEF FilesOf
<1> QED
  BY <1>1, <1>5, <1>6, <1>7 DEF Reviewed

\* A key of the review, in both models.
LEMMA KeysAgree ==
  ASSUME TypeInv, NEW m \in Machine, Reviewed(m), ReviewKey(m)
  PROVE  Agree(m)'
<1> USE DEF TypeInv, TypeOK
<1>1. ASSUME NEW f \in File, NEW c, NEW choice, Resolve(m, f, c), Stage(f, c, choice),
             UNCHANGED <<objects, head, origin>>
      PROVE  Agree(m)'
  <2>1. TreesOf(m)'
    <3>1. head'[m] = head[m] /\ origin'[m] = origin[m] /\ tree' = tree /\ anc' = anc
      BY <1>1 DEF objects
    <3>2. MergeBase(head[m], origin[m])' = MergeBase(head[m], origin[m])
      BY <1>1 DEF objects, MergeBase, BestBases
    <3> QED
      BY <1>1, <3>1, <3>2 DEF Reviewed, TreesOf, Stage, trees
  <2>2. CASE c = Absent /\ f \notin unmerged[m] /\ idx[m][f] = Absent
    <3>1. pc'[m] = "idle" /\ UNCHANGED files
      BY <1>1, <2>2 DEF Resolve, Leave, Goto
    <3>2. screen' = "error" /\ UNCHANGED <<worktree, index, conflicted>>
      BY <1>1, <2>2 DEF Stage, Reviewed, FilesOf
    <3> QED
      BY <3>1, <3>2 DEF Agree, ReviewOver, Reviewed, FilesOf, files
  <2>3. CASE ~(c = Absent /\ f \notin unmerged[m] /\ idx[m][f] = Absent)
    <3>1. /\ work'[m] = [work[m] EXCEPT ![f] = c]
          /\ idx'[m] = [idx[m] EXCEPT ![f] = c]
          /\ unmerged'[m] = unmerged[m] \ {f}
          /\ UNCHANGED <<mergeHead, session>>
      BY <1>1, <2>3 DEF Resolve
    <3>2. /\ worktree' = [worktree EXCEPT ![f] = c]
          /\ index' = [index EXCEPT ![f] = c]
          /\ conflicted' = conflicted \ {f}
          /\ screen' = screen
      BY <1>1, <2>3 DEF Stage, Reviewed, FilesOf
    <3>3. FilesOf(m)'
      BY <3>1, <3>2 DEF Reviewed, FilesOf
    <3> QED
      BY <1>1, <2>1, <3>1, <3>2, <3>3 DEF Agree, Reviewed, session
  <2> QED
    BY <2>2, <2>3
<1>2. ASSUME NEW f \in File, KeepSide(m, f, TRUE), Up(f) PROVE Agree(m)'
  BY <1>1, <1>2, ReviewsOffer DEF KeepSide, Up
<1>3. ASSUME NEW f \in File, KeepSide(m, f, FALSE), Down(f) PROVE Agree(m)'
  BY <1>1, <1>3, ReviewsOffer DEF KeepSide, Down
<1>4. ASSUME NEW f \in File, NEW c, EditFile(m, f, c), Edit(f, c) PROVE Agree(m)'
  BY <1>1, <1>4 DEF EditFile, Edit
<1>5. CASE AbortReview(m) /\ Quit
  <2>1. mergeHead[m] # 0
    BY GitSyncAssumption DEF Reviewed, Commit
  <2>2. /\ work'[m] = tree[head[m]] /\ idx'[m] = tree[head[m]] /\ unmerged'[m] = {}
        /\ pc'[m] = "idle"
    BY <1>5, <2>1 DEF AbortReview, Checkout, Leave, Goto
  <2> QED
    BY <1>5, <2>2 DEF Quit, Agree, ReviewOver, Reviewed, TreesOf, FilesOf
<1>6. CASE FinalizeMergeCommit(m) /\ Enter(ver'[m])
  <2> DEFINE v == IF ver[m] = 0 THEN NextVersion(m) ELSE ver[m]
             t == WithSum(work[m], v)
  <2>1. mergeHead[m] # 0
    BY GitSyncAssumption DEF Reviewed, Commit
  <2>2. /\ v \in Version /\ ver'[m] = v /\ pc'[m] = "push"
        /\ work'[m] = t /\ idx'[m] = t /\ unmerged'[m] = {}
        /\ MakeCommit(m, t, mergeHead[m])
    BY <1>6, <2>1 DEF FinalizeMergeCommit, Checkout, Goto, SetVer
  <2> HIDE DEF v
  <2>3. tree'[head'[m]] = t
    <3>1. commits + 1 \in Commit
      BY <2>2, GitSyncAssumption DEF MakeCommit, Commit
    <3> QED
      BY <2>2, <3>1 DEF MakeCommit
  <2>4. SumMatches(t)
    BY <2>2, WithSumTree
  <2>5. /\ worktree' = t /\ index' = t /\ conflicted' = {}
        /\ screen' = "committed"
    BY <1>6, <2>2 DEF Enter, Reviewed, FilesOf
  <2> HIDE DEF t
  <2> QED
    BY <2>2, <2>3, <2>4, <2>5 DEF Agree, ReviewOver, FilesOf
<1> QED
  BY <1>2, <1>3, <1>4, <1>5, <1>6 DEF ReviewKey

\* What another machine does changes neither the merge nor the files of this one.
LEMMA OthersApart ==
  ASSUME TypeInv, GraphInv, RootOK, NEW m \in Machine, NEW n \in Machine \ {m}, StepOf(n),
         UNCHANGED reviewVars, Agree(m)
  PROVE  Agree(m)'
<1>1. LocalMove(n) \/ PushMove(n)
  BY MoveOfStep DEF StepOf
<1>2. /\ pc'[m] = pc[m]
      /\ work'[m] = work[m] /\ idx'[m] = idx[m] /\ unmerged'[m] = unmerged[m]
  BY PcFrame, FilesFrame DEF StepOf
<1>3. head'[m] = head[m] /\ origin'[m] = origin[m] /\ mergeHead'[m] = mergeHead[m]
  BY <1>1 DEF LocalMove, PushMove, MakeCommit, TypeInv, TypeOK
<1>4. \A c \in 1..commits : tree'[c] = tree[c] /\ anc'[c] = anc[c]
  BY <1>1, ObjectsGrow DEF GraphInv
<1>5. head[m] \in 1..commits /\ origin[m] \in 1..commits
  BY DEF GraphInv, GraphOK, RefsOK
<1>6. UNCHANGED <<base, ours, theirs, worktree, index, conflicted, screen>>
  BY DEF reviewVars, trees
<1>7. FilesOf(m) => FilesOf(m)'
  BY <1>2, <1>6 DEF FilesOf
<1>8. TreesOf(m) => TreesOf(m)'
  <2>1. ASSUME NEW a \in 1..commits, NEW b \in 1..commits
        PROVE  MergeBase(a, b) \in 1..commits /\ MergeBase(a, b)' = MergeBase(a, b)
    <3>1. MergeBase(a, b) \in 1..commits
      BY MergeBaseIsBest DEF BestBases, GraphInv, GraphOK, AncOK
    <3>2. MergeBase(a, b)' = MergeBase(a, b)
      BY <1>4, MergeBaseFrame DEF MergeBase, GraphInv
    <3> QED
      BY <3>1, <3>2
  <2>2. \A a, b \in 1..commits : head[m] = a /\ origin[m] = b =>
          (TreesOf(m) <=> base = tree[MergeBase(a, b)] /\ ours = tree[a] /\ theirs = tree[b])
    BY DEF TreesOf
  <2>3. \A a, b \in 1..commits :
          (head[m] = a /\ origin[m] = b =>
             (TreesOf(m) <=> base = tree[MergeBase(a, b)] /\ ours = tree[a] /\ theirs = tree[b]))'
    BY DEF TreesOf
  <2>4. ASSUME NEW a \in 1..commits, NEW b \in 1..commits, head[m] = a, origin[m] = b, TreesOf(m)
        PROVE  TreesOf(m)'
    <3>1. base = tree[MergeBase(a, b)] /\ ours = tree[a] /\ theirs = tree[b]
      BY <2>2, <2>4
    <3>2. base' = tree'[MergeBase(a, b)'] /\ ours' = tree'[a] /\ theirs' = tree'[b]
      BY <1>4, <1>6, <2>1, <3>1
    <3>3. head'[m] = a /\ origin'[m] = b
      BY <1>3, <2>4
    <3> QED
      BY <2>3, <3>2, <3>3
  <2> QED
    BY <1>5, <2>4
<1> QED
  BY <1>2, <1>3, <1>4, <1>5, <1>6, <1>7, <1>8 DEF Agree, Reviewed, ReviewOver, SumMatches

reviewed == <<vars, reviewVars>>

\* A key is a step of both models.
LEMMA KeysAreSteps ==
  ASSUME TypeInv, NEW m \in Machine, Reviewed(m), ReviewKey(m)
  PROVE  Review(m) /\ ReviewNext
<1>1. PreviewFiles(m) = ReviewFiles /\ worktree = work[m]
  BY ReviewsOffer DEF Reviewed, FilesOf
<1>2. ASSUME NEW f \in File, NEW c, EditFile(m, f, c), Edit(f, c)
      PROVE  Review(m) /\ ReviewNext
  <2>1. c \in Value \union {work[m][f]} /\ f \in PreviewFiles(m)
    BY <1>2 DEF EditFile
  <2> QED
    BY <1>1, <1>2, <2>1 DEF Review, ReviewNext
<1>3. ASSUME NEW f \in File, NEW side \in BOOLEAN, KeepSide(m, f, side), Up(f) \/ Down(f)
      PROVE  Review(m) /\ ReviewNext
  BY <1>1, <1>3 DEF KeepSide, Review, ReviewNext
<1>4. CASE AbortReview(m) /\ Quit
  BY <1>4 DEF Review, ReviewNext
<1>5. CASE FinalizeMergeCommit(m) /\ Enter(ver'[m])
  <2>1. ver'[m] \in Version
    <3>1. mergeHead[m] # 0
      BY GitSyncAssumption DEF Reviewed, TypeInv, TypeOK, Commit
    <3> QED
      BY <1>5, <3>1 DEF FinalizeMergeCommit, SetVer, TypeInv, TypeOK
  <2> QED
    BY <1>5, <2>1 DEF Review, ReviewNext
<1> QED
  BY <1>2, <1>3, <1>4, <1>5 DEF ReviewKey

\* The screen shows what a key did to f: its choice, or the error the review ends with.
Shown(m, f, choice) ==
  /\ FilesOf(m)'
  /\ UNCHANGED trees
  /\ keys' = keys + 1
  /\ screen' = IF pc'[m] = "review" THEN "review" ELSE "error"
  /\ choices' = IF pc'[m] = "review" THEN [choices EXCEPT ![f] = choice] ELSE choices

\* It shows how the review was left.
ShownEnd(m, how) ==
  /\ FilesOf(m)'
  /\ UNCHANGED <<trees, keys, choices>>
  /\ screen' = how

\* Whatever key GitSync lets the user press, its outcome on the screen is that of the
\* key of SyncReview: side by side no key of the review is missing.
THEOREM KeysAreShown ==
  ASSUME TypeInv, NEW m \in Machine, Reviewed(m), keys < MaxKeys, NEW f \in File
  PROVE  /\ KeepSide(m, f, TRUE) /\ Shown(m, f, "KeepRemote") => Up(f)
         /\ KeepSide(m, f, FALSE) /\ Shown(m, f, "KeepLocal") => Down(f)
         /\ \A c : EditFile(m, f, c) /\ Shown(m, f, "Edited") => Edit(f, c)
         /\ AbortReview(m) /\ ShownEnd(m, "aborted") => Quit
         /\ FinalizeMergeCommit(m) /\ ShownEnd(m, "committed") => Enter(ver'[m])
<1> USE DEF TypeInv, TypeOK
<1>1. ASSUME NEW c, NEW choice, Resolve(m, f, c), Shown(m, f, choice)
      PROVE  Stage(f, c, choice)
  <2>1. CASE c = Absent /\ f \notin unmerged[m] /\ idx[m][f] = Absent
    <3>1. pc'[m] = "idle" /\ UNCHANGED files
      BY <1>1, <2>1 DEF Resolve, Leave, Goto
    <3> QED
      BY <1>1, <2>1, <3>1 DEF Stage, Shown, Reviewed, FilesOf, files
  <2>2. CASE ~(c = Absent /\ f \notin unmerged[m] /\ idx[m][f] = Absent)
    <3>1. /\ work'[m] = [work[m] EXCEPT ![f] = c]
          /\ idx'[m] = [idx[m] EXCEPT ![f] = c]
          /\ unmerged'[m] = unmerged[m] \ {f}
          /\ pc' = pc
      BY <1>1, <2>2 DEF Resolve, session
    <3> QED
      BY <1>1, <2>2, <3>1 DEF Stage, Shown, Reviewed, FilesOf
  <2> QED
    BY <2>1, <2>2
<1>2. Press <=> keys' = keys + 1
  BY DEF Press, Reviewed
<1>3. KeepSide(m, f, TRUE) /\ Shown(m, f, "KeepRemote") => Up(f)
  BY <1>1, <1>2, ReviewsOffer DEF KeepSide, Up, Shown
<1>4. KeepSide(m, f, FALSE) /\ Shown(m, f, "KeepLocal") => Down(f)
  BY <1>1, <1>2, ReviewsOffer DEF KeepSide, Down, Shown
<1>5. \A c : EditFile(m, f, c) /\ Shown(m, f, "Edited") => Edit(f, c)
  BY <1>1, <1>2 DEF EditFile, Edit, Shown, Reviewed, FilesOf
<1>6. mergeHead[m] # 0
  BY GitSyncAssumption DEF Reviewed, Commit
<1>7. AbortReview(m) /\ ShownEnd(m, "aborted") => Quit
  BY <1>6 DEF AbortReview, Checkout, ShownEnd, Quit, Reviewed, TreesOf, FilesOf, trees
<1>8. FinalizeMergeCommit(m) /\ ShownEnd(m, "committed") => Enter(ver'[m])
  <2> DEFINE v == IF ver[m] = 0 THEN NextVersion(m) ELSE ver[m]
             t == WithSum(work[m], v)
  <2> SUFFICES ASSUME FinalizeMergeCommit(m), ShownEnd(m, "committed") PROVE Enter(ver'[m])
    OBVIOUS
  <2>1. /\ ver'[m] = v /\ unmerged[m] = {}
        /\ work'[m] = t /\ idx'[m] = t /\ unmerged'[m] = {}
    BY <1>6 DEF FinalizeMergeCommit, Checkout, SetVer
  <2> HIDE DEF v
  <2> QED
    BY <2>1 DEF Enter, ShownEnd, Reviewed, FilesOf
<1> QED
  BY <1>3, <1>4, <1>5, <1>7, <1>8

\* Side by side, both models take steps of their own.
LEMMA BesideSteps ==
  ASSUME TypeInv, GraphInv, SumInv, NEW m \in Machine, Agree(m), [SideBySide(m)]_reviewed
  PROVE  /\ (TypeInv /\ GraphInv /\ SumInv)' /\ Agree(m)'
         /\ [ReviewNext]_reviewVars
<1>1. CASE UNCHANGED reviewed
  <2>1. UNCHANGED vars /\ UNCHANGED reviewVars
    BY <1>1 DEF reviewed
  <2>2. UNCHANGED <<commits, tree, anc, head, origin, mergeHead, work, idx, unmerged, pc>>
    BY <2>1 DEF vars, objects, files, session
  <2>3. UNCHANGED <<base, ours, theirs, worktree, index, conflicted, screen>>
    BY <2>1 DEF reviewVars, trees
  <2>4. Agree(m)'
    BY <2>2, <2>3 DEF Agree, Reviewed, ReviewOver, TreesOf, FilesOf, MergeBase, BestBases,
                      SumMatches, EntriesOf
  <2> QED
    BY <2>1, <2>4, TypeStep, GraphStep, SumStep
<1>2. CASE ReviewKey(m) /\ UNCHANGED users
  <2>1. Reviewed(m)
    <3>1. pc[m] = "review"
      BY <1>2 DEF ReviewKey, KeepSide, EditFile, AbortReview, FinalizeMergeCommit
    <3> QED
      BY <3>1 DEF Agree, ReviewOver
  <2>2. Agree(m)' /\ Review(m) /\ ReviewNext
    BY <1>2, <2>1, KeysAgree, KeysAreSteps
  <2>3. Next
    BY <1>2, <2>2 DEF Next
  <2> QED
    BY <2>2, <2>3, TypeStep, GraphStep, SumStep
<1>3. ASSUME UNCHANGED <<users, reviewVars>>, NEW n \in Machine \ {m}, StepOf(n)
      PROVE  (TypeInv /\ GraphInv /\ SumInv)' /\ Agree(m)' /\ [ReviewNext]_reviewVars
  <2>1. Next
    BY <1>3 DEF Next, StepOf
  <2>2. Agree(m)'
    BY <1>3, OthersApart DEF SumInv, ShapeOK
  <2> QED
    BY <1>3, <2>1, <2>2, TypeStep, GraphStep, SumStep
<1> QED
  BY <1>1, <1>2, <1>3 DEF SideBySide

\* Whatever keys are pressed and whatever other machines do meanwhile, the review
\* on the screen stays the one of the machine: the same trees, worktree, index and
\* unmerged paths, and in the end the same outcome.
THEOREM ReviewsAgree ==
  ASSUME NEW m \in Machine
  PROVE  Spec => [](Reviewed(m) /\ [][SideBySide(m)]_reviewed => []Agree(m))
<1> DEFINE Inv == TypeInv /\ GraphInv /\ SumInv
<1>1. Reviewed(m) => Agree(m)
  BY DEF Agree
<1>2. Inv /\ Agree(m) /\ [SideBySide(m)]_reviewed => Inv' /\ Agree(m)'
  BY BesideSteps
<1> QED
  BY <1>1, <1>2, SumsCorrect, PTL

\* The commit a review ends in: its hash file matches, no conflict was left to git,
\* and what one side changed in an entry the user did not touch is in it.
CommitKeeps(m) ==
  screen = "committed" =>
    /\ SumMatches(tree[head[m]])
    /\ \A f \in Conflicts(base, ours, theirs) : choices[f] # "None"
    /\ \A e \in Entry \ Conflicts(base, ours, theirs) :
         choices[e] = "None" => tree[head[m]][e] = OneSided(e)

\* A review that begins with a merge on a machine of GitSync ends, if it is
\* committed, in a commit of that machine with all of this: what SyncReview says
\* of its worktree is true of the commit that is pushed next.
THEOREM ReviewedCommitKeeps ==
  ASSUME NEW m \in Machine
  PROVE  Spec => [](Reviewed(m) /\ Started /\ [][SideBySide(m)]_reviewed => []CommitKeeps(m))
<1> DEFINE Inv == TypeInv /\ GraphInv /\ SumInv
           Kept == Agree(m) /\ DecidedOrLeft /\ Untouched
<1>1. Inv /\ Reviewed(m) /\ Started => Kept
  <2> SUFFICES ASSUME Inv, Reviewed(m), Started PROVE Kept
    OBVIOUS
  <2>1. ours \in Tree
    BY DEF Reviewed, TreesOf, TypeInv, TypeOK
  <2> QED
    BY <2>1, StartedDecides, MergedOneSided DEF Agree
<1>2. Inv /\ Kept /\ [SideBySide(m)]_reviewed => Inv' /\ Kept'
  BY BesideSteps, DecidedStep, UntouchedStep
<1>3. Kept => CommitKeeps(m)
  BY DEF Agree, Reviewed, ReviewOver, DecidedOrLeft, Untouched, OneSidedChangesSurvive,
         OneSided, CommitKeeps
<1> QED
  BY <1>1, <1>2, <1>3, SumsCorrect, PTL
=============================================================================
