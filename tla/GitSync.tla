------------------------------- MODULE GitSync -------------------------------
(***************************************************************************)
(* The sync engine: class GitClient (src/src/git/git.cpp) driven by the    *)
(* Sync menu (src/src/tui/tui_sync.cpp), on several machines that share    *)
(* one remote branch.  Each machine runs one TUI, so it runs one sync      *)
(* operation at a time; machines interleave at every git command that      *)
(* talks to the remote, and an operation can stop after any step, because  *)
(* the process dies, the network fails, or a git command throws and        *)
(* TuiApp::run catches it.  What is on disk then stays as it is.           *)
(*                                                                         *)
(* git itself is modelled from how the code uses it: a commit has a tree   *)
(* and a set of ancestors (itself included); commits are numbered in the   *)
(* order they are made, over all machines, and 0 stands for none.          *)
(***************************************************************************)
EXTENDS StoreTree

CONSTANTS
  Machine,    \* clones of the store
  Conduct,    \* what users do and machines suffer: a set of cases
  Seed,       \* content of every entry in the commit made by the installer
  MaxWrites,  \* bound on changes users make to the entries
  MaxCommits  \* bound on commits

ASSUME GitSyncAssumption ==
  /\ MaxCommits \in Nat \ {0}
  /\ MaxWrites \in Nat
  /\ Seed \in Value
  /\ Conduct \subseteq [forcing  : SUBSET Machine,
                        stopping : SUBSET Machine,
                        untidy   : SUBSET Machine]

Commit == 1..MaxCommits
Ref    == 0..MaxCommits

VARIABLES
  users,      \* the case of Conduct; it never changes
  writes,     \* number of changes users have made to entries
  commits,    \* number of commits made so far
  tree,       \* tree of each commit
  anc,        \* ancestors of each commit, itself included
  remoteHead, \* the branch at origin
  remoteTag,  \* version tags at origin
  published,  \* history: every commit that has been reachable at origin
  head,       \* HEAD of each clone
  origin,     \* refs/remotes/origin/<branch> of each clone
  mergeHead,  \* .git/MERGE_HEAD, 0 when there is none
  work,       \* worktree
  idx,        \* index; for an unmerged path, our version
  unmerged,   \* paths with conflict stages in the index
  tag,        \* version tags of each clone
  pc,         \* where the running operation stands
  mode,       \* which operation runs
  ver         \* SyncReport::store_version, 0 when empty

objects == <<commits, tree, anc>>
remote  == <<remoteHead, remoteTag, published>>
files   == <<work, idx, unmerged, mergeHead>>
session == <<pc, mode, ver>>
vars    == <<users, writes, objects, remote, head, origin, files, tag, session>>

\* The machines whose user forces pushes and pulls or nukes the store, those on
\* which a running operation may stop half way, and those on which files of the
\* store change without a commit.
Forcing  == users.forcing
Stopping == users.stopping
Untidy   == users.untidy

Mode == {"none", "review", "sync", "push", "nuke"}
Step == {"idle", "fetch", "stage", "commit", "track", "merge", "review",
         "pull", "push", "tag", "pushtag", "done"}

TypeOK ==
  /\ writes \in 0..MaxWrites
  /\ commits \in Commit
  /\ tree \in [Commit -> Tree]
  /\ anc \in [Commit -> SUBSET Commit]
  /\ remoteHead \in Commit
  /\ remoteTag \in [Version -> Ref]
  /\ published \in SUBSET Commit
  /\ head \in [Machine -> Commit]
  /\ origin \in [Machine -> Commit]
  /\ mergeHead \in [Machine -> Ref]
  /\ work \in [Machine -> Tree]
  /\ idx \in [Machine -> Tree]
  /\ unmerged \in [Machine -> SUBSET File]
  /\ tag \in [Machine -> [Version -> Ref]]
  /\ pc \in [Machine -> Step]
  /\ mode \in [Machine -> Mode]
  /\ ver \in [Machine -> Version \union {0}]

-----------------------------------------------------------------------------
(* The store right after setup on every machine: the installer made the    *)
(* first commit, with a hash file for version 1, and pushed it and its tag.*)

SeedTree ==
  [f \in File |->
     IF f = SumFile THEN [of |-> [e \in Entry |-> Seed], ver |-> 1] ELSE Seed]

FirstTag == [v \in Version |-> IF v = 1 THEN 1 ELSE 0]

Init ==
  /\ users \in Conduct
  /\ writes = 0
  /\ commits = 1
  /\ tree = [c \in Commit |-> SeedTree]
  /\ anc = [c \in Commit |-> IF c = 1 THEN {1} ELSE {}]
  /\ remoteHead = 1
  /\ remoteTag = FirstTag
  /\ published = {1}
  /\ head = [m \in Machine |-> 1]
  /\ origin = [m \in Machine |-> 1]
  /\ mergeHead = [m \in Machine |-> 0]
  /\ work = [m \in Machine |-> SeedTree]
  /\ idx = [m \in Machine |-> SeedTree]
  /\ unmerged = [m \in Machine |-> {}]
  /\ tag = [m \in Machine |-> FirstTag]
  /\ pc = [m \in Machine |-> "idle"]
  /\ mode = [m \in Machine |-> "none"]
  /\ ver = [m \in Machine |-> 0]

-----------------------------------------------------------------------------
(* What the code asks git.                                                 *)

\* git status --porcelain prints nothing
Clean(m) == work[m] = idx[m] /\ idx[m] = tree[head[m]] /\ unmerged[m] = {}

\* git merge-base --all: the common ancestors with no common descendant
BestBases(a, b) ==
  LET common == anc[a] \intersect anc[b]
  IN  {c \in common : \A d \in common : c \in anc[d] => d = c}

\* git merge-base: one of them
MergeBase(a, b) == CHOOSE c \in BestBases(a, b) : TRUE

\* next_store_version: one above the highest local tag
NextVersion(m) ==
  CHOOSE v \in 1..(MaxVersion + 1) :
    /\ v = 1 \/ tag[m][v - 1] # 0
    /\ \A w \in Version : tag[m][w] # 0 => w < v

\* head_store_version_tags
HeadTags(m) == {v \in Version : tag[m][v] = head[m]}

\* A slip: HEAD..origin counted instead of origin..HEAD.
BehindOrigin(m) == origin[m] \notin anc[head[m]]

\* commits_ahead_of_origin() > 0
AheadOfOrigin(m) == head[m] \notin anc[origin[m]]

\* A local tag names another commit than the same tag at origin: `git fetch
\* --tags` then exits with "would clobber existing tag".
TagClash(m) ==
  \E v \in Version : tag[m][v] # 0 /\ remoteTag[v] # 0 /\ tag[m][v] # remoteTag[v]

\* A slip: the hash file, which users do not edit, is left out of the review.
PreviewEntries(m) ==
  LET base == tree[MergeBase(head[m], origin[m])]
  IN  (Changed(base, tree[head[m]]) \union Changed(base, tree[origin[m]])) \ {SumFile}

\* Files of build_preview(false): changed on either side since the merge base.
PreviewFiles(m) ==
  LET base == tree[MergeBase(head[m], origin[m])]
  IN  Changed(base, tree[head[m]]) \union Changed(base, tree[origin[m]])

\* The worktree as `git diff <commit>` sees it: tracked paths only.
Tracked(m) == [f \in File |-> IF idx[m][f] = Absent THEN Absent ELSE work[m][f]]

\* overlapping_paths of build_preview(true) once origin is at remoteHead
Overlap(m) ==
  LET base == tree[MergeBase(head[m], remoteHead)]
  IN  Changed(base, Tracked(m)) \intersect Changed(base, tree[remoteHead])

-----------------------------------------------------------------------------
(* Building blocks of the actions.                                         *)

\* git commit on machine m: the tree t, on top of HEAD and of `other` (0: none)
MakeCommit(m, t, other) ==
  /\ commits < MaxCommits
  /\ commits' = commits + 1
  /\ tree' = [tree EXCEPT ![commits + 1] = t]
  /\ anc' = [anc EXCEPT ![commits + 1] =
               {commits + 1} \union anc[head[m]]
                 \union (IF other = 0 THEN {} ELSE anc[other])]
  /\ head' = [head EXCEPT ![m] = commits + 1]

\* A user changes the entries once more.
Write == writes < MaxWrites /\ writes' = writes + 1

\* worktree and index of m both become t, with nothing left to merge
Checkout(m, t) ==
  /\ work' = [work EXCEPT ![m] = t]
  /\ idx' = [idx EXCEPT ![m] = t]
  /\ unmerged' = [unmerged EXCEPT ![m] = {}]

\* The merge of commit `other` into HEAD stops before committing.
BeginMerge(m, other) ==
  LET b == tree[MergeBase(head[m], other)]
      o == tree[head[m]]
      t == tree[other]
  IN  /\ work' = [work EXCEPT ![m] = Merged(b, o, t)]
      /\ idx' = [idx EXCEPT ![m] =
                   [f \in File |-> IF f \in Conflicts(b, o, t) THEN o[f]
                                   ELSE Merged(b, o, t)[f]]]
      /\ unmerged' = [unmerged EXCEPT ![m] = Conflicts(b, o, t)]
      /\ mergeHead' = [mergeHead EXCEPT ![m] = other]

\* git fetch --tags origin; tags that would clobber a local one are refused
FetchTags(m) ==
  /\ origin' = [origin EXCEPT ![m] = remoteHead]
  /\ tag' = [tag EXCEPT ![m] =
               [v \in Version |-> IF @[v] = 0 THEN remoteTag[v] ELSE @[v]]]

Goto(m, step)   == pc' = [pc EXCEPT ![m] = step]
SetVer(m, v)    == ver' = [ver EXCEPT ![m] = v]
SetMode(m, mo)  == mode' = [mode EXCEPT ![m] = mo]
Stay            == UNCHANGED <<mode, ver>>

\* The operation ends, by an exception or with nothing more to do.
Leave(m) == Goto(m, "idle") /\ SetMode(m, "none") /\ SetVer(m, 0)

\* A slip: a forced push tags first and pushes the branch later.
TagBeforePush(m) ==
  Goto(m, CASE mode[m] = "review" -> "merge"
            [] mode[m] = "sync"   -> "pull"
            [] OTHER              -> "tag")

\* After version tracking each operation goes its own way.
AfterTracking(m) ==
  Goto(m, CASE mode[m] = "review" -> "merge"
            [] mode[m] = "sync"   -> "pull"
            [] OTHER              -> "push")

-----------------------------------------------------------------------------
(* Changes made outside the sync menu.                                     *)

\* `pass insert`, `pass generate` or `pass rm` of one entry: the file is
\* written and staged, and the whole index committed.  git refuses the commit
\* while paths are unmerged, and concludes a merge that is in progress.
PassWrite(m, e, c) ==
  LET t == [idx[m] EXCEPT ![e] = c]
      u == unmerged[m] \ {e}
  IN  /\ pc[m] = "idle"
      /\ c # work[m][e]
      /\ Write
      /\ work' = [work EXCEPT ![m][e] = c]
      /\ idx' = [idx EXCEPT ![m] = t]
      /\ unmerged' = [unmerged EXCEPT ![m] = u]
      /\ IF u # {} \/ (t = tree[head[m]] /\ mergeHead[m] = 0)
           THEN UNCHANGED <<objects, head, mergeHead>>
           ELSE /\ MakeCommit(m, t, mergeHead[m])
                /\ mergeHead' = [mergeHead EXCEPT ![m] = 0]
      /\ UNCHANGED <<remote, origin, tag, session>>

\* A file of the store changes without a commit: an interrupted `pass`, or a
\* file copied into the store.
LeaveUncommitted(m, e, c) ==
  /\ m \in Untidy
  /\ pc[m] = "idle"
  /\ c # work[m][e]
  /\ Write
  /\ work' = [work EXCEPT ![m][e] = c]
  /\ UNCHANGED <<objects, remote, head, origin, idx, unmerged, mergeHead, tag, session>>

-----------------------------------------------------------------------------
(* The entries of the Sync menu.                                           *)

\* sync_store starts with fetch_preview.  Overlapping paths lead to the
\* interactive review, none to a plain sync; a tag clash throws.
SyncStore(m) ==
  /\ pc[m] = "idle"
  /\ FetchTags(m)
  /\ IF TagClash(m) THEN UNCHANGED session
     ELSE /\ Goto(m, "fetch")
          /\ SetMode(m, IF Overlap(m) # {} THEN "review" ELSE "sync")
          /\ UNCHANGED ver
  /\ UNCHANGED <<writes, objects, remote, head, files>>

\* push_store_force, confirmed with FORCE
PushStoreForce(m) ==
  /\ m \in Forcing
  /\ pc[m] = "idle"
  /\ Goto(m, "fetch")
  /\ SetMode(m, "push")
  /\ UNCHANGED <<writes, objects, remote, head, origin, files, tag, ver>>

\* fetch_store_preview: fetches and shows, nothing else.
FetchStorePreview(m) ==
  /\ pc[m] = "idle"
  /\ FetchTags(m)
  /\ UNCHANGED <<writes, objects, remote, head, files, session>>

\* pull_store_force, confirmed with PULL: git reset --hard rewrites the paths
\* that are tracked before or after it and leaves untracked files alone.
PullStoreForce(m) ==
  LET target == tree[remoteHead]
  IN  /\ m \in Forcing
      /\ pc[m] = "idle"
      /\ mergeHead[m] = 0
      /\ FetchTags(m)
      /\ IF TagClash(m) THEN UNCHANGED <<head, files>>
         ELSE /\ head' = [head EXCEPT ![m] = remoteHead]
              /\ work' = [work EXCEPT ![m] =
                            [f \in File |-> IF idx[m][f] = Absent /\ target[f] = Absent
                                            THEN work[m][f] ELSE target[f]]]
              /\ idx' = [idx EXCEPT ![m] = target]
              /\ unmerged' = [unmerged EXCEPT ![m] = {}]
              /\ UNCHANGED mergeHead
      /\ UNCHANGED <<writes, objects, remote, session>>

\* nuke_store, confirmed with DELETE: entries removed, hash file rewritten,
\* everything staged and committed; with the remote, pushed by force.
NukePasswords(m, includeRemote) ==
  LET v == NextVersion(m)
      t == WithSum([f \in File |-> IF f \in Entry THEN Absent ELSE work[m][f]], v)
  IN  /\ m \in Forcing
      /\ pc[m] = "idle"
      /\ mergeHead[m] = 0
      /\ v \in Version
      /\ Write
      /\ Checkout(m, t)
      /\ IF t = tree[head[m]]
           THEN UNCHANGED <<objects, head, session>>
           ELSE /\ MakeCommit(m, t, 0)
                /\ IF includeRemote
                     THEN Goto(m, "push") /\ SetMode(m, "nuke") /\ SetVer(m, v)
                     ELSE UNCHANGED session
      /\ UNCHANGED <<remote, origin, mergeHead, tag>>

-----------------------------------------------------------------------------
(* prepare_sync, sync and push_force share these steps.                    *)

\* git fetch --tags origin, once more
Fetch(m) ==
  /\ pc[m] = "fetch"
  /\ FetchTags(m)
  /\ IF TagClash(m) THEN Leave(m) ELSE Goto(m, "stage") /\ Stay
  /\ UNCHANGED <<writes, objects, remote, head, files>>

\* stage_and_commit_local_changes, up to git add -A, which also marks every
\* unmerged path as resolved with what the worktree holds.
StageChanges(m) ==
  LET v == NextVersion(m)
  IN  /\ pc[m] = "stage"
      /\ IF Clean(m)
           THEN Goto(m, "track") /\ UNCHANGED <<work, idx, unmerged, ver>>
           ELSE /\ v \in Version
                /\ Checkout(m, WithSum(work[m], v))
                /\ SetVer(m, v)
                /\ Goto(m, "commit")
      /\ UNCHANGED <<writes, objects, remote, head, origin, mergeHead, tag, mode>>

\* ... and the commit, which concludes a merge that is in progress
CommitStaged(m) ==
  /\ pc[m] = "commit"
  /\ IF idx[m] = tree[head[m]]
       THEN UNCHANGED <<objects, head, mergeHead>>
       ELSE /\ MakeCommit(m, idx[m], mergeHead[m])
            /\ mergeHead' = [mergeHead EXCEPT ![m] = 0]
  /\ Goto(m, "track")
  /\ UNCHANGED <<writes, remote, origin, work, idx, unmerged, tag, mode, ver>>

\* ensure_store_version_tracking has a version already, or needs none
VersionKnown(m) ==
  /\ pc[m] = "track"
  /\ \/ ver[m] # 0 /\ UNCHANGED ver
     \/ /\ ver[m] = 0
        /\ \E v \in HeadTags(m) : (\A w \in HeadTags(m) : v <= w) /\ SetVer(m, v)
     \/ ver[m] = 0 /\ HeadTags(m) = {} /\ ~AheadOfOrigin(m) /\ UNCHANGED ver
  /\ AfterTracking(m)
  /\ UNCHANGED <<writes, objects, remote, head, origin, files, tag, mode>>

\* The worktree once the hash file names the next version.
TrackedTree(m) == WithSum(work[m], NextVersion(m))

NeedsTracking(m) ==
  pc[m] = "track" /\ ver[m] = 0 /\ HeadTags(m) = {} /\ AheadOfOrigin(m)

\* ... or commits a new hash file.  When the hash file already says so and no
\* merge is being concluded, git commit has nothing to commit and throws.
TrackVersion(m) ==
  /\ NeedsTracking(m)
  /\ NextVersion(m) \in Version
  /\ Checkout(m, TrackedTree(m))
  /\ IF TrackedTree(m) = tree[head[m]] /\ mergeHead[m] = 0
       THEN UNCHANGED <<objects, head, mergeHead>> /\ Leave(m)
       ELSE /\ MakeCommit(m, TrackedTree(m), mergeHead[m])
            /\ mergeHead' = [mergeHead EXCEPT ![m] = 0]
            /\ SetVer(m, NextVersion(m))
            /\ AfterTracking(m)
            /\ UNCHANGED mode
  /\ UNCHANGED <<writes, remote, origin, tag>>

\* git pull --no-rebase origin <branch>
Pull(m) ==
  LET b == tree[MergeBase(head[m], remoteHead)]
      o == tree[head[m]]
      t == tree[remoteHead]
  IN  /\ pc[m] = "pull"
      /\ IF mergeHead[m] # 0
           THEN Leave(m) /\ UNCHANGED <<objects, head, origin, files>>
           ELSE /\ origin' = [origin EXCEPT ![m] = remoteHead]
                /\ \/ /\ remoteHead \in anc[head[m]]
                      /\ Goto(m, "push")
                      /\ UNCHANGED <<objects, head, files>>
                   \/ /\ remoteHead \notin anc[head[m]]
                      /\ head[m] \in anc[remoteHead]
                      /\ head' = [head EXCEPT ![m] = remoteHead]
                      /\ Checkout(m, t)
                      /\ Goto(m, "push")
                      /\ UNCHANGED <<objects, mergeHead>>
                   \/ /\ remoteHead \notin anc[head[m]]
                      /\ head[m] \notin anc[remoteHead]
                      /\ IF Conflicts(b, o, t) = {}
                           THEN /\ MakeCommit(m, Merged(b, o, t), remoteHead)
                                /\ Checkout(m, Merged(b, o, t))
                                /\ Goto(m, "push")
                                /\ UNCHANGED mergeHead
                           ELSE /\ BeginMerge(m, remoteHead)
                                /\ Goto(m, "review")
                                /\ UNCHANGED <<objects, head>>
                /\ Stay
      /\ UNCHANGED <<writes, remote, tag>>

-----------------------------------------------------------------------------
(* The interactive review (review_sync_preview) and what follows it.       *)

\* start_merge_from_origin: git merge --no-commit --no-ff.  An ancestor of
\* HEAD is "Already up to date" and leaves no MERGE_HEAD.
StartMerge(m) ==
  /\ pc[m] = "merge"
  /\ IF mergeHead[m] # 0 \/ origin[m] \in anc[head[m]]
       THEN UNCHANGED files
       ELSE BeginMerge(m, origin[m])
  /\ Goto(m, "review")
  /\ UNCHANGED <<writes, objects, remote, head, origin, tag, mode, ver>>

\* git checkout --ours/--theirs on an unmerged path takes that side of the
\* merge; on any other path of the index it restores the index.  A path the
\* chosen side or the index lacks is taken from the revision, HEAD or origin.
ChosenContent(m, f, theirs) ==
  LET side     == IF theirs THEN tree[mergeHead[m]][f] ELSE tree[head[m]][f]
      revision == IF theirs THEN tree[origin[m]][f] ELSE tree[head[m]][f]
  IN  IF f \in unmerged[m] /\ side # Absent THEN side
      ELSE IF f \notin unmerged[m] /\ idx[m][f] # Absent THEN idx[m][f]
      ELSE revision

\* The content c of path f is staged, and Absent removed by git rm, which fails
\* on a path the index does not have: the review then ends with an exception,
\* and the merge stays in progress.
Resolve(m, f, c) ==
  IF c = Absent /\ f \notin unmerged[m] /\ idx[m][f] = Absent
    THEN Leave(m) /\ UNCHANGED files
    ELSE /\ work' = [work EXCEPT ![m][f] = c]
         /\ idx' = [idx EXCEPT ![m][f] = c]
         /\ unmerged' = [unmerged EXCEPT ![m] = @ \ {f}]
         /\ UNCHANGED <<mergeHead, session>>

\* The Up (theirs) and Down (ours) keys: resolve_conflict.
KeepSide(m, f, theirs) ==
  /\ pc[m] = "review"
  /\ f \in PreviewFiles(m)
  /\ Resolve(m, f, ChosenContent(m, f, theirs))
  /\ UNCHANGED <<writes, objects, remote, head, origin, tag>>

\* The e key: nano, then stage_file stages whatever the file then holds.
EditFile(m, f, c) ==
  /\ pc[m] = "review"
  /\ f \in PreviewFiles(m)
  /\ c = work[m][f] \/ (f \in Entry /\ c \in Value)
  /\ Resolve(m, f, c)
  /\ UNCHANGED <<writes, objects, remote, head, origin, tag>>

\* A slip: the q key resets the clone to origin.
ResetReview(m) ==
  /\ pc[m] = "review"
  /\ PreviewFiles(m) # {}
  /\ Checkout(m, tree[origin[m]])
  /\ head' = [head EXCEPT ![m] = origin[m]]
  /\ mergeHead' = [mergeHead EXCEPT ![m] = 0]
  /\ Leave(m)
  /\ UNCHANGED <<writes, objects, remote, origin, tag>>

\* The q key: git merge --abort when a merge is in progress.
AbortReview(m) ==
  /\ pc[m] = "review"
  /\ PreviewFiles(m) # {}
  /\ IF mergeHead[m] = 0 THEN UNCHANGED files
     ELSE /\ Checkout(m, tree[head[m]])
          /\ mergeHead' = [mergeHead EXCEPT ![m] = 0]
  /\ Leave(m)
  /\ UNCHANGED <<writes, objects, remote, head, origin, tag>>

\* The Enter key, with no conflict left: finalize_merge_commit returns at once
\* when no merge is in progress; otherwise it commits, to push and tag next.
FinalizeMergeCommit(m) ==
  LET v == IF ver[m] = 0 THEN NextVersion(m) ELSE ver[m]
      t == WithSum(work[m], v)
  IN  /\ pc[m] = "review"
      /\ unmerged[m] = {}
      /\ IF mergeHead[m] = 0
           THEN Goto(m, "done") /\ Stay /\ UNCHANGED <<objects, head, files>>
           ELSE /\ v \in Version
                /\ Checkout(m, t)
                /\ MakeCommit(m, t, mergeHead[m])
                /\ mergeHead' = [mergeHead EXCEPT ![m] = 0]
                /\ SetVer(m, v)
                /\ Goto(m, "push")
                /\ UNCHANGED mode
      /\ UNCHANGED <<writes, remote, origin, tag>>

\* A slip: every push is forced.
AlwaysForces(m) == pc[m] = "push"

\* push_force and nuke_passwords pass --force, sync and the review do not.
ForcesPush(m) == mode[m] \in {"push", "nuke"}

\* git push origin <branch>, with --force in push_force and nuke_passwords;
\* without it the remote takes only descendants of its head.
Push(m) ==
  /\ pc[m] = "push"
  /\ IF ForcesPush(m) \/ remoteHead \in anc[head[m]]
       THEN /\ remoteHead' = head[m]
            /\ origin' = [origin EXCEPT ![m] = head[m]]
            /\ published' = published \union anc[head[m]]
            /\ Goto(m, IF ver[m] = 0 THEN "done" ELSE "tag")
            /\ Stay
       ELSE Leave(m) /\ UNCHANGED <<remoteHead, origin, published>>
  /\ UNCHANGED <<writes, objects, remoteTag, head, files, tag>>

\* create_store_version_tag: git tag, unless the tag exists ...
CreateTag(m) ==
  /\ pc[m] = "tag"
  /\ tag' = [tag EXCEPT ![m][ver[m]] = IF @ = 0 THEN head[m] ELSE @]
  /\ Goto(m, "pushtag")
  /\ UNCHANGED <<writes, objects, remote, head, origin, files, mode, ver>>

\* ... and git push of the tag, which the remote refuses if it has another one
PushTag(m) ==
  LET theirs == remoteTag[ver[m]]
      ours   == tag[m][ver[m]]
  IN  /\ pc[m] = "pushtag"
      /\ IF theirs \in {0, ours}
           THEN /\ remoteTag' = [remoteTag EXCEPT ![ver[m]] = ours]
                /\ Goto(m, "done")
                /\ Stay
           ELSE Leave(m) /\ UNCHANGED remoteTag
      /\ UNCHANGED <<writes, objects, remoteHead, published, head, origin, files, tag>>

\* The closing message ("Resolved content was pushed to origin/...") is read.
Dismiss(m) ==
  /\ pc[m] = "done"
  /\ Leave(m)
  /\ UNCHANGED <<writes, objects, remote, head, origin, files, tag>>

\* The operation stops: the process dies, or a git command fails for a reason
\* outside the model and TuiApp::run shows the error.
Stop(m) ==
  /\ m \in Stopping
  /\ pc[m] \notin {"idle", "done"}
  /\ Leave(m)
  /\ UNCHANGED <<writes, objects, remote, head, origin, files, tag>>

-----------------------------------------------------------------------------
Outside(m) == \E e \in Entry, c \in EntryContent : PassWrite(m, e, c) \/ LeaveUncommitted(m, e, c)

Menu(m) ==
  \/ SyncStore(m)
  \/ PushStoreForce(m)
  \/ PullStoreForce(m)
  \/ FetchStorePreview(m)
  \/ \E includeRemote \in BOOLEAN : NukePasswords(m, includeRemote)

Review(m) ==
  \/ \E f \in File, theirs \in BOOLEAN : KeepSide(m, f, theirs)
  \/ \E f \in File : \E c \in Value \union {work[m][f]} : EditFile(m, f, c)
  \/ AbortReview(m)
  \/ FinalizeMergeCommit(m)

Engine(m) ==
  \/ Fetch(m) \/ StageChanges(m) \/ CommitStaged(m) \/ VersionKnown(m) \/ TrackVersion(m)
  \/ StartMerge(m) \/ Pull(m) \/ Push(m) \/ CreateTag(m) \/ PushTag(m) \/ Dismiss(m)

Next ==
  /\ \E m \in Machine : Outside(m) \/ Menu(m) \/ Review(m) \/ Engine(m) \/ Stop(m)
  /\ UNCHANGED users

Spec == Init /\ [][Next]_vars

-----------------------------------------------------------------------------
(* Properties of the code.                                                 *)

\* The branch at origin is rewritten only by a push the user asked to force:
\* sync, review and tagging never drop a published commit.
RewrittenOnlyByForce ==
  [][remoteHead' # remoteHead =>
       \/ remoteHead \in anc'[remoteHead']
       \/ \E m \in Forcing : mode[m] \in {"push", "nuke"} /\ remoteHead' = head[m]]_vars

\* No operation but a forced pull drops a commit of the clone it runs on; a
\* cancelled or interrupted review keeps the commit prepared for it.
LocalCommitsKept ==
  [][\A m \in Machine : head[m] \in anc'[head'[m]] \/ PullStoreForce(m)]_vars

\* The hash file at origin is the hash of the entries at origin: no path
\* through merges, retries and interrupted operations publishes a tree whose
\* hash file is stale or holds conflict markers.
PublishedSumMatches == SumMatches(tree[remoteHead])

\* A published version tag names a commit whose hash file is the hash of its
\* entries, and the hash file written for that version is in its history.
TagNamesItsVersion ==
  \A v \in Version : remoteTag[v] # 0 =>
    /\ SumMatches(tree[remoteTag[v]])
    /\ \E c \in anc[remoteTag[v]] : SumMatches(tree[c]) /\ tree[c][SumFile].ver = v

\* A published version tag names a commit that has been on the branch.
TagIsPublished == \A v \in Version : remoteTag[v] # 0 => remoteTag[v] \in published

\* A machine whose operation stopped between git tag and the push of the tag
\* has a tag of its own for version v, and the one at origin is another.
TagLeftBehind(v) == \E m \in Stopping : tag[m][v] \notin {0, remoteTag[v]}

\* Without forced operations the version tags follow the history: the commit
\* of a higher version contains the commit of every lower one, unless a tag of
\* the lower version was left behind on some machine.
VersionsFollowHistory ==
  Forcing = {} =>
    \A v, w \in Version :
      v < w /\ remoteTag[v] # 0 /\ remoteTag[w] # 0 =>
        remoteTag[v] \in anc[remoteTag[w]] \/ TagLeftBehind(v)

\* Every conflict of the merge is among the files the review shows: were one
\* missing, the user could neither resolve it nor continue.
ConflictsAreShown == \A m \in Machine : pc[m] = "review" => unmerged[m] \subseteq PreviewFiles(m)

-----------------------------------------------------------------------------
(* What the program and its documentation say, and the code does not keep. *)

\* "There are still unresolved merge conflicts. Use [Up], [Down], or [e] on
\* each conflicted file before continuing": a conflict goes away only in the
\* review, by aborting the merge, or when the user resets or rewrites the file.
ConflictsResolvedByUser ==
  [][\A m \in Machine :
       unmerged'[m] # unmerged[m] /\ unmerged[m] # {} =>
         pc[m] = "review" \/ writes' # writes \/ PullStoreForce(m)]_vars

-----------------------------------------------------------------------------
\* The abstract view of history: a commit stands for its ancestors.
History == INSTANCE SharedHistory WITH
  forcing <- Forcing,
  Change  <- Commit,
  made    <- 1..commits,
  replica <- [m \in Machine |-> anc[head[m]]],
  branch  <- anc[remoteHead]

HistorySpec == History!HSpec
=============================================================================
