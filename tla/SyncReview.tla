------------------------------ MODULE SyncReview ------------------------------
(***************************************************************************)
(* One interactive review: review_sync_preview (src/src/tui/tui_sync.cpp)  *)
(* on top of a merge that has just been started.  GitSync models the same  *)
(* keys by what they do to the index; here the screen is modelled as well: *)
(* the choice shown for each file, against the content that is committed.  *)
(***************************************************************************)
EXTENDS StoreTree

CONSTANT MaxKeys  \* bound on keys pressed

ASSUME SyncReviewAssumption == MaxKeys \in Nat

VARIABLES
  base, ours, theirs, \* trees of the merge base, HEAD and origin
  worktree, index,    \* worktree and index
  conflicted,         \* paths with conflict stages
  choices,            \* the ReviewChoice of each file
  keys,               \* number of keys pressed
  screen              \* where the review stands

trees      == <<base, ours, theirs>>
reviewVars == <<trees, worktree, index, conflicted, choices, keys, screen>>

ReviewChoice == {"None", "KeepLocal", "KeepRemote", "Edited"}

\* A tree as published by syncpss, at version v.
Published(v) == {t \in Tree : SumMatches(t) /\ t[SumFile].ver = v}

\* start_merge_from_origin has left what git could merge; no key has been pressed.
Started ==
  /\ worktree = Merged(base, ours, theirs)
  /\ conflicted = Conflicts(base, ours, theirs)
  /\ index = [f \in File |-> IF f \in conflicted THEN ours[f] ELSE worktree[f]]
  /\ choices = [f \in File |-> "None"]
  /\ keys = 0
  /\ screen = "review"

\* sync_store leads here when a path changed on both sides; both sides then
\* carry a hash file of their own.
ReviewInit ==
  /\ base \in Published(1)
  /\ ours \in Published(2)
  /\ theirs \in Published(2)
  /\ Changed(base, ours) \intersect Changed(base, theirs) # {}
  /\ Started

\* build_preview(false)
ReviewFiles == Changed(base, ours) \union Changed(base, theirs)

Press == screen = "review" /\ keys < MaxKeys /\ keys' = keys + 1

\* What resolve_conflict makes of f: git checkout --ours/--theirs takes a side
\* of a path in conflict and restores the index otherwise; a path it does not
\* find is taken from the revision.
Taken(f, side) ==
  IF f \in conflicted \/ index[f] = Absent THEN side[f] ELSE index[f]

\* The content c of f is staged; git rm of a path git does not track fails.
Stage(f, c, choice) ==
  /\ UNCHANGED trees
  /\ IF c = Absent /\ f \notin conflicted /\ index[f] = Absent
       THEN screen' = "error" /\ UNCHANGED <<worktree, index, conflicted, choices>>
       ELSE /\ worktree' = [worktree EXCEPT ![f] = c]
            /\ index' = [index EXCEPT ![f] = c]
            /\ conflicted' = conflicted \ {f}
            /\ choices' = [choices EXCEPT ![f] = choice]
            /\ UNCHANGED screen

\* A slip: git checkout of the side without the path.
DownEverywhere(f) ==
  /\ Press
  /\ worktree' = ours
  /\ index' = ours
  /\ conflicted' = {}
  /\ choices' = [choices EXCEPT ![f] = "KeepLocal"]
  /\ UNCHANGED <<trees, screen>>

\* The Up and Down keys
Up(f)   == Press /\ Stage(f, Taken(f, theirs), "KeepRemote")
Down(f) == Press /\ Stage(f, Taken(f, ours), "KeepLocal")

\* nano, then stage_file
Edit(f, c) ==
  /\ Press
  /\ c = worktree[f] \/ (f \in Entry /\ c \in Value)
  /\ Stage(f, c, "Edited")

\* A slip: the Enter key asks nothing.
EnterAnyway(v) ==
  /\ screen = "review"
  /\ screen' = "committed"
  /\ LET t == WithSum(worktree, v) IN worktree' = t /\ index' = t
  /\ conflicted' = {}
  /\ UNCHANGED <<trees, choices, keys>>

\* Enter: refused while a conflict is left; then finalize_merge_commit rewrites
\* the hash file for version v, stages everything and commits.
Enter(v) ==
  /\ screen = "review"
  /\ conflicted = {}
  /\ screen' = "committed"
  /\ LET t == WithSum(worktree, v) IN worktree' = t /\ index' = t
  /\ UNCHANGED <<trees, conflicted, choices, keys>>

\* q: git merge --abort
Quit ==
  /\ screen = "review"
  /\ screen' = "aborted"
  /\ worktree' = ours
  /\ index' = ours
  /\ conflicted' = {}
  /\ UNCHANGED <<trees, choices, keys>>

Done == screen # "review" /\ UNCHANGED reviewVars

ReviewNext ==
  \/ \E f \in ReviewFiles : Up(f) \/ Down(f) \/ \E c \in Value \union {worktree[f]} : Edit(f, c)
  \/ \E v \in Version : Enter(v)
  \/ Quit \/ Done

ReviewSpec == ReviewInit /\ [][ReviewNext]_reviewVars

-----------------------------------------------------------------------------
\* No conflict is committed that the user has not decided: every file both
\* sides changed to different contents carries a choice.
ConflictsDecided ==
  screen = "committed" => \A f \in Conflicts(base, ours, theirs) : choices[f] # "None"

\* Changes of one side to entries the user did not touch are all committed:
\* neither the keys pressed on other files nor the commit drop one.
OneSidedChangesSurvive ==
  screen = "committed" =>
    \A e \in Entry \ Conflicts(base, ours, theirs) :
      choices[e] = "None" => worktree[e] = IF ours[e] = base[e] THEN theirs[e] ELSE ours[e]
=============================================================================
