---------------------------- MODULE SharedHistory ----------------------------
(***************************************************************************)
(* What the sync engine promises about history, without git: every machine *)
(* has a replica, a set of changes; one shared branch holds the changes    *)
(* that are published.  A replica grows by changes made on the machine and *)
(* by changes that were published.  The branch is replaced by a replica    *)
(* that contains all of it.  Only a machine whose user forces it may drop  *)
(* changes from the branch or from its own replica.                        *)
(***************************************************************************)
CONSTANTS Machine, Change

VARIABLES
  forcing,   \* machines whose user may drop changes; it never changes
  made,      \* changes made so far
  replica,   \* changes each machine has
  branch,    \* changes on the shared branch
  published  \* changes that have ever been on the shared branch

hvars == <<forcing, made, replica, branch, published>>

HInit ==
  /\ forcing \in SUBSET Machine
  /\ \E c \in Change :
       /\ made = {c}
       /\ replica = [m \in Machine |-> {c}]
       /\ branch = {c}
       /\ published = {c}

\* A machine makes at most one change and takes in some published ones.
Extend(m) ==
  \E new \in {{}} \union {{c} : c \in Change \ made} :
    /\ made' = made \union new
    /\ replica' = [replica EXCEPT ![m] = replica'[m]]
    /\ replica[m] \subseteq replica'[m]
    /\ replica'[m] \subseteq replica[m] \union new \union published
    /\ UNCHANGED <<branch, published>>

\* A replica that contains the whole branch becomes the branch.
Publish(m) ==
  /\ branch \subseteq replica[m]
  /\ branch' = replica[m]
  /\ published' = published \union replica[m]
  /\ UNCHANGED <<made, replica>>

\* The user overwrites the branch.
Overwrite(m) ==
  /\ m \in forcing
  /\ branch' = replica[m]
  /\ published' = published \union replica[m]
  /\ UNCHANGED <<made, replica>>

\* The user drops the local changes.
Reset(m) ==
  /\ m \in forcing
  /\ replica' = [replica EXCEPT ![m] = branch]
  /\ UNCHANGED <<made, branch, published>>

HNext ==
  /\ \E m \in Machine : Extend(m) \/ Publish(m) \/ Overwrite(m) \/ Reset(m)
  /\ UNCHANGED forcing

HSpec == HInit /\ [][HNext]_hvars
=============================================================================
