------------------------------ MODULE MCGitSync ------------------------------
EXTENDS GitSync, TLC

CONSTANTS m1, m2  \* the machines

Machines == Permutations(Machine)

\* One user forces, or one machine stops at any step and files of it change
\* without a commit.
ForcedOrStopped ==
  { [forcing |-> {m1}, stopping |-> {}, untidy |-> {}],
    [forcing |-> {}, stopping |-> {m1}, untidy |-> {m1}] }

\* Nobody forces, and nothing stops.
Orderly == { [forcing |-> {}, stopping |-> {}, untidy |-> {}] }
=============================================================================
