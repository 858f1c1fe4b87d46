----------------------------- MODULE MCSession -----------------------------
(***************************************************************************)
(* Session for the model checker: repositories and keys are exchangeable.  *)
(***************************************************************************)
EXTENDS Session, TLC

Same == Permutations(Repo) \union Permutations(Key)
=============================================================================
