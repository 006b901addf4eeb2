--------------------------- MODULE MCGitHubBroker ---------------------------
(***************************************************************************)
(* Instances of GitHubBroker for TLC.                                      *)
(***************************************************************************)
EXTENDS GitHubBroker, TLC

Symmetry == Permutations(Caller)
=============================================================================
