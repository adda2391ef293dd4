------------------------------ MODULE MCGitFacts ------------------------------
(* Two items' branches in a repo with a deploy branch, and a long-lived     *)
(* branch that is not tracked.                                              *)
EXTENDS GitFacts

MCMain == "main"
MCLongLived == {"main", "release"}
MCTrack == {"main"}

(* Branches are alike.                                                      *)
MCSymmetry == Permutations(Branch)
=============================================================================
