----------------------------- MODULE MCLeaderRouter -----------------------------
(***************************************************************************)
(* Instances of LeaderRouter for TLC.                                      *)
(***************************************************************************)
EXTENDS LeaderRouter, TLC

\* Clients that load are alike, and so are the others.
MCSymmetry == Permutations(Loaders) \cup Permutations(Clients \ Loaders)
================================================================================
