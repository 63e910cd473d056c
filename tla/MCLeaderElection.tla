---------------------------- MODULE MCLeaderElection ----------------------------
(***************************************************************************)
(* Instances of LeaderElection for TLC.                                    *)
(***************************************************************************)
EXTENDS LeaderElection, TLC

\* Clients are alike, and so are the leaders that are not running yet.
MCSymmetry == Permutations(Clients) \cup Permutations(Leaders \ Old)
================================================================================
