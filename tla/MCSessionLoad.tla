----------------------------- MODULE MCSessionLoad -----------------------------
(***************************************************************************)
(* Instances of SessionLoad for TLC.                                       *)
(***************************************************************************)
EXTENDS SessionLoad, TLC

\* Text that merges, that an echo or a mode update overtakes or follows; a tool call
\* that completes in time or late; output that overtakes a call and text.
MCScripts == {<<"text", "text">>, <<"text", "echo">>, <<"text", "mode">>,
              <<"call", "done">>, <<"call", "hidden">>, <<"call", "text", "progress">>}

\* Clients that attach later are alike.
MCSymmetry == Permutations(Clients \ Attached)
================================================================================
