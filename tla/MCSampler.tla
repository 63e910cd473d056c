----------------------------- MODULE MCSampler -----------------------------
(* Two requests of one session, which may belong to one turn or to two. *)
EXTENDS Sampler
=============================================================================
