---------------------------- MODULE MCSimCoupling -----------------------------
(* TLC: two agents, steps of two lengths. *)
EXTENDS SimCoupling
==============================================================================
