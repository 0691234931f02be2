----------------------------- MODULE MCMembership -----------------------------
(* Small instances of Membership for TLC: one chat is enough, as reconciles      *)
(* treat every chat on its own; not symmetric, as liveness is checked.           *)
EXTENDS Membership

CONSTANTS c1, status, w1
=============================================================================
