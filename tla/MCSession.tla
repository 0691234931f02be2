------------------------------ MODULE MCSession ------------------------------
(***************************************************************************)
(* Instances of Session for TLC: the goroutines of the bot are model values. *)
(* They are not declared symmetric: the runs check liveness.                 *)
(***************************************************************************)
EXTENDS Session

CONSTANTS h1, h2, main
=============================================================================
