------------------------------ MODULE MCSettings ------------------------------
(* Small instances of Settings for TLC: the handlers are interchangeable, and so *)
(* are the chats.                                                                *)
EXTENDS Settings

CONSTANTS a, b, p, h1, h2, none

HandlerSymmetry == Permutations(Handlers) \cup Permutations(Chats)
=============================================================================
