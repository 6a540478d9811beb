-------------------------- MODULE MCTransitionAtpg --------------------------
(* TransitionAtpg for TLC. *)
EXTENDS TransitionAtpg
=============================================================================
