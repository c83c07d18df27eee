------------------------------- MODULE MCPS2 --------------------------------
(* One repetition instead of five, so that a keyboard can exhaust it. *)
EXTENDS PS2, MCKeyboard
=============================================================================
