------------------------------ MODULE MCTerminal ------------------------------
(* A screen of two lines with four cells. *)
EXTENDS Terminal

(* Which cells beyond the screen were written, no step and no property of  *)
(* this run asks.                                                          *)
MCView == <<position, screen, editVars>>
=============================================================================
