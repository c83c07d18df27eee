----------------------------- MODULE MCKeyboard -----------------------------
(* Both shift keys, Caps Lock, and a key whose code behind the extension   *)
(* prefix is that of the left shift, as Print Screen sends it.             *)
EXTENDS Keyboard

CONSTANTS left, right, caps

PlainKey(code) == [extended |-> FALSE, code |-> code]

MCKeys == {PlainKey(left), PlainKey(right), PlainKey(caps),
           [extended |-> TRUE, code |-> left]}
=============================================================================
