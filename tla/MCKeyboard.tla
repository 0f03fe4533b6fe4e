----------------------------- MODULE MCKeyboard -----------------------------
(***************************************************************************)
(* A keyboard with a buffer of three slots, two distinguishable keycodes   *)
(* and every configuration the guests of this repository write (0x60,      *)
(* 0x61) plus the two that switch the keyboard off (0x70, 0x71).           *)
(***************************************************************************)
EXTENDS Keyboard

MCKeycodes == {30, 158}
MCCommands == {96, 32}
MCConfigBytes == {96, 97, 112, 113}
=============================================================================
