---------------------------- MODULE MCVgaConsole ----------------------------
(***************************************************************************)
(* A page of two rows of two cells, seen whole or in part; a plain and a   *)
(* bright, blinking character, and a NUL with the blink attribute.         *)
(***************************************************************************)
EXTENDS VgaConsole

MCCellValues == {[char |-> "a", bright |-> FALSE, blink |-> FALSE],
                 [char |-> "b", bright |-> TRUE, blink |-> TRUE],
                 [char |-> NUL, bright |-> FALSE, blink |-> TRUE]}
MCWindows == {<<2, 2>>, <<1, 3>>}
=============================================================================
