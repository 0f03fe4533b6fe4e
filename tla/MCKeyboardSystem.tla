-------------------------- MODULE MCKeyboardSystem --------------------------
(***************************************************************************)
(* Three keys of enc_t (a letter with both cases, the space bar, which is  *)
(* in both columns, and enter) and a character no key types.               *)
(***************************************************************************)
EXTENDS KeyboardSystem

MCtab == <<30, 57, 28>>
MCtabmin == <<"a", " ", "CR">>
MCtabmai == <<"A", " ", "LF">>
MCNewline == "LF"
MCFewChars == {"a", "A"}
MCChars == {"a", "A", "LF", "~"}
MCKeycodes ==
  Range(MCtab) \cup {k + 128 : k \in Range(MCtab)} \cup {SHIFT_DOWN, SHIFT_UP}
MCCommands == {CONFIGURE}
MCConfigBytes == {INTERRUPTS_ON, INTERRUPTS_OFF}
=============================================================================
