---------------------------- MODULE ConsoleInput ----------------------------
(***************************************************************************)
(* The console input thread (backend/ConsoleInput.cpp): it reads one       *)
(* character at a time from standard input, encodes it, and pushes up to   *)
(* three keycodes to the keyboard, each under the keyboard's own lock.     *)
(* Between two pushes the vCPU thread may read, reconfigure or switch off  *)
(* the keyboard.  Keyboard code sets are those of module Keyboard.         *)
(***************************************************************************)
EXTENDS Keyboard, SequencesExt

CONSTANTS Chars,                    \* the characters a user may type
          tab, tabmin, tabmai,      \* the columns of encode_table enc_t
          MaxChars                  \* bound: characters forwarded in a run

SHIFT_DOWN == 42                    \* 0x2a
SHIFT_UP == 170                     \* 0xaa

ASSUME TableAssumption ==
  /\ tab \in Seq(1..127)
  /\ Len(tabmin) = Len(tab)
  /\ Len(tabmai) = Len(tab)
\* enc_t lists every key once, and not the shift key.
ASSUME KeysAssumption ==
  /\ \A i, j \in 1..Len(tab) : tab[i] = tab[j] => i = j
  /\ \A i \in 1..Len(tab) : tab[i] # SHIFT_DOWN
ASSUME MaxCharsAssumption == MaxChars \in Nat

VARIABLES pc,                       \* where the thread is in its loop
          newchar, res,             \* its locals, kept from round to round
          newkeycode, new_shift,
          is_shifted,               \* the last shift state it sent
          typed,                    \* history: characters read, with a key
          sent,                     \* history: characters forwarded
          dropped                   \* history: some keycode was refused

threadVars == <<pc, newchar, res, newkeycode, new_shift, is_shifted, typed,
                sent, dropped>>

keyup(keycode) == keycode + 128     \* keycode | 0x80

(***************************************************************************)
(* The key of a character and the shift state it needs: the unshifted      *)
(* column first, then the shifted one; keycode 0, and the shift state left *)
(* as it is, when no key types it.                                         *)
(***************************************************************************)
ascii_to_keycode(c, shift) ==
  LET min == SelectInSeq(tabmin, LAMBDA x : x = c)
      mai == SelectInSeq(tabmai, LAMBDA x : x = c)
  IN  CASE min # 0              -> [keycode |-> tab[min], shift |-> FALSE]
        [] min = 0 /\ mai # 0   -> [keycode |-> tab[mai], shift |-> TRUE]
        [] min = 0 /\ mai = 0   -> [keycode |-> 0, shift |-> shift]

\* newchar and res are not initialised: newchar holds any character.
ConsoleInit ==
  /\ pc = "read"
  /\ newchar \in Chars
  /\ res = 0
  /\ newkeycode = 0
  /\ new_shift = FALSE
  /\ is_shifted = FALSE
  /\ typed = << >>
  /\ sent = << >>
  /\ dropped = FALSE

(***************************************************************************)
(* read(0, &newchar, 1), then the conversion of whatever newchar holds: at *)
(* end of file (res = 0) and on an error (res = -1) that is the previous   *)
(* character.                                                              *)
(***************************************************************************)
read_char(r, c) ==
  /\ pc = "read"
  /\ Len(sent) < MaxChars
  /\ r # 1 => c = newchar
  /\ res' = r
  /\ newchar' = c
  /\ LET code == ascii_to_keycode(c, is_shifted)
     IN  /\ newkeycode' = code.keycode
         /\ new_shift' = code.shift
         /\ typed' = IF r = 1 /\ code.keycode # 0 THEN Append(typed, c) ELSE typed
  /\ pc' = "shift"
  /\ UNCHANGED <<vars, is_shifted, sent, dropped>>

\* One push to the attached keyboard; nobody tells the thread of a drop.
push(keycode) ==
  /\ insert_keycode_event(keycode)
  /\ dropped' = (dropped \/ ~accepts)

loop == IF res >= 0 THEN "read" ELSE "ended"

\* mutant: the release of the shift key is not sent.
forward_shift_no_release ==
  /\ pc = "shift"
  /\ IF ~is_shifted /\ new_shift
       THEN push(SHIFT_DOWN)
       ELSE UNCHANGED <<vars, dropped>>
  /\ is_shifted' = new_shift
  /\ pc' = IF newkeycode # 0 THEN "down" ELSE loop
  /\ UNCHANGED <<newchar, res, newkeycode, new_shift, typed, sent>>

\* mutant: the new shift state is not remembered.
forward_shift_forgets ==
  /\ pc = "shift"
  /\ IF is_shifted # new_shift
       THEN push(IF new_shift THEN SHIFT_DOWN ELSE SHIFT_UP)
       ELSE UNCHANGED <<vars, dropped>>
  /\ pc' = IF newkeycode # 0 THEN "down" ELSE loop
  /\ UNCHANGED <<newchar, res, newkeycode, new_shift, is_shifted, typed, sent>>

forward_shift ==
  /\ pc = "shift"
  /\ IF is_shifted # new_shift
       THEN push(IF new_shift THEN SHIFT_DOWN ELSE SHIFT_UP)
       ELSE UNCHANGED <<vars, dropped>>
  /\ is_shifted' = new_shift
  /\ pc' = IF newkeycode # 0 THEN "down" ELSE loop
  /\ UNCHANGED <<newchar, res, newkeycode, new_shift, typed, sent>>

forward_down ==
  /\ pc = "down"
  /\ push(newkeycode)
  /\ sent' = Append(sent, newchar)
  /\ pc' = "up"
  /\ UNCHANGED <<newchar, res, newkeycode, new_shift, is_shifted, typed>>

forward_up ==
  /\ pc = "up"
  /\ push(keyup(newkeycode))
  /\ pc' = loop
  /\ UNCHANGED <<newchar, res, newkeycode, new_shift, is_shifted, typed, sent>>

_mainThread ==
  \/ \E c \in Chars : read_char(1, c)
  \/ read_char(0, newchar)
  \/ read_char(-1, newchar)
  \/ forward_shift
  \/ forward_down
  \/ forward_up
=============================================================================
