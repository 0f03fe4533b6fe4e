--------------------------- MODULE KeyboardSystem ---------------------------
(***************************************************************************)
(* Typing, end to end: the console input thread, the keyboard, and a guest *)
(* that reads lines with the interrupt driver of                           *)
(* target-sources/int-tastiera/mod_tas.cpp.  Every port access of the      *)
(* driver is a separate exit to the monitor, so the input thread can run   *)
(* between any two of them.                                                *)
(***************************************************************************)
EXTENDS ConsoleInput

CONSTANTS LineLength,               \* nn of leggi_linea; 80 in tas_int.cpp
          NEWLINE                   \* the character that ends a line

NoChar == "none"
INTERRUPTS_ON == 97                 \* 0x61
INTERRUPTS_OFF == 96                \* 0x60

ASSUME LineLengthAssumption == LineLength \in Nat \ {0}
\* NoChar is no character, and the keyboard's parameters include what the
\* thread pushes and what the driver writes.
ASSUME NoCharAssumption ==
  \A i \in 1..Len(tab) : tabmin[i] # NoChar /\ tabmai[i] # NoChar
ASSUME SystemAssumption ==
  /\ {SHIFT_DOWN, SHIFT_UP} \subseteq Keycodes
  /\ \A i \in 1..Len(tab) : {tab[i], keyup(tab[i])} \subseteq Keycodes
  /\ CONFIGURE \in Commands
  /\ {INTERRUPTS_ON, INTERRUPTS_OFF} \subseteq ConfigBytes

VARIABLES gpc,                      \* where the guest is
          shift,                    \* the driver's idea of the shift key
          cont,                     \* characters still missing in the line
          text,                     \* history: characters the driver stored
          received                  \* history: keycodes taken from the buffer

guestVars == <<gpc, shift, cont, text, received>>
systemVars == <<vars, threadVars, guestVars>>

(***************************************************************************)
(* conv of the guest's library (external): the character of a key press    *)
(* under the current shift state, from the table the encoder inverts; no   *)
(* character for releases and for the shift key.                           *)
(***************************************************************************)
conv(code, shifted) ==
  LET pos == SelectInSeq(tab, LAMBDA x : x = code)
  IN  IF pos = 0 THEN NoChar
      ELSE IF shifted THEN tabmai[pos] ELSE tabmin[pos]

SystemInit ==
  /\ Init
  /\ ConsoleInit
  /\ gpc = "app"
  /\ shift = FALSE
  /\ cont = 0
  /\ text = << >>
  /\ received = 0

-----------------------------------------------------------------------------
\* An outputb of the guest to CMR or TBR, moving it from one point to the next.
outputb_CMR(from, to) ==
  /\ gpc = from
  /\ write_CMR(CONFIGURE)
  /\ gpc' = to
  /\ UNCHANGED <<threadVars, shift, text, received>>

outputb_TBR(from, to, val) ==
  /\ gpc = from
  /\ write_TBR(val)
  /\ gpc' = to
  /\ UNCHANGED <<threadVars, shift, cont, text, received>>

\* c_leggi_linea: set up the line, enable interrupts, wait on the semaphore.
leggi_linea == outputb_CMR("app", "enable") /\ cont' = LineLength
leggi_linea_wait == outputb_TBR("enable", "wait", INTERRUPTS_ON)

\* c_driv_tasint, entered when the vCPU takes the interrupt.
driver_enter ==
  /\ gpc = "wait"
  /\ take_interrupt
  /\ gpc' = "driver"
  /\ UNCHANGED <<threadVars, shift, cont, text, received>>
driver_select == outputb_CMR("driver", "disable") /\ UNCHANGED cont
\* mutant: the driver leaves keyboard interrupts on.
driver_disable_skipped == outputb_TBR("disable", "fetch", INTERRUPTS_ON)
driver_disable == outputb_TBR("disable", "fetch", INTERRUPTS_OFF)

\* mutant: only a newline ends the line.
line_ends_at_newline(a, left) == a = NEWLINE

line_ends(a, left) == a = NEWLINE \/ left = 0

(***************************************************************************)
(* get_code_int and the rest of the driver: follow the shift key, convert, *)
(* and either store the character or not.  The last character of the line  *)
(* wakes leggi_linea and leaves keyboard interrupts off.                   *)
(***************************************************************************)
driver_fetch ==
  /\ gpc = "fetch"
  /\ read_RBR
  /\ received' = IF buffer_element_count # 0 THEN received + 1 ELSE received
  /\ shift' = CASE RBR' = SHIFT_DOWN -> TRUE
                [] RBR' = SHIFT_UP   -> FALSE
                [] OTHER             -> shift
  /\ LET a == conv(RBR', shift')
     IN  IF a = NoChar
           THEN gpc' = "rearm" /\ UNCHANGED <<cont, text>>
           ELSE /\ cont' = cont - 1
                /\ text' = Append(text, a)
                /\ gpc' = IF line_ends(a, cont') THEN "app" ELSE "rearm"
  /\ UNCHANGED threadVars

driver_rearm == outputb_CMR("rearm", "rearm_enable") /\ UNCHANGED cont
driver_exit == outputb_TBR("rearm_enable", "wait", INTERRUPTS_ON)

Guest ==
  \/ leggi_linea
  \/ leggi_linea_wait
  \/ driver_enter
  \/ driver_select
  \/ driver_disable
  \/ driver_fetch
  \/ driver_rearm
  \/ driver_exit

InputThread == _mainThread /\ UNCHANGED guestVars

SystemNext == Guest \/ InputThread

SystemSpec == SystemInit /\ [][SystemNext]_systemVars

(***************************************************************************)
(* Fairness: KVM keeps running the vCPU, so the guest executes its next    *)
(* instruction (and, in this guest, asks for the next line).  Nothing is   *)
(* assumed of the input thread: it may sit in read(2) for ever.            *)
(***************************************************************************)
FairSystemSpec == SystemSpec /\ WF_systemVars(Guest)

-----------------------------------------------------------------------------
(***************************************************************************)
(* Types of the thread's and the guest's state (the keyboard's are in      *)
(* Keyboard!TypeOK).                                                       *)
(***************************************************************************)
SystemTypeOK ==
  /\ TypeOK
  /\ pc \in {"read", "shift", "down", "up", "ended"}
  /\ newchar \in Chars
  /\ res \in {-1, 0, 1}
  /\ newkeycode \in 0..127
  /\ {new_shift, is_shifted, dropped, shift} \subseteq BOOLEAN
  /\ gpc \in {"app", "enable", "wait", "driver", "disable", "fetch",
              "rearm", "rearm_enable"}
  /\ cont \in 0..LineLength
  /\ received \in Nat

(***************************************************************************)
(* No missed wakeup: a guest that waits for the keyboard while keycodes    *)
(* are buffered has its interrupt pending, whatever the input thread did   *)
(* between the driver's port accesses (update_FI, process_cmd).            *)
(***************************************************************************)
NoMissedWakeup ==
  gpc = "wait" /\ buffer_element_count # 0 => irq.pending

(***************************************************************************)
(* No stray interrupt: the driver stores through punt and decrements cont  *)
(* without checking that a line is being read, so the vector must never be *)
(* pending outside leggi_linea, and the driver must never run with nothing *)
(* to read or with the line already full.                                  *)
(***************************************************************************)
NoStrayInterrupt ==
  /\ irq.pending => gpc = "wait"
  /\ gpc \in {"driver", "disable", "fetch"} =>
       buffer_element_count # 0 /\ cont # 0

(***************************************************************************)
(* What the guest decodes is what the thread forwarded, in order and in    *)
(* the right case, until a keycode is dropped: the make, break and shift   *)
(* codes of a character may be pushed while the guest is anywhere in its   *)
(* driver.                                                                 *)
(***************************************************************************)
TextFaithful == ~dropped => IsPrefix(text, sent)

(***************************************************************************)
(* The two ends only disagree on the shift key when a keycode was dropped  *)
(* or is still on its way.                                                 *)
(***************************************************************************)
ShiftAgreed ==
  ~dropped /\ buffer_element_count = 0 => shift = is_shifted

(***************************************************************************)
(* Every keycode the keyboard accepted is eventually read by the guest.    *)
(***************************************************************************)
MaxKeycodes == 3 * MaxChars
EventuallyRead ==
  \A n \in 1..MaxKeycodes :
    received + buffer_element_count >= n ~> received >= n

(***************************************************************************)
(* "res should be > 0" (the comment on the loop of _mainThread): what the  *)
(* guest decodes was typed.                                                *)
(***************************************************************************)
OnlyTypedText == ~dropped => IsPrefix(text, typed)
=============================================================================
