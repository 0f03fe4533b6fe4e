------------------------ MODULE KeyboardSystemProofs ------------------------
(***************************************************************************)
(* Proofs about typing end to end, for every buffer size, line length and  *)
(* encoding table: the keyboard inside the system is the one of module     *)
(* Keyboard, the driver misses no keycode and is never called in vain, and *)
(* what it decodes is what the input thread forwarded.                     *)
(***************************************************************************)
EXTENDS KeyboardSystem, KeyboardProofs, WellFoundedInduction

-----------------------------------------------------------------------------
(***************************************************************************)
(* The first place of a sequence with a given element, as both the encoder *)
(* and the decoder look it up; 0 when there is none.                       *)
(***************************************************************************)
LEMMA Position ==
  ASSUME NEW s, Len(s) \in Nat, NEW c, NEW p,
         p = SelectInSeq(s, LAMBDA x : x = c)
  PROVE  /\ p # 0 => p \in 1..Len(s) /\ s[p] = c
         /\ p = 0 => \A i \in 1..Len(s) : s[i] # c
<1> DEFINE I == {i \in 1..Len(s) : s[i] = c}
           R == {ss \in Nat \X Nat : ss[1] < ss[2]}
<1>1. p = IF I # {} THEN Min(I) ELSE 0
  BY DEF SelectInSeq
<1>2. ASSUME I # {} PROVE Min(I) \in I
  <2>1. I \in SUBSET Nat
    OBVIOUS
  <2>2. IsWellFoundedOn(R, Nat)
    BY NatLessThanWellFounded, Zenon DEF OpToRel
  <2>3. PICK x \in I : \A y \in I : ~ (<<y, x>> \in R)
    <3> HIDE DEF R, I
    <3> QED BY <1>2, <2>1, <2>2, WFMin
  <2>4. \A y \in I : x =< y
    <3> SUFFICES ASSUME NEW y \in I, y < x PROVE FALSE
      BY <2>1
    <3>1. <<y, x>> \in R
      BY <2>1
    <3>2. QED
      BY <2>3, <3>1, Zenon
  <2>5. QED
    <3> HIDE DEF I
    <3> QED BY <2>4 DEF Min
<1>3. QED
  <2>1. CASE I # {}
    BY <1>1, <1>2, <2>1
  <2>2. CASE I = {}
    BY <1>1, <2>2
  <2>3. QED
    BY <2>1, <2>2

\* The keys of the table and the characters they type.
Keys == {tab[i] : i \in 1..Len(tab)}
Letters == {tabmin[i] : i \in 1..Len(tab)} \cup {tabmai[i] : i \in 1..Len(tab)}

(***************************************************************************)
(* What conv makes of a key of the table, and of anything else.            *)
(***************************************************************************)
LEMMA ConvKey ==
  ASSUME NEW i \in 1..Len(tab), NEW s
  PROVE  conv(tab[i], s) = IF s THEN tabmai[i] ELSE tabmin[i]
<1> DEFINE p == SelectInSeq(tab, LAMBDA x : x = tab[i])
<1>1. Len(tab) \in Nat
  BY TableAssumption
<1>2. /\ p # 0 => p \in 1..Len(tab) /\ tab[p] = tab[i]
      /\ p = 0 => \A j \in 1..Len(tab) : tab[j] # tab[i]
  BY <1>1, Position
<1>3. p = i /\ p # 0
  <2> HIDE DEF p
  <2> QED BY <1>1, <1>2, KeysAssumption
<1>4. conv(tab[i], s) = IF p = 0 THEN NoChar ELSE IF s THEN tabmai[p] ELSE tabmin[p]
  BY DEF conv
<1>5. QED
  <2> HIDE DEF p
  <2> QED BY <1>3, <1>4

LEMMA ConvOther ==
  ASSUME NEW k, k \notin Keys, NEW s
  PROVE  conv(k, s) = NoChar
<1> DEFINE p == SelectInSeq(tab, LAMBDA x : x = k)
<1>1. Len(tab) \in Nat
  BY TableAssumption
<1>2. p # 0 => p \in 1..Len(tab) /\ tab[p] = k
  BY <1>1, Position
<1>3. p = 0
  <2> HIDE DEF p
  <2> QED BY <1>2 DEF Keys
<1>4. QED
  BY <1>3 DEF conv

(***************************************************************************)
(* conv yields a character for the keys, and only for them.                *)
(***************************************************************************)
LEMMA ConvType ==
  ASSUME NEW k, NEW s \in BOOLEAN
  PROVE  /\ k \in Keys => conv(k, s) \in Letters /\ conv(k, s) # NoChar
         /\ k \notin Keys => conv(k, s) = NoChar
<1>1. ASSUME k \in Keys PROVE conv(k, s) \in Letters /\ conv(k, s) # NoChar
  <2>1. PICK i \in 1..Len(tab) : k = tab[i]
    BY <1>1 DEF Keys
  <2>2. conv(k, s) = IF s THEN tabmai[i] ELSE tabmin[i]
    BY <2>1, ConvKey
  <2>3. QED
    BY <2>2, NoCharAssumption DEF Letters
<1>2. QED
  BY <1>1, ConvOther

(***************************************************************************)
(* The encoder and the decoder are inverse: conv, under the shift state    *)
(* that ascii_to_keycode asks for, turns its keycode into the character    *)
(* again.                                                                  *)
(***************************************************************************)
LEMMA EncodeDecode ==
  ASSUME NEW c, NEW s \in BOOLEAN, NEW code, code = ascii_to_keycode(c, s)
  PROVE  /\ code.shift \in BOOLEAN
         /\ code.keycode \in 0..127
         /\ code.keycode # 0 =>
              code.keycode \in Keys /\ conv(code.keycode, code.shift) = c
<1> DEFINE min == SelectInSeq(tabmin, LAMBDA x : x = c)
           mai == SelectInSeq(tabmai, LAMBDA x : x = c)
<1>1. /\ Len(tab) \in Nat /\ Len(tabmin) = Len(tab) /\ Len(tabmai) = Len(tab)
      /\ Len(tabmin) \in Nat /\ Len(tabmai) \in Nat
  BY TableAssumption
<1>2. \A i \in 1..Len(tab) : tab[i] \in 0..127
  BY TableAssumption
<1>3. min # 0 => min \in 1..Len(tabmin) /\ tabmin[min] = c
  BY <1>1, Position
<1>4. mai # 0 => mai \in 1..Len(tabmai) /\ tabmai[mai] = c
  BY <1>1, Position
<1>5. code = CASE min # 0            -> [keycode |-> tab[min], shift |-> FALSE]
               [] min = 0 /\ mai # 0 -> [keycode |-> tab[mai], shift |-> TRUE]
               [] min = 0 /\ mai = 0 -> [keycode |-> 0, shift |-> s]
  BY DEF ascii_to_keycode
<1> HIDE DEF min, mai
<1>6. CASE min # 0
  <2>1. code.keycode = tab[min] /\ code.shift = FALSE
    BY <1>5, <1>6
  <2>2. conv(tab[min], FALSE) = c
    BY <1>1, <1>3, <1>6, ConvKey
  <2>3. tab[min] \in 0..127 /\ tab[min] \in Keys
    BY <1>1, <1>3, <1>6, <1>2 DEF Keys
  <2>4. QED
    BY <2>1, <2>2, <2>3
<1>7. CASE min = 0 /\ mai # 0
  <2>1. code.keycode = tab[mai] /\ code.shift = TRUE
    BY <1>5, <1>7
  <2>2. conv(tab[mai], TRUE) = c
    BY <1>1, <1>4, <1>7, ConvKey
  <2>3. tab[mai] \in 0..127 /\ tab[mai] \in Keys
    BY <1>1, <1>4, <1>7, <1>2 DEF Keys
  <2>4. QED
    BY <2>1, <2>2, <2>3
<1>8. CASE min = 0 /\ mai = 0
  <2>1. code.keycode = 0 /\ code.shift = s
    BY <1>5, <1>8
  <2>2. QED
    BY <2>1
<1>9. QED
  BY <1>6, <1>7, <1>8

-----------------------------------------------------------------------------
(***************************************************************************)
(* The inductive invariant of the control.  What the thread is about to    *)
(* push is a key of the table that decodes to the character it read.       *)
(***************************************************************************)
ThreadInv ==
  /\ newkeycode # 0 => newkeycode \in Keys /\ conv(newkeycode, new_shift) = newchar
  /\ pc \in {"down", "up"} => newkeycode # 0 /\ is_shifted = new_shift
  /\ sent \in Seq(Chars)
  /\ text \in Seq(Letters)

(***************************************************************************)
(* Where the driver is says what the keyboard's switches and its line are: *)
(* interrupts are on from the enabling write to the disabling one, the     *)
(* line is down between a read and the next enabling write, and the vector *)
(* is only ever pending with the line up.                                  *)
(***************************************************************************)
DriverInv ==
  /\ interrupt_enabled <=> gpc \in {"wait", "driver", "disable"}
  /\ gpc \in {"enable", "disable", "rearm_enable"} => CMR = CONFIGURE
  /\ gpc \in {"app", "enable", "rearm", "rearm_enable"} => irq.line = 0
  /\ irq.pending => irq.line = 1
  /\ gpc # "app" => cont # 0
  /\ NoMissedWakeup
  /\ NoStrayInterrupt

ControlInv ==
  /\ KeyboardInv
  /\ SystemTypeOK
  /\ ThreadInv
  /\ DriverInv

(***************************************************************************)
(* The keycodes the thread pushes are keycodes of the keyboard.            *)
(***************************************************************************)
LEMMA PushedCodes ==
  ASSUME NEW k \in Keys
  PROVE  k \in Keycodes /\ keyup(k) \in Keycodes
<1>1. PICK i \in 1..Len(tab) : k = tab[i]
  BY DEF Keys
<1>2. QED
  BY <1>1, SystemAssumption

(***************************************************************************)
(* What an accepted and what a refused push do to the keyboard.            *)
(***************************************************************************)
LEMMA PushEffect ==
  ASSUME KeyboardInv, NEW k, insert_keycode_event(k)
  PROVE  /\ UNCHANGED <<CMR, enabled, interrupt_enabled>>
         /\ ~accepts => UNCHANGED vars
         /\ accepts =>
              /\ buffer_element_count' # 0
              /\ irq' = IF interrupt_enabled THEN set_IRQline(irq, 1) ELSE irq
<1>1. CASE ~accepts
  BY <1>1 DEF insert_keycode_event, vars
<1>2. CASE accepts
  <2>1. /\ buffer_element_count' = buffer_element_count + 1
        /\ UNCHANGED <<CMR, enabled, interrupt_enabled>>
        /\ update_FI(TRUE)
    BY <1>2 DEF insert_keycode_event
  <2>2. buffer_element_count' # 0
    BY <2>1, BufferSizeAssumption DEF KeyboardInv, TypeOK
  <2>3. irq' = IF interrupt_enabled THEN set_IRQline(irq, 1) ELSE irq
    BY <2>1, <2>2 DEF update_FI
  <2>4. QED
    BY <1>2, <2>1, <2>2, <2>3
<1>3. QED
  BY <1>1, <1>2

(***************************************************************************)
(* Every step of the system is a step of the keyboard or leaves it alone.  *)
(***************************************************************************)
LEMMA SystemStep == ControlInv /\ [SystemNext]_systemVars => [Next]_vars
<1> SUFFICES ASSUME ControlInv, [SystemNext]_systemVars PROVE [Next]_vars
  OBVIOUS
<1>1. ASSUME NEW from, NEW to, outputb_CMR(from, to) PROVE [Next]_vars
  BY <1>1, SystemAssumption DEF outputb_CMR, Next
<1>2. ASSUME NEW from, NEW to, NEW val \in {INTERRUPTS_ON, INTERRUPTS_OFF},
             outputb_TBR(from, to, val)
      PROVE  [Next]_vars
  BY <1>2, SystemAssumption DEF outputb_TBR, Next
<1>3. CASE driver_enter
  BY <1>3 DEF driver_enter, Next
<1>4. CASE driver_fetch
  BY <1>4 DEF driver_fetch, Next
<1>5. CASE Guest
  BY <1>1, <1>2, <1>3, <1>4, <1>5
     DEF Guest, leggi_linea, leggi_linea_wait, driver_select, driver_disable,
         driver_rearm, driver_exit
<1>6. ASSUME NEW r, NEW c, read_char(r, c) PROVE [Next]_vars
  BY <1>6 DEF read_char
<1>7. CASE forward_shift
  BY <1>7, SystemAssumption DEF forward_shift, push, Next
<1>8. CASE forward_down
  <2>1. newkeycode \in Keycodes
    BY <1>8, PushedCodes DEF forward_down, ControlInv, ThreadInv
  <2>2. QED
    BY <1>8, <2>1 DEF forward_down, push, Next
<1>9. CASE forward_up
  <2>1. keyup(newkeycode) \in Keycodes
    BY <1>9, PushedCodes DEF forward_up, ControlInv, ThreadInv
  <2>2. QED
    BY <1>9, <2>1 DEF forward_up, push, Next
<1>10. CASE InputThread
  BY <1>6, <1>7, <1>8, <1>9, <1>10 DEF InputThread, _mainThread
<1>11. CASE UNCHANGED systemVars
  BY <1>11 DEF systemVars
<1>12. QED
  BY <1>5, <1>10, <1>11 DEF SystemNext

(***************************************************************************)
(* So the keyboard's own invariant, proved in KeyboardProofs, is kept.     *)
(***************************************************************************)
LEMMA KeyboardKept == ControlInv /\ [SystemNext]_systemVars => KeyboardInv'
  BY SystemStep, InvNext DEF ControlInv

-----------------------------------------------------------------------------
(***************************************************************************)
(* Whatever the driver is doing, a push by the input thread leaves it in   *)
(* order: a keycode that arrives while the guest waits makes the vector    *)
(* pending, one that arrives later makes none.                             *)
(***************************************************************************)
LEMMA PushKeepsDriver ==
  ASSUME ControlInv, NEW k, insert_keycode_event(k) \/ UNCHANGED vars,
         UNCHANGED guestVars
  PROVE  DriverInv'
<1>1. /\ KeyboardInv /\ DriverInv /\ InterruptJustified
      /\ irq \in IrqStates /\ interrupt_enabled \in BOOLEAN
  BY DEF ControlInv, KeyboardInv, TypeOK
<1>2. UNCHANGED <<gpc, cont>>
  BY DEF guestVars
<1>3. CASE UNCHANGED vars
  BY <1>1, <1>2, <1>3 DEF vars, DriverInv, NoMissedWakeup, NoStrayInterrupt
<1>4. CASE insert_keycode_event(k) /\ accepts
  <2>1. /\ UNCHANGED <<CMR, interrupt_enabled>>
        /\ buffer_element_count' # 0
        /\ irq' = IF interrupt_enabled THEN set_IRQline(irq, 1) ELSE irq
    BY <1>1, <1>4, PushEffect
  <2>2. CASE interrupt_enabled
    <3>1. irq'.line = 1 /\ irq'.pending = (irq.pending \/ irq.line = 0)
      BY <2>1, <2>2 DEF set_IRQline
    <3>2. gpc \in {"wait", "driver", "disable"}
      BY <1>1, <2>2 DEF DriverInv
    <3>3. gpc = "wait" => irq'.pending
      BY <1>1, <3>1 DEF DriverInv, NoMissedWakeup, InterruptJustified, IrqStates
    <3>4. gpc # "wait" => ~irq'.pending
      <4>1. gpc # "wait" => ~irq.pending /\ buffer_element_count # 0
        BY <1>1, <3>2 DEF DriverInv, NoStrayInterrupt
      <4>2. gpc # "wait" => ~irq.pending /\ ~(irq.line = 0)
        BY <1>1, <2>2, <4>1 DEF InterruptJustified
      <4>3. QED
        BY <3>1, <4>2, Zenon
    <3>5. QED
      BY <1>1, <1>2, <2>1, <3>1, <3>2, <3>3, <3>4
         DEF DriverInv, NoMissedWakeup, NoStrayInterrupt
  <2>3. CASE ~interrupt_enabled
    BY <1>1, <1>2, <2>1, <2>3 DEF DriverInv, NoMissedWakeup, NoStrayInterrupt
  <2>4. QED
    BY <2>2, <2>3
<1>5. CASE insert_keycode_event(k) /\ ~accepts
  BY <1>1, <1>3, <1>5, PushEffect
<1>6. QED
  BY <1>3, <1>4, <1>5

(***************************************************************************)
(* The steps of the input thread keep the invariant.                       *)
(***************************************************************************)
LEMMA ReadCharKeeps ==
  ASSUME ControlInv, NEW r \in {-1, 0, 1}, NEW c \in Chars, read_char(r, c),
         UNCHANGED guestVars
  PROVE  SystemTypeOK' /\ ThreadInv' /\ DriverInv'
<1> DEFINE code == ascii_to_keycode(c, is_shifted)
<1>1. /\ newkeycode' = code.keycode /\ new_shift' = code.shift
      /\ newchar' = c /\ res' = r /\ pc' = "shift"
      /\ UNCHANGED <<vars, is_shifted, sent, dropped>>
  BY DEF read_char
<1>2. is_shifted \in BOOLEAN
  BY DEF ControlInv, SystemTypeOK
<1>3. /\ code.shift \in BOOLEAN
      /\ code.keycode \in 0..127
      /\ code.keycode # 0 => code.keycode \in Keys /\ conv(code.keycode, code.shift) = c
  BY <1>2, EncodeDecode
<1> HIDE DEF code
<1>4. DriverInv'
  BY <1>1, PushKeepsDriver
<1>5. TypeOK'
  BY <1>1 DEF ControlInv, SystemTypeOK, TypeOK, vars
<1>6. SystemTypeOK'
  BY <1>1, <1>2, <1>3, <1>5 DEF ControlInv, SystemTypeOK, guestVars
<1>7. ThreadInv'
  BY <1>1, <1>3 DEF ControlInv, ThreadInv, guestVars
<1>8. QED
  BY <1>4, <1>6, <1>7

LEMMA ForwardKeeps ==
  ASSUME ControlInv, KeyboardInv', forward_shift \/ forward_down \/ forward_up,
         UNCHANGED guestVars
  PROVE  SystemTypeOK' /\ ThreadInv' /\ DriverInv'
<1>1. /\ UNCHANGED <<newchar, res, newkeycode, new_shift>>
      /\ is_shifted' \in {is_shifted, new_shift}
      /\ pc' \in {"down", "up", "read", "ended"}
      /\ pc' = "down" => newkeycode # 0 /\ is_shifted' = new_shift
      /\ pc' = "up" => pc = "down" /\ is_shifted' = is_shifted
      /\ sent' \in {sent, Append(sent, newchar)}
  BY DEF forward_shift, forward_down, forward_up, loop
<1>2. \E k : insert_keycode_event(k) \/ UNCHANGED vars
  BY DEF forward_shift, forward_down, forward_up, push
<1>3. dropped' \in BOOLEAN
  BY DEF ControlInv, SystemTypeOK, forward_shift, forward_down, forward_up, push
<1>4. DriverInv'
  BY <1>2, PushKeepsDriver
<1>5. SystemTypeOK'
  BY <1>1, <1>3 DEF ControlInv, SystemTypeOK, guestVars, KeyboardInv
<1>6. ThreadInv'
  <2>1. sent' \in Seq(Chars)
    BY <1>1 DEF ControlInv, SystemTypeOK, ThreadInv
  <2>2. QED
    BY <1>1, <2>1 DEF ControlInv, ThreadInv, guestVars
<1>7. QED
  BY <1>4, <1>5, <1>6

-----------------------------------------------------------------------------
(***************************************************************************)
(* What the guest's accesses do: a configuration byte sets the interrupt   *)
(* switch, and raises the line for what is queued; a read takes the line   *)
(* down when interrupts are off.                                           *)
(***************************************************************************)
LEMMA ConfigureEffect ==
  ASSUME KeyboardInv, CMR = CONFIGURE,
         NEW val \in {INTERRUPTS_ON, INTERRUPTS_OFF}, write_TBR(val)
  PROVE  /\ interrupt_enabled' = (val = INTERRUPTS_ON)
         /\ UNCHANGED <<CMR, ring>>
         /\ irq' = IF val = INTERRUPTS_ON /\ buffer_element_count # 0 /\ ~interrupt_raised
                     THEN set_IRQline(irq, 1) ELSE irq
<1>1. InterruptBit(val) = (val = INTERRUPTS_ON)
  BY DEF InterruptBit, INTERRUPTS_ON, INTERRUPTS_OFF
<1>2. QED
  BY <1>1 DEF write_TBR, process_cmd

LEMMA ReadEffect ==
  ASSUME KeyboardInv, read_RBR, ~interrupt_enabled
  PROVE  irq' = set_IRQline(irq, 0)
  BY DEF read_RBR, update_FI

(***************************************************************************)
(* The driver's writes to CMR.                                             *)
(***************************************************************************)
LEMMA SelectKeeps ==
  ASSUME ControlInv, KeyboardInv', leggi_linea \/ driver_select \/ driver_rearm
  PROVE  SystemTypeOK' /\ ThreadInv' /\ DriverInv'
<1>1. /\ \/ gpc = "app" /\ gpc' = "enable" /\ cont' = LineLength
         \/ gpc = "driver" /\ gpc' = "disable" /\ cont' = cont
         \/ gpc = "rearm" /\ gpc' = "rearm_enable" /\ cont' = cont
      /\ CMR' = CONFIGURE
      /\ UNCHANGED <<irq, interrupt_enabled, buffer_element_count>>
      /\ UNCHANGED <<threadVars, shift, text, received>>
  BY DEF leggi_linea, driver_select, driver_rearm, outputb_CMR, write_CMR, ring
<1>2. LineLength \in Nat \ {0}
  BY LineLengthAssumption
<1>3. SystemTypeOK'
  BY <1>1, <1>2 DEF ControlInv, SystemTypeOK, threadVars, KeyboardInv
<1>4. ThreadInv'
  BY <1>1 DEF ControlInv, ThreadInv, threadVars
<1>5. DriverInv'
  BY <1>1, <1>2 DEF ControlInv, DriverInv, NoMissedWakeup, NoStrayInterrupt
<1>6. QED
  BY <1>3, <1>4, <1>5

(***************************************************************************)
(* The driver's writes of the configuration byte.  Enabling interrupts     *)
(* with keycodes queued finds the line down, so the kick makes an edge.    *)
(***************************************************************************)
LEMMA EnableKeeps ==
  ASSUME ControlInv, KeyboardInv', leggi_linea_wait \/ driver_exit
  PROVE  SystemTypeOK' /\ ThreadInv' /\ DriverInv'
<1>1. /\ gpc \in {"enable", "rearm_enable"} /\ gpc' = "wait"
      /\ write_TBR(INTERRUPTS_ON)
      /\ UNCHANGED <<threadVars, shift, cont, text, received>>
  BY DEF leggi_linea_wait, driver_exit, outputb_TBR
<1>2. /\ KeyboardInv /\ CMR = CONFIGURE /\ irq.line = 0 /\ cont # 0
      /\ ~irq.pending /\ ~interrupt_raised
  BY <1>1 DEF ControlInv, DriverInv, NoStrayInterrupt, KeyboardInv, LineTracked
<1>3. /\ interrupt_enabled' = TRUE
      /\ buffer_element_count' = buffer_element_count
      /\ irq' = IF buffer_element_count # 0 THEN set_IRQline(irq, 1) ELSE irq
  BY <1>1, <1>2, ConfigureEffect DEF ring
<1>4. /\ buffer_element_count # 0 => irq'.line = 1 /\ irq'.pending
      /\ buffer_element_count = 0 => ~irq'.pending
  BY <1>2, <1>3 DEF set_IRQline
<1>5. SystemTypeOK'
  BY <1>1 DEF ControlInv, SystemTypeOK, threadVars, KeyboardInv
<1>6. ThreadInv'
  BY <1>1 DEF ControlInv, ThreadInv, threadVars
<1>7. DriverInv'
  BY <1>1, <1>2, <1>3, <1>4 DEF DriverInv, NoMissedWakeup, NoStrayInterrupt
<1>8. QED
  BY <1>5, <1>6, <1>7

LEMMA DisableKeeps ==
  ASSUME ControlInv, KeyboardInv', driver_disable
  PROVE  SystemTypeOK' /\ ThreadInv' /\ DriverInv'
<1>1. /\ gpc = "disable" /\ gpc' = "fetch"
      /\ write_TBR(INTERRUPTS_OFF)
      /\ UNCHANGED <<threadVars, shift, cont, text, received>>
  BY DEF driver_disable, outputb_TBR
<1>2. KeyboardInv /\ CMR = CONFIGURE
  BY <1>1 DEF ControlInv, DriverInv
<1>3. ~interrupt_enabled' /\ buffer_element_count' = buffer_element_count /\ irq' = irq
  <2>1. INTERRUPTS_OFF # INTERRUPTS_ON
    BY DEF INTERRUPTS_ON, INTERRUPTS_OFF
  <2>2. QED
    BY <1>1, <1>2, <2>1, ConfigureEffect DEF ring
<1>4. SystemTypeOK'
  BY <1>1 DEF ControlInv, SystemTypeOK, threadVars, KeyboardInv
<1>5. ThreadInv'
  BY <1>1 DEF ControlInv, ThreadInv, threadVars
<1>6. DriverInv'
  BY <1>1, <1>3 DEF ControlInv, DriverInv, NoMissedWakeup, NoStrayInterrupt
<1>7. QED
  BY <1>4, <1>5, <1>6

(***************************************************************************)
(* The vCPU enters the driver: the line is up, so there is a keycode.      *)
(***************************************************************************)
LEMMA EnterKeeps ==
  ASSUME ControlInv, KeyboardInv', driver_enter
  PROVE  SystemTypeOK' /\ ThreadInv' /\ DriverInv'
<1>1. /\ gpc = "wait" /\ gpc' = "driver" /\ irq.pending /\ irq' = taken(irq)
      /\ UNCHANGED <<interrupt_enabled, buffer_element_count, CMR>>
      /\ UNCHANGED <<threadVars, shift, cont, text, received>>
  BY DEF driver_enter, take_interrupt, ring
<1>2. irq.line = 1 /\ buffer_element_count # 0 /\ cont # 0 /\ interrupt_enabled
  BY <1>1 DEF ControlInv, DriverInv, KeyboardInv, InterruptJustified
<1>3. irq'.line = 1 /\ ~irq'.pending
  BY <1>1, <1>2 DEF taken, ControlInv, KeyboardInv, TypeOK, IrqStates
<1>4. SystemTypeOK'
  BY <1>1 DEF ControlInv, SystemTypeOK, threadVars, KeyboardInv
<1>5. ThreadInv'
  BY <1>1 DEF ControlInv, ThreadInv, threadVars
<1>6. DriverInv'
  BY <1>1, <1>2, <1>3 DEF DriverInv, NoMissedWakeup, NoStrayInterrupt
<1>7. QED
  BY <1>4, <1>5, <1>6

(***************************************************************************)
(* The driver reads a keycode; the line it was reading may be complete.    *)
(***************************************************************************)
LEMMA FetchKeeps ==
  ASSUME ControlInv, KeyboardInv', driver_fetch
  PROVE  SystemTypeOK' /\ ThreadInv' /\ DriverInv'
<1> DEFINE a == conv(RBR', shift')
<1>1. /\ gpc = "fetch" /\ read_RBR
      /\ received' \in {received, received + 1}
      /\ shift' \in {TRUE, FALSE, shift}
      /\ \/ gpc' = "rearm" /\ UNCHANGED <<cont, text>>
         \/ /\ a # NoChar /\ cont' = cont - 1 /\ text' = Append(text, a)
            /\ gpc' \in {"app", "rearm"}
            /\ gpc' = "rearm" => cont' # 0
      /\ UNCHANGED threadVars
  BY DEF driver_fetch, line_ends
<1>2. ~interrupt_enabled /\ cont # 0 /\ ~irq.pending /\ KeyboardInv
  BY <1>1 DEF ControlInv, DriverInv, NoStrayInterrupt
<1>3. /\ ~interrupt_enabled'
      /\ irq'.line = 0 /\ ~irq'.pending
  <2>1. irq' = set_IRQline(irq, 0)
    BY <1>1, <1>2, ReadEffect
  <2>2. irq'.line = 0 /\ irq'.pending = (irq.pending \/ (0 = 1 /\ irq.line = 0))
    BY <2>1 DEF set_IRQline
  <2>3. ~(0 = 1)
    OBVIOUS
  <2>4. ~irq'.pending
    BY <1>2, <2>2, <2>3, Zenon
  <2>5. QED
    BY <1>1, <1>2, <2>2, <2>4 DEF read_RBR
<1>4. cont \in 1..LineLength /\ shift' \in BOOLEAN
  <2>1. cont \in 0..LineLength /\ shift \in BOOLEAN
    BY DEF ControlInv, SystemTypeOK
  <2>2. shift' \in BOOLEAN
    BY <1>1, <2>1
  <2>3. QED
    BY <1>2, <2>1, <2>2, LineLengthAssumption
<1>5. SystemTypeOK'
  BY <1>1, <1>4, LineLengthAssumption
     DEF ControlInv, SystemTypeOK, threadVars, KeyboardInv
<1>6. text' \in Seq(Letters)
  <2>1. a # NoChar => a \in Letters
    BY <1>4, ConvType
  <2>2. QED
    <3> HIDE DEF a
    <3> QED BY <1>1, <2>1 DEF ControlInv, ThreadInv
<1>7. ThreadInv'
  BY <1>1, <1>6 DEF ControlInv, ThreadInv, threadVars
<1>8. DriverInv'
  BY <1>1, <1>2, <1>3 DEF DriverInv, NoMissedWakeup, NoStrayInterrupt
<1>9. QED
  BY <1>5, <1>7, <1>8

-----------------------------------------------------------------------------
(***************************************************************************)
(* The control invariant holds when the system starts, and is inductive.   *)
(***************************************************************************)
LEMMA ControlInit == SystemInit => ControlInv
<1> SUFFICES ASSUME SystemInit PROVE ControlInv
  OBVIOUS
<1>1. KeyboardInv
  BY InvInit DEF SystemInit
<1>2. SystemTypeOK
  <2>1. 0 \in 0..LineLength /\ 0 \in 0..127 /\ 0 \in Nat
    BY LineLengthAssumption
  <2>2. QED
    BY <1>1, <2>1 DEF SystemInit, ConsoleInit, SystemTypeOK, KeyboardInv
<1>3. ThreadInv
  BY DEF SystemInit, ConsoleInit, ThreadInv
<1>4. DriverInv
  BY DEF SystemInit, Init, idle_line, DriverInv, NoMissedWakeup, NoStrayInterrupt
<1>5. QED
  BY <1>1, <1>2, <1>3, <1>4 DEF ControlInv

LEMMA ControlNext == ControlInv /\ [SystemNext]_systemVars => ControlInv'
<1> SUFFICES ASSUME ControlInv, [SystemNext]_systemVars PROVE ControlInv'
  OBVIOUS
<1>1. KeyboardInv'
  BY KeyboardKept
<1>2. SUFFICES SystemTypeOK' /\ ThreadInv' /\ DriverInv'
  BY <1>1 DEF ControlInv
<1>3. CASE Guest
  BY <1>1, <1>3, SelectKeeps, EnableKeeps, DisableKeeps, EnterKeeps, FetchKeeps
     DEF Guest
<1>4. ASSUME NEW r \in {-1, 0, 1}, NEW c \in Chars, read_char(r, c), UNCHANGED guestVars
      PROVE  SystemTypeOK' /\ ThreadInv' /\ DriverInv'
  BY <1>4, ReadCharKeeps
<1>5. CASE InputThread
  <2>1. newchar \in Chars
    BY DEF ControlInv, SystemTypeOK
  <2>2. CASE forward_shift \/ forward_down \/ forward_up
    BY <1>1, <1>5, <2>2, ForwardKeeps DEF InputThread
  <2>3. CASE \/ \E c \in Chars : read_char(1, c)
             \/ read_char(0, newchar)
             \/ read_char(-1, newchar)
    BY <1>4, <1>5, <2>1, <2>3 DEF InputThread
  <2>4. QED
    BY <1>5, <2>2, <2>3 DEF InputThread, _mainThread
<1>6. CASE UNCHANGED systemVars
  <2>1. UNCHANGED vars /\ UNCHANGED threadVars /\ UNCHANGED guestVars
    BY <1>6 DEF systemVars
  <2>2. DriverInv'
    BY <2>1, PushKeepsDriver
  <2>3. SystemTypeOK'
    BY <1>1, <2>1 DEF ControlInv, SystemTypeOK, KeyboardInv, threadVars, guestVars
  <2>4. ThreadInv'
    BY <2>1 DEF ControlInv, ThreadInv, threadVars, guestVars
  <2>5. QED
    BY <2>2, <2>3, <2>4
<1>7. QED
  BY <1>3, <1>5, <1>6 DEF SystemNext

(***************************************************************************)
(* The control invariant of the composed system.                           *)
(***************************************************************************)
THEOREM ControlInvariant == SystemSpec => []ControlInv
  BY ControlInit, ControlNext, PTL DEF SystemSpec

(***************************************************************************)
(* The keyboard inside the system behaves as module Keyboard says, so that *)
(* everything proved about that module holds of it: the thread pushes only *)
(* keycodes and the driver writes only bytes the module allows for.        *)
(***************************************************************************)
THEOREM KeyboardInside == SystemSpec => Spec
<1>1. SystemInit => Init
  BY DEF SystemInit
<1>2. ControlInv /\ [SystemNext]_systemVars => [Next]_vars
  BY SystemStep
<1>3. QED
  BY <1>1, <1>2, ControlInvariant, PTL DEF SystemSpec, Spec

(***************************************************************************)
(* Types of the thread's and the guest's state.                            *)
(***************************************************************************)
THEOREM SystemTypeCorrect == SystemSpec => []SystemTypeOK
<1>1. ControlInv => SystemTypeOK
  BY DEF ControlInv
<1>2. QED
  BY <1>1, ControlInvariant, PTL

(***************************************************************************)
(* A guest that waits while keycodes are buffered has its interrupt        *)
(* pending, for every interleaving of the thread with the driver.          *)
(***************************************************************************)
THEOREM WakeupNotMissed == SystemSpec => []NoMissedWakeup
<1>1. ControlInv => NoMissedWakeup
  BY DEF ControlInv, DriverInv
<1>2. QED
  BY <1>1, ControlInvariant, PTL

(***************************************************************************)
(* The driver never runs with nothing to read or with a full line.         *)
(***************************************************************************)
THEOREM InterruptNotStray == SystemSpec => []NoStrayInterrupt
<1>1. ControlInv => NoStrayInterrupt
  BY DEF ControlInv, DriverInv
<1>2. QED
  BY <1>1, ControlInvariant, PTL

-----------------------------------------------------------------------------
(***************************************************************************)
(* The keycodes on their way.  A driver that starts with the shift state   *)
(* s0 and n0 characters stored, and reads the queue q to its end, ends     *)
(* with the shift state s1 and the n1 characters of out.  sh[i] and ln[i]  *)
(* are its shift state and its number of characters after i keycodes.      *)
(***************************************************************************)
Follow(k, s) ==
  CASE k = SHIFT_DOWN -> TRUE
    [] k = SHIFT_UP   -> FALSE
    [] OTHER          -> s

DecodeStep(k, s, n, s2, n2, out) ==
  /\ s2 = Follow(k, s)
  /\ IF conv(k, s2) = NoChar THEN n2 = n
                             ELSE n2 = n + 1 /\ out[n2] = conv(k, s2)

InFlight(q, s0, n0, s1, n1, out) ==
  \E sh \in [0..Len(q) -> BOOLEAN], ln \in [0..Len(q) -> 0..Len(out)] :
    /\ sh[0] = s0 /\ ln[0] = n0
    /\ sh[Len(q)] = s1 /\ ln[Len(q)] = n1
    /\ \A i \in 1..Len(q) : DecodeStep(q[i], sh[i - 1], ln[i - 1], sh[i], ln[i], out)

(***************************************************************************)
(* Nothing on its way: the two ends agree.                                 *)
(***************************************************************************)
LEMMA FlightOver ==
  ASSUME NEW q, Len(q) = 0, NEW s0, NEW n0, NEW s1, NEW n1, NEW out,
         InFlight(q, s0, n0, s1, n1, out)
  PROVE  s0 = s1 /\ n0 = n1
  BY DEF InFlight

(***************************************************************************)
(* A push adds one step at the far end; a key adds a character there.      *)
(***************************************************************************)
LEMMA FlightGrows ==
  ASSUME NEW q \in Seq(Byte), NEW k \in Byte, NEW out, NEW more,
         Len(out) \in Nat, Len(more) \in Nat, Len(out) <= Len(more),
         \A j \in 1..Len(out) : more[j] = out[j],
         NEW s0, NEW n0, NEW s1, NEW n1, NEW s2 \in BOOLEAN, NEW n2 \in 0..Len(more),
         InFlight(q, s0, n0, s1, n1, out),
         DecodeStep(k, s1, n1, s2, n2, more)
  PROVE  InFlight(Append(q, k), s0, n0, s2, n2, more)
<1> DEFINE m == Len(q)
<1>1. PICK sh \in [0..m -> BOOLEAN], ln \in [0..m -> 0..Len(out)] :
        /\ sh[0] = s0 /\ ln[0] = n0
        /\ sh[m] = s1 /\ ln[m] = n1
        /\ \A i \in 1..m : DecodeStep(q[i], sh[i - 1], ln[i - 1], sh[i], ln[i], out)
  BY DEF InFlight
<1>2. /\ m \in Nat /\ Len(Append(q, k)) = m + 1
      /\ \A i \in 1..m : Append(q, k)[i] = q[i]
      /\ Append(q, k)[m + 1] = k
  OBVIOUS
<1>3. /\ Len(out) \in Nat /\ Len(more) \in Nat /\ Len(out) <= Len(more)
      /\ \A j \in 1..Len(out) : more[j] = out[j]
  OBVIOUS
<1> DEFINE sh2 == [i \in 0..(m + 1) |-> IF i = m + 1 THEN s2 ELSE sh[i]]
           ln2 == [i \in 0..(m + 1) |-> IF i = m + 1 THEN n2 ELSE ln[i]]
<1> HIDE DEF m
<1>4. /\ sh2 \in [0..(m + 1) -> BOOLEAN]
      /\ ln2 \in [0..(m + 1) -> 0..Len(more)]
  BY <1>1, <1>2, <1>3
<1>5. /\ sh2[0] = s0 /\ ln2[0] = n0
      /\ sh2[m + 1] = s2 /\ ln2[m + 1] = n2
  BY <1>1, <1>2
<1>6. ASSUME NEW i \in 1..(m + 1)
      PROVE  DecodeStep(Append(q, k)[i], sh2[i - 1], ln2[i - 1], sh2[i], ln2[i], more)
  <2>1. CASE i = m + 1
    <3>1. /\ sh2[i] = s2 /\ ln2[i] = n2 /\ Append(q, k)[i] = k
          /\ sh2[i - 1] = s1 /\ ln2[i - 1] = n1
      BY <1>1, <1>2, <2>1
    <3>2. QED
      BY <3>1
  <2>2. CASE i \in 1..m
    <3>1. /\ sh2[i] = sh[i] /\ ln2[i] = ln[i] /\ Append(q, k)[i] = q[i]
          /\ sh2[i - 1] = sh[i - 1] /\ ln2[i - 1] = ln[i - 1]
      BY <1>2, <2>2
    <3>2. DecodeStep(q[i], sh[i - 1], ln[i - 1], sh[i], ln[i], out)
      BY <1>1, <2>2
    <3>3. ln[i] \in 0..Len(out) /\ ln[i - 1] \in 0..Len(out)
      BY <1>1, <1>2, <2>2
    <3>4. DecodeStep(q[i], sh[i - 1], ln[i - 1], sh[i], ln[i], more)
      <4>1. conv(q[i], sh[i]) # NoChar => ln[i] \in 1..Len(out)
        BY <1>3, <3>2, <3>3 DEF DecodeStep
      <4>2. QED
        BY <1>3, <3>2, <4>1 DEF DecodeStep
    <3>5. QED
      BY <3>1, <3>4
  <2>3. QED
    BY <1>2, <2>1, <2>2
<1>7. QED
  <2> HIDE DEF sh2, ln2
  <2> QED BY <1>2, <1>4, <1>5, <1>6 DEF InFlight

(***************************************************************************)
(* A read takes the first step at the near end.                            *)
(***************************************************************************)
LEMMA FlightLands ==
  ASSUME NEW q \in Seq(Byte), q # << >>, NEW out, Len(out) \in Nat,
         NEW s0, NEW n0, NEW s1, NEW n1, InFlight(q, s0, n0, s1, n1, out)
  PROVE  \E s2 \in BOOLEAN, n2 \in 0..Len(out) :
           /\ DecodeStep(Head(q), s0, n0, s2, n2, out)
           /\ InFlight(Tail(q), s2, n2, s1, n1, out)
<1> DEFINE m == Len(q)
<1>1. PICK sh \in [0..m -> BOOLEAN], ln \in [0..m -> 0..Len(out)] :
        /\ sh[0] = s0 /\ ln[0] = n0
        /\ sh[m] = s1 /\ ln[m] = n1
        /\ \A i \in 1..m : DecodeStep(q[i], sh[i - 1], ln[i - 1], sh[i], ln[i], out)
  BY DEF InFlight
<1>2. /\ m \in Nat \ {0} /\ Head(q) = q[1]
      /\ Len(Tail(q)) = m - 1
      /\ \A i \in 1..(m - 1) : Tail(q)[i] = q[i + 1]
  OBVIOUS
<1> DEFINE sh2 == [i \in 0..(m - 1) |-> sh[i + 1]]
           ln2 == [i \in 0..(m - 1) |-> ln[i + 1]]
<1> HIDE DEF m
<1>3. sh[1] \in BOOLEAN /\ ln[1] \in 0..Len(out)
  BY <1>1, <1>2
<1>4. DecodeStep(Head(q), s0, n0, sh[1], ln[1], out)
  <2>1. 1 \in 1..m /\ 1 - 1 = 0
    BY <1>2
  <2>2. DecodeStep(q[1], sh[1 - 1], ln[1 - 1], sh[1], ln[1], out)
    BY <1>1, <2>1
  <2>3. QED
    BY <1>1, <1>2, <2>1, <2>2
<1>5. /\ sh2 \in [0..(m - 1) -> BOOLEAN]
      /\ ln2 \in [0..(m - 1) -> 0..Len(out)]
  BY <1>1, <1>2
<1>6. /\ sh2[0] = sh[1] /\ ln2[0] = ln[1]
      /\ sh2[m - 1] = s1 /\ ln2[m - 1] = n1
  BY <1>1, <1>2
<1>7. ASSUME NEW i \in 1..(m - 1)
      PROVE  DecodeStep(Tail(q)[i], sh2[i - 1], ln2[i - 1], sh2[i], ln2[i], out)
  <2>1. /\ i + 1 \in 1..m /\ (i + 1) - 1 = i
        /\ sh2[i] = sh[i + 1] /\ ln2[i] = ln[i + 1]
        /\ sh2[i - 1] = sh[i] /\ ln2[i - 1] = ln[i]
        /\ Tail(q)[i] = q[i + 1]
    BY <1>2
  <2>2. DecodeStep(q[i + 1], sh[(i + 1) - 1], ln[(i + 1) - 1], sh[i + 1], ln[i + 1], out)
    BY <1>1, <2>1
  <2>3. QED
    BY <2>1, <2>2
<1>8. InFlight(Tail(q), sh[1], ln[1], s1, n1, out)
  <2> HIDE DEF sh2, ln2
  <2> QED BY <1>2, <1>5, <1>6, <1>7 DEF InFlight
<1>9. QED
  BY <1>3, <1>4, <1>8

(***************************************************************************)
(* The keyboard's queue under a push and under a read.                     *)
(***************************************************************************)
LEMMA QueueGrows ==
  ASSUME KeyboardInv, NEW k \in Byte, insert_keycode_event(k), accepts
  PROVE  contents' = Append(contents, k) /\ contents \in Seq(Byte)
<1>1. /\ internal_buffer \in [Slots -> Byte]
      /\ buffer_tail_pointer \in Slots /\ buffer_head_pointer \in Slots
      /\ buffer_element_count \in 0..INTERNAL_BUFFER_SIZE
      /\ buffer_head_pointer =
           (buffer_tail_pointer + buffer_element_count) % INTERNAL_BUFFER_SIZE
  BY DEF KeyboardInv, TypeOK, RingConsistent, slot
<1>2. buffer_element_count \in 0..(INTERNAL_BUFFER_SIZE - 1)
  BY <1>1, BufferSizeAssumption DEF accepts
<1>3. /\ internal_buffer' = [internal_buffer EXCEPT ![buffer_head_pointer] = k]
      /\ buffer_tail_pointer' = buffer_tail_pointer
      /\ buffer_element_count' = buffer_element_count + 1
  BY DEF insert_keycode_event
<1>4. contents' = ring_queue([internal_buffer EXCEPT ![buffer_head_pointer] = k],
                            buffer_tail_pointer, buffer_element_count + 1)
  BY <1>3 DEF contents
<1>5. contents' = Append(contents, k)
  BY <1>1, <1>2, <1>4, StoreAppends DEF contents
<1>6. QED
  BY <1>1, <1>5, RingQueue DEF contents

LEMMA QueueShrinks ==
  ASSUME KeyboardInv, read_RBR, buffer_element_count # 0
  PROVE  /\ contents \in Seq(Byte) /\ contents # << >>
         /\ RBR' = Head(contents)
         /\ contents' = Tail(contents)
<1>1. /\ internal_buffer \in [Slots -> Byte]
      /\ buffer_tail_pointer \in Slots
      /\ buffer_element_count \in 0..INTERNAL_BUFFER_SIZE
      /\ buffer_element_count \in 1..INTERNAL_BUFFER_SIZE
  BY BufferSizeAssumption DEF KeyboardInv, TypeOK
<1>2. /\ RBR' = internal_buffer[buffer_tail_pointer]
      /\ internal_buffer' = internal_buffer
      /\ buffer_tail_pointer' = advance(buffer_tail_pointer)
      /\ buffer_element_count' = buffer_element_count - 1
  BY DEF read_RBR, next_RBR
<1>3. contents' = ring_queue(internal_buffer, advance(buffer_tail_pointer),
                            buffer_element_count - 1)
  BY <1>2 DEF contents
<1>4. QED
  BY <1>1, <1>2, <1>3, AdvanceTakesTail, RingQueue DEF contents

(***************************************************************************)
(* The keycodes the thread pushes besides keys decode to no character.     *)
(***************************************************************************)
LEMMA SilentCodes ==
  /\ SHIFT_DOWN \notin Keys /\ SHIFT_UP \notin Keys
  /\ \A k \in Keys : /\ k \in 1..127 /\ k # SHIFT_DOWN /\ k # SHIFT_UP
                     /\ keyup(k) \in Byte /\ keyup(k) \notin Keys
                     /\ keyup(k) # SHIFT_DOWN /\ keyup(k) # SHIFT_UP
<1>1. \A k \in Keys : k \in 1..127
  <2>1. \A i \in 1..Len(tab) : tab[i] \in 1..127
    BY TableAssumption
  <2>2. QED
    BY <2>1 DEF Keys
<1>2. \A k \in Keys : k # SHIFT_DOWN
  BY KeysAssumption DEF Keys
<1>3. QED
  BY <1>1, <1>2 DEF SHIFT_DOWN, SHIFT_UP, keyup, Byte

-----------------------------------------------------------------------------
(***************************************************************************)
(* The invariant of the data: until a keycode is dropped, what is stored   *)
(* and what is on its way decode, in order, to what the thread forwarded,  *)
(* and end in the thread's shift state.                                    *)
(***************************************************************************)
FaithfulInv ==
  ~dropped =>
    /\ InFlight(contents, shift, Len(text), is_shifted, Len(sent), sent)
    /\ \A j \in 1..Len(text) : text[j] = sent[j]

(***************************************************************************)
(* Steps that touch neither the queue nor the two ends.                    *)
(***************************************************************************)
LEMMA OtherKeepsFaith ==
  ASSUME FaithfulInv, UNCHANGED ring,
         UNCHANGED <<shift, text, is_shifted, sent, dropped>>
  PROVE  FaithfulInv'
<1>1. contents' = contents
  BY DEF contents, ring
<1>2. QED
  BY <1>1 DEF FaithfulInv

(***************************************************************************)
(* A push by the thread, of the code k, that changes its shift state to s  *)
(* or forwards the character newchar.                                      *)
(***************************************************************************)
LEMMA PushKeepsFaith ==
  ASSUME ControlInv, FaithfulInv, NEW k \in Byte, push(k), UNCHANGED <<shift, text>>,
         sent' \in {sent, Append(sent, newchar)},
         is_shifted' \in BOOLEAN,
         DecodeStep(k, is_shifted, Len(sent), is_shifted', Len(sent'), sent')
  PROVE  FaithfulInv'
<1> SUFFICES ASSUME ~dropped'
             PROVE  /\ InFlight(contents', shift, Len(text), is_shifted', Len(sent'), sent')
                    /\ \A j \in 1..Len(text) : text[j] = sent'[j]
  BY DEF FaithfulInv
<1>1. KeyboardInv /\ newchar \in Chars /\ sent \in Seq(Chars) /\ text \in Seq(Letters)
  BY DEF ControlInv, SystemTypeOK, ThreadInv
<1>2. ~dropped /\ accepts /\ insert_keycode_event(k)
  BY DEF push
<1>3. contents' = Append(contents, k) /\ contents \in Seq(Byte)
  BY <1>1, <1>2, QueueGrows
<1>4. /\ InFlight(contents, shift, Len(text), is_shifted, Len(sent), sent)
      /\ \A j \in 1..Len(text) : text[j] = sent[j]
  BY <1>2 DEF FaithfulInv
<1>5. /\ Len(sent') \in 0..Len(sent') /\ Len(sent') \in Nat
      /\ Len(sent) \in Nat /\ Len(sent) <= Len(sent')
      /\ \A j \in 1..Len(sent) : sent'[j] = sent[j]
  <2>1. CASE sent' = sent
    BY <1>1, <2>1
  <2>2. CASE sent' = Append(sent, newchar)
    BY <1>1, <2>2
  <2>3. QED
    BY <2>1, <2>2
<1>6. InFlight(contents', shift, Len(text), is_shifted', Len(sent'), sent')
  <2>1. InFlight(Append(contents, k), shift, Len(text), is_shifted', Len(sent'), sent')
    BY <1>3, <1>4, <1>5, FlightGrows
  <2>2. QED
    BY <1>3, <2>1
<1>7. Len(text) \in 0..Len(sent)
  <2>1. 0 \in 0..Len(contents)
    BY <1>3
  <2>2. QED
    BY <1>4, <2>1 DEF InFlight
<1>8. \A j \in 1..Len(text) : text[j] = sent'[j]
  BY <1>4, <1>5, <1>7
<1>9. QED
  BY <1>6, <1>8

(***************************************************************************)
(* The three pushes of the thread's loop.                                  *)
(***************************************************************************)
LEMMA ForwardKeepsFaith ==
  ASSUME ControlInv, FaithfulInv, forward_shift \/ forward_down \/ forward_up,
         UNCHANGED guestVars
  PROVE  FaithfulInv'
<1>1. /\ is_shifted \in BOOLEAN /\ new_shift \in BOOLEAN /\ newchar \in Chars
      /\ sent \in Seq(Chars) /\ Len(sent) \in Nat
  BY DEF ControlInv, SystemTypeOK, ThreadInv
<1>2. UNCHANGED <<shift, text>>
  BY DEF guestVars
<1>3. CASE forward_shift /\ is_shifted = new_shift
  BY <1>2, <1>3, OtherKeepsFaith DEF forward_shift, vars, ring
<1>4. CASE forward_shift /\ is_shifted # new_shift
  <2> DEFINE k == IF new_shift THEN SHIFT_DOWN ELSE SHIFT_UP
  <2>1. push(k) /\ is_shifted' = new_shift /\ sent' = sent
    BY <1>4 DEF forward_shift
  <2>2. k \in Byte /\ k \notin Keys /\ Follow(k, is_shifted) = new_shift
    <3>1. SHIFT_DOWN \in Byte /\ SHIFT_UP \in Byte /\ SHIFT_DOWN # SHIFT_UP
      BY DEF SHIFT_DOWN, SHIFT_UP, Byte
    <3>2. CASE new_shift = TRUE
      BY <3>1, <3>2, SilentCodes DEF Follow
    <3>3. CASE new_shift = FALSE
      BY <3>1, <3>3, SilentCodes DEF Follow
    <3>4. QED
      BY <1>1, <3>2, <3>3
  <2> HIDE DEF k
  <2>3. conv(k, new_shift) = NoChar
    BY <2>2, ConvOther
  <2>4. DecodeStep(k, is_shifted, Len(sent), is_shifted', Len(sent'), sent')
    BY <2>1, <2>2, <2>3 DEF DecodeStep
  <2>5. QED
    BY <1>1, <1>2, <2>1, <2>2, <2>4, PushKeepsFaith
<1>5. CASE forward_down
  <2>1. push(newkeycode) /\ is_shifted' = is_shifted /\ sent' = Append(sent, newchar)
    BY <1>5 DEF forward_down
  <2>2. newkeycode \in Keys /\ conv(newkeycode, is_shifted) = newchar
    BY <1>5 DEF forward_down, ControlInv, ThreadInv
  <2>3. newkeycode \in Byte /\ Follow(newkeycode, is_shifted) = is_shifted
    <3>1. newkeycode \in 1..127 /\ newkeycode # SHIFT_DOWN /\ newkeycode # SHIFT_UP
      BY <2>2, SilentCodes
    <3>2. newkeycode \in Byte
      BY <3>1 DEF Byte
    <3>3. QED
      BY <3>1, <3>2 DEF Follow
  <2>4. newchar # NoChar
    BY <1>1, <2>2, ConvType
  <2>5. Len(sent') = Len(sent) + 1 /\ sent'[Len(sent')] = newchar
    BY <1>1, <2>1
  <2>6. DecodeStep(newkeycode, is_shifted, Len(sent), is_shifted', Len(sent'), sent')
    BY <2>1, <2>2, <2>3, <2>4, <2>5 DEF DecodeStep
  <2>7. QED
    BY <1>1, <1>2, <2>1, <2>3, <2>6, PushKeepsFaith
<1>6. CASE forward_up
  <2> DEFINE k == keyup(newkeycode)
  <2>1. push(k) /\ is_shifted' = is_shifted /\ sent' = sent
    BY <1>6 DEF forward_up
  <2>2. newkeycode \in Keys
    BY <1>6 DEF forward_up, ControlInv, ThreadInv
  <2>3. k \in Byte /\ k \notin Keys /\ Follow(k, is_shifted) = is_shifted
    BY <2>2, SilentCodes DEF Follow
  <2> HIDE DEF k
  <2>4. conv(k, is_shifted) = NoChar
    BY <2>3, ConvOther
  <2>5. DecodeStep(k, is_shifted, Len(sent), is_shifted', Len(sent'), sent')
    BY <2>1, <2>3, <2>4 DEF DecodeStep
  <2>6. QED
    BY <1>1, <1>2, <2>1, <2>3, <2>5, PushKeepsFaith
<1>7. QED
  BY <1>3, <1>4, <1>5, <1>6

(***************************************************************************)
(* The driver's read takes one code off the queue and decodes it.          *)
(***************************************************************************)
LEMMA FetchKeepsFaith ==
  ASSUME ControlInv, FaithfulInv, driver_fetch
  PROVE  FaithfulInv'
<1> SUFFICES ASSUME ~dropped'
             PROVE  /\ InFlight(contents', shift', Len(text'), is_shifted', Len(sent'), sent')
                    /\ \A j \in 1..Len(text') : text'[j] = sent'[j]
  BY DEF FaithfulInv
<1>1. /\ read_RBR /\ gpc = "fetch"
      /\ shift' = Follow(RBR', shift)
      /\ IF conv(RBR', shift') = NoChar THEN text' = text
                                         ELSE text' = Append(text, conv(RBR', shift'))
      /\ UNCHANGED <<dropped, is_shifted, sent>>
  BY DEF driver_fetch, Follow, threadVars
<1>2. /\ KeyboardInv /\ buffer_element_count # 0
      /\ sent \in Seq(Chars) /\ Len(sent) \in Nat /\ text \in Seq(Letters)
      /\ shift \in BOOLEAN
  BY <1>1 DEF ControlInv, SystemTypeOK, ThreadInv, DriverInv, NoStrayInterrupt
<1>3. /\ contents \in Seq(Byte) /\ contents # << >>
      /\ RBR' = Head(contents)
      /\ contents' = Tail(contents)
  BY <1>1, <1>2, QueueShrinks
<1>4. /\ InFlight(contents, shift, Len(text), is_shifted, Len(sent), sent)
      /\ \A j \in 1..Len(text) : text[j] = sent[j]
  BY <1>1 DEF FaithfulInv
<1>5. PICK s2 \in BOOLEAN, n2 \in 0..Len(sent) :
        /\ DecodeStep(RBR', shift, Len(text), s2, n2, sent)
        /\ InFlight(contents', s2, n2, is_shifted, Len(sent), sent)
  BY <1>2, <1>3, <1>4, FlightLands
<1>6. s2 = shift'
  BY <1>1, <1>5 DEF DecodeStep
<1>7. n2 = Len(text') /\ \A j \in 1..Len(text') : text'[j] = sent[j]
  <2>1. CASE conv(RBR', shift') = NoChar
    BY <1>1, <1>4, <1>5, <1>6, <2>1 DEF DecodeStep
  <2>2. CASE conv(RBR', shift') # NoChar
    <3>1. n2 = Len(text) + 1 /\ sent[n2] = conv(RBR', shift')
      BY <1>5, <1>6, <2>2 DEF DecodeStep
    <3>2. conv(RBR', shift') \in Letters
      BY <1>5, <1>6, <2>2, ConvType
    <3>3. /\ Len(text) \in Nat /\ Len(text') = Len(text) + 1
          /\ \A j \in 1..Len(text) : text'[j] = text[j]
          /\ text'[Len(text) + 1] = conv(RBR', shift')
      BY <1>1, <1>2, <2>2, <3>2
    <3>4. QED
      BY <1>4, <3>1, <3>3
  <2>3. QED
    BY <2>1, <2>2
<1>8. QED
  BY <1>1, <1>5, <1>6, <1>7

-----------------------------------------------------------------------------
(***************************************************************************)
(* The data invariant of the composed system.                              *)
(***************************************************************************)
THEOREM FaithfulInvariant == SystemSpec => []FaithfulInv
<1>1. SystemInit => FaithfulInv
  <2> SUFFICES ASSUME SystemInit PROVE FaithfulInv
    OBVIOUS
  <2>1. contents = << >> /\ text = << >> /\ sent = << >>
        /\ shift = FALSE /\ is_shifted = FALSE
    BY DEF SystemInit, ConsoleInit, Init, contents, ring_queue
  <2>2. InFlight(<< >>, FALSE, 0, FALSE, 0, << >>)
    <3> DEFINE sh == [i \in 0..0 |-> FALSE]
               ln == [i \in 0..0 |-> 0]
    <3>1. sh \in [0..0 -> BOOLEAN] /\ ln \in [0..0 -> 0..0] /\ sh[0] = FALSE /\ ln[0] = 0
      OBVIOUS
    <3> HIDE DEF sh, ln
    <3>2. QED
      BY <3>1 DEF InFlight
  <2>3. QED
    BY <2>1, <2>2 DEF FaithfulInv
<1>2. ControlInv /\ FaithfulInv /\ [SystemNext]_systemVars => FaithfulInv'
  <2> SUFFICES ASSUME ControlInv, FaithfulInv, [SystemNext]_systemVars
               PROVE  FaithfulInv'
    OBVIOUS
  <2>1. ASSUME UNCHANGED ring, UNCHANGED <<shift, text, is_shifted, sent, dropped>>
        PROVE  FaithfulInv'
    BY <2>1, OtherKeepsFaith
  <2>2. CASE Guest /\ ~driver_fetch
    BY <2>1, <2>2
       DEF Guest, leggi_linea, leggi_linea_wait, driver_enter, driver_select,
           driver_disable, driver_rearm, driver_exit, outputb_CMR, outputb_TBR,
           write_CMR, write_TBR, take_interrupt, threadVars
  <2>3. ASSUME NEW r, NEW c, read_char(r, c), UNCHANGED guestVars PROVE FaithfulInv'
    BY <2>1, <2>3 DEF read_char, vars, ring, guestVars
  <2>4. CASE InputThread
    BY <2>3, <2>4, ForwardKeepsFaith DEF InputThread, _mainThread
  <2>5. CASE UNCHANGED systemVars
    BY <2>1, <2>5 DEF systemVars, vars, ring, threadVars, guestVars
  <2>6. QED
    BY <2>2, <2>4, <2>5, FetchKeepsFaith DEF SystemNext
<1>3. QED
  BY <1>1, <1>2, ControlInvariant, PTL DEF SystemSpec

(***************************************************************************)
(* What the guest decodes is a prefix of what the thread forwarded, until  *)
(* a keycode is dropped.                                                   *)
(***************************************************************************)
THEOREM TextCorrect == SystemSpec => []TextFaithful
<1>1. ControlInv /\ FaithfulInv => TextFaithful
  <2> SUFFICES ASSUME ControlInv, FaithfulInv, ~dropped PROVE IsPrefix(text, sent)
    BY DEF TextFaithful
  <2>1. /\ sent \in Seq(Chars) /\ text \in Seq(Letters)
        /\ contents \in Seq(Byte)
    BY RingQueue DEF ControlInv, ThreadInv, KeyboardInv, TypeOK, contents
  <2>2. /\ InFlight(contents, shift, Len(text), is_shifted, Len(sent), sent)
        /\ \A j \in 1..Len(text) : text[j] = sent[j]
    BY DEF FaithfulInv
  <2>3. Len(text) \in 0..Len(sent)
    <3>1. 0 \in 0..Len(contents)
      BY <2>1
    <3>2. QED
      BY <2>2, <3>1 DEF InFlight
  <2>4. SubSeq(text, 1, Len(text)) = SubSeq(sent, 1, Len(text))
    BY <2>1, <2>2, <2>3
  <2>5. QED
    BY <2>1, <2>3, <2>4 DEF IsPrefix
<1>2. QED
  BY <1>1, ControlInvariant, FaithfulInvariant, PTL

(***************************************************************************)
(* With nothing on its way and nothing dropped, the thread and the driver  *)
(* agree on the shift key.                                                 *)
(***************************************************************************)
THEOREM ShiftCorrect == SystemSpec => []ShiftAgreed
<1>1. ControlInv /\ FaithfulInv => ShiftAgreed
  <2> SUFFICES ASSUME ControlInv, FaithfulInv, ~dropped, buffer_element_count = 0
               PROVE  shift = is_shifted
    BY DEF ShiftAgreed
  <2>1. Len(contents) = 0
    BY RingQueue DEF ControlInv, KeyboardInv, TypeOK, contents
  <2>2. InFlight(contents, shift, Len(text), is_shifted, Len(sent), sent)
    BY DEF FaithfulInv
  <2>3. QED
    BY <2>1, <2>2, FlightOver
<1>2. QED
  BY <1>1, ControlInvariant, FaithfulInvariant, PTL
=============================================================================
