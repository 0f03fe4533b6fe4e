------------------------------ MODULE Keyboard ------------------------------
(***************************************************************************)
(* The emulated keyboard (frontend/keyboard.cpp): the registers the guest  *)
(* reaches through ports 0x60 and 0x64, the internal ring buffer, and its  *)
(* interrupt line.  Every public method takes the instance mutex for its   *)
(* whole body, so each one is a single action; the vCPU thread calls the   *)
(* register methods and the console input thread insert_keycode_event.     *)
(*                                                                         *)
(* A definition commented "mutant" is a faulty variant of the definition   *)
(* that follows it, kept to test that the properties notice the fault; no  *)
(* specification uses it.  So in every module.                             *)
(***************************************************************************)
EXTENDS IrqLine

CONSTANTS INTERNAL_BUFFER_SIZE,     \* 16 in the code
          Keycodes,                 \* bytes the backend may push
          Commands,                 \* bytes the guest may write to CMR
          ConfigBytes               \* bytes the guest may write to TBR

Byte == 0..255

ASSUME BufferSizeAssumption == INTERNAL_BUFFER_SIZE \in Nat \ {0}
ASSUME ByteAssumption ==
  /\ Keycodes \subseteq Byte
  /\ Commands \subseteq Byte
  /\ ConfigBytes \subseteq Byte

VARIABLES RBR, TBR, STR, CMR,       \* the registers
          enabled,                  \* keycodes are accepted
          interrupt_enabled,        \* the guest wants interrupts
          internal_buffer,
          buffer_head_pointer,      \* next slot to fill
          buffer_tail_pointer,      \* next slot to empty
          buffer_element_count,
          interrupt_raised,         \* what the keyboard believes of its line
          irq                       \* the line, and the request it latched

vars == <<RBR, TBR, STR, CMR, enabled, interrupt_enabled, internal_buffer,
          buffer_head_pointer, buffer_tail_pointer, buffer_element_count,
          interrupt_raised, irq>>

ring == <<internal_buffer, buffer_head_pointer, buffer_tail_pointer,
          buffer_element_count>>

FI_MASK == 1
CONFIGURE == 96                     \* command 0x60: write the configuration

DisableBit(byte) == (byte \div 16) % 2 = 1
InterruptBit(byte) == byte % 2 = 1

-----------------------------------------------------------------------------
\* The vCPU takes the pending vector and starts its handler.
take_interrupt ==
  /\ irq.pending
  /\ irq' = taken(irq)
  /\ UNCHANGED <<RBR, TBR, STR, CMR, enabled, interrupt_enabled, ring,
                 interrupt_raised>>

-----------------------------------------------------------------------------
Init ==
  /\ RBR = 0
  /\ TBR = 0
  /\ STR = 0
  /\ CMR = 0
  /\ enabled = FALSE
  /\ interrupt_enabled = FALSE
  /\ internal_buffer = [i \in 0..(INTERNAL_BUFFER_SIZE - 1) |-> 0]
  /\ buffer_head_pointer = 0
  /\ buffer_tail_pointer = 0
  /\ buffer_element_count = 0
  /\ interrupt_raised = FALSE
  /\ irq = idle_line

advance(pointer) == (pointer + 1) % INTERNAL_BUFFER_SIZE

\* mutant: a read does not acknowledge the interrupt.
update_FI_no_ack(insert) ==
  IF buffer_element_count' # 0
    THEN /\ STR' = FI_MASK
         /\ irq' = IF interrupt_enabled THEN set_IRQline(irq, 1) ELSE irq
         /\ interrupt_raised' = (interrupt_enabled \/ interrupt_raised)
    ELSE /\ STR' = 0
         /\ irq' = IF interrupt_raised THEN set_IRQline(irq, 0) ELSE irq
         /\ interrupt_raised' = FALSE

\* mutant: FI is set but never cleared.
update_FI_sticky(insert) ==
  LET acked == IF insert THEN irq ELSE set_IRQline(irq, 0)
      on    == interrupt_enabled /\ buffer_element_count' # 0
  IN  /\ STR' = IF buffer_element_count' # 0 THEN FI_MASK ELSE STR
      /\ irq' = IF on THEN set_IRQline(acked, 1) ELSE acked
      /\ interrupt_raised' = (on \/ (insert /\ interrupt_raised))

(***************************************************************************)
(* Called last by the methods that change the buffer: it looks at the new  *)
(* element count.  A read acknowledges the interrupt first, so that the    *)
(* line goes down and up again when more keycodes wait.                    *)
(***************************************************************************)
update_FI(insert) ==
  LET acked       == IF insert THEN irq ELSE set_IRQline(irq, 0)
      stillRaised == insert /\ interrupt_raised
  IN  IF buffer_element_count' # 0
        THEN /\ STR' = FI_MASK
             /\ IF interrupt_enabled
                  THEN irq' = set_IRQline(acked, 1) /\ interrupt_raised' = TRUE
                  ELSE irq' = acked /\ interrupt_raised' = stillRaised
        ELSE /\ STR' = 0
             /\ irq' = IF stillRaised THEN set_IRQline(acked, 0) ELSE acked
             /\ interrupt_raised' = FALSE

\* mutant: the tail stays where it is.
next_RBR_keeps_tail ==
  IF buffer_element_count # 0
    THEN /\ RBR' = internal_buffer[buffer_tail_pointer]
         /\ buffer_element_count' = buffer_element_count - 1
         /\ UNCHANGED <<internal_buffer, buffer_head_pointer, buffer_tail_pointer>>
    ELSE UNCHANGED <<RBR, ring>>

\* mutant: the slot is read after the tail has moved on.
next_RBR_late ==
  IF buffer_element_count # 0
    THEN /\ buffer_tail_pointer' = advance(buffer_tail_pointer)
         /\ RBR' = internal_buffer[buffer_tail_pointer']
         /\ buffer_element_count' = buffer_element_count - 1
         /\ UNCHANGED <<internal_buffer, buffer_head_pointer>>
    ELSE UNCHANGED <<RBR, ring>>

next_RBR ==
  IF buffer_element_count # 0
    THEN /\ RBR' = internal_buffer[buffer_tail_pointer]
         /\ buffer_tail_pointer' = advance(buffer_tail_pointer)
         /\ buffer_element_count' = buffer_element_count - 1
         /\ UNCHANGED <<internal_buffer, buffer_head_pointer>>
    ELSE UNCHANGED <<RBR, ring>>

\* mutant: enabling interrupts ignores the keycodes already queued.
process_cmd_no_kick ==
  IF CMR = CONFIGURE
    THEN /\ enabled' = ~DisableBit(TBR')
         /\ interrupt_enabled' = InterruptBit(TBR')
         /\ UNCHANGED <<irq, interrupt_raised>>
    ELSE UNCHANGED <<enabled, interrupt_enabled, irq, interrupt_raised>>

\* mutant: the line is raised and interrupt_raised is not set.
process_cmd_untracked ==
  IF CMR = CONFIGURE
    THEN /\ enabled' = ~DisableBit(TBR')
         /\ interrupt_enabled' = InterruptBit(TBR')
         /\ irq' = IF InterruptBit(TBR') /\ buffer_element_count # 0
                     THEN set_IRQline(irq, 1) ELSE irq
         /\ UNCHANGED interrupt_raised
    ELSE UNCHANGED <<enabled, interrupt_enabled, irq, interrupt_raised>>

(***************************************************************************)
(* Runs on every write to TBR, on the command left in CMR.                 *)
(***************************************************************************)
process_cmd ==
  IF CMR = CONFIGURE
    THEN LET kick == /\ InterruptBit(TBR')
                     /\ buffer_element_count # 0
                     /\ ~interrupt_raised
         IN  /\ enabled' = ~DisableBit(TBR')
             /\ interrupt_enabled' = InterruptBit(TBR')
             /\ irq' = IF kick THEN set_IRQline(irq, 1) ELSE irq
             /\ interrupt_raised' = (kick \/ interrupt_raised)
    ELSE UNCHANGED <<enabled, interrupt_enabled, irq, interrupt_raised>>

-----------------------------------------------------------------------------
\* write_reg_byte, port 0x64
write_CMR(val) ==
  /\ CMR' = val
  /\ UNCHANGED <<RBR, TBR, STR, enabled, interrupt_enabled, ring,
                 interrupt_raised, irq>>

\* write_reg_byte, port 0x60
write_TBR(val) ==
  /\ TBR' = val
  /\ process_cmd
  /\ UNCHANGED <<RBR, STR, CMR, ring>>

\* read_reg_byte, port 0x60; the value returned is RBR'.  (A read of port
\* 0x64 returns STR and changes nothing.)
read_RBR ==
  /\ next_RBR
  /\ update_FI(FALSE)
  /\ UNCHANGED <<TBR, CMR, enabled, interrupt_enabled>>

\* mutant: a full buffer accepts one keycode more.
accepts_when_full == enabled /\ buffer_element_count <= INTERNAL_BUFFER_SIZE

accepts == enabled /\ buffer_element_count # INTERNAL_BUFFER_SIZE

insert_keycode_event(keycode) ==
  IF accepts
    THEN /\ internal_buffer' =
              [internal_buffer EXCEPT ![buffer_head_pointer] = keycode]
         /\ buffer_head_pointer' = advance(buffer_head_pointer)
         /\ buffer_element_count' = buffer_element_count + 1
         /\ update_FI(TRUE)
         /\ UNCHANGED <<RBR, TBR, CMR, enabled, interrupt_enabled,
                        buffer_tail_pointer>>
    ELSE UNCHANGED vars

Next ==
  \/ \E val \in Commands : write_CMR(val)
  \/ \E val \in ConfigBytes : write_TBR(val)
  \/ read_RBR
  \/ take_interrupt
  \/ \E keycode \in Keycodes : insert_keycode_event(keycode)

Spec == Init /\ [][Next]_vars

-----------------------------------------------------------------------------
(***************************************************************************)
(* Types, including the width of the 8-bit registers.                      *)
(***************************************************************************)
Slots == 0..(INTERNAL_BUFFER_SIZE - 1)

TypeOK ==
  /\ RBR \in Byte
  /\ TBR \in Byte
  /\ STR \in {0, FI_MASK}
  /\ CMR \in Byte
  /\ enabled \in BOOLEAN
  /\ interrupt_enabled \in BOOLEAN
  /\ internal_buffer \in [Slots -> Byte]
  /\ buffer_head_pointer \in Slots
  /\ buffer_tail_pointer \in Slots
  /\ buffer_element_count \in 0..INTERNAL_BUFFER_SIZE
  /\ interrupt_raised \in BOOLEAN
  /\ irq \in IrqStates

\* The slot i places after the tail.
slot(i) == (buffer_tail_pointer + i) % INTERNAL_BUFFER_SIZE

(***************************************************************************)
(* The three ring counters agree: the head is always count places after    *)
(* the tail, through any number of wraps, drops and empty reads            *)
(* (next_RBR, insert_keycode_event).                                       *)
(***************************************************************************)
RingConsistent == buffer_head_pointer = slot(buffer_element_count)

(***************************************************************************)
(* A polling guest that waits for FI in STR never waits while a keycode is *)
(* buffered and never reads a stale RBR (update_FI, next_RBR).             *)
(***************************************************************************)
StatusTruthful == STR = FI_MASK <=> buffer_element_count # 0

(***************************************************************************)
(* The keyboard's idea of its line, interrupt_raised, is the line's level. *)
(***************************************************************************)
LineTracked == interrupt_raised <=> irq.line = 1

(***************************************************************************)
(* The line is up whenever the guest wants interrupts and a keycode waits, *)
(* also for keycodes queued while interrupts were off; and it is never up  *)
(* with an empty buffer (process_cmd, update_FI).                          *)
(***************************************************************************)
InterruptJustified ==
  /\ interrupt_enabled /\ buffer_element_count # 0 => irq.line = 1
  /\ irq.line = 1 => buffer_element_count # 0

(***************************************************************************)
(* On an edge-triggered pin a line that merely stays up notifies nobody:   *)
(* every read that leaves keycodes behind, with interrupts on, makes the   *)
(* vector pending again (the drop of the line in update_FI(false)).        *)
(***************************************************************************)
ReadRearmsEdge ==
  [][ /\ buffer_element_count' < buffer_element_count
      /\ buffer_element_count' # 0
      /\ interrupt_enabled
      => irq'.pending ]_vars

-----------------------------------------------------------------------------
(***************************************************************************)
(* The keyboard implements the queue: the keycodes in the ring from the    *)
(* tail on are the queue, oldest first.                                    *)
(***************************************************************************)
ring_queue(buffer, tail, count) ==
  [i \in 1..count |-> buffer[(tail + (i - 1)) % INTERNAL_BUFFER_SIZE]]

contents ==
  ring_queue(internal_buffer, buffer_tail_pointer, buffer_element_count)

Queue == INSTANCE KeyboardQueue
           WITH Capacity  <- INTERNAL_BUFFER_SIZE,
                Codes     <- Keycodes,
                queue     <- contents,
                data      <- RBR,
                accepting <- enabled,
                notifying <- interrupt_enabled,
                request   <- (irq.line = 1)

ImplementsQueue == Queue!Spec
=============================================================================
