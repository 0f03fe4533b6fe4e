--------------------------- MODULE KeyboardProofs ---------------------------
(***************************************************************************)
(* Proofs about the keyboard, for every buffer size and every set of       *)
(* keycodes, commands and configuration bytes.                             *)
(***************************************************************************)
EXTENDS Keyboard, Sequences, TLAPS

-----------------------------------------------------------------------------
(***************************************************************************)
(* Advancing a ring pointer (the % INTERNAL_BUFFER_SIZE of next_RBR and    *)
(* insert_keycode_event) keeps it a slot.                                  *)
(***************************************************************************)
LEMMA AdvanceSlot ==
  ASSUME NEW p \in Slots
  PROVE  /\ advance(p) \in Slots
         /\ advance(p) = IF p = INTERNAL_BUFFER_SIZE - 1 THEN 0 ELSE p + 1
<1>1. INTERNAL_BUFFER_SIZE \in Nat \ {0}
  BY BufferSizeAssumption
<1>2. p + 1 \in Nat /\ p + 1 < 2 * INTERNAL_BUFFER_SIZE
  BY <1>1 DEF Slots
<1>3. (p + 1) % INTERNAL_BUFFER_SIZE =
        IF p + 1 < INTERNAL_BUFFER_SIZE THEN p + 1
                                        ELSE p + 1 - INTERNAL_BUFFER_SIZE
  BY <1>1, <1>2 DEF Slots
<1>4. QED
  BY <1>1, <1>3 DEF advance, Slots

(***************************************************************************)
(* The slot i places after a slot, for i up to the size of the ring.       *)
(***************************************************************************)
LEMMA SlotSum ==
  ASSUME NEW p \in Slots, NEW i \in 0..INTERNAL_BUFFER_SIZE
  PROVE  /\ (p + i) % INTERNAL_BUFFER_SIZE \in Slots
         /\ (p + i) % INTERNAL_BUFFER_SIZE =
              IF p + i < INTERNAL_BUFFER_SIZE THEN p + i
                                              ELSE p + i - INTERNAL_BUFFER_SIZE
<1>1. INTERNAL_BUFFER_SIZE \in Nat \ {0}
  BY BufferSizeAssumption
<1>2. p + i \in Nat /\ p + i < 2 * INTERNAL_BUFFER_SIZE
  BY <1>1 DEF Slots
<1>3. (p + i) % INTERNAL_BUFFER_SIZE =
        IF p + i < INTERNAL_BUFFER_SIZE THEN p + i
                                        ELSE p + i - INTERNAL_BUFFER_SIZE
  BY <1>1, <1>2 DEF Slots
<1>4. QED
  BY <1>1, <1>2, <1>3 DEF Slots

(***************************************************************************)
(* set_IRQline returns a line state of the right type, at the level asked. *)
(***************************************************************************)
LEMMA LineType ==
  ASSUME NEW i \in IrqStates, NEW level \in {0, 1}
  PROVE  /\ set_IRQline(i, level) \in IrqStates
         /\ set_IRQline(i, level).line = level
         /\ i.line = 0 /\ level = 1 => set_IRQline(i, level).pending
  BY DEF set_IRQline, IrqStates

-----------------------------------------------------------------------------
(***************************************************************************)
(* The inductive invariant.  The parts support one another: the line is    *)
(* justified only because the keyboard's own flag tracks it (process_cmd   *)
(* raises the line on the flag's word), and StatusTruthful and the ring's  *)
(* consistency both rest on the bound on the element count in TypeOK.      *)
(***************************************************************************)
KeyboardInv ==
  /\ TypeOK
  /\ RingConsistent
  /\ StatusTruthful
  /\ LineTracked
  /\ InterruptJustified

(***************************************************************************)
(* The invariant holds of the freshly constructed keyboard.                *)
(***************************************************************************)
LEMMA InvInit == Init => KeyboardInv
<1> SUFFICES ASSUME Init PROVE KeyboardInv
  OBVIOUS
<1>1. 0 \in Slots /\ 0 \in 0..INTERNAL_BUFFER_SIZE
  BY BufferSizeAssumption DEF Slots
<1>2. TypeOK
  <2>1. irq \in IrqStates
    BY DEF Init, idle_line, IrqStates
  <2>2. internal_buffer \in [Slots -> Byte]
    BY DEF Init, Slots, Byte
  <2>3. QED
    BY <1>1, <2>1, <2>2 DEF Init, TypeOK, Byte, FI_MASK
<1>3. RingConsistent
  BY <1>1, SlotSum, BufferSizeAssumption DEF Init, RingConsistent, slot
<1>4. StatusTruthful /\ LineTracked /\ InterruptJustified
  BY DEF Init, idle_line, StatusTruthful, LineTracked, InterruptJustified, FI_MASK
<1>5. QED
  BY <1>2, <1>3, <1>4 DEF KeyboardInv

(***************************************************************************)
(* What update_FI establishes, whoever calls it: the flag, the line and    *)
(* the status bit agree with the new element count.                        *)
(***************************************************************************)
LEMMA UpdateFI ==
  ASSUME KeyboardInv, NEW insert \in BOOLEAN,
         update_FI(insert), buffer_element_count' \in Nat,
         UNCHANGED interrupt_enabled,
         insert => buffer_element_count' # 0
  PROVE  /\ STR' \in {0, FI_MASK}
         /\ interrupt_raised' \in BOOLEAN
         /\ irq' \in IrqStates
         /\ StatusTruthful'
         /\ LineTracked'
         /\ InterruptJustified'
         /\ insert /\ irq.line = 1 => irq'.line = 1
<1> DEFINE acked == IF insert THEN irq ELSE set_IRQline(irq, 0)
           stillRaised == insert /\ interrupt_raised
<1>1. irq \in IrqStates /\ interrupt_raised \in BOOLEAN
  BY DEF KeyboardInv, TypeOK
<1>2. interrupt_raised <=> irq.line = 1
  BY DEF KeyboardInv, LineTracked
<1>3. /\ acked \in IrqStates
      /\ stillRaised <=> acked.line = 1
  BY <1>1, <1>2, LineType
<1>4. CASE buffer_element_count' # 0 /\ interrupt_enabled
  <2>1. /\ STR' = FI_MASK
        /\ irq' = set_IRQline(acked, 1)
        /\ interrupt_raised' = TRUE
    BY <1>4 DEF update_FI
  <2>2. irq' \in IrqStates /\ irq'.line = 1
    BY <2>1, <1>3, LineType
  <2>3. QED
    BY <2>1, <2>2, <1>4
       DEF StatusTruthful, LineTracked, InterruptJustified, FI_MASK
<1>5. CASE buffer_element_count' # 0 /\ ~interrupt_enabled
  <2>1. /\ STR' = FI_MASK
        /\ irq' = acked
        /\ interrupt_raised' = stillRaised
    BY <1>5 DEF update_FI
  <2>2. QED
    BY <2>1, <1>1, <1>3, <1>5
       DEF StatusTruthful, LineTracked, InterruptJustified, FI_MASK
<1>6. CASE buffer_element_count' = 0
  <2>1. /\ STR' = 0
        /\ irq' = IF stillRaised THEN set_IRQline(acked, 0) ELSE acked
        /\ interrupt_raised' = FALSE
    BY <1>6 DEF update_FI
  <2>2. irq' \in IrqStates /\ irq'.line = 0
    BY <2>1, <1>3, LineType DEF IrqStates
  <2>3. ~insert
    BY <1>6
  <2>4. StatusTruthful' /\ LineTracked' /\ InterruptJustified'
    BY <2>1, <2>2, <1>6
       DEF StatusTruthful, LineTracked, InterruptJustified, FI_MASK
  <2>5. QED
    BY <2>1, <2>2, <2>3, <2>4
<1>7. QED
  BY <1>4, <1>5, <1>6

(***************************************************************************)
(* Reading the data register keeps the invariant.                          *)
(***************************************************************************)
LEMMA ReadKeepsInv == KeyboardInv /\ read_RBR => KeyboardInv'
<1> SUFFICES ASSUME KeyboardInv, read_RBR PROVE KeyboardInv'
  OBVIOUS
<1>1. TypeOK /\ INTERNAL_BUFFER_SIZE \in Nat \ {0}
  BY BufferSizeAssumption DEF KeyboardInv
<1>2. /\ buffer_tail_pointer' \in Slots
      /\ buffer_element_count' \in 0..INTERNAL_BUFFER_SIZE
      /\ RBR' \in Byte
      /\ internal_buffer' = internal_buffer
      /\ buffer_head_pointer' = buffer_head_pointer
      /\ RingConsistent'
  <2>1. CASE buffer_element_count # 0
    <3>1. /\ RBR' = internal_buffer[buffer_tail_pointer]
          /\ buffer_tail_pointer' = advance(buffer_tail_pointer)
          /\ buffer_element_count' = buffer_element_count - 1
          /\ UNCHANGED <<internal_buffer, buffer_head_pointer>>
      BY <2>1 DEF read_RBR, next_RBR
    <3>2. /\ buffer_tail_pointer' \in Slots
          /\ buffer_element_count' \in 0..INTERNAL_BUFFER_SIZE
          /\ RBR' \in Byte
      BY <1>1, <2>1, <3>1, AdvanceSlot DEF TypeOK
    <3>3. buffer_tail_pointer' = IF buffer_tail_pointer = INTERNAL_BUFFER_SIZE - 1
                                   THEN 0 ELSE buffer_tail_pointer + 1
      BY <1>1, <3>1, AdvanceSlot DEF TypeOK
    <3>4. slot(buffer_element_count)' = slot(buffer_element_count)
      <4>1. slot(buffer_element_count) =
              IF buffer_tail_pointer + buffer_element_count < INTERNAL_BUFFER_SIZE
                THEN buffer_tail_pointer + buffer_element_count
                ELSE buffer_tail_pointer + buffer_element_count - INTERNAL_BUFFER_SIZE
        BY <1>1, SlotSum DEF TypeOK, slot
      <4>2. slot(buffer_element_count)' =
              IF buffer_tail_pointer' + buffer_element_count' < INTERNAL_BUFFER_SIZE
                THEN buffer_tail_pointer' + buffer_element_count'
                ELSE buffer_tail_pointer' + buffer_element_count' - INTERNAL_BUFFER_SIZE
        BY <3>2, SlotSum DEF slot
      <4>3. QED
        BY <1>1, <2>1, <3>1, <3>3, <4>1, <4>2 DEF TypeOK, Slots
    <3>5. QED
      BY <3>1, <3>2, <3>4 DEF KeyboardInv, RingConsistent
  <2>2. CASE buffer_element_count = 0
    BY <1>1, <2>2
       DEF read_RBR, next_RBR, ring, KeyboardInv, TypeOK, RingConsistent, slot
  <2>3. QED
    BY <2>1, <2>2
<1>3. /\ STR' \in {0, FI_MASK}
      /\ interrupt_raised' \in BOOLEAN
      /\ irq' \in IrqStates
      /\ StatusTruthful' /\ LineTracked' /\ InterruptJustified'
  <2>1. update_FI(FALSE) /\ UNCHANGED interrupt_enabled
    BY DEF read_RBR
  <2>2. buffer_element_count' \in Nat
    BY <1>1, <1>2
  <2>3. QED
    BY <2>1, <2>2, UpdateFI
<1>4. TypeOK'
  BY <1>1, <1>2, <1>3 DEF read_RBR, TypeOK
<1>5. QED
  BY <1>2, <1>3, <1>4 DEF KeyboardInv

(***************************************************************************)
(* Inserting a keycode, or dropping it, keeps the invariant.               *)
(***************************************************************************)
LEMMA InsertKeepsInv ==
  ASSUME NEW k \in Keycodes
  PROVE  KeyboardInv /\ insert_keycode_event(k) => KeyboardInv'
<1> SUFFICES ASSUME KeyboardInv, insert_keycode_event(k) PROVE KeyboardInv'
  OBVIOUS
<1>1. TypeOK /\ INTERNAL_BUFFER_SIZE \in Nat \ {0}
  BY BufferSizeAssumption DEF KeyboardInv
<1>2. CASE ~accepts
  BY <1>2 DEF insert_keycode_event, vars, KeyboardInv, TypeOK, RingConsistent, slot,
              StatusTruthful, LineTracked, InterruptJustified
<1>3. CASE accepts
  <2>1. /\ internal_buffer' = [internal_buffer EXCEPT ![buffer_head_pointer] = k]
        /\ buffer_head_pointer' = advance(buffer_head_pointer)
        /\ buffer_element_count' = buffer_element_count + 1
        /\ update_FI(TRUE)
        /\ UNCHANGED <<RBR, TBR, CMR, enabled, interrupt_enabled, buffer_tail_pointer>>
    BY <1>3 DEF insert_keycode_event
  <2>2. /\ buffer_element_count < INTERNAL_BUFFER_SIZE
        /\ buffer_element_count' \in 0..INTERNAL_BUFFER_SIZE
        /\ buffer_element_count' \in Nat
        /\ buffer_element_count' # 0
    BY <1>1, <1>3, <2>1 DEF accepts, TypeOK
  <2>3. /\ STR' \in {0, FI_MASK}
        /\ interrupt_raised' \in BOOLEAN
        /\ irq' \in IrqStates
        /\ StatusTruthful' /\ LineTracked' /\ InterruptJustified'
    BY <2>1, <2>2, UpdateFI
  <2>4. /\ buffer_head_pointer' \in Slots
        /\ buffer_head_pointer' = IF buffer_head_pointer = INTERNAL_BUFFER_SIZE - 1
                                    THEN 0 ELSE buffer_head_pointer + 1
    BY <1>1, <2>1, AdvanceSlot DEF TypeOK
  <2>5. internal_buffer' \in [Slots -> Byte]
    BY <1>1, <2>1, ByteAssumption DEF TypeOK
  <2>6. RingConsistent'
    <3>1. slot(buffer_element_count) =
            IF buffer_tail_pointer + buffer_element_count < INTERNAL_BUFFER_SIZE
              THEN buffer_tail_pointer + buffer_element_count
              ELSE buffer_tail_pointer + buffer_element_count - INTERNAL_BUFFER_SIZE
      BY <1>1, SlotSum DEF TypeOK, slot
    <3>2. slot(buffer_element_count)' =
            IF buffer_tail_pointer + buffer_element_count' < INTERNAL_BUFFER_SIZE
              THEN buffer_tail_pointer + buffer_element_count'
              ELSE buffer_tail_pointer + buffer_element_count' - INTERNAL_BUFFER_SIZE
      BY <1>1, <2>1, <2>2, SlotSum DEF TypeOK, slot
    <3>3. buffer_head_pointer = slot(buffer_element_count)
      BY DEF KeyboardInv, RingConsistent
    <3>4. buffer_head_pointer' = slot(buffer_element_count)'
      BY <1>1, <2>1, <2>2, <2>4, <3>1, <3>2, <3>3 DEF TypeOK, Slots
    <3>5. QED
      BY <3>4 DEF RingConsistent
  <2>7. TypeOK'
    BY <1>1, <2>1, <2>2, <2>3, <2>4, <2>5 DEF TypeOK
  <2>8. QED
    BY <2>3, <2>6, <2>7 DEF KeyboardInv
<1>4. QED
  BY <1>2, <1>3

(***************************************************************************)
(* A write to the configuration byte keeps the invariant: in particular    *)
(* switching interrupts on raises the line for keycodes already queued.    *)
(***************************************************************************)
LEMMA ConfigKeepsInv ==
  ASSUME NEW val \in ConfigBytes
  PROVE  KeyboardInv /\ write_TBR(val) => KeyboardInv'
<1> SUFFICES ASSUME KeyboardInv, write_TBR(val) PROVE KeyboardInv'
  OBVIOUS
<1> DEFINE kick == /\ InterruptBit(TBR')
                   /\ buffer_element_count # 0
                   /\ ~interrupt_raised
<1>1. TypeOK /\ LineTracked /\ InterruptJustified
  BY DEF KeyboardInv
<1>2. /\ TBR' \in Byte
      /\ UNCHANGED <<RBR, STR, CMR, internal_buffer, buffer_head_pointer,
                     buffer_tail_pointer, buffer_element_count>>
  BY ByteAssumption DEF write_TBR, ring
<1>3. /\ enabled' \in BOOLEAN
      /\ interrupt_enabled' \in BOOLEAN
      /\ interrupt_raised' \in BOOLEAN
      /\ irq' \in IrqStates
      /\ LineTracked'
      /\ InterruptJustified'
  <2>1. CASE CMR = CONFIGURE
    <3>1. /\ enabled' = ~DisableBit(TBR')
          /\ interrupt_enabled' = InterruptBit(TBR')
          /\ irq' = IF kick THEN set_IRQline(irq, 1) ELSE irq
          /\ interrupt_raised' = (kick \/ interrupt_raised)
      BY <2>1 DEF write_TBR, process_cmd
    <3>2. enabled' \in BOOLEAN /\ interrupt_enabled' \in BOOLEAN
      BY <3>1 DEF DisableBit, InterruptBit
    <3>3. CASE kick
      <4>1. irq' \in IrqStates /\ irq'.line = 1
        BY <1>1, <3>1, <3>3, LineType DEF TypeOK
      <4>2. interrupt_raised' = TRUE /\ buffer_element_count' # 0
        BY <1>2, <3>1, <3>3
      <4>3. LineTracked' /\ InterruptJustified'
        BY <4>1, <4>2 DEF LineTracked, InterruptJustified
      <4>4. QED
        BY <3>2, <4>1, <4>2, <4>3
    <3>4. CASE ~kick
      <4>1. irq' = irq /\ interrupt_raised' = interrupt_raised
        BY <1>1, <3>1, <3>4 DEF TypeOK
      <4>2. interrupt_enabled' /\ buffer_element_count # 0 => interrupt_raised
        BY <3>1, <3>4
      <4>3. LineTracked' /\ InterruptJustified'
        BY <1>1, <1>2, <4>1, <4>2 DEF LineTracked, InterruptJustified
      <4>4. QED
        BY <1>1, <3>2, <4>1, <4>3 DEF TypeOK
    <3>5. QED
      BY <3>3, <3>4
  <2>2. CASE CMR # CONFIGURE
    BY <1>1, <1>2, <2>2
       DEF write_TBR, process_cmd, TypeOK, LineTracked, InterruptJustified
  <2>3. QED
    BY <2>1, <2>2
<1>4. TypeOK'
  BY <1>1, <1>2, <1>3 DEF TypeOK
<1>5. RingConsistent' /\ StatusTruthful'
  BY <1>2 DEF KeyboardInv, RingConsistent, StatusTruthful, slot
<1>6. QED
  BY <1>3, <1>4, <1>5 DEF KeyboardInv

(***************************************************************************)
(* Every step of the vCPU thread and of the input thread keeps the         *)
(* invariant.                                                              *)
(***************************************************************************)
LEMMA InvNext == KeyboardInv /\ [Next]_vars => KeyboardInv'
<1> SUFFICES ASSUME KeyboardInv, [Next]_vars PROVE KeyboardInv'
  OBVIOUS
<1>1. ASSUME NEW val \in Commands, write_CMR(val) PROVE KeyboardInv'
  BY <1>1, ByteAssumption
     DEF write_CMR, ring, KeyboardInv, TypeOK, RingConsistent, slot,
         StatusTruthful, LineTracked, InterruptJustified
<1>2. ASSUME NEW val \in ConfigBytes, write_TBR(val) PROVE KeyboardInv'
  BY <1>2, ConfigKeepsInv
<1>3. CASE read_RBR
  BY <1>3, ReadKeepsInv
<1>4. CASE take_interrupt
  <2>1. irq' \in IrqStates /\ irq'.line = irq.line
    BY <1>4 DEF take_interrupt, taken, IrqStates, KeyboardInv, TypeOK
  <2>2. QED
    BY <1>4, <2>1
       DEF take_interrupt, ring, KeyboardInv, TypeOK, RingConsistent, slot,
           StatusTruthful, LineTracked, InterruptJustified
<1>5. ASSUME NEW keycode \in Keycodes, insert_keycode_event(keycode)
      PROVE  KeyboardInv'
  BY <1>5, InsertKeepsInv
<1>6. CASE UNCHANGED vars
  BY <1>6 DEF vars, KeyboardInv, TypeOK, RingConsistent, slot,
              StatusTruthful, LineTracked, InterruptJustified
<1>7. QED
  BY <1>1, <1>2, <1>3, <1>4, <1>5, <1>6 DEF Next

(***************************************************************************)
(* The whole invariant of the keyboard holds in every reachable state.     *)
(***************************************************************************)
THEOREM KeyboardInvariant == Spec => []KeyboardInv
<1>1. Init => KeyboardInv
  BY InvInit
<1>2. KeyboardInv /\ [Next]_vars => KeyboardInv'
  BY InvNext
<1>3. QED
  BY <1>1, <1>2, PTL DEF Spec

(***************************************************************************)
(* The registers, counters and line of the keyboard keep their types.      *)
(***************************************************************************)
THEOREM TypeCorrect == Spec => []TypeOK
<1>1. KeyboardInv => TypeOK
  BY DEF KeyboardInv
<1>2. QED
  BY <1>1, KeyboardInvariant, PTL

(***************************************************************************)
(* The head is always count slots after the tail, for every buffer size.   *)
(***************************************************************************)
THEOREM RingCorrect == Spec => []RingConsistent
<1>1. KeyboardInv => RingConsistent
  BY DEF KeyboardInv
<1>2. QED
  BY <1>1, KeyboardInvariant, PTL

(***************************************************************************)
(* The interrupt line is up when it has to be and only then: no keycode    *)
(* waits unnoticed by a guest that asked for interrupts.                   *)
(***************************************************************************)
THEOREM NoLostInterrupt == Spec => []InterruptJustified
<1>1. KeyboardInv => InterruptJustified
  BY DEF KeyboardInv
<1>2. QED
  BY <1>1, KeyboardInvariant, PTL

(***************************************************************************)
(* FI says whether a keycode waits: a polling guest reads neither too      *)
(* early nor too late.                                                     *)
(***************************************************************************)
THEOREM StatusCorrect == Spec => []StatusTruthful
<1>1. KeyboardInv => StatusTruthful
  BY DEF KeyboardInv
<1>2. QED
  BY <1>1, KeyboardInvariant, PTL

(***************************************************************************)
(* interrupt_raised is the level of the line, which is why the keyboard    *)
(* may decide from it whether to raise it.                                 *)
(***************************************************************************)
THEOREM LineFlagCorrect == Spec => []LineTracked
<1>1. KeyboardInv => LineTracked
  BY DEF KeyboardInv
<1>2. QED
  BY <1>1, KeyboardInvariant, PTL

(***************************************************************************)
(* Every read that leaves keycodes behind with interrupts on produces a    *)
(* fresh edge, so that an edge-triggered pin notifies the guest again.     *)
(***************************************************************************)
THEOREM EdgeRearmed == Spec => ReadRearmsEdge
<1> DEFINE A == /\ buffer_element_count' < buffer_element_count
                /\ buffer_element_count' # 0
                /\ interrupt_enabled
                => irq'.pending
<1>1. ASSUME KeyboardInv, Next PROVE A
  <2> SUFFICES ASSUME buffer_element_count' < buffer_element_count,
                      buffer_element_count' # 0,
                      interrupt_enabled
               PROVE  irq'.pending
    OBVIOUS
  <2>1. buffer_element_count \in Nat /\ irq \in IrqStates
    BY <1>1, BufferSizeAssumption DEF KeyboardInv, TypeOK
  <2>2. ~(UNCHANGED buffer_element_count)
    BY <2>1
  <2>3. ~(\E val \in Commands : write_CMR(val))
    BY <2>2 DEF write_CMR, ring
  <2>4. ~(\E val \in ConfigBytes : write_TBR(val))
    BY <2>2 DEF write_TBR, ring
  <2>5. ~take_interrupt
    BY <2>2 DEF take_interrupt, ring
  <2>6. ~(\E keycode \in Keycodes : insert_keycode_event(keycode))
    <3>1. ASSUME NEW k \in Keycodes, insert_keycode_event(k) PROVE FALSE
      <4>1. \/ buffer_element_count' = buffer_element_count + 1
            \/ buffer_element_count' = buffer_element_count
        BY <3>1 DEF insert_keycode_event, vars
      <4>2. QED
        BY <2>1, <4>1
    <3>2. QED
      BY <3>1
  <2>7. read_RBR
    BY <1>1, <2>3, <2>4, <2>5, <2>6 DEF Next
  <2>8. irq' = set_IRQline(set_IRQline(irq, 0), 1)
    BY <2>7 DEF read_RBR, update_FI
  <2>9. QED
    BY <2>1, <2>8, LineType
<1>2. KeyboardInv /\ [Next]_vars => [A]_vars
  BY <1>1
<1>3. QED
  BY <1>2, KeyboardInvariant, PTL DEF Spec, ReadRearmsEdge

-----------------------------------------------------------------------------
(***************************************************************************)
(* A ring read as a queue: a sequence of bytes, one per buffered element.  *)
(***************************************************************************)
LEMMA RingQueue ==
  ASSUME NEW buffer \in [Slots -> Byte], NEW tail \in Slots,
         NEW count \in 0..INTERNAL_BUFFER_SIZE
  PROVE  /\ ring_queue(buffer, tail, count) \in Seq(Byte)
         /\ Len(ring_queue(buffer, tail, count)) = count
         /\ \A i \in 1..count : ring_queue(buffer, tail, count)[i] =
                                  buffer[(tail + (i - 1)) % INTERNAL_BUFFER_SIZE]
<1>1. INTERNAL_BUFFER_SIZE \in Nat /\ count \in Nat
  BY BufferSizeAssumption
<1>2. \A i \in 1..count : buffer[(tail + (i - 1)) % INTERNAL_BUFFER_SIZE] \in Byte
  <2> TAKE i \in 1..count
  <2>1. i - 1 \in 0..INTERNAL_BUFFER_SIZE
    BY <1>1
  <2>2. QED
    BY <2>1, SlotSum
<1>3. QED
  BY <1>1, <1>2 DEF ring_queue

(***************************************************************************)
(* Storing at the head of a ring that is not full appends to its queue.    *)
(***************************************************************************)
LEMMA StoreAppends ==
  ASSUME NEW buffer \in [Slots -> Byte], NEW tail \in Slots,
         NEW count \in 0..(INTERNAL_BUFFER_SIZE - 1), NEW k \in Byte,
         NEW head \in Slots, head = (tail + count) % INTERNAL_BUFFER_SIZE
  PROVE  ring_queue([buffer EXCEPT ![head] = k], tail, count + 1) =
           Append(ring_queue(buffer, tail, count), k)
<1> DEFINE old == ring_queue(buffer, tail, count)
           stored == [buffer EXCEPT ![head] = k]
           new == ring_queue(stored, tail, count + 1)
<1>1. INTERNAL_BUFFER_SIZE \in Nat \ {0} /\ count \in Nat
  BY BufferSizeAssumption
<1>2. /\ stored \in [Slots -> Byte]
      /\ count \in 0..INTERNAL_BUFFER_SIZE
      /\ count + 1 \in 0..INTERNAL_BUFFER_SIZE
  BY <1>1
<1>3. /\ old \in Seq(Byte) /\ Len(old) = count
      /\ \A i \in 1..count :
           old[i] = buffer[(tail + (i - 1)) % INTERNAL_BUFFER_SIZE]
  BY <1>2, RingQueue
<1>4. /\ new \in Seq(Byte) /\ Len(new) = count + 1
      /\ \A i \in 1..(count + 1) :
           new[i] = stored[(tail + (i - 1)) % INTERNAL_BUFFER_SIZE]
  BY <1>2, RingQueue
<1>5. \A i \in 1..count : new[i] = old[i]
  <2> TAKE i \in 1..count
  <2> DEFINE s == (tail + (i - 1)) % INTERNAL_BUFFER_SIZE
  <2>1. i - 1 \in 0..INTERNAL_BUFFER_SIZE /\ i - 1 < count
    BY <1>1
  <2>2. /\ s \in Slots
        /\ s = IF tail + (i - 1) < INTERNAL_BUFFER_SIZE
                 THEN tail + (i - 1) ELSE tail + (i - 1) - INTERNAL_BUFFER_SIZE
    BY <2>1, SlotSum
  <2>3. head = IF tail + count < INTERNAL_BUFFER_SIZE
                 THEN tail + count ELSE tail + count - INTERNAL_BUFFER_SIZE
    BY <1>2, SlotSum
  <2>4. s # head
    <3> HIDE DEF s
    <3> QED BY <1>1, <2>1, <2>2, <2>3 DEF Slots
  <2>5. stored[s] = buffer[s]
    BY <2>2, <2>4
  <2>6. new[i] = stored[s] /\ old[i] = buffer[s]
    <3>1. i \in 1..(count + 1)
      BY <1>1
    <3>2. QED
      BY <1>3, <1>4, <3>1, Zenon
  <2>7. QED
    BY <2>5, <2>6
<1>6. new[count + 1] = k
  <2>1. new[count + 1] = stored[(tail + ((count + 1) - 1)) % INTERNAL_BUFFER_SIZE]
    <3>1. count + 1 \in 1..(count + 1)
      BY <1>1
    <3>2. QED
      BY <1>4, <3>1, Zenon
  <2>2. (count + 1) - 1 = count
    BY <1>1
  <2>3. new[count + 1] = stored[head]
    BY <2>1, <2>2
  <2>4. QED
    BY <2>3
<1>7. QED
  <2> HIDE DEF new, old
  <2>1. /\ Append(old, k) \in Seq(Byte)
        /\ Len(Append(old, k)) = count + 1
        /\ \A i \in 1..count : Append(old, k)[i] = old[i]
        /\ Append(old, k)[count + 1] = k
    BY <1>1, <1>3
  <2>2. \A i \in 1..(count + 1) : new[i] = Append(old, k)[i]
    BY <1>1, <1>5, <1>6, <2>1
  <2>3. new = Append(old, k)
    BY <1>1, <1>4, <2>1, <2>2
  <2>4. QED
    BY <2>3 DEF new, old

(***************************************************************************)
(* Emptying the slot at the tail takes the head off the queue.             *)
(***************************************************************************)
LEMMA AdvanceTakesTail ==
  ASSUME NEW buffer \in [Slots -> Byte], NEW tail \in Slots,
         NEW count \in 1..INTERNAL_BUFFER_SIZE
  PROVE  /\ ring_queue(buffer, tail, count) # << >>
         /\ Head(ring_queue(buffer, tail, count)) = buffer[tail]
         /\ ring_queue(buffer, advance(tail), count - 1) =
              Tail(ring_queue(buffer, tail, count))
<1> DEFINE old == ring_queue(buffer, tail, count)
           new == ring_queue(buffer, advance(tail), count - 1)
<1>1. /\ INTERNAL_BUFFER_SIZE \in Nat \ {0} /\ count \in Nat
      /\ count \in 0..INTERNAL_BUFFER_SIZE
      /\ count - 1 \in 0..INTERNAL_BUFFER_SIZE
  BY BufferSizeAssumption
<1>2. /\ advance(tail) \in Slots
      /\ advance(tail) = IF tail = INTERNAL_BUFFER_SIZE - 1 THEN 0 ELSE tail + 1
  BY AdvanceSlot
<1>3. /\ old \in Seq(Byte) /\ Len(old) = count
      /\ \A i \in 1..count :
           old[i] = buffer[(tail + (i - 1)) % INTERNAL_BUFFER_SIZE]
  BY <1>1, RingQueue
<1>4. /\ new \in Seq(Byte) /\ Len(new) = count - 1
      /\ \A i \in 1..(count - 1) :
           new[i] = buffer[(advance(tail) + (i - 1)) % INTERNAL_BUFFER_SIZE]
  BY <1>1, <1>2, RingQueue
<1>5. \A i \in 1..(count - 1) : new[i] = old[i + 1]
  <2> TAKE i \in 1..(count - 1)
  <2> DEFINE s == (advance(tail) + (i - 1)) % INTERNAL_BUFFER_SIZE
             t == (tail + i) % INTERNAL_BUFFER_SIZE
  <2>1. i - 1 \in 0..INTERNAL_BUFFER_SIZE /\ i \in 0..INTERNAL_BUFFER_SIZE
    BY <1>1
  <2>2. s = IF advance(tail) + (i - 1) < INTERNAL_BUFFER_SIZE
              THEN advance(tail) + (i - 1)
              ELSE advance(tail) + (i - 1) - INTERNAL_BUFFER_SIZE
    BY <1>2, <2>1, SlotSum
  <2>3. t = IF tail + i < INTERNAL_BUFFER_SIZE
              THEN tail + i ELSE tail + i - INTERNAL_BUFFER_SIZE
    BY <2>1, SlotSum
  <2>4. s = t
    <3> HIDE DEF s, t
    <3> QED BY <1>1, <1>2, <2>1, <2>2, <2>3 DEF Slots
  <2>5. new[i] = buffer[s]
    BY <1>4
  <2>6. old[i + 1] = buffer[t]
    <3>1. i + 1 \in 1..count /\ (i + 1) - 1 = i
      BY <1>1
    <3>2. QED
      BY <1>3, <3>1
  <2>7. QED
    BY <2>4, <2>5, <2>6
<1>6. old[1] = buffer[tail]
  <2>1. 1 \in 1..count /\ tail + (1 - 1) = tail
    BY <1>1 DEF Slots
  <2>2. tail % INTERNAL_BUFFER_SIZE = tail
    BY <1>1 DEF Slots
  <2>3. old[1] = buffer[(tail + (1 - 1)) % INTERNAL_BUFFER_SIZE]
    BY <1>3, <2>1
  <2>4. QED
    BY <2>1, <2>2, <2>3
<1>7. QED
  <2> HIDE DEF new, old
  <2>1. old # << >> /\ Head(old) = old[1]
    BY <1>1, <1>3
  <2>2. /\ Tail(old) \in Seq(Byte)
        /\ Len(Tail(old)) = count - 1
        /\ \A i \in 1..(count - 1) : Tail(old)[i] = old[i + 1]
    BY <1>1, <1>3, <2>1
  <2>3. new = Tail(old)
    BY <1>1, <1>4, <1>5, <2>2
  <2>4. QED
    BY <1>6, <2>1, <2>3 DEF new, old

(***************************************************************************)
(* The keyboard implements the bounded first-in first-out queue of         *)
(* KeyboardQueue, for every buffer size: keycodes are handed over in the   *)
(* order they were accepted, none twice and none lost once accepted, and   *)
(* the interrupt request is up exactly as that specification allows.       *)
(***************************************************************************)
THEOREM Refinement == Spec => ImplementsQueue
<1>1. Init => Queue!Init
  <2> SUFFICES ASSUME Init PROVE Queue!Init
    OBVIOUS
  <2>1. contents = << >>
    BY DEF Init, contents, ring_queue
  <2>2. ~(irq.line = 1)
    BY DEF Init, idle_line
  <2>3. QED
    BY <2>1, <2>2 DEF Init, Queue!Init
<1>2. KeyboardInv /\ KeyboardInv' /\ [Next]_vars => [Queue!Next]_(Queue!vars)
  <2> SUFFICES ASSUME KeyboardInv, KeyboardInv', [Next]_vars
               PROVE  [Queue!Next]_(Queue!vars)
    OBVIOUS
  <2>1. TypeOK /\ TypeOK' /\ INTERNAL_BUFFER_SIZE \in Nat \ {0}
    BY BufferSizeAssumption DEF KeyboardInv
  <2>2. /\ contents \in Seq(Byte) /\ Len(contents) = buffer_element_count
        /\ buffer_element_count = 0 <=> contents = << >>
    <3>1. contents \in Seq(Byte) /\ Len(contents) = buffer_element_count
      BY <2>1, RingQueue DEF TypeOK, contents
    <3>2. QED
      BY <3>1
  <2>3. buffer_element_count' = 0 <=> contents' = << >>
    <3>1. contents' \in Seq(Byte) /\ Len(contents') = buffer_element_count'
      BY <2>1, RingQueue DEF TypeOK, contents
    <3>2. QED
      BY <3>1
  <2>4. Queue!RequestJustified'
    BY <2>3 DEF KeyboardInv, InterruptJustified, Queue!RequestJustified
  <2>5. ASSUME NEW val \in Commands, write_CMR(val)
        PROVE  UNCHANGED Queue!vars
    BY <2>5 DEF write_CMR, ring, Queue!vars, contents
  <2>6. ASSUME NEW val \in ConfigBytes, write_TBR(val)
        PROVE  Queue!Configure(enabled', interrupt_enabled')
    <3>1. contents' = contents /\ RBR' = RBR
      BY <2>6 DEF write_TBR, ring, contents
    <3>2. irq.line = 1 => irq'.line = 1
      BY <2>1, <2>6, LineType DEF write_TBR, process_cmd, TypeOK
    <3>3. QED
      BY <3>1, <3>2 DEF Queue!Configure
  <2>7. ASSUME read_RBR PROVE Queue!Read
    <3>1. CASE buffer_element_count # 0
      <4>1. /\ RBR' = internal_buffer[buffer_tail_pointer]
            /\ contents' = ring_queue(internal_buffer, advance(buffer_tail_pointer),
                                      buffer_element_count - 1)
            /\ UNCHANGED <<enabled, interrupt_enabled>>
        BY <2>7, <3>1 DEF read_RBR, next_RBR, contents
      <4>2. buffer_element_count \in 1..INTERNAL_BUFFER_SIZE
        BY <2>1, <3>1 DEF TypeOK
      <4>3. RBR' = Head(contents) /\ contents' = Tail(contents)
        BY <2>1, <4>1, <4>2, AdvanceTakesTail DEF TypeOK, contents
      <4>4. QED
        BY <2>2, <3>1, <4>1, <4>3 DEF Queue!Read
    <3>2. CASE buffer_element_count = 0
      <4>1. UNCHANGED <<RBR, contents, enabled, interrupt_enabled>>
        BY <2>7, <3>2 DEF read_RBR, next_RBR, ring, contents
      <4>2. QED
        BY <2>2, <3>2, <4>1 DEF Queue!Read
    <3>3. QED
      BY <3>1, <3>2
  <2>8. ASSUME take_interrupt PROVE UNCHANGED Queue!vars
    <3>1. irq'.line = irq.line
      BY <2>1, <2>8 DEF take_interrupt, taken, IrqStates, TypeOK
    <3>2. QED
      BY <2>8, <3>1 DEF take_interrupt, ring, Queue!vars, contents
  <2>9. ASSUME NEW k \in Keycodes, insert_keycode_event(k) PROVE Queue!Arrive(k)
    <3>1. CASE accepts
      <4>1. /\ internal_buffer' = [internal_buffer EXCEPT ![buffer_head_pointer] = k]
            /\ buffer_element_count' = buffer_element_count + 1
            /\ update_FI(TRUE)
            /\ UNCHANGED <<RBR, enabled, interrupt_enabled, buffer_tail_pointer>>
        BY <2>9, <3>1 DEF insert_keycode_event
      <4>2. /\ buffer_element_count \in 0..(INTERNAL_BUFFER_SIZE - 1)
            /\ enabled
            /\ k \in Byte
        BY <2>1, <3>1, ByteAssumption DEF accepts, TypeOK
      <4>3. contents' = Append(contents, k)
        <5>1. buffer_head_pointer =
                (buffer_tail_pointer + buffer_element_count) % INTERNAL_BUFFER_SIZE
          BY DEF KeyboardInv, RingConsistent, slot
        <5>2. contents' = ring_queue([internal_buffer EXCEPT ![buffer_head_pointer] = k],
                                     buffer_tail_pointer, buffer_element_count + 1)
          BY <4>1, Zenon DEF contents
        <5>3. /\ internal_buffer \in [Slots -> Byte]
              /\ buffer_tail_pointer \in Slots
              /\ buffer_head_pointer \in Slots
          BY <2>1 DEF TypeOK
        <5>4. QED
          BY <4>2, <5>1, <5>2, <5>3, StoreAppends, Zenon DEF contents
      <4>4. irq.line = 1 => irq'.line = 1
        <5>1. buffer_element_count' \in Nat /\ buffer_element_count' # 0
          BY <2>1, <4>1, <4>2
        <5>2. QED
          BY <4>1, <5>1, UpdateFI
      <4>5. Len(contents) < INTERNAL_BUFFER_SIZE
        BY <2>1, <2>2, <4>2
      <4>6. QED
        BY <4>1, <4>2, <4>3, <4>4, <4>5 DEF Queue!Arrive
    <3>2. CASE ~accepts
      <4>1. UNCHANGED <<RBR, contents, enabled, interrupt_enabled, irq>>
        BY <2>9, <3>2 DEF insert_keycode_event, vars, contents
      <4>2. ~(enabled /\ Len(contents) < INTERNAL_BUFFER_SIZE)
        BY <2>1, <2>2, <3>2 DEF accepts, TypeOK
      <4>3. QED
        BY <4>1, <4>2 DEF Queue!Arrive
    <3>3. QED
      BY <3>1, <3>2
  <2>10. ASSUME UNCHANGED vars PROVE UNCHANGED Queue!vars
    BY <2>10 DEF vars, Queue!vars, contents
  <2>11. enabled' \in BOOLEAN /\ interrupt_enabled' \in BOOLEAN
    BY <2>1 DEF TypeOK
  <2>12. QED
    BY <2>4, <2>5, <2>6, <2>7, <2>8, <2>9, <2>10, <2>11 DEF Next, Queue!Next
<1>3. QED
  BY <1>1, <1>2, KeyboardInvariant, PTL DEF Spec, ImplementsQueue, Queue!Spec
=============================================================================
