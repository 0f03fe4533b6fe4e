------------------------------ MODULE IrqLine ------------------------------
(***************************************************************************)
(* An interrupt line of the guest, as the devices drive it through         *)
(* set_IRQline (kvm.cpp).  The controller behind it is emulated by KVM:    *)
(* its pins are edge triggered, so that the vector becomes pending in the  *)
(* vCPU when the line goes from 0 to 1, and stays pending until taken.     *)
(***************************************************************************)
EXTENDS Integers

IrqStates == [line : {0, 1}, pending : BOOLEAN]

idle_line == [line |-> 0, pending |-> FALSE]

set_IRQline(i, level) ==
  [line |-> level, pending |-> i.pending \/ (level = 1 /\ i.line = 0)]

\* What the vCPU leaves when it takes the pending vector.
taken(i) == [i EXCEPT !.pending = FALSE]
=============================================================================
