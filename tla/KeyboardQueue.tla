--------------------------- MODULE KeyboardQueue ---------------------------
(***************************************************************************)
(* What the emulated keyboard promises to its two users, the input thread  *)
(* of the monitor and the guest: a bounded first-in first-out queue that   *)
(* silently loses what arrives while the keyboard is off or the queue is   *)
(* full, and an interrupt request that is up whenever the guest asked for  *)
(* it and a keycode waits, is never up with nothing to read, and is only   *)
(* withdrawn by a read.                                                    *)
(***************************************************************************)
EXTENDS Naturals, Sequences

CONSTANTS Capacity,     \* number of keycodes the queue can hold
          Codes         \* the keycodes

VARIABLES queue,        \* keycodes waiting for the guest, oldest first
          data,         \* the data register: the keycode last read
          accepting,    \* the keyboard is on
          notifying,    \* the guest asked for interrupts
          request       \* the interrupt request

vars == <<queue, data, accepting, notifying, request>>

(***************************************************************************)
(* The request is up when it has to be, and only when it may be.           *)
(***************************************************************************)
RequestJustified ==
  /\ notifying /\ queue # << >> => request
  /\ request => queue # << >>

Init ==
  /\ queue = << >>
  /\ data = 0
  /\ accepting = FALSE
  /\ notifying = FALSE
  /\ request = FALSE

Arrive(k) ==
  /\ queue' = IF accepting /\ Len(queue) < Capacity THEN Append(queue, k) ELSE queue
  /\ request => request'
  /\ UNCHANGED <<data, accepting, notifying>>

Read ==
  /\ IF queue = << >>
       THEN UNCHANGED <<queue, data>>
       ELSE data' = Head(queue) /\ queue' = Tail(queue)
  /\ UNCHANGED <<accepting, notifying>>

Configure(on, notify) ==
  /\ accepting' = on
  /\ notifying' = notify
  /\ request => request'
  /\ UNCHANGED <<queue, data>>

Next ==
  /\ \/ \E k \in Codes : Arrive(k)
     \/ Read
     \/ \E on, notify \in BOOLEAN : Configure(on, notify)
  /\ RequestJustified'

Spec == Init /\ [][Next]_vars
=============================================================================
