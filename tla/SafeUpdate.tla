----------------------------- MODULE SafeUpdate -----------------------------
(***************************************************************************)
(* What an over-the-air update promises, without saying how: at every      *)
(* instant the image a reset would run is sound, nothing but a switch to   *)
(* another sound image changes which one that is, and neither it nor the   *)
(* image that is running is ever written.                                  *)
(***************************************************************************)
CONSTANTS
  Slots,    \* the image slots
  Off       \* not a slot: no image is running

VARIABLES
  sound,    \* the slots that hold a sound image
  next,     \* the slot a reset would run
  run       \* the slot that is running, or Off

Init == sound \subseteq Slots /\ next \in sound /\ run = Off

\* What a program may do to the contents of a slot.
Rewrite(s) == s \notin {next, run} /\ sound' \in {sound \ {s}, sound \cup {s}}

Write == /\ \E s \in Slots : Rewrite(s)
         /\ UNCHANGED <<next, run>>

Switch == next' \in sound /\ UNCHANGED <<sound, run>>

Boot == run = Off /\ run' = next /\ UNCHANGED <<sound, next>>

\* A reset; a write that is under way stops in the middle.
Stop == /\ run' = Off /\ next' = next
        /\ sound' = sound \/ \E s \in Slots : Rewrite(s)

Next == Write \/ Switch \/ Boot \/ Stop

Spec == Init /\ [][Next]_<<sound, next, run>>
=============================================================================
