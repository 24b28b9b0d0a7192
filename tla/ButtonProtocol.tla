--------------------------- MODULE ButtonProtocol ---------------------------
(***************************************************************************)
(* What the create functions of buttons.c promise the callback of a button *)
(* (the notes on lines 569-813): which states it is passed, and in which   *)
(* order.  At most one button is held, that is between PRESS and RELEASE.  *)
(***************************************************************************)
CONSTANTS
  Masks,    \* id masks a button can be created for
  Kinds     \* Kinds[m]: the kinds a button of mask m may be of

VARIABLES
  type,     \* type[m]: kind of the button of mask m, "free" when there is none
  told,     \* told[m]: the state its callback was passed last, "release" before
  called    \* a call of a callback is the last thing that happened

bvars == <<type, told, called>>

HeldStates == {"press", "repeat_press"}
Held(m) == told[m] \in HeldStates

\* The states the callback of a button of kind t may be passed after s.
Follow(t, s) ==
  CASE t = "short"      -> {"release"}
    [] t = "short_long" -> IF s = "press" THEN {"repeat_release"} ELSE {"press", "release"}
    [] t = "repeat"     -> IF s \in HeldStates THEN {"repeat_press", "release"} ELSE {"press"}
    [] OTHER            -> IF s = "press" THEN {"release"} ELSE {"press"}

Init ==
  /\ type = [m \in Masks |-> "free"]
  /\ told = [m \in Masks |-> "release"]
  /\ called = FALSE

Create(m, t) ==
  /\ type[m] = "free" /\ t \in Kinds[m]
  /\ type' = [type EXCEPT ![m] = t]
  /\ UNCHANGED <<told, called>>

\* A button is destroyed only between two gestures.
Destroy(m) ==
  /\ type[m] # "free" /\ ~Held(m)
  /\ type' = [type EXCEPT ![m] = "free"]
  /\ told' = [told EXCEPT ![m] = "release"]
  /\ UNCHANGED called

\* buttons_deinit frees all of them.
DestroyAll ==
  /\ \A m \in Masks : ~Held(m)
  /\ type' = [m \in Masks |-> "free"]
  /\ told' = [m \in Masks |-> "release"]
  /\ UNCHANGED called

Tell(m, s) ==
  /\ type[m] # "free" /\ s \in Follow(type[m], told[m])
  /\ \A n \in Masks : Held(n) => n = m
  /\ told' = [told EXCEPT ![m] = s]
  /\ ~called /\ called' = TRUE
  /\ UNCHANGED type

Quiet == called' = FALSE /\ UNCHANGED <<type, told>>

Next ==
  \/ \E m \in Masks :
       \/ \E t \in Kinds[m] : Create(m, t)
       \/ Destroy(m)
       \/ \E s \in {"press", "release", "repeat_press", "repeat_release"} : Tell(m, s)
  \/ DestroyAll \/ Quiet

Spec == Init /\ [][Next]_bvars
=============================================================================
