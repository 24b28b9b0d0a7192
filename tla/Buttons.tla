------------------------------ MODULE Buttons -------------------------------
(***************************************************************************)
(* The buttons of project/common/apps/buttons: interrupts of the keys and  *)
(* a one-shot timer release one binary semaphore; the buttons thread waits *)
(* for it, handles the timer if it is marked as expired, else samples the  *)
(* keys and turns the change into releases, presses and callbacks.  The    *)
(* application creates, starts, stops and destroys buttons meanwhile.      *)
(***************************************************************************)
EXTENDS Naturals, FiniteSets

CONSTANTS
  Keys,     \* hardware keys; a state of the keys is the set of those pressed
  Kinds,    \* Kinds[m]: the kinds (BUTTON_TYPE) the application may create
            \* for the id mask m
  Races     \* what may happen besides the usual, of RaceKinds

\* late_expiry: a SHORT_LONG_BUTTON's timer expires while the thread is
\*   already handling a change of the keys.
\* destroy_in_press: button_destroy looks at current_tiggered_obj while the
\*   thread is about to press that very button.
\* press_in_destroy: the thread looks a button up after button_destroy looked
\*   at current_tiggered_obj and before it frees the button.
\* held_deinit: buttons_deinit while a key is or may be pressed.
RaceKinds == {"late_expiry", "destroy_in_press", "press_in_destroy", "held_deinit"}

\* The id masks of buttons.  NULL is written as the mask without a key.
Masks == (SUBSET Keys) \ {{}}
None == {}
AllKinds == {"short", "long", "short_long", "combined", "repeat"}

ASSUME ButtonsAssumption ==
  /\ Kinds \in [Masks -> SUBSET AllKinds]
  /\ \A m \in Masks : \A t \in Kinds[m] : t = "combined" <=> Cardinality(m) > 1
  /\ Races \subseteq RaceKinds

VARIABLES
  keys,     \* the keys pressed
  sem,      \* count of buttons_sem
  armed,    \* buttons_timer is active
  timeup,   \* buttons_timer_time_up
  run,      \* buttons_thread_run_flag
  pc,       \* where the thread stands; "gone" after it ends, "off" after deinit
  scan,     \* keys still to be sampled by low_level_get_state
  got,      \* the sampled keys that were pressed
  prev,     \* prev_buttons_state
  obj,      \* obj, the button of the new state
  current,  \* current_tiggered_obj
  type,     \* type[m]: obj->func of the button of mask m, "free" if there is none
  en,       \* the buttons with obj->en
  dying,    \* the buttons that button_destroy has checked and not yet freed
  state,    \* state[m]: obj->state
  told,     \* history: the state the callback of m was passed last, RELEASE before
  called,   \* history: a callback was called since the last token was taken
  seen      \* history: the last token was served by sampling the keys

app   == <<type, en, dying>>
input == <<keys, sem, armed, timeup>>
scans == <<scan, got, prev, obj>>
calls == <<told, called>>
vars  == <<input, run, pc, scans, current, app, state, calls, seen>>

Init ==
  /\ keys \in SUBSET Keys
  /\ sem = 0 /\ armed = FALSE /\ timeup = FALSE
  /\ run = TRUE /\ pc = "wait"
  /\ scan = {} /\ got = {} /\ prev = {}
  /\ obj = None /\ current = None
  /\ type = [m \in Masks |-> "free"]
  /\ en = {} /\ dying = {}
  /\ state = [m \in Masks |-> "invalid"]
  /\ told = [m \in Masks |-> "release"] /\ called = FALSE
  /\ seen = FALSE

Kind(m) == IF m = None THEN "none" ELSE type[m]

\* The thread has looked m up and is about to press it.
Chosen(m) == pc \in {"release", "press"} /\ m = obj

-----------------------------------------------------------------------------
(* Interrupts *)

\* Mutant: a counting semaphore in place of the binary one.
EdgeCounts(k) ==
  /\ pc # "off" /\ sem < 3
  /\ keys' = (keys \ {k}) \cup ({k} \ keys)
  /\ sem' = sem + 1
  /\ UNCHANGED <<armed, timeup, run, pc, scans, current, app, state, calls, seen>>

\* A key is pressed or released: gpio_buttons_cb releases the semaphore,
\* which has room for one token.  After deinit the interrupt is off.
Edge(k) ==
  /\ "held_deinit" \in Races \/ run \/ pc = "off"
  /\ keys' = (keys \ {k}) \cup ({k} \ keys)
  /\ sem' = IF pc = "off" THEN sem ELSE 1
  /\ UNCHANGED <<armed, timeup, run, pc, scans, current, app, state, calls, seen>>

\* buttons_timer_cb: the timer task has the highest priority, so the thread
\* does not run between the two lines of it.
Expire ==
  /\ armed
  /\ \/ "late_expiry" \in Races
     \/ pc \notin {"read", "release", "press"} \/ Kind(current) # "short_long"
  /\ armed' = FALSE
  /\ sem' = 1 /\ timeup' = TRUE
  /\ UNCHANGED <<keys, run, pc, scans, current, app, state, calls, seen>>

-----------------------------------------------------------------------------
(* buttons_process_thread *)

\* The condition of the thread's loop.
Again == IF run THEN "wait" ELSE "gone"

Tell(m, what) ==
  /\ told' = [told EXCEPT ![m] = what]
  /\ called' = TRUE

Take ==
  /\ pc = "wait" /\ sem = 1
  /\ sem' = 0
  /\ \/ /\ timeup
        /\ pc' = "event" /\ seen' = FALSE
        /\ UNCHANGED scan
     \/ /\ ~timeup
        /\ pc' = "read" /\ seen' = TRUE
        /\ scan' = Keys
  /\ got' = {} /\ called' = FALSE
  /\ UNCHANGED <<keys, armed, timeup, run, prev, obj, current, app, state, told>>

\* button_timer_event, up to the return.
Event ==
  /\ pc = "event" /\ pc' = "clear"
  /\ \/ /\ Kind(current) \in {"none", "short"}
        /\ UNCHANGED <<armed, state, calls>>
     \/ /\ Kind(current) \in {"long", "short_long", "combined"}
        /\ state' = [state EXCEPT ![current] = "press"]
        /\ Tell(current, "press")
        /\ UNCHANGED armed
     \/ /\ Kind(current) = "repeat"
        /\ LET s == IF state[current] = "invalid" THEN "press" ELSE "repeat_press"
           IN state' = [state EXCEPT ![current] = s] /\ Tell(current, s)
        /\ armed' = TRUE
  /\ UNCHANGED <<keys, sem, timeup, run, scans, current, app, seen>>

\* The mark is taken back after the event: an expiry in between is lost.
Clear ==
  /\ pc = "clear" /\ pc' = Again
  /\ timeup' = FALSE
  /\ UNCHANGED <<keys, sem, armed, run, scans, current, app, state, calls, seen>>

\* buttons_low_level_get_state: the keys are sampled one after the other,
\* with a pause after each that seems pressed.
Sample(k) ==
  /\ pc = "read" /\ k \in scan
  /\ scan' = scan \ {k}
  /\ got' = got \cup ({k} \cap keys)
  /\ UNCHANGED <<input, run, pc, prev, obj, current, app, state, calls, seen>>

\* get_buttons_obj for the sampled keys.
Found == IF got # {} /\ type[got] # "free" THEN got ELSE None

\* A button found is pressed next; without one the thread starts over.
AfterRelease(o) == IF o = None THEN Again ELSE "press"

\* Mutant: the semaphore is emptied once the keys are sampled.
LookDrains ==
  /\ pc = "read" /\ scan = {} /\ got' = {} /\ sem' = 0
  /\ \/ got = prev /\ pc' = Again /\ UNCHANGED <<prev, obj>>
     \/ /\ got # prev /\ prev' = got
        /\ "press_in_destroy" \in Races \/ got \notin dying
        /\ obj' = Found
        /\ pc' = IF current = None THEN AfterRelease(Found) ELSE "release"
  /\ UNCHANGED <<keys, armed, timeup, run, scan, current, app, state, calls, seen>>

\* The new state of the keys.  A button that is current is released first.
Look ==
  /\ pc = "read" /\ scan = {} /\ got' = {}
  /\ \/ got = prev /\ pc' = Again /\ UNCHANGED <<prev, obj>>
     \/ /\ got # prev /\ prev' = got
        /\ "press_in_destroy" \in Races \/ got \notin dying
        /\ obj' = Found
        /\ pc' = IF current = None THEN AfterRelease(Found) ELSE "release"
  /\ UNCHANGED <<input, run, scan, current, app, state, calls, seen>>

\* Mutant: REPEAT_PRESS is forgotten in long_button_release.
ReleaseSaysOnce(m) ==
  CASE type[m] = "short_long" /\ armed -> "release"
    [] type[m] = "short_long" /\ ~armed /\ state[m] = "press" -> "repeat_release"
    [] type[m] = "short" /\ prev = {} /\ state[m] = "press" -> "release"
    [] type[m] \notin {"short", "short_long"} /\ state[m] = "press" -> "release"
    [] OTHER -> "none"

\* What the release of m passes to its callback, "none" when it is not called.
ReleaseSays(m) ==
  CASE type[m] = "short_long" /\ armed -> "release"
    [] type[m] = "short_long" /\ ~armed /\ state[m] = "press" -> "repeat_release"
    [] type[m] = "short" /\ prev = {} /\ state[m] = "press" -> "release"
    [] type[m] \in {"long", "repeat"} /\ state[m] \in {"press", "repeat_press"} -> "release"
    [] type[m] = "combined" /\ state[m] = "press" -> "release"
    [] OTHER -> "none"

\* Whether it stops the timer and takes the mark back.
ReleaseStops(m) ==
  \/ type[m] \in {"long", "combined", "repeat"}
  \/ type[m] = "short_long" /\ armed

\* Mutant: a button that is interrupted keeps its state.
ReleaseKeepsState ==
  /\ pc = "release" /\ pc' = AfterRelease(obj)
  /\ IF ReleaseSays(current) = "none" THEN UNCHANGED calls ELSE Tell(current, ReleaseSays(current))
  /\ IF ReleaseStops(current) THEN armed' = FALSE /\ timeup' = FALSE ELSE UNCHANGED <<armed, timeup>>
  /\ state' = IF prev = {} THEN [state EXCEPT ![current] = "invalid"] ELSE state
  /\ current' = IF prev = {} THEN None ELSE current
  /\ UNCHANGED <<keys, sem, run, scans, app, seen>>

\* Mutant: a button is released only when no other takes its place.
ReleaseIfAlone ==
  /\ pc = "release" /\ pc' = AfterRelease(obj)
  /\ IF ReleaseSays(current) = "none" \/ obj # None
     THEN UNCHANGED calls ELSE Tell(current, ReleaseSays(current))
  /\ IF ReleaseStops(current) THEN armed' = FALSE /\ timeup' = FALSE ELSE UNCHANGED <<armed, timeup>>
  /\ state' = [state EXCEPT ![current] = "invalid"]
  /\ current' = IF prev = {} THEN None ELSE current
  /\ UNCHANGED <<keys, sem, run, scans, app, seen>>

\* release_current_tiggered_obj: the button is let go of only when no key is
\* pressed; until then it stays current in the state INVALID_STA.
Release ==
  /\ pc = "release" /\ pc' = AfterRelease(obj)
  /\ IF ReleaseSays(current) = "none" THEN UNCHANGED calls ELSE Tell(current, ReleaseSays(current))
  /\ IF ReleaseStops(current) THEN armed' = FALSE /\ timeup' = FALSE ELSE UNCHANGED <<armed, timeup>>
  /\ state' = [state EXCEPT ![current] = "invalid"]
  /\ current' = IF prev = {} THEN None ELSE current
  /\ UNCHANGED <<keys, sem, run, scans, app, seen>>

\* A press takes effect when no button is current; a combined button also
\* takes over from any button but a combined one.  (combined_long_button_press
\* releases that one a second time, which finds nothing left to do.)
MayPress(m) ==
  /\ m \in en
  /\ \/ current = None
     \/ type[m] = "combined" /\ Kind(current) # "combined"

PressShort ==
  /\ pc = "press" /\ pc' = Again /\ obj' = None
  /\ MayPress(obj) /\ type[obj] = "short"
  /\ state' = [state EXCEPT ![obj] = "press"]
  /\ current' = obj
  /\ UNCHANGED <<input, run, scan, got, prev, app, calls, seen>>

\* The other kinds wait for the timer.
PressTimed ==
  /\ pc = "press" /\ pc' = Again /\ obj' = None
  /\ MayPress(obj) /\ type[obj] # "short"
  /\ armed' = TRUE
  /\ state' = [state EXCEPT ![obj] = "invalid"]
  /\ current' = obj
  /\ UNCHANGED <<keys, sem, timeup, run, scan, got, prev, app, calls, seen>>

NoPress ==
  /\ pc = "press" /\ pc' = Again /\ obj' = None
  /\ ~MayPress(obj)
  /\ UNCHANGED <<input, run, scan, got, prev, current, app, state, calls, seen>>

Thread ==
  \/ Take \/ Event \/ Clear \/ Look \/ \E k \in Keys : Sample(k)
  \/ Release \/ PressShort \/ PressTimed \/ NoPress

-----------------------------------------------------------------------------
(* The application, in any thread and in callbacks *)

\* create_*_button; a second button of the same mask is refused.
Create(m, t) ==
  /\ pc # "off" /\ type[m] = "free" /\ t \in Kinds[m]
  /\ type' = [type EXCEPT ![m] = t]
  /\ UNCHANGED <<input, run, pc, scans, current, en, dying, state, calls, seen>>

\* button_start and button_stop.
Start(m) ==
  /\ type[m] # "free"
  /\ en' = en \cup {m}
  /\ UNCHANGED <<input, run, pc, scans, current, type, dying, state, calls, seen>>

Stop(m) ==
  /\ type[m] # "free"
  /\ en' = en \ {m}
  /\ UNCHANGED <<input, run, pc, scans, current, type, dying, state, calls, seen>>

\* Mutant: the current button is destroyed as well.
DestroyAny(m) ==
  /\ type[m] # "free" /\ m \notin dying
  /\ "destroy_in_press" \in Races \/ ~Chosen(m)
  /\ dying' = dying \cup {m}
  /\ UNCHANGED <<input, run, pc, scans, current, type, en, state, calls, seen>>

\* button_destroy first refuses the current button, and no other.  No lock is
\* held: the thread and the other callers go on before it frees the button.
\* A button has one caller that destroys it.
DestroyCheck(m) ==
  /\ type[m] # "free" /\ m \notin dying
  /\ m # current
  /\ "destroy_in_press" \in Races \/ ~Chosen(m)
  /\ dying' = dying \cup {m}
  /\ UNCHANGED <<input, run, pc, scans, current, type, en, state, calls, seen>>

\* Then the button leaves the list and is freed, whatever the thread does with
\* it by now.  It is left here as a new one is found: disabled, in INVALID_STA.
DestroyFree(m) ==
  /\ m \in dying /\ dying' = dying \ {m}
  /\ type' = [type EXCEPT ![m] = "free"]
  /\ en' = en \ {m}
  /\ state' = [state EXCEPT ![m] = "invalid"]
  /\ told' = [told EXCEPT ![m] = "release"]
  /\ UNCHANGED <<input, run, pc, scans, current, called, seen>>

\* buttons_deinit up to the wait for the thread; without a button it returns.
Deinit ==
  /\ run /\ pc # "off"
  /\ \E m \in Masks : type[m] # "free"
  /\ \/ "held_deinit" \in Races
     \/ keys = {} /\ current = None /\ pc = "wait"
  /\ run' = FALSE /\ sem' = 1
  /\ UNCHANGED <<keys, armed, timeup, pc, scans, current, app, state, calls, seen>>

\* The rest of it, once the thread is gone.  current_tiggered_obj and
\* buttons_timer_time_up keep their values.  A button_destroy that is past its
\* check finds the list empty.
Freed ==
  /\ pc = "gone" /\ pc' = "off"
  /\ type' = [m \in Masks |-> "free"] /\ en' = {} /\ dying' = {}
  /\ state' = [m \in Masks |-> "invalid"]
  /\ told' = [m \in Masks |-> "release"]
  /\ armed' = FALSE
  /\ UNCHANGED <<keys, sem, timeup, run, scans, current, called, seen>>

\* buttons_init once more: a new thread and a new, empty semaphore.
Reinit ==
  /\ pc = "off" /\ pc' = "wait" /\ run' = TRUE
  /\ sem' = 0 /\ prev' = {} /\ seen' = FALSE
  /\ UNCHANGED <<keys, armed, timeup, scan, got, obj, current, app, state, calls>>

App ==
  \/ \E m \in Masks :
       \/ \E t \in Kinds[m] : Create(m, t)
       \/ Start(m) \/ Stop(m) \/ DestroyCheck(m) \/ DestroyFree(m)
  \/ Deinit \/ Freed \/ Reinit

Next == Expire \/ (\E k \in Keys : Edge(k)) \/ Thread \/ App

\* The thread runs whenever it can, and so does a button_destroy past its
\* check, which waits for nothing.  Nothing else is assumed of the keys, the
\* timer and the application.  Strong for Look, which waits for nothing in the
\* code: calls of button_destroy that Races keeps out of its way, one after the
\* other, must not hold it up for ever.
Fairness ==
  /\ WF_vars(Thread) /\ SF_vars(Look)
  /\ \A m \in Masks : WF_vars(DestroyFree(m))

Spec == Init /\ [][Next]_vars
FairSpec == Spec /\ Fairness

-----------------------------------------------------------------------------
(* Properties *)

\* The values of the variables; the semaphore never holds two tokens.
TypeOK ==
  /\ keys \in SUBSET Keys
  /\ sem \in {0, 1} /\ armed \in BOOLEAN /\ timeup \in BOOLEAN
  /\ run \in BOOLEAN
  /\ pc \in {"wait", "event", "clear", "read", "release", "press", "gone", "off"}
  /\ scan \in SUBSET Keys /\ got \in SUBSET Keys /\ prev \in SUBSET Keys
  /\ obj \in SUBSET Keys /\ current \in SUBSET Keys
  /\ type \in [Masks -> AllKinds \cup {"free"}]
  /\ en \in SUBSET Masks /\ dying \in SUBSET Masks
  /\ state \in [Masks -> {"invalid", "press", "repeat_press"}]
  /\ told \in [Masks -> {"press", "release", "repeat_press", "repeat_release"}]
  /\ called \in BOOLEAN
  /\ seen \in BOOLEAN

\* The thread has a pointer to m: in current_tiggered_obj, which it keeps from
\* one gesture's first key to the last key's release, also while other keys
\* interrupt it, or in obj.
InUse(m) == m = current \/ Chosen(m)

\* No button the thread has a pointer to is freed: the comparison with
\* current_tiggered_obj in button_destroy is enough, as long as the call does
\* not overlap the thread's way from the lookup of that button to its press.
\* With destroy_in_press or press_in_destroy in Races it is not.
NoUseAfterFree == \A m \in Masks : InUse(m) => type[m] # "free"

\* A button whose callback was passed PRESS or REPEAT_PRESS last is the
\* current one, so that its RELEASE is still to come.
Held(m) == told[m] \in {"press", "repeat_press"}
HeldIsCurrent == \A m \in Masks : Held(m) => current = m

\* The thread waits without a token, and has not seen the keys as they are.
Unread == pc = "wait" /\ sem = 0 /\ prev # keys

\* A change of the keys is overlooked only when its token was taken for the
\* timer's, or before the thread started: one semaphore that holds one token
\* stands for all keys and the timer.
OverlookedOnlyForTimer == Unread => ~seen

\* Callbacks are passed what the create functions promise, in order, and one
\* button is held at a time.
Protocol == INSTANCE ButtonProtocol
ImplementsProtocol == Protocol!Spec

\* A held button is told of its release once all keys are released, unless
\* the change was overlooked, and then it hears of it with the next one.
HeldReleased ==
  (keys = {} /\ \E m \in Masks : Held(m))
    ~> (keys # {} \/ Unread \/ \A m \in Masks : ~Held(m))
=============================================================================
