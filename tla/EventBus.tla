------------------------------ MODULE EventBus ------------------------------
(***************************************************************************)
(* What the publisher of sys_ctrl promises its observers, without a list:  *)
(* an event reaches every observer that is interested and stays attached,  *)
(* no observer twice, and a touched observer is good for one event.        *)
(***************************************************************************)
CONSTANTS Observers,    \* the observers
          Events,       \* the events
          Interested    \* for every event, the observers that watch it

VARIABLES sub,    \* sub[o]: "none", "attached" or "once"
          busy,   \* an event is being passed on
          ev,     \* the event
          due,    \* observers it still has to reach
          past    \* observers it reaches no more

vars == <<sub, busy, ev, due, past>>

Init ==
  /\ sub = [o \in Observers |-> "none"]
  /\ busy = FALSE
  /\ ev \in Events
  /\ due = {} /\ past = {}

\* An observer attached while an event is passed on may or may not get it,
\* but never a second time.
Attach(o, how) ==
  /\ sub[o] = "none"
  /\ sub' = [sub EXCEPT ![o] = how]
  /\ \/ due' = due
     \/ busy /\ o \in Interested[ev] \ past /\ due' = due \cup {o}
  /\ UNCHANGED <<busy, ev, past>>

Detach(o) ==
  /\ sub' = [sub EXCEPT ![o] = "none"]
  /\ due' = due \ {o}
  /\ UNCHANGED <<busy, ev, past>>

Notify(e) ==
  /\ ~busy /\ busy' = TRUE
  /\ ev' = e
  /\ due' = {o \in Interested[e] : sub[o] # "none"}
  /\ past' = {}
  /\ UNCHANGED sub

Deliver(o) ==
  /\ o \in due
  /\ due' = due \ {o}
  /\ past' = past \cup {o}
  /\ sub' = [sub EXCEPT ![o] = IF @ = "once" THEN "none" ELSE @]
  /\ UNCHANGED <<busy, ev>>

Skip(o) ==
  /\ busy /\ o \notin due
  /\ past' = past \cup {o}
  /\ UNCHANGED <<sub, busy, ev, due>>

\* The event is done with only when nobody is left.
Finish ==
  /\ busy /\ due = {} /\ busy' = FALSE
  /\ past' = {}
  /\ UNCHANGED <<sub, ev, due>>

Pass == Finish \/ \E o \in Observers : Deliver(o) \/ Skip(o)

Next ==
  \/ \E o \in Observers : \/ \E how \in {"attached", "once"} : Attach(o, how)
                          \/ Detach(o)
  \/ \E e \in Events : Notify(e)
  \/ Pass

Spec == Init /\ [][Next]_vars
=============================================================================
