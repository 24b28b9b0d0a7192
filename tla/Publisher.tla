----------------------------- MODULE Publisher ------------------------------
(***************************************************************************)
(* The publisher of sys_ctrl (publisher.c, observer.c): a list of          *)
(* observers under a recursive mutex, and notify, which walks it and calls *)
(* back.  A callback runs in the publisher's thread and may attach and     *)
(* detach; other threads wait for the mutex while notify runs, but may     *)
(* destroy an observer at any time, because observer_destroy takes no lock.*)
(***************************************************************************)
EXTENDS Naturals, Sequences

CONSTANTS
  Observers,   \* the observers of the program
  Types,       \* event types
  SubTypes,    \* event subtypes
  AllSub,      \* ALL_SUBTYPE
  Watch,       \* Watch[o]: the event observer o was created for
  Habits       \* what callbacks do besides the usual, of HabitKinds

Events == [type : Types, sub : SubTypes]

\* detach_unlisted: a callback detaches an observer that is not attached.
\* retouch_self: a callback detaches its own observer and touches it again.
HabitKinds == {"detach_unlisted", "retouch_self"}

ASSUME PublisherAssumption ==
  /\ AllSub \in SubTypes
  /\ Watch \in [Observers -> Events]
  /\ Habits \subseteq HabitKinds

VARIABLES
  alive,   \* observers that are allocated
  st,      \* obs->state: "idle", "attached", "once" or "detached"
  list,    \* base->head
  phase,   \* where notify stands, "idle" when the mutex is free
  at,      \* position of the iterator
  cur,     \* the observer called back, or unlinked and not yet idle
  ev,      \* the event notify was called with
  anew     \* history: observers attached in the callback that is running

vars == <<alive, st, list, phase, at, cur, ev, anew>>

Phases == {"idle", "scan", "callback", "sweep", "unlinked"}

Listed == {list[i] : i \in 1..Len(list)}
Live(o) == st[o] \in {"attached", "once"}

\* compare of sys_ctrl.c
Matches(new, obs) ==
  /\ new.type = obs.type
  /\ obs.sub = AllSub \/ new = obs

Drop(s, i) == SubSeq(s, 1, i - 1) \o SubSeq(s, i + 1, Len(s))

Init ==
  /\ alive = {} /\ list = <<>>
  /\ st = [o \in Observers |-> "idle"]
  /\ phase = "idle" /\ at = 0 /\ anew = {}
  /\ cur \in Observers /\ ev \in Events

\* observer_create and its variants: memset makes the state OBSERVER_ILDE.
Create(o) ==
  /\ o \notin alive
  /\ alive' = alive \cup {o}
  /\ st' = [st EXCEPT ![o] = "idle"]
  /\ UNCHANGED <<list, phase, at, cur, ev, anew>>

\* observer_destroy refuses any other state, and looks at nothing else.
Destroy(o) ==
  /\ o \in alive /\ st[o] = "idle"
  /\ alive' = alive \ {o}
  /\ UNCHANGED <<st, list, phase, at, cur, ev, anew>>

\* The caller has the mutex: any thread when it is free, else a callback.
MayCall(o) == o \in alive /\ phase \in {"idle", "callback"}

\* Mutant: the test that the observer is not on the list is lost.
AttachTwice(o, as) ==
  /\ MayCall(o)
  /\ list' = Append(list, o) /\ Len(list) < 4
  /\ st' = [st EXCEPT ![o] = as]
  /\ UNCHANGED <<alive, phase, at, cur, ev, anew>>

\* Mutant: an observer on its way out is put back without its `once'.
AttachForgetsOnce(o, as) ==
  /\ MayCall(o)
  /\ \/ st[o] = "detached" /\ st' = [st EXCEPT ![o] = "attached"] /\ UNCHANGED list
     \/ o \notin Listed /\ list' = Append(list, o) /\ st' = [st EXCEPT ![o] = as]
  /\ anew' = IF phase = "callback" THEN anew \cup {o} ELSE anew
  /\ UNCHANGED <<alive, phase, at, cur, ev>>

\* attach ("attached") and attach_once ("once") that return 0.  A second
\* attach returns -1 and changes nothing.
Attach(o, as) ==
  /\ MayCall(o)
  /\ "retouch_self" \in Habits \/ phase = "idle" \/ o # cur \/ as = "attached"
  /\ \/ st[o] = "detached" /\ UNCHANGED list
     \/ st[o] # "detached" /\ o \notin Listed /\ list' = Append(list, o)
  /\ st' = [st EXCEPT ![o] = as]
  /\ anew' = IF phase = "callback" THEN anew \cup {o} ELSE anew
  /\ UNCHANGED <<alive, phase, at, cur, ev>>

\* detach while no event is passed on.
DetachNow(o) ==
  /\ MayCall(o) /\ phase = "idle"
  /\ \/ \E i \in 1..Len(list) : list[i] = o /\ list' = Drop(list, i)
     \/ o \notin Listed /\ UNCHANGED list
  /\ st' = [st EXCEPT ![o] = "idle"]
  /\ UNCHANGED <<alive, phase, at, cur, ev, anew>>

\* Mutant: the observer is unlinked under the iterator.
DetachUnlinks(o) ==
  /\ MayCall(o) /\ phase = "callback"
  /\ \E i \in 1..Len(list) : list[i] = o /\ list' = Drop(list, i)
  /\ st' = [st EXCEPT ![o] = "idle"]
  /\ UNCHANGED <<alive, phase, at, cur, ev, anew>>

\* Mutant: a detached observer is idle at once, though still on the list.
DetachIdles(o) ==
  /\ MayCall(o) /\ phase = "callback" /\ o \in Listed
  /\ st' = [st EXCEPT ![o] = "idle"]
  /\ UNCHANGED <<alive, list, phase, at, cur, ev, anew>>

\* detach from a callback only marks the observer: notify is on the list.
DetachLater(o) ==
  /\ MayCall(o) /\ phase = "callback"
  /\ "detach_unlisted" \in Habits \/ o \in Listed
  /\ st' = [st EXCEPT ![o] = "detached"]
  /\ UNCHANGED <<alive, list, phase, at, cur, ev, anew>>

Notify(e) ==
  /\ phase = "idle"
  /\ phase' = "scan" /\ at' = 1 /\ ev' = e
  /\ UNCHANGED <<alive, st, list, cur, anew>>

\* The iterator is on an observer to call back ...
ScanCall ==
  /\ phase = "scan" /\ at <= Len(list)
  /\ Matches(ev, Watch[list[at]]) /\ Live(list[at])
  /\ cur' = list[at]
  /\ phase' = "callback"
  /\ UNCHANGED <<alive, st, list, at, ev, anew>>

\* ... or on another one ...
ScanSkip ==
  /\ phase = "scan" /\ at <= Len(list)
  /\ ~(Matches(ev, Watch[list[at]]) /\ Live(list[at]))
  /\ at' = at + 1
  /\ UNCHANGED <<alive, st, list, phase, cur, ev, anew>>

\* ... or back on the head.
ScanEnd ==
  /\ phase = "scan" /\ at > Len(list)
  /\ phase' = "sweep" /\ at' = 1
  /\ UNCHANGED <<alive, st, list, cur, ev, anew>>

\* Mutant: a touched observer is idle at once, and the sweep does not see it.
ReturnIdles ==
  /\ phase = "callback"
  /\ st' = [st EXCEPT ![cur] = IF @ = "once" THEN "idle" ELSE @]
  /\ phase' = "scan" /\ at' = at + 1 /\ anew' = {}
  /\ UNCHANGED <<alive, list, cur, ev>>

\* Mutant: the walk starts over after a callback, which may have changed the list.
ReturnRestarts ==
  /\ phase = "callback"
  /\ st' = [st EXCEPT ![cur] = IF @ = "once" THEN "detached" ELSE @]
  /\ phase' = "scan" /\ at' = 1 /\ anew' = {}
  /\ UNCHANGED <<alive, list, cur, ev>>

\* The callback returns, and a touched observer is detached.
Return ==
  /\ phase = "callback"
  /\ st' = [st EXCEPT ![cur] = IF @ = "once" THEN "detached" ELSE @]
  /\ phase' = "scan" /\ at' = at + 1 /\ anew' = {}
  /\ UNCHANGED <<alive, list, cur, ev>>

SweepUnlink ==
  /\ phase = "sweep" /\ at <= Len(list) /\ st[list[at]] = "detached"
  /\ cur' = list[at]
  /\ list' = Drop(list, at)
  /\ phase' = "unlinked"
  /\ UNCHANGED <<alive, st, at, ev, anew>>

SweepIdle ==
  /\ phase = "unlinked"
  /\ st' = [st EXCEPT ![cur] = "idle"]
  /\ phase' = "sweep"
  /\ UNCHANGED <<alive, list, at, cur, ev, anew>>

SweepKeep ==
  /\ phase = "sweep" /\ at <= Len(list) /\ st[list[at]] # "detached"
  /\ at' = at + 1
  /\ UNCHANGED <<alive, st, list, phase, cur, ev, anew>>

SweepEnd ==
  /\ phase = "sweep" /\ at > Len(list)
  /\ phase' = "idle" /\ at' = 0
  /\ UNCHANGED <<alive, st, list, cur, ev, anew>>

\* The calls of the program, and the steps of a notify that has started.
Call ==
  \E o \in Observers :
    \/ Create(o) \/ Destroy(o) \/ DetachNow(o) \/ DetachLater(o)
    \/ \E as \in {"attached", "once"} : Attach(o, as)

Proceed == \/ ScanCall \/ ScanSkip \/ ScanEnd \/ Return
           \/ SweepUnlink \/ SweepIdle \/ SweepKeep \/ SweepEnd

Next == Call \/ (\E e \in Events : Notify(e)) \/ Proceed

Spec == Init /\ [][Next]_vars

\* The thread that has the mutex is scheduled, and callbacks return.
FairSpec == Spec /\ WF_vars(Proceed)
-----------------------------------------------------------------------------
\* Types of the variables; no observer is in the list twice.
TypeOK ==
  /\ alive \subseteq Observers
  /\ st \in [Observers -> {"idle", "attached", "once", "detached"}]
  /\ list \in Seq(Observers)
  /\ \A i, j \in 1..Len(list) : list[i] = list[j] => i = j
  /\ phase \in Phases /\ at \in 0..(Len(list) + 1)
  /\ cur \in Observers /\ ev \in Events /\ anew \subseteq Observers

\* notify never touches the memory of an observer that is freed,
\* though observer_destroy runs without the mutex and may come between any
\* two of its steps: unlinked and in use is never the same as idle.
NoUseAfterFree ==
  /\ Listed \subseteq alive
  /\ phase \in {"callback", "unlinked"} => cur \in alive

\* With the mutex free, the observers on the list are exactly the attached
\* ones (an attach that returned 0 is in force), and no observer is stuck in
\* OBSERVER_DETACHED, where observer_destroy refuses it and leaks it.
AttachedIsListed ==
  phase = "idle" => \A o \in Observers : /\ o \in Listed <=> Live(o)
                                         /\ st[o] # "detached"

Interested == [e \in Events |-> {o \in Observers : Matches(e, Watch[o])}]

\* What the iterator has yet to come to.
Ahead == {list[i] : i \in (IF phase = "scan" THEN at ELSE at + 1)..Len(list)}

\* The refinement mapping.  A touched observer has had its event when its
\* callback is entered, unless the callback attaches it anew.
BusSub ==
  [o \in Observers |->
    IF Live(o) /\ ~(phase = "callback" /\ o = cur /\ st[o] = "once" /\ o \notin anew)
    THEN st[o] ELSE "none"]
BusBusy == phase \in {"scan", "callback"}
BusDue  == IF BusBusy THEN {o \in Ahead : o \in Interested[ev] /\ Live(o)} ELSE {}
BusPast == IF BusBusy THEN Listed \ Ahead ELSE {}

Bus == INSTANCE EventBus WITH
  sub <- BusSub, busy <- BusBusy, due <- BusDue, past <- BusPast

\* The walk over the list, with callbacks that attach and detach under it,
\* does what EventBus says: nobody who stays attached is missed, nobody is
\* called twice for one event, a touched observer is called once.
ImplementsBus == Bus!Spec

\* Call by call: an attach that returns 0 puts the observer in force, a detach
\* takes it out, and notify itself does nothing but pass its event on.
CallsKept ==
  [][/\ \A o \in Observers, as \in {"attached", "once"} :
          Attach(o, as) => Bus!Attach(o, as)
     /\ \A o \in Observers : (DetachNow(o) \/ DetachLater(o)) => Bus!Detach(o)
     /\ \A e \in Events : Notify(e) => Bus!Notify(e)
     /\ Proceed => (Bus!Pass \/ UNCHANGED Bus!vars)]_vars

\* Every event that is passed on is done with in the end: callbacks that
\* attach cannot keep the walk going for ever.
NotifyEnds == (phase = "scan") ~> (phase = "idle")
=============================================================================
