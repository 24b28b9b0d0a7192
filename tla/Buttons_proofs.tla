--------------------------- MODULE Buttons_proofs ---------------------------
(***************************************************************************)
(* Theorems about the buttons, for any set of keys and any kinds.          *)
(***************************************************************************)
EXTENDS Buttons, FiniteSetTheorems, TLAPS

\* A mask is a set of keys that is not NULL.
LEMMA MaskOrNone == None \notin Masks /\ \A c \in SUBSET Keys : c # None => c \in Masks
<1>1. Masks = (SUBSET Keys) \ {None}
  BY DEF Masks, None
<1> QED BY <1>1

LEMMA TypeOKInit == Init => TypeOK
  BY DEF Init, TypeOK, None

LEMMA TypeOKNext == TypeOK /\ [Next]_vars => TypeOK'
<1> SUFFICES ASSUME TypeOK, [Next]_vars PROVE TypeOK'
  OBVIOUS
<1> USE ButtonsAssumption DEF TypeOK, input, scans, app, calls
<1>0. Masks = (SUBSET Keys) \ {None} /\ None \in SUBSET Keys /\ "free" \in AllKinds \cup {"free"}
  BY DEF Masks, None
<1>1. CASE Expire
  BY <1>1 DEF Expire
<1>2. ASSUME NEW k \in Keys, Edge(k) PROVE TypeOK'
  BY <1>2 DEF Edge
<1>3. CASE Take
  BY <1>3 DEF Take
<1>4. CASE Event
  BY <1>0, <1>4 DEF Event, Kind, Tell
<1>5. CASE Clear
  BY <1>5 DEF Clear, Again
<1>6. ASSUME NEW k \in Keys, Sample(k) PROVE TypeOK'
  BY <1>6 DEF Sample
<1>7. CASE Look
  <2>1. Found \in SUBSET Keys
    BY <1>0 DEF Found, None
  <2> QED BY <1>7, <2>1 DEF Look, Again, AfterRelease
<1>8. CASE Release
  <2>1. ReleaseSays(current) \in {"none", "release", "repeat_release"}
    BY DEF ReleaseSays
  <2>2. told' \in [Masks -> {"press", "release", "repeat_press", "repeat_release"}]
        /\ called' \in BOOLEAN
    BY <1>8, <2>1 DEF Release, Tell
  <2> QED BY <1>0, <1>8, <2>2 DEF Release, Again, AfterRelease
<1>9. CASE PressShort \/ PressTimed \/ NoPress
  BY <1>0, <1>9 DEF PressShort, PressTimed, NoPress, Again, MayPress
<1>10. ASSUME NEW m \in Masks, NEW t \in Kinds[m], Create(m, t) PROVE TypeOK'
  BY <1>10 DEF Create
<1>11. ASSUME NEW m \in Masks, Start(m) \/ Stop(m) \/ DestroyCheck(m) \/ DestroyFree(m)
       PROVE  TypeOK'
  <2>1. /\ en \cup {m} \in SUBSET Masks /\ en \ {m} \in SUBSET Masks
        /\ dying \cup {m} \in SUBSET Masks /\ dying \ {m} \in SUBSET Masks
    OBVIOUS
  <2>2. CASE Start(m) \/ Stop(m)
    BY <2>1, <2>2 DEF Start, Stop
  <2>3. CASE DestroyCheck(m) \/ DestroyFree(m)
    BY <2>1, <2>3 DEF DestroyCheck, DestroyFree
  <2> QED BY <1>11, <2>2, <2>3
<1>12. CASE Deinit \/ Freed \/ Reinit
  <2>1. CASE Deinit
    BY <2>1 DEF Deinit
  <2>2. CASE Freed
    BY <2>2 DEF Freed
  <2>3. CASE Reinit
    BY <2>3 DEF Reinit
  <2> QED BY <1>12, <2>1, <2>2, <2>3
<1>13. CASE UNCHANGED vars
  BY <1>13 DEF vars
<1> QED BY <1>1, <1>2, <1>3, <1>4, <1>5, <1>6, <1>7, <1>8, <1>9, <1>10, <1>11, <1>12, <1>13
        DEF Next, Thread, App

\* The variables keep their types, whatever races happen.
THEOREM ButtonsTypeOK == Spec => []TypeOK
  BY TypeOKInit, TypeOKNext, PTL DEF Spec
-----------------------------------------------------------------------------
\* What a callback was told is the state of its button, and only the current
\* button has a state; when a button is about to be pressed none has.
Coupled ==
  /\ pc = "release" => current # None
  /\ pc = "press" => obj # None /\ \A m \in Masks : state[m] = "invalid"
  /\ \A m \in Masks :
       /\ state[m] # "invalid" => m = current /\ type[m] # "free"
       /\ state[m] = "repeat_press" => type[m] = "repeat"
       /\ Held(m) <=> (type[m] # "short" /\ state[m] # "invalid")
       /\ Held(m) => told[m] = state[m]

LEMMA CoupledNext == TypeOK /\ Coupled /\ [Next]_vars => Coupled'
<1> SUFFICES ASSUME TypeOK, Coupled, [Next]_vars PROVE Coupled'
  OBVIOUS
<1>0. /\ current # None => current \in Masks
      /\ obj # None => obj \in Masks
      /\ None \notin Masks
  <2>1. current \in SUBSET Keys /\ obj \in SUBSET Keys
    BY DEF TypeOK
  <2> QED BY <2>1, MaskOrNone
<1> USE DEF Coupled, Held, input, scans, app, calls
<1>1. CASE Expire \/ (\E k \in Keys : Edge(k) \/ Sample(k)) \/ Take \/ Deinit
  BY <1>1 DEF Expire, Edge, Sample, Take, Deinit
<1>2. CASE Event
  <2>1. CASE Kind(current) \in {"none", "short"}
    BY <1>2, <2>1 DEF Event
  <2>2. CASE Kind(current) \in {"long", "short_long", "combined"}
    <3>1. current \in Masks /\ type[current] = Kind(current)
      BY <1>0, <2>2 DEF Kind
    <3>2. /\ state' = [state EXCEPT ![current] = "press"]
          /\ told' = [told EXCEPT ![current] = "press"]
      BY <1>2, <2>2 DEF Event, Tell
    <3> QED BY <1>2, <2>2, <3>1, <3>2 DEF Event, TypeOK
  <2>3. CASE Kind(current) = "repeat"
    <3>1. current \in Masks /\ type[current] = "repeat"
      BY <1>0, <2>3 DEF Kind
    <3>2. PICK s \in {"press", "repeat_press"} :
            /\ state' = [state EXCEPT ![current] = s]
            /\ told' = [told EXCEPT ![current] = s]
      BY <1>2, <2>3 DEF Event, Tell
    <3> QED BY <1>2, <3>1, <3>2 DEF Event, TypeOK
  <2> QED BY <1>2, <2>1, <2>2, <2>3 DEF Event
<1>3. CASE Clear
  BY <1>3 DEF Clear, Again
<1>4. CASE Look
  <2>1. current = None => \A m \in Masks : state[m] = "invalid"
    BY <1>0
  <2> QED BY <1>4, <2>1 DEF Look, Again, AfterRelease
<1>5. CASE Release
  <2>1. current \in Masks /\ current # None
    BY <1>0, <1>5 DEF Release
  <2>2. ReleaseSays(current) = "none" => ~Held(current)
    <3>1. state[current] \in {"invalid", "press", "repeat_press"}
          /\ type[current] \in AllKinds \cup {"free"}
      BY <2>1 DEF TypeOK
    <3> QED BY <2>1, <3>1 DEF ReleaseSays, AllKinds
  <2>3. ReleaseSays(current) \in {"none", "release", "repeat_release"}
    BY DEF ReleaseSays
  <2>4. /\ told'[current] \notin {"press", "repeat_press"}
        /\ \A m \in Masks \ {current} : told'[m] = told[m]
    <3>1. CASE ReleaseSays(current) = "none"
      <4>1. told' = told /\ ~Held(current)
        BY <1>5, <2>2, <3>1 DEF Release
      <4> QED BY <4>1
    <3>2. CASE ReleaseSays(current) # "none"
      <4>1. told' = [told EXCEPT ![current] = ReleaseSays(current)]
        BY <1>5, <3>2 DEF Release, Tell
      <4> QED BY <2>1, <2>3, <3>2, <4>1 DEF TypeOK
    <3> QED BY <3>1, <3>2
  <2>5. \A m \in Masks : state'[m] = "invalid"
    BY <1>5, <2>1 DEF Release, TypeOK
  <2>6. \A m \in Masks : ~Held(m)'
    <3>1. \A m \in Masks \ {current} : told[m] \notin {"press", "repeat_press"}
      OBVIOUS
    <3> QED BY <2>1, <2>4, <3>1
  <2>7. pc' \in {"wait", "gone", "press"} /\ (pc' = "press" => obj' # None)
    BY <1>5 DEF Release, AfterRelease, Again
  <2> QED BY <2>5, <2>6, <2>7
<1>6. CASE PressShort
  <2>1. obj \in Masks /\ type[obj] = "short" /\ pc = "press"
    BY <1>0, <1>6 DEF PressShort, Coupled
  <2> QED BY <1>6, <2>1 DEF PressShort, Again, TypeOK
<1>7. CASE PressTimed
  BY <1>7 DEF PressTimed, Again, TypeOK
<1>8. CASE NoPress
  BY <1>8 DEF NoPress, Again
<1>9. ASSUME NEW m \in Masks, NEW t \in Kinds[m], Create(m, t) PROVE Coupled'
  <2>1. t # "free"
    BY ButtonsAssumption DEF AllKinds
  <2> QED BY <1>9, <2>1 DEF Create, TypeOK
<1>10. ASSUME NEW m \in Masks, Start(m) \/ Stop(m) \/ DestroyCheck(m) \/ DestroyFree(m)
       PROVE  Coupled'
  <2>1. CASE Start(m) \/ Stop(m) \/ DestroyCheck(m)
    BY <2>1 DEF Start, Stop, DestroyCheck
  <2>2. CASE DestroyFree(m)
    BY <2>2 DEF DestroyFree, TypeOK
  <2> QED BY <1>10, <2>1, <2>2
<1>11. CASE Freed
  BY <1>11 DEF Freed
<1>12. CASE Reinit
  BY <1>12 DEF Reinit
<1>13. CASE UNCHANGED vars
  BY <1>13 DEF vars
<1> QED BY <1>1, <1>2, <1>3, <1>4, <1>5, <1>6, <1>7, <1>8, <1>9, <1>10, <1>11, <1>12, <1>13
        DEF Next, Thread, App

LEMMA CoupledAlways == Spec => [](TypeOK /\ Coupled)
<1>1. Init => Coupled
  BY DEF Init, Coupled, Held
<1> QED BY <1>1, CoupledNext, TypeOKInit, TypeOKNext, PTL DEF Spec

\* A button told PRESS stays current until it is told RELEASE, whatever races
\* happen.
THEOREM HeldStaysCurrent == Spec => []HeldIsCurrent
<1>1. TypeOK /\ Coupled => HeldIsCurrent
  BY DEF TypeOK, Coupled, HeldIsCurrent, Held
<1> QED BY <1>1, CoupledAlways, PTL
-----------------------------------------------------------------------------
\* Without a token the thread has what it sampled right, unless the last one
\* was taken for the timer's.
Watched ==
  /\ pc \in {"event", "clear"} => ~seen
  /\ pc = "read" => got \cap scan = {}
  /\ sem = 0 /\ seen =>
       /\ pc \in {"wait", "release", "press"} => prev = keys
       /\ pc = "read" => \A k \in Keys \ scan : k \in got <=> k \in keys

LEMMA WatchedNext == TypeOK /\ Watched /\ [Next]_vars => Watched'
<1> SUFFICES ASSUME TypeOK, Watched, [Next]_vars PROVE Watched'
  OBVIOUS
<1> USE DEF Watched, input, scans, app, calls
<1>1. CASE Expire
  BY <1>1 DEF Expire
<1>2. ASSUME NEW k \in Keys, Edge(k) PROVE Watched'
  BY <1>2 DEF Edge
<1>3. CASE Take
  BY <1>3 DEF Take
<1>4. CASE Event \/ Clear
  BY <1>4 DEF Event, Clear, Again
<1>5. ASSUME NEW k \in Keys, Sample(k) PROVE Watched'
  <2>1. /\ sem' = sem /\ seen' = seen /\ keys' = keys /\ pc = "read" /\ pc' = "read"
        /\ scan' = scan \ {k} /\ got' = got \cup ({k} \cap keys)
    BY <1>5 DEF Sample
  <2>2. ASSUME NEW j \in Keys \ scan', sem = 0, seen PROVE j \in got' <=> j \in keys
    <3>1. CASE j = k
      BY <2>1, <3>1, <1>5 DEF Sample, TypeOK
    <3>2. CASE j # k
      BY <2>1, <2>2, <3>2
    <3> QED BY <3>1, <3>2
  <2>3. got' \cap scan' = {}
    BY <2>1
  <2> QED BY <2>1, <2>2, <2>3
<1>6. CASE Look
  <2>1. sem = 0 /\ seen => got = keys
    BY <1>6 DEF Look, TypeOK
  <2> QED BY <1>6, <2>1 DEF Look, Again, AfterRelease
<1>7. CASE Release \/ PressShort \/ PressTimed \/ NoPress
  BY <1>7 DEF Release, PressShort, PressTimed, NoPress, Again, AfterRelease
<1>8. ASSUME NEW m \in Masks,
             \/ \E t \in Kinds[m] : Create(m, t)
             \/ Start(m) \/ Stop(m) \/ DestroyCheck(m) \/ DestroyFree(m)
      PROVE  Watched'
  BY <1>8 DEF Create, Start, Stop, DestroyCheck, DestroyFree
<1>9. CASE Deinit \/ Freed \/ Reinit
  BY <1>9 DEF Deinit, Freed, Reinit
<1>10. CASE UNCHANGED vars
  BY <1>10 DEF vars
<1> QED BY <1>1, <1>2, <1>3, <1>4, <1>5, <1>6, <1>7, <1>8, <1>9, <1>10
        DEF Next, Thread, App

\* A change of the keys is overlooked only when its token was taken for the
\* timer's, whatever races happen.
THEOREM OverlookedForTimer == Spec => []OverlookedOnlyForTimer
<1>1. Init => Watched
  BY DEF Init, Watched
<1>2. Watched => OverlookedOnlyForTimer
  BY DEF Watched, OverlookedOnlyForTimer, Unread
<1> QED BY <1>1, <1>2, WatchedNext, TypeOKInit, TypeOKNext, PTL DEF Spec
-----------------------------------------------------------------------------
\* Unless buttons_deinit comes while a key is held, it finds no button in use.
Ended ==
  /\ pc \in {"gone", "off"} => ~run
  /\ ~run => /\ current = None /\ pc \notin {"release", "press"}
             /\ pc # "off" => keys = {}
             /\ pc = "read" => got = {}

\* If besides no button_destroy overlaps the way from the lookup of its button
\* to the press: the buttons the thread has a pointer to exist and will.
Owned ==
  /\ \A m \in Masks : InUse(m) => type[m] # "free" /\ m \notin dying
  /\ \A m \in dying : type[m] # "free"

\* The kinds whose timer runs once for a gesture.
Once == {"long", "short_long", "combined"}

\* The timer runs, and its mark is set, only for the current button; for one
\* of Once only while its callback has not been told PRESS.
Timed ==
  /\ armed => /\ Kind(current) \notin {"none", "short"}
              /\ Kind(current) \in Once => state[current] = "invalid"
  /\ pc = "press" => ~armed /\ ~timeup
  /\ pc \in {"read", "release"} /\ timeup => Kind(current) \in {"long", "combined", "repeat"}
  /\ timeup /\ pc # "clear" /\ Kind(current) \in Once => state[current] = "invalid" /\ ~armed
  /\ pc \in {"event", "clear"} => timeup
  /\ pc \in {"event", "read", "release"} => ~called

CInv == TypeOK /\ Coupled /\ Ended /\ Owned /\ Timed

LEMMA EndedNext ==
  ASSUME "held_deinit" \notin Races
  PROVE  Coupled /\ Ended /\ [Next]_vars => Ended'
<1> SUFFICES ASSUME Coupled, Ended, [Next]_vars PROVE Ended'
  OBVIOUS
<1> USE DEF Ended, input, scans, app, calls
<1>1. CASE Expire \/ Take \/ Event \/ Clear \/ \E k \in Keys : Edge(k) \/ Sample(k)
  BY <1>1 DEF Expire, Take, Event, Clear, Again, Edge, Sample
<1>2. CASE Look
  <2>1. got = {} => Found = None
    BY DEF Found
  <2> QED BY <1>2, <2>1 DEF Look, Again, AfterRelease
<1>3. CASE Release \/ PressShort \/ PressTimed \/ NoPress
  BY <1>3 DEF Release, PressShort, PressTimed, NoPress, Again, AfterRelease
<1>4. CASE App
  BY <1>4 DEF App, Create, Start, Stop, DestroyCheck, DestroyFree, Deinit, Freed, Reinit
<1>5. CASE UNCHANGED vars
  BY <1>5 DEF vars
<1> QED BY <1>1, <1>2, <1>3, <1>4, <1>5 DEF Next, Thread

LEMMA OwnedNext ==
  ASSUME Races \cap {"destroy_in_press", "press_in_destroy", "held_deinit"} = {}
  PROVE  TypeOK /\ Coupled /\ Ended /\ Owned /\ [Next]_vars => Owned'
<1> SUFFICES ASSUME TypeOK, Coupled, Ended, Owned, [Next]_vars PROVE Owned'
  OBVIOUS
<1>0. None \notin Masks
  BY MaskOrNone
<1> USE DEF Owned, InUse, Chosen, input, scans, app, calls
<1>1. CASE Expire \/ Take \/ Event \/ Clear \/ \E k \in Keys : Edge(k) \/ Sample(k)
  BY <1>1 DEF Expire, Take, Event, Clear, Again, Edge, Sample
<1>2. CASE Look
  <2>1. pc' \in {"release", "press"} =>
          obj' = None \/ (type[obj'] # "free" /\ obj' \notin dying)
    BY <1>2 DEF Look, Found, Again, AfterRelease
  <2> QED BY <1>0, <1>2, <2>1 DEF Look, Again, AfterRelease
<1>3. CASE Release
  BY <1>0, <1>3 DEF Release, Again, AfterRelease
<1>4. CASE PressShort \/ PressTimed \/ NoPress
  BY <1>0, <1>4 DEF PressShort, PressTimed, NoPress, Again
<1>5. ASSUME NEW m \in Masks, NEW t \in Kinds[m], Create(m, t) PROVE Owned'
  <2>1. t # "free"
    BY ButtonsAssumption DEF AllKinds
  <2> QED BY <1>5, <2>1 DEF Create, TypeOK
<1>6. ASSUME NEW m \in Masks, Start(m) \/ Stop(m) PROVE Owned'
  BY <1>6 DEF Start, Stop
<1>7. ASSUME NEW m \in Masks, DestroyCheck(m) PROVE Owned'
  BY <1>7 DEF DestroyCheck
<1>8. ASSUME NEW m \in Masks, DestroyFree(m) PROVE Owned'
  BY <1>8 DEF DestroyFree, TypeOK
<1>9. CASE Deinit
  BY <1>9 DEF Deinit
<1>10. CASE Freed \/ Reinit
  BY <1>0, <1>10 DEF Freed, Reinit, Ended
<1>11. CASE UNCHANGED vars
  BY <1>11 DEF vars
<1> QED BY <1>1, <1>2, <1>3, <1>4, <1>5, <1>6, <1>7, <1>8, <1>9, <1>10, <1>11
        DEF Next, Thread, App

LEMMA TimedNext ==
  ASSUME Races = {}
  PROVE  CInv /\ [Next]_vars => Timed'
<1> SUFFICES ASSUME CInv, [Next]_vars PROVE Timed'
  OBVIOUS
<1>0. /\ current # None => current \in Masks /\ Kind(current) = type[current]
      /\ current = None => Kind(current) = "none"
      /\ Kind(current) \in AllKinds \cup {"none"}
      /\ armed \in BOOLEAN /\ timeup \in BOOLEAN
  <2>1. current \in SUBSET Keys
    BY DEF CInv, TypeOK
  <2> QED BY <2>1, MaskOrNone DEF CInv, TypeOK, Owned, InUse, Kind
<1> USE DEF CInv, Timed, Once, AllKinds, input, scans, app, calls
<1>a. ASSUME UNCHANGED <<current, type>> PROVE Kind(current)' = Kind(current)
  BY <1>a DEF Kind
<1>1. CASE Expire
  BY <1>0, <1>1, <1>a DEF Expire
<1>2. ASSUME NEW k \in Keys, Edge(k) \/ Sample(k) PROVE Timed'
  BY <1>2, <1>a DEF Edge, Sample
<1>3. CASE Take
  BY <1>3, <1>a DEF Take
<1>4. CASE Event
  <2>1. Kind(current)' = Kind(current)
    BY <1>4, <1>a DEF Event
  <2>2. CASE Kind(current) \in {"none", "short"}
    BY <1>4, <2>1, <2>2 DEF Event
  <2>3. CASE Kind(current) \in Once
    BY <1>4, <2>1, <2>3 DEF Event
  <2>4. CASE Kind(current) = "repeat"
    BY <1>4, <2>1, <2>4 DEF Event
  <2> QED BY <1>0, <2>2, <2>3, <2>4
<1>5. CASE Clear
  BY <1>5, <1>a DEF Clear, Again
<1>6. CASE Look
  BY <1>0, <1>6, <1>a DEF Look, Again, AfterRelease
<1>7. CASE Release
  <2>1. current \in Masks /\ current # None
    BY <1>0, <1>7 DEF Release, Coupled
  <2>2. ~armed' /\ ~timeup'
    <3>1. CASE ReleaseStops(current)
      BY <1>7, <3>1 DEF Release
    <3>2. CASE ~ReleaseStops(current)
      BY <1>0, <1>7, <2>1, <3>2 DEF Release, ReleaseStops
    <3> QED BY <3>1, <3>2
  <2>3. pc' \in {"wait", "gone", "press"}
    BY <1>7 DEF Release, AfterRelease, Again
  <2> QED BY <2>2, <2>3
<1>8. CASE PressShort
  BY <1>8 DEF PressShort, Again
<1>9. CASE PressTimed
  <2>1. obj \in Masks /\ obj # None
    <3>1. obj \in SUBSET Keys /\ obj # None
      BY <1>9 DEF PressTimed, TypeOK, Coupled
    <3> QED BY <3>1, MaskOrNone
  <2>2. type[obj] \notin {"none", "short"}
    BY <1>9, <2>1 DEF PressTimed, TypeOK
  <2>3. Kind(current)' = type[obj] /\ state'[current'] = "invalid"
    BY <1>9, <2>1 DEF PressTimed, Kind, TypeOK
  <2>4. ~timeup' /\ pc' \in {"wait", "gone"}
    BY <1>9 DEF PressTimed, Again
  <2> QED BY <2>2, <2>3, <2>4
<1>10. CASE NoPress
  BY <1>10, <1>a DEF NoPress, Again
<1>11. ASSUME NEW m \in Masks, (\E t \in Kinds[m] : Create(m, t)) \/ DestroyFree(m)
       PROVE  Timed'
  <2>1. current' = current /\ m # current
    BY <1>0, <1>11, MaskOrNone DEF Create, DestroyFree, Owned, InUse
  <2>2. current # None => type'[current] = type[current] /\ state'[current] = state[current]
    BY <1>0, <1>11, <2>1 DEF Create, DestroyFree, TypeOK
  <2>3. Kind(current)' = Kind(current)
    BY <2>1, <2>2 DEF Kind
  <2>4. UNCHANGED <<armed, timeup, pc, called>>
    BY <1>11 DEF Create, DestroyFree
  <2> QED BY <1>0, <2>1, <2>2, <2>3, <2>4
<1>12. ASSUME NEW m \in Masks, Start(m) \/ Stop(m) \/ DestroyCheck(m) PROVE Timed'
  BY <1>12, <1>a DEF Start, Stop, DestroyCheck
<1>13. CASE Deinit
  BY <1>13, <1>a DEF Deinit
<1>14. CASE Freed
  BY <1>14 DEF Freed, Ended, Kind
<1>15. CASE Reinit
  BY <1>15, <1>a DEF Reinit
<1>16. CASE UNCHANGED vars
  BY <1>16, <1>a DEF vars
<1> QED BY <1>1, <1>2, <1>3, <1>4, <1>5, <1>6, <1>7, <1>8, <1>9, <1>10, <1>11, <1>12,
           <1>13, <1>14, <1>15, <1>16
        DEF Next, Thread, App

LEMMA EndedInit == Init => Ended
  BY DEF Init, Ended

LEMMA OwnedInit == Init => Owned
  BY MaskOrNone DEF Init, Owned, InUse, Chosen

LEMMA CInvInit == Init => CInv
  BY TypeOKInit, EndedInit, OwnedInit DEF Init, CInv, Coupled, Timed, Held, Kind

LEMMA CInvNext ==
  ASSUME Races = {}
  PROVE  CInv /\ [Next]_vars => CInv'
  BY TypeOKNext, CoupledNext, EndedNext, OwnedNext, TimedNext DEF CInv

\* No button the thread has a pointer to is freed, although button_destroy
\* looks at current_tiggered_obj without a lock and frees later: its look is
\* enough for every call that does not overlap the thread's way from the
\* lookup of that button to its press, whatever the timer does, if besides
\* buttons_deinit waits for the keys to be let go.
THEOREM ButtonMemory ==
  ASSUME Races \cap {"destroy_in_press", "press_in_destroy", "held_deinit"} = {}
  PROVE  Spec => []NoUseAfterFree
<1>1. Owned => NoUseAfterFree
  BY DEF Owned, NoUseAfterFree
<1>2. Coupled /\ Ended /\ [Next]_vars => Ended'
  BY EndedNext
<1>3. TypeOK /\ Coupled /\ Ended /\ Owned /\ [Next]_vars => Owned'
  BY OwnedNext
<1> QED BY <1>1, <1>2, <1>3, EndedInit, OwnedInit, CoupledAlways, PTL DEF Spec
-----------------------------------------------------------------------------
\* A button that is current when all keys were found released is about to be
\* let go of, and one about to be pressed was found pressed.
LettingGo ==
  /\ pc \in {"release", "press"} /\ obj # None => prev # {}
  /\ prev = {} /\ current # None => pc = "release"

LEMMA LettingGoNext ==
  ASSUME "held_deinit" \notin Races
  PROVE  Coupled /\ Ended /\ LettingGo /\ [Next]_vars => LettingGo'
<1> SUFFICES ASSUME Coupled, Ended, LettingGo, [Next]_vars PROVE LettingGo'
  OBVIOUS
<1> USE DEF LettingGo, input, scans, app, calls
<1>1. CASE Expire \/ Take \/ Event \/ Clear \/ \E k \in Keys : Edge(k) \/ Sample(k)
  BY <1>1 DEF Expire, Take, Event, Clear, Again, Edge, Sample
<1>2. CASE Look
  BY <1>2 DEF Look, Found, None, Again, AfterRelease
<1>3. CASE Release
  BY <1>3 DEF Release, Again, AfterRelease
<1>4. CASE PressShort \/ PressTimed \/ NoPress
  BY <1>4 DEF PressShort, PressTimed, NoPress, Again, Coupled
<1>5. ASSUME NEW m \in Masks,
             \/ \E t \in Kinds[m] : Create(m, t)
             \/ Start(m) \/ Stop(m) \/ DestroyCheck(m) \/ DestroyFree(m)
      PROVE  LettingGo'
  BY <1>5 DEF Create, Start, Stop, DestroyCheck, DestroyFree
<1>6. CASE Deinit \/ Freed \/ Reinit \/ UNCHANGED vars
  BY <1>6 DEF Deinit, Freed, Reinit, vars, Ended
<1> QED BY <1>1, <1>2, <1>3, <1>4, <1>5, <1>6 DEF Next, Thread, App

\* When the thread waits and last found no key pressed, it holds no button.
NothingHeldWhenUp == pc = "wait" /\ prev = {} => \A m \in Masks : ~Held(m)

\* A button stays held after all keys are released only where the thread has
\* not noticed that they are: the safety part of HeldReleased.  It needs
\* neither the timer nor the application to behave, but for a deinit while a
\* key is held.
THEOREM HeldOnlyUnnoticed ==
  ASSUME "held_deinit" \notin Races
  PROVE  Spec => []NothingHeldWhenUp
<1>1. Init => LettingGo
  BY DEF Init, LettingGo
<1>2. TypeOK /\ Coupled /\ LettingGo => NothingHeldWhenUp
  <2> SUFFICES ASSUME TypeOK, Coupled, LettingGo, NEW m \in Masks, Held(m),
                      pc = "wait", prev = {}
               PROVE  FALSE
    BY DEF NothingHeldWhenUp
  <2>1. current = m
    BY DEF Coupled
  <2>2. current = None
    BY DEF LettingGo
  <2> QED BY <2>1, <2>2, MaskOrNone
<1> QED BY <1>1, <1>2, EndedInit, EndedNext, LettingGoNext, CoupledAlways, PTL DEF Spec
-----------------------------------------------------------------------------
\* The steps the thread has left before it waits again or ends.
ServeRank ==
  CASE pc \in {"event", "release"} -> 2
    [] pc \in {"clear", "press"}   -> 1
    [] pc = "read"                 -> Cardinality(scan) + 3
    [] OTHER                       -> 0

\* Every step of the thread but the one that takes a token leaves it fewer, and
\* nothing that keys, timer and application do gives it more.
ServeShrinks ==
  [][/\ Thread => Take \/ ServeRank' < ServeRank
     /\ ~Thread => ServeRank' = ServeRank]_vars

LEMMA ServeRankBound ==
  ASSUME TypeOK, IsFiniteSet(Keys)
  PROVE  /\ ServeRank \in 0 .. Cardinality(Keys) + 3
         /\ IsFiniteSet(scan) /\ Cardinality(scan) \in Nat
<1>1. /\ IsFiniteSet(scan) /\ Cardinality(scan) <= Cardinality(Keys)
      /\ Cardinality(scan) \in Nat /\ Cardinality(Keys) \in Nat
  BY FS_Subset, FS_CardinalityType DEF TypeOK
<1>2. ServeRank \in {0, 1, 2, Cardinality(scan) + 3}
  BY DEF ServeRank
<1> QED BY <1>1, <1>2

LEMMA ServeStep ==
  ASSUME TypeOK, IsFiniteSet(Keys), Thread
  PROVE  Take \/ ServeRank' < ServeRank
<1>1. CASE Event \/ Clear \/ Release \/ PressShort \/ PressTimed \/ NoPress
  BY <1>1 DEF Event, Clear, Release, PressShort, PressTimed, NoPress, Again, AfterRelease,
              ServeRank
<1>2. CASE Look
  <2>1. ServeRank >= 3 /\ ServeRank \in Nat
    BY <1>2, ServeRankBound DEF Look, ServeRank
  <2>2. ServeRank' \in {0, 1, 2}
    BY <1>2 DEF Look, Again, AfterRelease, ServeRank
  <2> QED BY <2>1, <2>2
<1>3. ASSUME NEW k \in Keys, Sample(k) PROVE ServeRank' < ServeRank
  <2>1. /\ pc = "read" /\ pc' = "read" /\ scan' = scan \ {k} /\ k \in scan
        /\ IsFiniteSet(scan) /\ Cardinality(scan) \in Nat
    BY <1>3, ServeRankBound DEF Sample
  <2>2. Cardinality(scan') = Cardinality(scan) - 1
    BY <2>1, FS_RemoveElement
  <2> QED BY <2>1, <2>2 DEF ServeRank
<1> QED BY <1>1, <1>2, <1>3 DEF Thread

LEMMA ServeKept ==
  ASSUME Expire \/ (\E k \in Keys : Edge(k)) \/ App
  PROVE  ServeRank' = ServeRank
<1> USE DEF ServeRank, scans
<1>1. CASE Expire \/ (\E k \in Keys : Edge(k))
  BY <1>1 DEF Expire, Edge
<1>2. CASE App
  BY <1>2 DEF App, Create, Start, Stop, DestroyCheck, DestroyFree, Deinit, Freed, Reinit
<1> QED BY <1>1, <1>2

\* A token is served in at most four steps and one more for each key, with
\* whatever races: no key, timer or application can keep the thread from
\* coming back for the next one.
THEOREM ServingIsBounded ==
  ASSUME IsFiniteSet(Keys)
  PROVE  Spec => [](ServeRank \in 0 .. Cardinality(Keys) + 3) /\ ServeShrinks
<1> DEFINE Shrinks == /\ Thread => Take \/ ServeRank' < ServeRank
                      /\ ~Thread => ServeRank' = ServeRank
           Bounded == ServeRank \in 0 .. Cardinality(Keys) + 3
<1>1. TypeOK => Bounded
  BY ServeRankBound
<1>2. TypeOK /\ [Next]_vars => [Shrinks]_vars
  BY ServeStep, ServeKept DEF Next
<1> HIDE DEF Shrinks, Bounded
<1>3. Spec => []Bounded
  BY <1>1, ButtonsTypeOK, PTL
<1>4. Spec => [][Shrinks]_vars
  BY <1>2, TypeOKInit, TypeOKNext, PTL DEF Spec
<1> QED BY <1>3, <1>4 DEF ServeShrinks, Shrinks, Bounded
-----------------------------------------------------------------------------
(* Refinement *)

LEMMA ProtocolInit == Init => Protocol!Init
  BY DEF Init, Protocol!Init

\* What the event tells the current button is what the protocol has next.
LEMMA EventStep == CInv /\ Event => [Protocol!Next]_(Protocol!bvars)
<1> SUFFICES ASSUME CInv, Event PROVE [Protocol!Next]_(Protocol!bvars)
  OBVIOUS
<1> USE DEF Event, app, calls
<1>1. CASE Kind(current) \in {"none", "short"}
  BY <1>1 DEF Protocol!bvars
<1>2. CASE Kind(current) \notin {"none", "short"}
  <2>1. current \in Masks /\ type[current] = Kind(current)
    <3>1. current \in SUBSET Keys /\ current # None
      BY <1>2 DEF CInv, TypeOK, Kind
    <3> QED BY <3>1, MaskOrNone DEF Kind
  <2>2. PICK s \in {"press", "repeat_press"} :
          /\ told' = [told EXCEPT ![current] = s] /\ called' = TRUE
          /\ Kind(current) = "repeat" =>
               s = IF state[current] = "invalid" THEN "press" ELSE "repeat_press"
          /\ Kind(current) # "repeat" => s = "press" /\ Kind(current) \in Once
    BY <1>2 DEF Tell, Once
  <2>3. ~called /\ (Kind(current) \in Once => ~Held(current))
    BY <2>1 DEF CInv, Timed, Coupled
  <2>4. s \in Protocol!Follow(type[current], told[current])
    <3>1. Held(current) <=> state[current] # "invalid"
      BY <1>2, <2>1 DEF CInv, Coupled
    <3> QED BY <2>1, <2>2, <2>3, <3>1
            DEF Protocol!Follow, Protocol!HeldStates, Held, Once
  <2>5. \A n \in Masks : Protocol!Held(n) => n = current
    BY DEF CInv, Coupled, Held, Protocol!Held, Protocol!HeldStates
  <2>6. Protocol!Tell(current, s)
    BY <2>1, <2>2, <2>3, <2>4, <2>5 DEF Protocol!Tell, CInv, Owned, InUse, Kind
  <2> QED BY <2>1, <2>6 DEF Protocol!Next
<1> QED BY <1>1, <1>2

\* So is what the release tells it.
LEMMA ReleaseStep == CInv /\ Release => [Protocol!Next]_(Protocol!bvars)
<1> SUFFICES ASSUME CInv, Release PROVE [Protocol!Next]_(Protocol!bvars)
  OBVIOUS
<1> USE DEF Release, app, calls
<1> DEFINE s == ReleaseSays(current)
<1>1. CASE s = "none"
  BY <1>1 DEF Protocol!bvars
<1>2. CASE s # "none"
  <2>1. current \in Masks /\ current # None /\ type[current] = Kind(current)
    <3>1. current \in SUBSET Keys /\ current # None
      BY DEF CInv, TypeOK, Coupled
    <3> QED BY <3>1, MaskOrNone DEF Kind
  <2>2. told' = [told EXCEPT ![current] = s] /\ called' = TRUE /\ ~called
    BY <1>2 DEF Tell, CInv, Timed
  <2>3. /\ Held(current) <=> (type[current] # "short" /\ state[current] # "invalid")
        /\ Held(current) => told[current] = state[current]
        /\ state[current] = "repeat_press" => type[current] = "repeat"
        /\ armed /\ type[current] = "short_long" => state[current] = "invalid"
        /\ state[current] \in {"invalid", "press", "repeat_press"}
    BY <2>1 DEF CInv, Coupled, Timed, Once, TypeOK
  <2>4. s \in Protocol!Follow(type[current], told[current])
    BY <1>2, <2>3 DEF ReleaseSays, Protocol!Follow, Protocol!HeldStates, Held
  <2>5. s \in {"release", "repeat_release"}
    BY <1>2 DEF ReleaseSays
  <2>6. \A n \in Masks : Protocol!Held(n) => n = current
    BY DEF CInv, Coupled, Held, Protocol!Held, Protocol!HeldStates
  <2>7. Protocol!Tell(current, s)
    BY <2>1, <2>2, <2>4, <2>6 DEF Protocol!Tell, CInv, Owned, InUse
  <2> HIDE DEF s
  <2> QED BY <2>1, <2>5, <2>7 DEF Protocol!Next
<1> QED BY <1>1, <1>2

LEMMA ProtocolStep == CInv /\ [Next]_vars => [Protocol!Next]_(Protocol!bvars)
<1> SUFFICES ASSUME CInv, [Next]_vars PROVE [Protocol!Next]_(Protocol!bvars)
  OBVIOUS
<1> USE DEF input, scans, app, calls
<1>0. \A m \in Masks : Protocol!Held(m) <=> Held(m)
  BY DEF Protocol!Held, Protocol!HeldStates, Held
<1>1. CASE Take
  BY <1>1 DEF Take, Protocol!Next, Protocol!Quiet
<1>2. CASE Event \/ Release
  BY <1>2, EventStep, ReleaseStep
<1>3. CASE Expire \/ (\E k \in Keys : Edge(k) \/ Sample(k)) \/ Clear \/ Look
  BY <1>3 DEF Expire, Edge, Sample, Clear, Look, Protocol!bvars
<1>4. CASE PressShort \/ PressTimed \/ NoPress
  BY <1>4 DEF PressShort, PressTimed, NoPress, Protocol!bvars
<1>5. ASSUME NEW m \in Masks, NEW t \in Kinds[m], Create(m, t)
      PROVE  Protocol!Next
  <2>1. Protocol!Create(m, t)
    BY <1>5 DEF Create, Protocol!Create
  <2> QED BY <2>1 DEF Protocol!Next
<1>6. ASSUME NEW m \in Masks, Start(m) \/ Stop(m) \/ DestroyCheck(m)
      PROVE  UNCHANGED Protocol!bvars
  BY <1>6 DEF Start, Stop, DestroyCheck, Protocol!bvars
<1>7. ASSUME NEW m \in Masks, DestroyFree(m) PROVE Protocol!Next
  <2>1. m # current /\ type[m] # "free"
    BY <1>7 DEF DestroyFree, CInv, Owned, InUse, Ended
  <2>2. ~Protocol!Held(m)
    BY <1>0, <2>1 DEF CInv, Coupled
  <2>3. Protocol!Destroy(m)
    BY <1>7, <2>1, <2>2 DEF DestroyFree, Protocol!Destroy
  <2> QED BY <2>3 DEF Protocol!Next
<1>8. CASE Deinit \/ Reinit
  BY <1>8 DEF Deinit, Reinit, Protocol!bvars
<1>9. CASE Freed
  <2>1. \A m \in Masks : ~Protocol!Held(m)
    BY <1>0, <1>9, MaskOrNone DEF Freed, CInv, Coupled, Ended
  <2>2. Protocol!DestroyAll
    BY <1>9, <2>1 DEF Freed, Protocol!DestroyAll
  <2> QED BY <2>2 DEF Protocol!Next
<1>10. CASE UNCHANGED vars
  BY <1>10 DEF vars, Protocol!bvars
<1> QED BY <1>1, <1>2, <1>3, <1>4, <1>5, <1>6, <1>7, <1>8, <1>9, <1>10
        DEF Next, Thread, App

\* The callbacks follow the protocol of the create functions, whatever keys,
\* timer and application do but for the races.
THEOREM ButtonsRefineProtocol ==
  ASSUME Races = {}
  PROVE  Spec => ImplementsProtocol
<1>1. CInv /\ [Next]_vars => CInv' /\ [Protocol!Next]_(Protocol!bvars)
  BY CInvNext, ProtocolStep
<1> QED BY <1>1, CInvInit, ProtocolInit, PTL DEF Spec, ImplementsProtocol, Protocol!Spec
=============================================================================
