-------------------------- MODULE Publisher_proofs --------------------------
(***************************************************************************)
(* Theorems about the publisher, for any set of observers and events.      *)
(***************************************************************************)
EXTENDS Publisher, FiniteSets, SequenceTheorems, FiniteSetTheorems, TLAPS

\* The state of an observer and its place, which no habit of a callback can
\* break: what is on the list is not idle, so observer_destroy refuses it.
Placed ==
  /\ \A o \in Listed : st[o] # "idle"
  /\ phase = "unlinked" => st[cur] = "detached" /\ cur \notin Listed
  /\ phase = "callback" => at \in 1..Len(list) /\ cur = list[at]
  /\ at = 0 <=> phase = "idle"

PInv == TypeOK /\ NoUseAfterFree /\ Placed

\* What Drop returns: the sequence without its element at i.
LEMMA DropElement ==
  ASSUME NEW S, NEW s \in Seq(S), NEW i \in 1..Len(s)
  PROVE  /\ Drop(s, i) \in Seq(S)
         /\ Len(Drop(s, i)) = Len(s) - 1
         /\ \A j \in 1..(Len(s) - 1) :
              Drop(s, i)[j] = IF j < i THEN s[j] ELSE s[j + 1]
<1> DEFINE a == SubSeq(s, 1, i - 1)
           b == SubSeq(s, i + 1, Len(s))
<1>1. /\ a \in Seq(S) /\ Len(a) = i - 1
      /\ \A j \in 1..(i - 1) : a[j] = s[j]
  OBVIOUS
<1>2. /\ b \in Seq(S) /\ Len(b) = Len(s) - i
      /\ \A j \in 1..(Len(s) - i) : b[j] = s[i + j]
  OBVIOUS
<1> HIDE DEF a, b
<1>3. /\ a \o b \in Seq(S) /\ Len(a \o b) = Len(s) - 1
      /\ \A j \in 1..(Len(s) - 1) :
           (a \o b)[j] = IF j <= Len(a) THEN a[j] ELSE b[j - Len(a)]
  <2>1. a \o b \in Seq(S) /\ Len(a \o b) = Len(a) + Len(b)
        /\ \A j \in 1..(Len(a) + Len(b)) :
             (a \o b)[j] = IF j <= Len(a) THEN a[j] ELSE b[j - Len(a)]
    BY <1>1, <1>2, ConcatProperties
  <2>2. Len(a) + Len(b) = Len(s) - 1
    BY <1>1, <1>2
  <2> QED BY <2>1, <2>2
<1>4. \A j \in 1..(Len(s) - 1) :
        (a \o b)[j] = IF j < i THEN s[j] ELSE s[j + 1]
  <2> SUFFICES ASSUME NEW j \in 1..(Len(s) - 1)
               PROVE  (a \o b)[j] = IF j < i THEN s[j] ELSE s[j + 1]
    OBVIOUS
  <2>1. CASE j < i
    BY <2>1, <1>1, <1>3
  <2>2. CASE ~(j < i)
    <3>1. j - Len(a) \in 1..(Len(s) - i) /\ i + (j - Len(a)) = j + 1
      BY <2>2, <1>1
    <3> QED BY <2>2, <3>1, <1>1, <1>2, <1>3
  <2> QED BY <2>1, <2>2
<1> QED BY <1>3, <1>4 DEF Drop, a, b

\* Dropping an element of a list without repetitions removes just that one.
LEMMA DropListed ==
  ASSUME NEW S, NEW s \in Seq(S), NEW i \in 1..Len(s),
         \A j, k \in 1..Len(s) : s[j] = s[k] => j = k
  PROVE  LET d == Drop(s, i) IN
         /\ \A j, k \in 1..Len(d) : d[j] = d[k] => j = k
         /\ {d[j] : j \in 1..Len(d)} = {s[j] : j \in 1..Len(s)} \ {s[i]}
<1> DEFINE d == Drop(s, i)
<1>1. /\ Len(d) = Len(s) - 1
      /\ \A j \in 1..(Len(s) - 1) : d[j] = IF j < i THEN s[j] ELSE s[j + 1]
  BY DropElement
<1>0. Len(s) \in Nat /\ i \in Nat
  OBVIOUS
<1> HIDE DEF d
<1>2. \A j, k \in 1..Len(d) : d[j] = d[k] => j = k
  <2> SUFFICES ASSUME NEW j \in 1..Len(d), NEW k \in 1..Len(d), d[j] = d[k]
               PROVE  j = k
    OBVIOUS
  <2>0. j \in Nat /\ k \in Nat
    BY <1>0, <1>1
  <2>1. CASE j < i /\ k < i
    <3>1. d[j] = s[j] /\ d[k] = s[k] /\ j \in 1..Len(s) /\ k \in 1..Len(s)
      BY <2>1, <1>0, <1>1
    <3> QED BY <3>1
  <2>2. CASE j < i /\ k >= i
    <3>1. d[j] = s[j] /\ d[k] = s[k + 1] /\ j \in 1..Len(s) /\ k + 1 \in 1..Len(s)
      BY <2>2, <1>0, <1>1
    <3>2. s[j] = s[k + 1]
      BY <3>1
    <3>3. j = k + 1
      BY <3>1, <3>2
    <3> QED BY <2>0, <2>2, <3>3, <1>0
  <2>3. CASE j >= i /\ k < i
    <3>1. d[k] = s[k] /\ d[j] = s[j + 1] /\ k \in 1..Len(s) /\ j + 1 \in 1..Len(s)
      BY <2>3, <1>0, <1>1
    <3>2. s[j + 1] = s[k]
      BY <3>1
    <3>3. j + 1 = k
      BY <3>1, <3>2
    <3> QED BY <2>0, <2>3, <3>3, <1>0
  <2>4. CASE j >= i /\ k >= i
    <3>1. d[k] = s[k + 1] /\ d[j] = s[j + 1] /\ k + 1 \in 1..Len(s) /\ j + 1 \in 1..Len(s)
      BY <2>4, <1>0, <1>1
    <3> QED BY <2>0, <2>4, <3>1, <1>0
  <2> QED BY <2>1, <2>2, <2>3, <2>4, <2>0, <1>0
<1>3. \A j \in 1..Len(d) : \E k \in 1..Len(s) : k # i /\ d[j] = s[k]
  BY <1>0, <1>1
<1>4. \A k \in 1..Len(s) : k # i => \E j \in 1..Len(d) : d[j] = s[k]
  <2> SUFFICES ASSUME NEW k \in 1..Len(s), k # i
               PROVE  \E j \in 1..Len(d) : d[j] = s[k]
    OBVIOUS
  <2>1. CASE k < i
    BY <2>1, <1>0, <1>1
  <2>2. CASE k > i
    <3>1. k - 1 \in 1..Len(d) /\ ~(k - 1 < i) /\ (k - 1) + 1 = k
      BY <2>2, <1>0, <1>1
    <3> QED BY <3>1, <1>0, <1>1
  <2> QED BY <2>1, <2>2
<1>5. {d[j] : j \in 1..Len(d)} = {s[j] : j \in 1..Len(s)} \ {s[i]}
  <2>1. ASSUME NEW j \in 1..Len(d)
        PROVE  d[j] \in {s[k] : k \in 1..Len(s)} \ {s[i]}
    <3>1. PICK k \in 1..Len(s) : k # i /\ d[j] = s[k]
      BY <1>3
    <3>2. s[k] # s[i]
      BY <3>1
    <3> QED BY <3>1, <3>2
  <2>2. ASSUME NEW k \in 1..Len(s), s[k] # s[i]
        PROVE  s[k] \in {d[j] : j \in 1..Len(d)}
    <3>1. PICK j \in 1..Len(d) : d[j] = s[k]
      BY <2>2, <1>4
    <3> QED BY <3>1
  <2> QED BY <2>1, <2>2
<1> QED BY <1>2, <1>5 DEF d

\* The same for an element appended.
LEMMA AppendListed ==
  ASSUME NEW S, NEW s \in Seq(S), NEW o \in S, o \notin {s[j] : j \in 1..Len(s)},
         \A j, k \in 1..Len(s) : s[j] = s[k] => j = k
  PROVE  LET d == Append(s, o) IN
         /\ d \in Seq(S) /\ Len(d) = Len(s) + 1
         /\ \A j \in 1..Len(s) : d[j] = s[j]
         /\ d[Len(s) + 1] = o
         /\ \A j, k \in 1..Len(d) : d[j] = d[k] => j = k
         /\ {d[j] : j \in 1..Len(d)} = {s[j] : j \in 1..Len(s)} \cup {o}
<1> DEFINE d == Append(s, o)
<1>1. /\ d \in Seq(S) /\ Len(d) = Len(s) + 1 /\ Len(s) \in Nat
      /\ \A j \in 1..Len(s) : d[j] = s[j]
      /\ d[Len(s) + 1] = o
  OBVIOUS
<1> HIDE DEF d
<1>2. \A j, k \in 1..Len(d) : d[j] = d[k] => j = k
  BY <1>1
<1>3. {d[j] : j \in 1..Len(d)} = {s[j] : j \in 1..Len(s)} \cup {o}
  BY <1>1
<1> QED BY <1>1, <1>2, <1>3 DEF d

\* What the steps that change the list do to it.
LEMMA ListDrop ==
  ASSUME TypeOK, NEW i \in 1..Len(list), list' = Drop(list, i)
  PROVE  /\ list' \in Seq(Observers) /\ Len(list') = Len(list) - 1
         /\ \A j, k \in 1..Len(list') : list'[j] = list'[k] => j = k
         /\ Listed' = Listed \ {list[i]}
<1>1. list \in Seq(Observers) /\ \A j, k \in 1..Len(list) : list[j] = list[k] => j = k
  BY DEF TypeOK
<1>2. list' \in Seq(Observers) /\ Len(list') = Len(list) - 1
  BY <1>1, DropElement
<1>3. /\ \A j, k \in 1..Len(list') : list'[j] = list'[k] => j = k
      /\ {list'[j] : j \in 1..Len(list')} = {list[j] : j \in 1..Len(list)} \ {list[i]}
  <2>1. LET d == Drop(list, i) IN
        /\ \A j, k \in 1..Len(d) : d[j] = d[k] => j = k
        /\ {d[j] : j \in 1..Len(d)} = {list[j] : j \in 1..Len(list)} \ {list[i]}
    BY <1>1, DropListed
  <2> QED BY <2>1
<1> QED BY <1>2, <1>3 DEF Listed

LEMMA ListAppend ==
  ASSUME TypeOK, NEW o \in Observers, o \notin Listed, list' = Append(list, o)
  PROVE  /\ list' \in Seq(Observers) /\ Len(list') = Len(list) + 1
         /\ \A j \in 1..Len(list) : list'[j] = list[j]
         /\ list'[Len(list) + 1] = o
         /\ \A j, k \in 1..Len(list') : list'[j] = list'[k] => j = k
         /\ Listed' = Listed \cup {o}
<1>1. list \in Seq(Observers) /\ \A j, k \in 1..Len(list) : list[j] = list[k] => j = k
  BY DEF TypeOK
<1> QED BY <1>1, AppendListed DEF Listed

LEMMA PInvInit == Init => PInv
<1> SUFFICES ASSUME Init PROVE PInv
  OBVIOUS
<1>1. Len(list) = 0 /\ list \in Seq(Observers)
  BY EmptySeq DEF Init
<1>2. TypeOK
  BY <1>1 DEF Init, TypeOK, Phases
<1>3. NoUseAfterFree /\ Placed
  BY <1>1 DEF Init, NoUseAfterFree, Placed, Listed
<1> QED BY <1>2, <1>3 DEF PInv

\* One step of any kind keeps PInv, whatever callbacks do.
LEMMA PInvNext == PInv /\ [Next]_vars => PInv'
<1> SUFFICES ASSUME PInv, [Next]_vars
             PROVE  PInv'
  OBVIOUS
<1> USE DEF PInv, TypeOK, NoUseAfterFree, Placed, Phases
<1>0. Len(list) \in Nat /\ \A i \in 1..Len(list) : list[i] \in Listed
  BY DEF Listed
<1>A. list' = list => Listed' = Listed
  BY DEF Listed
<1>1. CASE UNCHANGED vars
  BY <1>1, <1>A DEF vars
<1>2. ASSUME NEW o \in Observers, Create(o)
      PROVE  PInv'
  BY <1>A, <1>2 DEF Create
<1>3. ASSUME NEW o \in Observers, Destroy(o)
      PROVE  PInv'
  BY <1>0, <1>A, <1>3 DEF Destroy
<1>4. ASSUME NEW o \in Observers, NEW as \in {"attached", "once"}, Attach(o, as)
      PROVE  PInv'
  <2>1. CASE UNCHANGED list
    <3>1. TypeOK'
      BY <1>A, <1>4, <2>1 DEF Attach
    <3>2. NoUseAfterFree'
      BY <1>A, <1>4, <2>1 DEF Attach, MayCall
    <3>3. Placed'
      BY <1>A, <1>4, <2>1 DEF Attach, MayCall
    <3> QED BY <3>1, <3>2, <3>3
  <2>2. CASE o \notin Listed /\ list' = Append(list, o)
    <3>1. /\ list' \in Seq(Observers) /\ Len(list') = Len(list) + 1
          /\ \A j \in 1..Len(list) : list'[j] = list[j]
          /\ \A j, k \in 1..Len(list') : list'[j] = list'[k] => j = k
          /\ Listed' = Listed \cup {o}
      BY <2>2, ListAppend
    <3>0. /\ st' = [st EXCEPT ![o] = as] /\ alive' = alive /\ at' = at
          /\ phase' = phase /\ cur' = cur /\ ev' = ev
          /\ anew' \in {anew, anew \cup {o}}
          /\ o \in alive /\ phase \in {"idle", "callback"}
      BY <1>4 DEF Attach, MayCall
    <3>2. TypeOK'
      <4>1. at' \in 0..(Len(list') + 1)
        BY <1>0, <3>0, <3>1
      <4>2. st' \in [Observers -> {"idle", "attached", "once", "detached"}]
        BY <3>0
      <4> QED BY <3>0, <3>1, <4>1, <4>2
    <3>3. NoUseAfterFree'
      BY <3>0, <3>1
    <3>4. Placed'
      <4>1. phase = "callback" => at \in 1..Len(list') /\ cur = list'[at]
        BY <1>0, <3>1
      <4>2. \A x \in Listed' : st'[x] # "idle"
        BY <3>0, <3>1
      <4> QED BY <3>0, <4>1, <4>2
    <3> QED BY <3>2, <3>3, <3>4
  <2> QED BY <1>4, <2>1, <2>2 DEF Attach
<1>5. ASSUME NEW o \in Observers, DetachNow(o)
      PROVE  PInv'
  <2>1. CASE UNCHANGED list /\ o \notin Listed
    BY <1>A, <1>5, <2>1 DEF DetachNow, MayCall
  <2>2. CASE \E i \in 1..Len(list) : list[i] = o /\ list' = Drop(list, i)
    <3>1. /\ list' \in Seq(Observers) /\ Len(list') = Len(list) - 1
          /\ \A j, k \in 1..Len(list') : list'[j] = list'[k] => j = k
          /\ Listed' = Listed \ {o}
      <4>1. PICK i \in 1..Len(list) : list[i] = o /\ list' = Drop(list, i)
        BY <2>2
      <4> QED BY <4>1, ListDrop
    <3>0. /\ st' = [st EXCEPT ![o] = "idle"] /\ alive' = alive /\ at' = at
          /\ phase' = phase /\ cur' = cur /\ ev' = ev /\ anew' = anew
          /\ phase = "idle"
      BY <1>5 DEF DetachNow
    <3>2. TypeOK'
      BY <1>0, <3>0, <3>1
    <3>3. NoUseAfterFree' /\ Placed'
      BY <1>0, <3>0, <3>1
    <3> QED BY <3>2, <3>3
  <2> QED BY <1>5, <2>1, <2>2 DEF DetachNow
<1>6. ASSUME NEW o \in Observers, DetachLater(o)
      PROVE  PInv'
  BY <1>A, <1>6 DEF DetachLater, MayCall
<1>7. ASSUME NEW e \in Events, Notify(e)
      PROVE  PInv'
  BY <1>0, <1>A, <1>7 DEF Notify
<1>8. CASE ScanCall
  <2>1. at \in 1..Len(list) /\ list[at] \in Observers
    BY <1>0, <1>A, <1>8 DEF ScanCall
  <2> QED BY <1>0, <1>A, <1>8, <2>1 DEF ScanCall
<1>9. CASE ScanSkip
  BY <1>0, <1>A, <1>9 DEF ScanSkip
<1>10. CASE ScanEnd
  BY <1>0, <1>A, <1>10 DEF ScanEnd
<1>11. CASE Return
  BY <1>0, <1>A, <1>11 DEF Return
<1>12. CASE SweepUnlink
  <2>1. at \in 1..Len(list) /\ list[at] \in Observers
    BY <1>0, <1>12 DEF SweepUnlink
  <2>2. /\ list' \in Seq(Observers) /\ Len(list') = Len(list) - 1
        /\ \A j, k \in 1..Len(list') : list'[j] = list'[k] => j = k
        /\ Listed' = Listed \ {list[at]}
    <3>1. list' = Drop(list, at)
      BY <1>12 DEF SweepUnlink
    <3> QED BY <2>1, <3>1, ListDrop
  <2>3. TypeOK'
    BY <1>0, <1>12, <2>1, <2>2 DEF SweepUnlink
  <2>4. NoUseAfterFree' /\ Placed'
    BY <1>0, <1>12, <2>1, <2>2 DEF SweepUnlink
  <2> QED BY <2>3, <2>4
<1>13. CASE SweepIdle
  BY <1>A, <1>13 DEF SweepIdle
<1>14. CASE SweepKeep
  BY <1>0, <1>A, <1>14 DEF SweepKeep
<1>15. CASE SweepEnd
  BY <1>0, <1>A, <1>15 DEF SweepEnd
<1> QED
  BY <1>1, <1>2, <1>3, <1>4, <1>5, <1>6, <1>7, <1>8, <1>9, <1>10, <1>11,
     <1>12, <1>13, <1>14, <1>15 DEF Next, Call, Proceed

LEMMA PInvAlways == Spec => []PInv
  BY PInvInit, PInvNext, PTL DEF Spec

\* The variables of the publisher keep their types, and no observer gets onto
\* the list twice.
THEOREM PublisherTypeOK == Spec => []TypeOK
  BY PInvAlways, PTL DEF PInv

\* Whatever callbacks do, observer_destroy, which takes no lock, never frees an
\* observer that notify is using.
THEOREM ObserverMemory == Spec => []NoUseAfterFree
  BY PInvAlways, PTL DEF PInv
-----------------------------------------------------------------------------
\* Without detach_unlisted: off the list means idle, but for the one observer
\* just unlinked, and detached means that the sweep is still to come.
Unlisted ==
  /\ \A o \in Observers :
       o \in Listed \/ st[o] = "idle" \/ (phase = "unlinked" /\ o = cur)
  /\ phase = "idle" => \A o \in Observers : st[o] # "detached"
  /\ phase \in {"sweep", "unlinked"} =>
       \A j \in 1..Len(list) : j < at => st[list[j]] # "detached"

QInv == PInv /\ Unlisted

LEMMA QInvNext ==
  ASSUME "detach_unlisted" \notin Habits
  PROVE  QInv /\ [Next]_vars => QInv'
<1> SUFFICES ASSUME QInv, [Next]_vars
             PROVE  Unlisted'
  BY PInvNext DEF QInv
<1> USE DEF QInv, PInv, TypeOK, Placed, Unlisted
<1>0. Len(list) \in Nat /\ \A i \in 1..Len(list) : list[i] \in Listed
  BY DEF Listed
<1>A. list' = list => Listed' = Listed
  BY DEF Listed
<1>B. \A o \in Listed : o \in Observers /\ \E i \in 1..Len(list) : list[i] = o
  BY DEF Listed
<1>1. CASE UNCHANGED vars
  BY <1>1, <1>A DEF vars
<1>2. ASSUME NEW o \in Observers, Create(o)
      PROVE  Unlisted'
  <2>1. o \notin Listed /\ ~(phase = "unlinked" /\ o = cur)
    BY <1>2 DEF Create, NoUseAfterFree
  <2>2. st[o] = "idle"
    BY <2>1
  <2>3. st' = st
    BY <1>2, <2>2 DEF Create
  <2> QED BY <1>A, <1>2, <2>3 DEF Create
<1>3. ASSUME NEW o \in Observers, Destroy(o)
      PROVE  Unlisted'
  BY <1>A, <1>3 DEF Destroy
<1>4. ASSUME NEW o \in Observers, NEW as \in {"attached", "once"}, Attach(o, as)
      PROVE  Unlisted'
  <2>0. /\ st' = [st EXCEPT ![o] = as] /\ phase' = phase /\ cur' = cur
        /\ phase \in {"idle", "callback"}
    BY <1>4 DEF Attach, MayCall
  <2>1. CASE UNCHANGED list /\ st[o] = "detached"
    <3>1. o \in Listed
      BY <2>0, <2>1
    <3> QED BY <1>A, <2>0, <2>1, <3>1
  <2>2. CASE o \notin Listed /\ list' = Append(list, o)
    <3>1. Listed' = Listed \cup {o}
      BY <2>2, ListAppend
    <3> QED BY <2>0, <3>1
  <2> QED BY <1>4, <2>1, <2>2 DEF Attach
<1>5. ASSUME NEW o \in Observers, DetachNow(o)
      PROVE  Unlisted'
  <2>0. /\ st' = [st EXCEPT ![o] = "idle"] /\ phase = "idle" /\ phase' = phase
    BY <1>5 DEF DetachNow
  <2>1. Listed' = Listed \ {o}
    <3>1. CASE UNCHANGED list /\ o \notin Listed
      BY <3>1, <1>A
    <3>2. CASE \E i \in 1..Len(list) : list[i] = o /\ list' = Drop(list, i)
      <4>1. PICK i \in 1..Len(list) : list[i] = o /\ list' = Drop(list, i)
        BY <3>2
      <4> QED BY <4>1, ListDrop
    <3> QED BY <1>5, <3>1, <3>2 DEF DetachNow
  <2> QED BY <2>0, <2>1
<1>6. ASSUME NEW o \in Observers, DetachLater(o)
      PROVE  Unlisted'
  <2>1. o \in Listed
    BY <1>6 DEF DetachLater
  <2> QED BY <1>A, <1>6, <2>1 DEF DetachLater
<1>7. ASSUME NEW e \in Events, Notify(e)
      PROVE  Unlisted'
  BY <1>A, <1>7 DEF Notify
<1>8. CASE ScanCall
  BY <1>A, <1>8 DEF ScanCall
<1>9. CASE ScanSkip
  BY <1>A, <1>9 DEF ScanSkip
<1>10. CASE ScanEnd
  BY <1>A, <1>0, <1>10 DEF ScanEnd
<1>11. CASE Return
  BY <1>A, <1>0, <1>11 DEF Return
<1>12. CASE SweepUnlink
  <2>1. /\ at \in 1..Len(list) /\ list[at] \in Observers /\ list' = Drop(list, at)
        /\ cur' = list[at] /\ phase' = "unlinked" /\ st' = st /\ at' = at
        /\ phase = "sweep"
    BY <1>0, <1>12 DEF SweepUnlink
  <2>2. Listed' = Listed \ {list[at]} /\ Len(list') = Len(list) - 1
    BY <2>1, ListDrop
  <2>3. \A j \in 1..Len(list') : j < at => list'[j] = list[j]
    BY <2>1, <2>2, DropElement
  <2>4. \A j \in 1..Len(list') : j < at => st[list'[j]] # "detached"
    BY <1>0, <2>1, <2>2, <2>3
  <2> QED BY <2>1, <2>2, <2>4
<1>13. CASE SweepIdle
  BY <1>A, <1>0, <1>13 DEF SweepIdle
<1>14. CASE SweepKeep
  BY <1>A, <1>0, <1>14 DEF SweepKeep
<1>15. CASE SweepEnd
  <2>1. \A o \in Listed : st[o] # "detached"
    BY <1>0, <1>B, <1>15 DEF SweepEnd
  <2> QED BY <1>A, <1>15, <2>1 DEF SweepEnd
<1> QED
  BY <1>1, <1>2, <1>3, <1>4, <1>5, <1>6, <1>7, <1>8, <1>9, <1>10, <1>11,
     <1>12, <1>13, <1>14, <1>15 DEF Next, Call, Proceed

LEMMA QInvInit == Init => QInv
  BY PInvInit DEF Init, QInv, Unlisted

LEMMA QInvAlways ==
  ASSUME "detach_unlisted" \notin Habits
  PROVE  Spec => []QInv
  BY QInvInit, QInvNext, PTL DEF Spec

\* As long as no callback detaches an observer that is not attached, an attach
\* that returned 0 is in force, and no observer is left in OBSERVER_DETACHED.
THEOREM AttachedIffListed ==
  ASSUME "detach_unlisted" \notin Habits
  PROVE  Spec => []AttachedIsListed
<1>1. QInv => AttachedIsListed
  BY DEF QInv, PInv, TypeOK, Placed, Unlisted, AttachedIsListed, Live, Listed
<1> QED BY <1>1, QInvAlways, PTL
-----------------------------------------------------------------------------
\* What a callback attached is of interest to that callback only.
RInv == QInv /\ (phase # "callback" => anew = {})

LEMMA RInvNext ==
  ASSUME "detach_unlisted" \notin Habits
  PROVE  RInv /\ [Next]_vars => RInv'
<1> SUFFICES ASSUME RInv, [Next]_vars PROVE phase' # "callback" => anew' = {}
  BY QInvNext DEF RInv
<1>1. CASE Call
  BY <1>1 DEF Call, Create, Destroy, DetachNow, DetachLater, Attach, MayCall, RInv
<1>2. CASE (\E e \in Events : Notify(e)) \/ Proceed \/ UNCHANGED vars
  BY <1>2 DEF Notify, Proceed, ScanCall, ScanSkip, ScanEnd, Return,
              SweepUnlink, SweepIdle, SweepKeep, SweepEnd, vars, RInv
<1> QED BY <1>1, <1>2 DEF Next

\* Without retouch_self: an observer attached anew in its own callback is not
\* one that Return detaches.
Untouched == phase = "callback" /\ cur \in anew => st[cur] # "once"

LEMMA UntouchedNext ==
  ASSUME "retouch_self" \notin Habits
  PROVE  RInv /\ Untouched /\ [Next]_vars => Untouched'
<1> SUFFICES ASSUME RInv, Untouched, [Next]_vars PROVE Untouched'
  OBVIOUS
<1> USE DEF RInv, QInv, PInv, TypeOK, Untouched
<1>1. CASE UNCHANGED vars
  BY <1>1 DEF vars
<1>2. CASE Call
  <2>1. ASSUME NEW o \in Observers, Create(o), phase = "callback"
        PROVE  st'[cur] = st[cur]
    <3>1. o # cur
      BY <2>1 DEF Create, NoUseAfterFree
    <3> QED BY <2>1, <3>1 DEF Create
  <2>2. ASSUME NEW o \in Observers, NEW as \in {"attached", "once"}, Attach(o, as),
               phase = "callback"
        PROVE  cur \in anew' => st'[cur] # "once"
    BY <2>2 DEF Attach
  <2> QED
    BY <1>2, <2>1, <2>2
    DEF Call, Create, Destroy, Attach, MayCall, DetachNow, DetachLater
<1>3. CASE (\E e \in Events : Notify(e)) \/ Proceed
  BY <1>3 DEF Notify, Proceed, ScanCall, ScanSkip, ScanEnd, Return,
              SweepUnlink, SweepIdle, SweepKeep, SweepEnd
<1> QED BY <1>1, <1>2, <1>3 DEF Next

\* The abstract variables change only with the ones they are made of.
LEMMA BusStutters ==
  ASSUME UNCHANGED <<st, list, phase, at, cur, ev, anew>>
  PROVE  UNCHANGED Bus!vars
  BY DEF Bus!vars, BusSub, BusBusy, BusDue, BusPast, Ahead, Listed, Live

\* An attach that returns 0 is the attach of EventBus.
LEMMA BusAttach ==
  ASSUME RInv, NEW o \in Observers,
         NEW as \in {"attached", "once"}, Attach(o, as)
  PROVE  Bus!Attach(o, as)
<1> USE DEF RInv, QInv, PInv, TypeOK
<1>0. /\ st' = [st EXCEPT ![o] = as] /\ phase' = phase /\ at' = at /\ cur' = cur
      /\ ev' = ev /\ phase \in {"idle", "callback"}
      /\ phase = "callback" => anew' = anew \cup {o}
      /\ st[o] = "detached" \/ o \notin Listed
  BY DEF Attach, MayCall
<1>L. Len(list) \in Nat
  OBVIOUS
<1>1. ~Live(o)
  BY <1>0 DEF Live, Unlisted
<1>2. BusSub[o] = "none"
  BY <1>1 DEF BusSub
<1>3. BusSub' = [BusSub EXCEPT ![o] = as]
  BY <1>0 DEF BusSub, Live
<1>4. BusBusy' = BusBusy
  BY <1>0 DEF BusBusy
<1>5. /\ BusBusy => Ahead' \in {Ahead, Ahead \cup {o}} /\ Listed' \ Ahead' = Listed \ Ahead
      /\ o \in Ahead' => o \notin Listed \ Ahead
  <2>1. CASE UNCHANGED list
    BY <1>0, <2>1 DEF Ahead, Listed
  <2>2. CASE o \notin Listed /\ list' = Append(list, o)
    <3>1. /\ Len(list') = Len(list) + 1 /\ list'[Len(list) + 1] = o
          /\ \A j \in 1..Len(list) : list'[j] = list[j]
          /\ Listed' = Listed \cup {o}
      BY <2>2, ListAppend
    <3>2. CASE ~BusBusy
      BY <2>2, <3>2
    <3>3. CASE BusBusy
      <4>1. phase = "callback" /\ at \in 1..Len(list)
        BY <3>3, <1>0 DEF BusBusy, Placed
      <4>2. Ahead' = Ahead \cup {o}
        BY <1>0, <1>L, <3>1, <4>1 DEF Ahead
      <4> QED BY <2>2, <3>1, <4>2
    <3> QED BY <3>2, <3>3
  <2> QED BY <2>1, <2>2 DEF Attach
<1>6. \A x \in Observers : x # o => (Live(x)' <=> Live(x))
  BY <1>0 DEF Live
<1>7. BusDue' = BusDue \/ (BusBusy /\ o \in Interested[ev] \ BusPast /\ BusDue' = BusDue \cup {o})
  <2>1. CASE ~BusBusy
    BY <2>1, <1>4 DEF BusDue
  <2>2. CASE BusBusy
    <3>1. /\ BusDue = {x \in Ahead : x \in Interested[ev] /\ Live(x)}
          /\ BusDue' = {x \in Ahead' : x \in Interested[ev] /\ Live(x)'}
          /\ BusPast = Listed \ Ahead
      BY <1>0, <1>4, <2>2 DEF BusDue, BusPast
    <3>2. Ahead \subseteq Observers
      BY <2>2 DEF Ahead, BusBusy, Placed
    <3>3. \A x \in Ahead : x # o => (Live(x)' <=> Live(x))
      BY <1>6, <3>2
    <3>4. CASE o \in Ahead' /\ o \in Interested[ev]
      <4>1. Live(o)'
        BY <1>0 DEF Live
      <4>2. BusDue' = BusDue \cup {o}
        BY <1>1, <1>5, <2>2, <3>1, <3>3, <3>4, <4>1
      <4> QED BY <1>5, <2>2, <3>1, <3>4, <4>2
    <3>5. CASE ~(o \in Ahead' /\ o \in Interested[ev])
      BY <1>1, <1>5, <2>2, <3>1, <3>3, <3>5
    <3> QED BY <3>4, <3>5
  <2> QED BY <2>1, <2>2
<1>8. BusPast' = BusPast
  BY <1>4, <1>5 DEF BusPast
<1> QED BY <1>0, <1>2, <1>3, <1>4, <1>7, <1>8 DEF Bus!Attach

\* A detach is the detach of EventBus, at once or from a callback.
LEMMA BusDetach ==
  ASSUME RInv, NEW o \in Observers, DetachNow(o) \/ DetachLater(o)
  PROVE  Bus!Detach(o)
<1> USE DEF RInv, QInv, PInv, TypeOK
<1>1. CASE DetachNow(o)
  <2>1. /\ st' = [st EXCEPT ![o] = "idle"] /\ phase = "idle" /\ phase' = phase /\ ev' = ev
    BY <1>1 DEF DetachNow
  <2>2. BusSub' = [BusSub EXCEPT ![o] = "none"]
    BY <2>1 DEF BusSub, Live
  <2> QED BY <2>1, <2>2 DEF Bus!Detach, BusBusy, BusDue, BusPast
<1>2. CASE DetachLater(o)
  <2>1. /\ st' = [st EXCEPT ![o] = "detached"] /\ phase = "callback" /\ phase' = phase
        /\ UNCHANGED <<list, at, cur, ev, anew>>
    BY <1>2 DEF DetachLater
  <2>2. BusSub' = [BusSub EXCEPT ![o] = "none"]
    BY <2>1 DEF BusSub, Live
  <2>3. Ahead' = Ahead /\ Listed' = Listed /\ Ahead \subseteq Observers
    BY <2>1 DEF Ahead, Listed, Placed
  <2>4. \A x \in Observers : Live(x)' <=> (Live(x) /\ x # o)
    BY <2>1 DEF Live
  <2>5. BusDue' = BusDue \ {o}
    BY <2>1, <2>3, <2>4 DEF BusDue, BusBusy
  <2> QED BY <2>1, <2>2, <2>3, <2>5 DEF Bus!Detach, BusBusy, BusPast
<1> QED BY <1>1, <1>2

\* notify starts with everybody due who is attached and interested.
LEMMA BusNotify ==
  ASSUME RInv, NEW e \in Events, Notify(e)
  PROVE  Bus!Notify(e)
<1> USE DEF RInv, QInv, PInv, TypeOK
<1>1. /\ phase = "idle" /\ phase' = "scan" /\ at' = 1 /\ ev' = e
      /\ UNCHANGED <<st, list, cur, anew>>
  BY DEF Notify
<1>2. BusSub' = BusSub
  BY <1>1 DEF BusSub, Live
<1>3. Ahead' = Listed /\ Listed' = Listed
  BY <1>1 DEF Ahead, Listed
<1>4. \A o \in Observers : /\ Live(o)' <=> Live(o)
                           /\ BusSub[o] # "none" <=> Live(o)
                           /\ Live(o) => o \in Listed
  BY <1>1 DEF BusSub, Live, Unlisted
<1>5. Listed \subseteq Observers /\ Interested[e] \subseteq Observers
  BY DEF Listed, Interested
<1>6. BusDue' = {o \in Interested[e] : BusSub[o] # "none"}
  BY <1>1, <1>3, <1>4, <1>5 DEF BusDue, BusBusy
<1> QED BY <1>1, <1>2, <1>3, <1>6 DEF Bus!Notify, BusBusy, BusPast

\* The iterator stands on list[at]: what is ahead of it once it has moved on.
LEMMA AheadOfNext ==
  ASSUME TypeOK, NEW s \in 1..Len(list)
  PROVE  /\ {list[i] : i \in (s + 1)..Len(list)} = {list[i] : i \in s..Len(list)} \ {list[s]}
         /\ list[s] \in Listed /\ list[s] \in {list[i] : i \in s..Len(list)}
<1>1. Len(list) \in Nat /\ \A j, k \in 1..Len(list) : list[j] = list[k] => j = k
  BY DEF TypeOK
<1> QED BY <1>1 DEF Listed

\* Calling an observer back delivers the event to it.
LEMMA BusScanCall ==
  ASSUME RInv, ScanCall
  PROVE  \E o \in Observers : Bus!Deliver(o)
<1> USE DEF RInv, QInv, PInv, TypeOK
<1> DEFINE o == list[at]
<1>1. /\ at \in 1..Len(list) /\ o \in Observers /\ Live(o) /\ Matches(ev, Watch[o])
      /\ phase = "scan" /\ phase' = "callback" /\ cur' = o /\ anew = {} /\ anew' = {}
      /\ UNCHANGED <<st, list, at, ev>>
  BY DEF ScanCall, Placed
<1> HIDE DEF o
<1>2. Ahead' = Ahead \ {o} /\ o \in Ahead /\ o \in Listed /\ Listed' = Listed
  BY <1>1, AheadOfNext DEF Ahead, Listed, o
<1>3. BusSub' = [BusSub EXCEPT ![o] = IF @ = "once" THEN "none" ELSE @]
  BY <1>1 DEF BusSub, Live
<1>4. o \in Interested[ev]
  BY <1>1 DEF Interested
<1>5. \A x \in Observers : Live(x)' <=> Live(x)
  BY <1>1 DEF Live
<1>6. Ahead \subseteq Observers
  BY <1>1 DEF Ahead
<1>7. o \in BusDue /\ BusDue' = BusDue \ {o}
  BY <1>1, <1>2, <1>4, <1>5, <1>6 DEF BusDue, BusBusy
<1>8. BusPast' = BusPast \cup {o}
  BY <1>1, <1>2 DEF BusPast, BusBusy
<1>9. BusBusy' = BusBusy /\ ev' = ev /\ o \in Observers
  BY <1>1 DEF BusBusy
<1>10. Bus!Deliver(o)
  BY <1>3, <1>7, <1>8, <1>9 DEF Bus!Deliver
<1> QED BY <1>9, <1>10

\* Going on to the next one passes only over observers that are not due.
LEMMA BusScanSkip ==
  ASSUME RInv, ScanSkip
  PROVE  \E o \in Observers : Bus!Skip(o)
<1> USE DEF RInv, QInv, PInv, TypeOK
<1> DEFINE o == list[at]
<1>1. /\ at \in 1..Len(list) /\ o \in Observers /\ ~(Live(o) /\ Matches(ev, Watch[o]))
      /\ phase = "scan" /\ phase' = phase /\ at' = at + 1
      /\ UNCHANGED <<st, list, cur, ev, anew>>
  BY DEF ScanSkip, Placed
<1> HIDE DEF o
<1>2. Ahead' = Ahead \ {o} /\ o \in Ahead /\ o \in Listed /\ Listed' = Listed
  BY <1>1, AheadOfNext DEF Ahead, Listed, o
<1>3. BusSub' = BusSub
  BY <1>1 DEF BusSub, Live
<1>4. ~(Live(o) /\ o \in Interested[ev])
  BY <1>1 DEF Interested
<1>5. \A x \in Observers : Live(x)' <=> Live(x)
  BY <1>1 DEF Live
<1>6. Ahead \subseteq Observers
  BY <1>1 DEF Ahead
<1>7. o \notin BusDue /\ BusDue' = BusDue
  BY <1>1, <1>2, <1>4, <1>5, <1>6 DEF BusDue, BusBusy
<1>8. BusPast' = BusPast \cup {o}
  BY <1>1, <1>2 DEF BusPast, BusBusy
<1> QED BY <1>1, <1>3, <1>7, <1>8 DEF Bus!Skip, BusBusy

\* The return of a callback is nothing for the observers, but for one that its
\* own callback touched again: that one is detached.
LEMMA BusReturn ==
  ASSUME RInv, Return
  PROVE  IF Untouched THEN UNCHANGED Bus!vars ELSE Bus!Detach(cur)
<1> USE DEF RInv, QInv, PInv, TypeOK
<1>1. /\ phase = "callback" /\ phase' = "scan" /\ at' = at + 1 /\ anew' = {}
      /\ st' = [st EXCEPT ![cur] = IF @ = "once" THEN "detached" ELSE @]
      /\ UNCHANGED <<list, cur, ev>>
  BY DEF Return
<1>2. Ahead' = Ahead /\ Listed' = Listed /\ Ahead \subseteq Observers /\ cur \notin Ahead
  BY <1>1 DEF Ahead, Listed, Placed
<1>3. \A x \in Observers : x # cur => (Live(x)' <=> Live(x))
  BY <1>1 DEF Live
<1>4. /\ BusBusy' = BusBusy /\ BusPast' = BusPast /\ ev' = ev
      /\ BusDue' = BusDue /\ cur \notin BusDue
  BY <1>1, <1>2, <1>3 DEF BusBusy, BusPast, BusDue
<1>5. CASE Untouched
  <2>1. BusSub' = BusSub
    BY <1>1, <1>5 DEF BusSub, Live, Untouched
  <2> QED BY <1>4, <1>5, <2>1 DEF Bus!vars
<1>6. CASE ~Untouched
  <2>1. BusSub' = [BusSub EXCEPT ![cur] = "none"]
    BY <1>1, <1>6 DEF BusSub, Live, Untouched
  <2>2. BusDue' = BusDue \ {cur}
    BY <1>4
  <2> QED BY <1>4, <1>6, <2>1, <2>2 DEF Bus!Detach
<1> QED BY <1>5, <1>6

\* The rest of notify is Finish, or nothing at all for the observers.
LEMMA BusRest ==
  ASSUME RInv, ScanEnd \/ SweepUnlink \/ SweepIdle \/ SweepKeep \/ SweepEnd
  PROVE  Bus!Finish \/ UNCHANGED Bus!vars
<1> USE DEF RInv, QInv, PInv, TypeOK
<1>1. CASE ScanEnd
  <2>1. /\ phase = "scan" /\ phase' = "sweep" /\ at > Len(list)
        /\ UNCHANGED <<st, cur, ev, anew>>
    BY <1>1 DEF ScanEnd
  <2>2. Ahead = {}
    BY <2>1 DEF Ahead
  <2>3. BusSub' = BusSub
    BY <2>1 DEF BusSub, Live
  <2> QED BY <2>1, <2>2, <2>3 DEF Bus!Finish, BusDue, BusPast, BusBusy
<1>2. CASE SweepUnlink \/ SweepIdle \/ SweepKeep \/ SweepEnd
  <2>1. /\ phase \in {"sweep", "unlinked"} /\ phase' \in {"sweep", "unlinked", "idle"}
        /\ ev' = ev
        /\ st' = st \/ (st[cur] = "detached" /\ st' = [st EXCEPT ![cur] = "idle"])
    <3>1. CASE SweepIdle
      BY <3>1 DEF SweepIdle, Placed
    <3>2. CASE SweepUnlink
      BY <3>2 DEF SweepUnlink
    <3>3. CASE SweepKeep
      BY <3>3 DEF SweepKeep
    <3>4. CASE SweepEnd
      BY <3>4 DEF SweepEnd
    <3> QED BY <1>2, <3>1, <3>2, <3>3, <3>4
  <2>2. BusSub' = BusSub
    BY <2>1 DEF BusSub, Live
  <2> QED BY <2>1, <2>2 DEF Bus!vars, BusDue, BusPast, BusBusy
<1> QED BY <1>1, <1>2

LEMMA BusProceed ==
  ASSUME RInv, Proceed
  PROVE  \/ Bus!Pass \/ UNCHANGED Bus!vars
         \/ ~Untouched /\ Bus!Detach(cur)
<1>1. CASE Return
  BY <1>1, BusReturn
<1>2. CASE Proceed /\ ~Return
  BY <1>2, BusScanCall, BusScanSkip, BusRest DEF Proceed, Bus!Pass
<1> QED BY <1>1, <1>2

\* The memory of an observer is nothing to EventBus.
LEMMA BusMemory ==
  ASSUME RInv, NEW o \in Observers, Create(o) \/ Destroy(o)
  PROVE  UNCHANGED Bus!vars
<1>1. CASE Create(o)
  <2>1. o \notin Listed /\ ~(phase = "unlinked" /\ o = cur)
    BY <1>1 DEF Create, RInv, QInv, PInv, NoUseAfterFree
  <2>2. st[o] = "idle" /\ st \in [Observers -> {"idle", "attached", "once", "detached"}]
    BY <2>1 DEF RInv, QInv, PInv, TypeOK, Unlisted
  <2>3. st' = st
    BY <1>1, <2>2 DEF Create
  <2> QED BY <1>1, <2>3, BusStutters DEF Create
<1>2. CASE Destroy(o)
  BY <1>2, BusStutters DEF Destroy
<1> QED BY <1>1, <1>2

LEMMA BusStep ==
  ASSUME RInv, [Next]_vars
  PROVE  [Bus!Next]_(Bus!vars)
<1>1. CASE UNCHANGED vars
  BY <1>1, BusStutters DEF vars
<1>2. CASE Call
  BY <1>2, BusAttach, BusDetach, BusMemory DEF Call, Bus!Next
<1>3. CASE \E e \in Events : Notify(e)
  BY <1>3, BusNotify DEF Bus!Next
<1>4. CASE Proceed
  <2>1. cur \in Observers
    BY DEF RInv, QInv, PInv, TypeOK
  <2> QED BY <1>4, <2>1, BusProceed DEF Bus!Next
<1> QED BY <1>1, <1>2, <1>3, <1>4 DEF Next

LEMMA RInvInit == Init => RInv
  BY QInvInit DEF Init, RInv

LEMMA BusInit == Init => Bus!Init
  BY DEF Init, Bus!Init, BusSub, BusBusy, BusDue, BusPast, Live

\* The list, the marks and the sweep do what EventBus says, for any observers
\* and events, as long as callbacks keep to attached observers.  Whoever is
\* touched again by its own callback may be taken for detached: EventBus
\* cannot tell that from a detach, CallsKept can.
THEOREM PublisherRefinesBus ==
  ASSUME "detach_unlisted" \notin Habits
  PROVE  Spec => ImplementsBus
<1>1. RInv /\ [Next]_vars => RInv' /\ [Bus!Next]_(Bus!vars)
  BY RInvNext, BusStep
<1> QED BY <1>1, RInvInit, BusInit, PTL DEF Spec, ImplementsBus, Bus!Spec

\* And each call does what its counterpart there does, as long as no observer
\* is touched again by its own callback.
THEOREM CallsAlwaysKept ==
  ASSUME "detach_unlisted" \notin Habits, "retouch_self" \notin Habits
  PROVE  Spec => CallsKept
<1> DEFINE Kept ==
      /\ \A o \in Observers, as \in {"attached", "once"} :
           Attach(o, as) => Bus!Attach(o, as)
      /\ \A o \in Observers : (DetachNow(o) \/ DetachLater(o)) => Bus!Detach(o)
      /\ \A e \in Events : Notify(e) => Bus!Notify(e)
      /\ Proceed => (Bus!Pass \/ UNCHANGED Bus!vars)
<1>0. Init => Untouched
  BY DEF Init, Untouched
<1>1. RInv /\ Untouched /\ [Next]_vars => RInv' /\ Untouched' /\ [Kept]_vars
  BY RInvNext, UntouchedNext, BusAttach, BusDetach, BusNotify, BusProceed
<1> HIDE DEF Kept
<1>2. Spec => [][Kept]_vars
  BY <1>0, <1>1, RInvInit, PTL DEF Spec
<1> QED BY <1>2 DEF CallsKept, Kept
-----------------------------------------------------------------------------
\* How much of notify is left: two steps for each place the iterator may still
\* come to, and two for each observer the sweep may still unlink.
Room == Cardinality(Observers)
Left == Len(list) + 1 - at
WalkRank ==
  CASE phase = "idle"     -> 0
    [] phase = "sweep"    -> 2 * Left + 1
    [] phase = "unlinked" -> 2 * Left + 2
    [] phase = "callback" -> 2 * Room + 1 + 2 * (Room + 1 - at)
    [] OTHER              -> 2 * Room + 2 + 2 * (Room + 1 - at)

\* No step of notify makes it longer, and no call: not even one that appends
\* to the list under the iterator.
WalkShrinks ==
  [][/\ Proceed => WalkRank' < WalkRank
     /\ Call => WalkRank' = WalkRank]_vars

\* An observer is on the list at most once, so the list never outgrows them.
LEMMA ListFits ==
  ASSUME TypeOK, IsFiniteSet(Observers)
  PROVE  Room \in Nat /\ Len(list) \in Nat /\ Len(list) <= Room
<1>1. list \in [1..Len(list) -> Observers] /\ Len(list) \in Nat
  BY DEF TypeOK
<1>2. \A i, j \in 1..Len(list) : list[i] = list[j] => i = j
  BY DEF TypeOK
<1>3. list \in Injection(1..Len(list), Observers)
  BY <1>1, <1>2 DEF Injection, IsInjective
<1>4. Cardinality(1..Len(list)) <= Room
  BY <1>3, FS_Injection DEF Room
<1>5. Cardinality(1..Len(list)) = IF 1 > Len(list) THEN 0 ELSE Len(list) - 1 + 1
  BY <1>1, FS_Interval
<1> QED BY <1>1, <1>4, <1>5, FS_CardinalityType DEF Room

LEMMA WalkRankBound ==
  ASSUME PInv, IsFiniteSet(Observers)
  PROVE  WalkRank \in 0..(4 * Room + 2)
<1>1. Room \in Nat /\ Len(list) \in Nat /\ Len(list) <= Room
  BY ListFits DEF PInv
<1>2. at \in 0..(Len(list) + 1) /\ phase \in Phases /\ (at = 0 <=> phase = "idle")
  BY DEF PInv, TypeOK, Placed
<1>3. phase = "callback" => at <= Len(list)
  BY <1>1 DEF PInv, Placed
<1>4. CASE phase = "idle"
  BY <1>1, <1>4 DEF WalkRank
<1>5. CASE phase \in {"sweep", "unlinked"}
  <2>1. Left \in 0..Room
    BY <1>1, <1>2, <1>5 DEF Left
  <2>2. WalkRank \in {2 * Left + 1, 2 * Left + 2}
    BY <1>5 DEF WalkRank
  <2> QED BY <1>1, <2>1, <2>2
<1>6. CASE phase = "callback"
  BY <1>1, <1>2, <1>3, <1>6 DEF WalkRank
<1>7. CASE phase = "scan"
  BY <1>1, <1>2, <1>7 DEF WalkRank
<1> QED BY <1>2, <1>4, <1>5, <1>6, <1>7 DEF Phases

LEMMA WalkProceeds ==
  ASSUME PInv, IsFiniteSet(Observers), Proceed
  PROVE  WalkRank' < WalkRank
<1>0. Room \in Nat /\ Len(list) \in Nat /\ Len(list) <= Room /\ Room' = Room
  BY ListFits DEF PInv, Room
<1>1. at \in 0..(Len(list) + 1) /\ (at = 0 <=> phase = "idle")
  BY DEF PInv, TypeOK, Placed
<1>2. CASE ScanCall
  BY <1>0, <1>1, <1>2 DEF ScanCall, WalkRank
<1>3. CASE ScanSkip
  BY <1>0, <1>1, <1>3 DEF ScanSkip, WalkRank
<1>4. CASE ScanEnd
  BY <1>0, <1>1, <1>4 DEF ScanEnd, WalkRank, Left
<1>5. CASE Return
  BY <1>0, <1>1, <1>5 DEF Return, WalkRank
<1>6. CASE SweepUnlink
  <2>1. at \in 1..Len(list) /\ list' = Drop(list, at)
    BY <1>0, <1>1, <1>6 DEF SweepUnlink
  <2>2. Len(list') = Len(list) - 1
    BY <2>1, ListDrop DEF PInv
  <2> QED BY <1>0, <1>1, <1>6, <2>2 DEF SweepUnlink, WalkRank, Left
<1>7. CASE SweepIdle
  BY <1>0, <1>1, <1>7 DEF SweepIdle, WalkRank, Left
<1>8. CASE SweepKeep
  BY <1>0, <1>1, <1>8 DEF SweepKeep, WalkRank, Left
<1>9. CASE SweepEnd
  BY <1>0, <1>1, <1>9 DEF SweepEnd, WalkRank, Left
<1> QED BY <1>2, <1>3, <1>4, <1>5, <1>6, <1>7, <1>8, <1>9 DEF Proceed

LEMMA WalkCalls ==
  ASSUME Call
  PROVE  WalkRank' = WalkRank
<1>1. /\ phase' = phase /\ at' = at
      /\ list' = list \/ phase \in {"idle", "callback"}
  BY DEF Call, Create, Destroy, DetachNow, DetachLater, Attach, MayCall
<1> QED BY <1>1 DEF WalkRank, Left, Room

\* One event is passed on in at most four steps for each observer there is and
\* two more, whatever the callbacks attach or detach, and whatever habits they
\* have: the mutex is given back as soon as they return.
THEOREM WalkIsBounded ==
  ASSUME IsFiniteSet(Observers)
  PROVE  Spec => [](WalkRank \in 0..(4 * Room + 2)) /\ WalkShrinks
<1> DEFINE Shrinks == /\ Proceed => WalkRank' < WalkRank
                      /\ Call => WalkRank' = WalkRank
           Bounded == WalkRank \in 0..(4 * Room + 2)
<1>1. PInv => Bounded
  BY WalkRankBound
<1>2. PInv /\ [Next]_vars => [Shrinks]_vars
  BY WalkProceeds, WalkCalls
<1> HIDE DEF Shrinks, Bounded
<1>3. Spec => []Bounded
  BY <1>1, PInvAlways, PTL
<1>4. Spec => [][Shrinks]_vars
  BY <1>2, PInvInit, PInvNext, PTL DEF Spec
<1> QED BY <1>3, <1>4 DEF WalkShrinks, Shrinks, Bounded
=============================================================================
