--------------------------- MODULE Console_proofs ---------------------------
(***************************************************************************)
(* Theorems about the console, for any number and length of line buffers.  *)
(***************************************************************************)
EXTENDS Console, FiniteSetTheorems, SequenceTheorems, TLAPS

(***************************************************************************)
(* The inductive invariant.  The two bitmaps hold arcs of one ring: after  *)
(* the buffer executed last come the ready ones, then the interrupt's,     *)
(* then the free ones; the semaphore counts the ready arc.  None of it     *)
(* needs the task, and none of it is disturbed by the races of the module: *)
(* an interrupt that goes on after the task has ended only fills the ring. *)
(***************************************************************************)
Arc(a, n) == {Wrap(a + i) : i \in 1 .. n}

Busy   == IF tpc = "exec" THEN 1 ELSE 0
NReady == Cardinality(ready)

Types ==
  /\ state \in {"stop", "start", "terminate"}
  /\ alive \in BOOLEAN /\ tpc \in {"wait", "exec"}
  /\ cur \in 0 .. BufNum /\ last \in Bufs /\ rx \in 0 .. BufNum
  /\ free \subseteq Bufs /\ ready \subseteq Bufs
  /\ text \in [Bufs -> Texts]
  /\ sem \in Nat /\ semOk \in BOOLEAN
  /\ held \in Chars \cup {"none"}
  /\ fifo \in Seq(Chars) /\ Len(fifo) <= FifoLen
  /\ on \in BOOLEAN /\ isr \in BOOLEAN
  /\ spc \in {"idle", "enable", "mark", "terminate", "join"}

\* Which steps of console_start and console_stop go with which of the rest.
Session ==
  /\ state = "start" => spc \in {"idle", "terminate"}
  /\ state = "terminate" <=> spc = "join"
  /\ alive => semOk /\ (spc \in {"enable", "mark", "join"} \/ state = "start")
  /\ ~alive => tpc = "wait"
  /\ spc \in {"enable", "mark"} => semOk /\ tpc = "wait" /\ state = "stop"
  /\ ~semOk => sem = 0

Owner == IF tpc = "exec" THEN cur ELSE last

\* The console was never started.
Fresh ==
  /\ ~alive /\ ~on /\ ~isr /\ ~semOk
  /\ ready = {} /\ free = {}

Turning ==
  /\ Owner \in Bufs
  /\ NReady \in 0 .. BufNum - Busy
  /\ ready = Arc(Owner, NReady)
  /\ IF NReady + Busy = BufNum
       THEN rx = NoBuf /\ free = {}
       ELSE /\ rx = Wrap(Owner + NReady + 1)
            /\ free = Arc(Owner + NReady + 1, BufNum - Busy - NReady - 1)

Ring == Fresh \/ Turning

\* What console_stop adds to cmd_sem for the task to end.
Last == IF spc = "join" THEN 1 ELSE 0

Tokens ==
  /\ alive => sem = NReady + Last
  /\ sem <= NReady + Last

IInv == Types /\ Session /\ Ring /\ Tokens

-----------------------------------------------------------------------------
(* Arcs of the ring *)

\* An index counts the same whether it is taken round the ring now or later.
LEMMA WrapWrap ==
  ASSUME NEW a \in Nat, NEW i \in Nat, a + i < 2 * BufNum
  PROVE  Wrap(Wrap(a) + i) = Wrap(a + i) /\ Wrap(a + i) \in Bufs
  BY ConsoleAssumption DEF Wrap, Bufs

\* Once round the ring is where it began.
LEMMA WrapRound == \A a \in Bufs : Wrap(a) = a /\ Wrap(a + BufNum) = a
  BY ConsoleAssumption DEF Wrap, Bufs

\* Less than one turn of the ring never meets itself.
LEMMA WrapApart ==
  ASSUME NEW a \in Nat, NEW i \in 1 .. BufNum, NEW j \in 1 .. BufNum, i # j,
         a + i < 2 * BufNum, a + j < 2 * BufNum
  PROVE  Wrap(a + i) # Wrap(a + j)
  BY ConsoleAssumption DEF Wrap

LEMMA ArcEmpty == \A a \in Nat : Arc(a, 0) = {}
  BY DEF Arc

LEMMA ArcInRing ==
  ASSUME NEW a \in Nat, NEW n \in Nat, a + n < 2 * BufNum
  PROVE  Arc(a, n) \subseteq Bufs
<1>1. ASSUME NEW i \in 1 .. n PROVE Wrap(a + i) \in Bufs
  BY ConsoleAssumption DEF Wrap, Bufs
<1> QED BY <1>1 DEF Arc

\* An arc may begin before or after the turn.
LEMMA ArcWrap ==
  ASSUME NEW a \in Nat, NEW n \in Nat, a + n < 2 * BufNum
  PROVE  Arc(Wrap(a), n) = Arc(a, n)
<1>1. ASSUME NEW i \in 1 .. n PROVE Wrap(Wrap(a) + i) = Wrap(a + i)
  <2>1. i \in Nat /\ a + i < 2 * BufNum
    BY ConsoleAssumption
  <2> QED BY <2>1, WrapWrap
<1> QED BY <1>1 DEF Arc

\* An arc grows at its end ...
LEMMA ArcGrows ==
  ASSUME NEW a \in Nat, NEW n \in Nat
  PROVE  Arc(a, n + 1) = Arc(a, n) \cup {Wrap(a + n + 1)}
<1>1. 1 .. n + 1 = (1 .. n) \cup {n + 1}
  OBVIOUS
<1>2. a + (n + 1) = a + n + 1
  OBVIOUS
<1> QED BY <1>1, <1>2 DEF Arc

\* ... and shrinks at its beginning.
LEMMA ArcShrinks ==
  ASSUME NEW a \in Nat, NEW n \in 1 .. BufNum, a + n < 2 * BufNum
  PROVE  /\ Wrap(a + 1) \in Arc(a, n)
         /\ Arc(a, n) \ {Wrap(a + 1)} = Arc(a + 1, n - 1)
<1> USE ConsoleAssumption
<1>1. Wrap(a + 1) \in Arc(a, n)
  <2>1. 1 \in 1 .. n
    OBVIOUS
  <2> QED BY <2>1 DEF Arc
<1>2. ASSUME NEW b \in Arc(a + 1, n - 1)
      PROVE  b \in Arc(a, n) /\ b # Wrap(a + 1)
  <2>1. PICK i \in 1 .. n - 1 : b = Wrap(a + 1 + i)
    BY DEF Arc
  <2>2. i + 1 \in 2 .. n /\ a + 1 + i = a + (i + 1)
    BY <2>1
  <2>3. b = Wrap(a + (i + 1)) /\ i + 1 \in 1 .. n
    BY <2>1, <2>2
  <2>4. b # Wrap(a + 1)
    <3>1. i + 1 \in 1 .. BufNum /\ 1 \in 1 .. BufNum /\ i + 1 # 1
          /\ a + (i + 1) < 2 * BufNum /\ a + 1 < 2 * BufNum
      BY <2>2
    <3> QED BY <2>3, <3>1, WrapApart
  <2> QED BY <2>3, <2>4 DEF Arc
<1>3. ASSUME NEW b \in Arc(a, n), b # Wrap(a + 1)
      PROVE  b \in Arc(a + 1, n - 1)
  <2>1. PICK i \in 1 .. n : b = Wrap(a + i)
    BY DEF Arc
  <2>2. i - 1 \in 1 .. n - 1 /\ a + i = a + 1 + (i - 1)
    BY <1>3, <2>1
  <2> QED BY <2>1, <2>2 DEF Arc
<1> QED BY <1>1, <1>2, <1>3

\* Two arcs that follow one another, one turn at most, have no buffer in common.
LEMMA ArcsApart ==
  ASSUME NEW a \in Nat, NEW m \in Nat, NEW n \in Nat,
         m + n <= BufNum, a + m + n < 2 * BufNum
  PROVE  Arc(a, m) \cap Arc(a + m, n) = {}
<1> USE ConsoleAssumption
<1> SUFFICES ASSUME NEW i \in 1 .. m, NEW j \in 1 .. n
             PROVE  Wrap(a + i) # Wrap(a + m + j)
  BY DEF Arc
<1>1. m + j \in 1 .. BufNum /\ i \in 1 .. BufNum /\ i # m + j
  OBVIOUS
<1>2. a + m + j = a + (m + j) /\ a + (m + j) < 2 * BufNum /\ a + i < 2 * BufNum
  OBVIOUS
<1> QED BY <1>1, <1>2, WrapApart

\* An arc of one turn is the ring.
LEMMA ArcTurn ==
  ASSUME NEW a \in Bufs
  PROVE  Arc(a, BufNum) = Bufs
<1> USE ConsoleAssumption
<1>1. Arc(a, BufNum) \subseteq Bufs
  BY ArcInRing DEF Bufs
<1>2. ASSUME NEW b \in Bufs PROVE b \in Arc(a, BufNum)
  <2>1. CASE b > a
    <3>1. b - a \in 1 .. BufNum /\ a + (b - a) = b
      BY <2>1 DEF Bufs
    <3> QED BY <3>1, WrapRound DEF Arc
  <2>2. CASE b <= a
    <3>1. b + BufNum - a \in 1 .. BufNum /\ a + (b + BufNum - a) = b + BufNum
      BY <2>2 DEF Bufs
    <3> QED BY <3>1, WrapRound DEF Arc
  <2> QED BY <2>1, <2>2 DEF Bufs
<1> QED BY <1>1, <1>2

\* An arc has as many buffers as its length says.
LEMMA ArcSize ==
  ASSUME NEW a \in Nat, NEW n \in 0 .. BufNum, a + n < 2 * BufNum
  PROVE  Cardinality(Arc(a, n)) = n
<1> USE ConsoleAssumption
<1> DEFINE f == [i \in 1 .. n |-> Wrap(a + i)]
<1>1. f \in [1 .. n -> Arc(a, n)] /\ \A b \in Arc(a, n) : \E i \in 1 .. n : f[i] = b
  BY DEF Arc
<1>2. ASSUME NEW i \in 1 .. n, NEW j \in 1 .. n, f[i] = f[j] PROVE i = j
  <2>1. i \in 1 .. BufNum /\ j \in 1 .. BufNum /\ a + i < 2 * BufNum /\ a + j < 2 * BufNum
    OBVIOUS
  <2> QED BY <1>2, <2>1, WrapApart
<1>3. ExistsBijection(1 .. n, Arc(a, n))
  <2> HIDE DEF f
  <2>1. f \in Bijection(1 .. n, Arc(a, n))
    BY <1>1, <1>2 DEF Bijection, Injection, Surjection, IsInjective
  <2> QED BY <2>1 DEF ExistsBijection
<1>4. IsFiniteSet(1 .. n) /\ Cardinality(1 .. n) = n
  BY FS_Interval
<1> QED BY <1>3, <1>4, FS_Bijection

\* console_get_valid_buf_idx finds nothing in an empty bitmap, and the next
\* buffer of the ring if that is in it.
LEMMA NextOfEmpty == \A a \in Nat : NextOf({}, a) = NoBuf
  BY DEF NextOf

LEMMA NextOfFirst ==
  ASSUME NEW S, NEW a \in Nat, Wrap(a + 1) \in S
  PROVE  NextOf(S, a) = Wrap(a + 1)
<1> USE ConsoleAssumption
<1> DEFINE P(d) == /\ Wrap(a + d) \in S
                   /\ \A e \in 1 .. d - 1 : Wrap(a + e) \notin S
           k == CHOOSE d \in 1 .. BufNum : P(d)
<1>1. 1 \in 1 .. BufNum /\ P(1)
  OBVIOUS
<1>2. k \in 1 .. BufNum /\ P(k)
  <2> HIDE DEF P
  <2> QED BY <1>1
<1>3. k = 1
  <2> SUFFICES ASSUME k # 1 PROVE FALSE
    OBVIOUS
  <2>1. 1 \in 1 .. k - 1
    BY <1>2
  <2> HIDE DEF k
  <2> QED BY <1>2, <2>1
<1>4. NextOf(S, a) = Wrap(a + k)
  BY DEF NextOf
<1> HIDE DEF k
<1> QED BY <1>3, <1>4

-----------------------------------------------------------------------------
(* The invariant *)

\* The empty line is a line, and a line with room for more may grow.
LEMMA TextsGrow ==
  /\ <<>> \in Texts
  /\ \A t \in Texts, c \in Visible : Len(t) + 1 < MaxLen => Append(t, c) \in Texts
<1> USE ConsoleAssumption
<1>1. <<>> \in [1 .. 0 -> Visible] /\ 0 \in 0 .. MaxLen - 1
  OBVIOUS
<1>2. ASSUME NEW n \in 0 .. MaxLen - 1, NEW t \in [1 .. n -> Visible], NEW c \in Visible,
             Len(t) + 1 < MaxLen
      PROVE  Append(t, c) \in Texts
  <2>1. t \in Seq(Visible) /\ Len(t) = n
    OBVIOUS
  <2>2. Append(t, c) \in [1 .. n + 1 -> Visible]
    <3>1. Append(t, c) \in Seq(Visible) /\ Len(Append(t, c)) = n + 1
      BY <2>1, AppendProperties
    <3> QED BY <3>1, LenProperties
  <2>3. n + 1 \in 0 .. MaxLen - 1
    BY <1>2, <2>1
  <2> QED BY <2>2, <2>3 DEF Texts
<1> QED BY <1>1, <1>2 DEF Texts

\* Where console_rx_cmdline finds its next buffer, and what the arcs become.
LEMMA NextRx ==
  ASSUME IInv, Turning, rx # NoBuf
  PROVE  /\ NReady + Busy < BufNum
         /\ rx \in Bufs
         /\ ready \cup {rx} = Arc(Owner, NReady + 1)
         /\ IF NReady + 1 + Busy = BufNum
              THEN NextOf(free, rx) = NoBuf /\ free \ {NextOf(free, rx)} = {}
              ELSE /\ NextOf(free, rx) = Wrap(Owner + NReady + 2)
                   /\ free \ {NextOf(free, rx)}
                        = Arc(Owner + NReady + 2, BufNum - Busy - NReady - 2)
<1> USE ConsoleAssumption
<1> DEFINE n == NReady
           o == Owner
<1>1. /\ o \in Nat /\ o < BufNum /\ n \in Nat /\ Busy \in {0, 1}
      /\ n + Busy < BufNum /\ ready = Arc(o, n)
      /\ rx = Wrap(o + n + 1)
      /\ free = Arc(o + n + 1, BufNum - Busy - n - 1)
  BY DEF IInv, Types, Turning, Busy, Bufs, NoBuf
<1> HIDE DEF n, o
<1>2. ready \cup {rx} = Arc(o, n + 1) /\ rx \in Bufs
  <2>1. rx \in Bufs
    BY <1>1 DEF IInv, Types, NoBuf, Bufs
  <2> QED BY <1>1, <2>1, ArcGrows
<1>3. CASE n + 1 + Busy = BufNum
  <2>1. BufNum - Busy - n - 1 = 0 /\ o + n + 1 \in Nat
    BY <1>1, <1>3
  <2>2. free = {}
    BY <1>1, <2>1, ArcEmpty
  <2>3. rx \in Nat
    BY <1>2 DEF Bufs
  <2> QED BY <1>1, <1>2, <1>3, <2>2, <2>3, NextOfEmpty DEF n, o
<1>4. CASE n + 1 + Busy # BufNum
  <2> DEFINE m == BufNum - Busy - n - 1
             a == o + n + 1
  <2>1. a \in Nat /\ m \in 1 .. BufNum /\ a + m < 2 * BufNum
        /\ a + 1 = o + n + 2 /\ m - 1 = BufNum - Busy - n - 2 /\ a + 1 < 2 * BufNum
    BY <1>1, <1>4
  <2>2. free = Arc(a, m) /\ rx = Wrap(a)
    BY <1>1
  <2> HIDE DEF a, m
  <2>3. Wrap(rx + 1) = Wrap(a + 1) /\ rx \in Nat
    BY <1>2, <2>1, <2>2, WrapWrap DEF Bufs
  <2>4. Wrap(a + 1) \in free /\ free \ {Wrap(a + 1)} = Arc(a + 1, m - 1)
    BY <2>1, <2>2, ArcShrinks
  <2>5. NextOf(free, rx) = Wrap(a + 1)
    BY <2>3, <2>4, NextOfFirst
  <2> QED BY <1>1, <1>2, <1>4, <2>1, <2>4, <2>5 DEF n, o
<1> QED BY <1>3, <1>4

\* Where the task finds its next line.
LEMMA NextReady ==
  ASSUME IInv, Turning, tpc = "wait", NReady > 0
  PROVE  /\ NextOf(ready, last) = Wrap(last + 1)
         /\ Wrap(last + 1) \in Bufs
         /\ ready \ {Wrap(last + 1)} = Arc(Wrap(last + 1), NReady - 1)
<1> USE ConsoleAssumption
<1> DEFINE n == NReady
<1>1. last \in Nat /\ last < BufNum /\ n \in 1 .. BufNum /\ ready = Arc(last, n)
  BY DEF Turning, Busy, Owner, Bufs
<1> HIDE DEF n
<1>2. last + n < 2 * BufNum /\ last + 1 < 2 * BufNum
      /\ n - 1 \in Nat /\ last + 1 \in Nat /\ last + 1 + (n - 1) < 2 * BufNum
  BY <1>1
<1>3. Wrap(last + 1) \in ready /\ ready \ {Wrap(last + 1)} = Arc(last + 1, n - 1)
  BY <1>1, <1>2, ArcShrinks
<1>4. Arc(Wrap(last + 1), n - 1) = Arc(last + 1, n - 1)
  BY <1>2, ArcWrap
<1>5. Wrap(last + 1) \in Bufs
  BY <1>1, <1>2 DEF Wrap, Bufs
<1> QED BY <1>1, <1>3, <1>4, <1>5, NextOfFirst DEF n

LEMMA IInvInit == Init => IInv
<1> SUFFICES ASSUME Init PROVE IInv
  OBVIOUS
<1> USE ConsoleAssumption DEF Init
<1>1. text \in [Bufs -> Texts] /\ held \in Chars
  BY TextsGrow DEF Chars
<1>2. 0 \in Bufs /\ 0 \in 0 .. BufNum /\ fifo \in Seq(Chars) /\ Len(fifo) <= FifoLen
  BY DEF Bufs
<1>3. Types
  BY <1>1, <1>2 DEF Types
<1>4. NReady = 0
  BY FS_EmptySet DEF NReady
<1> QED BY <1>3, <1>4 DEF IInv, Session, Ring, Fresh, Tokens, Last

\* What leaves the buffers, the task and the count alone leaves the ring alone.
LEMMA RingKept ==
  ASSUME IInv, UNCHANGED <<task, free, ready, rx>>
  PROVE  /\ NReady' = NReady
         /\ Turning => Turning'
         /\ UNCHANGED sem /\ (spc' = "join" <=> spc = "join") => Tokens'
<1>1. NReady' = NReady
  BY DEF NReady
<1> QED BY <1>1 DEF IInv, Turning, Tokens, Last, Owner, Busy, task, Arc

\* The size of the ready arc.
LEMMA ReadyIs ==
  ASSUME NEW a \in Bufs, NEW k \in 0 .. BufNum, ready' = Arc(a, k)
  PROVE  NReady' = k
<1>1. a \in Nat /\ a + k < 2 * BufNum
  BY ConsoleAssumption DEF Bufs
<1> QED BY <1>1, ArcSize DEF NReady

\* The steps of the UART and of the callback within a line.
LEMMA InputInv ==
  ASSUME IInv,
         Arrive \/ ReadElsewhere \/ Interrupt \/ Printable \/ Illegal \/ NothingLeft
           \/ Discard
  PROVE  IInv'
<1> USE ConsoleAssumption DEF IInv, task, bufs, count
<1>0. UNCHANGED <<task, free, ready, rx, sem, spc, state, semOk>>
  BY DEF Arrive, ReadElsewhere, Interrupt, Printable, Illegal, NothingLeft, Discard, Reading
<1>1. Ring' /\ Tokens'
  <2>1. Tokens' /\ (Turning => Turning')
    BY <1>0, RingKept
  <2>2. Fresh => Fresh'
    BY <1>0 DEF Fresh, Arrive, ReadElsewhere, Interrupt, Printable, Illegal, NothingLeft,
                Discard, Reading
  <2> QED BY <2>1, <2>2 DEF Ring
<1>2. Session'
  BY <1>0 DEF Session, Arrive, ReadElsewhere, Interrupt, Printable, Illegal, NothingLeft,
              Discard, Reading
<1>3. CASE Arrive
  <2>1. fifo' \in Seq(Chars) /\ Len(fifo') <= FifoLen
    BY <1>3, AppendProperties DEF Arrive, Types
  <2> QED BY <1>0, <1>1, <1>2, <1>3, <2>1 DEF Arrive, Types
<1>4. CASE ReadElsewhere
  <2>1. fifo' \in Seq(Chars) /\ Len(fifo') <= FifoLen
    BY <1>4 DEF ReadElsewhere, Types
  <2> QED BY <1>0, <1>1, <1>2, <1>4, <2>1 DEF ReadElsewhere, Types
<1>5. CASE Interrupt \/ NothingLeft
  BY <1>0, <1>1, <1>2, <1>5 DEF Interrupt, NothingLeft, Types
<1>6. CASE Discard
  <2>1. fifo' \in Seq(Chars) /\ Len(fifo') <= FifoLen
    BY <1>6 DEF Discard
  <2> QED BY <1>0, <1>1, <1>2, <1>6, <2>1 DEF Discard, Types
<1>7. CASE Printable \/ Illegal
  <2>1. PICK c : Reading(c)
    BY <1>7 DEF Printable, Illegal
  <2>2. fifo' \in Seq(Chars) /\ Len(fifo') <= FifoLen
    <3>1. fifo' = fifo \/ (fifo # <<>> /\ fifo' = Tail(fifo))
      BY <2>1 DEF Reading, Rest, RxReady
    <3> QED BY <3>1 DEF Types
  <2>3. rx \in Bufs
    BY <2>1 DEF Reading, Types, NoBuf, Bufs
  <2>4. text' \in [Bufs -> Texts]
    <3>1. text \in [Bufs -> Texts] /\ text[rx] \in Texts
      BY <2>3 DEF Types
    <3>2. PICK t \in Texts : text' = [text EXCEPT ![rx] = t]
      <4>1. CASE Illegal
        BY <4>1, TextsGrow DEF Illegal
      <4>2. CASE Printable
        <5>1. PICK d \in Visible : text' = [text EXCEPT ![rx] =
                IF Len(text[rx]) + 1 < MaxLen THEN Append(text[rx], d) ELSE <<>>]
          BY <3>1, <4>2 DEF Printable
        <5> QED BY <3>1, <5>1, TextsGrow
      <4> QED BY <1>7, <4>1, <4>2
    <3> QED BY <3>1, <3>2
  <2> QED BY <1>0, <1>1, <1>2, <2>1, <2>2, <2>4 DEF Reading, Types
<1> QED BY <1>3, <1>4, <1>5, <1>6, <1>7

LEMMA LineEndInv ==
  ASSUME IInv, LineEnd
  PROVE  IInv'
<1> USE ConsoleAssumption DEF IInv, LineEnd, RxCmdline, task
<1>1. Turning /\ rx # NoBuf
  BY DEF Ring, Fresh
<1>2. /\ Owner \in Bufs /\ NReady \in Nat /\ Busy \in {0, 1}
      /\ NReady + Busy < BufNum /\ ready' = Arc(Owner, NReady + 1)
      /\ Busy' = Busy /\ Owner' = Owner
  BY <1>1, NextRx DEF Turning, Busy, Owner
<1>N. NReady' = NReady + 1
  <2>1. NReady + 1 \in 0 .. BufNum
    BY <1>2
  <2> QED BY <1>2, <2>1, ReadyIs
<1>3. Ring'
  <2>3. CASE NReady + 1 + Busy = BufNum
    <3>1. rx' = NoBuf /\ free' = {}
      BY <1>1, <2>3, NextRx
    <3> QED BY <1>2, <1>N, <2>3, <3>1 DEF Ring, Turning
  <2>4. CASE NReady + 1 + Busy # BufNum
    <3>1. rx' = Wrap(Owner + NReady + 2)
          /\ free' = Arc(Owner + NReady + 2, BufNum - Busy - NReady - 2)
      BY <1>1, <2>4, NextRx
    <3>2. Owner + (NReady + 1) + 1 = Owner + NReady + 2
          /\ BufNum - Busy - (NReady + 1) - 1 = BufNum - Busy - NReady - 2
      BY <1>2 DEF Bufs
    <3> QED BY <1>2, <1>N, <2>4, <3>1, <3>2 DEF Ring, Turning
  <2> QED BY <2>3, <2>4
<1>4. /\ fifo' \in Seq(Chars) /\ Len(fifo') <= FifoLen
      /\ held' \in Chars \cup {"none"}
  <2>1. /\ Rest \in Seq(Chars) /\ Len(Rest) <= FifoLen
    BY DEF Rest, RxReady, Types
  <2> QED BY <2>1
<1>5. rx' \in 0 .. BufNum /\ free' \subseteq Bufs /\ ready' \subseteq Bufs
  <2>1. rx' = NoBuf \/ rx' \in Bufs
    <3>1. NReady + 1 + Busy # BufNum => rx' = Wrap(Owner + NReady + 2)
          /\ Owner \in Bufs /\ NReady \in Nat /\ Busy \in {0, 1}
          /\ NReady + Busy < BufNum
      BY <1>1, <1>2, NextRx
    <3>2. NReady + 1 + Busy # BufNum => rx' \in Bufs
      BY <3>1 DEF Wrap, Bufs
    <3> QED BY <1>1, <3>2, NextRx
  <2>2. rx \in Bufs
    BY <1>1, NextRx
  <2> QED BY <2>1, <2>2 DEF NoBuf, Bufs, Types
<1>6. Types'
  BY <1>4, <1>5 DEF Types
<1>7. Session'
  BY DEF Session
<1>8. Tokens'
  BY <1>2, <1>N DEF Tokens, Last, Types, Session
<1> QED BY <1>3, <1>6, <1>7, <1>8

LEMMA BeginInv ==
  ASSUME IInv, Begin
  PROVE  IInv'
<1> USE ConsoleAssumption DEF IInv, Begin, Woken, input
<1> DEFINE n == NReady
           o == Wrap(last + 1)
<1>1. n = sem /\ n > 0 /\ Busy = 0 /\ Owner = last /\ last \in Bufs
      /\ n \in 1 .. BufNum /\ spc # "join" /\ Turning
  <2>1. Turning /\ spc # "join"
    BY DEF Session, Ring, Fresh
  <2> QED BY <2>1 DEF Tokens, Last, Turning, Busy, Owner, Types
<1>2. cur' = o /\ o \in Bufs /\ ready' = Arc(o, n - 1)
  BY <1>1, NextReady
<1>N. n' = n - 1
  <2>1. n - 1 \in 0 .. BufNum
    BY <1>1
  <2> HIDE DEF o
  <2> QED BY <1>2, <2>1, ReadyIs
<1>3. tpc' = "exec" /\ Busy' = 1 /\ Owner' = o
  BY <1>2 DEF Bufs, NoBuf, Busy, Owner
<1>4. Ring'
  <2>1. CASE n = BufNum
    <3>1. rx = NoBuf /\ free = {}
      BY <1>1, <2>1 DEF Ring, Turning
    <3> QED BY <1>1, <1>2, <1>N, <1>3, <2>1, <3>1 DEF Ring, Turning
  <2>2. CASE n # BufNum
    <3>1. rx = Wrap(last + n + 1) /\ free = Arc(last + n + 1, BufNum - n - 1)
      <4>1. n + Busy # BufNum /\ BufNum - Busy - n - 1 = BufNum - n - 1
        BY <1>1, <2>2
      <4> QED BY <1>1, <4>1 DEF Ring, Turning
    <3>2. last \in Nat /\ last < BufNum /\ n \in Nat /\ n < BufNum /\ n > 0
      BY <1>1, <2>2 DEF Bufs
    <3> HIDE DEF n
    <3>3. \/ o = last + 1
          \/ o = last + 1 - BufNum /\ last + 1 = BufNum
      BY <3>2 DEF Wrap
    <3>4. rx = Wrap(o + (n - 1) + 1)
      BY <3>1, <3>2, <3>3 DEF Wrap
    <3>5. free = Arc(o + (n - 1) + 1, BufNum - 1 - (n - 1) - 1)
      <4>1. CASE o = last + 1
        <5>1. o + (n - 1) + 1 = last + n + 1 /\ BufNum - 1 - (n - 1) - 1 = BufNum - n - 1
          BY <3>2, <4>1
        <5> QED BY <3>1, <5>1
      <4>2. CASE o = last + 1 - BufNum /\ last + 1 = BufNum
        <5>1. /\ last + n + 1 \in Nat /\ BufNum - n - 1 \in Nat
              /\ last + n + 1 + (BufNum - n - 1) < 2 * BufNum
              /\ Wrap(last + n + 1) = o + (n - 1) + 1
              /\ BufNum - 1 - (n - 1) - 1 = BufNum - n - 1
          BY <3>2, <4>2 DEF Wrap
        <5> HIDE DEF o
        <5>2. Arc(Wrap(last + n + 1), BufNum - n - 1) = Arc(last + n + 1, BufNum - n - 1)
          BY <5>1, ArcWrap
        <5> QED BY <3>1, <5>1, <5>2
      <4> QED BY <3>3, <4>1, <4>2
    <3>6. NReady' = n - 1 /\ UNCHANGED <<rx, free, alive>>
      BY <1>N DEF n
    <3>7. n - 1 \in 0 .. BufNum - 1 /\ n - 1 + 1 # BufNum
      BY <3>2
    <3> HIDE DEF o
    <3> QED BY <1>2, <1>3, <3>4, <3>5, <3>6, <3>7 DEF Ring, Turning
  <2> QED BY <2>1, <2>2
<1>5. Types'
  <2>1. cur' \in 0 .. BufNum /\ ready' \subseteq Bufs
    BY <1>2 DEF Bufs, Types
  <2>2. sem' \in Nat
    BY DEF Types
  <2> QED BY <1>3, <2>1, <2>2 DEF Types
<1>6. Session' /\ Tokens'
  BY <1>1, <1>N DEF Session, Tokens, Last, NReady
<1> QED BY <1>4, <1>5, <1>6

LEMMA FinishInv ==
  ASSUME IInv, Finish
  PROVE  IInv'
<1> USE ConsoleAssumption DEF IInv, Finish, input, count
<1> DEFINE n == NReady
<1>1. /\ Busy = 1 /\ Busy' = 0 /\ n' = n /\ Owner = cur /\ Owner' = cur
      /\ cur \in Bufs /\ n \in 0 .. BufNum - 1 /\ ready = Arc(cur, n)
  BY DEF Ring, Fresh, Turning, NReady, Busy, Owner
<1>2. cur \in Nat /\ cur < BufNum /\ Wrap(cur + BufNum) = cur
  BY <1>1, WrapRound DEF Bufs
<1>3. Ring'
  <2>1. CASE n + 1 = BufNum
    <3>1. rx = NoBuf /\ free = {}
      BY <1>1, <2>1 DEF Ring, Fresh, Turning
    <3>2. rx' = cur /\ free' = {}
      BY <3>1
    <3>3. cur + n + 1 = cur + BufNum /\ BufNum - 0 - n - 1 = 0 /\ cur + n + 1 \in Nat
      BY <1>1, <1>2, <2>1
    <3>4. Arc(cur + n + 1, BufNum - 0 - n - 1) = {} /\ Wrap(cur + n + 1) = cur
      BY <1>2, <3>3, ArcEmpty
    <3>5. n + 0 # BufNum /\ n \in 0 .. BufNum - 0
      BY <1>1, <2>1
    <3> HIDE DEF n
    <3>6. NReady' = n
      BY <1>1 DEF n
    <3> QED BY <1>1, <3>2, <3>4, <3>5, <3>6 DEF Ring, Turning
  <2>2. CASE n + 1 # BufNum
    <3>1. rx = Wrap(cur + n + 1) /\ free = Arc(cur + n + 1, BufNum - 1 - n - 1)
      BY <1>1, <2>2 DEF Ring, Fresh, Turning
    <3>2. cur + n + 1 \in Nat /\ BufNum - 1 - n - 1 \in Nat
          /\ BufNum - 1 - n - 1 + 1 = BufNum - 0 - n - 1
          /\ cur + n + 1 + (BufNum - 1 - n - 1) + 1 = cur + BufNum
          /\ n + 0 # BufNum /\ n \in 0 .. BufNum - 0
      BY <1>1, <1>2, <2>2
    <3>3. rx # NoBuf
      BY <1>1, <1>2, <2>2, <3>1 DEF Wrap, NoBuf
    <3>4. rx' = rx /\ free' = free \cup {cur}
      BY <3>3
    <3> HIDE DEF n
    <3>5. free' = Arc(cur + n + 1, BufNum - 0 - n - 1)
      <4>1. Wrap(cur + n + 1 + (BufNum - 1 - n - 1) + 1) = cur
        BY <1>2, <3>2
      <4>2. Arc(cur + n + 1, BufNum - 1 - n - 1 + 1)
              = Arc(cur + n + 1, BufNum - 1 - n - 1)
                  \cup {Wrap(cur + n + 1 + (BufNum - 1 - n - 1) + 1)}
        BY <3>2, ArcGrows
      <4> QED BY <3>1, <3>2, <3>4, <4>1, <4>2
    <3>6. NReady' = n
      BY <1>1 DEF n
    <3> QED BY <1>1, <3>1, <3>2, <3>4, <3>5, <3>6 DEF Ring, Turning
  <2> QED BY <2>1, <2>2
<1>4. Types'
  <2>1. text' \in [Bufs -> Texts]
    BY <1>1, TextsGrow DEF Types
  <2>2. rx' \in 0 .. BufNum /\ free' \subseteq Bufs /\ last' \in Bufs
    BY <1>1 DEF Types, Bufs
  <2> QED BY <2>1, <2>2 DEF Types
<1>5. Session' /\ Tokens'
  BY <1>1 DEF Session, Tokens, Last
<1> QED BY <1>3, <1>4, <1>5

\* The task ends, and what console_disable and console_enable do.
LEMMA OtherTaskInv ==
  ASSUME IInv, Exit \/ Disable \/ Enable
  PROVE  IInv'
<1> USE ConsoleAssumption DEF IInv, task, bufs, count, input
<1>1. CASE Exit
  <2>1. Turning /\ sem - 1 \in Nat /\ tpc = "wait"
    BY <1>1 DEF Exit, Woken, Ring, Fresh, Types
  <2>2. Types'
    BY <1>1, <2>1 DEF Exit, Types
  <2>3. Session'
    BY <1>1, <2>1 DEF Exit, Woken, Session
  <2>4. NReady' = NReady /\ Owner' = Owner /\ Busy' = Busy
    BY <1>1 DEF Exit, NReady, Owner, Busy
  <2>5. Ring'
    BY <1>1, <2>1, <2>4 DEF Exit, Ring, Turning
  <2>6. Tokens'
    BY <1>1, <2>1, <2>4 DEF Exit, Woken, Tokens, Last, Turning, Types
  <2> QED BY <2>2, <2>3, <2>5, <2>6
<1>2. CASE Disable \/ Enable
  <2>1. Turning /\ Tokens'
    BY <1>2, RingKept DEF Disable, Enable, Ring, Fresh
  <2>2. Turning'
    BY <1>2, <2>1, RingKept DEF Disable, Enable
  <2>3. Types'
    BY <1>2 DEF Disable, Enable, Types
  <2>4. Session'
    BY <1>2 DEF Disable, Enable, Session
  <2> QED BY <2>1, <2>2, <2>3, <2>4 DEF Ring
<1> QED BY <1>1, <1>2

LEMMA StartInv ==
  ASSUME IInv, Start
  PROVE  IInv'
<1> USE ConsoleAssumption DEF IInv, Start, input
<1>1. /\ state' = "stop" /\ sem' = 0 /\ tpc' = "wait"
      /\ \/ alive' /\ semOk' /\ spc' = "enable"
         \/ ~alive' /\ spc' = "idle"
  OBVIOUS
<1>2. Types'
  <2>1. text' \in [Bufs -> Texts]
    BY TextsGrow
  <2>2. 0 \in 0 .. BufNum /\ BufNum - 1 \in Bufs
    BY DEF Bufs
  <2>3. free' \subseteq Bufs /\ ready' \subseteq Bufs /\ semOk' \in BOOLEAN
        /\ alive' \in BOOLEAN
    OBVIOUS
  <2> QED BY <1>1, <2>1, <2>2, <2>3 DEF Types
<1>3. NReady' = 0
  BY FS_EmptySet DEF NReady
<1>4. Session' /\ Tokens'
  BY <1>1, <1>3 DEF Session, Tokens, Last
<1>5. Ring'
  <2>1. Owner' = BufNum - 1 /\ Busy' = 0
    BY <1>1 DEF Owner, Busy
  <2>2. BufNum - 1 + 0 + 1 = BufNum /\ BufNum - 0 - 0 - 1 = BufNum - 1 /\ 0 + 0 # BufNum
        /\ 0 \in 0 .. BufNum - 0 /\ BufNum - 1 \in Bufs /\ BufNum - 1 \in Nat
    BY DEF Bufs
  <2>3. Wrap(BufNum) = 0 /\ Wrap(BufNum - 1 + 1) = 0
    BY DEF Wrap
  <2>4. Arc(BufNum, BufNum - 1) = Bufs \ {0}
    <3>1. Arc(BufNum - 1, BufNum) = Bufs
      BY <2>2, ArcTurn
    <3>2. BufNum \in 1 .. BufNum /\ BufNum - 1 + BufNum < 2 * BufNum
          /\ BufNum - 1 + 1 = BufNum
      OBVIOUS
    <3> QED BY <2>2, <2>3, <3>1, <3>2, ArcShrinks
  <2>5. Arc(BufNum - 1, 0) = {}
    BY <2>2, ArcEmpty
  <2> QED BY <1>3, <2>1, <2>2, <2>3, <2>4, <2>5 DEF Ring, Turning
<1> QED BY <1>2, <1>4, <1>5

\* The other steps of console_start and console_stop.
LEMMA ControlInv ==
  ASSUME IInv, Stop \/ ControlStep
  PROVE  IInv'
<1> USE ConsoleAssumption DEF IInv, task, bufs, count, input
<1>1. UNCHANGED <<task, free, ready, rx>>
  BY DEF Stop, ControlStep, EnableRx, MarkStarted, Terminate, Join
<1>2. NReady' = NReady /\ NReady \in Nat
  <2>1. Fresh => NReady = 0
    BY FS_EmptySet DEF Fresh, NReady
  <2> QED BY <1>1, <2>1, RingKept DEF Ring, Turning
<1>3. Ring'
  <2>1. Turning => Turning'
    BY <1>1, RingKept
  <2>2. Fresh => Fresh'
    BY DEF Stop, ControlStep, EnableRx, MarkStarted, Terminate, Join, Fresh, Session
  <2> QED BY <2>1, <2>2 DEF Ring
<1>4. CASE Stop \/ EnableRx \/ MarkStarted
  <2>1. Tokens'
    BY <1>1, <1>4, RingKept DEF Stop, EnableRx, MarkStarted
  <2>2. Types'
    BY <1>4 DEF Stop, EnableRx, MarkStarted, Types
  <2>3. Session'
    BY <1>4 DEF Stop, EnableRx, MarkStarted, Session
  <2> QED BY <1>3, <2>1, <2>2, <2>3
<1>5. CASE Terminate
  <2>1. Tokens'
    BY <1>2, <1>5 DEF Terminate, Session, Tokens, Last, Types
  <2>2. Types'
    BY <1>5 DEF Terminate, Types
  <2>3. Session'
    BY <1>5 DEF Terminate, Session
  <2> QED BY <1>3, <2>1, <2>2, <2>3
<1>6. CASE Join
  <2>1. Types'
    BY <1>6 DEF Join, Types
  <2>2. Session'
    BY <1>6 DEF Join, Session
  <2>3. Tokens'
    BY <1>2, <1>6 DEF Join, Tokens, Last
  <2> QED BY <1>3, <2>1, <2>2, <2>3
<1> QED BY <1>4, <1>5, <1>6 DEF ControlStep

LEMMA IInvNext == IInv /\ [Next]_vars => IInv'
<1> SUFFICES ASSUME IInv, [Next]_vars PROVE IInv'
  OBVIOUS
<1>1. CASE UNCHANGED vars
  <2>1. UNCHANGED <<task, free, ready, rx, sem, spc, on, isr, semOk>>
    BY <1>1 DEF vars, task, bufs, count, input
  <2>2. Ring' /\ Tokens'
    <3>1. Tokens' /\ (Turning => Turning')
      BY <2>1, RingKept
    <3>2. Fresh => Fresh'
      BY <2>1 DEF Fresh, task
    <3> QED BY <3>1, <3>2 DEF Ring, IInv
  <2> QED BY <1>1, <2>2 DEF vars, task, bufs, count, input, IInv, Types, Session
<1> QED BY <1>1, InputInv, LineEndInv, BeginInv, FinishInv, OtherTaskInv, StartInv, ControlInv
        DEF Next, Callback, TaskStep

LEMMA IInvAlways == Spec => []IInv
  BY IInvInit, IInvNext, PTL DEF Spec

-----------------------------------------------------------------------------
(* Theorems *)

\* Every variable of the console has its type, whatever races with what; the
\* semaphore never counts further than the buffers and one, and no line is
\* longer than its buffer.
THEOREM ConsoleTypeOK == Spec => []TypeOK
<1>1. IInv => TypeOK
  <2> SUFFICES ASSUME IInv PROVE TypeOK
    OBVIOUS
  <2>1. NReady \in 0 .. BufNum
    <3>1. Fresh => NReady = 0
      BY FS_EmptySet DEF Fresh, NReady
    <3> QED BY <3>1, ConsoleAssumption DEF IInv, Ring, Turning, Busy
  <2>2. sem \in 0 .. BufNum + 1
    BY <2>1, ConsoleAssumption DEF IInv, Types, Tokens, Last
  <2> QED BY <2>2 DEF IInv, Types, TypeOK
<1> QED BY <1>1, IInvAlways, PTL

\* The semaphore counts the lines that are ready, whatever interrupt, task and
\* control thread do.
THEOREM TokensCountLines == Spec => []TokenPerLine
<1>1. IInv => TokenPerLine
  BY DEF IInv, Tokens, Last, NReady, TokenPerLine
<1> QED BY <1>1, IInvAlways, PTL

\* Whenever someone waits for the task, it has a command to finish or a token to
\* wake up for: a line that is ready, an interrupt without a buffer, or
\* console_stop waiting for the task to end.
NobodyWaitsInVain ==
  alive /\ (ready # {} \/ rx = NoBuf \/ spc = "join") => tpc = "exec" \/ sem > 0

\* No line, no interrupt and no console_stop waits for a task that sleeps: the
\* wakeup is never lost.  It is what LinesExecuted, InputGoesOn and
\* StopReturns rest on, for any number of buffers and with any race.
THEOREM WakeupIsNeverLost == Spec => []NobodyWaitsInVain
<1>1. IInv => NobodyWaitsInVain
  <2> SUFFICES ASSUME IInv, alive, tpc = "wait", ready # {} \/ rx = NoBuf \/ spc = "join"
               PROVE  sem > 0
    BY DEF NobodyWaitsInVain, IInv, Types
  <2>1. /\ Turning /\ Busy = 0 /\ sem = NReady + Last /\ NReady \in 0 .. BufNum
        /\ Owner \in Nat /\ Owner < BufNum
    BY ConsoleAssumption DEF IInv, Ring, Fresh, Turning, Busy, Tokens, Bufs
  <2>2. CASE spc = "join"
    BY <2>1, <2>2 DEF Last
  <2>3. CASE ready # {}
    <3>1. NReady # 0
      BY <2>1, <2>3, ArcEmpty DEF Turning
    <3> QED BY <2>1, <3>1 DEF Last
  <2>4. CASE rx = NoBuf
    <3>1. NReady # BufNum => rx = Wrap(Owner + NReady + 1)
      BY <2>1, ConsoleAssumption DEF Turning
    <3>2. NReady = BufNum
      BY <2>1, <2>4, <3>1, ConsoleAssumption DEF Wrap, NoBuf
    <3> QED BY <2>1, <3>2, ConsoleAssumption DEF Last
  <2> QED BY <2>2, <2>3, <2>4
<1> QED BY <1>1, IInvAlways, PTL

\* Where the receive callback may be enabled, and run, when no command enables
\* it while console_stop is under way.
Quiet ==
  /\ isr => on
  /\ on => semOk /\ (spc = "mark" \/ (spc = "idle" /\ state = "start"))

LEMMA QuietNext ==
  ASSUME "late_enable" \notin Races
  PROVE  IInv /\ Quiet /\ [Next]_vars => Quiet'
<1> SUFFICES ASSUME IInv, Quiet, [Next]_vars PROVE Quiet'
  OBVIOUS
<1> USE DEF IInv, Session, Quiet, task, bufs, count, input
<1>1. CASE Arrive \/ ReadElsewhere \/ Interrupt \/ Callback \/ UNCHANGED vars
  BY <1>1 DEF Arrive, ReadElsewhere, Interrupt, Callback, Printable, Illegal, Reading,
              LineEnd, RxCmdline, NothingLeft, Discard, vars
<1>2. CASE TaskStep \/ Disable \/ Enable
  BY <1>2 DEF TaskStep, Begin, Exit, Woken, Finish, Disable, Enable
<1>3. CASE Start \/ Stop \/ ControlStep
  BY <1>3 DEF Start, Stop, ControlStep, EnableRx, MarkStarted, Terminate, Join
<1> QED BY <1>1, <1>2, <1>3 DEF Next

LEMMA QuietAlways ==
  ASSUME "late_enable" \notin Races
  PROVE  Spec => [](IInv /\ Quiet)
<1>1. Init => Quiet
  BY DEF Init, Quiet
<1> QED BY <1>1, IInvInit, IInvNext, QuietNext, PTL DEF Spec

\* Unless a command enables the console while console_stop is under way, the
\* callback never runs without its semaphore, even if a line comes in while
\* console_start is.
THEOREM QuietWhenStopped ==
  ASSUME "late_enable" \notin Races
  PROVE  Spec => []StoppedIsQuiet
<1>1. Quiet => StoppedIsQuiet
  BY DEF Quiet, StoppedIsQuiet
<1> QED BY <1>1, QuietAlways, PTL

\* The task waits for its first line until console_start has marked the console
\* started, if no line is received before.
Started ==
  /\ isr => spc = "idle"
  /\ spc \in {"enable", "mark"} => alive /\ sem = 0
  /\ state = "start" => alive

LEMMA StartedNext ==
  ASSUME Races = {}
  PROVE  IInv /\ Quiet /\ Started /\ [Next]_vars => Started'
<1> SUFFICES ASSUME IInv, Quiet, Started, [Next]_vars PROVE Started'
  OBVIOUS
<1> USE DEF IInv, Session, Quiet, Started, task, bufs, count, input
<1>1. CASE Arrive \/ ReadElsewhere \/ Interrupt \/ Callback \/ UNCHANGED vars
  BY <1>1 DEF Arrive, ReadElsewhere, Interrupt, Callback, Printable, Illegal, Reading,
              LineEnd, RxCmdline, NothingLeft, Discard, vars
<1>2. CASE TaskStep \/ Disable \/ Enable
  BY <1>2 DEF TaskStep, Begin, Exit, Woken, Finish, Disable, Enable
<1>3. CASE Start \/ Stop \/ ControlStep
  BY <1>3 DEF Start, Stop, ControlStep, EnableRx, MarkStarted, Terminate, Join
<1> QED BY <1>1, <1>2, <1>3 DEF Next

\* Unless a line is received while console_start runs, or a command enables the
\* console while console_stop does, a console that is started has its task.
THEOREM StartedHasTask ==
  ASSUME Races = {}
  PROVE  Spec => []StartedReads
<1>1. Init => Quiet /\ Started
  BY DEF Init, Quiet, Started
<1>2. Started => StartedReads
  BY DEF Started, StartedReads
<1>3. "late_enable" \notin Races
  OBVIOUS
<1> QED BY <1>1, <1>2, <1>3, IInvInit, IInvNext, QuietNext, StartedNext, PTL DEF Spec

\* All but one turn of the ring is all but the buffer it would end at.
LEMMA ArcAllBut ==
  ASSUME NEW a \in Bufs
  PROVE  Arc(a, BufNum - 1) = Bufs \ {a}
<1> USE ConsoleAssumption
<1>1. a \in Nat /\ BufNum - 1 \in Nat /\ BufNum - 1 + 1 = BufNum /\ a < BufNum
      /\ a + (BufNum - 1) + 1 = a + BufNum /\ Wrap(a + BufNum) = a
  BY WrapRound DEF Bufs
<1>2. Arc(a, BufNum) = Arc(a, BufNum - 1) \cup {a}
  BY <1>1, ArcGrows
<1>3. a \notin Arc(a, BufNum - 1)
  <2> SUFFICES ASSUME NEW i \in 1 .. BufNum - 1 PROVE Wrap(a + i) # Wrap(a + BufNum)
    BY <1>1 DEF Arc
  <2>1. i \in 1 .. BufNum /\ BufNum \in 1 .. BufNum /\ i # BufNum
        /\ a + i < 2 * BufNum /\ a + BufNum < 2 * BufNum
    BY <1>1
  <2> QED BY <1>1, <2>1, WrapApart
<1> QED BY <1>2, <1>3, ArcTurn

\* Two arcs that follow one another are one arc.
LEMMA ArcJoin ==
  ASSUME NEW a \in Nat, NEW m \in Nat, NEW n \in Nat, NEW b
  PROVE  b \in Arc(a, m + n) <=> b \in Arc(a, m) \/ b \in Arc(a + m, n)
<1>1. ASSUME NEW i \in 1 .. m PROVE Wrap(a + i) \in Arc(a, m + n)
  <2>1. i \in 1 .. m + n
    OBVIOUS
  <2> QED BY <2>1 DEF Arc
<1>2. ASSUME NEW i \in 1 .. n PROVE Wrap(a + m + i) \in Arc(a, m + n)
  <2>1. m + i \in 1 .. m + n /\ a + m + i = a + (m + i)
    OBVIOUS
  <2> QED BY <2>1 DEF Arc
<1>3. ASSUME NEW i \in 1 .. m + n PROVE Wrap(a + i) \in Arc(a, m) \cup Arc(a + m, n)
  <2>1. CASE i <= m
    <3>1. i \in 1 .. m
      BY <2>1
    <3> QED BY <3>1 DEF Arc
  <2>2. CASE i > m
    <3>1. i - m \in 1 .. n /\ a + i = a + m + (i - m)
      BY <2>2
    <3> QED BY <3>1 DEF Arc
  <2> QED BY <2>1, <2>2
<1>4. b \in Arc(a, m) \/ b \in Arc(a + m, n) => b \in Arc(a, m + n)
  BY <1>1, <1>2 DEF Arc
<1>5. b \in Arc(a, m + n) => b \in Arc(a, m) \/ b \in Arc(a + m, n)
  BY <1>3 DEF Arc
<1> QED BY <1>4, <1>5

\* What the ring says of the ownership of buffers.
Owned ==
  /\ free \cup Receiving \cup ready \cup Executing = Bufs
  /\ free \cap Receiving = {} /\ free \cap ready = {}
  /\ free \cap Executing = {} /\ Receiving \cap ready = {}
  /\ Receiving \cap Executing = {} /\ ready \cap Executing = {}

LEMMA RingOwner ==
  ASSUME IInv, Turning
  PROVE  Owned
<1> USE ConsoleAssumption
<1> DEFINE o == Owner
           n == NReady
           k == BufNum - Busy - n
<1>1. /\ o \in Bufs /\ o \in Nat /\ o < BufNum /\ n \in Nat /\ Busy \in {0, 1}
      /\ k \in Nat /\ n + k = BufNum - Busy /\ o + n + k < 2 * BufNum
      /\ ready = Arc(o, n)
  BY DEF IInv, Turning, Types, Busy, Bufs
<1>2. free \cup Receiving = Arc(o + n, k) /\ free \cap Receiving = {}
  <2>1. CASE n + Busy = BufNum
    <3>1. rx = NoBuf /\ free = {}
      BY <2>1 DEF Turning
    <3>2. k = 0 /\ o + n \in Nat
      BY <1>1, <2>1
    <3> QED BY <3>1, <3>2, ArcEmpty DEF Receiving
  <2>2. CASE n + Busy # BufNum
    <3>1. rx = Wrap(o + n + 1) /\ free = Arc(o + n + 1, k - 1)
      BY <2>2 DEF Turning
    <3>2. k \in 1 .. BufNum /\ o + n \in Nat /\ o + n + k < 2 * BufNum
      BY <1>1, <2>2
    <3> HIDE DEF o, n, k
    <3>3. rx \in Arc(o + n, k) /\ Arc(o + n, k) \ {rx} = free
      BY <3>1, <3>2, ArcShrinks
    <3>4. rx # NoBuf
      BY <1>1, <3>1, <3>2 DEF Wrap, NoBuf
    <3> QED BY <3>3, <3>4 DEF Receiving
  <2> QED BY <2>1, <2>2
<1>3. ready \cap (free \cup Receiving) = {} /\ ready \cup free \cup Receiving = Arc(o, BufNum - Busy)
  <2>1. n + k <= BufNum
    BY <1>1
  <2> HIDE DEF o, n, k
  <2>2. Arc(o, n) \cap Arc(o + n, k) = {}
    BY <1>1, <2>1, ArcsApart
  <2>3. Arc(o, n) \cup Arc(o + n, k) = Arc(o, n + k)
    <3>1. o \in Nat /\ n \in Nat /\ k \in Nat
      BY <1>1
    <3>2. \A b : b \in Arc(o, n + k) <=> b \in Arc(o, n) \/ b \in Arc(o + n, k)
      BY ONLY <3>1, ArcJoin
    <3> QED BY ONLY <3>2
  <2> QED BY <1>1, <1>2, <2>2, <2>3
<1>4. CASE tpc = "exec"
  <2>1. Busy = 1 /\ o = cur /\ Executing = {cur}
    BY <1>4 DEF Busy, Owner, Executing, IInv, Session
  <2>2. Arc(o, BufNum - Busy) = Bufs \ {cur} /\ cur \in Bufs
    BY <1>1, <2>1, ArcAllBut
  <2> QED BY <1>2, <1>3, <2>1, <2>2 DEF Owned
<1>5. CASE tpc # "exec"
  <2>1. Busy = 0 /\ Executing = {} /\ BufNum - 0 = BufNum
    BY <1>5 DEF Busy, Executing
  <2>2. Arc(o, BufNum - Busy) = Bufs
    BY <1>1, <2>1, ArcTurn
  <2> QED BY <1>2, <1>3, <2>1, <2>2 DEF Owned
<1> QED BY <1>4, <1>5

\* Every line buffer has one owner, for any number of buffers and with any race.
THEOREM BuffersHaveOneOwner == Spec => []OneOwner
<1>1. IInv => OneOwner
  BY RingOwner DEF IInv, Ring, Fresh, Owned, OneOwner
<1> QED BY <1>1, IInvAlways, PTL

-----------------------------------------------------------------------------
(* The console implements the queue of lines *)

\* The abstract queue, read off the ring.
LEMMA QueueIs ==
  IInv /\ Turning =>
    /\ Base = Owner
    /\ Queue = [i \in 1 .. NReady |-> text[Wrap(Owner + i)]]
    /\ \A i \in 1 .. NReady : Wrap(Owner + i) \in ready
<1> SUFFICES ASSUME IInv, Turning
             PROVE  /\ Base = Owner
                    /\ Queue = [i \in 1 .. NReady |-> text[Wrap(Owner + i)]]
                    /\ \A i \in 1 .. NReady : Wrap(Owner + i) \in ready
  OBVIOUS
<1>1. Base = Owner
  BY DEF Base, Owner, Executing, IInv, Session
<1> QED BY <1>1 DEF Queue, NReady, Turning, Arc

\* What touches neither the ready lines nor the command leaves the queue alone.
LEMMA QueueKept ==
  UNCHANGED <<task, ready, text>> => UNCHANGED <<Queue, Doing>>
<1> SUFFICES ASSUME UNCHANGED <<task, ready, text>> PROVE UNCHANGED <<Queue, Doing>>
  OBVIOUS
<1>1. Executing' = Executing
  BY DEF Executing, task
<1>2. Base' = Base
  BY <1>1 DEF Base, task
<1>3. Doing' = Doing
  BY <1>1 DEF Doing, task
<1>4. Queue' = Queue
  BY <1>2 DEF Queue
<1> QED BY <1>3, <1>4

LEMMA CharStep ==
  ASSUME IInv, Printable \/ Illegal
  PROVE  UNCHANGED <<Queue, Doing>>
<1>1. PICK c : Reading(c)
  BY DEF Printable, Illegal
<1>2. Turning /\ rx # NoBuf /\ UNCHANGED <<task, ready, isr>>
  BY <1>1 DEF IInv, Ring, Fresh, Reading
<1>3. rx \notin ready /\ rx \notin Executing
  BY <1>2, RingOwner DEF Owned, Receiving
<1>4. \A b \in Bufs : b # rx => text'[b] = text[b]
  BY DEF Printable, Illegal, IInv, Types
<1>5. Executing' = Executing /\ Base' = Base
  BY <1>2 DEF Executing, Base, task
<1>6. Doing' = Doing
  <2>1. Executing # {} => cur # rx /\ cur \in Bufs
    BY <1>2, <1>3 DEF Executing, Turning, Owner
  <2> QED BY <1>2, <1>4, <1>5, <2>1 DEF Doing, task
<1>7. Queue' = Queue
  <2>1. \A i \in 1 .. NReady : text'[Wrap(Owner + i)] = text[Wrap(Owner + i)]
    BY <1>2, <1>3, <1>4, QueueIs DEF IInv, Types
  <2>2. Cardinality(ready) = NReady /\ Base = Owner
    BY <1>2, QueueIs DEF NReady
  <2> QED BY <1>2, <1>5, <2>1, <2>2 DEF Queue
<1> QED BY <1>6, <1>7

LEMMA LineEndStep ==
  ASSUME IInv, LineEnd, IInv'
  PROVE  \E l \in Texts : Promise!Accept(l)
<1> USE ConsoleAssumption
<1> DEFINE n == NReady
           o == Owner
<1>1. Turning /\ rx # NoBuf /\ text' = text /\ ready' = ready \cup {rx} /\ UNCHANGED task
  BY DEF LineEnd, RxCmdline, IInv, Ring, Fresh, task
<1>2. /\ n \in Nat /\ o \in Bufs /\ o \in Nat /\ n + Busy < BufNum
      /\ rx = Wrap(o + n + 1) /\ rx \in Bufs
  BY <1>1, NextRx DEF Turning, Busy, Bufs
<1>3. o' = o /\ n' = n + 1 /\ Turning'
  <2>1. o' = o
    BY <1>1 DEF Owner, task
  <2>2. n + 1 \in 0 .. BufNum
    BY <1>2 DEF Busy
  <2>3. ready' = Arc(o, n + 1)
    BY <1>1, NextRx
  <2>4. n' = n + 1
    <3> HIDE DEF o
    <3> QED BY <1>2, <2>2, <2>3, ReadyIs
  <2>5. ready' # {}
    BY <1>1
  <2> QED BY <2>1, <2>4, <2>5 DEF IInv, Ring, Fresh
<1>4. /\ Queue = [i \in 1 .. n |-> text[Wrap(o + i)]]
      /\ Queue' = [i \in 1 .. n + 1 |-> text[Wrap(o + i)]]
  <2>1. Queue = [i \in 1 .. n |-> text[Wrap(o + i)]]
    BY <1>1, QueueIs
  <2>2. Queue' = [i \in 1 .. n' |-> text'[Wrap(o' + i)]]
    <3>1. (IInv /\ Turning => Queue = [i \in 1 .. NReady |-> text[Wrap(Owner + i)]])'
      BY QueueIs, PTL
    <3> QED BY <1>3, <3>1
  <2> QED BY <1>1, <1>3, <2>1, <2>2
<1>5. Doing' = Doing /\ Len(Doing) = Busy
  BY <1>1 DEF Doing, Executing, Busy, task, IInv, Session
<1>6. text[rx] \in Texts /\ \A i \in 1 .. n + 1 : Wrap(o + i) \in Bufs /\ text[Wrap(o + i)] \in Texts
  <2>1. text \in [Bufs -> Texts]
    BY DEF IInv, Types
  <2>2. ASSUME NEW i \in 1 .. n + 1 PROVE Wrap(o + i) \in Bufs
    BY <1>2 DEF Wrap, Bufs, Busy
  <2> QED BY <1>2, <2>1, <2>2
<1> HIDE DEF n, o
<1>7. Queue \in Seq(Texts) /\ Len(Queue) = n
  <2>1. Queue \in [1 .. n -> Texts]
    <3>1. \A i \in 1 .. n : text[Wrap(o + i)] \in Texts
      BY <1>2, <1>6
    <3> QED BY ONLY <1>4, <3>1
  <2> QED BY <1>2, <2>1
<1>8. Queue' = Append(Queue, text[rx])
  <2>1. Queue' \in Seq(Texts) /\ Len(Queue') = n + 1
    <3>1. Queue' \in [1 .. n + 1 -> Texts]
      <4>1. \A i \in 1 .. n + 1 : text[Wrap(o + i)] \in Texts
        BY <1>6
      <4> QED BY ONLY <1>4, <4>1
    <3>2. n + 1 \in Nat
      BY <1>2
    <3> QED BY ONLY <3>1, <3>2
  <2>2. Append(Queue, text[rx]) \in Seq(Texts) /\ Len(Append(Queue, text[rx])) = n + 1
    BY <1>6, <1>7, AppendProperties
  <2>3. ASSUME NEW i \in 1 .. n + 1 PROVE Queue'[i] = Append(Queue, text[rx])[i]
    <3>1. CASE i \in 1 .. n
      <4>1. Append(Queue, text[rx])[i] = Queue[i]
        BY <1>6, <1>7, <3>1, AppendProperties
      <4> QED BY <1>4, <3>1, <4>1
    <3>2. CASE i = n + 1
      <4>1. Wrap(o + i) = rx
        <5>1. o + i = o + n + 1
          BY <1>2, <3>2
        <5> QED BY <1>2, <5>1
      <4>2. Append(Queue, text[rx])[n + 1] = text[rx]
        BY <1>6, <1>7, AppendProperties
      <4>3. Queue'[n + 1] = text[Wrap(o + (n + 1))]
        BY <1>2, <1>4
      <4> QED BY <3>2, <4>1, <4>2, <4>3
    <3>3. i \in 1 .. n \/ i = n + 1
      BY <1>2
    <3> QED BY ONLY <3>1, <3>2, <3>3
  <2> QED BY <2>1, <2>2, <2>3, SeqEqual
<1> QED BY <1>2, <1>5, <1>6, <1>7, <1>8 DEF Promise!Accept

LEMMA BeginStep ==
  ASSUME IInv, Begin, IInv'
  PROVE  Promise!Begin
<1> USE ConsoleAssumption
<1> DEFINE n == NReady
           o == Wrap(last + 1)
<1>1. /\ alive /\ tpc = "wait" /\ text' = text /\ Turning /\ n > 0 /\ Owner = last
      /\ last \in Nat /\ last < BufNum /\ n \in 1 .. BufNum
  <2>1. /\ alive /\ tpc = "wait" /\ text' = text /\ Turning /\ spc # "join" /\ sem > 0
    BY DEF Begin, Woken, input, IInv, Session, Ring, Fresh
  <2> QED BY <2>1 DEF IInv, Tokens, Last, Turning, Busy, Owner, Types, Bufs
<1>2. /\ cur' = o /\ o \in Bufs /\ tpc' = "exec" /\ Owner' = o /\ alive' /\ n' = n - 1
      /\ Turning'
  <2>1. cur' = o /\ o \in Bufs /\ ready' = Arc(o, n - 1) /\ alive'
    BY <1>1, NextReady DEF Begin
  <2>2. n - 1 \in 0 .. BufNum
    BY <1>1
  <2>3. n' = n - 1
    <3> HIDE DEF o
    <3> QED BY <2>1, <2>2, ReadyIs
  <2> QED BY <1>1, <2>1, <2>3 DEF Begin, Bufs, NoBuf, Owner, IInv, Ring, Fresh
<1>3. Doing = <<>> /\ Doing' = <<text[o]>>
  BY <1>1, <1>2 DEF Doing, Executing
<1>4. /\ Queue = [i \in 1 .. n |-> text[Wrap(last + i)]]
      /\ Queue' = [i \in 1 .. n - 1 |-> text[Wrap(o + i)]]
  <2>1. Queue = [i \in 1 .. n |-> text[Wrap(last + i)]]
    BY <1>1, QueueIs
  <2>2. (IInv /\ Turning => Queue = [i \in 1 .. NReady |-> text[Wrap(Owner + i)]])'
    BY QueueIs, PTL
  <2>3. Queue' = [i \in 1 .. n' |-> text'[Wrap(Owner' + i)]]
    BY <1>2, <2>2
  <2> QED BY <1>1, <1>2, <2>1, <2>3
<1>5. \A i \in 1 .. n : text[Wrap(last + i)] \in Texts
  <2>1. text \in [Bufs -> Texts]
    BY DEF IInv, Types
  <2>2. ASSUME NEW i \in 1 .. n PROVE Wrap(last + i) \in Bufs
    BY <1>1 DEF Wrap, Bufs
  <2> QED BY <2>1, <2>2
<1>6. \A i \in 1 .. n - 1 : i + 1 \in 1 .. n /\ Wrap(o + i) = Wrap(last + (i + 1))
  <2> SUFFICES ASSUME NEW i \in 1 .. n - 1
               PROVE  i + 1 \in 1 .. n /\ Wrap(o + i) = Wrap(last + (i + 1))
    OBVIOUS
  <2>1. /\ last + 1 \in Nat /\ i \in Nat /\ i + 1 \in 1 .. n
        /\ last + 1 + i < 2 * BufNum /\ last + 1 + i = last + (i + 1)
    BY <1>1
  <2> QED BY <2>1, WrapWrap
<1> HIDE DEF n, o
<1>7. Queue \in Seq(Texts) /\ Len(Queue) = n /\ Queue # <<>>
  <2>1. Queue \in [1 .. n -> Texts]
    BY ONLY <1>4, <1>5
  <2> QED BY <1>1, <2>1
<1>8. Head(Queue) = text[o]
  <2>1. Queue[1] = text[Wrap(last + 1)]
    BY <1>1, <1>4
  <2> QED BY <1>7, <2>1 DEF o
<1>9. Queue' = Tail(Queue)
  <2>1. Queue' \in Seq(Texts) /\ Len(Queue') = n - 1
    <3>1. \A i \in 1 .. n - 1 : text[Wrap(o + i)] \in Texts
      BY <1>5, <1>6
    <3>2. Queue' \in [1 .. n - 1 -> Texts]
      BY ONLY <1>4, <3>1
    <3>3. n - 1 \in Nat
      BY <1>1
    <3> QED BY ONLY <3>2, <3>3
  <2>2. Tail(Queue) \in Seq(Texts) /\ Len(Tail(Queue)) = n - 1
    BY <1>7, HeadTailProperties
  <2>3. ASSUME NEW i \in 1 .. n - 1 PROVE Queue'[i] = Tail(Queue)[i]
    <3>1. Tail(Queue)[i] = Queue[i + 1]
      BY <1>7, <2>2, HeadTailProperties
    <3>2. Queue[i + 1] = text[Wrap(last + (i + 1))]
      BY <1>4, <1>6
    <3>3. Queue'[i] = text[Wrap(o + i)]
      BY <1>4
    <3> QED BY <1>6, <3>1, <3>2, <3>3
  <2> QED BY <2>1, <2>2, <2>3, SeqEqual
<1> QED BY <1>3, <1>7, <1>8, <1>9 DEF Promise!Begin

LEMMA FinishStep ==
  ASSUME IInv, Finish
  PROVE  Promise!End
<1>1. Turning /\ alive /\ cur \in Bufs /\ Executing = {cur} /\ UNCHANGED <<ready, alive, cur>>
  BY DEF Finish, IInv, Ring, Fresh, Turning, Owner, Executing
<1>2. cur \notin ready
  BY <1>1, RingOwner DEF Owned
<1>3. Doing # <<>> /\ Doing' = <<>> /\ Base = cur /\ Base' = cur
  BY <1>1 DEF Finish, Doing, Executing, Base
<1>4. Queue' = Queue
  <2>1. \A b \in Bufs : b # cur => text'[b] = text[b]
    BY DEF Finish, IInv, Types
  <2>2. Cardinality(ready) = NReady /\ \A i \in 1 .. NReady : Wrap(cur + i) \in ready
    BY <1>1, <1>3, QueueIs DEF NReady
  <2>3. \A i \in 1 .. NReady : text'[Wrap(cur + i)] = text[Wrap(cur + i)]
    BY <1>2, <2>1, <2>2 DEF IInv, Types
  <2> QED BY <1>1, <1>3, <2>2, <2>3 DEF Queue
<1> QED BY <1>3, <1>4 DEF Promise!End

LEMMA EmptyQueue == ready = {} => Queue = <<>>
  BY FS_EmptySet DEF Queue

LEMMA PromiseInit == Init => Promise!Init
<1> SUFFICES ASSUME Init PROVE Queue = <<>> /\ Doing = <<>>
  BY DEF Promise!Init
<1> QED BY EmptyQueue DEF Init, Doing, Executing

LEMMA StartStep ==
  ASSUME IInv, Start
  PROVE  Promise!Forget
<1>1. Doing = <<>> /\ Doing' = <<>>
  BY DEF Start, IInv, Session, Doing, Executing
<1>2. (ready = {} => Queue = <<>>)'
  BY EmptyQueue, PTL
<1> QED BY <1>1, <1>2 DEF Start, Promise!Forget

LEMMA PromiseStep ==
  IInv /\ IInv' /\ [Next]_vars => [Promise!Next]_<<Queue, Doing>>
<1> SUFFICES ASSUME IInv, IInv', [Next]_vars
             PROVE  [Promise!Next]_<<Queue, Doing>>
  OBVIOUS
<1> USE DEF task, bufs, count, input
<1>1. CASE LineEnd \/ Begin \/ Finish \/ Start
  BY <1>1, LineEndStep, BeginStep, FinishStep, StartStep DEF Promise!Next
<1>2. CASE Printable \/ Illegal
  BY <1>2, CharStep
<1>3. CASE Arrive \/ ReadElsewhere \/ Interrupt \/ NothingLeft \/ Discard \/ Disable \/ Enable
             \/ Stop \/ EnableRx \/ MarkStarted \/ Terminate \/ Join \/ UNCHANGED vars
  <2>1. UNCHANGED <<task, ready, text>>
    BY <1>3 DEF Arrive, ReadElsewhere, Interrupt, NothingLeft, Discard, Disable, Enable,
                Stop, EnableRx, MarkStarted, Terminate, Join, vars
  <2> QED BY <2>1, QueueKept
<1>4. CASE Exit
  <2>1. Executing = {} /\ Executing' = {} /\ Base' = Base /\ UNCHANGED <<ready, text>>
    BY <1>4 DEF Exit, Woken, Executing, Base
  <2> QED BY <2>1 DEF Queue, Doing
<1> QED BY <1>1, <1>2, <1>3, <1>4 DEF Next, Callback, TaskStep, ControlStep

\* The interrupt and the task, with their two bitmaps, implement a queue:
\* each line is executed once, in the order of the lines, whatever the number
\* and the length of the buffers, and whatever console_start and console_stop
\* race with.
THEOREM ConsoleRefinesQueue == Spec => ImplementsQueue
<1>1. IInv /\ [Next]_vars => IInv' /\ [Promise!Next]_<<Queue, Doing>>
  BY IInvNext, PromiseStep
<1> QED BY <1>1, IInvInit, PromiseInit, PTL DEF Spec, ImplementsQueue, Promise!Spec
=============================================================================
