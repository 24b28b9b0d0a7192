--------------------------- MODULE NetCtrl_proofs ---------------------------
(***************************************************************************)
(* Theorems about the queue of sys_ctrl and about network control, for any *)
(* threads and any length of the queue.                                    *)
(***************************************************************************)
EXTENDS NetCtrl, SequenceTheorems, TLAPS

-----------------------------------------------------------------------------
(* The steps of sys_ctrl *)

\* What a step of a system with a queue of sys_ctrl does to the queue.
SendOK(t, m) == m \in Message /\ m.by = t /\ (m.finish => m.run)
SysStep ==
  \/ \E t \in Threads, m \in Message, how \in {"try", "insist"} : SendOK(t, m) /\ Send(t, m, how)
  \/ \E t \in Threads : Queued(t) \/ Finished(t) \/ TimedOut(t)
  \/ Receive \/ Execute \/ Notified \/ Destruct
  \/ UNCHANGED sysVars

LEMMA EventOK ==
  ASSUME NEW e \in NetEvents, NEW t \in Threads
  PROVE  Event(e, t) \in Message /\ SendOK(t, Event(e, t))
  BY NetCtrlAssumption DEF Event, SendOK, Message

LEMMA StatusSends ==
  ASSUME NEW t \in Threads, NEW v \in BOOLEAN, StatusCallback(t, v)
  PROVE  SysStep
<1> DEFINE m == Event(IF v THEN "up" ELSE "down", t)
<1>1. m \in Message /\ SendOK(t, m)
  BY EventOK DEF NetEvents
<1>2. Send(t, m, "insist")
  BY DEF StatusCallback
<1> HIDE DEF m
<1> QED BY <1>1, <1>2 DEF SysStep

\* Network control uses the queue only as sys_ctrl lets it.
LEMMA NetIsSys == TypeOK /\ [Next]_vars => SysStep
<1> SUFFICES ASSUME TypeOK, [Next]_vars PROVE SysStep
  OBVIOUS
<1>0. {Driver, Tcpip, Looper} \subseteq Threads /\ Valid \in BOOLEAN /\ addr \in BOOLEAN
  BY NetCtrlAssumption, SysCtrlAssumption DEF TypeOK, Valid
<1>1. CASE Associate
  <2>1. PICK e \in {"connected", "disconnected"} : Send(Driver, Event(e, Driver), "insist")
    BY <1>1 DEF Associate
  <2>2. Event(e, Driver) \in Message /\ SendOK(Driver, Event(e, Driver))
    BY <1>0, EventOK DEF NetEvents
  <2> QED BY <1>0, <2>1, <2>2 DEF SysStep
<1>2. ASSUME NEW a \in Apps[conf], Use(a) PROVE SysStep
  <2>0. a \in Threads
    BY NetCtrlAssumption DEF TypeOK
  <2>1. CASE Send(a, Event("other", a), "try")
    <3>1. Event("other", a) \in Message /\ SendOK(a, Event("other", a))
      BY <2>0, EventOK DEF NetEvents
    <3> QED BY <2>0, <2>1, <3>1 DEF SysStep
  <2>2. ASSUME NEW fin \in BOOLEAN, NEW how \in {"try", "insist"},
               Send(a, [ev |-> "other", run |-> TRUE, finish |-> fin, by |-> a], how)
        PROVE SysStep
    <3> DEFINE m == [ev |-> "other", run |-> TRUE, finish |-> fin, by |-> a]
    <3>1. m \in Message /\ SendOK(a, m)
      BY <2>0, NetCtrlAssumption DEF SendOK, Message, NetEvents
    <3>2. Send(a, m, how)
      BY <2>2
    <3> HIDE DEF m
    <3> QED BY <2>0, <3>1, <3>2 DEF SysStep
  <2> QED BY <1>2, <2>1, <2>2 DEF Use
<1>3. ASSUME NEW t \in Threads, Proceed(t) \/ GiveUp(t) PROVE SysStep
  BY <1>3 DEF Proceed, GiveUp, SysStep
<1>4. CASE DhcpTurn \/ Take
  BY <1>4 DEF DhcpTurn, Take, SysStep
<1>5. CASE TcpipStep
  <2>1. ASSUME NEW s, NEW on \in BOOLEAN, SetFlag(s, on) PROVE SysStep
    <3>1. CASE UNCHANGED sysVars
      BY <3>1 DEF SysStep
    <3>2. CASE StatusCallback(Tcpip, on /\ addr)
      <4>1. (on /\ addr) \in BOOLEAN
        OBVIOUS
      <4> QED BY <1>0, <3>2, <4>1, StatusSends
    <3> QED BY <2>1, <3>1, <3>2 DEF SetFlag
  <2>2. CASE SetAddr("addr", TRUE) \/ SetAddr("clear", FALSE) \/ SetLink("link_up", TRUE)
             \/ SetLink("link_down", FALSE) \/ SetDhcp \/ Acknowledge
    BY <2>2 DEF SetAddr, SetLink, SetDhcp, Acknowledge, SysStep
  <2> QED BY <1>5, <2>1, <2>2 DEF TcpipStep
<1>6. CASE Serve
  BY <1>6 DEF Serve, SysStep
<1>7. CASE Process
  <2>1. CASE Config
    <3>1. CASE StatusCallback(Looper, Valid)
      BY <1>0, <3>1, StatusSends
    <3>2. CASE Notified \/ UNCHANGED sysVars
      BY <3>2 DEF SysStep
    <3> QED BY <2>1, <3>1, <3>2 DEF Config, Leave, Ask
  <2>2. CASE Connected \/ BringUp \/ Disconnected \/ Check \/ Clear \/ Stop \/ End
             \/ Up \/ Address \/ Down \/ Other
    BY <2>2 DEF Connected, BringUp, Disconnected, Check, Clear, Stop, End, Up, Address,
                Down, Other, Leave, Ask, SysStep
  <2> QED BY <1>7, <2>1, <2>2 DEF Process
<1>8. CASE UNCHANGED vars
  BY <1>8 DEF vars, SysStep
<1> QED BY <1>1, <1>2, <1>3, <1>4, <1>5, <1>6, <1>7, <1>8 DEF Next

LEMMA SysTypeNext == SysTypeOK /\ SysStep => SysTypeOK'
<1> SUFFICES ASSUME SysTypeOK, SysStep PROVE SysTypeOK'
  OBVIOUS
<1> USE SysCtrlAssumption DEF SysTypeOK, Calls, Stages
<1>1. ASSUME NEW t \in Threads, NEW m \in Message, NEW how \in {"try", "insist"},
             Send(t, m, how)
      PROVE SysTypeOK'
  BY <1>1 DEF Send
<1>2. ASSUME NEW t \in Threads, Queued(t) PROVE SysTypeOK'
  <2>1. out[t] \in Message
    OBVIOUS
  <2>2. Append(queue, out[t]) \in Seq(Message) /\ Len(Append(queue, out[t])) = Len(queue) + 1
    BY <2>1
  <2> QED BY <1>2, <2>2 DEF Queued, Full
<1>3. ASSUME NEW t \in Threads, Finished(t) \/ TimedOut(t) PROVE SysTypeOK'
  BY <1>3 DEF Finished, TimedOut
<1>4. CASE Receive
  <2>1. Head(queue) \in Message /\ Tail(queue) \in Seq(Message) /\ Len(Tail(queue)) = Len(queue) - 1
    BY <1>4 DEF Receive
  <2> QED BY <1>4, <2>1 DEF Receive
<1>5. CASE Execute \/ Notified \/ Destruct
  <2>1. msg.by \in Threads
    BY DEF Message
  <2> QED BY <1>5, <2>1 DEF Execute, Notified, Destruct
<1>6. CASE UNCHANGED sysVars
  BY <1>6 DEF sysVars
<1> QED BY <1>1, <1>2, <1>3, <1>4, <1>5, <1>6 DEF SysStep

LEMMA StepSequences ==
  /\ \A a \in Steps : <<a>> \in Seq(Steps)
  /\ \A a, b \in Steps : <<a, b>> \in Seq(Steps)
  /\ \A a, b, c \in Steps : <<a, b, c>> \in Seq(Steps)
  /\ \A a, b, c, d \in Steps : <<a, b, c, d>> \in Seq(Steps)
  OBVIOUS

LEMMA AllSteps ==
  Steps = {"off", "seek", "request", "check", "bound", "renew", "reboot",
           "addr", "clear", "up", "down", "link_up", "link_down", "ack"}
  BY DEF Steps, DhcpStates

LEMMA TurnsOf ==
  /\ Turns["none"] = {} /\ Turns["off"] = {}
  /\ Turns["seek"] = {<<"request">>}
  /\ Turns["request"] = {<<"check">>, <<"renew">>, Nak, Release}
  /\ Turns["check"] = {<<"seek">>, Bind}
  /\ Turns["bound"] = {<<"renew">>}
  /\ Turns["renew"] = {Bind, Nak, Release}
  /\ Turns["reboot"] = {Bind, Nak, <<"seek">>}
  BY DEF Turns

LEMMA TypeOKNext == TypeOK /\ [Next]_vars => TypeOK'
<1> SUFFICES ASSUME TypeOK, [Next]_vars PROVE TypeOK'
  OBVIOUS
<1>0. SysTypeOK'
  BY NetIsSys, SysTypeNext DEF TypeOK
<1>a. DhcpStates \cup {"none"} # {} /\ Valid \in BOOLEAN
  BY DEF Valid, DhcpStates, TypeOK
<1> USE <1>0 DEF TypeOK, ifVars, seenVars, netVars
<1>1. CASE Associate \/ (\E a \in Apps[conf] : Use(a)) \/ Take
  <2>1. CASE Associate
    BY <2>1 DEF Associate
  <2>2. CASE \E a \in Apps[conf] : Use(a)
    BY <2>2 DEF Use
  <2>3. CASE Take
    <3>1. req \in Steps /\ "ack" \in Steps
      BY <2>3 DEF Take, Steps
    <3> QED BY <2>3, <3>1 DEF Take
  <2> QED BY <1>1, <2>1, <2>2, <2>3
<1>2. CASE (\E t \in Threads : Proceed(t) \/ GiveUp(t)) \/ Serve
  BY <1>2 DEF Proceed, GiveUp, Serve
<1>3. CASE DhcpTurn
  <2>1. Turns[dhcp] \subseteq Seq(Steps)
    <3>1. Bind \in Seq(Steps) /\ Nak \in Seq(Steps) /\ Release \in Seq(Steps)
      BY StepSequences, AllSteps DEF Bind, Nak, Release
    <3>2. \A a \in {"request", "check", "renew", "seek"} : <<a>> \in Seq(Steps)
      BY StepSequences, AllSteps
    <3> QED BY <3>1, <3>2, TurnsOf DEF DhcpStates
  <2> QED BY <1>3, <2>1 DEF DhcpTurn
<1>4. CASE TcpipStep
  <2>0. ASSUME todo # <<>> PROVE Tail(todo) \in Seq(Steps) /\ Head(todo) \in Steps
    BY <2>0
  <2>1. ASSUME NEW s, NEW on \in BOOLEAN, SetFlag(s, on) PROVE TypeOK'
    BY <2>0, <2>1 DEF SetFlag, StatusCallback, Doing
  <2>2. ASSUME NEW s, NEW on \in BOOLEAN, SetAddr(s, on) PROVE TypeOK'
    BY <2>0, <2>2 DEF SetAddr, Doing
  <2>3. ASSUME NEW s, NEW on \in BOOLEAN, SetLink(s, on) PROVE TypeOK'
    <3>1. Changed \in Seq(Steps)
      <4>1. <<"down", "reboot">> \in Seq(Steps) /\ <<"seek">> \in Seq(Steps) /\ <<>> \in Seq(Steps)
        BY StepSequences, AllSteps
      <4> QED BY <4>1 DEF Changed
    <3> QED BY <2>0, <2>3, <3>1 DEF SetLink, Doing
  <2>4. CASE SetDhcp \/ Acknowledge
    BY <2>0, <2>4 DEF SetDhcp, Acknowledge, Doing, DhcpStates, Steps
  <2> QED BY <1>4, <2>1, <2>2, <2>3, <2>4 DEF TcpipStep
<1>5. CASE Process
  <2>1. CASE Config
    BY <1>a, <2>1 DEF Config, StatusCallback, Leave, Ask, Steps, DhcpStates, Places
  <2>2. CASE Connected \/ BringUp \/ Disconnected \/ Check \/ Clear \/ Stop \/ End
    <3>1. UNCHANGED <<conf, wlan, ifVars, todo, seen, seenVars>>
      BY <2>2 DEF Connected, BringUp, Disconnected, Check, Clear, Stop, End, Leave, Ask
    <3>2. npc' \in Places
      BY <2>2 DEF Connected, BringUp, Disconnected, Check, Clear, Stop, End, Leave, Ask, Places
    <3>3. req' \in Steps \cup {"none"}
      BY AllSteps, <2>2 DEF Connected, BringUp, Disconnected, Check, Clear, Stop, End, Leave, Ask
    <3> QED BY <3>1, <3>2, <3>3
  <2>3. CASE Up \/ Address \/ Down \/ Other
    <3>1. stale' \in BOOLEAN /\ drv' \in BOOLEAN
      BY <1>a, <2>3 DEF Up, Address, Down, Other, Leave
    <3> QED BY <3>1, <2>3 DEF Up, Address, Down, Other, Leave, Places
  <2> QED BY <1>5, <2>1, <2>2, <2>3 DEF Process
<1>6. CASE UNCHANGED vars
  BY <1>6 DEF vars
<1> QED BY <1>1, <1>2, <1>3, <1>4, <1>5, <1>6 DEF Next

LEMMA TypeOKInit == Init => TypeOK
<1>1. Event("other", Looper) \in Message
  BY EventOK, SysCtrlAssumption DEF NetEvents
<1>2. QueueLen \in Nat /\ <<>> \in Seq(Message) /\ Len(<<>>) = 0 /\ <<>> \in Seq(Steps)
  BY SysCtrlAssumption
<1>3. ASSUME Init PROVE SysTypeOK
  BY <1>1, <1>2, <1>3, SysCtrlAssumption DEF Init, SysInit, SysTypeOK, Stages, Calls
<1>4. ASSUME Init PROVE TypeOK
  BY <1>2, <1>3, <1>4 DEF Init, TypeOK, Places
<1> QED BY <1>4

\* Types, and a queue that never holds more than it may, whatever its length
\* and the threads that use it.
THEOREM NetTypeOK == Spec => []TypeOK
  BY TypeOKInit, TypeOKNext, PTL DEF Spec
-----------------------------------------------------------------------------
(* The semaphore of a caller that waits *)

\* Only a handler has a caller that waits, and the message bears its name; a
\* semaphore is released for a caller that waits and whose handler has run.
Waits ==
  /\ \A t \in Threads : call[t] \in {"try", "insist"} /\ out[t].finish =>
       out[t].by = t /\ out[t].run
  /\ \A i \in 1..Len(queue) : queue[i].finish => queue[i].run
  /\ msg.finish => msg.run
  /\ \A t \in given : call[t] = "wait" /\ t \in ran
  /\ stage \in {"notify", "destruct"} /\ msg.finish => msg.by \in ran

SemInv == Waits /\ NoDanglingSem

LEMMA SemInvInit == Init => SemInv
  BY NetCtrlAssumption, SysCtrlAssumption
     DEF Init, SysInit, SemInv, Waits, NoDanglingSem, Event

LEMMA SemInvNext == SysTypeOK /\ SemInv /\ SysStep => SemInv'
<1> SUFFICES ASSUME SysTypeOK, SemInv, SysStep PROVE SemInv'
  OBVIOUS
<1> USE DEF SemInv, Waits, NoDanglingSem
<1>0. /\ queue \in Seq(Message) /\ msg \in Message /\ out \in [Threads -> Message]
      /\ call \in [Threads -> Calls] /\ given \subseteq Threads /\ ran \subseteq Threads
  BY DEF SysTypeOK
<1>a. \A m \in Message : m.by \in Threads /\ m.run \in BOOLEAN /\ m.finish \in BOOLEAN
  BY DEF Message
<1>b. \A i \in 1..Len(queue) : queue[i] \in Message
  BY <1>0
<1>1. ASSUME NEW t \in Threads, NEW m \in Message, NEW how \in {"try", "insist"},
             SendOK(t, m), Send(t, m, how)
      PROVE SemInv'
  <2>1. \A u \in Threads : u # t => call'[u] = call[u] /\ out'[u] = out[u] /\ (u \in ran => u \in ran')
    BY <1>0, <1>1 DEF Send
  <2>2. call[t] = "idle" /\ call'[t] = how /\ out'[t] = m
        /\ UNCHANGED <<queue, msg, stage, given>>
    BY <1>0, <1>1 DEF Send
  <2>3. Waits'
    BY <1>0, <1>1, <1>a, <2>1, <2>2 DEF SendOK
  <2>4. NoDanglingSem'
    BY <1>0, <1>a, <1>b, <2>1, <2>2
  <2> QED BY <2>3, <2>4
<1>2. ASSUME NEW t \in Threads, Queued(t) PROVE SemInv'
  <2>0. /\ queue' = Append(queue, out[t]) /\ out[t] \in Message
        /\ Len(queue') = Len(queue) + 1 /\ Len(queue) \in Nat
        /\ \A i \in 1..Len(queue) : queue'[i] = queue[i]
        /\ queue'[Len(queue) + 1] = out[t]
    BY <1>0, <1>2 DEF Queued
  <2>1. /\ call[t] \in {"try", "insist"}
        /\ call'[t] = IF out[t].finish THEN "wait" ELSE "idle"
        /\ \A u \in Threads : u # t => call'[u] = call[u]
        /\ UNCHANGED <<msg, stage, out, given, ran>>
    BY <1>0, <1>2 DEF Queued
  <2>2. \A i \in 1..Len(queue') : i \in 1..Len(queue) \/ i = Len(queue) + 1
    BY <2>0
  <2>3. out[t].finish => out[t].by = t /\ out[t].run
    BY <2>1
  <2>4. Waits'
    <3>1. \A u \in Threads : call'[u] \in {"try", "insist"} => u # t
      BY <2>1
    <3>2. \A i \in 1..Len(queue') : queue'[i].finish => queue'[i].run
      BY <2>0, <2>2, <2>3
    <3> QED BY <1>0, <2>1, <3>1, <3>2
  <2>5. t \notin given /\ \A i \in 1..Len(queue) : ~(queue[i].finish /\ queue[i].by = t)
        /\ ~(stage # "recv" /\ msg.finish /\ msg.by = t)
    BY <2>1
  <2>6. \A i \in 1..Len(queue') : queue'[i].finish =>
          /\ call'[queue'[i].by] = "wait" /\ queue'[i].by \notin given'
          /\ \A j \in 1..Len(queue') : queue'[j].finish /\ queue'[j].by = queue'[i].by => i = j
    <3> SUFFICES ASSUME NEW i \in 1..Len(queue'), queue'[i].finish
                 PROVE  /\ call'[queue'[i].by] = "wait" /\ queue'[i].by \notin given'
                        /\ \A j \in 1..Len(queue') :
                             queue'[j].finish /\ queue'[j].by = queue'[i].by => i = j
      OBVIOUS
    <3>1. CASE i \in 1..Len(queue)
      <4>1. queue'[i] = queue[i] /\ queue[i].by \in Threads /\ queue[i].by # t
        BY <1>a, <1>b, <2>0, <2>5, <3>1
      <4> QED BY <2>0, <2>1, <2>2, <2>3, <3>1, <4>1
    <3>2. CASE i = Len(queue) + 1
      BY <2>0, <2>1, <2>2, <2>3, <2>5, <3>2
    <3> QED BY <2>2, <3>1, <3>2
  <2>7. stage' # "recv" /\ msg'.finish =>
          /\ call'[msg'.by] = "wait" /\ msg'.by \notin given'
          /\ \A i \in 1..Len(queue') : ~(queue'[i].finish /\ queue'[i].by = msg'.by)
    BY <1>0, <1>a, <2>0, <2>1, <2>2, <2>3, <2>5
  <2> QED BY <2>4, <2>6, <2>7
<1>3. ASSUME NEW t \in Threads, Finished(t) \/ TimedOut(t) PROVE SemInv'
  <2>1. /\ \A u \in Threads : u # t => call'[u] = call[u]
        /\ given' = given \ {t} \/ (call[t] = "try" /\ given' = given)
        /\ t \in given \/ call[t] = "try"
        /\ UNCHANGED <<queue, msg, stage, out, ran>>
    BY <1>0, <1>3 DEF Finished, TimedOut
  <2>2. call'[t] = "idle"
    BY <1>0, <1>3 DEF Finished, TimedOut
  <2>3. Waits'
    BY <1>0, <2>1, <2>2
  <2>4. NoDanglingSem'
    BY <1>0, <1>a, <1>b, <2>1, <2>2
  <2> QED BY <2>3, <2>4
<1>4. CASE Receive
  <2>0. /\ queue # <<>> /\ msg' = queue[1] /\ Len(queue') = Len(queue) - 1 /\ Len(queue) \in Nat \ {0}
        /\ \A i \in 1..Len(queue') : queue'[i] = queue[i + 1] /\ i + 1 \in 1..Len(queue)
        /\ 1 \in 1..Len(queue)
        /\ UNCHANGED <<call, out, given, ran>> /\ stage' = "execute"
    BY <1>0, <1>4 DEF Receive
  <2>1. Waits'
    BY <1>0, <2>0
  <2>2. NoDanglingSem'
    BY <1>0, <1>a, <1>b, <2>0
  <2> QED BY <2>1, <2>2
<1>5. CASE Execute \/ Notified
  BY <1>0, <1>a, <1>b, <1>5 DEF Execute, Notified
<1>6. CASE Destruct
  <2>1. given' = (IF msg.finish THEN given \cup {msg.by} ELSE given) /\ stage' = "recv"
        /\ stage = "destruct" /\ UNCHANGED <<queue, msg, call, out, ran>>
    BY <1>6 DEF Destruct
  <2> QED BY <1>0, <1>a, <1>b, <2>1
<1>7. CASE UNCHANGED sysVars
  BY <1>7 DEF sysVars
<1> QED BY <1>1, <1>2, <1>3, <1>4, <1>5, <1>6, <1>7 DEF SysStep

LEMMA SemInvAlways == Spec => [](TypeOK /\ SemInv)
<1>1. TypeOK /\ SemInv /\ [Next]_vars => (TypeOK /\ SemInv)'
  BY TypeOKNext, NetIsSys, SemInvNext DEF TypeOK
<1> QED BY <1>1, TypeOKInit, SemInvInit, PTL DEF Spec

\* Whoever sends what to the queue, a message that will release a semaphore
\* finds its caller waiting for it.
THEOREM SemaphoresLive == Spec => []NoDanglingSem
<1>1. SemInv => NoDanglingSem
  BY DEF SemInv
<1> QED BY <1>1, SemInvAlways, PTL

\* ... and the caller goes on only when its own handler has run.
THEOREM HandlersHaveRun == Spec => ReturnsAfterHandler
<1>1. ASSUME TypeOK, SemInv, SysStep
      PROVE  \A t \in Threads : call[t] = "wait" /\ call'[t] # "wait" => t \in ran
  <2> SUFFICES ASSUME NEW t \in Threads, call[t] = "wait", call'[t] # "wait" PROVE t \in ran
    OBVIOUS
  <2>1. call \in [Threads -> Calls]
    BY <1>1 DEF TypeOK, SysTypeOK
  <2>2. ASSUME NEW u \in Threads, NEW m, NEW how, Send(u, m, how) PROVE t \in ran
    BY <2>1, <2>2 DEF Send
  <2>3. ASSUME NEW u \in Threads, Queued(u) \/ TimedOut(u) PROVE t \in ran
    BY <2>1, <2>3 DEF Queued, TimedOut
  <2>4. ASSUME NEW u \in Threads, Finished(u) PROVE t \in ran
    BY <1>1, <2>1, <2>4 DEF Finished, SemInv, Waits
  <2>5. CASE Receive \/ Execute \/ Notified \/ Destruct \/ UNCHANGED sysVars
    BY <2>5 DEF Receive, Execute, Notified, Destruct, sysVars
  <2> QED BY <1>1, <2>2, <2>3, <2>4, <2>5 DEF SysStep
<1>2. TypeOK /\ SemInv /\ [Next]_vars =>
        [\A t \in Threads : call[t] = "wait" /\ call'[t] # "wait" => t \in ran]_sysVars
  BY <1>1, NetIsSys
<1> QED BY <1>2, SemInvAlways, PTL DEF Spec, ReturnsAfterHandler

\* A message that is sent bears its caller's name, and stays under way until the
\* looper releases the caller.
LEMMA NoLostCallerNext ==
  SysTypeOK /\ SemInv /\ NoLostCaller /\ SysStep => NoLostCaller'
<1> SUFFICES ASSUME SysTypeOK, SemInv, NoLostCaller, SysStep,
                    NEW t \in Threads, call'[t] = "wait"
             PROVE  \/ t \in given'
                    \/ \E i \in 1..Len(queue') : queue'[i].finish /\ queue'[i].by = t
                    \/ stage' # "recv" /\ msg'.finish /\ msg'.by = t
  BY DEF NoLostCaller
<1>0. /\ queue \in Seq(Message) /\ call \in [Threads -> Calls] /\ Len(queue) \in Nat
  BY DEF SysTypeOK
<1>1. ASSUME NEW u \in Threads, NEW m \in Message, NEW how \in {"try", "insist"}, Send(u, m, how)
      PROVE  call[t] = "wait" /\ UNCHANGED <<queue, msg, stage, given>>
  BY <1>0, <1>1 DEF Send
<1>2. ASSUME NEW u \in Threads, Queued(u)
      PROVE  \/ t \in given'
             \/ \E i \in 1..Len(queue') : queue'[i].finish /\ queue'[i].by = t
             \/ stage' # "recv" /\ msg'.finish /\ msg'.by = t
  <2>1. /\ Len(queue') = Len(queue) + 1
        /\ \A i \in 1..Len(queue) : queue'[i] = queue[i] /\ i \in 1..Len(queue')
        /\ queue'[Len(queue')] = out[u] /\ Len(queue') \in 1..Len(queue')
        /\ UNCHANGED <<msg, stage, given>>
    BY <1>0, <1>2 DEF Queued, SysTypeOK
  <2>2. CASE u = t
    <3>1. out[t].finish /\ out[t].by = t
      BY <1>0, <1>2, <2>2 DEF Queued, SemInv, Waits
    <3> QED BY <2>1, <2>2, <3>1
  <2>3. CASE u # t
    <3>1. call[t] = "wait"
      BY <1>0, <1>2, <2>3 DEF Queued
    <3> QED BY <2>1, <3>1 DEF NoLostCaller
  <2> QED BY <2>2, <2>3
<1>3. ASSUME NEW u \in Threads, Finished(u) \/ TimedOut(u)
      PROVE  call[t] = "wait" /\ UNCHANGED <<queue, msg, stage>> /\ (t \in given => t \in given')
  BY <1>0, <1>3 DEF Finished, TimedOut
<1>4. CASE Receive
  <2>1. /\ queue # <<>> /\ msg' = queue[1] /\ Len(queue') = Len(queue) - 1
        /\ \A i \in 1..Len(queue) : i = 1 \/ (i - 1 \in 1..Len(queue') /\ queue'[i - 1] = queue[i])
        /\ stage = "recv" /\ stage' = "execute" /\ UNCHANGED <<call, given>>
    BY <1>0, <1>4 DEF Receive
  <2>2. CASE t \in given
    BY <2>1, <2>2
  <2>3. ASSUME NEW i \in 1..Len(queue), queue[i].finish, queue[i].by = t
        PROVE  \/ \E j \in 1..Len(queue') : queue'[j].finish /\ queue'[j].by = t
               \/ msg'.finish /\ msg'.by = t
    BY <2>1, <2>3
  <2> QED BY <2>1, <2>2, <2>3 DEF NoLostCaller
<1>5. CASE Execute \/ Notified \/ UNCHANGED sysVars
  BY <1>5 DEF Execute, Notified, sysVars, NoLostCaller
<1>6. CASE Destruct
  BY <1>6 DEF Destruct, NoLostCaller
<1> QED BY <1>1, <1>2, <1>3, <1>4, <1>5, <1>6 DEF SysStep, NoLostCaller

\* A call of sys_handler_send_wait_finish never waits for a message that was
\* given up, or that is served already.
THEOREM CallersAreServed == Spec => []NoLostCaller
<1>1. Init => NoLostCaller
  BY DEF Init, SysInit, NoLostCaller
<1>2. TypeOK /\ SemInv /\ NoLostCaller /\ [Next]_vars => NoLostCaller'
  BY NetIsSys, NoLostCallerNext DEF TypeOK
<1> QED BY <1>1, <1>2, SemInvAlways, PTL DEF Spec
-----------------------------------------------------------------------------
(***************************************************************************)
(* What the looper can be held up by.                                      *)
(***************************************************************************)

\* The guard of a step of the looper holds, or of one of the tcpip thread when
\* the looper has asked it for something.
LooperGoesOn ==
  \/ stage = "recv" /\ queue # <<>>
  \/ stage = "execute"
  \/ stage = "destruct" /\ call[Looper] = "idle"
  \/ \E p \in Places : At(p)
  \/ call[Looper] = "insist" /\ ~Full
  \/ /\ req # "none"
     /\ TcpipFree \/ (\E s \in Steps : Doing(s)) \/ (call[Tcpip] = "insist" /\ ~Full)

\* The threads of network control only send events, and insist on it.
Own == {Looper, Driver, Tcpip}
OwnCalls == \A t \in Own : call[t] \in {"idle", "insist"} /\ ~out[t].finish

LEMMA OwnCallsNext == TypeOK /\ OwnCalls /\ [Next]_vars => OwnCalls'
<1> SUFFICES ASSUME TypeOK, OwnCalls, [Next]_vars PROVE OwnCalls'
  OBVIOUS
<1>0. call \in [Threads -> Calls] /\ out \in [Threads -> Message] /\ Own \subseteq Threads
      /\ Apps[conf] \cap Own = {} /\ Apps[conf] \subseteq Threads
  BY NetCtrlAssumption, SysCtrlAssumption DEF TypeOK, SysTypeOK, Own
<1>1. ASSUME NEW t \in Threads, NEW e, Send(t, Event(e, t), "insist") PROVE OwnCalls'
  BY <1>0, <1>1 DEF Send, Event, OwnCalls
<1>2. ASSUME NEW a \in Apps[conf], Use(a) PROVE OwnCalls'
  <2>1. \A t \in Own : t # a
    BY <1>0
  <2>2. \E m, how : Send(a, m, how)
    BY <1>2 DEF Use
  <2> QED BY <1>0, <2>1, <2>2 DEF Send, OwnCalls
<1>3. ASSUME NEW t \in Threads, Proceed(t) \/ GiveUp(t) PROVE OwnCalls'
  BY <1>0, <1>3 DEF Proceed, GiveUp, Queued, Finished, TimedOut, OwnCalls
<1>4. CASE UNCHANGED <<call, out>>
  BY <1>4 DEF OwnCalls
<1>5. Associate => OwnCalls'
  BY <1>0, <1>1 DEF Associate, Own
<1>6. ASSUME NEW t \in {Tcpip, Looper}, NEW v, StatusCallback(t, v) PROVE OwnCalls'
  BY <1>0, <1>1, <1>6 DEF StatusCallback, Own
<1>7. CASE DhcpTurn \/ Take \/ Serve
  BY <1>4, <1>7 DEF DhcpTurn, Take, Serve, Receive, Execute, Destruct, sysVars
<1>8. CASE TcpipStep
  BY <1>4, <1>6, <1>8 DEF TcpipStep, SetFlag, SetAddr, SetLink, SetDhcp, Acknowledge, sysVars
<1>9. CASE Process
  BY <1>4, <1>6, <1>9 DEF Process, Connected, Config, BringUp, Disconnected, Check, Clear, Stop, End,
         Up, Address, Down, Other, Leave, Ask, Notified, sysVars
<1>10. CASE UNCHANGED vars
  BY <1>4, <1>10 DEF vars, sysVars
<1> QED BY <1>2, <1>3, <1>5, <1>7, <1>8, <1>9, <1>10 DEF Next

\* Nothing but a full queue stops a looper that has something to do: it never
\* waits for a handler, nor for a tcpip thread that does.  With the queue full, it
\* and the tcpip thread may wait for room that only the looper can make.
THEOREM OnlyRoomHoldsLooper ==
  Spec => [](~Full /\ ~(stage = "recv" /\ queue = <<>>) => LooperGoesOn)
<1>1. Init => OwnCalls
  <2> SUFFICES ASSUME Init, NEW t \in Own PROVE call[t] \in {"idle", "insist"} /\ ~out[t].finish
    BY DEF OwnCalls
  <2>1. t \in Threads
    BY NetCtrlAssumption, SysCtrlAssumption DEF Own
  <2>2. call[t] = "idle" /\ out[t] = Event("other", Looper)
    BY <2>1 DEF Init, SysInit
  <2>3. Event("other", Looper).finish = FALSE
    BY DEF Event
  <2> QED BY <2>2, <2>3
<1>2. TypeOK /\ OwnCalls => (~Full /\ ~(stage = "recv" /\ queue = <<>>) => LooperGoesOn)
  <2> SUFFICES ASSUME TypeOK, OwnCalls, ~Full, stage = "notify", ~LooperGoesOn,
                      call[Looper] = "idle"
               PROVE  FALSE
    BY DEF TypeOK, SysTypeOK, Stages, LooperGoesOn, OwnCalls, Own
  <2>1. npc \in Places /\ todo \in Seq(Steps) /\ call[Tcpip] \in {"idle", "insist"}
    BY DEF TypeOK, OwnCalls, Own
  <2>2. req # "none"
    BY <2>1 DEF LooperGoesOn, At
  <2>3. call[Tcpip] = "idle" /\ todo # <<>>
    BY <2>1, <2>2 DEF LooperGoesOn, TcpipFree
  <2>4. Head(todo) \in Steps
    BY <2>1, <2>3
  <2> QED BY <2>2, <2>3, <2>4 DEF LooperGoesOn, Doing
<1> QED BY <1>1, <1>2, OwnCallsNext, TypeOKInit, TypeOKNext, PTL DEF Spec
-----------------------------------------------------------------------------
(* Where the looper and the tcpip thread stand *)

BindTodos == {Bind, <<"up", "bound">>, <<"bound">>}
TurnTodos ==
  BindTodos \cup
  {<<>>, <<"request">>, <<"check">>, <<"renew">>, <<"seek">>,
   Nak, <<"clear", "seek">>, Release}
AckTodos(r) ==
  {<<r, "ack">>, <<"ack">>} \cup
  IF r = "link_up"
  THEN {<<"down", "reboot", "ack">>, <<"reboot", "ack">>, <<"seek", "ack">>}
  ELSE {}

\* What the looper may ask, and where it goes on.
Requests == {<<"link_up", "config">>, <<"link_down", "check">>}
DhcpRequests == {<<"seek", "end">>, <<"down", "clear">>, <<"clear", "stop">>, <<"off", "end">>}
StaticRequests == {<<"addr", "bring_up">>, <<"up", "end">>}

Control ==
  /\ req # "none" => <<req, npc>> \in Requests \cup
                       IF conf = "dhcp" THEN DhcpRequests ELSE StaticRequests
  /\ npc # "idle" => stage = "notify"
  /\ npc = "address" => msg.ev = "up" /\ told
  /\ npc \notin {"idle", "address"} => msg.ev \in {"connected", "disconnected"}
  /\ todo \in TurnTodos \/ (req # "none" /\ todo \in AckTodos(req))
  /\ conf = "dhcp" => npc # "bring_up"
  /\ conf = "static" =>
       /\ dhcp = "none" /\ ~late
       /\ npc \notin {"clear", "stop"}
       /\ todo = <<>> \/ todo \in {<<req, "ack">>, <<"ack">>}
  /\ todo \in TurnTodos \ {<<>>} => dhcp # "none"
  /\ todo \in BindTodos => dhcp \notin {"none", "off"}

\* The sequence that stops the client, from the interface's being down to the
\* answer of dhcp_stop.
InStop == \/ npc = "clear" /\ (req = "none" \/ todo = <<"ack">>)
          \/ npc = "stop" \/ req = "off"

\* An interface that is up has an address and, with DHCP, a client.
Interface ==
  ~late =>
    /\ up => addr
    /\ todo = <<"up", "bound">> => addr
    /\ todo = <<"clear", "seek">> => ~up
    /\ InStop => ~up /\ todo \notin BindTodos
    /\ conf = "dhcp" /\ dhcp \in {"none", "off"} => ~up \/ todo = Nak
    /\ npc = "bring_up" /\ (req = "none" \/ todo = <<"ack">>) => addr
    /\ req = "up" => addr

\* The link goes up before a client is started and down before it is stopped.
Linked ==
  /\ npc = "check" /\ (req = "none" \/ todo = <<"ack">>) => ~link
  /\ npc \in {"clear", "stop"} \/ req = "off" => ~link
  /\ req = "link_up" /\ todo \in {<<"link_up", "ack">>} \cup TurnTodos => ~link
  /\ ~late /\ conf = "dhcp" /\ link /\ npc # "config" /\ todo \in {<<>>, <<"ack">>} =>
       dhcp \notin {"none", "off"} \/ (req = "seek" /\ todo = <<>>)
-----------------------------------------------------------------------------
(* The last status under way *)

Sends(t) == call[t] \in {"try", "insist"} /\ IsStatus(out[t])
Sending == \E t \in Threads : Sends(t)
QueuedStatus == \E i \in 1..Len(queue) : IsStatus(queue[i])
Served == stage \in {"execute", "notify"} /\ IsStatus(msg)

\* Statuses are sent by the tcpip thread, and by the looper only for a static
\* address that is in force.
Senders ==
  \A t \in Threads : Sends(t) =>
    /\ call[t] = "insist"
    /\ t \in {Tcpip, Looper}
    /\ t = Looper => conf = "static" /\ req = "none" /\ npc = "end" /\ stage = "notify"

\* The last status under way, or else what observers were told, is right.
Statuses ==
  /\ \A t \in Threads : Sends(t) => (out[t].ev = "up") = Valid
  /\ ~Sending => \A i \in 1..Len(queue) :
       IsStatus(queue[i]) /\ (\A j \in i+1..Len(queue) : ~IsStatus(queue[j])) =>
         (queue[i].ev = "up") = Valid
  /\ ~Sending /\ ~QueuedStatus => IF Served THEN (msg.ev = "up") = Valid ELSE told = Valid

\* A driver that does not know the address of the interface is about to.
Informed ==
  /\ stale => drv
  /\ drv => Valid \/ stale
  /\ Valid /\ ~drv => Sending \/ QueuedStatus \/ (Served /\ (npc = "address" => seen))
  /\ npc = "address" /\ Valid /\ ~seen => Sending \/ QueuedStatus

StatusInv == Senders /\ Statuses /\ Informed
-----------------------------------------------------------------------------
(* Control *)

LEMMA Tuples ==
  /\ \A a : <<a>> # <<>> /\ Head(<<a>>) = a /\ Tail(<<a>>) = <<>>
  /\ \A a, b : <<a, b>> # <<>> /\ Head(<<a, b>>) = a /\ Tail(<<a, b>>) = <<b>>
  /\ \A a, b, c : /\ <<a, b, c>> # <<>> /\ Head(<<a, b, c>>) = a
                  /\ Tail(<<a, b, c>>) = <<b, c>>
  /\ \A a, b, c, d : /\ <<a, b, c, d>> # <<>> /\ Head(<<a, b, c, d>>) = a
                     /\ Tail(<<a, b, c, d>>) = <<b, c, d>>
  OBVIOUS

LEMMA Concats ==
  /\ \A a : <<>> \o <<a>> = <<a>>
  /\ \A a, b : <<a>> \o <<b>> = <<a, b>>
  /\ \A a, b, c : <<a, b>> \o <<c>> = <<a, b, c>>
<1>1. \A a : <<>> \o <<a>> = <<a>>
  OBVIOUS
<1>2. ASSUME NEW a, NEW b PROVE <<a>> \o <<b>> = <<a, b>>
  <2> DEFINE S == {a, b}
  <2>1. <<a>> \in Seq(S) /\ Len(<<a>>) = 1
    OBVIOUS
  <2>2. <<b>> \in Seq(S) /\ Len(<<b>>) = 1
    OBVIOUS
  <2>3. <<a, b>> \in Seq(S) /\ Len(<<a, b>>) = 2
    OBVIOUS
  <2> HIDE DEF S
  <2>4. /\ <<a>> \o <<b>> \in Seq(S) /\ Len(<<a>> \o <<b>>) = 2
        /\ \A i \in 1..2 : (<<a>> \o <<b>>)[i] = IF i <= 1 THEN <<a>>[i] ELSE <<b>>[i - 1]
    BY <2>1, <2>2, ConcatProperties
  <2>5. \A i \in 1..2 : (<<a>> \o <<b>>)[i] = <<a, b>>[i]
    BY <2>4
  <2> QED BY <2>3, <2>4, <2>5, SeqEqual
<1>3. ASSUME NEW a, NEW b, NEW c PROVE <<a, b>> \o <<c>> = <<a, b, c>>
  <2> DEFINE S == {a, b, c}
  <2>1. <<a, b>> \in Seq(S) /\ Len(<<a, b>>) = 2
    OBVIOUS
  <2>2. <<c>> \in Seq(S) /\ Len(<<c>>) = 1
    OBVIOUS
  <2>3. <<a, b, c>> \in Seq(S) /\ Len(<<a, b, c>>) = 3
    OBVIOUS
  <2> HIDE DEF S
  <2>4. /\ <<a, b>> \o <<c>> \in Seq(S) /\ Len(<<a, b>> \o <<c>>) = 3
        /\ \A i \in 1..3 : (<<a, b>> \o <<c>>)[i] = IF i <= 2 THEN <<a, b>>[i] ELSE <<c>>[i - 2]
    BY <2>1, <2>2, ConcatProperties
  <2>5. \A i \in 1..3 : (<<a, b>> \o <<c>>)[i] = <<a, b, c>>[i]
    BY <2>4
  <2> QED BY <2>3, <2>4, <2>5, SeqEqual
<1> QED BY <1>1, <1>2, <1>3

LEMMA Asked ==
  ASSUME Control, req # "none"
  PROVE  req \in {"link_up", "link_down", "seek", "down", "clear", "off", "addr", "up"}
  BY DEF Control, Requests, DhcpRequests, StaticRequests

\* What the tcpip thread does now says what it does next.
LEMMA Heads ==
  ASSUME Control, todo # <<>>
  PROVE
  /\ Head(todo) = "up" =>
       \/ todo = <<"up", "bound">> /\ Tail(todo) = <<"bound">>
       \/ req = "up" /\ todo = <<"up", "ack">> /\ Tail(todo) = <<"ack">>
  /\ Head(todo) = "down" =>
       \/ todo = Nak /\ Tail(todo) = <<"clear", "seek">>
       \/ req = "link_up" /\ todo = <<"down", "reboot", "ack">> /\ Tail(todo) = <<"reboot", "ack">>
       \/ req = "down" /\ todo = <<"down", "ack">> /\ Tail(todo) = <<"ack">>
  /\ Head(todo) = "addr" =>
       \/ todo = Bind /\ Tail(todo) = <<"up", "bound">>
       \/ req = "addr" /\ todo = <<"addr", "ack">> /\ Tail(todo) = <<"ack">>
  /\ Head(todo) = "clear" =>
       \/ todo = <<"clear", "seek">> /\ Tail(todo) = <<"seek">>
       \/ req = "clear" /\ todo = <<"clear", "ack">> /\ Tail(todo) = <<"ack">>
  /\ Head(todo) \in {"link_up", "link_down"} =>
       req = Head(todo) /\ todo = <<req, "ack">> /\ Tail(todo) = <<"ack">>
  /\ Head(todo) = "ack" => req # "none" /\ todo = <<"ack">> /\ Tail(todo) = <<>>
  /\ Head(todo) \in DhcpStates =>
       \/ /\ Head(todo) \in {"request", "check", "renew", "seek", "bound"}
          /\ todo = <<Head(todo)>> /\ Tail(todo) = <<>>
       \/ Head(todo) = "off" /\ todo = Release /\ Tail(todo) = Nak
       \/ /\ \/ Head(todo) = req /\ req \in {"seek", "off"}
             \/ Head(todo) \in {"reboot", "seek"} /\ req = "link_up"
          /\ todo = <<Head(todo), "ack">> /\ Tail(todo) = <<"ack">>
<1>1. CASE todo \in TurnTodos
  <2>1. CASE todo = <<"request">>
    <3>1. Head(todo) = "request" /\ Tail(todo) = <<>>
      BY <2>1, Tuples
    <3> QED BY <2>1, <3>1 DEF DhcpStates
  <2>2. CASE todo = <<"check">>
    <3>1. Head(todo) = "check" /\ Tail(todo) = <<>>
      BY <2>2, Tuples
    <3> QED BY <2>2, <3>1 DEF DhcpStates
  <2>3. CASE todo = <<"renew">>
    <3>1. Head(todo) = "renew" /\ Tail(todo) = <<>>
      BY <2>3, Tuples
    <3> QED BY <2>3, <3>1 DEF DhcpStates
  <2>4. CASE todo = <<"seek">>
    <3>1. Head(todo) = "seek" /\ Tail(todo) = <<>>
      BY <2>4, Tuples
    <3> QED BY <2>4, <3>1 DEF DhcpStates
  <2>5. CASE todo = <<"bound">>
    <3>1. Head(todo) = "bound" /\ Tail(todo) = <<>>
      BY <2>5, Tuples
    <3> QED BY <2>5, <3>1 DEF DhcpStates
  <2>6. CASE todo = <<"up", "bound">>
    <3>1. Head(todo) = "up" /\ Tail(todo) = <<"bound">>
      BY <2>6, Tuples
    <3> QED BY <2>6, <3>1 DEF DhcpStates
  <2>7. CASE todo = Bind
    <3>1. Head(todo) = "addr" /\ Tail(todo) = <<"up", "bound">>
      BY <2>7, Tuples DEF Bind
    <3> QED BY <2>7, <3>1 DEF DhcpStates
  <2>8. CASE todo = Nak
    <3>1. Head(todo) = "down" /\ Tail(todo) = <<"clear", "seek">>
      BY <2>8, Tuples DEF Nak
    <3> QED BY <2>8, <3>1 DEF DhcpStates
  <2>9. CASE todo = <<"clear", "seek">>
    <3>1. Head(todo) = "clear" /\ Tail(todo) = <<"seek">>
      BY <2>9, Tuples
    <3> QED BY <2>9, <3>1 DEF DhcpStates
  <2>10. CASE todo = Release
    <3>1. Head(todo) = "off" /\ Tail(todo) = Nak
      BY <2>10, Tuples DEF Release, Nak
    <3> QED BY <2>10, <3>1 DEF DhcpStates
  <2> QED BY <1>1, <2>1, <2>2, <2>3, <2>4, <2>5, <2>6, <2>7, <2>8, <2>9, <2>10 DEF TurnTodos, BindTodos
<1>2. CASE req # "none" /\ todo \in AckTodos(req)
  <2>0. req \in {"link_up", "link_down", "seek", "down", "clear", "off", "addr", "up"}
    BY <1>2, Asked
  <2>1. CASE todo = <<req, "ack">>
    <3>1. Head(todo) = req /\ Tail(todo) = <<"ack">>
      BY <2>1, Tuples
    <3> QED BY <1>2, <2>0, <2>1, <3>1 DEF DhcpStates
  <2>2. CASE todo = <<"ack">>
    <3>1. Head(todo) = "ack" /\ Tail(todo) = <<>>
      BY <2>2, Tuples
    <3> QED BY <1>2, <2>0, <2>2, <3>1 DEF DhcpStates
  <2>3. CASE req = "link_up" /\ todo = <<"down", "reboot", "ack">>
    <3>1. Head(todo) = "down" /\ Tail(todo) = <<"reboot", "ack">>
      BY <2>3, Tuples
    <3> QED BY <2>3, <3>1 DEF DhcpStates
  <2>4. CASE req = "link_up" /\ todo = <<"reboot", "ack">>
    <3>1. Head(todo) = "reboot" /\ Tail(todo) = <<"ack">>
      BY <2>4, Tuples
    <3> QED BY <2>4, <3>1 DEF DhcpStates
  <2>5. CASE req = "link_up" /\ todo = <<"seek", "ack">>
    <3>1. Head(todo) = "seek" /\ Tail(todo) = <<"ack">>
      BY <2>5, Tuples
    <3> QED BY <2>5, <3>1 DEF DhcpStates
  <2> QED BY <1>2, <2>1, <2>2, <2>3, <2>4, <2>5 DEF AckTodos
<1> QED BY <1>1, <1>2 DEF Control

LEMMA NotBind ==
  /\ <<>> \notin BindTodos /\ Nak \notin BindTodos /\ Release \notin BindTodos
  /\ \A a : a # "bound" => <<a>> \notin BindTodos
  /\ \A a, b : b # "bound" => <<a, b>> \notin BindTodos
  /\ \A a, b, c : c # "bound" => <<a, b, c>> \notin BindTodos
<1>1. /\ \A a, b : <<a, b>> # <<"bound">>
      /\ \A a, b, c : <<a, b, c>> # <<"bound">> /\ <<a, b, c>> # <<"up", "bound">>
      /\ \A a, b, c, d : <<a, b, c, d>> \notin {<<"bound">>, <<"up", "bound">>, <<"addr", "up", "bound">>}
      /\ \A a : <<a>> # <<"up", "bound">> /\ <<a>> # <<"addr", "up", "bound">>
      /\ \A a, b : <<a, b>> # <<"addr", "up", "bound">>
      /\ <<>> \notin {<<"bound">>, <<"up", "bound">>, <<"addr", "up", "bound">>}
  OBVIOUS
<1> QED BY <1>1 DEF BindTodos, Bind, Nak, Release

LEMMA NotTurn ==
  /\ <<"ack">> \notin TurnTodos /\ \A a : <<a, "ack">> \notin TurnTodos
  /\ <<"down", "reboot", "ack">> \notin TurnTodos
<1>1. <<"ack">> \notin TurnTodos
  BY NotBind DEF TurnTodos, Nak, Release
<1>2. \A a : <<a, "ack">> \notin TurnTodos
  BY NotBind DEF TurnTodos, Nak, Release
<1>3. <<"down", "reboot", "ack">> \notin TurnTodos
  BY NotBind DEF TurnTodos, Nak, Release
<1> QED BY <1>1, <1>2, <1>3

LEMMA TurnTodo ==
  ASSUME NEW d \in DhcpStates \cup {"none"}, NEW p \in Turns[d]
  PROVE  /\ d \notin {"none", "off"}
         /\ p \in TurnTodos \ {<<>>}
         /\ p \in BindTodos => p = Bind /\ d \in {"check", "renew", "reboot"}
<1>1. \A a : <<a>> # <<>>
  OBVIOUS
<1>2. Bind # <<>> /\ Nak # <<>> /\ Release # <<>>
  BY DEF Bind, Nak, Release
<1>3. p \in {<<"request">>, <<"check">>, <<"renew">>, <<"seek">>, Nak, Release, Bind}
      /\ d \notin {"none", "off"} /\ (p = Bind => d \in {"check", "renew", "reboot"} \/ p \notin BindTodos)
  <2>1. <<"request">> # Bind /\ <<"check">> # Bind /\ <<"renew">> # Bind /\ <<"seek">> # Bind
        /\ Nak # Bind /\ Release # Bind
    BY DEF Bind, Nak, Release
  <2> QED BY <2>1, TurnsOf DEF DhcpStates
<1> QED BY <1>1, <1>2, <1>3, NotBind DEF TurnTodos, BindTodos

LEMMA ControlNext ==
  ASSUME TypeOK, Control, [Next]_vars
  PROVE  Control'
<1> USE DEF ifVars, seenVars, netVars
<1>0. /\ conf \in Confs /\ stage \in Stages /\ npc \in Places /\ late \in BOOLEAN
      /\ dhcp \in DhcpStates \cup {"none"} /\ todo \in Seq(Steps)
  BY DEF TypeOK, SysTypeOK
<1>1. CASE UNCHANGED <<conf, stage, msg, todo, req, npc, dhcp, told, late>>
  BY <1>1 DEF Control
<1>2. CASE UNCHANGED netVars /\ (Receive \/ Execute \/ Destruct)
  <2>1. stage # "notify" => npc = "idle"
    BY DEF Control
  <2>2. UNCHANGED <<conf, todo, req, npc, dhcp, told, late>>
    BY <1>2
  <2>3. npc = "idle" /\ (stage' = "notify" \/ npc' = "idle")
    BY <1>2, <2>1, <2>2 DEF Receive, Execute, Destruct
  <2> QED BY <2>2, <2>3 DEF Control
<1>3. CASE DhcpTurn
  <2>1. PICK p \in Turns[dhcp] : todo' = p /\ (late' = (late \/ (p = Bind /\ Stopping)))
        /\ UNCHANGED <<conf, stage, msg, req, npc, dhcp, told>>
    BY <1>3 DEF DhcpTurn, sysVars
  <2>2. dhcp \notin {"none", "off"} /\ p \in TurnTodos \ {<<>>} /\ conf = "dhcp"
    BY <1>0, <2>1, TurnTodo DEF Control, Confs
  <2> QED BY <2>1, <2>2 DEF Control
<1>4. CASE Take
  <2>1. todo' = <<req, "ack">> /\ req # "none" /\ UNCHANGED <<conf, stage, msg, req, npc, dhcp, told, late>>
    BY <1>4 DEF Take, sysVars
  <2>2. todo' \notin TurnTodos /\ todo' \notin BindTodos /\ todo' \in AckTodos(req)
    BY <2>1, NotTurn, NotBind DEF AckTodos
  <2> QED BY <2>1, <2>2 DEF Control
<1>5. CASE TcpipStep
  <2>0. todo # <<>>
    BY <1>5 DEF TcpipStep, SetFlag, SetAddr, SetLink, SetDhcp, Acknowledge, Doing
  <2>a. UNCHANGED <<conf, stage, msg, npc, told, late>>
    BY <1>5 DEF TcpipStep, SetFlag, SetAddr, SetLink, SetDhcp, Acknowledge, Doing, StatusCallback, Send, sysVars
  <2>1. CASE (SetFlag("up", TRUE) \/ SetAddr("addr", TRUE)) /\ todo \in TurnTodos
    <3>1. UNCHANGED <<req, dhcp>> /\ todo' = Tail(todo) /\ Head(todo) \in {"up", "addr"}
      BY <2>1 DEF SetFlag, SetAddr, Doing
    <3>2. todo \in BindTodos /\ todo' \in BindTodos /\ todo' \in TurnTodos \ {<<>>}
      <4>1. todo \in {<<"up", "bound">>, Bind} /\ todo' \in {<<"bound">>, <<"up", "bound">>}
        BY <2>0, <2>1, <3>1, Heads, NotTurn
      <4> QED BY <4>1, NotBind DEF TurnTodos, BindTodos
    <3> QED BY <2>a, <3>1, <3>2 DEF Control
  <2>2. CASE (SetFlag("down", FALSE) \/ SetAddr("clear", FALSE)) /\ todo \in TurnTodos
    <3>1. UNCHANGED <<req, dhcp>> /\ todo' = Tail(todo) /\ Head(todo) \in {"down", "clear"}
      BY <2>2 DEF SetFlag, SetAddr, Doing
    <3>2. todo # <<>> /\ todo' \in {<<"clear", "seek">>, <<"seek">>}
      BY <2>0, <2>2, <3>1, Heads, NotTurn
    <3>3. todo' \in TurnTodos \ {<<>>} /\ todo' \notin BindTodos
      BY <3>2, NotBind, Tuples DEF TurnTodos
    <3> QED BY <2>a, <2>2, <3>1, <3>2, <3>3 DEF Control
  <2>3. CASE (\E s \in {"up", "down"}, on \in BOOLEAN : SetFlag(s, on)) /\ todo \notin TurnTodos
    <3>1. UNCHANGED <<req, dhcp>> /\ todo' = Tail(todo) /\ Head(todo) \in {"up", "down"}
      BY <2>3 DEF SetFlag, Doing
    <3>2. \/ todo' = <<"ack">>
          \/ req = "link_up" /\ todo = <<"down", "reboot", "ack">> /\ todo' = <<"reboot", "ack">>
      BY <2>0, <2>3, <3>1, Heads DEF TurnTodos, BindTodos
    <3>3. todo' \notin TurnTodos /\ todo' \notin BindTodos
          /\ todo # <<>> /\ <<"down", "reboot", "ack">> \notin {<<req, "ack">>, <<"ack">>}
      BY <2>0, <3>2, NotTurn, NotBind
    <3>4. req # "none" /\ todo' \in AckTodos(req)
      BY <2>3, <3>2 DEF AckTodos, Control
    <3>5. conf = "static" => todo' = <<"ack">>
      BY <2>0, <3>2, <3>3 DEF Control
    <3> QED BY <2>a, <3>1, <3>3, <3>4, <3>5 DEF Control
  <2>4. CASE (\E s \in {"addr", "clear"}, to \in BOOLEAN : SetAddr(s, to)) /\ todo \notin TurnTodos
    <3>1. UNCHANGED <<req, dhcp>> /\ todo' = Tail(todo) /\ Head(todo) \in {"addr", "clear"}
      BY <2>4 DEF SetAddr, Doing
    <3>2. todo' = <<"ack">>
      BY <2>0, <2>4, <3>1, Heads DEF TurnTodos, BindTodos
    <3>3. req # "none" /\ todo' \in AckTodos(req) /\ todo' \notin TurnTodos /\ todo' \notin BindTodos
      BY <2>4, <3>2, NotTurn, NotBind DEF AckTodos, Control
    <3> QED BY <2>a, <3>1, <3>2, <3>3 DEF Control
  <2>5. CASE \E s \in {"link_up", "link_down"}, on \in BOOLEAN : SetLink(s, on) /\ (on => s = "link_up")
    <3>1. UNCHANGED <<req, dhcp>> /\ Head(todo) \in {"link_up", "link_down"}
          /\ (todo' = Tail(todo) \/ (Head(todo) = "link_up" /\ todo' = Changed \o Tail(todo)))
      BY <2>5 DEF SetLink, Doing
    <3>2. req = Head(todo) /\ Tail(todo) = <<"ack">>
      BY <2>0, <3>1, Heads
    <3>3. <<"down", "reboot">> \o <<"ack">> = <<"down", "reboot", "ack">>
          /\ <<"seek">> \o <<"ack">> = <<"seek", "ack">> /\ <<>> \o <<"ack">> = <<"ack">>
      BY Concats
    <3>4. \/ todo' = <<"ack">>
          \/ dhcp \notin {"none", "off"} /\ req = "link_up"
             /\ todo' \in {<<"down", "reboot", "ack">>, <<"seek", "ack">>}
      BY <3>1, <3>2, <3>3 DEF Changed
    <3>5. req # "none" /\ todo' \in AckTodos(req) /\ todo' \notin TurnTodos /\ todo' \notin BindTodos
      BY <3>1, <3>2, <3>4, NotTurn, NotBind DEF AckTodos
    <3> QED BY <2>a, <3>1, <3>4, <3>5 DEF Control
  <2>6. CASE SetDhcp
    <3>1. PICK s \in DhcpStates : /\ Head(todo) = s
                                  /\ dhcp' = IF s = "off" /\ dhcp = "none" THEN "none" ELSE s
      BY <2>6 DEF SetDhcp, Doing
    <3>2. UNCHANGED req /\ todo' = Tail(todo)
      BY <2>6 DEF SetDhcp
    <3>3. CASE s \in {"request", "check", "renew", "seek", "bound"} /\ todo = <<s>> /\ todo' = <<>>
      <4>1. todo \in TurnTodos /\ todo # <<>> /\ todo' \in TurnTodos /\ todo' \notin BindTodos
        BY <3>3, NotBind DEF TurnTodos, BindTodos
      <4> QED BY <2>a, <3>1, <3>2, <3>3, <4>1 DEF Control
    <3>4. CASE s = "off" /\ todo = Release /\ todo' = Nak
      <4>1. todo \in TurnTodos /\ todo # <<>> /\ todo' \in TurnTodos /\ todo' \notin BindTodos
        BY <2>0, <3>4, NotBind DEF TurnTodos
      <4>2. dhcp # "none" /\ dhcp' = "off"
        BY <3>1, <3>4, <4>1 DEF Control
      <4> QED BY <2>a, <3>1, <3>2, <3>4, <4>1, <4>2 DEF Control
    <3>5. CASE /\ \/ s = req /\ req \in {"seek", "off"}
                  \/ s \in {"reboot", "seek"} /\ req = "link_up"
               /\ todo = <<s, "ack">> /\ todo' = <<"ack">>
      <4>1. todo \notin TurnTodos /\ todo' \notin TurnTodos /\ todo' \notin BindTodos
            /\ todo' \in AckTodos(req) /\ req # "none"
        BY <3>5, NotTurn, NotBind DEF AckTodos
      <4>2. conf # "static"
        BY <3>5, <2>0, Tuples DEF Control, Requests, StaticRequests
      <4> QED BY <2>a, <3>1, <3>2, <3>5, <4>1, <4>2 DEF Control
    <3> QED BY <2>0, <3>1, <3>2, <3>3, <3>4, <3>5, Heads
  <2>7. CASE Acknowledge
    <3>1. todo' = <<>> /\ req' = "none" /\ UNCHANGED dhcp
      BY <2>0, <2>7, Heads DEF Acknowledge, Doing
    <3>2. todo' \in TurnTodos /\ todo' \notin BindTodos
      BY <3>1, NotBind DEF TurnTodos
    <3> QED BY <2>a, <3>1, <3>2 DEF Control
  <2> QED BY <1>5, <2>1, <2>2, <2>3, <2>4, <2>5, <2>6, <2>7 DEF TcpipStep
<1>6. CASE Process
  <2>1. CASE Leave
    <3>1. npc' = "idle" /\ UNCHANGED <<conf, msg, todo, req, dhcp, told, late>>
      BY <2>1 DEF Leave, Notified
    <3>2. todo' \in TurnTodos \/ (req' # "none" /\ todo' \in AckTodos(req'))
      BY <3>1 DEF Control
    <3>3. req = "none"
      BY <1>6 DEF Process, Connected, Config, BringUp, Disconnected, Check, Clear, Stop, End,
                  Up, Address, Down, Other, At
    <3> QED BY <3>1, <3>2, <3>3 DEF Control
  <2>2. ASSUME NEW r, NEW p, Ask(r, p), req = "none", stage = "notify",
               msg.ev \in {"connected", "disconnected"},
               <<r, p>> \in Requests \cup (IF conf = "dhcp" THEN DhcpRequests ELSE StaticRequests)
        PROVE  Control'
    <3>1. req' = r /\ npc' = p /\ UNCHANGED <<conf, stage, msg, todo, dhcp, told, late>>
      BY <2>2 DEF Ask, sysVars
    <3>2. r # "none" /\ p \notin {"idle", "address"}
      BY <2>2 DEF Requests, DhcpRequests, StaticRequests
    <3>3. (conf = "dhcp" => p # "bring_up") /\ (conf = "static" => p \notin {"clear", "stop"})
      BY <2>2 DEF Requests, DhcpRequests, StaticRequests
    <3>4. todo \in TurnTodos /\ (conf = "static" => todo = <<>>)
      BY <2>2, NotTurn DEF Control
    <3> QED BY <2>2, <3>1, <3>2, <3>3, <3>4 DEF Control
  <2>3. CASE Connected \/ Disconnected
    <3>1. /\ At("idle") /\ msg.ev \in {"connected", "disconnected"}
          /\ \/ Leave \/ Ask("link_up", "config") \/ Ask("link_down", "check")
             \/ npc' = "check" /\ UNCHANGED <<sysVars, conf, wlan, ifVars, todo, req, seen, seenVars>>
      BY <2>3 DEF Connected, Disconnected
    <3>2. req = "none" /\ stage = "notify"
      BY <3>1 DEF At
    <3>3. CASE Ask("link_up", "config") \/ Ask("link_down", "check")
      BY <2>2, <3>1, <3>2, <3>3 DEF Requests
    <3>4. CASE npc' = "check" /\ UNCHANGED <<sysVars, conf, wlan, ifVars, todo, req, seen, seenVars>>
      BY <3>1, <3>2, <3>4 DEF Control, sysVars
    <3> QED BY <2>1, <3>1, <3>3, <3>4
  <2>4. CASE Config \/ BringUp
    <3>1. /\ (At("config") \/ At("bring_up"))
          /\ \/ Leave \/ (conf = "dhcp" /\ Ask("seek", "end"))
             \/ (conf = "static" /\ Ask("addr", "bring_up")) \/ (npc = "bring_up" /\ Ask("up", "end"))
             \/ /\ npc' = "end" /\ conf = "static"
                /\ UNCHANGED <<queue, msg, stage, conf, wlan, ifVars, todo, req, seen, told, late>>
      BY <2>4 DEF Config, BringUp, StatusCallback, Send, At
    <3>2. req = "none" /\ stage = "notify" /\ npc \in {"config", "bring_up"}
          /\ msg.ev \in {"connected", "disconnected"}
      BY <3>1 DEF At, Control
    <3>3. npc = "bring_up" => conf = "static"
      BY <1>0 DEF Control, Confs
    <3>4. CASE \/ conf = "dhcp" /\ Ask("seek", "end")
               \/ conf = "static" /\ Ask("addr", "bring_up")
               \/ npc = "bring_up" /\ Ask("up", "end")
      BY <2>2, <3>2, <3>3, <3>4 DEF DhcpRequests, StaticRequests
    <3>5. CASE npc' = "end" /\ conf = "static"
                /\ UNCHANGED <<queue, msg, stage, conf, wlan, ifVars, todo, req, seen, told, late>>
      BY <3>2, <3>5 DEF Control
    <3> QED BY <2>1, <3>1, <3>4, <3>5
  <2>5. CASE Check \/ Clear \/ Stop \/ End
    <3>1. /\ At("check") \/ At("clear") \/ At("stop") \/ At("end")
          /\ \/ Leave \/ (npc = "check" /\ dhcp # "none" /\ Ask("down", "clear"))
             \/ (npc = "clear" /\ Ask("clear", "stop"))
             \/ (npc = "stop" /\ Ask("off", "end"))
      BY <2>5 DEF Check, Clear, Stop, End, At
    <3>2. req = "none" /\ stage = "notify" /\ npc \notin {"idle", "address"}
          /\ msg.ev \in {"connected", "disconnected"}
      BY <3>1 DEF At, Control
    <3>3. ASSUME ~Leave PROVE conf = "dhcp"
      BY <1>0, <3>1, <3>3 DEF Control, Confs
    <3>4. CASE ~Leave
      BY <2>2, <3>1, <3>2, <3>3, <3>4 DEF DhcpRequests
    <3> QED BY <2>1, <3>4
  <2>6. CASE Up
    BY <2>6 DEF Up, At, Control, sysVars
  <2>7. CASE Address \/ Down
    <3>1. npc' = "idle" /\ req = "none" /\ UNCHANGED <<conf, todo, req, dhcp, late>>
      BY <2>7 DEF Address, Down, Notified, At
    <3>2. todo' \in TurnTodos /\ (conf = "static" => todo' = <<>>)
      BY <3>1, NotTurn DEF Control
    <3> QED BY <3>1, <3>2 DEF Control
  <2> QED BY <1>6, <2>1, <2>3, <2>4, <2>5, <2>6, <2>7 DEF Process, Other
<1>7. CASE Associate \/ (\E a \in Apps[conf] : Use(a))
  BY <1>1, <1>7 DEF Associate, Use, Send
<1>8. CASE \E t \in Threads : Proceed(t) \/ GiveUp(t)
  BY <1>1, <1>8 DEF Proceed, GiveUp, Queued, Finished, TimedOut
<1>9. CASE Serve
  BY <1>2, <1>9 DEF Serve
<1>10. CASE UNCHANGED vars
  BY <1>1, <1>10 DEF vars, sysVars
<1> QED BY <1>3, <1>4, <1>5, <1>6, <1>7, <1>8, <1>9, <1>10 DEF Next

LEMMA NotOthers ==
  /\ \A a \in {<<"ack">>, <<>>, <<"seek">>, <<"bound">>} :
       a # Nak /\ a # <<"up", "bound">> /\ a # <<"clear", "seek">>
  /\ \A a : <<a, "ack">> # <<"ack">> /\ <<a, "ack">> # Nak /\ <<a, "ack">> # <<"up", "bound">>
            /\ <<a, "ack">> # <<"clear", "seek">> /\ <<a, "ack">> # <<>>
  /\ \A a \in {Bind, Nak, Release, <<"request">>, <<"check">>, <<"renew">>, <<"seek">>, <<"bound">>} :
       a # <<"up", "bound">> /\ a # <<"clear", "seek">> /\ a # <<"ack">>
  /\ <<"up", "bound">> \notin {<<"ack">>, <<"clear", "seek">>, <<>>, Nak}
  /\ <<"clear", "seek">> \notin {<<"ack">>, <<>>, Nak}
  /\ <<"down", "reboot", "ack">> \notin {<<"ack">>, <<"up", "bound">>, <<"clear", "seek">>, Nak, <<>>}
  /\ \A a : a # "link_up" => <<a, "ack">> # <<"link_up", "ack">>
  /\ <<"down", "reboot", "ack">> # <<"link_up", "ack">> /\ <<"ack">> # <<"link_up", "ack">>
<1> USE DEF Nak, Bind, Release
<1>1. \A a \in {<<"ack">>, <<>>, <<"seek">>, <<"bound">>} :
       a # Nak /\ a # <<"up", "bound">> /\ a # <<"clear", "seek">>
  OBVIOUS
<1>2. \A a : <<a, "ack">> # <<"ack">> /\ <<a, "ack">> # Nak /\ <<a, "ack">> # <<"up", "bound">>
            /\ <<a, "ack">> # <<"clear", "seek">> /\ <<a, "ack">> # <<>>
  OBVIOUS
<1>3. \A a \in {Bind, Nak, Release, <<"request">>, <<"check">>, <<"renew">>, <<"seek">>, <<"bound">>} :
       a # <<"up", "bound">> /\ a # <<"clear", "seek">> /\ a # <<"ack">>
  OBVIOUS
<1>4. <<"up", "bound">> \notin {<<"ack">>, <<"clear", "seek">>, <<>>, Nak}
      /\ <<"clear", "seek">> \notin {<<"ack">>, <<>>, Nak}
  OBVIOUS
<1>5. <<"down", "reboot", "ack">> \notin {<<"ack">>, <<"up", "bound">>, <<"clear", "seek">>, Nak, <<>>}
  OBVIOUS
<1>6. /\ \A a : a # "link_up" => <<a, "ack">> # <<"link_up", "ack">>
      /\ <<"down", "reboot", "ack">> # <<"link_up", "ack">> /\ <<"ack">> # <<"link_up", "ack">>
  OBVIOUS
<1> QED BY <1>1, <1>2, <1>3, <1>4, <1>5, <1>6

\* What the places of the looper say of its requests.
LEMMA Pairs ==
  ASSUME Control, req # "none"
  PROVE  /\ npc = "clear" => req = "down" /\ conf = "dhcp"
         /\ npc = "stop" => req = "clear" /\ conf = "dhcp"
         /\ npc = "check" => req = "link_down"
         /\ npc = "config" => req = "link_up"
         /\ npc = "bring_up" => req = "addr"
         /\ req = "link_up" => npc = "config"
         /\ req = "link_down" => npc = "check"
         /\ req = "down" => npc = "clear" /\ conf = "dhcp"
         /\ req = "clear" => npc = "stop" /\ conf = "dhcp"
         /\ req = "addr" => npc = "bring_up" /\ conf # "dhcp"
         /\ req \in {"seek", "off"} => npc = "end" /\ conf = "dhcp"
         /\ req = "up" => npc = "end" /\ conf # "dhcp"
  BY DEF Control, Requests, DhcpRequests, StaticRequests

LEMMA LateStays == [Next]_vars => (late => late')
  BY DEF ifVars, seenVars, netVars, Next, Associate, Use, Proceed, GiveUp, DhcpTurn, Take, TcpipStep,
         SetFlag, SetAddr, SetDhcp, SetLink, Acknowledge, Serve, Process, Connected, Config, BringUp,
         Disconnected, Check, Clear, Stop, End, Up, Address, Down, Other, Leave, Ask, vars

LEMMA InterfaceNext ==
  ASSUME TypeOK, Control, Interface, [Next]_vars
  PROVE  Interface'
<1> USE DEF ifVars, seenVars, netVars
<1>0. /\ conf \in Confs /\ npc \in Places /\ {late, up, addr} \subseteq BOOLEAN
      /\ dhcp \in DhcpStates \cup {"none"} /\ todo \in Seq(Steps)
  BY DEF TypeOK
<1>a. late => late'
  BY LateStays
<1>1. CASE UNCHANGED <<late, up, addr, todo, dhcp, conf, npc, req>>
  BY <1>1 DEF Interface, InStop
<1>2. CASE late
  BY <1>2, <1>a DEF Interface
<1>3. CASE DhcpTurn /\ ~late
  <2>1. PICK p \in Turns[dhcp] : todo' = p /\ (late' = (late \/ (p = Bind /\ Stopping)))
        /\ UNCHANGED <<conf, req, npc, dhcp, up, addr>>
    BY <1>3 DEF DhcpTurn
  <2>2. dhcp \notin {"none", "off"} /\ (p \in BindTodos => p = Bind) /\ conf = "dhcp"
    BY <1>0, <2>1, TurnTodo DEF Control, Confs
  <2>3. p \in {Bind, Nak, Release, <<"request">>, <<"check">>, <<"renew">>, <<"seek">>}
    BY <1>0, TurnsOf DEF DhcpStates
  <2>4. p \notin {<<"up", "bound">>, <<"clear", "seek">>, <<"ack">>}
    BY <2>3, NotOthers
  <2>5. todo = <<>> /\ todo # <<"ack">>
    BY <1>3 DEF DhcpTurn, TcpipFree
  <2>6. InStop' = InStop /\ (InStop => Stopping)
    BY <2>1, <2>4, <2>5 DEF InStop, Stopping
  <2> QED BY <1>3, <2>1, <2>2, <2>4, <2>6 DEF Interface, Control
<1>4. CASE Take /\ ~late
  <2>1. todo = <<>> /\ todo' = <<req, "ack">> /\ req # "none"
        /\ UNCHANGED <<late, up, addr, dhcp, conf, npc, req>>
    BY <1>4 DEF Take, TcpipFree
  <2>2. todo' \notin BindTodos /\ todo' \notin {<<"up", "bound">>, <<"clear", "seek">>, Nak, <<"ack">>}
        /\ todo \notin {Nak, <<"ack">>}
    BY <2>1, NotBind, NotOthers
  <2>3. InStop' = InStop
    BY <2>1, <2>2 DEF InStop
  <2> QED BY <1>4, <2>1, <2>2, <2>3 DEF Interface
<1>5. CASE TcpipStep /\ ~late
  <2>0. todo # <<>>
    BY <1>5 DEF TcpipStep, SetFlag, SetAddr, SetLink, SetDhcp, Acknowledge, Doing
  <2>a. UNCHANGED <<conf, npc, late>>
    BY <1>5 DEF TcpipStep, SetFlag, SetAddr, SetLink, SetDhcp, Acknowledge
  <2>1. CASE SetFlag("up", TRUE)
    <3>1. UNCHANGED <<req, dhcp, addr>> /\ up' = TRUE /\ Head(todo) = "up" /\ todo' = Tail(todo)
      BY <2>1 DEF SetFlag, Doing
    <3>2. CASE todo = <<"up", "bound">> /\ todo' = <<"bound">>
      <4>1. todo \in BindTodos /\ todo' # <<"ack">>
            /\ todo' \notin {<<"up", "bound">>, <<"clear", "seek">>}
        BY <3>2, NotOthers DEF BindTodos
      <4>2. addr /\ ~InStop /\ dhcp \notin {"none", "off"}
        BY <1>5, <3>2, <4>1 DEF Interface, Control
      <4>3. ~InStop'
        BY <2>a, <3>1, <4>1, <4>2 DEF InStop
      <4> QED BY <2>a, <3>1, <4>1, <4>2, <4>3 DEF Interface
    <3>3. CASE req = "up" /\ todo' = <<"ack">>
      <4>1. addr /\ npc = "end" /\ conf # "dhcp"
        BY <1>5, <3>3, Pairs DEF Interface
      <4>2. ~InStop'
        BY <2>a, <3>1, <3>3, <4>1 DEF InStop
      <4> QED BY <2>a, <3>1, <3>3, <4>1, <4>2, NotOthers DEF Interface
    <3> QED BY <2>0, <3>1, <3>2, <3>3, Heads
  <2>2. CASE SetFlag("down", FALSE)
    <3>1. UNCHANGED <<req, dhcp, addr>> /\ up' = FALSE /\ Head(todo) = "down" /\ todo' = Tail(todo)
      BY <2>2 DEF SetFlag, Doing
    <3>2. \/ todo' = <<"clear", "seek">> /\ conf = "dhcp"
          \/ req = "link_up" /\ todo' = <<"reboot", "ack">>
          \/ req = "down" /\ todo' = <<"ack">>
      <4>1. todo = Nak => conf = "dhcp"
        BY <1>0, <2>0 DEF Control, Confs, TurnTodos
      <4>2. \/ todo = Nak /\ Tail(todo) = <<"clear", "seek">>
            \/ req = "link_up" /\ Tail(todo) = <<"reboot", "ack">>
            \/ req = "down" /\ Tail(todo) = <<"ack">>
        BY <2>0, <3>1, Heads
      <4> QED BY <3>1, <4>1, <4>2
    <3>3. todo' \notin BindTodos /\ todo' # <<"up", "bound">>
      BY <3>2, NotBind, NotOthers
    <3>4. npc = "bring_up" /\ (req = "none" \/ todo' = <<"ack">>) => addr
      BY <1>5, <3>2, NotOthers, Pairs DEF Interface, Control
    <3>5. req = "up" => addr
      BY <1>5 DEF Interface
    <3> QED BY <2>a, <3>1, <3>3, <3>4, <3>5 DEF Interface
  <2>3. CASE SetAddr("addr", TRUE)
    <3>1. UNCHANGED <<req, dhcp, up>> /\ addr' = TRUE /\ Head(todo) = "addr" /\ todo' = Tail(todo)
      BY <2>3 DEF SetAddr, Doing
    <3>2. CASE todo = Bind /\ todo' = <<"up", "bound">>
      <4>1. todo \in BindTodos
        BY <3>2 DEF BindTodos
      <4>2. ~InStop /\ dhcp \notin {"none", "off"}
        BY <1>5, <4>1 DEF Interface, Control
      <4>3. ~InStop' /\ todo' # <<"clear", "seek">>
        BY <2>a, <3>1, <3>2, <4>2, NotOthers DEF InStop
      <4> QED BY <2>a, <3>1, <4>2, <4>3 DEF Interface
    <3>3. CASE req = "addr" /\ todo' = <<"ack">>
      <4>1. npc = "bring_up" /\ conf # "dhcp"
        BY <3>3, Pairs
      <4>2. ~InStop' /\ todo' # <<"clear", "seek">>
        BY <2>a, <3>1, <3>3, <4>1, NotOthers DEF InStop
      <4> QED BY <2>a, <3>1, <4>1, <4>2 DEF Interface
    <3> QED BY <2>0, <3>1, <3>2, <3>3, Heads
  <2>4. CASE SetAddr("clear", FALSE)
    <3>1. UNCHANGED <<req, dhcp, up>> /\ Head(todo) = "clear" /\ todo' = Tail(todo)
      BY <2>4 DEF SetAddr, Doing
    <3>2. \/ todo = <<"clear", "seek">> /\ todo' = <<"seek">> /\ conf = "dhcp"
          \/ req = "clear" /\ todo' = <<"ack">>
      <4>1. todo = <<"clear", "seek">> => conf = "dhcp"
        BY <1>0, <2>0 DEF Control, Confs, TurnTodos
      <4> QED BY <2>0, <3>1, <4>1, Heads
    <3>3. ~up
      BY <1>5, <3>2, Pairs DEF Interface, InStop
    <3>4. todo' \notin BindTodos /\ todo' # <<"up", "bound">>
      BY <3>2, NotBind, NotOthers
    <3>5. req # "up" /\ npc # "bring_up"
      BY <3>2, Pairs DEF Control
    <3> QED BY <2>a, <3>1, <3>3, <3>4, <3>5 DEF Interface
  <2>5. CASE SetLink("link_up", TRUE) \/ SetLink("link_down", FALSE)
    <3>1. UNCHANGED <<req, dhcp, up, addr>> /\ Head(todo) \in {"link_up", "link_down"}
          /\ (todo' = Tail(todo) \/ todo' = Changed \o Tail(todo))
      BY <2>5 DEF SetLink, Doing
    <3>2. req \in {"link_up", "link_down"} /\ todo = <<req, "ack">> /\ Tail(todo) = <<"ack">>
      BY <2>0, <3>1, Heads
    <3>3. todo' \in {<<"ack">>, <<"down", "reboot", "ack">>, <<"seek", "ack">>}
      BY <3>1, <3>2, Concats DEF Changed
    <3>4. todo' \notin BindTodos /\ todo' \notin {<<"up", "bound">>, <<"clear", "seek">>} /\ todo # Nak
      BY <3>2, <3>3, NotBind, NotOthers
    <3>5. ~InStop' /\ npc # "bring_up"
      BY <2>a, <3>1, <3>2, Pairs DEF InStop
    <3> QED BY <1>5, <2>a, <3>1, <3>2, <3>4, <3>5 DEF Interface
  <2>6. CASE SetDhcp
    <3>1. PICK s \in DhcpStates : /\ Head(todo) = s
                                  /\ dhcp' = IF s = "off" /\ dhcp = "none" THEN "none" ELSE s
      BY <2>6 DEF SetDhcp, Doing
    <3>2. UNCHANGED <<req, up, addr>> /\ todo' = Tail(todo)
      BY <2>6 DEF SetDhcp
    <3>3. CASE s # "off" /\ todo' = <<>>
      <4>1. todo' \notin BindTodos /\ todo' \notin {<<"ack">>, <<"up", "bound">>, <<"clear", "seek">>}
        BY <3>3, NotBind, NotOthers
      <4>2. InStop' => InStop
        BY <2>a, <3>2, <4>1 DEF InStop
      <4>3. dhcp' \notin {"none", "off"}
        BY <3>1, <3>3 DEF DhcpStates
      <4> QED BY <1>5, <2>a, <3>2, <4>1, <4>2, <4>3 DEF Interface
    <3>4. CASE todo' = Nak
      <4>1. todo' \notin BindTodos /\ todo' \notin {<<"ack">>, <<"up", "bound">>, <<"clear", "seek">>}
        BY <3>4, NotBind, NotOthers
      <4>2. InStop' => InStop
        BY <2>a, <3>2, <4>1 DEF InStop
      <4> QED BY <1>5, <2>a, <3>2, <3>4, <4>1, <4>2 DEF Interface
    <3>5. CASE /\ \/ s = req /\ req \in {"seek", "off"}
                  \/ s \in {"reboot", "seek"} /\ req = "link_up"
               /\ todo' = <<"ack">>
      <4>1. todo' \notin BindTodos /\ todo' \notin {<<"up", "bound">>, <<"clear", "seek">>}
            /\ npc \in {"end", "config"}
        BY <3>5, NotBind, NotOthers, Pairs
      <4>2. InStop' => InStop
        BY <2>a, <3>2, <4>1 DEF InStop
      <4>3. s = "off" => ~up
        BY <1>5, <3>5 DEF Interface, InStop
      <4>4. dhcp' \in {"none", "off"} => s = "off"
        BY <3>1 DEF DhcpStates
      <4>5. UNCHANGED <<late, up, addr, conf, npc, req>> /\ npc # "bring_up"
        BY <2>a, <3>2, <4>1
      <4> QED BY <1>5, <4>1, <4>2, <4>3, <4>4, <4>5 DEF Interface
    <3> QED BY <2>0, <3>1, <3>2, <3>3, <3>4, <3>5, Heads
  <2>7. CASE Acknowledge
    <3>1. todo = <<"ack">> /\ todo' = <<>> /\ req' = "none" /\ UNCHANGED <<dhcp, up, addr>>
      BY <2>0, <2>7, Heads DEF Acknowledge, Doing
    <3>2. todo' \notin BindTodos /\ todo' \notin {<<"up", "bound">>, <<"clear", "seek">>} /\ todo # Nak
      BY <3>1, NotBind, NotOthers
    <3>3. InStop' => InStop
      BY <2>a, <3>1 DEF InStop
    <3> QED BY <1>5, <2>a, <3>1, <3>2, <3>3 DEF Interface
  <2> QED BY <1>5, <2>1, <2>2, <2>3, <2>4, <2>5, <2>6, <2>7 DEF TcpipStep
<1>6. CASE Process /\ ~late
  <2>0. req = "none" /\ todo \in TurnTodos /\ todo # <<"ack">>
    <3>1. req = "none"
      BY <1>6 DEF Process, Connected, Config, BringUp, Disconnected, Check, Clear, Stop, End,
                  Up, Address, Down, Other, At
    <3> QED BY <3>1, NotTurn DEF Control
  <2>1. UNCHANGED <<late, up, addr, todo, dhcp, conf>>
    BY <1>6 DEF Process, Connected, Config, BringUp, Disconnected, Check, Clear, Stop, End,
                Up, Address, Down, Other, Leave, Ask
  <2>2. \/ req' = "none" /\ npc' \in {"idle", "check", "end", "address"}
        \/ req' \notin {"none", "off", "up"} /\ npc' \notin {"stop"}
        \/ npc = "clear" /\ req' = "clear" /\ npc' = "stop"
        \/ npc = "stop" /\ req' = "off" /\ npc' = "end"
        \/ npc = "bring_up" /\ req' = "up" /\ npc' = "end"
    BY <1>6, <2>0 DEF Process, Connected, Config, BringUp, Disconnected, Check, Clear, Stop, End,
                Up, Address, Down, Other, Leave, Ask, At
  <2>3. InStop' => InStop
    BY <2>0, <2>1, <2>2 DEF InStop
  <2>4. npc' = "bring_up" /\ (req' = "none" \/ todo' = <<"ack">>) => addr'
    BY <2>0, <2>1, <2>2
  <2>5. req' = "up" => addr'
    BY <1>6, <2>0, <2>1, <2>2 DEF Interface
  <2> QED BY <1>6, <2>1, <2>3, <2>4, <2>5 DEF Interface
<1>7. CASE Associate \/ (\E a \in Apps[conf] : Use(a))
  BY <1>1, <1>7 DEF Associate, Use
<1>8. CASE (\E t \in Threads : Proceed(t) \/ GiveUp(t)) \/ Serve \/ UNCHANGED vars
  BY <1>1, <1>8 DEF Proceed, GiveUp, Serve, vars
<1> QED BY <1>0, <1>2, <1>3, <1>4, <1>5, <1>6, <1>7, <1>8 DEF Next

LEMMA LinkedNext ==
  ASSUME TypeOK, Control, Interface, Linked, [Next]_vars
  PROVE  Linked'
<1> USE DEF ifVars, seenVars, netVars
<1>0. /\ conf \in Confs /\ npc \in Places /\ {late, up, addr, link} \subseteq BOOLEAN
      /\ dhcp \in DhcpStates \cup {"none"} /\ todo \in Seq(Steps)
  BY DEF TypeOK
<1>1. CASE UNCHANGED <<late, link, todo, dhcp, conf, npc, req>>
  BY <1>1 DEF Linked
<1>2. CASE DhcpTurn
  <2>1. PICK p \in Turns[dhcp] : todo' = p /\ (late => late') /\ UNCHANGED <<conf, req, npc, dhcp, link>>
    BY <1>0, <1>2 DEF DhcpTurn
  <2>2. p \in {Bind, Nak, Release, <<"request">>, <<"check">>, <<"renew">>, <<"seek">>}
        /\ p \in TurnTodos \ {<<>>}
    BY <1>0, TurnsOf, TurnTodo DEF DhcpStates
  <2>3. todo = <<>> /\ todo \in TurnTodos /\ todo' # <<"ack">> /\ todo' # <<>>
    BY <1>2, <2>1, <2>2, NotOthers DEF DhcpTurn, TcpipFree, TurnTodos
  <2> QED BY <2>1, <2>3 DEF Linked
<1>3. CASE Take
  <2>1. todo = <<>> /\ todo' = <<req, "ack">> /\ todo \in TurnTodos
        /\ UNCHANGED <<late, link, dhcp, conf, npc, req>>
    BY <1>3 DEF Take, TcpipFree, TurnTodos
  <2>2. todo' \notin {<<"ack">>, <<>>}
    BY <2>1, NotOthers
  <2> QED BY <2>1, <2>2 DEF Linked
<1>4. CASE TcpipStep
  <2>0. todo # <<>>
    BY <1>4 DEF TcpipStep, SetFlag, SetAddr, SetLink, SetDhcp, Acknowledge, Doing
  <2>a. UNCHANGED <<conf, npc, late>>
    BY <1>4 DEF TcpipStep, SetFlag, SetAddr, SetLink, SetDhcp, Acknowledge
  <2>1. CASE (\E s \in {"up", "down"}, on \in BOOLEAN : SetFlag(s, on))
             \/ (\E s \in {"addr", "clear"}, to \in BOOLEAN : SetAddr(s, to))
    <3>1. UNCHANGED <<req, dhcp, link>> /\ Head(todo) \in {"up", "down", "addr", "clear"}
          /\ todo' = Tail(todo)
      BY <2>1 DEF SetFlag, SetAddr, Doing
    <3>2. \/ /\ todo \in TurnTodos
             /\ todo' \in {<<"bound">>, <<"up", "bound">>, <<"clear", "seek">>, <<"seek">>}
          \/ req = "link_up" /\ todo' = <<"reboot", "ack">>
          \/ req \in {"up", "down", "addr", "clear"} /\ todo' = <<"ack">>
      BY <2>0, <3>1, Heads DEF TurnTodos, BindTodos
    <3>3. CASE /\ todo \in TurnTodos
               /\ todo' \in {<<"bound">>, <<"up", "bound">>, <<"clear", "seek">>, <<"seek">>}
      <4>1. todo' \notin {<<"ack">>, <<>>}
        BY <3>3, NotOthers, Tuples
      <4> QED BY <2>a, <3>1, <3>3, <4>1 DEF Linked
    <3>4. CASE req = "link_up" /\ todo' = <<"reboot", "ack">>
      <4>1. todo' \notin {<<"ack">>, <<>>, <<"link_up", "ack">>} /\ todo' \notin TurnTodos /\ npc = "config"
        BY <3>4, NotOthers, NotTurn, Pairs
      <4> QED BY <2>a, <3>1, <4>1 DEF Linked
    <3>5. CASE req \in {"up", "down", "addr", "clear"} /\ todo' = <<"ack">>
      <4>1. npc # "check" /\ req \notin {"link_up", "off"}
            /\ (conf = "dhcp" => npc \in {"clear", "stop"})
        BY <3>5, Pairs
      <4> QED BY <2>a, <3>1, <3>5, <4>1 DEF Linked
    <3> QED BY <3>2, <3>3, <3>4, <3>5
  <2>2. CASE SetLink("link_up", TRUE)
    <3>1. UNCHANGED <<req, dhcp>> /\ Head(todo) = "link_up"
          /\ (todo' = Tail(todo) \/ todo' = Changed \o Tail(todo))
      BY <2>2 DEF SetLink, Doing
    <3>2. req = "link_up" /\ npc = "config" /\ Tail(todo) = <<"ack">>
      BY <2>0, <3>1, Heads, Pairs
    <3>3. todo' \in {<<"ack">>, <<"down", "reboot", "ack">>, <<"seek", "ack">>}
      BY <3>1, <3>2, Concats DEF Changed
    <3>4. todo' # <<"link_up", "ack">> /\ todo' \notin TurnTodos
      BY <3>3, NotTurn, NotOthers
    <3> QED BY <2>a, <3>1, <3>2, <3>4 DEF Linked
  <2>3. CASE SetLink("link_down", FALSE)
    <3>1. link' = FALSE
      BY <2>3 DEF SetLink
    <3> QED BY <3>1 DEF Linked
  <2>4. CASE SetDhcp
    <3>1. PICK s \in DhcpStates : /\ Head(todo) = s
                                  /\ dhcp' = IF s = "off" /\ dhcp = "none" THEN "none" ELSE s
      BY <2>4 DEF SetDhcp, Doing
    <3>2. UNCHANGED <<req, link>> /\ todo' = Tail(todo)
      BY <2>4 DEF SetDhcp
    <3>a. s # "off" => dhcp' \notin {"none", "off"}
      BY <3>1 DEF DhcpStates
    <3>3. CASE s # "off" /\ todo = <<s>> /\ todo' = <<>> /\ todo \in TurnTodos
      <4>1. todo' # <<"ack">>
        BY <3>3, NotOthers
      <4> QED BY <2>a, <3>2, <3>3, <3>a, <4>1 DEF Linked
    <3>4. CASE todo = Release /\ todo' = Nak
      <4>1. todo \in TurnTodos /\ todo' \notin {<<"ack">>, <<>>}
        BY <3>4, NotOthers, Tuples DEF TurnTodos, Nak
      <4> QED BY <2>a, <3>2, <4>1 DEF Linked
    <3>5. CASE /\ \/ s = req /\ req \in {"seek", "off"}
                  \/ s \in {"reboot", "seek"} /\ req = "link_up"
               /\ todo' = <<"ack">>
      <4>1. todo' # <<"link_up", "ack">> /\ todo' \notin TurnTodos /\ npc \in {"end", "config"}
        BY <3>5, NotTurn, NotOthers, Pairs
      <4>2. s = "off" => ~link
        BY <3>5 DEF Linked
      <4> QED BY <2>a, <3>2, <3>5, <3>a, <4>1, <4>2 DEF Linked
    <3>6. \/ s # "off" /\ todo = <<s>> /\ todo' = <<>> /\ todo \in TurnTodos
          \/ todo = Release /\ todo' = Nak
          \/ /\ \/ s = req /\ req \in {"seek", "off"}
                \/ s \in {"reboot", "seek"} /\ req = "link_up"
             /\ todo' = <<"ack">>
      BY <2>0, <3>1, <3>2, Heads DEF TurnTodos, BindTodos
    <3> QED BY <3>3, <3>4, <3>5, <3>6
  <2>5. CASE Acknowledge
    <3>1. todo = <<"ack">> /\ todo' = <<>> /\ req' = "none" /\ UNCHANGED <<dhcp, link>> /\ todo # <<>>
      BY <2>0, <2>5, Heads DEF Acknowledge, Doing
    <3>2. npc \in {"clear", "stop"} => ~link
      BY DEF Linked
    <3> QED BY <2>a, <3>1, <3>2 DEF Linked
  <2> QED BY <1>4, <2>1, <2>2, <2>3, <2>4, <2>5 DEF TcpipStep
<1>5. CASE Process
  <2>0. req = "none" /\ todo \in TurnTodos /\ todo # <<"ack">>
    <3>1. req = "none"
      BY <1>5 DEF Process, Connected, Config, BringUp, Disconnected, Check, Clear, Stop, End,
                  Up, Address, Down, Other, At
    <3> QED BY <3>1, NotTurn DEF Control
  <2>1. UNCHANGED <<late, link, todo, dhcp, conf>>
    BY <1>5 DEF Process, Connected, Config, BringUp, Disconnected, Check, Clear, Stop, End,
                Up, Address, Down, Other, Leave, Ask
  <2>2. CASE Config
    <3>1. \/ req' = "seek" /\ npc' = "end"
          \/ conf = "static" /\ req' \in {"none", "addr"} /\ npc' \in {"end", "bring_up"}
          \/ conf = "dhcp" /\ req' = "none" /\ npc' = "idle" /\ (Valid \/ dhcp \notin {"none", "off"})
      BY <2>0, <2>2 DEF Config, Leave, Ask
    <3>2. Valid /\ ~late /\ todo = <<>> /\ conf = "dhcp" => dhcp \notin {"none", "off"}
      BY NotOthers DEF Interface, Valid
    <3> QED BY <2>0, <2>1, <3>1, <3>2 DEF Linked
  <2>3. CASE Connected
    <3>1. \/ ~link /\ req' = "link_up" /\ npc' = "config"
          \/ npc = "idle" /\ req' = "none" /\ npc' = "idle"
      BY <2>0, <2>3 DEF Connected, Leave, Ask, At
    <3> QED BY <2>0, <2>1, <3>1 DEF Linked
  <2>4. CASE Disconnected
    <3>1. /\ npc = "idle" /\ npc' = "check"
          /\ \/ link /\ req' = "link_down"
             \/ ~link /\ req' = "none"
      BY <2>0, <2>4 DEF Disconnected, Ask, At
    <3> QED BY <2>0, <2>1, <3>1 DEF Linked
  <2>5. CASE Check \/ Clear \/ Stop
    <3>1. \/ npc = "check" /\ req' = "none" /\ npc' = "idle"
          \/ npc \in {"check", "clear", "stop"} /\ req' \in {"down", "clear", "off"}
             /\ npc' \in {"clear", "stop", "end"}
      BY <2>0, <2>5 DEF Check, Clear, Stop, Leave, Ask, At
    <3> QED BY <2>0, <2>1, <3>1 DEF Linked
  <2>6. CASE BringUp \/ End \/ Up \/ Address \/ Down \/ Other
    <3>1. npc \in {"bring_up", "end", "idle", "address"} /\ req' \in {"up", "none"}
          /\ npc' \in {"idle", "address", "end"}
      BY <2>0, <2>6 DEF BringUp, End, Up, Address, Down, Other, Leave, Ask, At
    <3> QED BY <2>0, <2>1, <3>1 DEF Linked
  <2> QED BY <1>5, <2>2, <2>3, <2>4, <2>5, <2>6 DEF Process
<1>6. CASE Associate \/ (\E a \in Apps[conf] : Use(a))
  BY <1>1, <1>6 DEF Associate, Use
<1>7. CASE (\E t \in Threads : Proceed(t) \/ GiveUp(t)) \/ Serve \/ UNCHANGED vars
  BY <1>1, <1>7 DEF Proceed, GiveUp, Serve, vars
<1> QED BY <1>2, <1>3, <1>4, <1>5, <1>6, <1>7 DEF Next

LEMMA NetInvInit == Init => Control /\ Interface /\ Linked
<1> SUFFICES ASSUME Init PROVE Control /\ Interface /\ Linked
  OBVIOUS
<1>1. todo = <<>> /\ todo \in TurnTodos /\ todo \notin BindTodos
      /\ todo \notin {Nak, <<"ack">>, <<"up", "bound">>, <<"clear", "seek">>, <<"link_up", "ack">>}
  BY NotBind, NotOthers DEF Init, TurnTodos
<1>2. stage = "recv" /\ ~late /\ req = "none" /\ npc = "idle" /\ dhcp = "none" /\ ~up /\ ~link
  BY DEF Init, SysInit
<1> QED BY <1>1, <1>2 DEF Control, Interface, Linked, InStop

LEMMA ControlAlways == Spec => [](TypeOK /\ Control /\ Interface /\ Linked)
<1>1. TypeOK /\ Control /\ Interface /\ Linked /\ [Next]_vars
        => (TypeOK /\ Control /\ Interface /\ Linked)'
  BY TypeOKNext, ControlNext, InterfaceNext, LinkedNext
<1> QED BY <1>1, TypeOKInit, NetInvInit, PTL DEF Spec

\* However the driver's events, DHCP and the looper interleave, a connected
\* station that uses DHCP is never left with its client off, but for the lease
\* that is bound while the client is being stopped.
THEOREM ClientKeptRunning == Spec => []ClientRuns
<1>1. TypeOK /\ Control /\ Linked => ClientRuns
  <2> SUFFICES ASSUME TypeOK, Control, Linked, link, conf = "dhcp", stage = "recv", todo = <<>>, ~late
               PROVE  dhcp \notin {"none", "off"}
    BY DEF ClientRuns
  <2>1. npc = "idle"
    BY DEF Control
  <2>2. req = "none"
    BY <2>1 DEF Control, Requests, DhcpRequests, StaticRequests
  <2> QED BY <2>1, <2>2 DEF Linked
<1> QED BY <1>1, ControlAlways, PTL

-----------------------------------------------------------------------------
(* Statuses *)

Quiet == UNCHANGED <<Valid, told, seen, drv, stale>>

\* A thread tells the others what the interface has become.
Tells(t) ==
  /\ StatusCallback(t, Valid')
  /\ UNCHANGED <<conf, req, told, seen>>
  /\ \/ t = Tcpip /\ npc' = npc /\ (conf = "static" => req # "none")
     \/ t = Looper /\ conf = "static" /\ At("config") /\ npc' = "end" /\ Valid' = Valid

\* What a step is to the status of the interface.
Move ==
  \/ Tells(Tcpip) \/ Tells(Looper)
  \/ /\ Quiet /\ UNCHANGED <<conf, req, npc>>
     /\ \E t \in Threads, m \in Message, how \in {"try", "insist"} :
          ~IsStatus(m) /\ Send(t, m, how)
  \/ /\ Quiet /\ UNCHANGED <<conf, req, npc>>
     /\ Receive \/ Execute \/ Destruct \/ \E t \in Threads : Queued(t) \/ Finished(t) \/ TimedOut(t)
  \/ Quiet /\ Notified /\ At(npc) /\ ~IsStatus(msg) /\ npc # "address" /\ npc' = "idle"
  \/ Up \/ Address \/ Down
  \/ /\ Quiet /\ UNCHANGED <<sysVars, conf>>
     /\ \/ npc' = npc /\ (req' = req \/ req' = "none")
        \/ At(npc) /\ npc # "address" /\ npc' # "address"

\* The address is set and cleared only while the interface is down, or stays.
LEMMA SetAddrQuiet ==
  ASSUME TypeOK, Control, Interface, ~late, SetAddr("addr", TRUE) \/ SetAddr("clear", FALSE)
  PROVE  Valid' = Valid
<1>0. todo # <<>> /\ up' = up /\ up \in BOOLEAN /\ addr \in BOOLEAN
  BY DEF SetAddr, Doing, TypeOK
<1>1. CASE SetAddr("addr", TRUE)
  <2>1. up => addr
    BY DEF Interface
  <2>2. addr' = TRUE
    BY <1>1 DEF SetAddr
  <2> QED BY <1>0, <2>1, <2>2 DEF Valid
<1>2. CASE SetAddr("clear", FALSE)
  <2>1. Head(todo) = "clear"
    BY <1>2 DEF SetAddr, Doing
  <2>2. todo = <<"clear", "seek">> \/ req = "clear"
    BY <1>0, <2>1, Heads
  <2>3. ~up
    BY <2>2, Pairs DEF Interface, InStop
  <2> QED BY <1>0, <2>3 DEF Valid
<1> QED BY <1>1, <1>2

LEMMA Moves ==
  ASSUME TypeOK, Control, Interface, ~late, [Next]_vars
  PROVE  Move
<1> USE DEF ifVars, seenVars, netVars
<1>0. /\ {late, up, addr} \subseteq BOOLEAN /\ Valid \in BOOLEAN /\ conf \in Confs
      /\ {Driver, Tcpip, Looper} \subseteq Threads
  BY NetCtrlAssumption, SysCtrlAssumption DEF TypeOK, Valid
<1>1. CASE Associate
  <2>1. PICK e \in {"connected", "disconnected"} : Send(Driver, Event(e, Driver), "insist")
    BY <1>1 DEF Associate
  <2>2. Event(e, Driver) \in Message /\ ~IsStatus(Event(e, Driver))
    <3>1. Event(e, Driver) \in Message
      BY <1>0, EventOK DEF NetEvents
    <3> QED BY <3>1 DEF IsStatus, Event
  <2>3. Quiet /\ UNCHANGED <<conf, req, npc>>
    BY <1>1 DEF Associate, Quiet, Valid
  <2> QED BY <1>0, <2>1, <2>2, <2>3 DEF Move
<1>2. ASSUME NEW a \in Apps[conf], Use(a) PROVE Move
  <2>0. a \in Threads
    BY NetCtrlAssumption, <1>0
  <2>1. Quiet /\ UNCHANGED <<conf, req, npc>>
    BY <1>2 DEF Use, Quiet, Valid
  <2>2. ASSUME NEW fin \in BOOLEAN, NEW run \in BOOLEAN, NEW how \in {"try", "insist"},
               Send(a, [ev |-> "other", run |-> run, finish |-> fin, by |-> a], how)
        PROVE Move
    <3> DEFINE m == [ev |-> "other", run |-> run, finish |-> fin, by |-> a]
    <3>1. m \in Message /\ ~IsStatus(m)
      BY <2>0, NetCtrlAssumption DEF IsStatus, Message, NetEvents
    <3>2. Send(a, m, how)
      BY <2>2
    <3> HIDE DEF m
    <3> QED BY <2>0, <2>1, <3>1, <3>2 DEF Move
  <2> QED BY <1>2, <2>2 DEF Use, Event
<1>3. ASSUME NEW t \in Threads, Proceed(t) \/ GiveUp(t) PROVE Move
  <2>1. Quiet /\ UNCHANGED <<conf, req, npc>>
    BY <1>3 DEF Proceed, GiveUp, Quiet, Valid
  <2> QED BY <1>3, <2>1 DEF Proceed, GiveUp, Move
<1>4. CASE DhcpTurn \/ Take
  BY <1>4 DEF DhcpTurn, Take, Quiet, Valid, Move
<1>5. CASE TcpipStep
  <2>1. ASSUME NEW s \in {"up", "down"}, NEW on \in BOOLEAN, SetFlag(s, on) PROVE Move
    <3>1. UNCHANGED <<conf, req, npc, seen, told, addr>> /\ up' = on
      BY <2>1 DEF SetFlag
    <3>2. CASE up = on /\ UNCHANGED <<sysVars, drv, stale>>
      <4>1. Quiet
        BY <3>1, <3>2 DEF Quiet, Valid
      <4> QED BY <3>1, <3>2, <4>1 DEF Move
    <3>3. CASE StatusCallback(Tcpip, on /\ addr)
      <4>1. Valid' = (on /\ addr)
        BY <3>1 DEF Valid
      <4>2. conf = "static" => req # "none"
        <5>1. todo # <<>>
          BY <2>1 DEF SetFlag, Doing
        <5> QED BY <5>1, NotTurn DEF Control
      <4>3. Tells(Tcpip)
        BY <3>1, <3>3, <4>1, <4>2 DEF Tells
      <4> QED BY <4>3 DEF Move
    <3> QED BY <2>1, <3>2, <3>3 DEF SetFlag
  <2>2. CASE SetAddr("addr", TRUE) \/ SetAddr("clear", FALSE)
    <3>1. Valid' = Valid
      BY <2>2, SetAddrQuiet
    <3> QED BY <2>2, <3>1 DEF SetAddr, Quiet, Move
  <2>3. CASE SetLink("link_up", TRUE) \/ SetLink("link_down", FALSE) \/ SetDhcp \/ Acknowledge
    BY <2>3 DEF SetLink, SetDhcp, Acknowledge, Quiet, Valid, Move
  <2> QED BY <1>5, <2>1, <2>2, <2>3 DEF TcpipStep
<1>6. CASE Serve
  <2>1. Quiet /\ UNCHANGED <<conf, req, npc>>
    BY <1>6 DEF Serve, Quiet, Valid
  <2> QED BY <1>6, <2>1 DEF Serve, Move
<1>7. CASE Process
  <2>1. ASSUME Leave, At(npc), npc # "address", ~IsStatus(msg) PROVE Move
    BY <2>1 DEF Leave, Quiet, Valid, Move
  <2>2. ASSUME NEW r, NEW p, Ask(r, p), At(npc), npc # "address", p # "address" PROVE Move
    BY <2>2 DEF Ask, Quiet, Valid, Move
  <2>3. msg.ev \in {"connected", "disconnected", "other"} \/ msg.ev \notin NetEvents => ~IsStatus(msg)
    BY DEF IsStatus, NetEvents
  <2>4. CASE Connected \/ Disconnected
    <3>1. At(npc) /\ npc # "address" /\ ~IsStatus(msg)
      BY <2>3, <2>4 DEF Connected, Disconnected, At
    <3>2. CASE npc' = "check" /\ UNCHANGED <<sysVars, conf, wlan, ifVars, todo, req, seen, seenVars>>
      BY <3>1, <3>2 DEF Quiet, Valid, Move
    <3>3. Leave \/ Ask("link_up", "config") \/ Ask("link_down", "check")
          \/ (npc' = "check" /\ UNCHANGED <<sysVars, conf, wlan, ifVars, todo, req, seen, seenVars>>)
      BY <2>4 DEF Connected, Disconnected
    <3> QED BY <2>1, <2>2, <3>1, <3>2, <3>3
  <2>5. CASE Config
    <3>1. At(npc) /\ npc # "address" /\ ~IsStatus(msg) /\ At("config")
      BY <2>3, <2>5 DEF Config, At, Control
    <3>2. CASE /\ conf = "static" /\ StatusCallback(Looper, Valid) /\ npc' = "end"
               /\ UNCHANGED <<conf, wlan, ifVars, todo, req, seen, told, late>>
      <4>1. Valid' = Valid
        BY <3>2 DEF Valid
      <4>2. Tells(Looper)
        BY <3>1, <3>2, <4>1 DEF Tells
      <4> QED BY <4>2 DEF Move
    <3>3. Leave \/ Ask("seek", "end") \/ Ask("addr", "bring_up")
          \/ (/\ conf = "static" /\ StatusCallback(Looper, Valid) /\ npc' = "end"
              /\ UNCHANGED <<conf, wlan, ifVars, todo, req, seen, told, late>>)
      BY <2>5 DEF Config
    <3> QED BY <2>1, <2>2, <3>1, <3>2, <3>3
  <2>6. CASE BringUp \/ Check \/ Clear \/ Stop \/ End
    <3>1. At(npc) /\ npc # "address" /\ ~IsStatus(msg)
      BY <2>3, <2>6 DEF BringUp, Check, Clear, Stop, End, At, Control
    <3>2. Leave \/ Ask("up", "end") \/ Ask("down", "clear") \/ Ask("clear", "stop") \/ Ask("off", "end")
      BY <2>6 DEF BringUp, Check, Clear, Stop, End
    <3> QED BY <2>1, <2>2, <3>1, <3>2
  <2>7. CASE Up \/ Address \/ Down
    BY <2>7 DEF Move
  <2>8. CASE Other
    <3>1. At(npc) /\ npc # "address" /\ ~IsStatus(msg)
      BY <2>3, <2>8 DEF Other, At
    <3> QED BY <2>1, <2>8, <3>1 DEF Other
  <2> QED BY <1>7, <2>4, <2>5, <2>6, <2>7, <2>8 DEF Process
<1>8. CASE UNCHANGED vars
  BY <1>8 DEF vars, Quiet, Valid, Move
<1> QED BY <1>1, <1>2, <1>3, <1>4, <1>5, <1>6, <1>7, <1>8 DEF Next

\* A step that leaves the statuses under way as they are.
LEMMA SameStatuses ==
  ASSUME TypeOK, Control, StatusInv, Quiet,
         \A t \in Threads : Sends(t)' = Sends(t),
         \A t \in Threads : Sends(t) => out'[t] = out[t] /\ call'[t] = call[t],
         queue' = queue, Served' = Served, msg' = msg,
         Sends(Looper) => UNCHANGED <<conf, npc, stage>> /\ req' \in {req, "none"},
         npc' = npc \/ (npc # "address" /\ npc' # "address") \/ (~Served /\ npc' # "address")
  PROVE  StatusInv'
<1>1. Sending' = Sending /\ QueuedStatus' = QueuedStatus
  BY DEF Sending, QueuedStatus
<1>2. Senders'
  BY DEF StatusInv, Senders
<1>3. Statuses'
  <2>1. \A t \in Threads : Sends(t)' => (out[t].ev = "up")' = Valid'
    BY DEF StatusInv, Statuses, Quiet
  <2>2. Valid' = Valid /\ told' = told
    BY DEF Quiet
  <2> QED BY <1>1, <2>1, <2>2 DEF StatusInv, Statuses
<1>4. Informed'
  BY <1>1 DEF StatusInv, Informed, Quiet
<1> QED BY <1>2, <1>3, <1>4 DEF StatusInv

LEMMA TellsStatus ==
  ASSUME TypeOK, Control, StatusInv, NEW t \in {Tcpip, Looper}, Tells(t)
  PROVE  StatusInv'
<1>0. t \in Threads /\ Tcpip # Looper /\ call \in [Threads -> Calls]
      /\ out \in [Threads -> Message] /\ Valid' \in BOOLEAN
  BY NetCtrlAssumption, SysCtrlAssumption DEF TypeOK, SysTypeOK, Tells, StatusCallback, Valid
<1> DEFINE m == Event(IF Valid' THEN "up" ELSE "down", t)
<1>1. Send(t, m, "insist") /\ drv' = (Valid' /\ drv) /\ stale' = (Valid' /\ stale)
  BY DEF Tells, StatusCallback
<1>2. IsStatus(m) /\ (m.ev = "up") = Valid'
  BY <1>0 DEF IsStatus, Event
<1> HIDE DEF m
<1>3. /\ call[t] = "idle" /\ call' = [call EXCEPT ![t] = "insist"] /\ out' = [out EXCEPT ![t] = m]
      /\ UNCHANGED <<queue, msg, stage>>
  BY <1>1 DEF Send
<1>4. Sends(t)' /\ out'[t] = m /\ call'[t] = "insist"
  BY <1>0, <1>2, <1>3 DEF Sends
<1>5. \A u \in Threads \ {t} : Sends(u)' = Sends(u) /\ out'[u] = out[u] /\ call'[u] = call[u]
  BY <1>0, <1>3 DEF Sends
<1>6. Sending'
  BY <1>0, <1>4 DEF Sending
<1>7. ASSUME NEW u \in Threads \ {t}, Sends(u) PROVE u # Looper /\ Valid' = Valid
  <2>1. u = Looper => conf = "static" /\ req = "none"
    BY <1>7 DEF StatusInv, Senders
  <2>2. u \in {Tcpip, Looper}
    BY <1>7 DEF StatusInv, Senders
  <2>3. t = Looper
    BY <1>0, <1>7, <2>1, <2>2 DEF Tells
  <2> QED BY <1>0, <2>3, <1>7 DEF Tells
<1>8. Senders'
  <2>1. t = Looper => (conf = "static" /\ req = "none" /\ npc = "end" /\ stage = "notify")'
    BY <1>0, <1>3 DEF Tells, At
  <2> QED BY <1>4, <1>5, <1>7, <2>1 DEF StatusInv, Senders
<1>9. Statuses'
  <2>1. ASSUME NEW u \in Threads, Sends(u)' PROVE (out'[u].ev = "up") = Valid'
    <3>1. CASE u = t
      BY <1>2, <1>4, <3>1
    <3>2. CASE u # t
      <4>1. Sends(u) /\ out'[u] = out[u]
        BY <1>5, <2>1, <3>2
      <4>2. Valid' = Valid
        BY <1>7, <3>2, <4>1
      <4> QED BY <4>1, <4>2 DEF StatusInv, Statuses
    <3> QED BY <3>1, <3>2
  <2> QED BY <1>6, <2>1 DEF Statuses
<1>10. Informed'
  BY <1>1, <1>6 DEF StatusInv, Informed
<1> QED BY <1>8, <1>9, <1>10 DEF StatusInv

LEMMA QueuedStatuses ==
  ASSUME TypeOK, Control, StatusInv, Quiet, UNCHANGED <<conf, req, npc>>,
         NEW t \in Threads, Queued(t)
  PROVE  StatusInv'
<1>0. /\ call \in [Threads -> Calls] /\ out \in [Threads -> Message]
      /\ queue \in Seq(Message) /\ Len(queue) \in Nat
  BY DEF TypeOK, SysTypeOK
<1>1. /\ queue' = Append(queue, out[t]) /\ call[t] \in {"try", "insist"}
      /\ call' = [call EXCEPT ![t] = IF out[t].finish THEN "wait" ELSE "idle"]
      /\ UNCHANGED <<msg, stage, out>>
  BY DEF Queued
<1>2. /\ Len(queue') = Len(queue) + 1 /\ queue'[Len(queue) + 1] = out[t]
      /\ \A i \in 1..Len(queue) : queue'[i] = queue[i]
  BY <1>0, <1>1
<1>3. ~Sends(t)' /\ (Sends(t) <=> IsStatus(out[t]))
  <2>1. call'[t] \in {"wait", "idle"}
    BY <1>0, <1>1
  <2> QED BY <1>1, <2>1 DEF Sends
<1>4. \A u \in Threads \ {t} : Sends(u)' = Sends(u) /\ call'[u] = call[u]
  BY <1>0, <1>1 DEF Sends
<1>5. Sending => Sending' \/ IsStatus(out[t])
  BY <1>3, <1>4 DEF Sending
<1>6. Sending' => Sending
  BY <1>3, <1>4 DEF Sending
<1>7. IsStatus(out[t]) => QueuedStatus'
  BY <1>0, <1>2 DEF QueuedStatus, IsStatus
<1>8. QueuedStatus => QueuedStatus'
  BY <1>0, <1>2 DEF QueuedStatus, IsStatus
<1>9. Valid' = Valid /\ told' = told /\ Served' = Served
  BY <1>1 DEF Quiet, Served, IsStatus
<1>10. Senders'
  BY <1>1, <1>3, <1>4 DEF StatusInv, Senders
<1>11. Statuses'
  <2>1. ASSUME NEW u \in Threads, Sends(u)' PROVE (out'[u].ev = "up") = Valid'
    BY <1>1, <1>3, <1>4, <1>9, <2>1 DEF StatusInv, Statuses
  <2>2. ASSUME ~Sending', NEW i \in 1..Len(queue'), IsStatus(queue'[i]),
               \A j \in i+1..Len(queue') : ~IsStatus(queue'[j])
        PROVE  (queue'[i].ev = "up") = Valid'
    <3>1. CASE i = Len(queue) + 1
      <4>1. queue'[i] = out[t] /\ Sends(t)
        BY <1>2, <1>3, <2>2, <3>1
      <4> QED BY <1>9, <4>1 DEF StatusInv, Statuses
    <3>2. CASE i # Len(queue) + 1
      <4>1. i \in 1..Len(queue) /\ queue'[i] = queue[i]
        BY <1>0, <1>2, <3>2
      <4>2. ~IsStatus(out[t])
        BY <1>0, <1>2, <2>2, <4>1
      <4>3. ~Sending
        BY <1>5, <2>2, <4>2
      <4>4. \A j \in i+1..Len(queue) : ~IsStatus(queue[j])
        BY <1>0, <1>2, <2>2, <4>1
      <4>5. IsStatus(queue[i])
        BY <2>2, <4>1
      <4> QED BY <1>9, <4>1, <4>3, <4>4, <4>5 DEF StatusInv, Statuses
    <3> QED BY <3>1, <3>2
  <2>3. ASSUME ~Sending', ~QueuedStatus'
        PROVE  IF Served' THEN (msg'.ev = "up") = Valid' ELSE told' = Valid'
    BY <1>1, <1>5, <1>7, <1>8, <1>9, <2>3 DEF StatusInv, Statuses
  <2> QED BY <2>1, <2>2, <2>3 DEF Statuses
<1>12. Informed'
  <2>1. Sending \/ QueuedStatus => Sending' \/ QueuedStatus'
    BY <1>5, <1>7, <1>8
  <2> QED BY <1>9, <2>1 DEF StatusInv, Informed, Quiet
<1> QED BY <1>10, <1>11, <1>12 DEF StatusInv

LEMMA ReceiveStatuses ==
  ASSUME TypeOK, Control, StatusInv, Quiet, UNCHANGED <<conf, req, npc>>, Receive
  PROVE  StatusInv'
<1>0. queue \in Seq(Message) /\ queue # <<>> /\ Len(queue) \in Nat \ {0} /\ npc = "idle"
  BY DEF TypeOK, SysTypeOK, Receive, Control
<1>1. /\ msg' = queue[1] /\ stage = "recv" /\ stage' = "execute"
      /\ UNCHANGED <<call, out>>
  BY <1>0 DEF Receive
<1>2. /\ Len(queue') = Len(queue) - 1
      /\ \A i \in 1..Len(queue') : queue'[i] = queue[i + 1]
  BY <1>0 DEF Receive
<1>3. (\A t \in Threads : Sends(t)' = Sends(t)) /\ Sending' = Sending
  BY <1>1 DEF Sends, Sending
<1>4. ~Served /\ Served' = IsStatus(queue[1])
  BY <1>1 DEF Served, IsStatus
<1>5. QueuedStatus => QueuedStatus' \/ IsStatus(queue[1])
  <2> SUFFICES ASSUME NEW i \in 1..Len(queue), IsStatus(queue[i]), ~IsStatus(queue[1])
               PROVE  QueuedStatus'
    BY DEF QueuedStatus
  <2>1. i - 1 \in 1..Len(queue') /\ queue'[i - 1] = queue[i]
    BY <1>0, <1>2
  <2> QED BY <2>1 DEF QueuedStatus, IsStatus
<1>6. Valid' = Valid /\ told' = told
  BY DEF Quiet
<1>7. Senders'
  BY <1>1, <1>3 DEF StatusInv, Senders
<1>8. Statuses'
  <2>1. ASSUME NEW u \in Threads, Sends(u)' PROVE (out'[u].ev = "up") = Valid'
    BY <1>1, <1>3, <1>6, <2>1 DEF StatusInv, Statuses
  <2>2. ASSUME ~Sending', NEW i \in 1..Len(queue'), IsStatus(queue'[i]),
               \A j \in i+1..Len(queue') : ~IsStatus(queue'[j])
        PROVE  (queue'[i].ev = "up") = Valid'
    <3>1. i + 1 \in 1..Len(queue) /\ queue'[i] = queue[i + 1]
      BY <1>0, <1>2
    <3>2. ASSUME NEW j \in (i+1)+1..Len(queue) PROVE ~IsStatus(queue[j])
      <4>1. j - 1 \in i+1..Len(queue') /\ queue'[j - 1] = queue[j]
        BY <1>0, <1>2
      <4> QED BY <2>2, <4>1
    <3> QED BY <1>3, <1>6, <2>2, <3>1, <3>2 DEF StatusInv, Statuses
  <2>3. ASSUME ~Sending', ~QueuedStatus'
        PROVE  IF Served' THEN (msg'.ev = "up") = Valid' ELSE told' = Valid'
    <3>1. CASE IsStatus(queue[1])
      <4>1. ASSUME NEW j \in 1+1..Len(queue) PROVE ~IsStatus(queue[j])
        <5>1. j - 1 \in 1..Len(queue') /\ queue'[j - 1] = queue[j]
          BY <1>0, <1>2
        <5> QED BY <2>3, <5>1 DEF QueuedStatus, IsStatus
      <4>2. (queue[1].ev = "up") = Valid
        BY <1>0, <1>3, <2>3, <3>1, <4>1 DEF StatusInv, Statuses
      <4> QED BY <1>1, <1>4, <1>6, <3>1, <4>2
    <3>2. CASE ~IsStatus(queue[1])
      BY <1>3, <1>4, <1>5, <1>6, <2>3, <3>2 DEF StatusInv, Statuses
    <3> QED BY <3>1, <3>2
  <2> QED BY <2>1, <2>2, <2>3 DEF Statuses
<1>9. Informed'
  BY <1>0, <1>3, <1>4, <1>5, <1>6 DEF StatusInv, Informed, Quiet
<1> QED BY <1>7, <1>8, <1>9 DEF StatusInv

\* The looper passes a status on.
LEMMA PassStatuses ==
  ASSUME TypeOK, Control, StatusInv, Up \/ Address \/ Down
  PROVE  StatusInv'
<1>0. /\ call[Looper] = "idle" /\ stage = "notify" /\ IsStatus(msg) /\ Served
      /\ UNCHANGED <<queue, msg, call, out, conf, req>> /\ Valid' = Valid
      /\ Valid \in BOOLEAN /\ {seen, addr, drv, told} \subseteq BOOLEAN /\ (Valid => addr)
  BY DEF Up, Address, Down, At, Notified, sysVars, Control, IsStatus, Served, Valid, ifVars, TypeOK
<1>1. (\A t \in Threads : Sends(t)' = Sends(t)) /\ Sending' = Sending
      /\ QueuedStatus' = QueuedStatus /\ ~Sends(Looper)
  BY <1>0 DEF Sends, Sending, QueuedStatus
<1>2. Senders'
  BY <1>0, <1>1 DEF StatusInv, Senders
<1>3. ~Sending /\ ~QueuedStatus => (msg.ev = "up") = Valid
  BY <1>0 DEF StatusInv, Statuses
<1>4. ASSUME ~Sending' /\ ~QueuedStatus' => IF Served' THEN (msg'.ev = "up") = Valid' ELSE told' = Valid'
      PROVE  Statuses'
  <2>1. \A u \in Threads : Sends(u)' => (out'[u].ev = "up") = Valid'
    BY <1>0, <1>1 DEF StatusInv, Statuses
  <2> QED BY <1>0, <1>1, <1>4, <2>1 DEF StatusInv, Statuses
<1>5. CASE Up
  <2>1. /\ stage' = stage /\ told' = TRUE /\ seen' = addr /\ npc' = "address"
        /\ drv' = drv /\ stale' = stale
    BY <1>5 DEF Up, sysVars
  <2>2. Served'
    BY <1>0, <2>1 DEF Served, IsStatus
  <2>3. Statuses'
    BY <1>0, <1>1, <1>3, <1>4, <2>2
  <2>4. Informed'
    BY <1>0, <1>1, <2>1, <2>2 DEF StatusInv, Informed
  <2> QED BY <1>2, <2>3, <2>4 DEF StatusInv
<1>6. CASE Address
  <2>1. /\ npc = "address" /\ stage' = "destruct" /\ told' = told /\ npc' = "idle"
        /\ drv' = seen /\ stale' = (seen /\ ~Valid)
    BY <1>6 DEF Address, At, Notified
  <2>2. ~Served' /\ told /\ msg.ev = "up"
    BY <2>1 DEF Served, Control
  <2>3. Statuses'
    BY <1>0, <1>1, <1>3, <1>4, <2>1, <2>2
  <2>4. Informed'
    BY <1>0, <1>1, <2>1, <2>2 DEF StatusInv, Informed
  <2> QED BY <1>2, <2>3, <2>4 DEF StatusInv
<1>7. CASE Down
  <2>1. /\ npc = "idle" /\ stage' = "destruct" /\ told' = FALSE /\ npc' = npc /\ msg.ev = "down"
        /\ drv' = drv /\ stale' = stale /\ seen' = seen
    BY <1>7 DEF Down, At, Notified
  <2>2. ~Served'
    BY <2>1 DEF Served
  <2>3. Statuses'
    BY <1>0, <1>1, <1>3, <1>4, <2>1, <2>2
  <2>4. Informed'
    BY <1>0, <1>1, <1>3, <2>1, <2>2 DEF StatusInv, Informed
  <2> QED BY <1>2, <2>3, <2>4 DEF StatusInv
<1> QED BY <1>5, <1>6, <1>7

LEMMA StatusNext ==
  ASSUME TypeOK, Control, StatusInv, Move
  PROVE  StatusInv'
<1>0. /\ call \in [Threads -> Calls] /\ out \in [Threads -> Message] /\ Looper \in Threads
  BY SysCtrlAssumption DEF TypeOK, SysTypeOK
<1>1. CASE Tells(Tcpip) \/ Tells(Looper)
  BY <1>1, TellsStatus
<1>2. ASSUME Quiet, UNCHANGED <<conf, req, npc>>, NEW t \in Threads, NEW m \in Message, NEW how,
             ~IsStatus(m), Send(t, m, how)
      PROVE  StatusInv'
  <2>1. /\ call[t] = "idle" /\ call' = [call EXCEPT ![t] = how] /\ out' = [out EXCEPT ![t] = m]
        /\ UNCHANGED <<queue, msg, stage>>
    BY <1>2 DEF Send
  <2>2. ~Sends(t) /\ ~Sends(t)'
    BY <1>0, <1>2, <2>1 DEF Sends
  <2>3. \A u \in Threads : Sends(u)' = Sends(u) /\ (Sends(u) => out'[u] = out[u] /\ call'[u] = call[u])
    BY <1>0, <2>1, <2>2 DEF Sends
  <2>4. Served' = Served
    BY <2>1 DEF Served, IsStatus
  <2> QED BY <1>2, <2>1, <2>3, <2>4, SameStatuses
<1>3. ASSUME Quiet, UNCHANGED <<conf, req, npc>>, NEW t \in Threads, Finished(t) \/ TimedOut(t)
      PROVE  StatusInv'
  <2>1. /\ call[t] \in {"wait", "try"} /\ call' = [call EXCEPT ![t] = "idle"]
        /\ UNCHANGED <<queue, msg, stage, out>>
    BY <1>3 DEF Finished, TimedOut
  <2>2. ~Sends(t)
    BY <2>1 DEF Sends, StatusInv, Senders
  <2>3. ~Sends(t)'
    BY <1>0, <2>1 DEF Sends
  <2>4. \A u \in Threads : Sends(u)' = Sends(u) /\ (Sends(u) => out'[u] = out[u] /\ call'[u] = call[u])
    BY <1>0, <2>1, <2>2, <2>3 DEF Sends
  <2>5. Served' = Served
    BY <2>1 DEF Served, IsStatus
  <2> QED BY <1>3, <2>1, <2>4, <2>5, SameStatuses
<1>4. ASSUME Quiet, UNCHANGED <<conf, req, npc>>, Execute \/ Destruct
      PROVE  StatusInv'
  <2>1. /\ UNCHANGED <<queue, msg, call, out>>
        /\ \/ stage = "execute" /\ stage' = "notify"
           \/ stage = "destruct" /\ stage' = "recv"
    BY <1>4 DEF Execute, Destruct
  <2>2. Served' = Served
    BY <2>1 DEF Served, IsStatus
  <2>3. \A u \in Threads : Sends(u)' = Sends(u)
    BY <2>1 DEF Sends
  <2>4. ~Sends(Looper)
    BY <1>0, <2>1 DEF StatusInv, Senders
  <2> QED BY <1>4, <2>1, <2>2, <2>3, <2>4, SameStatuses
<1>5. CASE Quiet /\ Notified /\ At(npc) /\ ~IsStatus(msg) /\ npc # "address" /\ npc' = "idle"
  <2>1. UNCHANGED <<queue, msg, call, out>> /\ call[Looper] = "idle"
    BY <1>5 DEF Notified, At
  <2>2. Served' = Served
    BY <1>5, <2>1 DEF Served, IsStatus
  <2>3. (\A u \in Threads : Sends(u)' = Sends(u)) /\ ~Sends(Looper)
    BY <2>1 DEF Sends
  <2> QED BY <1>5, <2>1, <2>2, <2>3, SameStatuses
<1>6. CASE /\ Quiet /\ UNCHANGED <<sysVars, conf>>
           /\ \/ npc' = npc /\ (req' = req \/ req' = "none")
              \/ At(npc) /\ npc # "address" /\ npc' # "address"
  <2>1. UNCHANGED <<queue, msg, stage, call, out>>
    BY <1>6 DEF sysVars
  <2>2. Served' = Served
    BY <2>1 DEF Served, IsStatus
  <2>3. \A u \in Threads : Sends(u)' = Sends(u)
    BY <2>1 DEF Sends
  <2>4. At(npc) => ~Sends(Looper)
    BY DEF At, Sends
  <2> QED BY <1>6, <2>1, <2>2, <2>3, <2>4, SameStatuses
<1> QED BY <1>1, <1>2, <1>3, <1>4, <1>5, <1>6, QueuedStatuses, ReceiveStatuses, PassStatuses DEF Move

LEMMA StatusAlways == Spec => [](~late => StatusInv)
<1>1. Init => StatusInv
  <2> SUFFICES ASSUME Init PROVE StatusInv
    OBVIOUS
  <2>1. /\ \A t \in Threads : ~Sends(t)
        /\ Len(queue) = 0 /\ stage = "recv" /\ ~up /\ ~told /\ ~stale /\ ~drv /\ npc = "idle"
    BY DEF Init, SysInit, Sends
  <2>2. ~Sending /\ ~QueuedStatus /\ ~Served /\ ~Valid
    BY <2>1 DEF Sending, QueuedStatus, Served, Valid
  <2>3. Senders /\ Informed
    BY <2>1, <2>2 DEF Senders, Informed
  <2>4. told = Valid
    BY <2>1, <2>2 DEF Valid, Init
  <2>5. Statuses
    BY <2>1, <2>2, <2>4 DEF Statuses
  <2> QED BY <2>3, <2>5 DEF StatusInv
<1>2. TypeOK /\ Control /\ Interface /\ Linked /\ (~late => StatusInv) /\ [Next]_vars
        => (~late => StatusInv)'
  <2>1. [Next]_vars => (late => late')
    BY LateStays
  <2> QED BY <2>1, Moves, StatusNext
<1> QED BY <1>1, <1>2, ControlAlways, PTL DEF Spec

\* What observers were told last is what the interface is, once no status is
\* under way: for every length of the queue and any threads beside.
THEOREM ObserversToldTheTruth == Spec => []ToldTheTruth
<1>1. (~late => StatusInv) => ToldTheTruth
  BY DEF StatusInv, Statuses, Sending, Sends, QueuedStatus, Served, ToldTheTruth, Settled
<1> QED BY <1>1, StatusAlways, PTL

\* The driver and the interface agree once no status is under way, but for an
\* address that netif_up_handler set too late.
THEOREM DriverHasAddress == Spec => []DriverAgrees
<1>1. TypeOK /\ (~late => StatusInv) => DriverAgrees
  <2> SUFFICES ASSUME TypeOK, StatusInv, Settled PROVE drv = (Valid \/ stale)
    BY DEF DriverAgrees
  <2>1. ~Sending /\ ~QueuedStatus /\ ~Served
    BY DEF Settled, Sending, Sends, QueuedStatus, Served
  <2> QED BY <2>1 DEF StatusInv, Informed, TypeOK, Valid
<1> QED BY <1>1, StatusAlways, NetTypeOK, PTL
=============================================================================
