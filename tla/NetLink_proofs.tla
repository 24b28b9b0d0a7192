--------------------------- MODULE NetLink_proofs ---------------------------
(***************************************************************************)
(* Theorems about the link of the interface and the association of the     *)
(* station, for any threads and any length of the queue.                   *)
(***************************************************************************)
EXTENDS NetCtrl_proofs

-----------------------------------------------------------------------------
(* The invariant *)

\* An association or its end, sent, queued or being served.
IsLink(m) == m.ev \in {"connected", "disconnected"}
Reports(t) == call[t] \in {"try", "insist"} /\ IsLink(out[t])
Reporting == \E t \in Threads : Reports(t)
QueuedLink == \E i \in 1..Len(queue) : IsLink(queue[i])
ServedLink == stage \in {"execute", "notify"} /\ IsLink(msg)

\* The tcpip thread has not yet done what the looper asked of the link.
Pending == /\ req \in {"link_up", "link_down"}
           /\ todo \in TurnTodos \cup {<<req, "ack">>}

\* The looper is where the message it serves takes it, and once the tcpip thread
\* has answered the link is what the message says.
Serving ==
  /\ npc \in {"config", "bring_up"} => msg.ev = "connected"
  /\ npc \in {"check", "clear", "stop"} => msg.ev = "disconnected"
  /\ npc \notin {"idle", "address"} /\ ~Pending => (link <=> msg.ev = "connected")

\* The last report under way, or else the link, is what the station is.
Reported ==
  /\ \A t \in Threads : Reports(t) =>
       t = Driver /\ call[t] = "insist" /\ (out[t].ev = "connected" <=> wlan)
  /\ ~Reporting => \A i \in 1..Len(queue) :
       IsLink(queue[i]) /\ (\A j \in i+1..Len(queue) : ~IsLink(queue[j])) =>
         (queue[i].ev = "connected" <=> wlan)
  /\ ~Reporting /\ ~QueuedLink =>
       IF ServedLink THEN msg.ev = "connected" <=> wlan ELSE link <=> wlan

\* When no report is under way, the link of the interface is the association.
LinkAgrees == ~Reporting /\ ~QueuedLink /\ ~ServedLink => (link <=> wlan)

LinkInv == Serving /\ Reported

-----------------------------------------------------------------------------
(* The looper and the tcpip thread *)

LEMMA TailTurn ==
  ASSUME TypeOK, Control, todo # <<>>, todo \in TurnTodos
  PROVE  Tail(todo) \in TurnTodos /\ Head(todo) \notin {"ack", "link_up", "link_down"}
<1>1. Head(todo) \in Steps
  BY DEF TypeOK
<1>2. /\ todo # <<"ack">> /\ todo # <<"down", "reboot", "ack">>
      /\ \A a : todo # <<a, "ack">>
  BY NotTurn
<1>3. Head(todo) \notin {"ack", "link_up", "link_down"}
  BY <1>2, Heads
<1>4. Tail(todo) \in {<<>>, Nak, <<"bound">>, <<"up", "bound">>, <<"clear", "seek">>, <<"seek">>}
  BY <1>1, <1>2, <1>3, Heads DEF Steps
<1> QED BY <1>3, <1>4 DEF TurnTodos, BindTodos

LEMMA ServingNext ==
  ASSUME TypeOK, Control, Serving, [Next]_vars
  PROVE  Serving' /\ (link' # link => ServedLink /\ ServedLink')
<1> USE DEF ifVars, seenVars, netVars
<1>0. npc \in Places /\ link \in BOOLEAN /\ todo \in Seq(Steps)
  BY DEF TypeOK
<1>1. CASE UNCHANGED <<link, todo, npc, req>> /\ (msg' = msg \/ npc = "idle")
  BY <1>1 DEF Serving, Pending
<1>2. CASE DhcpTurn
  <2>1. PICK p \in Turns[dhcp] : todo' = p /\ UNCHANGED <<req, npc, link, msg>>
    BY <1>2 DEF DhcpTurn, sysVars
  <2>2. todo = <<>> /\ todo \in TurnTodos /\ todo' \in TurnTodos
    BY <1>2, <2>1, TurnTodo DEF DhcpTurn, TcpipFree, TurnTodos, TypeOK
  <2>3. Pending' <=> Pending
    BY <2>1, <2>2 DEF Pending
  <2> QED BY <2>1, <2>3 DEF Serving
<1>3. CASE Take
  <2>1. todo = <<>> /\ todo \in TurnTodos /\ todo' = <<req, "ack">> /\ UNCHANGED <<req, npc, link, msg>>
    BY <1>3 DEF Take, TcpipFree, TurnTodos, sysVars
  <2>2. Pending' <=> Pending
    BY <2>1 DEF Pending
  <2> QED BY <2>1, <2>2 DEF Serving
<1>4. CASE TcpipStep
  <2>0. todo # <<>> /\ UNCHANGED <<npc, msg, stage>>
    BY <1>4 DEF TcpipStep, SetFlag, SetAddr, SetLink, SetDhcp, Acknowledge, Doing, StatusCallback, Send,
                sysVars
  <2>1. CASE SetLink("link_up", TRUE) \/ SetLink("link_down", FALSE)
    <3>1. /\ req' = req
          /\ \/ Head(todo) = "link_up" /\ link'
             \/ Head(todo) = "link_down" /\ ~link'
      BY <2>1 DEF SetLink, Doing
    <3>2. \/ req = "link_up" /\ npc = "config" /\ link'
          \/ req = "link_down" /\ npc = "check" /\ ~link'
      BY <2>0, <3>1, Heads, Pairs
    <3>3. msg.ev = IF link' THEN "connected" ELSE "disconnected"
      BY <3>2 DEF Serving
    <3>4. stage = "notify" /\ IsLink(msg)
      BY <3>2, <3>3 DEF Control, IsLink
    <3> QED BY <2>0, <3>2, <3>3, <3>4 DEF Serving, ServedLink, IsLink
  <2>2. CASE Acknowledge
    <3>1. todo = <<"ack">> /\ req' = "none" /\ link' = link /\ req # "none"
      BY <2>0, <2>2, Heads DEF Acknowledge, Doing
    <3>2. <<"ack">> # <<req, "ack">>
      OBVIOUS
    <3>3. ~Pending
      BY <3>1, <3>2, NotTurn DEF Pending
    <3> QED BY <2>0, <3>1, <3>3 DEF Serving
  <2>3. CASE \/ SetFlag("up", TRUE) \/ SetFlag("down", FALSE)
             \/ SetAddr("addr", TRUE) \/ SetAddr("clear", FALSE) \/ SetDhcp
    <3>1. todo' = Tail(todo) /\ UNCHANGED <<req, link>> /\ Head(todo) \notin {"link_up", "link_down"}
      BY <2>3 DEF SetFlag, SetAddr, SetDhcp, Doing, DhcpStates
    <3>2. Pending => Pending'
      <4> SUFFICES ASSUME Pending PROVE Pending'
        OBVIOUS
      <4>1. todo # <<req, "ack">>
        BY <3>1, Tuples DEF Pending
      <4> QED BY <2>0, <3>1, <4>1, TailTurn DEF Pending
    <3> QED BY <2>0, <3>1, <3>2 DEF Serving
  <2> QED BY <1>4, <2>1, <2>2, <2>3 DEF TcpipStep
<1>5. CASE Process
  <2>0. req = "none" /\ todo \in TurnTodos /\ stage = "notify"
    <3>1. req = "none" /\ stage = "notify"
      BY <1>5 DEF Process, Connected, Config, BringUp, Disconnected, Check, Clear, Stop, End,
                  Up, Address, Down, Other, At
    <3> QED BY <3>1 DEF Control
  <2>1. UNCHANGED <<link, todo, msg>> /\ ~Pending
    BY <1>5, <2>0 DEF Process, Connected, Config, BringUp, Disconnected, Check, Clear, Stop, End,
                Up, Address, Down, Other, Leave, Ask, StatusCallback, Send, Notified, sysVars, Pending
  <2>2. CASE Connected
    <3>1. \/ msg.ev = "connected" /\ req' = "link_up" /\ npc' = "config"
          \/ npc' = "idle"
      BY <2>2 DEF Connected, Leave, Ask
    <3>2. npc' = "config" => Pending'
      BY <2>0, <2>1, <3>1 DEF Pending
    <3> QED BY <2>1, <3>1, <3>2 DEF Serving
  <2>3. CASE Disconnected
    <3>1. /\ msg.ev = "disconnected" /\ npc' = "check"
          /\ \/ req' = "link_down"
             \/ ~link
      BY <2>3 DEF Disconnected, Ask
    <3>2. req' = "link_down" => Pending'
      BY <2>0, <2>1 DEF Pending
    <3> QED BY <2>1, <3>1, <3>2 DEF Serving
  <2>4. CASE Config \/ BringUp
    <3>1. /\ npc \in {"config", "bring_up"} /\ npc' \in {"idle", "end", "bring_up"}
      BY <2>4 DEF Config, BringUp, Leave, Ask, At
    <3> QED BY <2>1, <3>1 DEF Serving
  <2>5. CASE Check \/ Clear \/ Stop \/ End
    <3>1. \/ npc' = "idle"
          \/ npc \in {"check", "clear", "stop"} /\ npc' \in {"clear", "stop", "end"}
      BY <2>5 DEF Check, Clear, Stop, End, Leave, Ask, At
    <3> QED BY <2>1, <3>1 DEF Serving
  <2>6. CASE Up \/ Address \/ Down \/ Other
    <3>1. npc' \in {"idle", "address"}
      BY <2>6 DEF Up, Address, Down, Other, Leave, Ask, At
    <3> QED BY <2>1, <3>1 DEF Serving
  <2> QED BY <1>5, <2>1, <2>2, <2>3, <2>4, <2>5, <2>6 DEF Process
<1>6. CASE Associate \/ (\E a \in Apps[conf] : Use(a))
  BY <1>1, <1>6 DEF Associate, Use, Send
<1>7. CASE (\E t \in Threads : Proceed(t) \/ GiveUp(t)) \/ Serve \/ UNCHANGED vars
  <2>1. UNCHANGED <<link, todo, npc, req>>
    BY <1>7 DEF Proceed, GiveUp, Serve, vars
  <2>2. msg' = msg \/ npc = "idle"
    BY <1>7 DEF Proceed, GiveUp, Queued, Finished, TimedOut, Serve, Receive, Execute, Destruct, vars,
                sysVars, Control
  <2> QED BY <1>1, <2>1, <2>2
<1> QED BY <1>2, <1>3, <1>4, <1>5, <1>6, <1>7 DEF Next

-----------------------------------------------------------------------------
(* The reports under way *)

\* A step that leaves the reports under way, or ends the service of the last.
Same ==
  /\ UNCHANGED <<queue, wlan>>
  /\ \A t \in Threads : Reports(t)' <=> Reports(t)
  /\ \A t \in Threads : Reports(t) => out'[t] = out[t] /\ call'[t] = call[t]
  /\ ServedLink' => ServedLink /\ msg' = msg
  /\ ~ServedLink' => IF ServedLink THEN link' <=> msg.ev = "connected" ELSE link' = link

LEMMA SameReports == Reported /\ Same => Reported'
<1> SUFFICES ASSUME Reported, Same PROVE Reported'
  OBVIOUS
<1>1. (Reporting' <=> Reporting) /\ (QueuedLink' <=> QueuedLink)
  BY DEF Same, Reporting, QueuedLink
<1>2. \A t \in Threads : Reports(t)' =>
        t = Driver /\ call'[t] = "insist" /\ (out'[t].ev = "connected" <=> wlan')
  BY DEF Same, Reported
<1> QED BY <1>1, <1>2 DEF Same, Reported

\* Only the driver's thread enters a call with a report.
LEMMA QuietSends ==
  ASSUME TypeOK, NEW t \in Threads, NEW m, NEW how, Send(t, m, how), ~IsLink(m),
         UNCHANGED wlan, link' = link
  PROVE  Same
<1>1. /\ call[t] = "idle" /\ call' = [call EXCEPT ![t] = how] /\ out' = [out EXCEPT ![t] = m]
      /\ UNCHANGED <<queue, msg, stage>> /\ call \in [Threads -> Calls] /\ out \in [Threads -> Message]
  BY DEF Send, TypeOK, SysTypeOK
<1>2. ~Reports(t) /\ ~Reports(t)'
  BY <1>1 DEF Reports
<1>3. \A u \in Threads \ {t} : (Reports(u)' <=> Reports(u)) /\ out'[u] = out[u] /\ call'[u] = call[u]
  BY <1>1 DEF Reports
<1> QED BY <1>1, <1>2, <1>3 DEF Same, ServedLink

LEMMA Associates ==
  ASSUME TypeOK, Reported, Associate
  PROVE  Reported'
<1>1. PICK now \in BOOLEAN :
        /\ wlan' = now
        /\ Send(Driver, Event(IF now THEN "connected" ELSE "disconnected", Driver), "insist")
  BY DEF Associate
<1> DEFINE m == Event(IF now THEN "connected" ELSE "disconnected", Driver)
<1>2. IsLink(m) /\ (m.ev = "connected" <=> now)
  BY DEF IsLink, Event
<1> HIDE DEF m
<1>3. /\ Driver \in Threads /\ call[Driver] = "idle" /\ call' = [call EXCEPT ![Driver] = "insist"]
      /\ out' = [out EXCEPT ![Driver] = m] /\ UNCHANGED <<queue, msg, stage>>
      /\ call \in [Threads -> Calls] /\ out \in [Threads -> Message]
  BY <1>1, NetCtrlAssumption DEF Send, TypeOK, SysTypeOK, m
<1>4. Reports(Driver)' /\ out'[Driver] = m /\ call'[Driver] = "insist"
  BY <1>2, <1>3 DEF Reports
<1>5. \A t \in Threads \ {Driver} : ~Reports(t)'
  BY <1>3 DEF Reports, Reported
<1>6. Reporting'
  BY <1>3, <1>4 DEF Reporting
<1> QED BY <1>1, <1>2, <1>4, <1>5, <1>6 DEF Reported

LEMMA QueuedReports ==
  ASSUME TypeOK, Reported, NEW t \in Threads, Queued(t), UNCHANGED <<link, wlan>>
  PROVE  Reported'
<1>0. /\ call \in [Threads -> Calls] /\ out \in [Threads -> Message]
      /\ queue \in Seq(Message) /\ Len(queue) \in Nat
  BY DEF TypeOK, SysTypeOK
<1>1. /\ queue' = Append(queue, out[t]) /\ call[t] \in {"try", "insist"}
      /\ call' = [call EXCEPT ![t] = IF out[t].finish THEN "wait" ELSE "idle"]
      /\ UNCHANGED <<msg, stage, out>>
  BY DEF Queued
<1>2. /\ Len(queue') = Len(queue) + 1 /\ queue'[Len(queue) + 1] = out[t]
      /\ \A i \in 1..Len(queue) : queue'[i] = queue[i]
  BY <1>0, <1>1
<1>3. ~Reports(t)' /\ (Reports(t) <=> IsLink(out[t]))
  <2>1. call'[t] \in {"wait", "idle"}
    BY <1>0, <1>1
  <2> QED BY <1>1, <2>1 DEF Reports
<1>4. \A u \in Threads \ {t} : (Reports(u)' <=> Reports(u)) /\ call'[u] = call[u]
  BY <1>0, <1>1 DEF Reports
<1>5. \A u \in Threads : Reports(u)' =>
        u = Driver /\ call'[u] = "insist" /\ (out'[u].ev = "connected" <=> wlan')
  BY <1>1, <1>3, <1>4 DEF Reported
<1>6. ASSUME ~Reporting', NEW i \in 1..Len(queue'), IsLink(queue'[i]),
             \A j \in i+1..Len(queue') : ~IsLink(queue'[j])
      PROVE  queue'[i].ev = "connected" <=> wlan'
  <2>1. CASE i = Len(queue) + 1
    BY <1>2, <1>3, <1>6, <2>1 DEF Reported
  <2>2. CASE i # Len(queue) + 1
    <3>1. i \in 1..Len(queue) /\ queue'[i] = queue[i]
      BY <1>0, <1>2, <2>2
    <3>2. Len(queue) + 1 \in i+1..Len(queue')
      BY <1>0, <1>2, <3>1
    <3>3. ~IsLink(out[t])
      BY <1>2, <1>6, <3>2
    <3>4. ~Reporting
      BY <1>3, <1>4, <1>6, <3>3 DEF Reporting
    <3>5. \A j \in i+1..Len(queue) : j \in i+1..Len(queue') /\ queue'[j] = queue[j]
      BY <1>0, <1>2, <3>1
    <3>6. \A j \in i+1..Len(queue) : ~IsLink(queue[j])
      BY <1>6, <3>5
    <3> QED BY <1>6, <3>1, <3>4, <3>6 DEF Reported
  <2> QED BY <2>1, <2>2
<1>7. ASSUME ~Reporting', ~QueuedLink'
      PROVE  IF ServedLink' THEN msg'.ev = "connected" <=> wlan' ELSE link' <=> wlan'
  <2>1. ~IsLink(out[t]) /\ ~QueuedLink
    BY <1>0, <1>2, <1>7 DEF QueuedLink, IsLink
  <2>2. ~Reporting
    BY <1>3, <1>4, <1>7, <2>1 DEF Reporting
  <2> QED BY <1>1, <2>1, <2>2 DEF Reported, ServedLink, IsLink
<1> QED BY <1>5, <1>6, <1>7 DEF Reported

LEMMA ReceivedReports ==
  ASSUME TypeOK, Reported, Receive, UNCHANGED <<link, wlan>>
  PROVE  Reported'
<1>0. queue \in Seq(Message) /\ Len(queue) \in Nat
  BY DEF TypeOK, SysTypeOK
<1>1. /\ queue # <<>> /\ msg' = queue[1] /\ Len(queue') = Len(queue) - 1 /\ 1 \in 1..Len(queue)
      /\ \A i \in 1..Len(queue') : queue'[i] = queue[i + 1] /\ i + 1 \in 1..Len(queue)
      /\ stage = "recv" /\ stage' = "execute" /\ UNCHANGED <<call, out>>
  BY <1>0 DEF Receive
<1>2. (Reporting' <=> Reporting) /\ \A t \in Threads : Reports(t)' <=> Reports(t)
  BY <1>1 DEF Reporting, Reports
<1>3. \A t \in Threads : Reports(t)' =>
        t = Driver /\ call'[t] = "insist" /\ (out'[t].ev = "connected" <=> wlan')
  BY <1>1, <1>2 DEF Reported
<1>4. ASSUME ~Reporting', NEW i \in 1..Len(queue'), IsLink(queue'[i]),
             \A j \in i+1..Len(queue') : ~IsLink(queue'[j])
      PROVE  queue'[i].ev = "connected" <=> wlan'
  <2>1. i + 1 \in 1..Len(queue) /\ queue[i + 1] = queue'[i]
    BY <1>1
  <2>2. ASSUME NEW j \in (i + 1) + 1 .. Len(queue) PROVE ~IsLink(queue[j])
    <3>1. j - 1 \in i + 1 .. Len(queue') /\ j - 1 \in 1..Len(queue') /\ queue'[j - 1] = queue[j]
      BY <1>0, <1>1, <2>1
    <3> QED BY <1>4, <3>1
  <2> QED BY <1>2, <1>4, <2>1, <2>2 DEF Reported
<1>5. ASSUME ~Reporting', ~QueuedLink'
      PROVE  IF ServedLink' THEN msg'.ev = "connected" <=> wlan' ELSE link' <=> wlan'
  <2>1. ASSUME NEW j \in 2..Len(queue) PROVE ~IsLink(queue[j])
    <3>1. j - 1 \in 1..Len(queue') /\ queue'[j - 1] = queue[j]
      BY <1>0, <1>1
    <3> QED BY <1>5, <3>1 DEF QueuedLink, IsLink
  <2>2. CASE IsLink(queue[1])
    <3>1. queue[1].ev = "connected" <=> wlan
      BY <1>1, <1>2, <1>5, <2>1, <2>2 DEF Reported
    <3> QED BY <1>1, <2>2, <3>1 DEF ServedLink, IsLink
  <2>3. CASE ~IsLink(queue[1])
    <3>1. ~QueuedLink
      BY <1>0, <2>1, <2>3 DEF QueuedLink
    <3>2. ~ServedLink
      BY <1>1 DEF ServedLink
    <3>3. ~ServedLink'
      BY <1>1, <2>3 DEF ServedLink, IsLink
    <3> QED BY <1>2, <1>5, <3>1, <3>2, <3>3 DEF Reported
  <2> QED BY <2>2, <2>3
<1> QED BY <1>3, <1>4, <1>5 DEF Reported

\* A step of the looper that ends the service of a report leaves the link as it says.
LEMMA ProcessReports ==
  ASSUME TypeOK, Control, Serving, Reported, Process
  PROVE  Same
<1> USE DEF ifVars, seenVars, netVars
<1>0. req = "none" /\ stage = "notify" /\ ~Pending /\ Looper \in Threads
  BY SysCtrlAssumption
     DEF Process, Connected, Config, BringUp, Disconnected, Check, Clear, Stop, End,
         Up, Address, Down, Other, At, Pending
<1>1. wlan' = wlan /\ link' = link
  BY DEF Process, Connected, Config, BringUp, Disconnected, Check, Clear, Stop, End,
         Up, Address, Down, Other, Leave, Ask
<1>2. ASSUME UNCHANGED sysVars PROVE Same
  BY <1>1, <1>2 DEF Same, sysVars, Reports, ServedLink
<1>3. ASSUME Notified, ServedLink => (link <=> msg.ev = "connected") PROVE Same
  BY <1>1, <1>3 DEF Same, Notified, Reports, ServedLink
<1>4. CASE Connected
  <2>1. CASE Leave
    <3>1. (link /\ msg.ev = "connected") \/ UNCHANGED sysVars
      BY <1>4 DEF Connected, Ask
    <3> QED BY <1>2, <1>3, <2>1, <3>1 DEF Leave
  <2> QED BY <1>2, <1>4, <2>1 DEF Connected, Ask
<1>5. CASE Config
  <2>0. npc = "config" /\ (link <=> msg.ev = "connected")
    BY <1>0, <1>5 DEF Config, At, Serving
  <2>1. CASE StatusCallback(Looper, Valid)
    <3>1. PICK m : Send(Looper, m, "insist") /\ ~IsLink(m)
      BY <2>1 DEF StatusCallback, Event, IsLink
    <3> QED BY <1>0, <1>1, <3>1, QuietSends
  <2> QED BY <1>2, <1>3, <1>5, <2>0, <2>1 DEF Config, Leave, Ask
<1>6. CASE Check \/ End
  <2>1. npc \in {"check", "end"} /\ (link <=> msg.ev = "connected")
    BY <1>0, <1>6 DEF Check, End, At, Serving
  <2> QED BY <1>2, <1>3, <1>6, <2>1 DEF Check, End, Leave, Ask
<1>7. CASE BringUp \/ Disconnected \/ Clear \/ Stop \/ Up
  BY <1>2, <1>7 DEF BringUp, Disconnected, Clear, Stop, Up, Ask
<1>8. CASE Address \/ Down \/ Other
  <2>1. ~IsLink(msg)
    BY <1>8 DEF Address, Down, Other, At, Control, IsLink, NetEvents
  <2> QED BY <1>3, <1>8, <2>1 DEF Address, Down, Other, Leave, ServedLink
<1> QED BY <1>4, <1>5, <1>6, <1>7, <1>8 DEF Process

LEMMA ReportedNext ==
  ASSUME TypeOK, Control, Serving, Reported, [Next]_vars
  PROVE  Reported'
<1> USE DEF ifVars, seenVars, netVars
<1>0. call \in [Threads -> Calls] /\ {Looper, Tcpip} \subseteq Threads
  BY NetCtrlAssumption, SysCtrlAssumption DEF TypeOK, SysTypeOK
<1>1. CASE Associate
  BY <1>1, Associates
<1>2. ASSUME NEW a \in Apps[conf], Use(a) PROVE Reported'
  <2>1. \E m, how : Send(a, m, how) /\ ~IsLink(m)
    <3>1. CASE Send(a, Event("other", a), "try")
      <4>1. ~IsLink(Event("other", a))
        BY DEF Event, IsLink
      <4> QED BY <3>1, <4>1
    <3>2. ASSUME NEW fin \in BOOLEAN, NEW how,
                 Send(a, [ev |-> "other", run |-> TRUE, finish |-> fin, by |-> a], how)
          PROVE  \E m, h : Send(a, m, h) /\ ~IsLink(m)
      <4>1. ~IsLink([ev |-> "other", run |-> TRUE, finish |-> fin, by |-> a])
        BY DEF IsLink
      <4> QED BY <3>2, <4>1
    <3> QED BY <1>2, <3>1, <3>2 DEF Use
  <2>2. a \in Threads /\ wlan' = wlan /\ link' = link
    BY <1>2, NetCtrlAssumption DEF Use, TypeOK
  <2> QED BY <2>1, <2>2, QuietSends, SameReports
<1>3. ASSUME NEW t \in Threads, Proceed(t) \/ GiveUp(t) PROVE Reported'
  <2>1. UNCHANGED <<link, wlan>>
    BY <1>3 DEF Proceed, GiveUp
  <2>2. CASE Queued(t)
    BY <2>1, <2>2, QueuedReports
  <2>3. CASE Finished(t) \/ TimedOut(t)
    <3>1. /\ ~Reports(t) /\ call'[t] = "idle" /\ \A u \in Threads \ {t} : call'[u] = call[u]
          /\ UNCHANGED <<queue, msg, stage, out>>
      BY <1>0, <2>3 DEF Finished, TimedOut, Reports, Reported
    <3>2. \A u \in Threads : Reports(u)' <=> Reports(u)
      BY <3>1 DEF Reports
    <3> QED BY <2>1, <3>1, <3>2, SameReports DEF Same, ServedLink
  <2> QED BY <1>3, <2>2, <2>3 DEF Proceed, GiveUp
<1>4. CASE DhcpTurn \/ Take
  <2>1. UNCHANGED sysVars /\ UNCHANGED <<link, wlan>>
    BY <1>4 DEF DhcpTurn, Take
  <2> QED BY <2>1, SameReports DEF Same, Reports, ServedLink, sysVars
<1>5. CASE TcpipStep
  <2>0. wlan' = wlan /\ UNCHANGED <<queue, msg, stage>>
    BY <1>5 DEF TcpipStep, SetFlag, SetAddr, SetLink, SetDhcp, Acknowledge, StatusCallback, Send, sysVars
  <2>1. CASE UNCHANGED sysVars
    <3>1. link' = link \/ ServedLink'
      BY ServingNext
    <3> QED BY <2>0, <2>1, <3>1, SameReports DEF Same, Reports, ServedLink, sysVars
  <2>2. CASE \E s, on : SetFlag(s, on)
    <3>1. link' = link /\ (UNCHANGED sysVars \/ \E v : StatusCallback(Tcpip, v))
      BY <2>2 DEF SetFlag
    <3>2. ASSUME NEW v, StatusCallback(Tcpip, v) PROVE Reported'
      <4>1. PICK m : Send(Tcpip, m, "insist") /\ ~IsLink(m)
        BY <3>2 DEF StatusCallback, Event, IsLink
      <4> QED BY <1>0, <2>0, <3>1, <4>1, QuietSends, SameReports
    <3> QED BY <2>1, <3>1, <3>2
  <2> QED BY <1>5, <2>1, <2>2 DEF TcpipStep, SetAddr, SetLink, SetDhcp, Acknowledge
<1>6. CASE Serve
  <2>0. UNCHANGED <<link, wlan>>
    BY <1>6 DEF Serve
  <2>1. CASE Receive
    BY <2>0, <2>1, ReceivedReports
  <2>2. CASE Execute \/ Destruct
    BY <2>0, <2>2, SameReports DEF Execute, Destruct, Same, Reports, ServedLink
  <2> QED BY <1>6, <2>1, <2>2 DEF Serve
<1>7. CASE Process
  BY <1>7, ProcessReports, SameReports
<1>8. CASE UNCHANGED vars
  BY <1>8, SameReports DEF vars, sysVars, Same, Reports, ServedLink
<1> QED BY <1>1, <1>2, <1>3, <1>4, <1>5, <1>6, <1>7, <1>8 DEF Next

\* However reports pile up in the queue, and whatever DHCP and other threads do
\* meanwhile: once the looper has served the last of them, the link of the
\* interface is the association of the station.  With OnlyRoomHoldsLooper it is
\* what LinkFollows rests on, besides that threads run.
THEOREM LinkIsAssociation == Spec => []LinkAgrees
<1>1. Init => LinkInv
  <2> SUFFICES ASSUME Init PROVE LinkInv
    OBVIOUS
  <2>1. npc = "idle" /\ queue = <<>> /\ stage = "recv" /\ ~link /\ ~wlan
        /\ call = [t \in Threads |-> "idle"]
    BY DEF Init, SysInit
  <2> QED BY <2>1 DEF LinkInv, Serving, Reported, Reports, Reporting, QueuedLink, ServedLink
<1>2. TypeOK /\ Control /\ LinkInv /\ [Next]_vars => LinkInv'
  BY ServingNext, ReportedNext DEF LinkInv
<1>3. LinkInv => LinkAgrees
  BY DEF LinkInv, Reported, LinkAgrees
<1> QED BY <1>1, <1>2, <1>3, ControlAlways, PTL DEF Spec
=============================================================================
