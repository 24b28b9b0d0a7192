------------------------------- MODULE NetCtrl -------------------------------
(***************************************************************************)
(* Network control (net_ctrl.c) over the queue of sys_ctrl: the WLAN       *)
(* driver reports the link, the looper runs net_ctrl_msg_process, which    *)
(* asks the tcpip thread of lwIP to set the interface and the DHCP client, *)
(* and the tcpip thread sends the changes of the interface back through    *)
(* the same queue.  One station interface, in lwIP 1.4.1.                  *)
(***************************************************************************)
EXTENDS SysCtrl

CONSTANTS
  Driver,  \* the driver's event thread
  Tcpip,   \* tcpip_thread
  Apps     \* Apps[c]: other threads that use sys_ctrl in configuration c

Confs == {"dhcp", "static"}
NetEvents == {"connected", "disconnected", "up", "down", "other"}

ASSUME NetCtrlAssumption ==
  /\ {Driver, Tcpip} \subseteq Threads \ {Looper} /\ Driver # Tcpip
  /\ Apps \in [Confs -> SUBSET (Threads \ {Looper, Driver, Tcpip})]
  /\ NetEvents \subseteq Events

VARIABLES
  conf,   \* sysinfo->sta_use_dhcp
  wlan,   \* the station is associated
  link,   \* NETIF_FLAG_LINK_UP of g_wlan_netif
  up,     \* NETIF_FLAG_UP
  addr,   \* ip_addr is not 0.0.0.0
  dhcp,   \* "none" (no netif->dhcp) or the state of the client
  todo,   \* what the tcpip thread still has to do before its next message
  req,    \* what the looper asked of the tcpip thread, "none" when answered
  npc,    \* where net_ctrl_msg_process stands
  seen,   \* the address netif_up_handler has read
  drv,    \* the driver was given an address with wlan_set_ip_addr
  told,   \* history: the last status passed to observers was NETWORK_UP
  stale,  \* history: the driver's address was set for an interface that is down
  late    \* history: a lease was bound while DHCP was being stopped

ifVars  == <<link, up, addr, dhcp>>
seenVars == <<drv, told, stale, late>>
netVars == <<conf, wlan, ifVars, todo, req, npc, seen, seenVars>>
vars    == <<sysVars, netVars>>

\* "seek" stands for SELECTING and BACKING_OFF, "renew" for RENEWING and
\* REBINDING.
DhcpStates == {"off", "seek", "request", "check", "bound", "renew", "reboot"}
Steps == DhcpStates \cup {"addr", "clear", "up", "down", "link_up", "link_down", "ack"}
Places == {"idle", "config", "bring_up", "check", "clear", "stop", "end", "address"}

Event(e, t) == [ev |-> e, run |-> FALSE, finish |-> FALSE, by |-> t]

\* NET_IS_IP4_VALID
Valid == up /\ addr

Init ==
  /\ SysInit(Event("other", Looper))
  /\ conf \in Confs
  /\ wlan = FALSE /\ link = FALSE /\ up = FALSE /\ addr = FALSE
  /\ dhcp = "none" /\ todo = <<>> /\ req = "none" /\ npc = "idle"
  /\ seen = FALSE /\ drv = FALSE /\ told = FALSE /\ stale = FALSE /\ late = FALSE
-----------------------------------------------------------------------------
(* The driver and other threads *)

\* The driver reports an association or its end with net_ctrl_msg_send, and
\* may repeat what it has reported.
Associate ==
  /\ \E now \in BOOLEAN :
       /\ wlan' = now
       /\ Send(Driver, Event(IF now THEN "connected" ELSE "disconnected", Driver), "insist")
  /\ UNCHANGED <<conf, ifVars, todo, req, npc, seen, seenVars>>

\* sys_event_send, sys_handler_send or sys_handler_send_wait_finish of another
\* thread.
Use(a) ==
  /\ \/ Send(a, Event("other", a), "try")
     \/ \E fin \in BOOLEAN, how \in {"try", "insist"} :
          Send(a, [ev |-> "other", run |-> TRUE, finish |-> fin, by |-> a], how)
  /\ UNCHANGED netVars
-----------------------------------------------------------------------------
(* The tcpip thread *)

\* Mutant: the status is dropped when the queue is full.
StatusTries(t, valid) ==
  /\ Send(t, Event(IF valid THEN "up" ELSE "down", t), "try")
  /\ drv' = (valid /\ drv)
  /\ stale' = (valid /\ stale)

\* netif_status_callback, run by thread t when the interface is valid or not.
StatusCallback(t, valid) ==
  /\ Send(t, Event(IF valid THEN "up" ELSE "down", t), "insist")
  /\ drv' = (valid /\ drv)
  /\ stale' = (valid /\ stale)

TcpipFree == todo = <<>> /\ call[Tcpip] = "idle"

\* What a message or a timeout makes of the DHCP client: dhcp_select,
\* dhcp_check, dhcp_decline, dhcp_bind, dhcp_handle_nak, dhcp_release and
\* dhcp_discover, dhcp_renew.  Each is the sequence of its changes.
BindUpFirst == <<"up", "addr", "bound">>   \* mutant: swapped order
Bind == <<"addr", "up", "bound">>
Nak     == <<"down", "clear", "seek">>
Release == <<"off", "down", "clear", "seek">>
Turns == [none    |-> {},
          off     |-> {},
          seek    |-> {<<"request">>},
          request |-> {<<"check">>, <<"renew">>, Nak, Release},
          check   |-> {<<"seek">>, Bind},
          bound   |-> {<<"renew">>},
          renew   |-> {Bind, Nak, Release},
          reboot  |-> {Bind, Nak, <<"seek">>}]

\* The looper has taken the interface down and not yet stopped the client.
Stopping == (npc = "clear" /\ req = "none") \/ npc = "stop" \/ req = "off"

\* A DHCP reply, an ARP reply or a timeout of the client.
DhcpTurn ==
  /\ TcpipFree
  /\ \E p \in Turns[dhcp] :
       /\ todo' = p
       /\ late' = (late \/ (p = Bind /\ Stopping))
  /\ UNCHANGED <<sysVars, conf, wlan, ifVars, req, npc, seen, drv, told, stale>>

\* The thread takes the looper's message from its mailbox.
Take ==
  /\ TcpipFree /\ req # "none" /\ todo' = <<req, "ack">>
  /\ UNCHANGED <<sysVars, conf, wlan, ifVars, req, npc, seen, seenVars>>

Doing(s) == todo # <<>> /\ Head(todo) = s /\ call[Tcpip] = "idle"

\* netif_set_up and netif_set_down, which call back on a change.
SetFlag(s, on) ==
  /\ Doing(s) /\ todo' = Tail(todo)
  /\ up' = on
  /\ \/ up = on /\ UNCHANGED <<sysVars, drv, stale>>
     \/ up # on /\ StatusCallback(Tcpip, on /\ addr)
  /\ UNCHANGED <<conf, wlan, link, addr, dhcp, req, npc, seen, told, late>>

SetAddr(s, to) ==
  /\ Doing(s) /\ todo' = Tail(todo)
  /\ addr' = to
  /\ UNCHANGED <<sysVars, conf, wlan, link, up, dhcp, req, npc, seen, seenVars>>

SetDhcp ==
  /\ \E s \in DhcpStates : /\ Doing(s)
                           /\ dhcp' = IF s = "off" /\ dhcp = "none" THEN "none" ELSE s
  /\ todo' = Tail(todo)
  /\ UNCHANGED <<sysVars, conf, wlan, link, up, addr, req, npc, seen, seenVars>>

\* dhcp_network_changed
Changed ==
  IF dhcp \in {"bound", "renew", "reboot"} THEN <<"down", "reboot">>
  ELSE IF dhcp \in {"none", "off"} THEN <<>> ELSE <<"seek">>

SetLink(s, on) ==
  /\ Doing(s)
  /\ link' = on
  /\ todo' = IF on /\ ~link THEN Changed \o Tail(todo) ELSE Tail(todo)
  /\ UNCHANGED <<sysVars, conf, wlan, up, addr, dhcp, req, npc, seen, seenVars>>

Acknowledge ==
  /\ Doing("ack") /\ todo' = Tail(todo)
  /\ req' = "none"
  /\ UNCHANGED <<sysVars, conf, wlan, ifVars, npc, seen, seenVars>>

TcpipStep ==
  \/ SetFlag("up", TRUE) \/ SetFlag("down", FALSE)
  \/ SetAddr("addr", TRUE) \/ SetAddr("clear", FALSE)
  \/ SetLink("link_up", TRUE) \/ SetLink("link_down", FALSE)
  \/ SetDhcp \/ Acknowledge
-----------------------------------------------------------------------------
(* net_ctrl_msg_process, in the looper *)

At(p) == stage = "notify" /\ npc = p /\ req = "none" /\ call[Looper] = "idle"

\* The looper calls netifapi_* and waits for the tcpip thread; then goes on at p.
Ask(r, p) ==
  /\ req' = r /\ npc' = p
  /\ UNCHANGED <<sysVars, conf, wlan, ifVars, todo, seen, seenVars>>

Leave ==
  /\ Notified /\ npc' = "idle"
  /\ UNCHANGED <<conf, wlan, ifVars, todo, req, seen, seenVars>>

\* Mutant: the address, not the link, says that there is nothing to do.
ConnectedValid ==
  /\ At("idle") /\ msg.ev = "connected"
  /\ \/ ~Valid /\ Ask("link_up", "config")
     \/ Valid /\ Leave

Connected ==
  /\ At("idle") /\ msg.ev = "connected"
  /\ \/ ~link /\ Ask("link_up", "config")
     \/ link /\ Leave

\* Mutant: a client that was stopped passes for one that is started.
ConfigNewOnly ==
  /\ At("config")
  /\ \/ (Valid \/ dhcp # "none") /\ conf = "dhcp" /\ Leave
     \/ ~Valid /\ conf = "dhcp" /\ dhcp = "none" /\ Ask("seek", "end")
     \/ ~Valid /\ conf = "static" /\ Ask("addr", "bring_up")

\* net_config(nif, 1)
Config ==
  /\ At("config")
  /\ \/ Valid /\ conf = "dhcp" /\ Leave
     \/ /\ Valid /\ conf = "static"
        /\ StatusCallback(Looper, Valid)
        /\ npc' = "end"
        /\ UNCHANGED <<conf, wlan, ifVars, todo, req, seen, told, late>>
     \/ ~Valid /\ conf = "dhcp" /\ dhcp \notin {"none", "off"} /\ Leave
     \/ ~Valid /\ conf = "dhcp" /\ dhcp \in {"none", "off"} /\ Ask("seek", "end")
     \/ ~Valid /\ conf = "static" /\ Ask("addr", "bring_up")

BringUp == At("bring_up") /\ Ask("up", "end")

Disconnected ==
  /\ At("idle") /\ msg.ev = "disconnected"
  /\ \/ link /\ Ask("link_down", "check")
     \/ /\ ~link /\ npc' = "check"
        /\ UNCHANGED <<sysVars, conf, wlan, ifVars, todo, req, seen, seenVars>>

\* A client that is started and not bound is stopped: net_config(nif, 0).
Check ==
  /\ At("check")
  /\ \/ dhcp \in {"none", "off", "bound"} /\ Leave
     \/ dhcp \notin {"none", "off", "bound"} /\ Ask("down", "clear")

Clear == At("clear") /\ Ask("clear", "stop")
Stop  == At("stop") /\ Ask("off", "end")
End   == At("end") /\ Leave

\* netif_up_handler reads the address ...
Up ==
  /\ At("idle") /\ msg.ev = "up"
  /\ told' = TRUE
  /\ seen' = addr /\ npc' = "address"
  /\ UNCHANGED <<sysVars, conf, wlan, ifVars, todo, req, drv, stale, late>>

\* ... and hands it to the driver.
Address ==
  /\ At("address")
  /\ drv' = seen /\ stale' = (seen /\ ~Valid)
  /\ Notified /\ npc' = "idle"
  /\ UNCHANGED <<conf, wlan, ifVars, todo, req, seen, told, late>>

Down ==
  /\ At("idle") /\ msg.ev = "down"
  /\ told' = FALSE
  /\ Notified
  /\ UNCHANGED <<conf, wlan, ifVars, todo, req, npc, seen, drv, stale, late>>

Other == At("idle") /\ msg.ev \notin NetEvents \ {"other"} /\ Leave

Process == \/ Connected \/ Config \/ BringUp \/ Disconnected \/ Check \/ Clear
           \/ Stop \/ End \/ Up \/ Address \/ Down \/ Other

Serve == /\ Receive \/ Execute \/ Destruct
         /\ UNCHANGED netVars

\* The steps of t inside its call.
Proceed(t) == /\ Queued(t) \/ Finished(t)
              /\ UNCHANGED netVars

GiveUp(t) == TimedOut(t) /\ UNCHANGED netVars

Next ==
  \/ Associate \/ (\E a \in Apps[conf] : Use(a))
  \/ (\E t \in Threads : Proceed(t) \/ GiveUp(t))
  \/ DhcpTurn \/ Take \/ TcpipStep
  \/ Serve \/ Process

Spec == Init /\ [][Next]_vars

\* Threads are scheduled; the mailbox of the tcpip thread is served in order,
\* so that packets and timers cannot hold up the looper's message for ever.
FairSpec ==
  /\ Spec
  /\ WF_vars(Serve) /\ WF_vars(Process)
  /\ WF_vars(TcpipStep) /\ SF_vars(Take)
  /\ \A t \in Threads : WF_vars(Proceed(t))
-----------------------------------------------------------------------------
TypeOK ==
  /\ SysTypeOK
  /\ conf \in Confs
  /\ {wlan, link, up, addr, seen, drv, told, stale, late} \subseteq BOOLEAN
  /\ dhcp \in DhcpStates \cup {"none"}
  /\ todo \in Seq(Steps) /\ req \in Steps \cup {"none"} /\ npc \in Places

\* No status of the interface is being sent, queued or passed on.
IsStatus(m) == m.ev \in {"up", "down"}
Settled ==
  /\ \A t \in Threads : call[t] \in {"try", "insist"} => ~IsStatus(out[t])
  /\ \A i \in 1..Len(queue) : ~IsStatus(queue[i])
  /\ stage \in {"execute", "notify"} => ~IsStatus(msg)

\* When no status is under way, what observers were told last is what the
\* interface is, whatever the driver, the looper and DHCP did in between.
ToldTheTruth == Settled /\ ~late => told = Valid

\* ... and the driver has the address of an interface that is up; it keeps one
\* for an interface that is down only after a late NETWORK_UP.
DriverAgrees == Settled /\ ~late => drv = (Valid \/ stale)

\* Between two messages, a station that is connected and uses DHCP has a
\* client that is running.
ClientRuns ==
  link /\ conf = "dhcp" /\ stage = "recv" /\ todo = <<>> /\ ~late
    => dhcp \notin {"none", "off"}

Roomy == [](~Full)

\* As long as the queue does not fill up, the link of the interface comes to
\* agree with the association once that stops changing ...
LinkFollows ==
  Roomy /\ <>[][UNCHANGED wlan]_vars => <>[](link = wlan)

\* ... and a caller that waits for its handler returns.
WaitsEnd == Roomy => \A t \in Threads : call[t] = "wait" ~> call[t] # "wait"
=============================================================================
