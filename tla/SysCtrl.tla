------------------------------- MODULE SysCtrl -------------------------------
(***************************************************************************)
(* The queue of sys_ctrl and the looper that serves it (sys_ctrl.c,        *)
(* event_queue.c, looper.c): threads send events and handlers, wait while  *)
(* the queue is full, and may wait until a handler has run.  These are the *)
(* actions of the component; NetCtrl composes them with a client.          *)
(***************************************************************************)
EXTENDS Naturals, Sequences

CONSTANTS
  Threads,   \* the threads that send
  Looper,    \* the looper, which sends too when a handler or an observer does
  QueueLen,  \* PRJCONF_SYS_CTRL_QUEUE_LEN
  Events     \* types and subtypes of events

ASSUME SysCtrlAssumption == /\ Looper \in Threads
                            /\ QueueLen \in Nat \ {0}

VARIABLES
  queue,  \* g_sys_queue
  msg,    \* base->msg, the message that is served
  stage,  \* where main_looper stands
  call,   \* call[t]: what t does in a call of sys_ctrl
  out,    \* out[t]: the message t sends, or sent last
  given,  \* semaphores of waiting callers that are released
  ran     \* history: callers whose handler, that they wait for, has run

sysVars == <<queue, msg, stage, call, out, given, ran>>

\* sys_ctrl_msg: `run' stands for execute # NULL, `finish' for destruct =
\* sys_handler_finish with the semaphore of the thread `by'.
Message == [ev : Events, run : BOOLEAN, finish : BOOLEAN, by : Threads]

Stages == {"recv", "execute", "notify", "destruct"}

\* "try" waits for room until a timeout, "insist" with OS_WAIT_FOREVER,
\* "wait" is in OS_SemaphoreWait.
Calls == {"idle", "try", "insist", "wait"}

\* The buffers hold anything (m) before their first use.
SysInit(m) ==
  /\ queue = <<>> /\ msg = m /\ stage = "recv"
  /\ call = [t \in Threads |-> "idle"]
  /\ out = [t \in Threads |-> m]
  /\ given = {} /\ ran = {}

Full == Len(queue) = QueueLen

\* A thread enters sys_event_send or one of its kin: the message is built, and
\* for a finish the semaphore is created with count 0.
Send(t, m, how) ==
  /\ call[t] = "idle"
  /\ call' = [call EXCEPT ![t] = how]
  /\ out' = [out EXCEPT ![t] = m]
  /\ ran' = ran \ {t}
  /\ UNCHANGED <<queue, msg, stage, given>>

\* Mutant: the room is counted one too many.
QueuedOver(t) ==
  /\ call[t] \in {"try", "insist"} /\ Len(queue) <= QueueLen
  /\ queue' = Append(queue, out[t])
  /\ call' = [call EXCEPT ![t] = IF out[t].finish THEN "wait" ELSE "idle"]
  /\ UNCHANGED <<msg, stage, out, given, ran>>

\* OS_QueueSend finds room.
Queued(t) ==
  /\ call[t] \in {"try", "insist"} /\ ~Full
  /\ queue' = Append(queue, out[t])
  /\ call' = [call EXCEPT ![t] = IF out[t].finish THEN "wait" ELSE "idle"]
  /\ UNCHANGED <<msg, stage, out, given, ran>>

\* Mutant: what OS_QueueSend returned is not looked at before the wait.
TimedOutWaits(t) ==
  /\ call[t] = "try" /\ Full
  /\ call' = [call EXCEPT ![t] = IF out[t].finish THEN "wait" ELSE "idle"]
  /\ UNCHANGED <<queue, msg, stage, out, given, ran>>

\* OS_QueueSend times out: the call returns -1 without a wait.
TimedOut(t) ==
  /\ call[t] = "try" /\ Full
  /\ call' = [call EXCEPT ![t] = "idle"]
  /\ UNCHANGED <<queue, msg, stage, out, given, ran>>

\* Mutant: the caller bounds its wait for the handler as it does the send.
FinishedOrLate(t) ==
  /\ call[t] = "wait"
  /\ call' = [call EXCEPT ![t] = "idle"]
  /\ given' = given \ {t}
  /\ UNCHANGED <<queue, msg, stage, out, ran>>

\* OS_SemaphoreWait returns; the semaphore is on the caller's stack and gone.
Finished(t) ==
  /\ call[t] = "wait" /\ t \in given
  /\ call' = [call EXCEPT ![t] = "idle"]
  /\ given' = given \ {t}
  /\ UNCHANGED <<queue, msg, stage, out, ran>>

\* Mutant: the looper releases the semaphore as soon as it has the message.
ReceiveRelease ==
  /\ stage = "recv" /\ queue # <<>>
  /\ msg' = Head(queue) /\ queue' = Tail(queue)
  /\ stage' = "execute"
  /\ given' = IF msg'.finish THEN given \cup {msg'.by} ELSE given
  /\ UNCHANGED <<call, out, ran>>

Receive ==
  /\ stage = "recv" /\ queue # <<>>
  /\ msg' = Head(queue) /\ queue' = Tail(queue)
  /\ stage' = "execute"
  /\ UNCHANGED <<call, out, given, ran>>

\* Mutant: a message with a handler is an event to nobody, and done with.
ExecuteOnly ==
  /\ stage = "execute"
  /\ ran' = IF msg.run /\ msg.finish THEN ran \cup {msg.by} ELSE ran
  /\ stage' = IF msg.run THEN "recv" ELSE "notify"
  /\ UNCHANGED <<queue, msg, call, out, given>>

Execute ==
  /\ stage = "execute"
  /\ ran' = IF msg.run /\ msg.finish THEN ran \cup {msg.by} ELSE ran
  /\ stage' = "notify"
  /\ UNCHANGED <<queue, msg, call, out, given>>

\* base->extend has returned; a client says when.
Notified ==
  /\ stage = "notify" /\ stage' = "destruct"
  /\ UNCHANGED <<queue, msg, call, out, given, ran>>

\* msg->destruct, a handler's sys_handler_finish.
Destruct ==
  /\ stage = "destruct" /\ call[Looper] = "idle"
  /\ given' = IF msg.finish THEN given \cup {msg.by} ELSE given
  /\ stage' = "recv"
  /\ UNCHANGED <<queue, msg, call, out, ran>>
-----------------------------------------------------------------------------
SysTypeOK ==
  /\ queue \in Seq(Message) /\ Len(queue) <= QueueLen
  /\ msg \in Message /\ stage \in Stages
  /\ call \in [Threads -> Calls]
  /\ out \in [Threads -> Message]
  /\ given \subseteq Threads /\ ran \subseteq Threads

\* A queued or served message that will release a semaphore finds it: its
\* caller is in OS_SemaphoreWait (the semaphore is on its stack), has not been
\* released before, and has no second such message under way.
NoDanglingSem ==
  /\ \A i \in 1..Len(queue) :
       queue[i].finish =>
         /\ call[queue[i].by] = "wait" /\ queue[i].by \notin given
         /\ \A j \in 1..Len(queue) :
              queue[j].finish /\ queue[j].by = queue[i].by => i = j
  /\ stage # "recv" /\ msg.finish =>
       /\ call[msg.by] = "wait" /\ msg.by \notin given
       /\ \A i \in 1..Len(queue) : ~(queue[i].finish /\ queue[i].by = msg.by)

\* No caller waits for nothing: until its semaphore is released its message is in
\* the queue or being served, so that OS_SemaphoreWait with OS_WAIT_FOREVER ends.
NoLostCaller ==
  \A t \in Threads : call[t] = "wait" =>
    \/ t \in given
    \/ \E i \in 1..Len(queue) : queue[i].finish /\ queue[i].by = t
    \/ stage # "recv" /\ msg.finish /\ msg.by = t

\* A call of sys_handler_send_wait_finish that returns 0 returns after its
\* handler has run, never on account of another message.
ReturnsAfterHandler ==
  [][\A t \in Threads : call[t] = "wait" /\ call'[t] # "wait" => t \in ran]_sysVars
=============================================================================
