------------------------------ MODULE Console -------------------------------
(***************************************************************************)
(* src/console/console.c: the receive callback of the UART, an interrupt,  *)
(* collects characters into lines; the console task executes them.  A line *)
(* buffer is free, with the interrupt, ready, or with the task.  A control *)
(* thread starts and stops the console, commands disable and enable it.    *)
(***************************************************************************)
EXTENDS Naturals, Sequences, FiniteSets

CONSTANTS
  BufNum,   \* CONSOLE_CMD_LINE_BUF_NUM
  MaxLen,   \* CONSOLE_CMD_LINE_MAX_LEN, a line and its end of string
  FifoLen,  \* characters the UART holds
  Visible,   \* printable characters
  Races     \* what may happen besides the usual, of RaceKinds

\* early_input: the interrupt is taken between the last two statements of
\*   console_start.
\* late_enable: a command calls console_enable while console_stop is under way.
RaceKinds == {"early_input", "late_enable"}

Ends  == {"cr", "lf"}
Chars == Visible \cup Ends \cup {"bad"}

ASSUME ConsoleAssumption ==
  /\ BufNum \in Nat /\ BufNum > 1
  /\ MaxLen \in Nat /\ MaxLen > 0
  /\ FifoLen \in Nat
  /\ Visible \cap (Ends \cup {"bad", "none"}) = {}
  /\ Races \subseteq RaceKinds

VARIABLES
  state,    \* console->state
  alive,    \* OS_ThreadIsValid(&g_console_thread)
  tpc,      \* the task: "wait" for the semaphore, "exec" a command
  cur,      \* cmd_buf_idx, the buffer of the command
  last,     \* last_cmd_buf_idx
  free,     \* free_buf_bitmap, as the set of its buffers
  ready,    \* ready_buf_bitmap
  rx,       \* rx_buf_idx
  text,     \* text[b]: the characters in b; <<>> where no one will read them
  sem,      \* count of cmd_sem
  semOk,    \* cmd_sem exists
  held,     \* g_console_rx_data, "none" for -1
  fifo,     \* characters waiting in the UART
  on,       \* the receive callback is enabled
  isr,      \* console_rx_callback is running
  spc       \* the control thread in console_start or console_stop, or "idle"

task  == <<alive, tpc, cur, last>>
bufs  == <<free, ready, rx, text>>
count == <<sem, semOk>>
input == <<held, fifo, isr>>
vars  == <<state, task, bufs, count, input, on, spc>>

Bufs  == 0 .. BufNum - 1
NoBuf == BufNum

\* (i) % CONSOLE_CMD_LINE_BUF_NUM, for the indices of one turn of the ring.
Wrap(i) == IF i < BufNum THEN i ELSE i - BufNum

\* console_get_valid_buf_idx: the first buffer of S after `from`, round the ring.
NextOf(S, from) ==
  IF S = {} THEN NoBuf
  ELSE Wrap(from + CHOOSE d \in 1 .. BufNum :
              /\ Wrap(from + d) \in S
              /\ \A e \in 1 .. d - 1 : Wrap(from + e) \notin S)

Init ==
  /\ state = "stop" /\ alive = FALSE /\ tpc = "wait" /\ spc = "idle"
  /\ cur = 0 /\ last = 0 /\ rx = 0 /\ free = {} /\ ready = {}
  /\ text = [b \in Bufs |-> <<>>]
  /\ sem = 0 /\ semOk = FALSE
  /\ held = "bad"              \* g_console_rx_data starts as the character 0
  /\ fifo = <<>> /\ on = FALSE /\ isr = FALSE

-----------------------------------------------------------------------------
(* The UART and console_rx_callback.  No thread runs while isr holds. *)

Arrive ==
  /\ Len(fifo) < FifoLen
  /\ \E c \in Chars : fifo' = Append(fifo, c)
  /\ UNCHANGED <<state, task, bufs, count, held, isr, on, spc>>

\* While the callback is off, a command that disabled it reads the input itself.
ReadElsewhere ==
  /\ ~on /\ ~isr /\ fifo # <<>>
  /\ fifo' = Tail(fifo)
  /\ UNCHANGED <<state, task, bufs, count, held, isr, on, spc>>

Interrupt ==
  /\ on /\ ~isr /\ fifo # <<>>
  /\ spc = "mark" => "early_input" \in Races
  /\ isr' = TRUE
  /\ UNCHANGED <<state, task, bufs, count, held, fifo, on, spc>>

\* console_is_rx_ready, console_get_rx_data
RxReady == held # "none" \/ fifo # <<>>
RxData  == IF held # "none" THEN held ELSE Head(fifo)
Rest    == IF held # "none" THEN fifo ELSE Tail(fifo)

\* The callback reads a character that ends no line.
Reading(c) ==
  /\ isr /\ rx # NoBuf /\ RxReady /\ RxData = c
  /\ held' = "none" /\ fifo' = Rest
  /\ UNCHANGED <<state, task, free, ready, rx, count, isr, on, spc>>

\* Mutant: the buffer is not reset when it is full.
PrintableOverrun ==
  \E c \in Visible :
    /\ Reading(c)
    /\ text' = [text EXCEPT ![rx] = Append(@, c)]

\* A valid character; a line that fills the buffer without an end is dropped.
Printable ==
  \E c \in Visible :
    /\ Reading(c)
    /\ text' = [text EXCEPT ![rx] = IF Len(@) + 1 < MaxLen THEN Append(@, c) ELSE <<>>]

Illegal ==
  /\ Reading("bad")
  /\ text' = [text EXCEPT ![rx] = <<>>]

\* Mutant: the task is told only when there is a buffer to go on with.
RxCmdlineLazy ==
  /\ ready' = ready \cup {rx}
  /\ rx' = NextOf(free, rx)
  /\ free' = free \ {rx'}
  /\ UNCHANGED text
  /\ sem' = IF semOk /\ rx' # NoBuf THEN sem + 1 ELSE sem

\* console_rx_cmdline: the line is ready, reception goes on in a free buffer.
RxCmdline ==
  /\ ready' = ready \cup {rx}
  /\ rx' = NextOf(free, rx)
  /\ free' = free \ {rx'}
  /\ UNCHANGED text
  /\ sem' = IF semOk THEN sem + 1 ELSE sem

\* The end of a line.  After a CR one more character is looked at: a LF is
\* skipped, any other is held and the callback starts over with it.
LineEnd ==
  /\ isr /\ rx # NoBuf /\ RxReady /\ RxData \in Ends
  /\ RxCmdline
  /\ IF RxData = "cr" /\ Rest # <<>>
       THEN /\ fifo' = Tail(Rest)
            /\ held' = IF Head(Rest) = "lf" THEN "none" ELSE Head(Rest)
       ELSE fifo' = Rest /\ held' = "none"
  /\ isr' = (held' # "none")
  /\ UNCHANGED <<state, task, semOk, on, spc>>

NothingLeft ==
  /\ isr /\ rx # NoBuf /\ ~RxReady
  /\ isr' = FALSE
  /\ UNCHANGED <<state, task, bufs, count, held, fifo, on, spc>>

\* No buffer to receive into: what has come in is discarded.
Discard ==
  /\ isr /\ rx = NoBuf
  /\ fifo' = <<>> /\ held' = "none" /\ isr' = FALSE
  /\ UNCHANGED <<state, task, bufs, count, on, spc>>

Callback == Printable \/ Illegal \/ LineEnd \/ NothingLeft \/ Discard

-----------------------------------------------------------------------------
(* console_task *)

Woken == alive /\ ~isr /\ tpc = "wait" /\ sem > 0

\* The task takes the first line ready after the last one it executed.
Begin ==
  /\ Woken /\ state = "start"
  /\ sem' = sem - 1
  /\ cur' = NextOf(ready, last)
  /\ ready' = ready \ {cur'}
  /\ tpc' = IF cur' = NoBuf THEN "wait" ELSE "exec"
  /\ UNCHANGED <<state, alive, last, free, rx, text, semOk, input, on, spc>>

\* Woken in another state, the task ends.
Exit ==
  /\ Woken /\ state # "start"
  /\ sem' = sem - 1
  /\ alive' = FALSE
  /\ UNCHANGED <<state, tpc, cur, last, bufs, semOk, input, on, spc>>

\* Mutant: the buffer is also freed when it goes to the interrupt.
FinishTwice ==
  /\ alive /\ ~isr /\ tpc = "exec"
  /\ last' = cur
  /\ text' = [text EXCEPT ![cur] = <<>>]
  /\ rx' = IF rx = NoBuf THEN cur ELSE rx
  /\ free' = free \cup {cur}
  /\ tpc' = "wait"
  /\ UNCHANGED <<state, alive, cur, ready, count, input, on, spc>>

\* Mutant: the buffer is freed even when the interrupt has none.
FinishFrees ==
  /\ alive /\ ~isr /\ tpc = "exec"
  /\ last' = cur
  /\ text' = [text EXCEPT ![cur] = <<>>]
  /\ free' = free \cup {cur}
  /\ tpc' = "wait"
  /\ UNCHANGED <<state, alive, cur, ready, rx, count, input, on, spc>>

\* Mutant: the search for the next line does not move on.
FinishForgets ==
  /\ alive /\ ~isr /\ tpc = "exec"
  /\ text' = [text EXCEPT ![cur] = <<>>]
  /\ IF rx = NoBuf THEN rx' = cur /\ UNCHANGED free
                   ELSE free' = free \cup {cur} /\ UNCHANGED rx
  /\ tpc' = "wait"
  /\ UNCHANGED <<state, alive, cur, last, ready, count, input, on, spc>>

\* The command returns: its buffer goes to the interrupt, if that has none,
\* else to the free ones.
Finish ==
  /\ alive /\ ~isr /\ tpc = "exec"
  /\ last' = cur
  /\ text' = [text EXCEPT ![cur] = <<>>]
  /\ IF rx = NoBuf THEN rx' = cur /\ UNCHANGED free
                   ELSE free' = free \cup {cur} /\ UNCHANGED rx
  /\ tpc' = "wait"
  /\ UNCHANGED <<state, alive, cur, ready, count, input, on, spc>>

\* console_disable and console_enable, called by the command.
Disable ==
  /\ alive /\ ~isr /\ tpc = "exec" /\ state = "start"
  /\ on' = FALSE
  /\ UNCHANGED <<state, task, bufs, count, input, spc>>

Enable ==
  /\ alive /\ ~isr /\ tpc = "exec" /\ state = "start"
  /\ spc = "idle" \/ "late_enable" \in Races
  /\ on' = TRUE
  /\ UNCHANGED <<state, task, bufs, count, input, spc>>

TaskStep == Begin \/ Exit \/ Finish

-----------------------------------------------------------------------------
(* console_start and console_stop, called by one control thread *)

\* Mutant: a failure of OS_ThreadCreate is not looked at.
StartUnchecked ==
  /\ spc = "idle" /\ ~isr /\ state = "stop"
  /\ free' = Bufs \ {0} /\ ready' = {} /\ rx' = 0
  /\ text' = [b \in Bufs |-> <<>>]
  /\ cur' = 0 /\ last' = BufNum - 1
  /\ tpc' = "wait" /\ sem' = 0
  /\ \/ semOk' = TRUE /\ alive' \in BOOLEAN /\ spc' = "enable"
     \/ semOk' = FALSE /\ alive' = FALSE /\ UNCHANGED spc
  /\ UNCHANGED <<state, input, on>>

\* console_start: everything is set anew but g_console_rx_data.
Start ==
  /\ spc = "idle" /\ ~isr /\ state = "stop"
  /\ free' = Bufs \ {0} /\ ready' = {} /\ rx' = 0
  /\ text' = [b \in Bufs |-> <<>>]
  /\ cur' = 0 /\ last' = BufNum - 1
  /\ tpc' = "wait" /\ sem' = 0
  /\ \/ semOk' = TRUE /\ alive' = TRUE /\ spc' = "enable"
     \/ semOk' \in BOOLEAN /\ alive' = FALSE /\ UNCHANGED spc  \* a create failed
  /\ UNCHANGED <<state, input, on>>

EnableRx ==
  /\ spc = "enable" /\ ~isr
  /\ on' = TRUE
  /\ spc' = "mark"
  /\ UNCHANGED <<state, task, bufs, count, input>>

MarkStarted ==
  /\ spc = "mark" /\ ~isr
  /\ state' = "start"
  /\ spc' = "idle"
  /\ UNCHANGED <<task, bufs, count, input, on>>

\* Mutant: the callback stays enabled.
StopLeavesRx ==
  /\ spc = "idle" /\ ~isr
  /\ spc' = "terminate"
  /\ UNCHANGED <<state, task, bufs, count, input, on>>

\* console_stop
Stop ==
  /\ spc = "idle" /\ ~isr
  /\ on' = FALSE
  /\ spc' = "terminate"
  /\ UNCHANGED <<state, task, bufs, count, input>>

\* Mutant: the semaphore is released and the state left as it is.
TerminateForgets ==
  /\ spc = "terminate" /\ ~isr
  /\ sem' = IF semOk THEN sem + 1 ELSE sem
  /\ spc' = "join"
  /\ UNCHANGED <<state, task, bufs, semOk, input, on>>

Terminate ==
  /\ spc = "terminate" /\ ~isr
  /\ state' = "terminate"
  /\ sem' = IF semOk THEN sem + 1 ELSE sem
  /\ spc' = "join"
  /\ UNCHANGED <<task, bufs, semOk, input, on>>

Join ==
  /\ spc = "join" /\ ~isr /\ ~alive
  /\ sem' = 0 /\ semOk' = FALSE
  /\ state' = "stop"
  /\ spc' = "idle"
  /\ UNCHANGED <<task, bufs, input, on>>

ControlStep == EnableRx \/ MarkStarted \/ Terminate \/ Join

-----------------------------------------------------------------------------
Next == \/ Arrive \/ ReadElsewhere \/ Interrupt \/ Callback
        \/ TaskStep \/ Disable \/ Enable
        \/ Start \/ Stop \/ ControlStep

Spec == Init /\ [][Next]_vars

(***************************************************************************)
(* Fairness: an interrupt runs to its end, though characters that keep     *)
(* coming may keep it running; the threads run whenever they can, provided *)
(* the interrupt lets them; a command returns in the end.  Nothing obliges *)
(* anyone to type, or to start or stop the console.                        *)
(***************************************************************************)
Fairness ==
  /\ WF_vars(Callback)
  /\ SF_vars(Begin) /\ SF_vars(Exit) /\ SF_vars(Finish)
  /\ SF_vars(ControlStep)

FairSpec == Spec /\ Fairness

-----------------------------------------------------------------------------
(***************************************************************************)
(* Properties                                                              *)
(***************************************************************************)
Texts == UNION {[1 .. n -> Visible] : n \in 0 .. MaxLen - 1}

\* Every variable has its type; a line leaves room for its end of string.
TypeOK ==
  /\ state \in {"stop", "start", "terminate"}
  /\ alive \in BOOLEAN /\ tpc \in {"wait", "exec"}
  /\ cur \in 0 .. BufNum /\ last \in Bufs /\ rx \in 0 .. BufNum
  /\ free \subseteq Bufs /\ ready \subseteq Bufs
  /\ text \in [Bufs -> Texts]
  /\ sem \in 0 .. BufNum + 1 /\ semOk \in BOOLEAN
  /\ held \in Chars \cup {"none"}
  /\ fifo \in Seq(Chars) /\ Len(fifo) <= FifoLen
  /\ on \in BOOLEAN /\ isr \in BOOLEAN
  /\ spc \in {"idle", "enable", "mark", "terminate", "join"}

\* The buffer of the command being executed.
Executing == IF alive /\ tpc = "exec" THEN {cur} ELSE {}
Receiving == IF rx = NoBuf THEN {} ELSE {rx}

\* While the console task lives every buffer has one owner: it is free, or
\* the interrupt's, or ready, or being executed (the comments "buf state
\* change" of console.c).
OneOwner ==
  alive => /\ free \cup Receiving \cup ready \cup Executing = Bufs
           /\ free \cap Receiving = {} /\ free \cap ready = {}
           /\ free \cap Executing = {} /\ Receiving \cap ready = {}
           /\ Receiving \cap Executing = {} /\ ready \cap Executing = {}

\* cmd_sem counts the lines that are ready, and at the end one token more for
\* the task to end: it never wakes for nothing, and never misses a line.
TokenPerLine ==
  alive => sem = Cardinality(ready) + (IF spc = "join" THEN 1 ELSE 0)

\* The interrupt does not run without the semaphore it releases.
StoppedIsQuiet == isr => semOk

\* A console that says it is started has a task to execute commands.
StartedReads == state = "start" => alive

\* The buffer being executed, or the one executed last.
Base == IF Executing = {} THEN last ELSE cur

\* The lines that are ready, in the order they came in.
Queue == [i \in 1 .. Cardinality(ready) |-> text[Wrap(Base + i)]]
Doing == IF Executing = {} THEN <<>> ELSE <<text[cur]>>

Promise ==
  INSTANCE LineQueue WITH
    Lines <- Texts, Cap <- BufNum,
    queue <- Queue, doing <- Doing

\* Interrupt and task together execute each line once, in order.
ImplementsQueue == Promise!Spec

\* A line is executed in the end, unless the console is stopped.
LinesExecuted ==
  []<>~isr =>
    \A b \in Bufs : (b \in ready /\ alive) ~> (b \notin ready \/ state # "start")

\* The interrupt is not left without a buffer: when the task has executed a
\* command it goes on, unless the console is stopped.
InputGoesOn ==
  []<>~isr => (alive /\ rx = NoBuf) ~> (rx # NoBuf \/ state # "start")

\* console_stop returns.
StopReturns == []<>~isr => spc = "terminate" ~> spc = "idle"
=============================================================================
