# TLA+ models of the XR872 SDK

This directory holds TLA+ models of the parts of the SDK whose correctness
depends on orders of events that no test exercises: the over-the-air update
with the bootloader that must survive it, the event system `sys_ctrl` that the
framework and the applications are built on, network control as its most
entangled client, the buttons, and the console. TLC checks the models on small
instances, and TLAPS proves every safety property that a run checks, and the
safety part of the liveness properties, for all values of the constants.

    tlc -config MCOtaPower.cfg MCOtaSystem.tla      one run
    tlapm OtaSystem_proofs.tla                      updates and resets
    tlapm OtaUpdate_proofs.tla                      what becomes of one download
    tlapm Publisher_proofs.tla                      observers
    tlapm NetCtrl_proofs.tla                        the queue and network control
    tlapm NetLink_proofs.tla                        the link of the interface
    tlapm Buttons_proofs.tla
    tlapm Console_proofs.tla

`PROJECT.json` lists components, runs, theorems, hazards, findings, and for
each definition the source lines it stands for.

## 1. The system

| Component | State | Operations | Interacts by |
|---|---|---|---|
| OTA updater `src/ota`, `project/common/cmd/cmd_ota.c` | `ota_priv_t`, loop variables of `ota_update_image_process`, the target sequence in flash, `image_cfg_t` | `ota_get_image`, `ota_get_verify_data`, `ota_verify_image`, `ota_reboot` | flash with the bootloader; callbacks `init_cb`/`get_cb` with a file or the HTTP client |
| Bootloader `project/bootloader/main.c` | locals of `bl_load_bin`, `image_cfg_t` | `bl_load_bin`, `bl_upgrade` | flash; jumps to the application |
| Image library, flash driver | image headers, sections, checksums; flash pages | check, read, erase, program; `image_get_cfg`/`image_set_cfg` | called by both; the image library is prebuilt |
| HTTP client | session, body length | `HTTPC_open`, `HTTPC_get` | `get_cb` |
| `sys_ctrl` publisher and observers | list of observers, their `state`, `base->state`, a recursive mutex | attach, touch, detach, notify, create, destroy | callbacks; any thread may call |
| `sys_ctrl` queue and looper | a queue of 6 messages, one thread | sends (with or without waiting), handlers, wait for finish | queue, semaphores |
| Network control | `g_wlan_netif` with its flags and address, the DHCP client | processing of WLAN and network events, `net_config`, the status callback; `net_switch_mode` | observer of `sys_ctrl`; sends from the tcpip and WLAN threads; waits for the tcpip thread |
| File system and audio control | card and mount state | observers, send from interrupt or driver callbacks | `sys_ctrl` |
| System information | a record in a flash data area | load, save, default | `fdcm` (prebuilt) |
| Buttons | kind and state of every button, the current one, a timer and its mark | thread, timer callback, interrupt; create, start, stop, destroy | one binary semaphore, shared flags; callbacks |
| Console | line buffers with two bitmaps, a semaphore, a state | receive interrupt, task, start, stop, disable, enable | UART; executes the commands of all other parts |
| Power management | registered devices, suspend state | suspend in order, roll back, resume | called by drivers |
| AT commands | byte queue, parser state | commands | callbacks of the application |
| eFuse, chip drivers, audio, DHCP/MQTT/SNTP, smart configuration, JPEG | see `PROJECT.json` | | |
| lwIP, mbed TLS, libwebsockets, nopoll, shttpd, FreeRTOS, FatFs, cJSON, xz, cedarx | third party | | |

What is hard:

- **Crashes.** The power may fail at any instruction of an update and of the
  bootloader's own write to flash; a unit being erased or programmed is torn.
- **Failures that are swallowed.** A page error overwritten by the status of
  the next page, a failed `image_set_cfg` in the bootloader, verify data that
  cannot be read, a failed download that is still checked when `img_max_size`
  is used up.
- **Boundaries of a download.** When the end is reported (with the last bytes,
  with a short read, with a further read of nothing) differs by source.
- **Reentrancy and threads in `sys_ctrl`.** Callbacks change the list that is
  being walked; `observer_destroy` takes no lock.
- **Waiting.** Sends with `OS_WAIT_FOREVER` into a bounded queue, from the
  thread that empties it among others. Network control does so from the tcpip
  thread, for which the looper waits.
- **State that is read and acted on later.** A status of the interface is passed
  on after it was true; the address it is about is read again later still.
- **Interrupts.** A key or the timer comes while the buttons thread samples the
  keys; characters come while lines are executed, and while the console starts.

What makes each part correct: the updater and the bootloader must never leave
the device without an image to start and must start only complete ones; a good
download must take effect; nothing may spin for ever. The publisher must give
every event to every observer that is attached, once, and must not touch freed
memory. The queue must not deadlock its users. Network control must end up with
what is true, and leave no connected station without a DHCP client. A button
must get the states it was promised, in order, and its release. The console
must execute each line it took once and in order, and must not stop listening.

## 2. Modules

| Module | Contents |
|---|---|
| `OtaFlash` | constants, the variables of both programs and of the flash, what the image library answers |
| `BootLoader` | `bl_load_bin` and `bl_upgrade`, one action per branch |
| `OtaUpdate` | an update from the console command to the reboot, one action per call into flash or source |
| `OtaSystem` | the composition, the power, fairness and the properties |
| `SafeUpdate` | abstract: what an update promises |
| `EventBus` | abstract: what the publisher promises |
| `Publisher` | `publisher.c`, and of `observer.c` creation and destruction |
| `SysCtrl` | the queue, the sends, the looper and the wait for a handler |
| `NetCtrl` | `SysCtrl` composed with the driver, network control and the tcpip thread |
| `ButtonProtocol` | abstract: which states a callback is passed, and when |
| `Buttons` | thread, interrupts and application |
| `LineQueue` | abstract: a queue of lines |
| `Console` | interrupt, task, and the thread that starts and stops them |
| `OtaSystem_proofs`, `Publisher_proofs`, `NetCtrl_proofs`, `Buttons_proofs`, `Console_proofs` | theorems about the module they extend |
| `OtaUpdate_proofs` | theorems about one download and one run of the bootloader, on `OtaSystem_proofs` |
| `NetLink_proofs` | the link and the association, on `NetCtrl_proofs` |
| `MCOtaSystem`, `MCPublisher`, `MCNetCtrl`, `MCButtons`, `MCConsole` | instances for TLC |

### Updates

The image area of a sequence is a function from *units* to contents. A unit
stands for the grain at which flash is erased and programmed; `OTA_BUF_SIZE`,
`bl_size`, `img_max_size` and the sections are measured in units. Contents are
relative to the image that is installed: `erased`, `good` (the author's bytes),
`weak` (damaged, but the 16-bit section checksum still matches), `bad`. Thus
`image_check_sections` is "no section unit is erased or bad", the bootloader's
check of the application section is the same on fewer units, and the digest of
the verify data is "all section units are good". That a damaged image can pass
the checksum but not the digest is what separates the two checks in the code.

`mode` says which program runs and `pc` where it is. The actions of `OtaUpdate`
follow `ota_update_image_process` line by line: erase (unit by unit),
`init_cb`, the loop that skips the bootloader, `HAL_Flash_Open`, the loop of
`get_cb` and `HAL_Flash_Write`, `image_check_sections`; then the caller's
`ota_get_verify_data`, `ota_verify_image` and `ota_reboot`. `image_set_cfg` is
two steps, erase and write, in the updater and in the bootloader. What a
`get_cb` may return is `Received` (a file's short read; a HTTP body with a
Content-Length; a chunked one) and `Interrupted` (a peer that closes early, a
`select` error). `ota_priv` keeps its values over a command that is given up.

The environment injects the faults of `Faults`: `power`, failures of erase,
init, get, open, write, read, of the reading of verify data (`vread`), an early
close, a `select` error, an unreported page error (`page`), a failed
`image_set_cfg` (`set_cfg`), a bootloader read that fails (`load`), that of
`image_init` included, which leads to upgrade mode at once (`BlInitFails`).

Two of them are excluded from the strongest properties, because the properties
do not hold under them: with `set_cfg` the bootloader or the updater may leave
the record erased, and with `load` a sequence that is fine is passed over; in
both cases an incomplete image whose application section passes can be started.
They are `CfgFaults`. `SomeAppLoads` holds under both, `BootTargetUntouched`
under `load`. Under `vread` an
update is accepted on section checksums alone, so `Trusted` asks no more.

### sys_ctrl

`Publisher` has the list, the state of each observer, and the position of the
walk in `notify`. Since the mutex is recursive and held during `notify`, a call
of attach or detach happens either with the mutex free or in a callback, which
runs in the publisher's thread; both are one step. `observer_destroy` takes no
mutex and may come between any two steps, so the sweep at the end of `notify`
is split at `list_del` / `atomic_set`. The plain pointer walk is a position in
the sequence: nothing is unlinked during the walk, which is what the invariants
show. `Habits` names two things a callback may do that the code does not
handle; see the findings.

`EventBus` has no list. It has subscriptions, the observers an event is still
due to, and those it has passed. The mapping (`BusSub`, `BusDue`, `BusPast`)
reads them off the list and the position.

`SysCtrl` is the queue those events come from. A message is a record of what
decides its way: the event, whether there is a handler (`run`), whether its
destructor releases the semaphore of a waiting caller (`finish`), and whose.
`call[t]` is where thread `t` stands in a send: `try` (a send with a timeout,
which may give up once the queue is full), `insist` (`OS_WAIT_FOREVER`), `wait`
(`OS_SemaphoreWait` on a semaphore on its own stack). The looper takes a
message, runs its handler, gives it to the observers and destructs it, each a
step. It is itself one of the threads, because a handler or an observer may
send. Left out are the data that go with an event, and observers or handlers
that call `sys_handler_send_wait_finish`, which waits for the thread it is on.

### Network control

`NetCtrl` extends `SysCtrl` with a client whose events go round: the driver
reports an association, the looper runs `net_ctrl_msg_process`, which asks the
tcpip thread to set link, address, flags and DHCP client (`netifapi_*`) and
waits for it, and the tcpip thread reports each change of the interface through
`netif_status_callback` to the same queue.

The build uses lwIP 1.4.1 (`__CONFIG_LWIP_V1`) without core locking, with the
ARP check of a DHCP offer, with status callback, without AUTOIP; the branches
for lwIP 2 are not modelled. There is one station interface, and whether it
uses DHCP (`sysinfo->sta_use_dhcp`) is chosen in `Init`. `npc` is where the
observer stands between two waits, `req` the request it waits for (there is
never more than one), `todo` what the tcpip thread still does before it looks at
its mailbox again. A DHCP reply or timeout may come at any time the thread is
free; `Turns` lists, for each state of the client, the sequences of changes it
can cause, in the order of the code (`dhcp_bind`: address, up, state). `seek`
stands for SELECTING and BACKING_OFF, `renew` for RENEWING and REBINDING.
Retries are not counted. The driver may report the same thing twice.

`netif_up_handler` reads the address in one step and gives it to the driver in
the next. The history variables `stale` and `late` name two windows the code
has and the properties must exempt:

- `stale`: NETWORK_UP is handled when the interface is already down again, and
  `wlan_set_ip_addr` (`net_ctrl.c:534`) gives the driver an address it should
  not have until the next status.
- `late`: the looper has taken the interface down and cleared its address, and a
  lease is bound before it stops the client (`net_ctrl.c:286`). The client is
  off, and the interface up with an address nobody renews.

### Buttons

`pc` is where the thread stands, `scan` the keys it has still to sample. A key
that seems pressed is sampled after a debounce sleep, so keys change, the timer
expires and the application calls between any two samples. `armed` is the
one-shot timer, `timeup` the mark its callback leaves. The semaphore is binary
and stands for all keys and the timer. A button is named by its id mask; `type`
is what was created for the mask.

`button_destroy` takes no lock. It compares with `current_tiggered_obj` in one
step (`DestroyCheck`) and frees the button in a later one (`DestroyFree`), and
the thread goes on in between; `dying` holds the buttons between the two.

`Races` names four things that may happen in addition, none of which the code
handles:

- `late_expiry`: the timer of a short-long button expires while the thread is
  already handling a change (the finding);
- `destroy_in_press`: `button_destroy` makes its comparison after the thread has
  looked the button up and before it has pressed it;
- `press_in_destroy`: the thread looks the button up after the comparison and
  before the button is freed;
- `held_deinit`: `buttons_deinit` with a key pressed.

Each of the last three lets the thread use a freed button (`NoUseAfterFree` is
violated on the instance of the run as soon as one is added to `Races`). What
the C program does after such a use is undefined and not followed: a freed
button is left as a new one is found, disabled and not pressed. A theorem that
allows these races therefore speaks of behaviours up to that use.

`ButtonProtocol` has for each button only its kind and the state it was told
last. It follows the notes on the create functions in `buttons.c`.

### Console

The receive callback is an interrupt: no thread runs while it does (`~isr` in
every action of a thread), but characters keep arriving, and so it may go on.
`LineEnd` is the end of a line with the look at the character after a CR, which
is held over (`held`) to the next line; `Discard` is what happens without a
buffer. The first buffer is `rx`'s, the bitmaps are the sets `free` and `ready`,
and `NextOf` is the search round the ring from an index. Since
`g_console_rx_data` is never reset, `held` survives a restart of the console and
is an illegal character (0) at first. The text of a buffer nobody will read is
written as the empty sequence. Echo is off (`CONSOLE_ECHO_EN`).

`Races`: `early_input` (the interrupt is taken between the last two statements
of `console_start`; the finding) and `late_enable` (a command calls
`console_enable` after `console_stop` has disabled the callback: then the
callback can run without its semaphore. Nothing in the tree calls
`console_stop`).

`LineQueue` is a queue of lines and the line being executed. The mapping:
`Queue` is the text of the buffers that follow `Base`, the buffer being executed
or executed last, round the ring; `Doing` the text of the one being executed.

## 3. Runs

| Run | Instance | Shows |
|---|---|---|
| `ota_power` | 2 sequences, all protocols, damage `weak`, all faults but `CfgFaults` and `vread`, with and without an OTA area | `TypeOK`, `BootsTrusted`, `BootTargetUntouched`, `KeepsPromise` (refinement of `SafeUpdate`); 934 thousand states |
| `ota_live` | 2 sequences, every fault, damage `bad`, fairness | `SomeAppLoads`, `BootStarts`, `UpdateEnds` |
| `ota_effect` | 3 sequences, no fault, sound images, fairness | `BootsTrusted` with the other policy table and fallback order, `UpdateTakesEffect`, `SoundFileAccepted` |
| `ota_round_file` | a sound file, a multiple of the buffer long | violates `SoundFileAccepted` (finding 1) |
| `publisher` | 3 observers, 2 types, 2 subtypes, one of them `ALL_SUBTYPE` | `TypeOK`, `NoUseAfterFree`, `AttachedIsListed`, `ImplementsBus`, `CallsKept`, `NotifyEnds` |
| `publisher_unlisted` | and callbacks that detach what is not attached | violates `AttachedIsListed` (finding 2) |
| `publisher_retouch` | and callbacks that touch their own observer again | violates `CallsKept` (finding 3) |
| `net_ctrl` | a queue of 2; looper, driver and tcpip thread, with a static address one more thread | `TypeOK`, `NoDanglingSem`, `NoLostCaller`, `ToldTheTruth`, `DriverAgrees`, `ClientRuns`, `ReturnsAfterHandler`, `LinkFollows`, `WaitsEnd`; 484 thousand states |
| `buttons` | 2 keys, all five kinds, no race | `TypeOK`, `NoUseAfterFree`, `HeldIsCurrent`, `OverlookedOnlyForTimer`, `ImplementsProtocol`, `HeldReleased`; 512 thousand states |
| `buttons_late_expiry` | and `late_expiry` | violates `ImplementsProtocol` (finding 4) |
| `console` | 3 buffers, lines of up to 2 characters, a UART of 2, no race | `TypeOK`, `OneOwner`, `TokenPerLine`, `StoppedIsQuiet`, `StartedReads`, `ImplementsQueue`, `LinesExecuted`, `InputGoesOn`, `StopReturns`; 82 thousand states |
| `console_early` | and `early_input` | violates `StartedReads` (finding 5) |

**Bounds.**

*Updates.* `BlSize` 2 and `BufSize` 2 make the skip loop and the load loop turn
more than once with a short last turn; the sections are 2 units, one of them
the application, so a slot can hold an application without the rest; the verify
data are one unit, and one unit of the slot is spare. The lengths cut the
download inside the bootloader and the sections, end it exactly with the
sections, with and without verify data, and exceed the slot. Two and three are
the values of `IMAGE_SEQ_NUM` the policy table of `ota.c` is written for. The
number of updates, faults and resets is not bounded.

*Observers.* With three, one can be before, at and behind the iterator;
observers are created again after they are destroyed, without bound.

*Network control.* The queue holds 2 messages in place of 6
(`PRJCONF_SYS_CTRL_QUEUE_LEN`): three threads send to it, so it fills, sends
give up, and statuses wait behind each other. A fourth thread, which sends
events and handlers and waits for them, is there only in the configuration with
a static address, to keep the instance small; the proofs have it in both. The
number of associations, leases, messages and handlers is not bounded.

*Buttons.* Two keys make three masks, so a combined button can take over from
either single one. One key has the kinds long and short-long, the other short
and repeat, the pair combined: every kind occurs, and every kind can be
interrupted by the combined one. Gestures and creations are not bounded.

*Console.* Two buffers (`CONSOLE_CMD_LINE_BUF_NUM`) cannot be out of order;
with three, two lines can wait while one is executed. Lines are 3 long with
their end in place of 256, so they fill and are dropped; a UART of 2 holds a CR
and the character after it. Both ends of a line, an illegal character and a
printable one occur.

**Deadlock** is checked in all runs but `net_ctrl`. There the system really may
stop: when the queue is full, the tcpip thread waits for room in a status
callback, and the looper, which alone makes room, waits for the tcpip thread;
or the looper itself sends a status to the full queue (`net_ctrl.c:459`).

**Fairness.** `WF(BootNext)`: nothing else runs before the bootloader jumps.
`WF(OtaWork)`: the console thread that runs `cmd_ota` is scheduled, and each of
its calls returns. A silent peer ends in the HTTP client's timeout, which is a
failed get; errors of `select` do not go on for ever, which the code does not
ensure in the loop that skips the bootloader (`ota.c:152`), so `UpdateEnds` says
of that loop only that a reported end is heeded. No fault is ever needed
for progress: the steps only a fault allows are outside `OtaWork`. `BootStarts`
assumes that from some time on the power does not fail, and exempts a
bootloader that has passed over a sequence that loads because its own read
failed (`PassedOver`). `WF(Proceed)` of the publisher: its thread is scheduled and
callbacks return, which is what its callers must see to (`notify` warns after
one second).

Network control: looper, tcpip thread and senders are scheduled. `SF(Take)`:
the mailbox of the tcpip thread is served in order, so packets and timers that
keep coming cannot hold up the looper's message for ever. The two liveness
properties assume that the queue never fills (`Roomy`); when it does the system
may stop for ever, as said above, and neither property says anything of that.
`LinkFollows` further assumes that the association changes no more.

Buttons: `WF(Thread)`: the thread is scheduled. No key need move and no timer
expire. A `button_destroy` that is past its comparison goes on
(`WF(DestroyFree(m))`), since it waits for nothing. `SF(Look)` is there on account
of `Races`: without `press_in_destroy` a lookup comes before or after a
`button_destroy` of that button, and calls that follow each other must not keep
it from coming at all. In the code the lookup waits for nothing.

Console: the callback runs (`WF(Callback)`); the steps of the threads have strong
fairness, because an interrupt disables them again and again without stopping
them. A command returns (`SF(Finish)`). The liveness properties assume that the
interrupt ends again and again (`[]<>~isr`): characters that arrive faster than
the callback reads them would keep every thread from running.

## 4. Properties

- `SomeAppLoads`: no history of updates and failures destroys the last
  application `bl_load_bin` can load.
- `BootsTrusted`: a reset at any instant starts a complete image. The
  bootloader checks the application section only, so this rests on the order
  of the updater's steps, on the policy that never updates the running or the
  configured sequence, and on the fallback.
- `BootTargetUntouched`: no step writes the running sequence or the one a reset
  would start.
- `KeepsPromise`: the device implements `SafeUpdate`.
- `BootStarts`, `UpdateEnds`, `UpdateTakesEffect`: liveness of the two programs.
- `SoundFileAccepted`: an update with a sound image is not given up.
- `NoUseAfterFree` of the publisher: `notify` never uses an observer that
  `observer_destroy` freed.
- `AttachedIsListed`: an attach that returned 0 is in force, and no observer is
  stuck half detached.
- `ImplementsBus`: each event reaches every observer that stays attached, none
  twice, a touched one once. `CallsKept`: the same call by call, so that an
  attach cannot be undone by anything but a detach or its event.
- `NotifyEnds`: callbacks that attach and detach cannot keep a walk going.
- `NoDanglingSem`: no message will release a semaphore that has left the stack
  of its caller, or release it twice. `NoLostCaller`: a caller that waits and is
  not released has its message in the queue or with the looper.
  `ReturnsAfterHandler`: a caller that waits returns on account of its own
  handler. `WaitsEnd`: it does return.
- `ToldTheTruth`, `DriverAgrees`: once no status is under way, observers were
  last told what the interface is, and the driver has its address, however
  associations, leases and requests crossed each other before, `late` and, for
  the driver, `stale` excepted.
- `ClientRuns`: a connected station that uses DHCP is not left without a client
  that runs, unless a lease was bound while it was stopped (`late`).
  `LinkFollows`: the interface comes to agree with the association.
- `HeldIsCurrent`: a button that was told PRESS stays current until it is told
  RELEASE, so the thread does not forget it while other keys interrupt it.
- `OverlookedOnlyForTimer`: a change of the keys goes unnoticed only if its
  token was taken for the timer's. `HeldReleased`: otherwise a held button is
  told of its release. Without that exemption the property is false: the timer
  and the last key share one token.
- `ImplementsProtocol`: callbacks are passed the promised states in the promised
  order, and one button is held at a time.
- `NoUseAfterFree` of the buttons: no freed button is current or about to be
  pressed. It says that the comparison in `button_destroy` is enough over the whole
  of a gesture, interruptions and take-overs included, and no more: a call that
  overlaps the way from the lookup of its button to the press is not stopped by
  it. That is what `Races` leaves out of the run.
- `OneOwner`: each line buffer is free, or receives, or is ready, or is executed,
  and only one of these. `TokenPerLine`: the semaphore counts the ready lines.
- `ImplementsQueue`: each accepted line is executed once and in order.
  `LinesExecuted`, `InputGoesOn`: lines are executed, and reception goes on
  after all buffers were used up. `StoppedIsQuiet`: the callback never runs
  without the semaphore it releases. `StartedReads`: a console that says it is
  started has its task. `StopReturns`: `console_stop` returns.

## 5. Proofs

`OtaSystem_proofs`, for every size, download, set of faults and both numbers of
sequences:

- `TypeCorrect` from `TInv`, which adds to `TypeOK` the bounds that tie the
  counters of a download together (position, rest, buffer).
- `SomeAppAlwaysLoads` from `LoadInv`: in the application, the running
  sequence loads; it is not the target, so it survives the update; in the
  bootloader, so does the sequence that is about to be configured.
- `AlwaysBootsTrusted` and `RefinesSafeUpdate`, assuming `Faults \cap CfgFaults = {}`. The properties are not inductive: that
  the target of a reset is trusted is kept by a step of the updater only
  because that target is the running sequence or a configured one. `SafeInv`
  says so phase by phase: a configured sequence is trusted (`CfgTrusted`);
  without a record the first sequence that loads is trusted (`NoCfg`); the
  bootloader's choice so far agrees with the flash (`Booting`); in an update
  the running sequence is trusted and is what a reset starts, until the record
  is written, and then the target is trusted (`Updating`).
- `NeverWritesBootTarget` needs less: only that `image_set_cfg` does not fail.
  `RunsConfigured` then says that until an update changes the record it names the
  running sequence, whatever reads failed in the bootloader before.

`OtaUpdate_proofs`, for the same constants:

- `SoundDownloadAccepted` and `AcceptedIsInstalled`, assuming `Undisturbed`: every
  file is one whose end is noticed (`Whole`, which excludes the finding), nothing
  is damaged, and of the faults only those of the power, of the bootloader's
  reads and of the verify data happen; each of the others ends an update.
  `DInv` says, step by step of the download, that the target holds the first
  units of the image and is erased behind them (`Filled`), that a file has been
  read in whole buffers so far (`Aligned`), and that what is not yet read fits
  in what `img_max_size` has left.
- `UpdateIsBounded`, for every fault: `UpdateRank` is at most `MaxSteps`, and each
  step of the updater lowers it. The one turn that changes nothing is a
  `select` error while the bootloader is skipped; the fairness of `UpdateEnds`
  is about that turn and about nothing else.
- `BootIsBounded`, for every fault: `BootRank` is at most `N + 4`, and each step of
  the bootloader lowers it until the power fails.
- `BootStartsItsTarget`, assuming that the bootloader's reads do not fail, but with
  failures of `image_set_cfg`, from `BInv`: whatever that fails to write, what
  the record names loads, and the application runs it or there is no record
  (`Configured`), so that the bootloader's search (`Booting`) is the same after
  each reset.

`Publisher_proofs`, for any observers, events and subscriptions:

- `PublisherTypeOK` and `ObserverMemory` for every habit of callbacks, from
  `PInv`: an observer on the list is not idle, and one that is unlinked is
  detached until it is let go.
- `AttachedIffListed`, assuming that callbacks detach only attached observers,
  from `QInv`: off the list means idle, but for the one just unlinked, and
  behind the sweep nothing is detached.
- `PublisherRefinesBus`, assuming the same: one lemma for each action of
  `EventBus`. An observer touched again by its own callback may be taken for
  detached, which `EventBus` cannot tell from a detach. `CallsAlwaysKept` can, and
  assumes no habits at all (`Untouched`).
- `WalkIsBounded` for every habit and finitely many observers: `WalkRank` counts
  the places the iterator and the sweep may still come to. No callback can add
  to them, because the list never holds more than the observers there are.

`NetCtrl_proofs`, for any threads, events and length of the queue, and with
other threads in both configurations:

- First that network control uses the queue only as `SysCtrl` lets it
  (`NetIsSys`). `NetTypeOK`, `SemaphoresLive` and `HandlersHaveRun` then need
  the steps of the queue alone. The invariant is `SemInv`: a
  semaphore is released only for a caller that waits on it and whose handler has
  run, and a message that will release one bears the name of such a caller.
- `CallersAreServed` is the converse: each caller that waits is released, or
  there is a message that bears its name. `OnlyRoomHoldsLooper`: with room in
  the queue and something to do, the looper, or the tcpip thread it waits
  for, is able to take a step. It rests on `OwnCalls`: neither of the two ever
  waits for a handler, so they cannot wait for each other.
- `ClientKeptRunning` from three invariants of the composition. `Control`:
  which requests go with which place of the observer, and which work of the
  tcpip thread with which request. `Interface`: an interface that is up has an
  address and, with DHCP, a client, whichever work is still to do. `Linked`: the link is up and the
  client off only while the looper is about to start it.
- `ObserversToldTheTruth` and `DriverHasAddress` from `StatusInv`. Neither
  property is inductive, since it says nothing while statuses are under way.
  The invariant does: the last status sent, queued, in service or told is what
  the interface is, and its kind decides the driver's address; the one before
  it does not matter (`Statuses`, `Informed`). It rests on `Senders`: statuses
  come from the tcpip thread, and from the looper only for a static address,
  when no other can be under way. Each step is one of few `Moves` of that
  sequence of statuses. It holds as long as `~late`.

`NetLink_proofs`: `LinkIsAssociation` from `LinkInv`. `Serving`: where the looper is
tells whether the message it serves is a connection or its end, and once the
tcpip thread has answered the link is what the message says. `Reported`: the
last report sent, queued or served, or else the link, is the association.

`Buttons_proofs`, for any keys and kinds:

- `ButtonsTypeOK`, `HeldStaysCurrent` (from `Coupled`: a button told PRESS is
  the current one and in a pressed state) and `OverlookedForTimer` (from
  `Watched`: the keys are as seen, or a token is there, or the last one was not
  served by sampling) for every set of races.
- `ButtonMemory`, unless `button_destroy` overlaps the way from the lookup of its
  button to the press (`destroy_in_press`, `press_in_destroy`) or `held_deinit`.
  `Owned`: the current button and the one about to be pressed exist, and no
  `button_destroy` is past its comparison with either. `Ended`: the thread ends,
  and the buttons are freed at once, only with no button current.
- `ButtonsRefineProtocol` with no race, from `Owned` and `Timed`: an active timer,
  or a mark, belongs to the current button, which is of a kind that uses it and,
  if the timer runs once for a gesture, has not been told PRESS yet. That is
  what late expiry breaks; the other races break `Owned`.
- `HeldOnlyUnnoticed`, unless `held_deinit`: when the thread waits and last saw no
  key pressed, no button is held. `LettingGo`: a button that is current when the
  keys were found released is about to be let go of.
- `ServingIsBounded`, for finitely many keys and every race: `ServeRank` is lowered by
  each step of the thread until it takes the next token, and changed by no one
  else.

`Console_proofs`, for any number and length of line buffers. `Races` are
`early_input`, a line received while `console_start` runs, and `late_enable`, a
command that enables the console while `console_stop` runs.

- `ConsoleTypeOK`, `TokensCountLines`, `BuffersHaveOneOwner`, `ConsoleRefinesQueue` and
  `WakeupIsNeverLost` from `IInv`, with any races. Its core is `Ring`:
  the two bitmaps are arcs of one ring. After the buffer executed last come the
  ready ones, then the interrupt's, then the free ones (`Turning`); before the
  first start there are none (`Fresh`). That is why a search for any ready
  buffer from the last one finds the oldest line, which no part of the code
  says. `Tokens`: the semaphore counts the ready arc, with one token more
  when `console_stop` waits. `Session` says
  which steps of start and stop go with which states.
- `WakeupIsNeverLost` says that nothing waits for a task that sleeps: with a line
  ready, the interrupt out of buffers, or `console_stop` waiting, the task
  executes or has a token.
- `QuietWhenStopped`, unless `late_enable`, from `Quiet`: an interrupt at work, or a
  callback that is enabled, goes with a console that is started or being started.
- `StartedHasTask`, assuming `Races = {}`. The property is the one the finding
  violates; either race alone loses the task.

**Assumptions.** Where a theorem excludes a fault, a habit or a race, TLC finds the
property violated on the instance of its run as soon as that one is added: no
theorem assumes more than it needs. The sizes are natural
numbers as the `ASSUME`s of the modules say; sets of threads, keys and observers
are arbitrary, finite only where a theorem says so.

**Only model-checked** is liveness, which is out of the prover's reach: that steps
which are possible are taken. What else the liveness properties say is proved:

| Property | What is proved of it |
|---|---|
| `BootStarts` | `BootIsBounded`, `BootStartsItsTarget` |
| `UpdateEnds` | `UpdateIsBounded` |
| `UpdateTakesEffect` | `SoundDownloadAccepted`, `AcceptedIsInstalled`, `BootStartsItsTarget` and the two bounds |
| `NotifyEnds` | `WalkIsBounded` |
| `WaitsEnd` | `CallersAreServed`, `OnlyRoomHoldsLooper` |
| `LinkFollows` | `LinkIsAssociation`, `OnlyRoomHoldsLooper` |
| `HeldReleased` | `HeldOnlyUnnoticed`, `OverlookedForTimer`, `ServingIsBounded` |
| `LinesExecuted`, `InputGoesOn`, `StopReturns` | `WakeupIsNeverLost`, `TokensCountLines`, `BuffersHaveOneOwner` |

No recursive definition is used, so nothing is left unproved on account of
induction over data.

## 6. Findings

1. `src/src/ota/ota_file.c:78` sets `eof_flag` only on a short read. When the
   image behind the bootloader is a multiple of the buffer long, the end comes
   with a read of nothing, `HAL_Flash_Write` refuses a size of 0, and a complete
   update is given up (run `ota_round_file`).
2. `publisher.c:109`: a detach from a callback marks an observer that is not on
   the list; the sweep does not find it, a later attach returns 0 without
   inserting it, and `observer_destroy` refuses it (run `publisher_unlisted`).
3. `publisher.c:145`: after the callback, `notify` takes a touch made within
   the callback for the one it has just served (run `publisher_retouch`).
4. `buttons.c:118`: the release of a short-long button takes the timer's mark
   back only while the timer is active. One that has just expired leaves it, and
   the combined button that comes next is passed PRESS without its time, and
   then again (run `buttons_late_expiry`).
5. `console.c:392`: `console_start` enables the callback before it says that it
   has started. A line that waits in the UART wakes the task in between, which
   ends itself (run `console_early`).

## 7. Not modelled

- Of the updater: orders of the `ota_*` functions other than the two callers in
  `cmd_ota.c`; the heap, file handles and flash handles; the variants of the
  digest; HTTP headers, redirects and TLS. The `etf` command of chips
  of architecture 1 (`cmd_etf.c:37`), which marks the other sequence verified
  and reboots into it; the chips built here are of architecture 2.
- Of the bootloader: decompression, which is part of the one check of the
  application section.
- Of observers: what a trigger does, and threads of thread observers.
- Of the queue: the data of events and their destructors; the priority queue
  with its sorted container, which `SYS_CTRL_PRIO_QUEUE` (0) leaves out.
- Of network control: `net_switch_mode` and the life of `g_wlan_netif`, whose
  creation and deletion are in a prebuilt library; access point and monitor
  mode; lwIP 2; failures of memory in `dhcp_start`; DHCP packets and lease times.
- Of buttons: the analogue keys and their levels; debouncing beyond the sleep;
  the order of steps in `buttons_init`.
- Of the console: `console_write`; what commands do, apart from the updater's.
- The components `PROJECT.json` lists as not modelled, with the reasons there:
  above all the drivers, whose correctness is against hardware the sources do
  not define; the prebuilt libraries; and vendored projects, which are most of
  the lines of this tree and have projects of their own.

Hazards without a property are in `PROJECT.json` with the reason. Most of them are
windows the code leaves open and no comment speaks of. Some are in the models,
and the properties that would forbid them assume them away or exempt them; to
see a trace, take the assumption back:

| Hazard | Left out by | Breaks |
|---|---|---|
| a button looked up or pressed while it is destroyed, `buttons.c:549` | `destroy_in_press`, `press_in_destroy` not in `Races` | `NoUseAfterFree`, `ImplementsProtocol` |
| a deinit with a key held, `buttons.c:505` | `held_deinit` not in `Races` | the same |
| a command that enables the console during `console_stop`, `console.c:463` | `late_enable` not in `Races` | `StoppedIsQuiet` |
| a lease bound while DHCP is stopped, `net_ctrl.c:286` | `~late` | `ToldTheTruth`, `DriverAgrees`, `ClientRuns` |
| NETWORK_UP served too late, `net_ctrl.c:534` | `stale` | `DriverAgrees` |
| a full queue that stops looper and tcpip thread, `net_ctrl.c:459` | `Roomy`, no check of deadlock | `LinkFollows`, `WaitsEnd` |

Of a `get_cb` that succeeds with nothing for ever (`ota.c:152`), `UpdateEnds`
assumes that there is none. Not in the models are a key during `buttons_init`,
`console_stop` called by a command, and what should become of the tail of a
dropped line, which is executed as a command; a repeat shorter than its event is
in the model and has no property.

## 8. Possible extensions

1. The composition of `SysCtrl` and `Publisher`: that each accepted event reaches
   its observers, over the queue and the list together.
2. `ThreadObserver` and the semaphore observer: a trigger that overwrites the
   arguments of a running thread; a wait with timeout against a late event.
3. `net_switch_mode` with an interface that is created and freed, once its
   library is available as source.
