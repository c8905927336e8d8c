# Verification of zephyr-start

TLA+ models of the programs in this repository that have something to get wrong:
threads, interrupts, sockets, flash and browsers that meet in orders nobody
tested. The repository is a collection of Zephyr applications under `app/demos`;
each is a system of its own, so there is one module per component and no module
that composes them all. Paths below are relative to `app/demos`.

## Inventory

| Component | State | Operations | Hard part | What makes it correct |
|---|---|---|---|---|
| CAN traffic generator, `frdm_can_traffic_generator/src/main.c` | `tx_queue_sem`, `tx_fail_streak`, `generator_enabled`, back-off time, the controller's mailboxes | periodic set of three frames; shell `can_gen start, stop, rate, burst, restart, status`; `tx_callback`; auto-recovery | main thread, shell thread and interrupt share everything without a lock; a restart refills the semaphore under a sender | no permit is lost; a stall ends; a restart happens only after a stall |
| Node's WebSocket server, `ethernet_bridge/t1s_device/src/main.c` | `rgb`, `state_lock`, `ws_clients`, one thread per slot | accept, hello, receive, apply, broadcast, close | slots are used without the lock; descriptors are reused; sends block with the lock held | tabs show the LED's colour; slots come back |
| LIGHT STUDIO dashboard, `t1s_device/web/index.html` | cards, the open editor, throttle timer and dirty flag | probe, upsert, drop, edit, throttled send, firmware upload | messages cross; an edit waits for a timer | what is shown is what the node does |
| Node's firmware update, same files | `fw_in_progress`, flash_img's position and buffer, slot0 and slot1, MCUboot's mark and confirmation | one handler call per body piece, abort, confirm, delayed reboot | power loss, flash errors, aborted and overlapping requests | only whole images are started, a bad image is undone, the node serves again |
| Web Serial tools, `frdm_shell_bench_tool__i2c_gpio/scripts`, `frdm_can_shell_monitor_cdc/scripts` | promise queue `commandTail`, `pending`, timers, filter identifiers | connect, disconnect, run command, poll, capture | timeouts against late answers, disconnect against a pending command | commands settle; an answer belongs to its command; filters are removed |
| CAN counter, `can_counter/src/main.c` | two message queues, a poll-triggered work item, the last state and error counters | send, receive, LED work, state polling, state-change callback | interrupt writes what a work item reads; re-arming the poll; full queues | no LED command waits for the next frame; the last state is reported |
| littlefs demo, `littlefs/src/main.c` | boot counter file, pattern file | mount, list, count, create or increment pattern, unmount | power loss and errors between steps; bytes that wrap | the files follow the boots; nothing stays open |
| LAN8651 demo, `ethernet_bridge/lan8651_t1s_demo/src/main.c` | `ipv4_ready`, UDP and HTTP server loops, sockets | address event, wait, transmit, echo, status page | event before or after the wait; a shared socket pool | no address is missed, no socket lost, a server comes back |
| Display demo, `display/src/main.c` | next strip, grey level | geometry from the resolution, clearing, drawing | rounding to zero, rectangles larger than the screen, pixel formats | all drawing is inside the screen and begins |
| BLE shell, `rw612-ble-shell/src/main.c` | `hrs_registered`, `hrs_simulate`, heart rate | `hrs simulate on`, `off`, the beat | shell and main share a flag | off ends advertising and, but for one, the beats |
| Synchronization, `synchronization/src/main.c` | two semaphores | start, take, greet, give | threads that start, wait and are suspended | strict alternation |
| Ethernet bridge, `ethernet_bridge/bridge/src/main.c` | slots, the bridge's members | find, add, bring up, address, restart DHCP | any order and kind of interfaces | every port joins |
| DHCPv4 client, `dhcpv4_client/src/main.c` | registered callbacks | register, start, report | a lease before the callbacks | every lease is reported |
| I2C shell, `i2c_shell/src/main.c` | none | read and convert a temperature | signs | what is shown was measured |

Parts with no logic of their own (greetings, `app/hello_world` among them, the
bench tool's firmware over USB CDC, register demos, LVGL, concept pages, the
constant tables of the board `rt1050_custom`) are listed in `PROJECT.json` with the
reason for leaving them out. Devices and dashboards interact by WebSocket and HTTP; the
CAN and Web Serial tools by bus and shell; the other demos stand alone.

## Modules

### CanGenerator

`CanGenerator.tla` follows `send_frame`, `send_demo_frames`,
`restart_can_controller` and `reset_tx_semaphore` step by step, for two callers:
`pc["main"]` and `pc["shell"]`. A step ends wherever another actor can come
between: after each semaphore operation, each driver call, and between load and
store of `tx_fail_streak++`. The interrupt is `TxOk` and `TxError`.
The shell runs only while main waits (sleep, or inside `can_start` and
`can_stop`), because Zephyr's main thread has the higher priority; the interrupt
runs at any time. `can_stop` may report each queued frame to `tx_callback` or
drop it, since drivers differ. Time is reduced to "the back-off is over". The
failure streak is kept up to `RECOVERY_FAILURE_LIMIT`, the only value it is
compared with. A driver call may fail at any time, `can_send` with an error other
than a full queue too. `failures` is a history variable with the number of failures that
really happened since the last success or restart.

### LightStudio

`LightStudio.tla` has the node's slots and client threads, the connections, and
the tabs. A socket is its descriptor number, and a closed number goes to the next
connection, while a slot may still hold it. A broadcast is one step per slot,
each waiting for room in that client's stream, with `state_lock` held; connection
and slot changes do not take the lock, as in the code. A tab has one card, an
editor and the throttle of `queueSend`. `touched`, `writings` and `discarded` are
history variables. `MCLightStudio.tla` gives it model values.

### FirmwareUpdate

`FirmwareUpdate.tla` has one action for a call of `firmware_handler`, with the
piece and the `final` flag the HTTP server chooses, and the whole handler inside:
initialisation, buffered write, mark, answer, scheduled reboot, or the error path
at each of the calls that can fail. flash_img, MCUboot and the HTTP server are
external: flash_img buffers the end of what it is given until it is flushed and
erases page by page, so old contents stay beyond; MCUboot swaps a complete marked
image in for one boot and back unless confirmed. `main` is two steps: `Main` up to
`http_server_start`, `Confirm` from there to the end, and uploads may come in
between (`Up`). An image is a sequence of
pieces; "working" means that it reaches the end of `main`. `gambled` records that
an upload was handled by an image that is not confirmed.

### WebSerial and WebPages

`WebSerial.tla` is the connection and the command queue, which both pages have in
the same words: `queue` and `running` are the chain of promises behind
`commandTail`, `pending` the one global the read loop appends to, `timers` the
timeouts that are armed. The board's shell (external) executes lines in order and
prints output, then a prompt; a received CAN frame is printed with a prompt too.
`disconnect` has three steps because it awaits three times; the read loop takes a
new reader after `reader.cancel`, so text arrives until `port` is cleared at the
end. `WebPages.tla` adds
the bench tool's buttons and poll, and the monitor's `startCapture` and
`stopCapture`; a settled promise resumes its waiters before any other event
(`Due`), as promise reactions do. `last`, `quiet`, `own` and `cut` are history.

### CanCounter

A sender and a receiver of the same program. The driver's interrupt fills the two
message queues and drops what does not fit; the kernel's work queue, poll and
`k_work_submit` are external. The state-change callback writes two variables that
the work item reads in two steps. `polling` means that the work item waits for
its event, so `Resubmit` is where a wake-up could be lost; a `k_work_poll_submit`
that fails is only logged there (`unpolled`) and ends `main` at the first time. The
counter is kept modulo `COUNTER_WRAP` (2^16 in the code); each frame also carries
its position `nth`, and `total` is the number of frames made, both history. Results
of `can_send` are ignored as in the code: a frame that is not sent leaves a gap.

### The smaller demos

`MCDemos.tla` checks eight components in one run: `demo` is the program on the
board, and only its component moves, so the state space is a sum.

- `Littlefs.tla`: main's stages per boot. Every call may fail, power may fail
  anywhere, and littlefs makes a file durable as a whole when it is closed (a
  failed close may have done so or not). `Pattern(n)` is the closed form of the
  file after n boots, against which the code's increments are checked.
- `Display.tla`: the geometry, buffer size and pixel formats as operators, the
  clearing loop and the two rectangles as actions.
- `Synchronization.tla` implements `TurnTaking.tla`: two speakers, strictly in
  turn and for ever. The mapping takes who may speak from the last line on the
  console and from whether main has started both threads.
- `Lan8651.tla`: main, event callback, UDP and HTTP servers as four actors over
  one pool of sockets.
- `BleShell.tla`: the commands in two steps each, around the call to the stack.
  `bt_le_adv_stop` may fail, which the code ignores; `stop_failed` is history.
- `Bridge.tla`, `Dhcpv4Client.tla`, `I2cShell.tla`: the flags, orders and
  conversions named in the inventory. `net_if_up` of the bridge may fail, with no
  consequence in the code.

## Runs

| Run | Bounds | Shows |
|---|---|---|
| `generator` | depth 2, limit 2, 3 mailboxes, sets of 2 | permits are conserved, a controller that a failed restart left stopped is started again, a stalled generator frees its mailboxes, traffic resumes on an acknowledging bus |
| `generator_streak` | the code's values: depth 3, limit 4, sets of 3 | **violation**: a success between load and store of the streak is forgotten and the controller is restarted without a stall |
| `studio_sync` | 2 tabs, 2 slots, 2 sockets, 2 colours, one message in each direction | watching tabs are right whenever nothing is on its way; so is everybody while one connection writes and no edit was given up |
| `studio_live` | the same, one colour, editors stay open | slots of clients that left come back |
| `studio_crossing` | two writers | **violation**: a command crosses a broadcast and its tab stays wrong |
| `update` | 3 images (one broken), 2 pieces | a clean upload marks the whole image; a broken image is only ever on trial; the node serves again |
| `update_truncated` | the same, 3 pieces | **violation**: the rest of a failed body is taken for a new image and marked |
| `update_dashboard` | the same, 3 pieces | **violation**: a failed upload is announced as a reboot |
| `demos` | 260 boots, a pattern of 19 bytes, 2 faults; 20 resolutions in 7 formats; 4 sockets, 3 network faults; heart rates from 90 to the wrap at 160; 4 interfaces of 3 kinds, 2 slots; 2 DHCP links; 11 temperatures | the eight demos keep their promises, see below |
| `can_counter` | queues of 2 as in the code, 3 counters that wrap at 2, 2 state changes, 1 foreign frame | no lost wake-up, the LED follows, counters are printed in the order they were sent and at most once, across the wrap, the last state is reported with its own counters |
| `webserial` | 3 commands of the bench tool or 9 of the monitor (one whole capture with two filters), 1 upset, 2 filters | a command to a quiet board gets its own answer, commands settle, filters are remembered |
| `webserial_reconnect` | 2 commands, one reconnect | **violation**: after a disconnect with a command pending no command is ever sent again |

Why the bounds are enough: the generator's argument counts permits, and two
permits with two failures already give a stall that takes several frames, a
restart by either thread in the middle of the other's, and one mailbox more than
the semaphore admits (the theorems below hold for every size). In the studio two
tabs are one that acts and one that is affected, two slots make the broadcast
loop pass over a slot that changes behind or before it, and as many sockets as
slots force reuse. Two pieces are a first call, which starts the
upload and leaves its data in flash_img's buffer, and a last one, which flushes it;
with three there is a call that does neither (the safety theorems hold for every
number).

260 boots pass the wrap of the counter at 256 and the pattern's bytes at theirs;
19 has the remainder modulo 8 that the code's 547 has, so the last byte is outside
the grid of counting bytes as there. The resolutions have both sides of every
comparison in the geometry, with remainders; four sockets are what main, both
servers and one HTTP client need at once (the build has six), so that a leak
shows. A counter that wraps at 2 repeats a number among three frames, so that
order can no longer be read off the numbers; the proof is for every modulus. One
upset is enough for the Web Serial pages to lose step for good.

Properties with conditions say so because the code needs the conditions:

- `OwnAnswer` is about commands written while the board owed nothing: a late
  answer is otherwise taken for the next command's, and so is the prompt that
  answers the newline sent on connecting. `FiltersRemembered` assumes that every
  command got its own answer, and `CommandsSettle` that no disconnect forgot one;
  `ConnectedQueries` is the same without that condition, and violated.
- `WritesInBounds` is about displays at most eight times as wide as high (beyond,
  the rectangle is higher than the screen) and `AnimationStarts` about at least
  five lines (below, `h_step` is 0 and the clearing loop never ends).
- `NoLostWakeup` excludes the failed `k_work_poll_submit`, after which nobody polls
  the queue, and `AdvertisesOnlyWhileOn` the failed `bt_le_adv_stop`: each says that
  this is the only way to lose the LED commands, or to advertise what is not
  simulated.
- `StateReported` holds with finitely many foreign frames: with an endless stream
  the LED handler never leaves its loop and the work queue runs nothing else.

- `LoneWriterInSync` excludes a second writing connection (the crossing above)
  and edits given up by the throttle: `queueSend`'s timer sends only if an editor
  is open, so closing it within 40 ms of a change loses the change.
- `BrokenImageOnTrial` and `ServesAgain` exclude uploads handled by an image
  that is not confirmed. `main` starts the server before it confirms and only logs
  a confirmation that failed; an upload then overwrites the image MCUboot would return to.
- `CleanUploadIsWhole` is about requests without a flash error and with data in
  the final call; without these conditions it is the violated `MarkedIsWhole`.

## Fairness

- Generator: weak fairness of the main thread (highest priority, nothing above it
  but interrupts) and of the passing of the back-off; strong fairness of
  successful `can_stop` and `can_start` in main (a restart that is tried again and
  again succeeds some time), of a `can_send` that finds room on a started
  controller, and of `TxOk` (on an acknowledging bus not every frame fails).
  Nothing about the shell or about nodes joining: `TrafficResumes` assumes
  explicitly that the bus acknowledges for good.
- Studio: weak fairness of client threads and of a tab's message handling, strong
  fairness of taking `state_lock` (Zephyr queues waiters of equal priority in
  order), weak fairness of the report of a hang-up by `poll`. A tab that stops
  reading for ever is outside: the blocking send would then hold the lock for
  ever.
- Update: weak fairness of MCUboot and of the crash of a broken image, strong
  fairness of `Main` and `Confirm` in a working image, so that power does not fail
  for ever in the same place. A broken image that hangs instead of crashing needs
  a power cycle; the code configures no watchdog.

- Demos: weak fairness of the drawing loop, of main and both threads of the
  synchronization demo (equal priorities, every wait sleeps) and of the two
  servers. An HTTP client that connects and stays silent for ever is outside
  fairness' reach: `recv` has no timeout, and the model lets every client send
  or leave.
- CAN counter: weak fairness of main's start, of the work queue and of the two
  threads.
- Web Serial: the event loop runs what is due, timers fire, a disconnect that has
  begun ends, the board executes what it received. Losing text is a fault, not a
  lack of fairness. Nothing is assumed about the user.

## Proofs

Eight modules prove, for all values of the constants that the named assumptions
admit, every invariant and every action property that the passing runs check, the
safety part of the one refinement, and a few facts no run states.

| Module | Inductive invariant | Theorems |
|---|---|---|
| `CanGeneratorProofs` | `TypeOK /\ PermitInv` | `GeneratorInvariant`, `GeneratorTypeOK`, `GeneratorNeverLeaks` |
| `LightStudioProofs` | `StudioIInv` | `StudioInvariant`, `StudioTypeOK`, `LockIsExclusive`, `WatchersAreInSync`, `LoneWriterIsInSync` |
| `FirmwareUpdateProofs` | `UpdateIInv` | `UpdateInvariant`, `UpdateTypeOK`, `BrokenImageIsOnTrial`, `UploadIsWhole` |
| `WebPagesProofs` | `PagesIInv` | `PagesInvariant`, `PagesTypeOK`, `AnswersAreOwn`, `FiltersAreRemembered`, `ForgottenBlocks` |
| `CanCounterProofs` | `CounterIInv` | `CounterInvariant`, `CounterTypeOK`, `WakeupIsNotLost`, `LedIsCurrent`, `CountersAreInOrder` |
| `LittlefsProofs` | `StorageIInv` | `StorageInvariant`, `FilesAreFollowed`, `PatternIsBehind`, `FilesAreClosed` |
| `DisplayProofs` | `DisplayIInv` | `DisplayInvariant`, `EveryWriteInBounds`, `ScreenIsCleared`, `PixelsDecode` |
| `DemosProofs` | `LanIInv`, `BleIInv`, `DhcpIInv`, `SyncIInv`, `BridgeIInv` | `AddressIsNotLost`, `SocketsAreAccountedFor`, `OneLateBeat`, `AdvertisingIsSimulated`, `NoLeaseUnreported`, `TemperatureIsMeasured`, `GreetingsAlternate`, `EveryPortJoins`, `DemosTypeOK`, `DemosRunComponents` |

The large invariants (`StudioIInv`, `UpdateIInv`, `PagesIInv`, `CounterIInv`) were
model-checked on the runs' instances before they were proved. The assumptions are
the ones named in the modules: sizes are positive, special values are not members
of the sets they stand beside, resolutions fit the driver's 16 bits. Where a
property has conditions (above), the theorem has the same ones.

**Generator.** `NoPermitLeak` is not inductive: it says nothing of the states in
between. `PermitInv` says what each thread owes at each point (one permit while it
is sending, the whole queue between `can_stop` and `k_sem_reset`, the rounds left
in the refill loop) and that permits, frames in flight and debts together never
fall below the depth. It is an inequality, because a refill under a sender that
holds a permit makes the sum larger; the semaphore's limit takes the surplus away.
One lemma each for the steps of `send_frame`, the restart, the other thread steps
and the environment; `StepConserves` has the arithmetic.

**Studio.** `SlotsOwnSockets` is the core: a descriptor in use belongs to exactly
one serving thread, while a slot that waits to be freed may name a descriptor that
already serves somebody else (the store to `ws_clients` comes after the close). It
makes the broadcast well defined: what it finds in a slot is a live connection, a
dead descriptor, or the sender. `Uplinks` and `Downlinks` say what the streams can
hold. On these rest `Watched` (a tab that has not touched its card shows the LED's
colour at the end of its inbox, or its slot's hello or somebody's broadcast has
not come to it yet), `Commands` (a colour on its way was chosen on that
connection), and for the writer `NothingWritten` (before the first edit there is
no command and each tab gets one state message, so none is left to overwrite the
edit) and `LoneWriter` (afterwards all commands come from one connection, nothing
comes back over it, and the last command is the colour it shows, unless the
throttle has yet to send it).

**Update.** `UploadInStep`: what flash_img was given since its init (written, then
buffered) is no longer than what the request handed over and, as long as nothing
failed, the same pieces in order. The final call of a clean request therefore
marks the whole image (`CleanUploadIsWhole`), after every history of aborts,
errors and resets. `TrialIsSafe`: an image that is confirmed or has started the
server works, and an unconfirmed one has a whole working image in slot1 and no
mark, so MCUboot can only go back. It holds while `gambled` is false, as the
property does.

**Web Serial.** `InOrder` and `OnePending`: the chain of promises settles the
commands one by one, and the running one is pending with the only timer, until a
disconnect forgets it. `Undisturbed` gives `OwnAnswer`. For the filters, `Answered`
follows the running command through the writes, the board, the line and the
response (`Sent`, `Received`, `Printed`, `Arrived`), `InStep` keeps the monitor's
function at the command it awaits, and `Follows` says which filters the controller
has `Before` the awaited command and `After` it. `ForgottenBlocks` is the other
half of the violated `ConnectedQueries`: a forgotten command is never settled and
nothing behind it starts, in whatever way the page goes on.

**CAN counter.** `LedItem`: once submitted, the LED work item is in exactly one
place (waiting for its event, queued, or running), unless a resubmission failed,
and while it waits the queue is empty. `LastCommand` relates the newest command to
the last one queued that is no remote frame; `CountsInOrder` keeps the positions
of the queued frames between what was printed and what is still to be sent, with
frames dropped anywhere, and `CountsNumbered` says that each carries its position
modulo `COUNTER_WRAP`, which needs the arithmetic of one remainder (`WrapStep`).

**Smaller demos.** Littlefs: `BufferIsNext` (what is open holds what the next boot
is expected to leave), `DriftIsAccounted` (each boot the pattern missed cost a
fault) and the closed form `Pattern` against the increments, where the bytes wrap.
Display: the strips cover the lines above the next one; the rest is the arithmetic
of the geometry and of the packed pixels. LAN8651: main waits only with the callback
registered. Synchronization: there is exactly one turn, held by one of the threads;
every step of the demo is a step of `TurnTaking` or leaves it alone. Bridge: a loop
invariant over the visited ports. `DemosRunComponents` carries the components'
safety over to the composition that the run `demos` checks.

Only model-checked:

- Liveness, which is out of the prover's reach: `StoppedComesBack`, `Unstalls`, `TrafficResumes`,
  `SlotsReclaimed`, `ServesAgain`, `AnimationStarts`, `ServersComeBack`,
  `StateReported`, `CommandsSettle`, and of `TakesTurns` the fair part (its safety
  part is `GreetingsAlternate`).
- The violated properties, which are counterexamples and need no proof.

## Not modelled

- The period of the generator (`can_gen rate`), its counters, frame contents, and
  Zephyr's own `can` shell commands on the same controller.
- JSON, PWM arithmetic, names and versions, several nodes in one dashboard.
- Creating a thread in a slot whose last thread has not ended yet (the store that
  frees the slot comes before the end of the thread): undefined in the kernel.
- A failing `http_server_start` in an otherwise working image.
- littlefs with `CONFIG_APP_WIPE_STORAGE` (the operator is there, the run has the
  default), a partition of another size, a file that is not a pattern.
- Display: background colour, waits, e-paper refresh, the end after 1024 frames
  in the test configuration, byte order of a big-endian target.
- Web Serial: parsing and display of answers, the plot, the cameras, the monitor's
  other buttons beside a capture, a second click while a function or a disconnect
  is under way, and what the browser's streams do beyond what the pages rely on.
- Forwarding in the bridge, the DHCP exchange, the Bluetooth stack: Zephyr's.
- `boards/nxp/rt1050_custom`: tables of register values for the boot ROM.
- The other components listed as `not_modelled`, which print or blink.

## Plan

1. A theorem for what a session of uploads may assume after `gambled`: which images
   a device can still be left with.
2. A dashboard with two nodes that share one throttle; overlapping captures. Their
   invariants would extend `Editors` and `InStep`.
