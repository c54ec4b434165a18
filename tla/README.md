# ParsecCouchLink in TLA+

ParsecCouchLink carries the controller input of a remote player from a PC to a
console.  `couchlink`, a Rust program on the PC (`bridge/`), reads controllers
and sends their state over Wi-Fi (or USB serial) to a Raspberry Pi Pico W or
Pico 2 W (`pico-bridge/`, C), which presents itself to the console as a USB or
Bluetooth controller.  Nothing else connects the two: a datagram every few
milliseconds, a handful of commands, and a USB serial protocol for the setup.

This directory models the parts of that system whose correctness depends on the
order of things: interrupts against the main loop, datagrams that are repeated
and late, resets and power cuts between two writes, timers that race answers.
All paths below are relative to the repository.

- [1. The system](#1-the-system)
- [2. The modules](#2-the-modules)
- [3. The runs](#3-the-runs)
- [4. The proofs](#4-the-proofs)
- [5. Where code and comments disagree](#5-where-code-and-comments-disagree)
- [6. What is not modelled](#6-what-is-not-modelled)
- [7. Where it could go on](#7-where-it-could-go-on)

## 1. The system

### On the Pico (`pico-bridge/src`)

| component | state | operations | what makes it correct |
|---|---|---|---|
| credential storage, `flash_creds.c` | two flash sectors, each with a generation and a CRC | load, store | a power cut at any moment leaves the old record or the new one; the answer says which |
| input path: `net_udp.c` (receive), `gamepad_state.h`, `xinput.c`, `watchdog.c` | the pad, the stamp of the last packet, the report last sent, `zeroed` | receive a state, build and send a report, watchdog tick | no button stays held on a dead link; newer input is not cleared; silence reaches the console |
| reset cause and boot mode: `reset_reason.c`, `fault_handler.c`, `boot_mode.c`, `boot_mode_policy.c`, `main.c` | watchdog scratch registers, breadcrumb in uninitialised RAM, capture marker, stored persona | classify, decide, request setup mode, store persona, start a capture, fault, resets | a boot lands where the life before asked; one-shot requests act once; the cause reported is the cause |
| Wi-Fi: `wifi.c`, `heartbeat.c`, `main.c` | join state, last error, failures in a row, retry time, lease guard, bad-password watch | start a join, task (one turn), re-initialise the radio, bounce to setup mode | never off the network for good; a bounce has its reason |
| pairing, Pico side: `udp_auth.c`, `net_udp.c` | key, nonce, last counter, opening window, pending commands | answer a discovery, check a frame, act on it, net-up | commands act once and in order; a pending reboot belongs to this boot |
| replies: `net_udp.c`, `reply_gate.c` | pending reply, gate | log chunks, diagnostics, keepalives | a reply flood is bounded, a reply is not lost for good |
| USB serial: `cdc_proto.c`, `cdc_handlers.c` | receive buffer, pending reboot | frame parser, command handlers | a frame boundary is found again after noise |
| Bluetooth output: `bt_hid.c` | connection, request in progress, report, peer, retry and its count | one handler per event of BTstack, `bt_hid_task`, re-initialisation with the radio | reports never stall, the last state reaches the host, a host that went away is called back |
| log ring: `diag_log.c` | ring, read cursor | append, read | a reader sees a gap where bytes were lost |
| other personas and USB descriptors | - | handlers of fixed protocols | layout |

The keyboard of the input path (`keyboard_state.h`, `hid_kbd.c`) takes the same
way as the pad.

### On the PC (`bridge/src`)

| component | state | operations | what makes it correct |
|---|---|---|---|
| sessions, `udp_auth.rs` | a session per address, a ring of challenges, the counter | discover, accept a reply, seal a frame, provision a key | a session is for a boot that was current after the process began |
| start of a stream, `cmd_run.rs`, `cmd_run/routing.rs`, `cmd_run/bluetooth.rs` | Picos found, routes, links | discover, choose Picos and controllers, verify, wait for sources, open links | a Pico is not fed with its own reports, nor by two controllers |
| stream, `cmd_run.rs`, `discovery.rs`, `net.rs` | routes, last reply and last recovery per route | send a tick, handle a reply, schedule and apply a recovery | a stream finds its Pico again |
| keyboard, `keyboard.rs` | the keys held by injected input | hook callback, one question per key, report | what is typed reaches the console, and nothing stays held |
| exchange, `cdc.rs` | sequence number | exchange, read one frame | a reply belongs to its request |
| configuration, `config.rs` | `config.toml` | load, change, save | the key of a Pico stays on file; the list is what the user made of it |
| flows: `cmd_setup.rs`, `cmd_configure_wifi.rs`, `cmd_flash.rs`, `cmd_debug.rs`, `pico_mode.rs` | the mode the Pico is in | reboot into a mode, wait for it, configure, flash | a flow that fails leaves the Pico usable |
| input modes: `cmd_persona.rs`, `cmd_auto.rs`, `cmd_home.rs` | the persona last heard of each Pico | switch, wait, judge the USB counters | a stream starts only to what was asked for and seen |
| bundle, `cmd_bundle/` | the persona to go back to, attempts, what has been captured | survey an adapter, capture packets, fetch logs, restore | the Pico is left as it was found, and the report is true |
| debug harvest, `cmd_run/debug_harvest.rs`, `debug_packets.rs` | a file, the lines already in it | harvest, append | no half lines, complete means complete |
| test harness, `cmd_lab.rs`, `cmd_lab/` | Picos under test, devices taken from Windows | cycles of modes, power, firmware; signal checks | a pass is earned, Windows gets its devices back |
| terminal interface, `cmd_home.rs`, `main.rs` | a copy of the file per window | cards and their actions | as the flows it starts |

### How they interact, and what is hard about it

- The firmware links `pico_cyw43_arch_lwip_threadsafe_background`
  (`pico-bridge/CMakeLists.txt:141`), so **`on_recv` runs in an interrupt** and
  may come between any two memory accesses of the main loop.  The two share the
  pad, the stamp of the last packet, the session and the pending commands, with
  no lock.  The same holds for the **events of BTstack** and `bt_hid_task`.
- **UDP** loses, repeats, delays and reorders; the bridge repeats commands four
  to eight times on purpose.
- **Resets** end a life of the firmware in six ways, and what survives differs
  with the way and with the chip.  The Pico forgets its counter in each, the
  bridge its own in every restart of the process.
- **Flash** writes take time, fail, and are cut short by a power loss.
- **Timers**: the 100 ms input watchdog, the retry delays of a join, the lease
  guard, the two-minute watch over a rejected password, the staleness of a route
  and the interval between its discoveries, the retry of a Bluetooth call.  Clocks
  are 32 bits of milliseconds and wrap.
- **The keyboard hook** has a thread of its own and notes keys while the stream asks
  for them one by one.
- **Windows lags behind**: a COM port, a drive or a controller slot appears after
  its Pico does and lingers after it has gone.
- **USB serial buffers outlive a session**, and a reply is not compared with its
  request.
- **Several `couchlink` processes** on one PC share a configuration file, an address
  and the COM ports.

## 2. The modules

On the Pico and between it and the stream:

| module | models | its variables are |
|---|---|---|
| `CredStore` | the promise of the credential storage: one durable record | abstract |
| `FlashCreds` | `flash_creds.c` | the two sectors and the store call in progress |
| `BootFlow` | from one life of the firmware to the next | what survives a reset, what does not, and what each life asked of the next |
| `InputPath` | `apply_state_body`, `build_report`, `xinput_task`, `watchdog_tick` | the shared globals, the program counter and locals of the main loop |
| `BtHid` | `bt_hid.c` | its statics as one record, the place of the main loop, what BTstack still owes |
| `WifiJoin` | `wifi_task`, `wifi_start_join` and the turn of the main loop they run in | the statics of `wifi.c`, `heartbeat.c`, the watch in `main.c`, the world outside |
| `UdpSession` | `udp_auth.c`, `udp_auth.rs` and their callers | datagrams, the Pico's session, the bridge processes |
| `ReplyGate` | `reply_gate.c` | the clock, the gate's stamp |
| `LogHarvest` | `diag_log.c`, `send_log_chunks`, and its readers: the harvest of a stream, the log and packets of a bundle | the log, datagrams, sockets, the packet file, the bundle |
| `CdcExchange` | `cdc.rs`, `cdc/frame.rs`, `cdc_handlers.c`, `cdc_proto.c`, and every session of the PC on a serial port | the three buffers, the session, what it waits for |
| `StreamStart` | every way into a stream: `cmd_run.rs`, `cmd_run/routing.rs`, `cmd_run/bluetooth.rs`, the end of `cmd_persona.rs`, routes of `cmd_home.rs` | Windows' controller slots, the Picos found, routes, links |
| `StreamRecovery` | `stream_routes` of `cmd_run.rs`, `collect` of `discovery.rs`, and what the Picos do with its frames | routes, sessions by address, timers, the discovery task; where the Picos are |
| `Keyboard` | `keyboard.rs`, `next_keyboard_packet`, `apply_key_body` | the keys held, the questions asked so far in a tick, reports under way, the Pico's keyboard state |

On the PC:

| module | models | its variables are |
|---|---|---|
| `ConfigFile` | `config.rs`: load, every change, save | the file, each process's copy of it |
| `SavedPicos` | what the home screen does to the file, in several windows | where each window is |
| `PicoWorld` | Picos on the desk of a user who sets them up, their COM ports and drives | modes, credentials, keys, ports |
| `SetupFlows` | the wizard, configure-wifi, recovery, mode switches, flashing | where each process is in its flow |
| `UsbVerdict` | what the bridge concludes from USB counters: scores, verdicts, reports | none, operators only |
| `PicoModes` | Picos that change persona, as datagrams and discoveries show them | personas, who is heard, who captures |
| `ModeFlows` | `couchlink auto` and `persona`, the home screen's input modes, the adapter survey | the flow under way |
| `LabWorld` | a test bench | modes, devices in Windows, pads |
| `Lab` | `couchlink lab` with its PnP helper | options, the place in the run, the PnP helper |

`PowerCyclesProofs`, `RunModeProofs`, `AnswersProofs`, `CommandsProofs`,
`StreamRecoveryProofs`, `RoutesProofs`, `SetupFlowsProofs` and `LabProofs` hold the
theorems (section 4); `MC...` the constants and bounds of the runs.
`PROJECT.json` maps every definition to the lines it stands for.
Definitions under a comment `Mutant:` are plausible mistakes; none is part of a model,
each is what a property was shown to notice.

**`FlashCreds`.**  A store is four steps: choose the sector and the generation
(`StoreBegin`), erase, program, read back; each flash operation may leave a
sector that `record_is_valid` refuses (`Blank`), the other core may fail to lock
out (`LockoutFails`), and `PowerLoss` may come before any step.  Generations are
counted modulo `GenModulus`; `Newer` is the signed 32-bit difference of
`flash_creds_load`.  A CRC-32 is assumed to tell a torn page from a whole one.

**`InputPath`.**  The main loop is a sequence of single accesses: `UsbTask`,
then `xinput_task` (`UsbReady` or `UsbBusy`, one `BuildField` per field, then
`SendReport` or `NothingSent`), then `watchdog_tick`, which reads the clock
(`WatchdogClock`), reads the stamp and judges (`WatchdogJudge`) and clears one
field at a time (`WatchdogClear`).  `Receive` and `Tick` may come between any
two.  The time between two readings of the clock is at most `MaxGap`.

**`BootFlow`.**  `Classify` is the whole of `reset_reason_classify`, with its
side effects in their order: the setup flag is handed out and erased in the
crumb, *then* the line is read under the checksum.  `Decide` is
`boot_mode_decide`, the capture marker and the note that a mode runs.  Then each
request of a life, and each way it ends with what survives: `WatchdogFires`,
`Fault` (SYSRESETREQ, which resets the reason register of the watchdog on the
RP2350 and leaves it alone on the RP2040), `PowerCut`, `PinReset` (the RUN pin
keeps scratch and RAM on the RP2040; on the RP2350 it is a `PowerCut`),
`FlashUpdate`.  The history variables `asked` and `owed` say what the life
before asked of this one.

**`UdpSession`.**  `net` is the set of all datagrams ever sent: receiving one
does not remove it, so it repeats and reorders; a lost one is never received.  A
signature is a record of what was signed and with whose key.  The Pico opens its
socket before it loads the key (`mode = "opening"` until `NetUp`), so datagrams
of that time meet open firmware, exactly as in `net_udp_init`.  A process
restarts with nothing in memory at any time; so does the Pico, plugged in or by
its watchdog.  `NextCounter` is `advance_counter`: the wall clock, or one more
than the last.

**`WifiJoin`.**  One `Turn` is one turn of the main loop: `wifi_task` (or the
first `wifi_start_join`), then `heartbeat_run_mode_task`, then the password
watch.  Outside are the access point and DHCP (`air` in order or not), the link
as the driver reports it, and a radio that wedges until it is initialised again.
The lease guard is modelled as the code uses the driver: a link that is up
although there is no address.

**`BtHid`.**  `b` is the record of the statics that matter; a handler of
`packet_handler` is a function on it.  The main loop is cut at every point where
an event makes a difference: `request_send_now` is `BuildReport`,
`MarkRequested`, `AskToSend`; `try_reconnect_now` is `TryReconnect`, `Dial`,
`Dialed`.  What BTstack owes (an event that a report may go, the end of a call)
is in `wakeup` and `dialing`.

**`ReplyGate`, `LogHarvest`.**  The gate is the C function with its wrapping
subtraction; `bucket` is the leaky bucket it should amount to.  `LogHarvest` extends
it with the ring (line n is two units of the log, a chunk may begin between them),
the chunks of one answer (`SendLogChunks`), and the readers.  Each request has a
socket of its own and ends when the last chunk has come or the time is up, whichever
chunks are there by then.  A stream's harvest is `HarvestTick`, `Receive`,
`HarvestEnds`, `ApplyHarvest` with the packet file; a bundle goes from the serial
port over the vendor interface to a broadcast and an address of last time, keeps the
best failure on the way (`Better`), and asks once more for packets.

**`CdcExchange`.**  A session is the sequence of requests that a command sends
between opening a port and closing it; every command that opens one has its own
(`SetupSession` to `DoctorSession`).  Three queues lie between: requests in the Pico,
replies in the Pico (these outlive a session), replies in the driver of the PC (these
do not).  The firmware may come to a request at any time; a read ends with a frame, a
cut one or nothing.  `own` is history: whether a reply belongs to the exchange that
takes it.

**`StreamStart`.**  The phases from `Discover` to `Tick`, for every entry: options and
selectors, saved routes, the persona command and the home screen.  Windows' controller
slots are occupied and freed by the world at any time, and a Pico in a USB mode that is
plugged into this PC occupies one itself, for a while longer than it is in that mode.

**`StreamRecovery`.**  The branches of the `select!` are actions: `SendTick`,
`StatusTick` (with `schedule_recovery_if_needed`), `ApplyRecovery`; a reply is
`Keepalive`, matched to the first route with its address as
`handle_stream_reply` does.  The discovery task runs beside the loop: each
`Answer` replaces the session of its address at once (`accept_reply`), while the
addresses of routes change only in `ApplyRecovery`.  The network moves Picos
between addresses, reboots them and takes them away, `MaxEvents` times in all.
`UdpSession` decides when a signed frame is accepted; here a session is just
the boot it is for.

**`Keyboard`.**  `LlProc` notes one event of the hook; `IsInjectedDown` is one question
of the stream, in the order of `read_keyboard_with`; any number of events may come
between two questions.  `SendTick` sends what was found; the network keeps a set of
reports, so one may arrive after a later one; `Silence` is the input watchdog.  `late`
is history: keys that went down under a modifier the stream had already asked for.

**`ConfigFile`, `SavedPicos`.**  A process loads the whole file, changes its copy and
writes it back in two steps, `Truncate` and `Fill`, because `fs::write` empties the
file first; it may end between them.  `clash` is history: a save was cut short, read
half-way or undone by another's; that last is noted when the save begins as well as when
it ends, because a copy that has been outrun is lost either way.  `SavedPicos` runs the home screen on it, in windows
that are closed at any step: a card's action loads the file again, changes it and
saves.

**`PicoWorld`, `SetupFlows`.**  A flow is a chain of steps, each what a command does
between two waits; `my[c]` says where process `c` is and what it knows (baselines,
ports, the drives it has seen).  A COM port appears after its Pico is in setup mode and
lingers after it has left; a handle dies with the mode.  Any exchange may fail, any wait
may run out, any process may be killed; `MaxMoves` bounds the disturbances and the
flows a user starts.  The stream's recovery (`RecoverPorts` to `Rejoined`) is one of
the flows and may run beside any other.

**`UsbVerdict`, `PicoModes`, `ModeFlows`.**  A flow works from snapshots, the persona a
Pico was last heard in, while the commands that change it are datagrams that may be
lost or taken late, and Picos are power-cycled.  A request that ends in an error
may have reached some of them, because it is sent several times.  `UsbVerdict` holds the
pure functions (`Score`, `BestAttempt`, `SurveyReport`, ...) with a counter kept as whether it is above
0.  A survey is `BeginSurvey` to `SurveyEnds`: for each candidate a switch, a
confirmation, counters, perhaps a boot that captures packets; then the way back.

**`LabWorld`, `Lab`.**  Every scenario of `couchlink lab`: status, setup, mode, power
(by reset, by an external command, by disabling or removing USB devices), flash, signal
and full.  The PnP helper takes devices from Windows and gives them back, with a second,
elevated attempt for what was refused; what pnputil reports as failed may have been done
all the same, so a device that could not be disabled is enabled again with those before
it (`DisableFails`, `pnp.rs:205`).  `opts.cuts` says whether the configured power command
cuts the power of the Picos whenever it exits with 0.  A packet of a signal check may
fail to be sent: at the first one of the state (`SendFails`), later (`NoSlotMatches`), at
the first one of the release, which ends the check with the pad held (`ReleaseFails`), or
later (`Release`).  `hollow`, `wrong` and `stuck` are history: the kinds of passes that
were not earned, whether another Pico's slot was read, the devices pnputil refused to
bring back and the pads whose release could not be sent.

### How they fit together

`UdpSession` is where `RebootToSetup` of `BootFlow` comes from, and `BootFlow`
is what `Boot` of `UdpSession`, `PicoWorld`, `LabWorld` and the persona commands of
`PicoModes` stand for; `FlashCreds` is the step "the record is stored" of all of them.
They are kept apart because no property needs two at once: the mode a boot lands in does
not depend on who asked, and the order of signed frames not on where the Pico boots.
`StreamRecovery!SessionOf` is what `UdpSession` makes of a discovery and its answer,
and a change of the pad in `BtHid` is a `Receive` or a `WatchdogClear` of `InputPath`.
`BtHid!RadioRestart` follows from `WifiJoin!Retry` with a re-initialised radio;
`WifiJoin!bounced` is `BootFlow!BounceToSetup`.  `StreamStart` ends where
`StreamRecovery` and `Keyboard` begin.  An exchange in `SetupFlows` that succeeds or
fails is a session of `CdcExchange`.

Composed are: `FlashCreds` with `CredStore` (refinement), `LogHarvest` with `ReplyGate`
(extension, and a proof that it implements the gate), `SetupFlows` with `PicoWorld`
and `ConfigFile`, `SavedPicos` with `ConfigFile`, `ModeFlows` with `PicoModes` and
`UsbVerdict`, `Lab` with `LabWorld`.

## 3. The runs

Some runs explore several modules that share no variable: a variable that never
changes says which of them a behaviour is of, and the others stand still.  Nothing is
lost by that, and nothing shown of one in the presence of the other.

| run | instance | states | shows |
|---|---|---|---|
| `MCPowerCycles` | `FlashCreds`: 2 records and one oversized, 8 generations.  `BootFlow`: 2 USB personas, 1 Bluetooth persona, 2 notes, both chips | 1.9 k | `GenerationsAdjacent`, `VerifiedIsCurrent`, `ImplementsCredStore`; `BootsWhereAsked`, `CapturesWhatWasAsked`, `NoFalseReport` |
| `MCRunMode` | `InputPath`: 2 fields, 2 levels, timeout 2, gap 2, clock modulo 7.  `BtHid`: 2 pad states, 3 attempts.  `WifiJoin`: delays in ticks of 15 s, re-initialisation after 3 failures | 128 k | `ReleasedInTime`, `StaleIsOld`, `SilenceReachesConsole`; `NoLostWakeup`, `NoDeadEnd`, `LatestReported`; `BounceNamesTheReason`, `ComesBack` |
| `MCUdpSession` | 1 process with 3 boots, 3 µs, 2 challenges, 2 signed frames, 5 datagrams; or 2 PCs with a process each, 3 boots, 1 challenge, 1 signed frame, 4 datagrams.  A ring of 1, a Bluetooth persona | 2.8 M | `NeverOlder`, `SessionIsRecent`, `RebootsOnlyForItsPc` |
| `MCStreamRecovery` | `StreamRecovery`: 2 Picos, one of them paired, a route to each, 2 addresses, stale after 1, retry after 2, discovery of 1, 2 disturbances.  `Keyboard`: 1 modifier, 2 keys, 1 key in a report, 2 reports under way | 273 k | `RetriedInTime`, `StaleRouteRecovers`; `TypedReachesConsole` |
| `MCStreamRecoverySkew` | the same | - | section 5 |
| `MCPads` | `Lab`: 2 Picos, 2 signals, 1 disturbance, 1 cycle.  `StreamStart`: 2 Picos, 3 slots | 4.1 M | `PassIsEarned`, `NothingLeftDisabled`, `SlotIsItsOwn`, `NoPadLeftHeld`, `FullRunEndsRunning`; `NoFeedback`, `OneSourceEach` |
| `MCSetupFlows` | 2 Picos, one with firmware from before pairing; a process with 2 moves (flows started, disturbances), or with 1 and a stream beside it; 2 keys made | 226 k | `KeyOnFile`, `BounceIsReal`, `RecoverBringsBack` |
| `MCSavedPicos` | 2 windows, 2 Picos, 1 key | 3.5 M | `ListAsAsked`, `RoutesAreSaved` |
| `MCModeFlows` | 2 Picos, 3 USB hosts, 2 first personas, an automatic and a given mode, 1 power cycle; a survey of one Pico at a time | 4.1 M | `StreamMatchesMode`, `SurveyLeavesNoTrace`, `ReportIsTrue` |
| `MCModeFlowsLost` | the same | - | section 5 |
| `MCAnswers` | `LogHarvest`: 3 lines, a ring of 3 units, chunks of 1, bursts of 2, clock modulo 5.  `CdcExchange`: 2 frames under way | 4.2 M | `RateLimited`, `CompleteIsWhole`, `FileHoldsRealLines`; `InStep`, `RebootIsDone` |
| `MCAnswersGaps` | the same | - | section 5 |

Where a process may end and nobody starts the next one, where the bound on
disturbances is used up, or where a log is full, a run may stop: these runs say
`CHECK_DEADLOCK FALSE`.  Each module with variables states its types, most as
`TypeOK`; most modules with proofs have theirs proved with the invariant.

**Properties, in words.**

- `ImplementsCredStore`: two sectors behave as one durable record: every step of
  a store either replaces the record or leaves it, and an answered call tells
  the truth about it.
- `GenerationsAdjacent`: two valid sectors hold successive generations, so the
  wrapped comparison is never asked about two it could get wrong.
  `VerifiedIsCurrent`: what reads back well is what a load finds.
- `BootsWhereAsked`: a boot lands in setup mode exactly when the life before
  asked for it or nothing is stored.  `CapturesWhatWasAsked`: packet capture is on
  in exactly the boot after the request, if that boot runs the persona asked for.
  `NoFalseReport`: no boot blames a cause, or shows a line, of another life.
- `ReleasedInTime`: when the last packet is older than the timeout and two turns
  of the loop, the pad is neutral.  `SilenceReachesConsole`: when packets stop
  for good, the report the console holds becomes and stays neutral, although the
  endpoint refuses some.  `StaleIsOld`: around the wrap of the clock nothing
  recent is judged stale, except a packet that comes between the watchdog's two
  readings or in the millisecond that is stamped 0.  These two exceptions are
  real: the first costs one packet's input for the time to the next packet, the
  second (once in 49 days) lets one packet's buttons stay until the next one.
- `NoLostWakeup`: while `bt_hid_send_requested` holds back reports on an open
  channel, the event that ends it is owed or about to be asked for.
  `NoDeadEnd`: a known host is called back until the attempts are used up: a retry
  is scheduled, a call is under way, or a link still exists whose end schedules
  one.  It does not say that a scheduled retry is made: see section 5.
  `LatestReported`: on a link that stays, the host ends up with the state that stays.
- `ComesBack`: once access point and DHCP stay in order, the Pico joins and
  stays joined with an address, or has gone to setup mode.
  `BounceNamesTheReason`: a bounce follows a rejected password with no time on
  the network in between.
- `NeverOlder`: of one process, no signed frame is acted on after a later one,
  nor twice, across repeated datagrams, boots of the Pico and restarts of the
  process.  `SessionIsRecent`: the nonce a process works with is of a boot that was
  current at or after its start.  `RebootsOnlyForItsPc`: a paired Pico in run mode
  reboots to setup mode only for a frame sealed for this boot by the PC whose key it
  loaded, or in a boot that began with a physical reset.  What arrived before the key
  was loaded is forgotten by the end of `net_udp_init`.
- `RetriedInTime`: one discovery serves all routes, and still no stale route waits
  longer for one that includes it than its own interval and one discovery.
  `StaleRouteRecovers`: a route that is stale for good while its Pico is on the
  network has frames that the Pico takes: what keeps it stale is not an address
  or a session.
- `TypedReachesConsole`: when the player has pressed or released the last key, the
  console ends up with exactly what is held, however reports were torn, lost or
  overtaken; and with nothing after the end of the stream.  Not said is that the way
  there is right: see section 5.
- `NoFeedback`: a Bluetooth Pico is never fed with its own reports.  `OneSourceEach`: no
  Pico is fed by two controllers, and no automatic layout feeds two Picos with one.
- `KeyOnFile`: the key a Pico obeys is on file, whatever is killed where, as long as no
  save was cut short or overlapped another.  `BounceIsReal`: a reported bounce had a
  port that came up.  `RecoverBringsBack`: a Pico in setup mode with good credentials
  gets back to run mode if the bridge is run often enough, whatever is beside it.
- `ListAsAsked`: the list of saved Picos is what the user made of it.  `RoutesAreSaved`:
  every saved route leads to a saved Pico.
- `StreamMatchesMode`: a stream starts only to Picos that are in the persona the bridge
  takes them to be in, and that is the one asked for or one their host polls.
  `SurveyLeavesNoTrace`: a survey that saw the switches it made leaves the Pico as it
  found it.  `ReportIsTrue`: what it reports of the adapter is so.
- `PassIsEarned`: the harness passes a step only for what happened: all of them, the
  external cut of power included, if the power command cuts what it says it cuts, and all
  but that one if it does not (section 5).  `NothingLeftDisabled`: Windows has every device
  back except one that pnputil itself refused to bring back.  `SlotIsItsOwn`: a signal check
  reads the slot of its own Pico.  `NoPadLeftHeld`: and releases its pad, unless not one
  packet of the release could be sent (section 5).
  `FullRunEndsRunning`: a full run without a failed step leaves all running.
- `RateLimited`: answers to log requests stay within a leaky bucket.  `CompleteIsWhole`: a
  harvest recorded as complete is one snapshot of the ring.  `FileHoldsRealLines`: the
  packet file holds only lines the Pico logged, unless a record in it tells of gaps.
- `InStep`: while no exchange with a Pico has failed, an answer taken for good belongs to
  the request it was taken for, over any number of sessions.  `RebootIsDone`: until
  then, a reboot reported as done is.

**Why the bounds are enough.**  The generation counter of `FlashCreds` is
explored over a whole turn and more.  Two fields and two levels let a torn
report or a half-cleared pad differ from both whole states; the clock wraps
every 7 ticks, which puts the wrap at every place of every interleaving.
`BootFlow` is explored completely: its state is finite.  Three boots are what
`NeverOlder` needs (frame of the first, process restart, frame of the third);
one challenge suffices for two PCs because the property there is about orders,
not answers.  The delays of `WifiJoin` keep their order and their ratios to each
other, and the number of failures before a re-initialisation is 3 instead of 10: enough
for a rejection to be the first, a middle and the last of them.  Two routes are
what it takes for one to wait for the other's discovery and for two Picos to
swap addresses; two disturbances are one more than each hazard of
`StreamRecovery` needs.  Three attempts of `BtHid` are a first, a middle and a
last call; two pad states are enough for a report to be stale.  With one modifier, two
keys and room for one of them, `Keyboard` reaches torn reports and the rollover
report; two reports under way can overtake each other.  Two Picos are what it takes to
mistake one for the other, in `SetupFlows`, `StreamStart`, `ModeFlows`, `Lab` and
`SavedPicos`; three slots leave a controller of the user beside both of theirs.  Two
moves of `SetupFlows` are a flow and another one that finds what it left, or a flow and
a fault; the stream beside it needs none and repeats for ever.  A survey is of one Pico
after the other, so one is enough for it.  Three lines in a ring of three units let the
ring begin inside a line; the last chunk is one of three.  Two frames under way are a
late reply and the one it is taken for.

**Fairness.**  `InputPath`: the main loop is endless and has no blocking wait
(`WF(UsbLoop)`), the clock runs (`WF(Tick)`), and an attached console polls its
endpoint for ever, so that room for a report is available again and again and
the stack takes a report now and then (`SF` of `UsbTask`, `UsbReady`,
`SendReport`: the bus is not reset for ever, a changed report is sent whenever
there is room).  Nothing is assumed of packets.  `WifiJoin`: the loop turns, time
goes on, a good access point brings the link up and a good DHCP server answers;
nothing is assumed of a bad one.  `StreamRecovery`: the loop runs and its timers
fire; of the frames, keepalives and answers that are sent again and again some
arrive (`WF` of `SendTick` and `Keepalive`, `SF` of `Answer`, which is possible
only while a discovery runs); a Pico need not come back and disturbances need not
end, but `MaxEvents` ends them.  `Keyboard`: the stream asks on, of its reports not all
are lost (`SF(SendTick)`), one that is under way arrives, and the watchdog runs when the
stream has ended; nothing is assumed of the player or of the hook.  `BtHid`: the loop
runs, time passes, and BTstack answers a send request on an open channel and ends a call
one way or the other.  `SetupFlows`: Picos boot, ports appear and go, and the bridge that
recovers them is started again and gets through its steps.  The other modules are
checked for safety only.

**Assumptions.**  `UdpSession`: the wall clock of a PC, when a process starts,
is ahead of every counter the process before used (it is not set back, and less
than one frame per microsecond was sent).  `PicoWorld`: a COM port is open in one
process at a time and keeps its name; nobody else reconfigures a Pico.  `SetupFlows`,
`Lab`: listing COM ports does not fail.  `Lab`: the harness is not killed while devices
are disabled, its Picos are not paired, and what pnputil reports as done is done.
`LabWorld`: ports, drives and controllers follow the mode of a Pico without lag; Windows'
lag shows only as a mode that changes later.  (`PicoWorld` and `StreamStart` have the lag.)  `LogHarvest`: a request is heard once (the
counter of a paired Pico sees to that); its answers may be repeated and lost.

## 4. The proofs

Eight modules hold theorems, each about the components it EXTENDS:

| module | about | rests on |
|---|---|---|
| `PowerCyclesProofs` | `FlashCreds`, `BootFlow` | `FlashCredsAssumption`, `BootFlowAssumption` |
| `RunModeProofs` | `BtHid`, `InputPath`, `WifiJoin` | `BtHidAssumption`, `InputPathAssumption`, `WifiJoinAssumption` |
| `AnswersProofs` | `ReplyGate`, `LogHarvest`, `CdcExchange` | `GateAssumption`, `LogAssumption`, `QueueAssumption` |
| `CommandsProofs` | `UdpSession`, `ModeFlows` on `PicoModes` | `UdpSessionAssumption`, `PicoModesAssumption`, `ModeFlowsAssumption` |
| `StreamRecoveryProofs` | `StreamRecovery` | `StreamAssumption` |
| `RoutesProofs` | `SavedPicos` on `ConfigFile`, `StreamStart` | `ConfigFileAssumption`, `StreamStartAssumption` |
| `SetupFlowsProofs` | `SetupFlows` on `PicoWorld` and `ConfigFile` | `SetupFlowsAssumption`, `ConfigFileAssumption` |
| `LabProofs` | `Lab` on `LabWorld` | `LabAssumption`, `LabWorldAssumption` |

The assumptions are about constants only, named, in the module that declares them, and
evaluated by the runs.  One theorem has a hypothesis of its own beside them
(`ReleaseIsTimely`), one an assumption about the bench (`SlotsAreTheirOwn`); both
are explained below.

### Flash and boots

For every set of records, blank image and generation modulus above 2; for any personas
and notes, on both chips:

| theorem | says |
|---|---|
| `FlashTyped` | `Spec => []TypeOK` |
| `GenerationsStayAdjacent` | `Spec => []GenerationsAdjacent` |
| `VerifiedStoreIsCurrent` | `Spec => []VerifiedIsCurrent` |
| `Refinement` | `Spec => ImplementsCredStore`: the two sectors implement the one-record store of `CredStore` |
| `EveryBootWhereAsked` | `BootSpec => BootsWhereAsked` |
| `EveryCaptureAsked` | `BootSpec => CapturesWhatWasAsked` |
| `EveryReportTrue` | `BootSpec => []NoFalseReport` |

The modulus is more than 2 because with 2 "one later" and "one earlier" are the same.
`GenerationsAdjacent` is not inductive by itself: it says nothing of what a store
in progress will write.  The inductive invariant is the conjunction of four
facts: types, adjacent generations, that a store in progress works beside the current
record with the generation after it (`WritesBesideCurrent`), and that what has been
programmed is what a load finds (`VerifiedIsCurrent`).  The lemmas come in the order of
the code: the arithmetic of generations (`NextGenNewer`), the choice of sector and
generation (`StoreChoice`), the effect of a whole page on what a load finds
(`ProgrammedWins`); then one step per action.  The refinement uses them again: the
abstract record changes when the page is programmed, not when the call is answered, and
every other step of `FlashCreds` is a request, an answer, a miss or a stutter of
`CredStore`.

What a life of the firmware owes to the next wanders from its globals through
breadcrumb, scratch register and marker into the locals of the next.  The inductive
invariant of `BootFlow` has a part for each phase (`Running`, `Leaving`, `InRom`,
`ToBeRead`, `BeingRead`) that says where it is then, and that the other places are empty.

### Run mode

For every set of pad states and limit of attempts above 0; any fields, timeout, longest
turn and clock modulus; any delays of the Wi-Fi task in the order the code has them:

| theorem | says |
|---|---|
| `HidTyped` | `Spec => []TypeOK` |
| `WakeupIsOwed` | `Spec => []NoLostWakeup` |
| `NeverGivenUp` | `Spec => []NoDeadEnd` |
| `StaleMeansOld` | `UsbSpec => []StaleIsOld` |
| `ReleaseIsTimely` | `UsbSpec => []ReleasedInTime`, if `MaxGap <= Timeout` |
| `WifiTyped` | `WifiSpec => []WifiTypeOK` |
| `BounceIsJust` | `WifiSpec => []BounceNamesTheReason` |

`NoLostWakeup` is inductive given the types.  The types need `MayCount` (events
between the decision to call and the count of the call only ever reset the
count), and `NoDeadEnd` needs `Layers`: a closed channel leaves it to the end of
the connection to schedule a retry when the firmware did not know of the
channel, so an open channel must imply a connection.  The lemmas say what each
helper returns (`ScheduleResult`) and what each handler makes of the statics
(`FailureResult`, `ClosedResult`, `OpenedResult`), and the steps follow from those
without the definitions.

`Stamps` says when the difference of two wrapped times is the true one.  The edge from
fresh to stale is what may be missed, so `HeldSince` follows one packet: a turn no longer
than the timeout judges it fresh once, which arms the edge, before it finds it old.
Without `MaxGap <= Timeout` the theorem is false (section 5).

A bounce is decided by the watch of `main.c` from the state and the last error of
`wifi.c`, turns after the access point spoke.  What carries the reason there: an error
that names the password comes only from a join that was rejected, and goes only with
another error or a join (`RejectionIsOld`), so while the state is a rejection one has been
counted, and a re-initialisation of the radio, which may fail itself, keeps that.

### Answers

For every interval, burst and clock that is long enough; any lines, any number of
requests and of frames under way:

| theorem | says |
|---|---|
| `AnswersAreLimited` | `GateSpec => []RateLimited` |
| `HarvestImplementsGate` | `Spec => GateSpec`: every step of the harvest is a step of the gate or leaves it alone |
| `HarvestIsLimited` | `Spec => []RateLimited`, whatever chunks and datagrams are lost |
| `AnswersInStep` | `CdcSpec => []InStep` |
| `RebootsAreDone` | `CdcSpec => []RebootIsDone` |
| `CompleteMeansWhole` | `Spec => []CompleteIsWhole`, of `LogHarvest` |
| `FilesHoldRealLines` | `Spec => []FileHoldsRealLines`, of `LogHarvest` |

The gate keeps one stamp, and the bound is about a leaky bucket.  The inductive
invariant ties them together: when the stamp has been passed the bucket is empty, and
otherwise it holds no more than the stamp lies ahead.  The lemmas are the wrapping
subtraction and addition by cases (`ClockDifference`, `ClockSum`, `OneLess`), then one
per step.

A serial session is in step because, until an exchange fails, one thing at most is
under way for it, the request or its answer, behind whatever else is in that queue
(`OneExchange`).  What else there is are requests whose answer nobody waits for and the
refusals of such (`StrayRequests`, `Fresh`): an acceptance is always the session's own.  A
reboot ends its session (`EndsWithReboot`, shown of the list of requests of each session
of the bridge), and nothing of a session outlives its port, nothing in the Pico its leaving
(`NothingBehind`).  The lemmas are about the queues: what a longer or a shorter one says of
who sent what (`Shorter`, `Longer`, `Joined`, `Disowned`).

A log that arrives is whole for two reasons.  One is about sockets (`Sockets`): every
request has a socket of its own, so what a socket has received or may still receive is of
one answer, the ring of one moment.  The other is about that answer: as many chunks as
chunk 0 promises, none of them missing, are all of them (`CompleteRecord`); they cut the
ring into parts that continue each other (`CutsAre`), each comes to its place (`Before`),
and their concatenation counts without a gap from the first unit that is not lost
(`PartsJoin`, `WholeText`).  A text that ends with a line is cut into lines where lines end,
so what begins with a line is one (`LinesAreWhole`).

### Sessions, flows of commands, streams

For any processes, PCs, boots and datagrams, any of them repeated, late or lost; for
every set of Picos, any hosts they are plugged into, any routes and any length of the
stream's timers:

| theorem | says |
|---|---|
| `FramesInOrder` | `Spec => NeverOlder` |
| `RebootIsAuthorised` | `Spec => []RebootsOnlyForItsPc` |
| `SessionsAreRecent` | `Spec => []SessionIsRecent` |
| `ModeTyped` | `ModeSpec => []ModeTypeOK` |
| `StreamsMatchTheMode` | `ModeSpec => []StreamMatchesMode` |
| `SurveysLeaveNoTrace` | `ModeSpec => []SurveyLeavesNoTrace` |
| `ReportsAreTrue` | `ModeSpec => []ReportIsTrue` |
| `StreamTyped` | `Spec => []TypeOK` |
| `RouteRetriedInTime` | `Spec => []RetriedInTime` |

Counters of a sender grow over its restarts because the wall clock does (`Frames`).
Within a boot the Pico's counter does the rest; across boots, a frame with the nonce of a
later boot was sealed after all that earlier boots acted on (`Acts`).  An answer whose
challenge is still in a process's ring was sent after the process began (`Answers`).

A flow that moves Picos from one persona to another works from the personas it heard
last.  Its invariant (`ModeInv`) says of which Picos that is still so, at each place:
in an automatic choice of all but the one in work (`Choosing`), and the personas left to
try on that one never name the present one again, which rests on the orders naming none
twice (`CurrentComesFirst`, `NextInOrder`); in a switch of many, of those not switched yet, and
after the wait of those that were heard in the persona asked for (`Switching`,
`AnswersHeard`); in a survey unless it missed a switch (`Tracing`).

A survey reports from the list of its attempts.  `Telling` says that each of them is so of
the host the Pico is plugged into (`SoOf`), and of what is left to try that it is of the
survey's order, nothing twice and never the present persona.  The best attempt is the first
that no other beats: that there is one, and that it is an accepted one if any is
(`BestOfThem`, `ReportOf`), is shown by the highest score and the least place (`Highest`,
`LeastOf`).

`RetriedInTime` bounds a wait by two timers that run one after the other.
`SinceTried` says that a route that is not due has waited no longer than since its last
discovery, `PhaseBound` what it has waited in each phase of the discovery under way plus
what that may still take; between them a route that became stale during a discovery that
does not include it waits for its end and one interval, no more.

### The file, the ways into a stream, the flows

For any number of windows, Picos, keys, controller slots and processes, any of them killed
at any step:

| theorem | says |
|---|---|
| `TheListIsAsAsked` | `SavedSpec => []ListAsAsked`: the file lists what was asked for, while no save clashes |
| `RoutesLeadToSaved` | `SavedSpec => []RoutesAreSaved`, clashes included |
| `SavedTypes` | `SavedSpec => []TypeOK` |
| `StartTyped` | `StartSpec => []StartTypeOK` |
| `NobodyFeedsItself` | `StartSpec => []NoFeedback` |
| `EachHasItsSource` | `StartSpec => []OneSourceEach` |
| `SetupTyped` | `Spec => []TypeOK` |
| `KeysStayOnFile` | `Spec => []KeyOnFile` |
| `BouncesAreReal` | `Spec => []BounceIsReal` |

`RoutesAreSaved` needs only that every copy and the file keep their routes within their
own list (`Sound`): a lost update replaces one sound copy by another.  `ListAsAsked` ties
a window's copy to `asked` by where the window is: a copy that nobody has outrun holds the
list as it was asked for, and a window that is about to save is owed just its own change.
The lemmas say what each change of `config.rs` does to a copy.

A stream runs on what was found when its entry looked, and the slots of Windows, the modes
of the Picos and the list of routes may have changed since.  `NoFeedback` rests on `Known`:
unless somebody switched a mode meanwhile or Windows could not tell whose a slot is, what
was found is still so when the stream begins, and from the check of the routes on no
Bluetooth Pico among them feeds a slot that a route reads.  `OneSourceEach` rests on
`Apart`: through every entry (named routes, saved ones, the automatic pairing) a Pico keeps
one route at most, and the automatic ones take each slot once.

`KeyOnFile` relates the flash of a Pico to a file that any process may be rewriting.  Its
inductive form (`Safe`, as long as nothing clashed) says where the keys are that Picos
obey: in the file, or in a copy that is being written, and in *every* copy that the file
has not outrun; that such a copy drops no key of the file; and that a key on its way to a
Pico is already in all of them, which is why the code saves before it sends.  A copy that
was outrun may save nothing without a clash.  `BounceIsReal` needs `Bounces`: after a
round in which no port was seen, either none is there or one has come up since the reboot;
and both need `Owners`, that nobody holds a port other than the one it works on.  A step of
a flow that touches neither keys nor file (`Plain`) keeps all this for the same reason
everywhere, so most steps only show that they are such a step (`Turn`).

The run `MCSetupFlows` has one process that saves; the theorem is for any number.  A larger
run with two that save (3.2 million states) was made once, with the inductive invariant.

### The lab

For any bench, any number of cycles and any number of disturbances:

| theorem | says |
|---|---|
| `PassesAreEarned` | `Spec => []PassIsEarned` |
| `DevicesComeBack` | `Spec => []NothingLeftDisabled` |
| `PadsAreReleased` | `Spec => []NoPadLeftHeld` |
| `FullRunsEndRunning` | `Spec => []FullRunEndsRunning` |
| `SlotsAreTheirOwn` | `Spec => []SlotIsItsOwn`, if there are no more Picos than signals |

A pass is reported at the end of a step for what happened in its course, often several
turns before, so the invariant follows a run through its stages: where the harness may be
(`Placed`) and whose turn it is (`Bench`); then, at each place, what the Picos of this
turn have gone through (`Ran`, `Flashed`, `Taken`).  `Back` says a device is away only
while the helper that took it works on it, or if pnputil refused this very device: whichever
way an attempt ends, what it may have taken it has asked for again (`AllBack`), so the
elevated one begins with nothing taken.  `AllReleased`, that no pad is held but those whose
release could not be sent, holds at every place outside a check, and every way out of one
restores it (`NextCheckKeeps`).  `Shown` says a pad that shows a signal shows that of its
own Pico; `Smooth` is the way of a full run with no failed step.  `SlotIsItsOwn` takes that
two Picos have two signals: the code has four signals (`cmd_lab.rs:1218-1258`) as Windows
has four controllers, and with more Picos than signals the property is false.

### What stays with TLC

- **Liveness under fairness** (`SilenceReachesConsole`, `ComesBack`, `StaleRouteRecovers`,
  `LatestReported`, `TypedReachesConsole`, `RecoverBringsBack`) and anything about
  `ENABLED`: out of the prover's reach.
- **What needs induction over data in general.**  The library's induction theorems are out of
  the prover's reach.  The three results about texts and reports get by without: the texts
  and attempts are given by recursive functions or sets of places, and what is needed of
  them is shown by a least counterexample (`LeastOf`, `OneByOne`), since `<` on the
  numbers is well-founded.
- **The runs' own schedules**: an MC module that composes two components or limits their
  disturbances is not what the theorems are about; they are about the components, without
  those limits.

## 5. Where code and comments disagree

Each of the first three is a run that TLC ends with a counterexample.

- **`MCStreamRecoverySkew`**, `keyboard.rs:228`.  The stream asks for the modifiers first
  and for each other key after them, while the hook goes on noting events.  Shift that
  goes down behind its question, and a letter after it but ahead of the letter's own
  question, are reported as the letter alone: the console types a small letter, and the
  next report, which adds Shift, does not take it back.  `keyboard.rs:271-272` says that
  "a one-tick skew is invisible".
- **`MCModeFlowsLost`**, `cmd_bundle/capture.rs:1233`.  A switch that the Pico takes after
  the survey's wait for it leaves the survey with an old snapshot; the way back finds
  the old snapshot equal to the original persona and sends nothing.
  `cmd_bundle/manifest.rs:209` says "Bundle restores the original persona after the
  adapter survey pass."
- **`MCAnswersGaps`**, `cmd_bundle/pico_diag.rs:746`.  A chunk lost on the way to a bundle
  leaves a hole in the log that nothing beside it shows; when it is the first, the
  lost-bytes counter reads 0.  `diag_log.c:10-13` says that with this counter "any
  remaining truncation is visible".

Four more are definitions of a module; TLC finds each violated when it is given as an
invariant.

- `InputPath!NoHeldButtons`, `watchdog.c:23`.  The pad is neutralised on the edge from
  fresh to stale.  A turn of the main loop that takes longer than the timeout (a
  serial write waits up to 3 s, `cdc_handlers.c:40-76`) can miss the edge: with the
  pad already neutralised, one packet and then silence within that turn leave the
  packet's buttons held.  `watchdog.h:5-7` promises "no held buttons".  It takes
  `MaxGap > Timeout` (4 and 2, with a clock modulo 9); up to the timeout it holds.
- `BootFlow!FaultIsReported`, `reset_reason.c:164`.  Classification believes the fault
  marker only after a watchdog reset; the fault handler resets by `SYSRESETREQ`.  A
  fault in a life begun by plugging in is reported as a cold boot, while
  `fault_handler.c:14-15` says the cause "is in the next boot's diag_log".
- `Lab!CutIsReal`, `cmd_lab.rs:493`.  The external backend's pass says that it "cut and
  restored visible setup USB devices" (`cmd_lab.rs:497`).  What it goes by is the exit code of
  the command (`run_configured_command`, `cmd_lab.rs:1624`) and a round of probes without
  the Picos (`cmd_lab.rs:1290`), and a port whose probe fails counts as one without a Pico
  (`cmd_lab.rs:871-881`): a command that exits with 0 and cuts nothing is passed if every
  probe of one round fails.  `PassIsEarned` and its theorem speak of this backend only if
  its command does what it says (`opts.cuts`).
- `SetupFlows!NameOnTheBoard`, `cmd_setup.rs:49-53`.  The wizard names the Pico it finds on
  the network after the reboot; with a second one about it may be the other, which the
  comment rules out.

Seen while modelling:

- `main.c:337`: `last_error` stays `AUTH_FAIL` over retries and failed
  re-initialisations, so a single rejection can be followed by a bounce two minutes
  later; `main.c:332-334` says "only a continuously-wrong password".
- `cmd_run.rs:1169`: when another unpaired Pico is given a route's address, its
  keepalives pass for those of the route, and the routed Pico is not searched for;
  `net.rs:22-24` counts on "the recovery path".
- `cdc.rs:99`: a request given up on may still be done later.  A Pico whose main loop is
  away for longer than `reboot_with_ack` waits reboots after it was reported as hung
  (`cdc.rs:437-438`), and a reply that came too late is taken for that of the next
  request, in the next session as well, one behind for as long as requests go on.
  `InStep` and `RebootIsDone` therefore speak of the time before the first failure.
- `gamepad_state.h:6-8` and `keyboard_state.h:10-12` say that callbacks run in the main
  loop.  They do not (`CMakeLists.txt:141`), and a report can hold fields of two packets
  until the next report.
- `reset_reason.h:105-107` says that the next boot's log explains a bounce.  The
  setup flag is erased in the breadcrumb first, which breaks the checksum under which
  the line is read (`reset_reason.c:127`): the note is never shown.
- `heartbeat.c:23-25` says that each join gets its line.  The reset of the flag sits
  inside the branch the flag guards (`heartbeat.c:63-79`): only the first does.
- `bt_hid.c:217-219`: the failure of a call that arrives after
  `hid_device_connect` has returned and before `bt_hid_reconnect_in_progress` is set
  leaves it set with a retry pending, and `try_reconnect_now` then waits for the end
  of a call that has ended.  Only an event from the host clears it.  The window is a
  few instructions wide.  In `BtHid` it is the step `HidOpenFails` between `Dial`
  and `Dialed`.
- A key that cannot be read during the discovery for another route
  (`udp_auth.rs:311-321`) locks the session of a healthy route.  Its frames go out
  unsigned and are dropped while keepalives go on, so nothing searches for it again
  (`AnswerUnread` of `StreamRecovery`; `StaleRouteRecovers` speaks of stale routes
  only for this reason).
- `cmd_lab.rs:1140`: the release of a pad after its signal check ends at the first packet
  that cannot be sent; if that is the very first one, the check ends with the held state as
  the last word, and nothing sends again.  The input watchdog of the Pico clears it.
  (`ReleaseFails` of `Lab`; `NoPadLeftHeld` excepts these.)
- A radio that `wifi.c` initialises again takes Bluetooth down with it and
  `bt_hid_reset_stack_state` forgets the peer, so that nobody calls the host back.
- Two processes that save `config.toml` at the same time lose each other's change, and one
  that is killed inside a save leaves an empty file (`config.rs:248-260`): `clash` in
  `ConfigFile`, which `KeyOnFile` and `ListAsAsked` except.

## 6. What is not modelled

- **Data**: packet layouts, CRC-8, CRC-16 and CRC-32, HMAC, report and descriptor tables,
  log text, names.  Checksums and signatures are assumed to tell what they are
  meant to tell.  Which virtual-key code is which usage is a function given to `Keyboard`.
- **Personas other than XInput** on the Pico: `dinput.c`, `hid_kbd.c`, `xbone.c`,
  `maple_proto.c`.  Their reports are built from the same state at the same place of
  the loop; what differs is layout and the answers to fixed requests, one at a time.
- **USB descriptors and counters**: `usb_descriptors.c`, `usb_diag.c`,
  `usb_packet_debug.c`.  Tables, and sums of what the stack reports.
- **Identify and the LED**, version queries of a discovery, status lines and hints.
- **Two captures at once** (`net_udp.c:1010`): the main loop reads the arguments of a
  capture request one by one; `PicoModes` takes them whole, because the bridge sends
  copies of one request only.
- **A hook that Windows removes** because it was slow: nothing in the code notices.
- **Formatting and terminal**: text of reports, menus, zip files, UF2 selection, the
  autostart shortcut, read-only listings.
- **TinyUSB, lwIP, cyw43, BTstack, the SDK, Windows**: external; modelled by what the code
  relies on.

## 7. Where it could go on

- An abstract specification of the input path (what the console sees is a past state or
  neutral) that `InputPath` and `Keyboard` both implement, and one of a command channel
  that acts once per frame, for `UdpSession`.
- Larger instances: two processes that both set up Picos, a lab of three Picos, several
  modifiers.
