# TLA+ models of the HouseBusNode firmware

A HouseBus node is an STM32F0 on a CAN bus (UAVCAN, 125 kbit/s). It has a bootloader
(`src/sw/bootloader/`) that takes firmware over the bus, and an application
(`src/sw/`) that is one of several kinds of node: boiler, bathroom, heating, meter
reader, lights. This directory holds TLA+ modules that model the control flow of that
code, TLC configurations that check them, and proofs for TLAPS.

`PROJECT.json` maps every definition to the lines it translates and lists every run,
hazard, finding and theorem. This file says how the parts fit together and why the
checks mean something.

## 1. Inventory

The system runs on ChibiOS. Three facts shape every model:

* Threads have fixed priorities. The receive thread (`CanRxThread`) and the 5 ms thread
  (`FastTasksThread`) are HIGHPRIO, the node thread (`CanNodeThread`) and `main()` are
  NORMALPRIO. A higher thread preempts between any two instructions. Threads of one
  priority never preempt each other: a thread keeps the processor until it waits (in a
  sleep, for an event, or for a mutex somebody holds).
* The system time is a 32 bit counter at 10 kHz. It wraps every 119 hours.
* A reset by software or watchdog keeps the RAM section of `bootloader_interface`.
  A power cut leaves anything in it except, in practice, the 32 bit magic.

| Component | State | Operations | Talks to | Hard behaviour | What makes it correct |
|---|---|---|---|---|---|
| Firmware update (`bootloader/firmware_update.c`, `drivers/flash.c`) | three offsets, page buffer, `file_request_pending`, `file_eof`, the flash | read request, answer, verify, erase, write, end | file server over CAN; node thread and receive thread | answers lost, late, failed; reset between erase and write; flash that does not take the data | buffer never overrun; success means the image is in the flash; an update over a half-written image works |
| Bootloader node thread (`bootloader/node.c`) | `FirmwareUpdate`, `NodeRestartAt`, node health | RestartNode, BeginFirmwareUpdate, FileRead, 1 Hz task | update, `main()`, `bootloader_interface` | receive thread between two assignments of the node thread | an accepted update is carried out |
| Bootloader main and hand-over (`bootloader/main.c`, `bootloader.c`, `bootloader_interface.*`, application `main.c`) | boot timeout, magic, stored request | boot timeout, jump to the application, invalidation | the same structure, across resets | resets and power cuts anywhere; test and jump are not atomic | only a working image is started; an interrupted update is begun again; no request is acted on a second time |
| Application node core (`node.c`, `main.c`) | mode, health, `NodeRestartAt`, `systime_extension_s` (not in the models), transmit queue | the UAVCAN services, status broadcast, 1 Hz task, start of the threads | every node type through `app_*` callbacks | clock wrap; mutex `canardMtx` around one libcanard instance | a promised restart happens; a dead bus ends in a watchdog reset; an answer is of the parameter that was asked for |
| Configuration store (`config.c`, `drivers/eeprom24c.c`, `drivers/i2c.c`) | 56 parameters, each a length byte and a value, in a paged EEPROM | init, get, set | `onParamGetSet`; every `app_init` and `app_config_update`; the 5 ms thread | reset between two page writes; failed transfers; reads in the middle of a write | a valid magic means valid defaults; only what was written is read |
| Boiler (`nodes/boiler.c`, `dimmer.c`, `modules/pid.c`) | controller output and its age, duty cycle, temperature limits, table of other boilers | meter data, boiler status, fast tick, 1 Hz tick, reconfiguration | smart meter node, other boilers, dimmer | three threads write the duty cycle; timeouts; a table that is full | heater off without readings and above the limit; no live claim of another boiler overlooked |
| Bathroom (`nodes/bathroom.c`) | occupancy state, door, keys, fan, light | fast tick (debouncing), 1 Hz tick | temperature receiver; hallway and K22 lights through its broadcast | clock wrap in several timeouts; 0 used as "not pressed" | a room is opened by motion only, and empty in the end; the LED shows the state; fan run-out |
| Heating (`nodes/viessmann_trimatik.c`) | burner and circulation state and their times, deviation integral, key switch | fast tick (keys, filters), 1 Hz tick | time data | mode change in the off time; clock wrap; hours and minutes at the edges | burner respects its minimum off time; a cold house is heated; keys and time ranges are read right |
| Greywater pump (`pump_receiver.c`, `conduction_sensor.c`) | pump state machine, filters | 1 Hz tick, sensor data | level sensor node | lost sensor data; restart of the maximum running times | pump never on longer than its modes allow; rests after its source ran empty |
| Meter reader (`nodes/sml.c`) | parser state | one byte | serial port; boiler | entries with optional fields, values of any type and length, other bytes in between | one message for each entry with a number, with its value |
| Humidity alarm (`nodes/humidity_alarm.c`, `melodies.c`, `temperature_receiver.c`, `dewpoint.c`) | alarm level and time, song position | 1 Hz tick, fast tick, environment data | tone driver | `melody_play` under a faster `melody_tick`; a stale temperature | sounds as long as it is wet; no temperature older than a day |
| Hallway light (`nodes/hallway_light.c`) | animation, motion trigger | fast tick, 1 Hz tick | time and brightness data | trigger time plus 45 s wraps; reversed fades | the lamps come to their target and never leave the range of both ends |
| Event counter (`eventcount.c`) | last, stable state and count per port | acquire | configuration | bounces, irregular sampling, clock wrap | only a level stable for the minimum time is counted |
| Message encoding (`dsdl/homeautomation/*.c`, hand-made frames in `modules/bme280.c`, `viessmann_trimatik.c`, `sml.c`, `pump_receiver.c`) | none | encode, decode | all nodes | widths of 1 to 64 bits, saturation, sign extension | what is sent is received |
| K22 light, default node, sensor and PWM drivers, fault handlers, vendored code, boards | none of their own, or registers and arithmetic | | | | |

The hazards this code is exposed to are listed in `PROJECT.json` at the lines where
they bite, each with the properties that cover it. Those that no property
covers say why in their note, and three more are in section 5.

## 2. How the models are ordered

The order is by how much damage a fault does and how little a test sees of it.

1. `ImageInstall`, `FirmwareUpdate`: the update. `Bootloader` extends it and composes it with
   `main()`, the restart services and the application's side of `bootloader_interface`. Proofs
   of both.
2. `Config`: EEPROM, page writes and resets, with proofs.
3. `BoilerPeers` and `Boiler`, which extends it: three threads and the mutex. Proofs of both.
4. `Node`: the threads of the application, its 1 Hz tasks, its transmit queue and watchdog;
   and with it the programs of `nodes/` that must do something in the end: `Bathroom`,
   `HallwayLight`, `HumidityAlarm`, `Heating`. `Programs` puts them together; proofs of the
   safety of the five.
5. What those programs are built from, where safety is all there is to say: `HeatingInputs`,
   `HallwayMotion`, `PumpReceiver`, `EventCount`, `BathroomIndicator`, `BathroomAir`, `Sml`,
   `Messages`, `Conduction`, `ParamGetSet`. `Devices` puts them, and `BoilerPeers`, together;
   proofs of all, those of `Sml` and `Messages` in modules of their own.

`ImageInstall` is the abstract specification that `FirmwareUpdate` implements, and
`FirmwareUpdate` the one that `Bootloader` implements. `Messages` and `Sml` state what they
promise as a relation of what was sent and what is received (`Nearest`, `Reported`).

Each invariant, each action property and each refinement that a run checks is proved; liveness
is model-checked. Still worth proving: `config_init` and `config_set` as an implementation of a
store that is set in one step.

## 3. The modules

**`ImageInstall`** is what an update promises: the pages of one image are put into the
flash in ascending order, and success is only reported of an image that is there. It
knows no reads, buffers or threads. A reset may give an install up or begin it again
and leaves at most one page in between.

**`FirmwareUpdate`** is the update as the bootloader does it. One action is one access
of a thread to the flash or to a variable both threads write:

| Action | Code |
|---|---|
| `AcceptBeginFirmwareUpdate` | `onBeginFirmwareUpdate` of the bootloader, when it answers 0 |
| `StoreRequest` | the same service of the application: it only stores the request |
| `Answer` (`onFileRead`) | receive thread: an answer to the oldest read arrives |
| `Lose` | read or answer lost on the bus or in the memory pool |
| `RequestMore` | `processFirmwareUpdate`, page not full |
| `VerifyPage` | first `flash_verify_block`, with everything that follows when the page is there |
| `flash_erase_page`, `flash_write_block` | flash driver |
| `CheckPage` | second `flash_verify_block`, with the return |
| `FailUpdate`, `ForgetFailedRequest`; `ForgetRequest`, `EndUpdate` | the two assignments of `CanNodeThread` after a failure and after success, each in the code's order |
| `Restart` | any reset, and leaving the bootloader; in `Bootloader` the code decides what it does |

A byte of an image is a pair of file and offset, so that the flash shows what came from
where. A request may name the server or node 0, and a file or none: both services take what
they get. A server that does not fail answers a read of no file with no data; a request that
names another node is one whose reads are lost. `mixed` is a history variable: the running update took an answer that was not
the data it asked for. Four constants say what the environment may do (`ServerErrors`,
`LateAnswers`, `Losses`, `FlashFaults`).

**`Bootloader`** extends it. `running` says which program runs. Time is counted in
sleeps of `main()` (500 ms), timers as what is left of them. `MainCheck` and the test
after it are two steps with only the receive thread between them, because `main()` does
not wait there. `NodeThread` runs where `main()` sleeps. The guard of `Tick` says that
the node thread, polled at least every 100 ms, is done before the next sleep ends.
`node_id` is the third part of the hand-over, without which the bootloader does nothing; the
application stores what it reads from the EEPROM, 0 if that fails (`NodeIdLost`). `current` and
`handed_over` are history: the stored request was made since the application last started, and
it was the application that stored it, with its node id.

**`Config`** is `config.c` over `eeprom24c.c`. An operation is the list `writes` of the
`eeprom_write` calls it has still to make; the writing thread works on its head:

| Action | Code |
|---|---|
| `config_init` | `config_init` up to the comparison of the magic; `format` is the list of all writes of the other branch |
| `InitFails` | `eeprom_init` returns -1; the node goes on without an EEPROM |
| `SetParam` | `onParamGetSet` with a value: `config_set` writes the length, then the data |
| `SendPage`, `WriteCycleEnds`, `AckPoll` | one page of `eeprom_write`: transaction, write cycle, ack polling |
| `WriteFails` | all tries of a page failed; the call ends and its caller goes on |
| `ReadLength`, `ReadData`, `ReadEnd` | `config_get_uint` of another thread, two transactions |
| `Reset` | any reset, also in the middle of a transaction |

The EEPROM is external: its address counter wraps inside the page, it is deaf during a
write cycle, and a reset leaves the first bytes of a page written and the rest as it
was. `written`, `before`, `torn` and `failed` are history: what a parameter was last set
to, what it was before, and whether the set was carried through. Left out: the names of
parameters, the unlocking of the bus, the status variable of `config_init` (nothing reads
it), and sets while the EEPROM is absent (they change nothing).

**`BoilerPeers`** is the table of the other boilers: `on_boilerstatus_data` with
`get_other_boiler_entry`, and `get_target_power`, the first thing `regulate` does. Both
run in the receive thread, one after the other, so each is one action. Ages are whole
seconds; those of entries wrap at `AGE_WRAP`, as differences of system times do. `latest` and
`said` (history) are what each node said last and ever, with ages that saturate at the
timeout; `lost` the nodes whose entry somebody else was given; `unseen` for how long no search
of `get_target_power` came by an entry.

**`Boiler`** extends it with the three threads that switch the heater. A thread runs
until it waits, and `canardMtx` is handed to the first that waits, so the actions are
the pieces between waits:

| Action | Code |
|---|---|
| `Receive` | a frame; `canardHandleRxFrame` with `canardMtx` locked |
| `HandleObis`, `HandleStatus` | `on_obis_data` (with `regulate`), `on_boilerstatus_data` |
| `HandleSet`, `reconfigure` | `onParamGetSet`, `app_config_update`: a wait for the EEPROM before each limit |
| `app_fast_tick`, `FastSent` | `app_fast_tick` up to the lock in `set_dc`, and from there |
| `Tick`, `app_tick` | the 1 Hz task of the node thread |
| `NodeLocks`, `NodeUnlocks` | whatever the node thread sends |
| `StopDc`, `StopDimmer` | `set_dc(0)` of `app_tick`, which can be preempted between its assignments |

`pid_tick` may give any output: its floating-point arithmetic is not modelled. `Heats` says
what `dimmer_tick` makes of the duty cycle. The age of the controller output wraps as the
entries' do. `hot`, `silent` (the seconds without a reading) and `reloaded` are history.

**`Node`** is `node.c` as every application node runs it. The receive thread's services
(`onGetNodeInfo`, `onRestartNode`, `onBeginFirmwareUpdate`) come between any two steps of
the node thread, which is cut where another thread can be seen: `Begin1HzTasks` samples the
time, `broadcast_node_status`, `run_app_tick`, `End1HzTasks` with the test of `NodeRestartAt`, and
`processTx`, which is the only place that resets the watchdog. `now` is the 32 bit system time
with a small range, and `NodeRestartAt` a sum in that range. Two bounds are guards of
`SystemTick`: the node thread is not later than `PERIOD`, and the watchdog bites at `WATCHDOG`.

**`ParamGetSet`** is `onParamGetSet`, one action: how a request is decoded (index, tag, value,
name), which parameter it means, what is set and what is answered. A value of 255 bytes and a
name longer than the buffer are left out.

**`Programs`** runs `Node` and, in its place, each program of `nodes/` that has a liveness
property. The programs share no variable, so one *part* is explored at a time. The parts:

| Module | Code | Actions |
|---|---|---|
| `Bathroom` | `readButtons`, `occupancyIndicatorTick` | `readButtons` debounces door and key in the fast thread; `bathroom_tick` is one second of the state machine |
| `HallwayLight` | `app_fast_tick` of the hallway | `LightTick`: wanted brightness from daylight, hour and motion; `Animate` does a step of a fade (any order of lamps) or of the play |
| `HumidityAlarm` | `humidity_alarm.c`, `temperature_receiver.c`, `melodies.c` | `app_fast_tick` with the player; `ReadTemperature`, `UseTemperature`: `app_tick` cut where a new temperature can arrive; `read_config` |
| `Heating` | `app_tick` of `viessmann_trimatik.c` | `Tick` with any temperatures, mode and delay; `app_config_update`; `Reset` |

**`Devices`** does the same with the parts that safety is said of:

| Module | Code | Actions |
|---|---|---|
| `HeatingInputs` | key scan, `time_data.c`, `inTimeRange` | `ScanKeys` with the selection of the next column; `ReadHour` and `ReadMinute` with `on_time_data` between them |
| `BathroomIndicator` | the yellow LED | `SetLed` one statement of the node thread, `Blink` the fast thread between any two |
| `BathroomAir` | `readLdr`, `lightTick`, `fanControlTick` | one tick of all three; `SetRunOutTime` |
| `HallwayMotion` | motion stamp of the hallway | `MotionSeen` (fast thread), `TellMotion`, `KeepTrigger` (node thread), `Pass` |
| `Messages` | generated code and the four hand-made frames | `Send`, `Receive`; a message is its list of fields, a value its bits, a frame the bits of whole bytes; `fill` is what was in the bits nobody writes |
| `PumpReceiver` | `pump_receiver.c` | `on_conduction_sensor_data`, `pump_receiver_tick`, `PumpPass` |
| `Conduction` | `conduction_sensor.c` | `conduction_acquire`, with the polarity; `conduction_evaluate` by another thread |
| `EventCount` | `eventcount_acquire` | sampled at any time, `ChangePad` bounces |
| `Sml` | the parser of `sml.c` | `NextEntry` and `NextByte` of an entry; `OtherByte` between entries |
| `BoilerPeers` | see above | |

In **`Sml`** an entry has a status or none, a time or none, and a
value: a number of 1 to 8 bytes, signed or not, or something else of 0 to 10 bytes, as text, a
boolean or an absent value are (a longer one can hold a whole entry). `entry` is what the meter
sends, `sent` the messages since its first byte, `ready` (history) whether that byte met the parser at the
start of its search: a 0x77 before it, or a part of the prefix in a discarded value, leaves the
search elsewhere, and the entry is missed.

Time stamps are kept as ages modulo the range of the system time, which is what
`chVTTimeElapsedSinceX` computes (in `BoilerPeers` and `Boiler` in seconds), except where the code compares stamps as they are
(`HallwayMotion`, `PumpReceiver`, `Node`): there they are system times modulo that range.

A definition named `x_y` after a definition `x`, marked *Variant*, is `x` with a likely
mistake. `PROJECT.json` names the property that notices it. No specification uses one.

The MC modules only give constants their values.

### What is left out

* A malformed FileRead answer (shorter than 2 bytes or longer than 258), which
  `onFileRead` drops with the request still pending; to the update it is a lost answer.
* The half word: lengths are rounded up to even, which for the last page writes one byte
  behind the image. Only the bytes of the image are compared here.
* `flash_erase_page` is one step. A reset in it leaves the page erased or not. One in
  `flash_write_block` leaves any first part of the page written.
* `boot_application` does not look at the flash before it jumps. An application that is erased
  or half written is in the model one that hangs until the watchdog resets it (`Works`); the
  first of all flash contents is an old application.
* The transmit queue, GetNodeInfo and the status broadcast of the bootloader (`Node` has those
  of the application, which are alike).
* The uptime of the application and `systime_extension_s`, which only it uses (section 5).
* SML streams with a TL byte of length 0 where a value is expected, or with a number of length 1:
  the code then writes or reads in front of `value`. TL bytes that are continued by another.
  Values of more than 10 bytes that are no numbers, and numbers of more than 8.
* The clock's wrap in the bootloader: `Bootloader` counts the time that is left.
* `requestFileRead` uses the libcanard instance without `canardMtx`. What libcanard
  does when it is interrupted there is not in this repository.
* The time between the start of the threads (`node_init`) and the end of `app_init`, in
  which the receive thread may already handle frames; and a requested restart of a
  boiler, which ends the fast thread with the pin as it is until the reset a second later.

### Not modelled

* `k22_light.c` and `defaultNode.c`: one output set from one received value, or nothing.
* `drivers/analog.c`, `drivers/pwm.c`, `drivers/tone.c`, `modules/bme280.c` (but its frame is in
  `Messages`): registers and a filter; `modules/pid.c`, the heating curve, the dew point and
  the thermistor formula: floating point. What they compute is an input of the models.
* `drivers/bme280_ll.c`, `qfplib`: third-party code. `board/`, `chconf.h`, `halconf.h`,
  `mcuconf.h`: tables and options. libcanard and ChibiOS are not in the repository.
* `pump_receiver.c`, `conduction_sensor.c` and `eventcount.c` are modelled although the
  Makefile does not link them at this commit.

## 4. The runs

| Run | Shows | States |
|---|---|---|
| `update_any` | under everything the environment can do: the page buffer is not overrun, success means installed, nothing installed is touched again | 1 685 000 |
| `update_install` | server without errors, no answer from before a reset; lost reads, flash faults and resets: answers are taken in order, the update implements `ImageInstall`, and it ends unless a read stays unanswered | 7 600 |
| `boot_any` | what the application handed over is not acted on after its next start, the boot timeout never cuts off an update that has begun to read, and the composed node takes only steps of `FirmwareUpdate`, with power cuts, watchdog, errors and faults | 122 000 |
| `boot_live` | when updates are asked of the application only and the power stays, no half-written image is booted, an update of a file of the server that was handed over is installed in the end, and the bootloader ends in the application | 10 800 |
| `config_faults` | reads and writes that fail, resets, the magic overwritten, values too long: no operation harms another parameter | 2 209 000 |
| `config_resets` | resets anywhere, another thread reading: a valid magic vouches for the defaults, a read is atomic on one page, start and sets end | 76 000 |
| `boiler` | the heater is off when readings stop, and when it is too hot, however the threads interleave | 5 998 000 |
| `programs` | an application node restarts as promised and leaves a dead bus; a bathroom is opened by motion only and empty in the end; the hallway's lamps get where they should and nowhere else; the humidity alarm is heard and uses no old temperature; the burner rests, and heats | 169 000 |
| `devices` | keys, LED, fan, time of day, meter entries, messages, parameters, pump, contacts, counter and the table of boilers do what the programs rely on | 409 000 |

`update_error_answer`, `update_fail_race` and `config_read_fault` are the findings of section 5.

**Bounds of the update.** A flash of two pages, a page of two chunks. Two images: one
ends one byte into its second page, one fills its only page, so that the end of the
file comes with and without data, in the first and in a later page. Reads outstanding:
two where old answers survive, one elsewhere (the code never has two of its own). Two
pages are enough for every relation between a page that is done, one that is being
replaced and one that follows; two chunks for every relation of buffer and request.
Chunk size 1 and 2 are both run, since with 1 no answer can be short and not empty.
Timers: the shortest values that keep their order (restart before end of delay before
boot timeout). Requests name the server or node 0, each of the files or none, and the node id
is read or not; `boot_any` has one of the two files, as its properties are not about which.

**Bounds of `Config`.** Pages of 4 bytes and six parameters of 1 to 3, placed so that one
has its length at the end of a page, one its data on two pages, some share a page with
neighbours. That is every relation of a parameter to a page boundary that
`CONFIG_MAX_SIZE` bytes can have.

**Bounds of the boiler.** In `devices`, two entries for two other boilers are enough for one
to have both and for the other to find the table full. In `Boiler` the table has one entry and a
claim can only be the highest, which is enough for both results of `get_target_power`.
Timeouts are as short as keeps their order. Temperatures lie below the minimum, in the
hysteresis, between the limits and above the maximum; one set of limits has the minimum
above the maximum. `AGE_WRAP` is the least range in which an age can be too old, wrap, and
be young again, with two seconds between the timeout and the wrap.

**Bounds of `programs` and `devices`.** Every range of the system time is a few units longer than
the longest time the code waits, so that each wait and each stamp meets the wrap; times are
as short as keeps their order. `Node`: one mailbox, a pool of two frames. Bathroom: half
seconds, door and key need two samples. Hallway: three lamps, a fade of eight steps, all
orders. Alarm: two melodies, one with a pause. Heating: three sets of parameters, among them
one without minimum off time and one without hysteresis; `MaxOff` bounds the history
variable `off`, which saturates above every off time that can be set. `devices`: numbers of one and
two bytes and other values of none and one, with a sign bit and a byte of the prefix in them; bytes
between entries that are the first two of the prefix or an absent field; every message of the
house, with values at both ends of each field's range and of its C type, arrays of none and of two items, all bits that nobody
writes 0 or 1; a day of six hours of three minutes, with a range inside of a day and one
over midnight; parameters of one and two bytes of each type. `COUNTS` bounds the counter and
the pulses of `EventCount`. `PumpPass` stops when a deadline may have wrapped (`wrapped`,
history): `PumpEnds` and `SourceRests` speak of the time before.

**Fairness.** The node thread of the bootloader is weakly fair: it is polled every
100 ms and nothing of its priority runs without waiting. `Answer` is weakly fair: a
server that got a read answers it. `Tick`, the steps of `main()`, the start of the
application, a requested restart and the watchdog of a hung processor are weakly fair.
In `Config` the writing thread and the write cycle are. In `programs` the threads that
`node.c` schedules are: the node thread, the fast thread's tick of the hallway, the alarm's
ticks, `main()`, the system time and the watchdog. The other parts' liveness rests on one
action, their tick; what keys, motion, readings and clients do is not fair. Nothing the
bus may or may not do is fair: requests, resets of a working application, power cuts.

A read that is lost is never repeated: the code has no retry (`firmware_update.c:132`
says so), so `UpdateEnds` excepts an update that waits for it (`ReadUnanswered`), and
`boot_live`, which asks that updates come to be installed, has no losses. A request with no
server or no file is accepted too and never served; `RequestIsServed` speaks of those that
name both, and excepts a restart that lost the node id.

## 5. Findings

Each is a run that TLC refutes, with the quoted line in `PROJECT.json`.

* `update_error_answer`: an error answer has no data, is taken for the end of the file
  and ends the update with success.
* `update_fail_race`: after a failure the flag is cleared before the request. An update
  the receive thread accepts in between loses its server and never ends.
* `config_read_fault`: `config_init` does not look at the result of reading the magic; a
  read that fails clears the whole configuration.

What else the models show, beside the runs that expect a violation:

* `main()` samples `FirmwareUpdate` every 500 ms, so the boot delay after an update runs
  from a sample (`bootloader/main.c:69`), and `BOOTLOADER_COMMAND_TIMEOUT` (line 26) is
  never used.
* A reset between the two writes of `config_set` leaves a parameter with a new length and
  old data (`config.c:169`); `StoredIsWritten` speaks of the others.
* A read while the EEPROM programs a page is not answered, and `config_get_uint` returns
  0 (`config.c:124`).
* Defaults are written before the magic but their results are not looked at
  (`config.c:223`): with failing writes a valid magic does not vouch for them.
* `boiler.c:262` says entries are never removed; `get_target_power` removes those that are
  too old (`boiler.c:194`), so a node can have two entries.
* A boiler that finds the table full takes the first entry; its claim is overlooked
  when its entry is taken in turn (`lost` in `YieldsToAll`).
* A controller output that comes while the fast thread waits for `canardMtx` in `set_dc` is
  not acted on until the next reading (`boiler.c:172`).
* An entry that no search of `get_target_power` comes by for 119 h, as there are no readings or
  each search ends at an entry before it, looks fresh again (`boiler.c:188`), although line 34 says
  that a node not heard of for 15 s is considered as offline. The boiler then leaves the power to
  a node that may be gone; `YieldsToSomebody` names these entries (`OVERLOOKED`).
* `boiler.c:2` names OBIS 16.7.0; the code takes the difference of 1.8.0 and 2.8.0.
* A request the bootloader took and did not serve survives the start of the application:
  `main.c:51` says "Invalidate any bootloader command on application start" but line 52 only
  clears the magic, and the next `requestNodeRestart` (`node.c:83`) makes it valid again. It comes
  about when an update is accepted between `main()`'s look at `FirmwareUpdate` and its jump. What
  the application itself hands over is not acted on twice (`HandedOverOnce`).
* An update asked of the bootloader does not set the magic: a reset in the middle of it forgets it,
  and the half-written image is started when the timeout runs out (`bootloader/node.c:199`).
* A request without a server or a file name is answered with 0, accepted. From the application
  nothing is then begun (`bootloader/main.c:55`), nor when the node id could not be read
  (`node.c:82`); the bootloader itself asks node 0 for the image and waits for ever, or, if only the
  name is missing, ends with success as soon as the server has no data for it.

Application node:

* `NodeRestartAt` may be 0 after the wrap (no restart), or so late that the 1 Hz task misses it
  until the next wrap; `RestartHappens` names the times for which it holds.
* The uptime adds `systime_extension_s`, which only the 1 Hz task corrects: until then a
  GetNodeInfo after the wrap reports 119 h too little (`node.c:473`).
* A restart that was asked for ends the fast thread, which is not begun again.
* A parameter is answered with its bytes: a negative integer -x comes back as 2^32 - x, a value
  with another tag than its type's is stored as it is, booleans are never set.

Bathroom, hallway, alarm:

* `occupancySwitchLast` is never assigned (`bathroom.c:145`); the debouncing works all the
  same, as its value 0 is that of a pressed key.
* After the wrap an old motion looks new: an empty room comes into use once in 119 h.
* The fast thread can undo the yellow LED for the first second of a state (`bathroom.c:321-323`);
  in private mode the order is the one that cannot (`338`, `339`).
* A fade that is turned back leads to the brightness before, not to the one wanted
  (`hallway_light.c:225`); the play that follows corrects it.
* The hallway is lit for 45 s after start and after each wrap without a motion, and motion has
  no effect in the 45 s before it (`hallway_light.c:215`; stamps are not compared by age).
* `melody_play` replaces the melody where the old one is. With repetition times shorter than a
  melody it can go on behind the end of the new one (`melodies.c:23`); `AlarmAssumption` excludes
  that. A note of 96 units makes 384, which `note_pos`, 8 bits wide, takes as 128.

Heating:

* A burner that was never on since the reset may still be held off (`viessmann_trimatik.c:517`:
  the first stamp is a constant in the past that the wrap makes one of the future).
* In debug mode the temperatures are not converted (line 363): they stay as they were, also for
  the first tick after it.
* `inTimeRange` (line 478) is wrong for ranges within one hour (always on after the start's
  minute of that hour, or before the stop's) and over midnight (no hour between them is in);
  `DayFromStartToStop` excludes both.

Meter, messages, sensors:

* A 0x77 before the 0x77 of an entry makes the parser miss it (`sml.c:88`). Of a value that is
  not a number it skips the type but goes on as if the first byte of the prefix were there
  (`sml.c:144`, `159`), so a 0x07 in such a value has the same effect. `EntryReported` speaks of
  entries that met the parser at the start of its search (`ready`), as each does that follows a
  number, or bytes that have brought the search back to its start.
* The time of an entry (`valTime`) is a list, whose TL byte has a number of elements and no length.
  The parser skips that many bytes (`sml.c:112`), loses its place, and sends a byte of another field
  as the value, or nothing. `EntryReported` speaks of entries without one.
* What is not a number is discarded, says `sml.c:141`; but a value that is absent (TL byte 0x01)
  is sent as a 0, as the test of line 160 follows all the same, after line 162 has looked at the byte
  before `value`.
* Every entry with a number is sent, not only 1.8.0 and 2.8.0 as line 62 says.
* The four senders that fill in their frames by hand do not saturate; `RoundTrip` speaks of the values
  in range. No sender but `bme280.c` clears its buffer, so the last bits of a frame are arbitrary.
  The smallest number of a signed field is sent as the one above (`homeautomation_HeaterStatus.c:10`
  saturates to a range as long below zero as above). A frame that ends with an
  array and has not its length is decoded with the array's first bits for the length.
* `modules/bme280.c:107` reads sensor 0 for each sensor.
* `analog.c:60` says 1/16 of the old value is kept; the code keeps 15/16.
* `i2c_init` waits for ever while a device holds SDA low.

Hazards without a property: `requestFileRead` calls libcanard without its mutex
(`firmware_update.c:66`; libcanard is not there to be modelled), the song position above, and
the wrap in `hallway_light.c:215`.


## 6. Proofs

Each proof module holds the proofs of one module or of one composition.

`FirmwareUpdate_proofs` proves for every chunk, page, flash and image size and every
environment:

* `UpdateInvariant`: the inductive invariant `IInv` holds;
* `TypeCorrect`, `NoOverrun`, `OffsetsAgree`, `BeginningInstalled`, `SuccessInstalls`: from
  it, the type invariant, the bound of the page buffer, that requests follow the buffer
  (`RequestFollowsBuffer`, which is only proved), that the flash has the image up to the write
  offset, and that success means installed.

and, with what follows from it,

* `NothingUndone`: no step of a running update changes a flash cell before its write offset,
  whatever data it was fed;
* `InOrder`: without error answers and answers from before a reset, every answer taken
  is the one asked for. Its invariant `QuietInv` says that a read is at the server only
  while `file_request_pending` is set, that there is only one, and that it is of the offset
  one chunk before the next;
* `IsAnInstall`: in that environment the update implements `ImageInstall`. A step that
  changes the flash is a `Program` or a `Reset` of page `firmware_write_offset` divided by
  the page size (`PageStep`), and the end of `processFirmwareUpdate` is `Finish` or `Fail`.

The only assumptions are those of `FirmwareUpdateAssumption`: sizes are positive, a page
is a whole number of chunks and the flash of pages, image bytes differ from the two
contents that are of no image.

**The argument.** `SuccessInstalls` is not inductive. It needs that what precedes
`firmware_write_offset` is the image (`PrefixInstalled`), which is kept by a verified
page only if the buffer holds the image's bytes from that offset on (`ContentInv`),
which is kept by an answer only if the answer is of the offset after the buffer's last
byte. That is `RequestFollowsBuffer`, and needs control: a read is only pending while the
node thread is in its loop and the end of the file is not reached, and when an update
is not running all four offsets are as `initGlobals` leaves them (`ControlInv`). The bound
of the buffer needs arithmetic: the buffer is a multiple of the chunk below a multiple
of the chunk, so there is room for one more (`OffsetInv`, lemmas `NextMultiple` and
`RoomForOne`). An erase or a write only touches the page at `firmware_write_offset`,
which begins at it because the offset is page-aligned.

`TypeOK_*` lemmas do one action each for the types, `Safe_*` for the rest; `IInv_step`
puts them together.

`Bootloader_proofs` is about the whole node:

* `RunsTheUpdate`: main(), the services and power cuts take only steps of `FirmwareUpdate`, so
  every theorem above holds of the node;
* `NoUpdateInterrupted`: the boot timeout never cuts off an update that has begun to read. The
  receive thread may begin one between the two steps of `main()`, but the node thread cannot
  run there, so the update is as `initGlobals` left it (`TestInv`);
* `NoOldRequest`: of the requests that the application handed over with its node id
  (`handed_over`), none is acted on after the application has started anew, with requests to the
  bootloader, power cuts and unread node ids. `HandedInv` says that a handed-over request
  which is still stored is `current`, and that the bootloader is either at its update or has cleared
  it, in each of the two assignments that end one, so none is left when it jumps. Of requests the bootloader took itself
  it is false (section 5);
* `NeverBootsHalfAnImage`: with a flash and a server that do not fail and no answer from before
  a reset, what is started is whole. The image only stops working in an update, and the update
  outlives every reset (`ImageInv`); `AnswersInOrder` gives the rest;
* `NodeKeepsWhatItInstalled`, `NodeInstallsImages`: what follows for the node from `RunsTheUpdate`:
  success means installed, requests follow the buffer, nothing installed is touched again, and `ImageInstall` is implemented
  by the node with all its threads and resets.

`NeverBootsHalfAnImage` has the hypotheses of `boot_live`. Without them the code does not keep
the promise: a power cut and a bootloader asked directly leave an update that is not begun
again (section 5); a flash that fails ends an update in the middle, and the boot timeout then
starts what there is.

`Config_proofs` proves for every table of parameters, page size and memory:

* `StoreInvariant` and `StoredWhatIsWritten`: whatever fails and whenever the node is reset, a
  parameter whose set was carried through is stored as it was written. No hypothesis on faults
  is needed, not even a valid magic;
* `MagicVouches`: behind a valid magic are the defaults, if no page is given up
  (`~WriteFaults`); reads may fail and the node may be reset anywhere;
* `ReadsAreAtomic`: with `~WriteFaults`, a read of an integer on one page gives a value the
  parameter had while it was read. Its second hypothesis says that the parameter is only set as
  a whole (`Whole`), as integers are: of a text, new length and old bytes can be read.

The argument has three layers. First the layout: `get_param_offset` is a recursion over the
parameters; that it is defined and grows from each to the next follows from the least
parameter of which it would not be true (`Least`, `OffsetDefined`), so parameters are
disjoint and inside of the memory (`Layout`). Then one page: what is sent in one transaction
does not wrap in the page and changes only bytes of one parameter (`ProgrammedBytes`).
Then the list of writes: `Leads(j, a, v)` says that byte `a` has value `v` and keeps it, or gets it
from one of the next `j` writes and keeps it then. `StoreInv` says that settled parameters have
their bytes and no write to come is at them, and that writes which end a set or the format lead
to what is meant (`Planned`). For the magic (`VouchInv`): the first page of the format makes it
invalid, and the writes up to that of the last default leave it so (`Harmless`). With
write faults that is false, as the results of those writes are not looked at (section 5).

`Boiler_proofs` proves of the table, for any number of entries and boilers and any timeout:

* `TableInvariant`: the inductive invariant `PeersInv`;
* `PeersTyped`, and the two halves of what the table is for: `NobodyOverlooked` and
  `NobodyInvented`.

`PeersInv` has two parts beside the types. `SaidInv`: what an entry holds, its node said, and
not longer ago than the entry's age tells, until the age has wrapped; `unseen` is what tells
when it may have: an entry that is looked at either is younger than the timeout or is freed, so
an age that wraps belongs to an entry no search came by for the rest of the range
(`OVERLOOKED`). `LatestInv`: of a node that was not overwritten and
spoke in the last 15 s, the first entry holds its last word. A node may have two
entries: the second is made when one in front of the first was freed. The old one is then wrong, and
the boiler may leave the power to a claim that was withdrawn, for at most 15 s, but it
never takes power it should leave. Both parts are kept by a status message (the entry it
finds is the node's, unused, or, if the table is full, the first, whose node becomes
`lost`), by `get_target_power`, which only frees what is too old to count, and by time.

and of the three threads, for any limits, temperatures and outputs of the controller:

* `OffWithoutReadings`, `OffAboveTheLimit`: the heater is off when readings stop, and when it is
  too hot. Their invariant `BoilerInv` says which thread holds `canardMtx` and which waits for it
  (`LockOK`); that after the timeout only the node thread can be about to write the duty cycle,
  and it writes 0 (`SilentInv`); and that a heater which is on although it was measured too hot
  has had no reading for as many seconds (`HotInv`), because no second passes while a thread
  waits (`HotOnce`);
* `ThreadsOverlookNobody`, `ThreadsInventNobody`: what holds of the table holds in the boiler, with
  its exception of entries overlooked until their age wrapped.

`Programs_proofs`, for every range of the system time and every setting:

* `BurnerAlwaysRests`. `RestInv` says that while the burner was off for less than any off time
  that can be asked for, the age of `lastBurnerStop` is the time it was off, so the wrap cannot
  have hit it. That the code compares rounded-up seconds needs `RoundsUp`;
* `MotionOpens`: `RoomInv`, the age of the motion is true until the clock has wrapped;
* `TemperatureIsFresh`: `AlarmInv`, a temperature that counts as valid has its true age, also when
  a new one comes between the two reads, because the node thread makes an old one invalid
  before its stamp can wrap;
* `LampsNeverFlash`: `HallwayInv`, for any number of lamps, lengths and orders. In a fade a lamp is
  between the two brightnesses of that fade, also when it is turned back, and in the play within
  4/10 of the wanted one;
* `RestartNeverLate`: a promised restart pends at most a second and a run of the 1 Hz tasks, over
  the wrap. `NodeInv` compares ages, never stamps: the last run of the tasks is at most `PERIOD`
  old (`TasksOnTime`), and it began at most a second after the request if it saw no reason to
  restart (`SeenSinceAsked`). `NodeSteps` is `NodeSpec` without its fairness;
* `ProgramsKeepTheirSpec`: each of the five keeps its specification in the composition.

`Devices_proofs`, in the same generality:

* `PumpAlwaysEnds` (pump and fresh water each by the time of the mode) and `SourceAlwaysRests`,
  until the wrap is near. `PumpInv` relates the stamps to
  the times they stand for; that the pump joining a refill does not start the refill's time
  again is `StampsOK`;
* `OnlyStableCounted`. `HighSinceChange` is the key: the age of the last change may have wrapped,
  but then it is too young, never too old;
* `EachToldOnce`. Without motion since the last message there is no stamp above the one that was
  told; a message in progress needs care, as the motion may come between its test and the
  stamp that is kept;
* `KeysAreKnown` and `DayIsTheRange`. `KeysInv` counts, per column, the ticks since it was read
  against those the switches rest; `DayIsTheRange` is arithmetic of hours and minutes over the
  invariant that an hour read is of the time that holds, or the time was set;
* `LedShowsTheRoom`: `IndicatorInv` has one part for each state of the room, with what the node
  thread has still to assign and what the fast thread may have changed in between;
* `FanAlwaysRunsOut`: the age of the last trigger wraps to a younger one, never an older one;
* `ContactIsTold`: levels are of the polarity that is kept with them, wherever the evaluation
  comes in the measurement;
* `MeantIsAnswered`: a parameter request changes and answers what it means;
* `PartsKeepTheirSpec`: each part keeps its specification in the composition.

`Sml_proofs` proves `EntriesAreReported`, for all codes, units, statuses and values, for entries without
a time that met the parser at the start of its search. `SmlInv` is the invariant that a parser of
bytes needs: its state is a function of the field that is read and the byte in it, with one conjunct
for each field, and the bytes of the value it has are those of the entry, the highest first.
In a value that is no number the parser is no further in an entry than the value has bytes
(`Place`), too little to come to a value of its own and send it. `ValueReported` says that the sign
is extended.
After a number the parser is at the start of its search whatever it went through, so entries
do not depend on each other.

`Messages_proofs` proves `MessagesComeOut`, for all values that `Pattern` makes, any number of array
items and any content of the bits nobody writes; what is shown of a list of fields holds for
every list of fields of 1 to 64 bits, and of a field for every value of its type:

* the offsets are a recursive function. What holds of all of them follows from the least one of
  which it would not (`Least`, `OffsetsExist`), so they ascend (`LaterOffset`) and each bit of a frame is
  of one field (`OneField`, `EncodedBit`);
* the order of bits on the wire is its own inverse in the frame's bytes (`OnWire`), so the decoder
  finds what the encoder put there (`ScalarRead`, `DecodeEncoded`); a shorter frame ends before the
  last field (`DecodeShort`);
* extending what was saturated gives the nearest value (`Saturated`), extending what was in range
  the value itself (`InRangeExtended`);
* the length of an array is one more field between the two parts of the list (`Inserted`,
  `PrefixEnds`, `LengthRead`), so the array is read as any list (`ArrayDecoded`);
* the two flags that `bme280.c` sends as one scalar are the receiver's first two fields
  (`EnvironmentDecoded`).

`MessagesInv` says what is on the bus between sender and receiver.

Each assumes what its module's `ASSUME` says, which TLC evaluates in the runs: ranges are
positive and times fit into them; no off time of the burner is longer than the range of the system
time; parameters fit into the EEPROM, whose size is a whole number of pages, the magic has no
zero byte and an empty EEPROM does not begin with it; the brightness at dusk is the highest of
the hallway; an undriven contact is above 12/16; a melody is no longer than the interval it is
repeated at; no number of the meter is longer than 8 bytes and no other value longer than 10; arrays have at most the 7 items that
their length can say.

**Only model-checked:**

* liveness, which is out of this prover's reach: `UpdateEnds`, `RequestIsServed`, `BootsInTheEnd`,
  `ConfigSettles`, `RestartHappens`, `DeadBusResets`, `EmptiesInTheEnd`, `HallwayFollows`,
  `AlarmIsHeard`, `HouseIsHeated`;
* the findings, which are runs that fail.

`RequestFollowsBuffer`, `ToldOnce`, `SourceRests` and `RestartIsPrompt` are only proved.
