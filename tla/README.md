# A formal model of tfc

tfc is a framework for machine control in Rust.  Programs are built from
*slots* (typed inputs) and *signals* (typed outputs) that find each other
through a small D-Bus service, the IPC ruler, and exchange values over ZeroMQ.
Three executables use it: the operations server (the mode of a machine), the
EtherCAT program (drives, scales, digital terminals) and the ruler itself.

This directory holds TLA+ modules translated from that code, TLC
configurations that check them on small instances, and TLAPS proofs of the
properties that matter most for every value of the constants.

Paths below are relative to the root of the repository.

## 1. Inventory

| Component | Source | State it keeps | Operations | Talks to |
|---|---|---|---|---|
| operations server | `tfc-exes/operations/src/operations/{server,dbus_service,common}.rs` | state machine, event cell (tokio `watch`), two timer handles, eight mode signals, `mode`, `stop_reason`, pending mode update | seven slot callbacks, `set_mode`, `stop_with_reason`, timeouts, event task, D-Bus task | slots and signals (callbacks, sends), D-Bus |
| operations client | `tfc-exes/operations/src/operations/client.rs` | a cell per request, a cell of updates, subscriptions | `set_mode`, `stop`, `mode`, `subscribe_*`, proxying task | the server over D-Bus |
| ConfMan | `src/confman.rs` | value in memory, configuration file, `.tmp` file | `write` + drop of `Change`, D-Bus `set_value`, `from_json`, start | file system |
| IPC ruler | `tfc-exes/ipc-ruler/src/lib.rs` | SQLite tables of signals and slots | `register_signal`, `register_slot`, `connect`, `disconnect` | everyone, by D-Bus; broadcasts `connection_change` |
| slot: connection | `src/ipc.rs`, `src/ipc_ruler_client.rs` | socket, sockets on their way, name being connected or reconnected | connection, reconnect and receive tasks | ruler, ZeroMQ |
| signal to slot values | `src/ipc.rs`, `src/filter.rs` | watch channels of signal and slot, monitor, filters | `send`, monitor task, receive task, `recv`, `async_recv` | ZeroMQ |
| EtherCAT bus | `tfc-exes/ethercat/src/bus.rs`, `devices/device*.rs` | device objects per position, expected working counter, failures | init with attempts, search, cyclic exchange | the wire, devices |
| i550 and CiA402 | `devices/lenze/i550.rs`, `devices/CiA402.rs` | cached setpoint and permission | two slot tasks, `process_data` | the drive, by status and control words |
| EL3356 scale | `devices/beckhoff/el3356.rs` | command flags, ratio, zero, calibration, tare, last values | slot callbacks, `process_data` | terminal, signals |
| median filter | `src/median_filter.rs` | ring buffer, sorted vector | `consume`, `median` | EL3356 |
| EL1xxx / EL2xxx | `devices/beckhoff/el1xxx.rs`, `el2xxx.rs` | last bits | `process_data`, slot callbacks | terminal, signals and slots |
| button | `src/button.rs` | a slot behind a mutex, the event that is ready, a waker, the tasks earlier polls left | poll of the stream, task of a press with its three waits and two timeouts | its slot, the consumer of the stream |
| D-Bus and OPC UA bridges | `src/ipc/dbus.rs`, `src/ipc/opcua.rs`, `tfc-exes/ethercat/src/opcua.rs` | a watcher and a `channel()` per slot or signal, D-Bus object, node | registration, watch tasks, tinker, write callback | slots and signals, clients of both buses |
| program base, logger, banner, time | `src/progbase.rs`, `src/logger.rs`, `src/banner.rs`, `src/time.rs` | none | pure I/O and conversions | |
| EtherCAT executable | `tfc-exes/ethercat/src/main.rs`, `lib.rs` | none | start-up, panic hook that aborts | bus, OPC UA server |
| other mains, build script, examples | `tfc-exes/*/src/main.rs`, `src/bin/manual_test/main.rs`, `build.rs` | none | start-up | |

### Which behaviours are hard

* **Cells that keep one value.**  The event channel of the server, its mode
  updates, the requests and updates of the client and the values of signals and
  slots are `watch` channels: a send replaces what was not taken.  What may be
  lost that way, and what must not, is the question behind most of the
  properties.
* **Tasks between two awaits.**  Every callback, timer and connection is a tokio
  task; an abort does not stop a task past its sleep, a method of the ruler
  changes its table under a lock and broadcasts after it, a reconnect task works
  with a name that may be out of date, `process_data` loads the same atomic
  twice, a button spawns a task at every poll that finds no event and reads the
  event it resets a moment later.
* **Shared cells.**  The channel of a slot is written by the receive task, by
  D-Bus and by OPC UA, and read by the callback, both bridges and a button, who
  subscribe and leave at different times.  Without a receiver a send panics;
  without a sender a wait does.
* **Ends and restarts.**  A program is killed while it saves; signals, slots and
  the ruler restart independently; devices leave the bus, come back or are
  replaced by others, half way through an initialisation too.
* **Long sequences of legal operations.**  Nine modes with several ways out of
  each, a drive led through eight states, tare, zero, calibration and ratio in
  any order.

### What makes each component correct

| Component | Properties |
|---|---|
| operations server | one output up, that of the mode; every step an arrow of the mode graph; delays end with their mode; reasons end with their stop; outdated level events are followed by newer ones; `Starting` ends; the last mode is announced; an emergency is reached |
| client | ends up with the mode of the server; entries are notified; the last request of each kind is proxied |
| ConfMan | the file can be loaded, holds the last value saved, agrees with the memory |
| ruler and slots | a slot receives from its own type only; the last broadcast is what is stored; a slot that stays connected receives |
| values | no socket brings the slot back in time; the last value arrives, whoever overrides it in between |
| button | one event at most for every press; no consumer asleep beside its event; an event is taken after a press that was heard |
| bridges | show the last value, whoever wrote it |
| bus | data meets the object of its own kind; restarts for failures in a row only; recovers |
| drive | faster ratios are not slower; stops, rests, runs, and leaves faults of which the reset was not spent |
| scale | the filter gives the middle of the window; tared and zeroed is nothing and calibrated is the load, where the code's arithmetic means it; what was sent does not stay behind |
| digital terminals | what stays on one side arrives on the other; no output is on before its own slot was told |

## 2. Modules

```
ModeMachine <--- implemented by --- Operations <--- MCOperations
     ^                                   ^
     |                            OperationsSystem <--- OperationsProofs
     |                                   v
     '---- server of ---- OperationsClient <--- MCOperationsClient

IpcRuler <--- Wiring <--- MCWiring, WiringProofs
SignalLink <--- MCSignalLink, SignalLinkProofs        (one connection of Wiring)
WatchCell <--- Button <--- MCButton, ButtonProofs     (one end of SignalLink)
ConfMan <--- MCConfMan, ConfManProofs

EtherCatBus <--- TerminalBus <--- MCTerminalBus, TerminalBusProofs
CiA402 <--- Drive <--- MCDrive, DriveProofs
MedianFilter <--- Weigher <--- MCWeigher, WeigherProofs
```

`PROJECT.json` maps every definition that models code to its lines.
Operators named `Mut...` are variants of the definition that follows them, each
with a fault a programmer could make: `PROJECT.json` lists which property each
of them violates, so that one sees what a property is able to notice.

**ModeMachine** is the abstract specification of the operations server: the mode
graph, one pending update and its announcement.  Operations and OperationsClient
instantiate it (`MM`, `Server`) with their own `mode`, `update` and `pending`:
the first implements it, which is checked with and without fairness and proved
for safety; the second has its steps as those of the server it talks to.

**Operations** is the server.  `cell` is the event `watch` channel and `taken`
the event the event task has cloned; `Press`, `Receive`/`Callback`, `SetMode`,
`StopWithReason` and `Fire` send, `Take` takes, `Accept` is one `process_event`
with everything it calls (exit and entry actions, `transition`,
`update_stop_reason`), `Reject` one the table refuses.  A timer task is
`sleeping` while an abort can still stop it and counted in `firing` after that.
`level` is what `is_fault` reads; the callback that sends the event comes later.
The inputs in use are the constant `Sources`.

**OperationsClient**: `asked`/`fresh` are the two
request cells, `BeginCall`/`EndCall` the branch of the `select!` that proxies
one (an error meets an `expect` and ends the task), `TakeUpdate` the branch that
shows an update, `Watch` the task behind a subscription.  `Move` is a step of
the server, Emergency to Emergency included (`Repeated` while it is the last).

**OperationsSystem** is the two in one: the server of Operations stands in the
place of the client's abstract one, and what the client proxies goes into the
event channel of the server (`Call`, `CallEvent`).  It has no run of its own: it
is proved that it implements the client's specification and the server's, each of
which a run checks.

**ConfMan** has paths that name inodes: `Open` truncates or creates the `.tmp`
file, `Serialize`, `WriteAll` and `Rename` follow as steps of their own, for an
owner (`Change`) and the D-Bus executor (`set_value`).  A saver writes to the
inode it opened, a rename moves what the path names by then.  `Crash` ends the
program between any two steps.  A value is a model value with a length, because
a shorter value written over a longer one leaves the rest of it.

**IpcRuler** holds the tables and the calls between the release of the lock and
the emission; **Wiring** adds the programs of slots and signals and the three
tasks of a slot.  zbus runs the methods of an interface as tasks, so that a
method may start between the lock and the emission of another, and the ruler may
stop there.  `told` is the last change that was broadcast for a slot, and `raced`
has the slots whose last method overlapped with another or was cut off: both are
histories for the properties.  A socket is `open` until the endpoint it was
connected to closes.  `Stops` says who may stop.

**SignalLink** is one connection: the monitor task of the signal (`Accepted`,
the sleep of 100 ms, `Greet`; `Publish` when it is not asleep), the publisher
that drops what nobody subscribed to, the receive task that awaits its filters,
and the two ways to take a value.  A slot has two `Ends`: the socket it receives
from (`used`) and one that `Connect` has connected while the first is still in use
(`coming`), until `TakeSocket` drops the first with what was on its way.  Either
may lose its connection.  `Expose` and `Override` are `channel()`, through which
the bridges write the slot behind the back of the filters.  `floor` and
`overridden` are histories.  A callback is registered when the program
likes (`Recv`): a value that arrives while nobody has registered ends the
receive task, so `ConvergesOnceSent` speaks of programs that register first.  A
message has a number so that "older" can be said; the code has none.

**WatchCell** is the channel of one signal or one slot and everybody who shares
it; SignalLink and Wiring look at the way there.  `receivers` are those who hold
a receiver, `unseen` those whose task has not looked at the value since it was
sent, `Sent` what a send does, which without a receiver is a panic of the task
that sends (`dead`).  A bridge is registered (`Expose`), its object comes up
(`ObjectUp`), its task tells or shows the value (`Emit`, `Show`) or panics
because the object is not there (`EmitFails`) or the signal is (`WatchFails`);
its clients write (`Write`), which a task of its own forwards (`Forward`).

**Button** is one reader of such a slot.  Tasks are alike and wake the same
consumer, so that those that wait for the mutex are counted (`waiting`) and the
one that has it has a `stage`.  Each `async_recv` subscribes anew and only hears
what comes after (`Subscribe`, `Hear`).  `Poll` is the first look at `ready` and
`Take` the second, which resets it.  `armed` is a history: a press reached a
task since the last event.

**EtherCatBus** is `init_and_run`, `init` and `run`.  The line is external:
while it is `disturbed` devices come and go and anything may fail; otherwise
every device of the group that is in its place counts.  An attempt that fails
may have made some of the objects already.  An object that is replaced drops its
signals (`orphaned`); the tasks that show them panic, as `WatchFails` of
WatchCell says, and the panic hook of the executable ends the program (`Abort`).

**CiA402** and **Drive**: words are sets of bits.  `Decide`, `Check` and `Pack`
are the three loads of `process_data`, between which the two slot tasks may
store.  The drive follows the profile; it is external.

**MedianFilter** and **Weigher**: the filter is a pair of sequences, with a set
of outcomes because a binary search may stop at any of several equal readings.
`Measure`, `ZeroCalibrate`, `Calibrate`, `Weigh` and `SendMass`/`SendShare` are
the blocks of `process_data`, each with its own load of flags and ratio.  Floats
are integers in which every division of the model comes out even.

**TerminalBus** composes the bus with input and output terminals.  After an
exchange that counts (`Cycle`), each device processes its data in its `turn`
(`ProcessData`), between which slots are set and callbacks called.  `image` is
the process data, `Renewed` what becomes of the state of an object when the bus
makes another.  Every step of TerminalBus is one of EtherCatBus or leaves it
alone, which is proved (`StaysTheBus`) and carries the theorems over.

A panic ends only the task it happens in, except where the program installs a
panic hook that aborts (`tfc-exes/operations/src/main.rs`,
`tfc-exes/ethercat/src/main.rs`).

## 3. Runs

| Run | Instance | Shows |
|---|---|---|
| `operations_line` | run button, emergency, fault, `set_mode`, `stop_with_reason`; delays configured | no leaked delay, reasons only for stops, level events current, one output up, every step one of ModeMachine |
| `operations_start` | run button, `starting_finished`, `stop_with_reason`; delays configured or not | `Starting` ends, the last mode is announced |
| `operations_lost_emergency` | run button and emergency | *violated*: an emergency that stays on reaches `Emergency` |
| `confman_one` | one saver, three values of two lengths, four inodes | loadable, keeps the last save, settled means saved |
| `confman_two_torn` | owner and D-Bus | *violated*: loadable |
| `wiring` | one slot, two signals of its type and one of another, an operator; ruler, slot and one signal stop and restart | own type, broadcasts, joins |
| `signal_link` | two values, two sends, two sockets, a held value, callback, `async_recv` and `channel()` | order, convergence |
| `operations_client` | two modes, one of them Emergency, whose entry is subscribed to and which may be announced again; two requests, drop | mode followed, entry notified, requests proxied |
| `button` | a signal and a slot with both bridges; a button alone and one that OPC UA shows; two tasks | events have presses, wake-ups, an event after a press, last value shown |
| `terminal_bus` | inputs with right and long data, an output, an unknown device, an empty line | matching objects, outputs wait for their slots, restarts for cause, recovery, inputs reported, outputs written |
| `drive` | drives that reset by level and by edge, standstill and both directions, faults, local stops | speeds, stops, rests, runs, leaves faults |
| `weigher` | five terminals, window of three, tare with a ratio, zero and calibration with a ratio | median, tare, zero, calibration, what was sent |

### Bounds

* `MaxFiring = 1`: one timer task of each kind past its sleep.  A second needs
  the mode to be left and entered again before the first one sends; it sends the
  same event to the same cell.
* `Delays`: the line has its delays configured; the run for `Starting` has both.
* `Sources`: the line has one sender of each kind: a button, the two levels and
  both D-Bus calls.  `set_mode` reaches `Cleaning` and `Maintenance`, whose
  buttons are left out because each is one more sender like the run button.
* `Inodes`: a saver's file, the configuration, one that was unlinked while open,
  and one to spare.  Inodes are interchangeable, hence the symmetry.
* `MaxStream`: changes on their way to a slot (2) or updates to a client (1); a
  longer stream only delays what the property waits for.
* `MaxSocks = 1` stands for the capacity of 8 of the channel to the receive
  task: it makes the sender wait early.
* `MaxStream` of `wiring` counts the changes that methods have still to emit as
  well: two methods for the slot overlap, the slot's own registration and the
  operator's.  A second operator would overlap in the same way.
* `MaxSends = 2`, `MaxWire = 2`, `MaxAccepts = 2`, one socket on its way: two values
  are enough for an older one to meet a newer one, on either socket, while the
  last is repeated to one and the other has just connected.  The code lets eight
  sockets wait; `NeverBack` is about the one in use and any that comes.  The proofs
  hold for every number of values and messages.
* `MaxTare = 16` bounds the tare of a scale that is tared again and again with a
  ratio, which may grow without end (section 6).
* `InitLimit`, `StableCount`, `TryLimit` and `FailLimit` are 1, 2, 2 and 2
  instead of 10, 3, 100 and 100.  They are compared in the same way, and at
  these values each comparison still goes both ways: an attempt fails and the
  next succeeds, the search finds its counters with the last try or one too
  late, a failure is the last or is not.  The safety of the bus and the
  terminals is proved for every limit.
* `Lines` of `terminal_bus`: every position sees an input or an output terminal,
  one of another kind and none, and a device the program does not know; a
  terminal has one bit, because all are treated alike.
* `MaxTasks = 2`: one task has the mutex and one waits for it; a third would
  wait as the second does.  The proofs do not use the bound.
* `Deployments`: the bridges do not notice a button except as one more receiver,
  so that it is combined with OPC UA only.
* `Ratios`: forward comes from the configuration (100 %), standstill and reverse
  from the slot; a maximum of 40000 RPM reaches the saturation at 16 bits.
* `FreeBits = {"quick"}`: of the bits that the table of `parse_state` marks with
  an x, the one that the order of its comparisons depends on.
* `Capacity = 3` instead of a window of 100: odd and even windows occur while it
  fills.  Two readings (three for the terminal that only weighs) give windows
  with equal ones, which is where the two searches may differ.
* Terminals: what each block computes depends on the commands it meets, so that
  one scale has every command with the ratio 1, one has tare and two ratios, one
  zero, calibration and two ratios.  The ratio is sent at any time, in the middle
  of a cycle too.  The proofs take terminals with any commands and ratios.

### Fairness

* Weak fairness of every task that can go on: the tokio scheduler polls each
  task that has been woken, and a `sleep` ends.
* Strong fairness in OperationsClient for the branches of its `select!`, which
  picks at random among those that are ready.
* `SignalRegister` and `SlotRegister` are weakly fair because the code repeats a
  registration until it succeeds.
* The task of the bus is weakly fair only while the line is undisturbed; nothing
  is assumed of an exchange that may fail for ever.  A device whose turn it is
  processes its data, callbacks of slots are called, and a program whose hook
  was called ends.
* The tasks of the bridges and of a button are weakly fair, its timeouts
  together (`timeout` looks for a value before it looks at its clock), so are
  the polls of a consumer that was woken.  Nothing is assumed of `Expose`.
* Nothing is assumed of inputs, callers, operators, devices and program ends: no
  button has to be pressed and nobody has to start or connect anything.  The
  properties that need a quiet environment say so themselves (`<>[]...  =>`).

Three runs do not check for deadlock, because the system may stop there:
`signal_link` when all values have been sent and taken, `button` when the signal
has been dropped and nothing is left to show, `terminal_bus` when the bus has
given up or the program was aborted.

## 4. Proofs

For every value of the constants that satisfies the named assumptions, TLAPS
checks:

| Module | Theorems | Argument |
|---|---|---|
| OperationsProofs: server | `TypeCorrect`, `OutputsFollowMode`, `DelaysEndWithMode`, `ReasonsEndWithStop`, `LevelsStayCurrent`, `StartingHasAnEnd`, `Implementation` | Only `Accept` changes the machine (lemma `OnlyAcceptChangesMode`) and only along an edge (`TransitionsFollowEdges`), which makes the output, delay and reason invariants inductive with the types.  For level events the invariant is inductive as stated: `Take` empties the cell, `Receive` marks the input unseen, `Callback` fills the cell.  `StartInv` says that every event there may be in `Starting` ends it or finds its delay running.  `Implementation` maps each step to a move, an announcement or a stutter. |
| OperationsProofs: client | `ClientTypeCorrect`, `ViewsAreMoves`, `RequestsKept`, `ViewCatchesUp`, `EntriesAreTold` | An update is a move when it is made; it stays whole in the pending cell, on the stream and in the view.  The last of pending cell, stream and view that has something names the mode of the server, whatever was conflated before. |
| OperationsProofs: both | `SystemImplementsClient`, `SystemImplementsServer`, `SystemIsSafe` | Each step of the two together is one step of either half or leaves it alone.  An accepted event is a move of the abstract server because of `TransitionsFollowEdges`; a call the client makes is one of `DBusCalls`. |
| ConfManProofs | `TypeCorrect`; with one saver `FileLoads`, `SavesAreKept`, `FileFollowsMemory` | The three properties are not inductive: one has to know that the saver still owns the temporary file (`SaverOwnsTmp`), that it is not the configuration (`TmpApart`), that it was empty (`BlankIsEmpty`) and that what is written is what is in memory (`TextIsMemory`).  `OneSaver` is the assumption that the run with two savers shows to be needed. |
| WiringProofs | `TypeCorrect`, `ConnectionsChecked`, `SlotsReceiveOwnType`, `SlotsAreTold`, `ConnectedSlotsReceive` | A name travels through six places between the check in `connect` and the socket; the invariant says of each that the name is of the type of the slot.  For `SlotsAreTold`, a slot whose methods did not race has what is stored as its last change, or one method has it in hand (`AloneAgrees`): a method that finds none for the slot puts table and change right together, whatever came before.  A slot that was told of a signal always has a name, a socket or both in hand (`NeverForgotten`): each of its tasks hands on what it takes, and a signal that stops closes sockets without taking them away. |
| SignalLinkProofs | `TypeCorrect`, `NothingGoesBack`, `SettledShowsCurrent` | What is on its way to each socket is sorted by age, the value about to be repeated included, and is no older than the `floor` of that socket: that is the invariant, and the action property follows from it.  For `SettledShowsCurrent`, whoever has connected is in the monitor's queue, about to be repeated the value, or has the latest on the way or the monitor has not seen the change (`Repeated`), whoever has registered sees every value of the slot (`Watched`), and what the filters remember is shown unless it was overridden. |
| TerminalBusProofs: bus | `TypeCorrect`, `RestartsAreCaused`, `ObjectsMatch` | Failures never outnumber the exchanges missed in a row; between initialisation and its end the objects of the group stay what they were made. |
| TerminalBusProofs: terminals | `StaysTheBus`, `TerminalsMatch`, `TerminalsRestartForCause`, `OutputsWaitForTheirSlots`, `ToldIsKept` | Every step is a step of the bus or a stutter, and so the bus's theorems hold of the composition.  An output is driven by the image, the image written from what the callback stored, that taken from the slot: the invariant says of each of the three that it is off while the slot has no value, which a new object has to restore in all of them at once. |
| DriveProofs | `TypeCorrect`, `SetpointFollows`, `TableIsParsed`, `NeverUntold`, `NeverInDeadBand`, `EveryReportIsAnswered` | A speed is a division of hundredths, rounded; it rises with the ratio on either side of the dead band if the speeds are in order, the two sides mirror each other, and nothing but 0 is slower than the slower speed, cut to 16 bits (`RpmRises`, `RpmMirrors`, `NoCreeping`).  Every row of the table of `parse_state` differs from the others in a bit that both fix.  A drive gets into operation only by a word that was made of the cached permission and of both loads of the setpoint, which the invariants follow through the tasks and the three parts of `process_data`.  A status word is parsed as the state it was made in, so that the control word answers that state (`StatusRead`). |
| WeigherProofs | `FilterSound`, `NumbersAreTaken`, `SignalIsMedian`, `WeigherInvariant`, `TareIsExact`, `ZeroIsExact`, `CalibrationIsExact`, `ScaleShowsItsMass`, `CyclesShow` | The sorted vector is a rearrangement of the window (there is a bijection between their places) in order; removing the oldest at any place it is found and inserting at any place a search may return keep that.  With ratios and numbers typed by `NumbersKept`, tare, zero and calibration follow from the arithmetic of the block that takes them.  What the code compares a new mass or share with is what it sent last (`ShownIsMass`, `ShareIsShown`), so that a value is left unsent only if it is shown. |
| ButtonProofs | `EventsHavePresses`, `ConsumersAreAnswered`, `BridgesShowTheValue` | A task past its first wait has been reached by a press that no event has used up (`armed`), whatever other tasks wait for the mutex.  A consumer that waits has left a task behind, and every task that ends wakes it.  A send reaches every bridge but those that ended with their signal (`SentReaches`, `Looking`). |

The hypotheses of these theorems, and why they are there:

* `StartingHasAnEnd` takes a run button, `starting_finished` and
  `stop_with_reason`.  With `stopping_finished` TLC finds a `Starting` that
  nothing ends: `Starting` ignores its event, which may have replaced the timeout.
* `ViewCatchesUp` and `EntriesAreTold` take a client that listens from the first
  mode on (`ListensFirst`).
* `ClientConstants` repeats the assumptions of OperationsClient, which an
  instance does not hand on.  `SystemImplementsServer` takes a server that both
  D-Bus calls reach, with "" among the reasons: a client that was dropped stops
  it with that one.
* The three of ConfManProofs take `OneSaver`.
* `SettledShowsCurrent` takes what `ConvergesOnceSent` does (`RegistersFirst`),
  and a subscription that takes less than the monitor's 100 ms (`Prompt`);
  `BridgesShowTheValue` takes `InTime`, as `ShowsLast` does.

### Only model-checked

Liveness stays with TLC, because the prover has no rules for fairness and cannot
reason about what is enabled.  Of most of these properties the part that is
safety is proved: that what they wait for can no longer be missed once nothing is
left to do.

| Checked by TLC | Proved of it |
|---|---|
| `StartingEnds` | `StartingHasAnEnd` |
| `Joins` | `ConnectedSlotsReceive` |
| `ConvergesOnceSent` | `SettledShowsCurrent` |
| `FollowsMode`, `EntryNotified`, `RequestsProxied` | `ViewCatchesUp`, `EntriesAreTold`, `RequestsKept` |
| `ShowsLast` | `BridgesShowTheValue` |
| `HeardIsAnswered` | `ConsumersAreAnswered` |
| `InputsReported`, `OutputsWritten` | `ToldIsKept` |
| `StopsWhenTold`, `RestsInDeadBand` | `NeverUntold`, `NeverInDeadBand` |
| `RunsWhenTold`, `LeavesFault` | `EveryReportIsAnswered` |
| `ShowsMass`, `ShareFollows` | `ScaleShowsItsMass`, `CyclesShow` |
| the announcement in `ImplementsFairModeMachine` | `Implementation` |
| `Recovers` | nothing |

Some theorems have an exception in what they state, the same as the property of
the run, because the code does not do better (section 6): a slot whose last methods
raced (`SlotsAreTold`, `ConnectedSlotsReceive`), Emergency announced again
(`ViewCatchesUp`, `EntriesAreTold`), an overridden slot (`SettledShowsCurrent`), a
tare with a ratio (`TareIsExact`), zero and calibration with one
(`CalibrationIsExact`).  `NumbersAreTaken` speaks of readings that are numbers.

The two violated runs are refutations and need no proof.

## 5. Not modelled

* Of the D-Bus interfaces their properties, which read the channel when they are
  asked; of the OPC UA bridge folders, node ids and the conversion of variants (a
  value of another type is refused), and the library behind it.  The D-Bus
  interface of ConfMan is in ConfMan.
* Of a button the end of its stream by the consumer.
* `progbase.rs`, `logger.rs`, `banner.rs`, `time.rs`, the mains and the build
  script: command line, journal and wording, without state.
* Of ConfMan the JSON schema, the D-Bus registration, a full disk and power
  loss; of the ruler its read-only properties and SQL errors; of a slot
  `FilterInvert` and `FilterOffset` (maps without state) and filters changed
  while they run; of the scale the SDO writes of its setup; of i550 the same and
  its digital inputs, which are those of EL1xxx; of the bus the thread that moves
  frames.
* Rounding of floats, and NaN: a terminal sends an `f32`, and one that is no number
  panics at the `unwrap` of a comparison (`src/median_filter.rs:33` and `48`).

## 6. What to know about the code

The two violated runs are disagreements with what the code or its comments say
(`findings` in `PROJECT.json`): an emergency can be lost in the event cell, and
two savers share one temporary file.  The properties of the other runs are
stated as far as the code carries them, with the exceptions in the property and
not in the instance: the run reaches what is excepted.  Their limits, which the `note`s of the
hazards give with the lines:

* `Stopping` may stay for ever when a press of the run button replaces its
  timeout, and `Init` when an event replaces the first `SetStopped`; a timeout
  past its sleep ends a later `Starting` early; the reason of a stop from
  `Running` is cleared when the stop is complete.
* A slot that is wired to another signal while its old one is down may go back
  to the old one (`NotOutdated` in `Joins`); a slot that is disconnected goes on
  receiving; when methods for a slot overlap between the lock and the emission, or
  the ruler stops there, the slot is not told what is stored (`raced`).
* While two sockets to a signal overlap, the new one may bring what the old one
  has already delivered, an older value after a newer one (`floor` in `NeverBack`);
  the last one still arrives.  What `channel()` writes over a value stays until the
  signal sends another value: an equal one is filtered (`overridden`).
* A first value sent between the monitor's look and the subscription is lost; a
  value nobody waits for ends the receive task; `FilterTimer` cancels nothing.
* A waiter for an exit may miss it; an update from `Emergency` to `Emergency`
  hides the one before it, so that the client may not know of the emergency, nor
  notify its entry, while that is the last update (`Repeated`); a dropped client goes on asking, for a stop with the
  reason "" if it never asked for one (`SystemImplementsServer`).
* Errors of an exchange are counted and not compared with the limit.
* A device with signals that is swapped for another kind ends the EtherCAT
  program: its signals are dropped, the tasks that show them panic, the hook
  aborts.  `Recovers` has that as a premise.
* The D-Bus task of a slot panics on a value that comes before its object is up;
  D-Bus clients are not told of values from before it was registered.
* The OPC UA node of a signal can be written: what a client writes stays until
  the signal changes.
* A button hears nothing while none of its tasks is subscribed, and an event
  stored between the two looks at `ready` is lost.  A press of which the release
  was missed is taken for a long one or ends at the next value.
* A drive that resets on a rising edge keeps its fault if the edge came too early,
  or if the bit was still up from the fault before (`ResetSpent`): the word for a
  fault is the same every cycle.  A maximum above 32767 RPM is not reached, and a
  minimum above the maximum, which the schema allows, makes a faster ratio slower.
* A tare with a ratio is scaled twice (`el3356.rs:736` and `715`), so that it does
  not "zero out the current weight" (line 480), and a further one may take it
  further away; a calibration with a zero and a ratio mixes scaled and unscaled signals
  (684) and does not weigh the "calibration load in config" (442); a zero keeps an
  earlier tare.  `TareZeroes`, `ZeroZeroes` and `CalibrationWeighs` say so in their
  premises.
* A second cycle with too little data is not refused.

## 7. Plan

Done, in this order: ModeMachine and Operations with their refinement; ConfMan;
IpcRuler and Wiring; SignalLink; OperationsClient; EtherCatBus; CiA402 and
Drive; MedianFilter and Weigher; WatchCell and Button; TerminalBus, the
terminals on their bus, with swapped devices and the abort; OperationsSystem; the
proofs of section 4, which state every invariant and action property of the runs.

Left:

1. **A drive on the bus**: Drive composed with EtherCatBus as the terminals are,
   so that a drive is led through a new initialisation.
2. **A specification of a link**: one value cell that is overwritten and read,
   with SignalLink and the connection of Wiring shown to implement it.
3. **Proofs**: what `Recovers` waits for, that an initialisation in progress has
   no way to stop but its limits.
