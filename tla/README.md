# A TLA+ model of hipflowapp

`hipflowapp` is a HART flow device on a Raspberry Pi. It answers the requests of
two HART masters that `hipserver` hands it, publishes up to three burst messages
on its own, reads a flow (PV) and a tube current (SV) from an A/D card, and keeps
its configuration in a file. This directory holds TLA+ modules for the parts of
it where threads, tables of times, status bits, data items and restarts meet, the
TLC configurations that check them, and theorems that TLAPS checks.

Paths below are relative to `hipflowapp/Hip_Native/` in the repository.

Contents: [inventory](#inventory), [modules](#modules),
[what is abstracted](#what-is-abstracted), [runs](#runs),
[findings](#findings), [fairness](#fairness), [proofs](#proofs),
[not modelled](#not-modelled), [plan](#plan).

## Inventory

### Threads and what they share

| thread | code | what it does |
|---|---|---|
| command | `nativeapp.cpp` `handleMessage`, `handle_device_message` | one request of a master at a time, to its reply |
| burst | `burst.cpp` `run_burst` | every 50 ms: counts the enabled entries of `burstStack` down and publishes those that are due |
| data | `physical.cpp` `run_data` | turns raw counts into PV and SV, which run `handle_alarms` |
| IO | `IOthread.cpp` `run_io` | scans the A/D card |
| SIGINT | `main.cpp` `handle_sigint` | runs on whichever thread gets the signal: saves the configuration and exits, which ends the threads wherever they are |

| shared | written by | protection |
|---|---|---|
| `burstStack` | command (109), burst | `burstSemaphore` |
| `burstMsgArray`, half of it in `NONvolatileData` | command (103, 104, 105, 107, 108, 109), read by burst | none |
| `volatileData.responseCode`, `fromPrimary` of a command object, the slots of command 9 | command and burst | none |
| alarm bytes, device variable status | data, read by command and burst | `al_mutex`, for most readers |
| device status, configuration-changed bits | command, data | `al_mutex` for the first |
| `NONvolatileData` and its file | command; SIGINT saves it | none |
| units of a device variable, texts | command, read by burst | none |
| raw counts, update count | IO, read by data | `dataSemaphore`; the wait for an update looks at the count without it |
| die flags | whoever stops a thread; the thread takes it back | none |

### Components, their operations and what makes them correct

* **Burst time table** (`burst.cpp` `step`, `setStep`, `stepTimes`). A host may
  ask for any 32-bit update period; the device settles on a legal one. Correct
  when the settled pair is legal and in order, closest to what was asked, told
  to the host when it differs, and stable when sent back.
* **Burst scheduler** (`burst.cpp` `updateBurstOperation`, `burstDeactivate`,
  `run_burst`, `burstCmd`; commands 103, 104, 105, 107, 108, 109). State: the
  burst messages, `burstStack`, the semaphore. Correct when a message that is on
  is published within its periods, one that is off is not, whatever the two
  threads do between each other's steps, and a restart leaves the same.
* **Alarms and device status** (`PhysicalAlarms.cpp`, `PV.cpp` `updateFlow`,
  `updateCurrent`; command 48). State: byte 0 of command 48, a status byte and
  an alert per variable, the extended and the device status, the bytes each
  master sent back. Correct when the status is that of the last reading of each
  variable and of no moment between, and each master is told when it differs
  from what it knows.
* **Command dispatch and reply** (`nativeapp.cpp`, `commandSet.cpp`,
  `Commands/command.cpp`, `command.h`; command 38). State: the response code, the
  configuration change counter, a configuration-changed bit per master. Correct
  when a reply is that of its request, a change is saved before it is
  acknowledged, and every master is told of it once.
* **Configuration commands** (`cmd_06`, `cmd_17` to `cmd_19`, `cmd_22`, `cmd_35`,
  `cmd_44`, `cmd_53`, `cmd_c103` to `cmd_c109`, `cmd_c513`, `cmd_c521`). State:
  `NONvolatileData`, its counter `configChangeCnt`, `writeNeeded`. Correct when a
  command either changes, counts and saves, or does none of it.
* **Configuration file** (`cSerialFile.cpp`, `native.cpp` `configure`,
  `FillDefaultValues.cpp`). State: a file that is missing, empty, too short or
  whole. Correct when a restart finds what was last acknowledged or the factory
  settings.
* **Thread lifecycle** (`nativeapp.cpp` `start_system`, `physical.cpp`
  `init_phy`/`kill_phy`, `burst.cpp` `init_burst`, `run_data`, `run_io`). State:
  the die flags, `dataSemaphore`, where each thread is. Correct when a start
  without its burst thread takes the others down, the semaphore outlives the
  threads that use it, and taking the threads down comes to an end.
* **Sensor input** (`IOthread.cpp`, `ads1256_test.cpp`, `RunningAverage.h`,
  `CircularBuffer.h`). State: the input the converter works on, the counts of all
  inputs, an average per channel. Correct when an average is over the last
  readings of its own input.
* **Data items** (`cDatabase.cpp` `dataItem`, `InsertExtract.cpp`). State: a value,
  its type and its flags. Correct when a call that changes a value says so, and
  when a request brings an item whole or leaves it alone.
* **Read commands, totalizer commands** (`Commands/cmd_*.h`, `command.cpp`). State:
  the codes in the command 9 object, the texts and units a host writes. Correct
  when a reply answers what its request asked, shows what was last accepted, and
  sends a value in the units it names, though two threads make replies with the
  same objects.
* **Units** (`Units.h`, `Units.cpp`). State: the units of each variable and the
  factors of each. Correct when a value is converted with the units of its own
  variable.
* **Server connection, time stamps, legacy code**: see
  [not modelled](#not-modelled).

### Hard behaviours

Two threads that share the burst messages, the response code and the command
objects; a handler that assigns a record field by field while it is read; status
bits cleared and set one by one; a shutdown in the middle of a command; threads
that wait for each other's end; a converter whose result belongs to the input
before the one just selected; two counts that run beside each other and below
zero; arithmetic at the edges of a table; values cut to the width of an item
before or after they are compared. `PROJECT.json` lists them as hazards, each at its line, with the
properties that would notice.

## Modules

| module | models | lines |
|---|---|---|
| `BurstStep` | the arithmetic of the time table, as operators | `burst.cpp` 81-144, 182-249 |
| `BurstTimes` | one message's two periods through commands 103 and 109, as a host sees them | `cmd_c103.h`, `burst.cpp` 389-443 |
| `BurstScheduler` | the two threads around `burstStack`, with SIGINT and restart | `burst.cpp`, `cmd_c103.h`, `cmd_c104.h`, `cmd_c108.h`, `cmd_c109.h` |
| `PhysicalAlarms` | data thread and command thread around `al_mutex`, and the burst thread on the object of command 48 | `PhysicalAlarms.cpp`, `cmd_48.h`, `command.cpp`, `cDatabase.cpp` 71-95 |
| `CommandReply` | a request's way to its reply, beside the burst thread | `nativeapp.cpp` 159-366, `command.cpp`, `command.h` |
| `ConfigStore` | what the configuration file promises: an abstract store | |
| `Configuration` | the configuration commands, the counter, the file, crashes and restarts | `cmd_*.h`, `cSerialFile.cpp`, `native.cpp`, `main.cpp`, `nativeapp.cpp` 295-317 |
| `SensorThreads` | start and end of the data and IO threads, the scan, the shared counts, the averages | `nativeapp.cpp` 368-390, `physical.cpp` 87-317, `IOthread.cpp`, `ads1256_test.cpp` 191-206, 621-648 |
| `MovingWindow` | what the running average promises: an abstract window | |
| `RunningAverage` | the ring buffer and the total kept beside it | `RunningAverage.h`, `CircularBuffer.h` |
| `DataItems` | items of every type, set, assigned, inserted and extracted | `cDatabase.cpp` 689-1736, `InsertExtract.cpp`, the declarations of the items |
| `DeviceCommands` | what each command takes from a request and puts into a reply, on two threads | `cmd_00.h` to `cmd_k2864.h`, `command.cpp`, `cDatabase.cpp` 189-341, `Units.h` |
| `ResponseCodes` | the codes a request is answered with, and which of them are errors; shared by the two above | `command.h` 34-42 |
| `MC...` | values of the constants for TLC | |
| `...Proofs` | theorems and their proofs | |

An operator named `X_Something` right above `X` is `X` with a plausible bug
planted in it; `PROJECT.json` says which property each of them must break. They
are used nowhere else.

**BurstStep** has one operator per function. Times are counts of 1/32 ms, as in
the code. `step()` answers in three ways, a return value in ms, the argument it
adjusts and the response code, so the operator returns a record of the three.
That the milliseconds go into fields named `..._50mS_ticks` is as in the code.

**BurstTimes** keeps the times of one message and what was asked of it. The
scheduler refines nothing of it; it shares `BurstStep`.

**BurstScheduler** has one step per access to shared memory that the other
thread can tell apart. Command 109 is `Cmd109` (stores the control code and looks
at `is_enabled`, without the semaphore), then `TakeForUpdate` and `Update`, or
`TakeForOff` and `Deactivate`. Command 104 assigns a message back through
`operator=`, whose `dataEqual` clears a field before it sets it: `Cmd104`,
`CopyCmd`, `CopyCtrl`, `CopyMode`. The burst thread is `Wake`, `TakeForScan`,
`Scan` for each entry, `Trigger`, `Publish`, `Reload`, `EndScan`. `Restart` is
SIGINT, which saves `NONvolatileData` as it is at that moment, and the next start.
`quiet` counts turns since a message was published or switched on and `steady`
says whether its mode was continuous since then; both exist for the properties.

**PhysicalAlarms** has a step for the clearing, for each of the four comparisons
and for the last correction of the device status; the data thread holds
`al_mutex` through all of them. The command thread reads under the same mutex,
once per step. A byte is the set of its bits. A request that sends the status
back is received (`SendBack`, which sets `fromPrimary` of the one object of
command 48) and then stored (`extractData`, which looks at it); `burstThisCmd`
sets the same member at any time, as a burst of command 48 does, and the bytes
are then stored for the other master. `mixed` records the masters this may have
happened to; `lastAlarm` is the last alarm of the tube current. The reply has
the extended status as it is stored: the alert bit the code computes beside it
is dropped there (finding 3). The first state is the one power-on
leaves: the static constructor of the data object runs `handle_alarms` before any
limit is loaded, so byte 0, the device status and the status of device variable 0
already hold an alarm.

**CommandReply** splits a request at every access to something the burst thread
shares: `Receive`, `Extract`, `Acknowledge`, `Insert`, `SetCode`, `Save`,
`SetRCStatus`, `Send`; command 38 looks at `fromPrimary` for one master in
`Extract` and for the other in `Acknowledge`. The burst thread is `BurstBegin`,
`BurstInsert`, `BurstSend`, with any command of `BurstCmds`. `owed` records, per
master, whether there was a change since that master's own acknowledgement;
`told` the highest counter a reply with data vouched for; `mixed` the masters
whose bit was looked at after a burst of 38 had set the shared `fromPrimary`.

**Configuration** has one action per command, which is the whole of its
`extractData()` (for 105, which reads, of its `insert_Data()`) up to the calls of
`bumpConfigCnt()`; those are `Bump`, then come `Save` and `Reply`, so that a crash
or SIGINT falls between any two. Each command is a configuration to store, a
number of counts, whether a save is asked for, and a verdict, handed to `Handle`:
what differs between the commands is what of this they get wrong. `bumps` is what
the handler has still to count. SIGINT can also fall inside a handler: for each
command there is a `Cut...` with the states of memory its code passes through,
such as command 103's times as the host sent them, or a field of a burst message
that `dataEqual()` has cleared and not yet set. `pc = "cut"` is that place, and
the program then saves what is there (`Sigint`) or ends without. `CutStart` does the same
to the filling with defaults and to the load: memory has the first so many parts
(`Partly`) over what it holds when nothing was read (`Blank`, `EmptyText`). Two variables exist for the properties: `cache`
is a configuration a host read with its counter, and `lost` whether a write has
failed or SIGINT has saved half a change, or one without its count. `Steady()` drops the three
fields the counter does not vouch for: command 6 clears `pollAddr` and
`loopCurrentMode` before it has looked at the request, and command 105 writes
the trigger units.

The file is `missing`, `empty`, `short` or `full`. `make_file()` leaves an empty
one, and a crash before the first save leaves it so for the next start, which
`FindEmpty` takes up. A failed write to an empty file can leave a short one,
which no start and no save accepts.

**SensorThreads** has one action per stretch of code between two accesses to
something shared. `start_system()` is `init_phy`, `init_burst` and, when the burst
thread cannot be created, `kill_phy`; every creation can fail. The data thread is
`CreateIO`, then round `CheckData`, `WaitUpdate` and, for each channel,
`TakeForData`, `AddToAverage`, `NextChannel`, and at its end `EndData`. The IO thread
is `InitIO`, then round `CheckIO`, `SelectInput`, `ReadResult` and, for each
channel and once more for the update count, `TakeForIO`, `Store`, `PostIO`, and at
its end `EndIO`. A reading is the converter input it was taken from, so that
`ChannelsNotMixed` can tell whose it is. The converter is an actor of its own,
`Convert`: it finishes the input last selected, and the thread reads its result
into the slot of the input before.

**RunningAverage** keeps the ring as the code does: a spare cell, two indices that
wrap, a count beside them, a total beside the ring. **MovingWindow** has only the
last values in order and a length. `RunningAverage` implements it with the
contents of the ring as the window.

**DataItems** has two items of one declaration: `here`, which a command sets, and
`there`, which is sent or assigned to it. `Declared` lists what the constructors
in `cDatabase.cpp` and `burst.cpp` declare, by flags, type and length; `Undeclared`
adds the types the code handles and no item has. An assignment tells nobody of a
change (`operator=`, and commands 6 and 105 assign so), nor do three calls of
`setValue()` that no command makes (`Wrong`); `silent` records that one of these
has changed the item since a host read it. Each overload of `setValue()`
gives the value left in the item and what is said of it; casts of a float that
does not fit have every outcome the build may produce. `known` is a count and a
value a host has read at the same time.

**DeviceCommands** gives a command as what `extractData()` answers to a request, the
places it writes, and the list of items `insert_Data()` puts into the reply.
`Receive` is the first half, `Insert` puts the next items into a reply: all up to
the next one the other thread can change, which is a step of its own. Command 9
goes on from the codes in the one object both threads use: `Begin` cuts them down,
`NextCode` takes the next. `Due` is the burst thread's way to the same code, with
`setIndexes` before it. `kept` is what accepted requests have written and
`disturbed` what the other thread has changed under a reply; both exist for the
properties.

**ConfigStore** has a device that starts from what was kept, changes what it
works with, keeps it, and stops. `Configuration` implements it with the
configuration in the file as what is kept, the factory's when there is none.

## What is abstracted

* Time is the 50 ms turn of the burst loop. A turn in which the loop waits for
  the semaphore is longer in the device.
* In `BurstScheduler` the triggers for which the process decides may fire or not;
  trigger level, class and units are left out, and so are the data of a message.
  Commands 105 and 107 do not touch what it keeps.
* The requests of `CommandReply` are the kinds its code tells apart; a command
  that changes the configuration counts one change, though some count two.
  Its file is written whole and successfully: how it may not be is in
  `Configuration`.
* `Configuration` has one burst message of three and the first of its eight
  indexes; values are in standard units; texts, tags and dates are items that
  hold one of a few values. The slots 245 to 249 are other names of variables or
  variables nothing here distinguishes, and are left out. Command 104 takes
  whether the level is inside the sensor's limits as an input. In a handler cut
  short by SIGINT each array counts as one part; a text taken byte by byte holds
  either of its values. A write to a full
  file is whole or does nothing; a power failure that tears it is not modelled.
  What the burst thread sees of a half-assigned message is in `BurstScheduler`.
* `told` counts replies, not the bursts that leave between a change and its save.
* In `SensorThreads` a count is the input it came from. The 1 ms sleeps are left out, and the wait for an update may end at any time, as
  it does after MAXWAIT. The data thread's hand-over of the averages to `PhysicalAlarms` is
  left out. With `HeldUp = FALSE` the IO thread is not held up for the time of a
  conversion between selecting an input and reading the result, some
  microseconds later; nothing in the code excludes it, and with `TRUE`
  `ChannelsNotMixed` fails.
* `RunningAverage` runs each call in one step, because each holds the object's
  mutex; a new array's cells hold garbage. `resize()` is modelled though nobody
  calls it.
* In `DataItems` a byte has two values in the run, and the widths in bytes are
  the code's; a float is a whole number small enough to be exact, or NaN. Trigger
  flags, which say that a value was set, are left out.
  `CountNamesValue` leaves out what an assignment or a call of `Wrong` changed:
  `setValue()` of 64 bits into a 32-bit item adds to it, into a 48-bit item
  reports no change, and the `int8_t` overload has no return statement.
* In `DeviceCommands` the items only one thread can change go into a reply
  together. An item shows a small number for a text or a code a host writes, a
  unit for a converted value, 0 otherwise. The run answers two codes of command 9
  where the code answers four, and accepts one write. `CodesAnswered` and
  `ValueInNamedUnits` exclude replies that the other thread has changed
  something under: there is no lock, and such replies do mix. Command 54 for a
  variable other than the PV converts with the PV's units (`WithUnitsOfPV`), and
  is excluded too. Commands 6, 35, 38, 48, 103 to 105 and 107 to 109 are in the
  other modules.
* In `PhysicalAlarms` readings are whole numbers; only their order with the
  limits matters. Only the nine bytes of command 48 that `match48` compares are
  kept, and of those only the three that can receive something: what a host sends
  beyond byte 4 lands past the compared bytes. The device status snapshot the
  reply also carries is left out.

## Runs

Every run finishes within about two minutes on two cores; most in a few seconds.

| run | asks | bounds |
|---|---|---|
| `burst_times` | Whatever times a host asks for, are the settled ones legal, closest, reported and stable? | 40 times: rungs, points half way, values beside both, 0, the cap of one hour and beyond, pairwise |
| `burst_scheduler` | Under every interleaving of host, burst thread and restarts: is what runs what is on, is the semaphore exclusive, and is nothing silent too long or published too early? | two messages. The first: times that settle on (1, 2), (5, 10) and (2, 2) turns, beside the table and one pair in the wrong order, changed while it is off; continuous, window and on-change triggers; commands 9 and 48. The second: continuous, one turn, on and off. 1.4 million states |
| `alarms` | After any readings, beside bursts of command 48: is the status that of the last ones, is a reply of one moment, is a master told? | factory limits, flow good or at three of its limits, tube current in all zones, three echoes, two masters; 3.4 million states |
| `command_reply` | With bursts of commands 9 and 38: whose code does a reply carry, who is told of a change, what does a restart take back? | all ten kinds of request, two masters, four values of the counter |
| `configuration` | Is whatever a command changes counted, and saved before the reply? Does a refused one change anything? Is the file the store it should be, under crashes, failed writes, SIGINT and restarts? | three device variables, two texts, two unit codes of which one is refused by each list, ranges at the sensor limits and too narrow, each trigger mode and an invalid one, published commands with and without a trigger variable and an unsupported one; three values of the counter; SIGINT everywhere, in handlers and starts too; up to the first loss and the start after it; 630 000 states |
| `sensor_threads` | Wherever a creation fails and whenever the process ends: who has ended before whom, who waits for ever, and is an average ever over another input's readings? | three inputs of which two are used, averages of two; 80 422 states |
| `running_average` | Do wrapping indices and a total with the width of a reading keep a moving window, when its length changes too? | lengths 0 to 3, totals modulo 8, readings of both signs; 1 359 states |
| `data_items` | Whatever is called on an item of any type: does a host that knows the count know the value, and does a request bring all or nothing? | bytes of two values, 14 numbers on both sides of every width, arrays of two, counts up to two |
| `device_commands` | Every command, complete and cut short, beside published commands that use the same objects: are the codes answered that were asked, is the last accepted value shown, is a value in the units named? | one accepted write, two codes answered, one list with codes known, unknown and not used, published commands 1 and 9; close to a million states |
| `burst_retimed`, `reply_code_lost`, `alerts_not_rolled_up` | one statement of the code's comments each, which the code does not keep | as above |

Why the bounds are enough. `step()` is piecewise: constant between half-way
points, and the run has the values on and beside them on both ends of the table.
Two messages are the fewest in which one can be scanned, published and
reloaded while a command changes the other; the constraint `Neighbours` keeps the
second a plain one, that it may be looked at beside everything the first does.
Periods of one and two turns are the fewest in which the update and the maximum
period differ and a count can run below zero while a trigger holds; five and ten
give `MinimumPeriodKept`, which allows the first turn to be short, something to
break. That messages do not disturb each other's timing for any number of them is
proved.
The zones of a reading are five and the run has
each of the tube current's. Four values of the counter allow a change, a stale
acknowledgement, a restart and another change. Three values of the counter of
`configuration` allow a change counted twice, and two changes counted once, with a
host that has read before or between them. `LossBound`, a state constraint, follows a run that has
lost something to the end of the next start and no further: after a loss the two
counter properties claim nothing, and `KeepsConfiguration` is not made easier or
harder by where the configuration came from; the theorem has no such bound.
Three inputs with two used give the scan an input the program skips and a wrap
from the last to the first; two channels are the fewest that can be mixed, and
averages of two keep one old reading beside a new one. Modulo 8 with lengths up to
3 has windows that fit the total and windows that do not. In `data_items` the
numbers lie below, on and above the limits of one, two, three, four and eight
bytes, and -1 and -2 at each signed width. In `device_commands` one write is
enough to tell what was accepted from what was not, and both threads can be at
any item of any reply when it comes; a third code of a host's three is cut off. The
texts have two values, the one shown at first and the one written.
`sensor_threads` sets CHECK_DEADLOCK FALSE because the process ends.
Where a bound could hide something, the theorems have none: lengths, widths, lists
and the values of items are any they may be.

`LiveRetiming = FALSE` in `burst_scheduler` keeps command 103 away from a running
message. That is a restriction of the host, not of the code: `burst_retimed`
lifts it, and `SilenceBounded` fails.

What a property leaves out is named in it. `ChangedBitIsPerMaster` and
`MoreStatusTellsByteZero` speak of the masters that are not `mixed` (finding 6);
`FailedBurstTakesAllDown` says what a failed burst thread leads to, and not that
a good start has all its threads: the data thread may be lost, because it could
not create the IO thread (`physical.cpp:171`), or the IO thread may have given up
for lack of a card (`IOthread.cpp:54`), and `start_system()` says `NO_ERROR` all
the same. `MalfunctionTellsLastAlarm` says that the bit of a power failure stays
when the current is good again, which is what the code does.

## Findings

Three have a run of their own, which finds a counterexample of a few steps;
`PROJECT.json` quotes the comment that says otherwise:

1. `burst_retimed`: `stepTimes()` leaves milliseconds in the tick counts; a
   message re-timed by command 103 while it runs loads them, and is silent 50
   times as long as it should be.
2. `reply_code_lost`: a burst between the setting of the response code and the
   making of the reply turns an error into success.
3. `alerts_not_rolled_up`: `getCmd48Bytes()` computes the device variable alert
   into a local byte and hands out the stored one, so the extended status never
   has the alert that three comments say is rolled up into it
   (`PhysicalAlarms.cpp:142`, `193`, `cDataRaw.h:95`).

Each of the next four has an interleaving or a request in the models as they
stand, and has no run:

4. A message switched on in an unsupported trigger mode is refused by
   `updateBurstOperation()` but stays on; making its mode continuous by command
   104 or 108 does not start it (`BurstScheduler`).
5. A reading inside its limits clears the out-of-limit bit of the other
   variable, and its own stays (`PhysicalAlarms`).
6. A burst of command 38 between the receipt of an acknowledgement and the look
   at its master clears the other master's bit, or both (`CommandReply`); one of
   command 48 at the same place stores one master's bytes as the other's
   (`PhysicalAlarms`). The factory's third message publishes 38
   (`FillDefaultValues.cpp:317`).
7. Command 6 with a poll address alone, which the code provides for, sets the
   loop current mode to 0 (`Configuration`).

What the modules had to follow and a reader of the code may not expect:

* All totalizer commands but 2561 set the byte count to 0 before they look at it,
  and so refuse every request as too short (`cmd_k2560.h:42` and its like).
* Command 79 keeps the simulation it refuses with `RC_MULTIPLE_10`, and never
  calls `Set_Simulation()` (`cmd_79.h:86`). Its status item has no type, so
  `insertSelf()` returns -1, which as a `uint8_t` is 255: a warning.
* `ret < 0` is never true of a `uint8_t` (`cDatabase.cpp:766`, `903`).
* Command 53 accepts any unit outside two reserved ranges. One that is not in the
  variable's list makes an entry there that converts nothing.
* `insert()` of an `int16_t` counts two bytes without moving the pointer
  (`InsertExtract.cpp:99`), and of 64 bits, `int32_t` and `double` does nothing; no
  item of the device needs them.
* `kill_phy()` waits for ever when the data thread was lost because it could not
  create the IO thread, or when the IO thread gave up because the card was
  missing: nobody takes the flag back then. `KillEnds` says that it ends in every other case.
* A device whose burst thread could not be created takes the sensor threads down
  and reports a good start (`nativeapp.cpp:380`).
* SIGINT stops no thread, though `nativeapp.cpp:234` says it does.
* A conversion of each channel comes once in eight updates, so an average of two
  mostly holds one reading twice.

## Fairness

Only `SensorThreads` assumes any. Each thread goes on when it can, and the
converter converts: weak fairness of `start_system`, `run_data`, `run_io` and
`Convert`, which is what an operating system that schedules every thread gives,
and a converter that is not stopped. Getting the semaphore needs strong fairness
of `TakeForData` and `TakeForIO`: each thread takes and gives it back again and
again, and a semaphore that always goes to the same one would starve the other.
The device gives both their turn because neither is always about to take it: the
data thread sleeps 1 ms at a time while it waits for an update, and the IO thread
waits for the converter in every round, both without the semaphore. With weak fairness alone `FlowIsMeasured` fails. `Exit` has none:
the device need never end.

`KillEnds` and `FlowIsMeasured` rest on this. All other properties say what must
never happen, and hold however long a thread waits. `SilenceBounded` bounds silence
in turns of the burst loop, and does not say that a turn comes.

## Proofs

| module | proves |
|---|---|
| `BurstStepProofs` | `step()` returns the nearest legal time, leaves legal ones alone and keeps order; from these, what `stepTimes()` returns for every two times |
| `BurstTimesProofs` | every property of `burst_times`, for every set of times a host may send |
| `BurstSchedulerProofs` | types, `RunningMeansOn`, `SemaphoreExcludes`, for any number of messages, any times, codes, modes and commands; `SilenceBounded` and `MinimumPeriodKept` for the same, when no running message is re-timed |
| `PhysicalAlarmsProofs` | types and every property of `alarms`, for all limits in order, all readings and all echoes, and bursts of command 48 at any time |
| `ConfigurationProofs` | types, `RefusedKeeps`, and that `Configuration` implements `ConfigStore`, for any items, variables, units, factory times, times and counter bound, and any number of crashes, restarts, failed writes and SIGINTs anywhere; `CounterNamesConfiguration` and `SavedIsCurrent` for the same with `FactoryTimesLegal`; and how far the update periods are on the table (`TimesSettled`) |
| `CommandReplyProofs` | types, `NoForeignCode`, `ToldIsKept` and `ChangedBitIsPerMaster`, for any published commands and any number of changes |
| `SensorProofs` | of `SensorThreads`: types, `SemaphoreExcludes`, `SemaphoreOutlivesUsers`, `FailedBurstTakesAllDown`, and `ChannelsNotMixed` when the IO thread is not held up, for any number of inputs and channels and any length of the averages |
| | of `RunningAverage`: indices and count of the ring stay in range and agree, the ring implements `MovingWindow`, and the total kept beside it is that of its contents (`ExactWithinWidth`), for all values, lengths and changes of the length |
| `CommandDataProofs` | of `DeviceCommands`: types, `CodesAnswered`, `ShowsLastAccepted` and `ValueInNamedUnits`, for any requests, published messages, unit lists, lists of codes and number of codes answered |
| | of `DataItems`: `TypeOK`, `BroughtWholeOrNot`, and `CountNamesValue`, for any values, any length of an array and any number of values of a byte |

The assumptions are the named ASSUMEs of the modules: a positive number of
messages, natural times, limits in the order the factory writes them, and so on;
the theorems about periods add `~LiveRetiming`, which `burst_retimed` shows to be
needed. `CounterNames` and `AnswersAreSaved` add `FactoryTimesLegal`, that the
factory's update periods are on the table. It is true of the first message, the
one `Configuration` has, and not of the other two, whose 160000 is beside it.

The arguments:

* *Nearest time.* Below one minute the rung found is the first not below the
  time, so the nearest is it or the one before, and `setStep()` compares the two
  distances. Above it the two candidates are the seconds around the time.
  Nearness with ties upward makes `step()` monotone; so the clamp before the two
  steps keeps the pair in order.
* *Semaphore and switching.* `SwitchInv` says which program counters own the
  semaphore and that an enabled message is on unless the command thread is on its
  way to switch it off (or to write back its code). The look at `is_enabled`
  before the semaphore is sound because only the command thread changes it.
* *Periods.* `TimeInv` relates, for each enabled message and each place of the
  burst loop, the turns it was silent to its two counts: a count and the silence
  together stay within the limit (`CountsBoundSilence`), something is left to
  count down unless the message has just gone out (`SomethingLeft`), it is never
  counted down ahead of time (`CountsDelayPublishing`), and both counts are
  reloaded from the present periods. The last is what re-timing breaks, and why
  the assumption is needed.
* *Alarms.* `SoFar` is the alarm the comparisons made so far leave. The invariant
  says that the status on record is that of `SoFar` for the variable being handled
  and that of the zone of its last reading for the other; each comparison takes
  `SoFar` to its next value, and after the fourth it is the zone, because the
  limits are in order. With the mutex, a reply sees only the second case. The
  extended status of the low alarm is right only because no alarm came before it
  (`LowIsFirst`). For the malfunction bit the invariant keeps the last alarm of
  the tube current, the one of the present reading once a comparison found it
  (`AlarmByNow`).
* *Replies.* Nothing but the request at hand and the clearing by a burst writes
  the response code; the file is behind the counter only while `writeNeeded`
  says so, and every reply passes the save. Unless a burst of 38 came after the
  receipt of a request (`between`), `fromPrimary` is that of the request
  (`FromInv`), so bits and debts move together (`BitInv`); a master looked at after one
  that did is `mixed`, and its bit and its debt are of no concern until the next
  change, or its next undisturbed acknowledgement, makes them equal again. The same argument
  with `tmp48` in the place of the bits (`StoredInv`) is that of command 48.
* *Configuration.* First, every command comes to a sound call of `Handle`
  (`CommandsAreSound`): the configuration it stores has the old counter, differs
  in a counted part only if something is counted, and not at all if it is
  refused. Command 108's uncounted reset is out of reach, because no trigger is
  ever classified; command 103 counts by the times it is sent, not by those it
  settles on, which is enough only while the times held are on the table and stay
  as they are when sent again (`StepKeepsLegal` of `BurstStepProofs`). `IInv` says
  how far they are: until something is lost, the factory's or legal (`Settled`),
  except in memory while a handler is cut short. With `FactoryTimesLegal` they are
  legal, and `CountedInv` follows: `Versions` orders what the host has read, the
  file and the memory. Each has a counter no later than the
  next's, and the same contents when the counters are equal. The order is
  transitive, a bump makes memory later than the file, a save makes them equal,
  a crash falls back to the file, which is still no earlier than anything a host
  was told; so the counter names the configuration. A failed write and SIGINT in
  the middle of a change are the steps that break the order, and `lost` records
  them. The refinement of `ConfigStore` and `RefusedKeeps` need neither: half a
  change that is kept is a state of the store like any other.
* *Sensor threads.* `LifeInv` says how far each thread can be for each place of
  `start_system()`: what must have been created (`BornInv`) and who must have ended
  and whose flag must stand (`DieInv`). With it `SemInv` ties the semaphore to who
  holds it, and the semaphore is destroyed only after the one flag that the data
  thread takes back last. For the channels `ScanInv` says which input the
  converter works on and whose result it has at each place of the scan, so that
  the slot before the selected one is the right one, and `PlaceInv` that every
  count kept anywhere is of its own slot's input or of none.
* *Running average.* `WellFormed` relates the two indices and the count: the head is
  the count ahead of the tail, modulo the number of cells. `put()` writes the one
  spare cell and `get()` frees the oldest, so the contents slide as the window
  does, index by index. `TotalInv` adds that the total is the sum of the contents
  modulo the width: `SumAppend` says what a value at the end adds to a sum,
  `SumTail` what one at the front takes off. A sum below the width is then its own
  remainder, and it is below when every value times the length is (`SumFits`).
* *What a reply shows.* `ShowsInv` is `store = kept`: what is in an item is what
  accepted requests have written. It is inductive because no command that
  refuses a request has written such an item (`CommandsSound` goes through all of
  them), and a reply under way is safe because only the command thread writes
  items, between two replies of its own.
* *Units.* `Reply` is the whole of a reply, what is in it and what is still to come.
  `UnitsInv` says that in it every value has the units of its variable before it
  (`UnitsNamed`), which is a fact about the list each command makes; and that what has been put in is in the units there are
  now. A change of units breaks only the second, and is recorded as a disturbance.
* *Codes.* `CodesInv` follows a message of command 9 through its stages: before
  `Begin` the object holds the codes asked for; then the first so many, those
  answered so far take five items each in the reply, and none of them is beyond
  250; after the last the time stamp; or the refusal, which leaves nothing.
* *Items.* `ItemInv` says that an item has as many elements as it is declared
  with, each within its C variable, and that a message is the front of what was
  inserted. `Stored8` to `StoredReal` go through `setValue()`: what is left fits, and
  if no change is told of then nothing has changed, provided that the old value
  fits the HART type too (`NamesInv`; a 24-bit item has room for more, and no such
  item is configuration). `TwoBytes` and `FourBytes` say that the bytes of a number
  make the number again, from `Digits`, the arithmetic of one digit.

A recursive function is proved about by showing that some function satisfies its
equation, and unrolling that. For the widths (`Values`, nine values) and the bytes
of an item (two and four) that is enough. For the sum of a window of any length it
takes induction; the library's theorems take a formula as their parameter,
which the provers cannot be given, so `Induct` is about a set of numbers instead,
from the well-founded order on finite sets (`Least`).

Only model-checked: the two violations; and `KillEnds` and `FlowIsMeasured`, because
liveness under fairness is out of the prover's reach, and so is ENABLED. No module
declares a RECURSIVE operator.

## Not modelled

* `AppConnector`, `AppPdu` and `TpPdu` come from the hipserver submodule, which
  the repository does not contain; the modules take its requests as inputs.
* The vendored BCM2835 library and the registers of the converter: hardware. Of
  the card there is the order of selecting, waiting and reading.
* The scaling of raw counts in `PV.cpp` and the factors of `Units.cpp`: floating
  point. Which units a value is converted with is in `DeviceCommands`.
* `timeStamp.cpp`: the clock. Items that show a time show nothing here.
* Trigger flags of data items, which no decision of the device depends on, and
  the bit patterns of NaN.
* `Data/varient.cpp`, `sems.cpp`, `hartmdll.h` and the like: not reached by the
  running device, or wrappers over the operating system.
* The totalizer itself: the repository's README says it does not exist. Its ten
  commands are in `DeviceCommands`.
* `kill_burst()` is never called and is left out. Commands 51 and 52 are not in
  the command list. What command 120 takes from its request, a number and a name
  for the printing of tests, is left out.
* The check of the address and the expansion of a request before it is handed to
  a command.

## Plan

Done, in this order: `BurstStep` and `BurstTimes`; `BurstScheduler`;
`PhysicalAlarms`; `CommandReply`; `Configuration` with `ConfigStore`; the proofs of
each; `SensorThreads` with its liveness and proofs; `RunningAverage` with
`MovingWindow` and the proof that the one implements the other; `DataItems` and
`DeviceCommands`, and the proofs of every safety property they are checked for.

Next:

1. An abstract publisher (a message is on or off, and published in every
   period while on) as a specification of its own, with `BurstScheduler` shown to
   implement it by INSTANCE, in TLC and then in TLAPS, and its liveness under
   weak fairness of the burst thread.
2. `Configuration` for all three messages, with the factory's times of the other
   two and command 53's units against the variable's own list; a counter that
   wraps.
3. The averages of `SensorThreads` handed to `PhysicalAlarms`.
