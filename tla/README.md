# Verification of the badge firmware

TLA+ modules, TLC configurations and TLAPS proofs for the firmware in `src/`:
a Zephyr application for an STM32WB55 badge with a button, an LED, an
accelerometer, a LoRa receiver, an external flash and a BLE interface.

## 1. The system

### Threads

| thread | kind | runs |
|---|---|---|
| system workqueue | cooperative | `flush_work` and `jr_work` (journal), `apply_cfg_work`, `debounce_work`, `sleep_work`, `adv_restart_work`, `bt_ready()` |
| BT RX | cooperative | GATT writes and reads, `connected()`, `disconnected()`, MTU callback |
| accelerometer polling | preemptible, low priority | ODR changes, samples, notifications |
| shell | preemptible | `journal dump`, `journal clear`, `udtest` |
| main | preemptible | boot, then sleeps for ever |
| interrupts, driver callbacks | | button edge, LoRa packet |

A cooperative thread gives up the processor only when it blocks (mutex, flash,
BT buffers); the preemptible ones may be interrupted between any two accesses.
That, power loss, and library calls that fail are where the difficulties are.

### Components

| component | state | operations | hard behaviour | what makes it correct |
|---|---|---|---|---|
| event journal, `event_log.c` | `evt_q` (16), `flush_work`, `dropped_events`, FCB ring on flash under `journal_lock` | `event_log_write` from any thread, `journal_flush_handler`, `event_log_clear`, `event_log_init` | put and submit are two steps; clear against append; rotation of a full ring; power loss inside an append; flash errors | no event is stranded, order is kept, only the oldest is forgotten, a slot in use is not erased, live tail tells the truth |
| journal shell commands, `event_log.c` | `dump_ctx` | `journal dump [N]`, `journal clear` | two walks over a moving ring, without the lock | newest N records, in order, and an end |
| user data, `user_data.c` | `ud_lock`, AES key in RAM, PSA and NVS, chunk files | init, write, append, read, erase, `udtest` | power loss between files and inside one; failures of NVS, PSA, littlefs | a read returns what was written; the stored key opens what is stored; an append keeps the rest |
| configuration, `gatt_badge.c` + `accel.c` | `cfg`, `cfg_save_pending`, NVS `badge/cfg`, `odr_hz_pending`, `telemetry_period_s`, ODR of the chip | `write_cfg`, settings handlers, `apply_cfg_work`, setters, `apply_pending_odr`, `accel_init` | a write during a save, three loads at boot and by the shell, a failing save | RAM, NVS and chip agree when all is quiet; NVS never goes back |
| journal over BLE, `gatt_badge.c` | `jr_req` (one slot), `jr_tx`, `jr_live`, `att_mtu_val` | `write_journal`, `journal_work_handler`, `journal_live_cb` | rotation, clear and new records between two chunks; lost notifications; a new client while an answer is made | the copy of the client is a run of the journal, nothing falls between dump and live tail, an answer goes to who asked |
| telemetry | `last_accel_mg`, `last_temp_c01`, `bt_ready_flag` | `accel_fetch_telemetry`, publish, read | integer conversion, a read while the polling thread publishes | a read is one whole sample, never older than the last notified |
| BLE link, `ble.c` | `default_conn`, `is_sleeping`, advertising, `adv_restart_work` | `connected`, `disconnected`, `adv_restart_work_handler`, `bt_ready`, `ble_sleep`, `ble_wake` | a delayed restart against a new connection or a press, failing `bt_le_adv_start()` | awake and not connected means that advertising is on or on its way |
| sleep timer, `main.c`; button, `button.c` | `sleep_work`, `is_sleeping`; `debounce_work` | `on_button_activity`, `sleep_work_handler`; edge interrupt, debounce | timer against button; `ble_sleep()` is commented out (`main.c:77`) | a press wakes the badge |
| LoRa, `lora.c` | none | `lora_init`, receive callback | - | one `event_log_write()` per packet |
| build, board, scripts | - | - | - | not program logic |

Interactions: every component writes events with `event_log_write()`; the
journal calls back into `gatt_badge.c` for the live tail; `user_data_init()`
and `bt_ready()` both call `settings_load()`, which runs the handlers of
`user_data.c` (key) and `gatt_badge.c` (configuration); `gatt_badge.c` sets
ODR and period in `accel.c`, which calls back with samples; `button.c` calls
`main.c`, which drives `ble.c`.

`PROJECT.json` lists the hazards at their lines with the properties that cover
them, or the reason why none does.

## 2. Modules

| module | what it is |
|---|---|
| `BoundedJournal` | abstract journal: what is recorded, what is kept, what is forgotten |
| `EventLog` | `event_log.c`, step by step; implements `BoundedJournal` |
| `MCEventLog` | threads and bounds for TLC |
| `EventLogProofs` | theorems about `EventLog` |
| `UserData` | `user_data.c`, step by step |
| `UserDataProofs` | theorems about `UserData` |
| `BadgeCfg` | the configuration from the BLE client to NVS and the chip |
| `BadgeCfgProofs` | theorems about `BadgeCfg` |
| `BleLink` | connection, advertising and sleep: `ble.c`, `main.c`, `button.c` |
| `BleLinkProofs` | theorems about `BleLink` |
| `Telemetry` | samples from the sensor to the client, composed with `BleLink` |
| `MCTelemetry` | two readings of the sensor for TLC |
| `TelemetryProofs` | theorems about `Telemetry` and its composition with `BleLink` |
| `JournalDump` | the journal over BLE with its client, over `BoundedJournal` |
| `JournalDumpProofs` | theorems about `JournalDump` |
| `JournalShell` | `journal dump` on the shell thread, composed with `EventLog` |
| `JournalShellProofs` | theorems about `JournalShell`, on top of `EventLogProofs` |

### EventLog

`Threads` is every thread that writes, `Clearers` those that clear, `WorkQ` the
workqueue, `Preemptible` those another thread may interrupt; `pc` holds the
next step of each. An event is the number of its acceptance, so "older" is
"smaller". `k_msgq_put()` and `k_work_submit()` are two steps of every writer
(`WritePut`, `WriteSubmit`); the drop counter is incremented by a load and a
store in a preemptible thread and at once in a cooperative one;
`journal_append()` is lock, `fcb_append`,
rotation when there is no space, data, `fcb_append_finish`, unlock, each with
its error; a clear takes the lock and rotates sector after sector. `Crash`
loses RAM and the unfinished slot; `EventLogInit` mounts what is left.

The FCB (flash circular buffer) is external and modelled from its use here: a
ring of sectors, `fcb_append()` reserves a slot, a slot counts once it is
finished, `fcb_rotate()` erases the oldest sector. A record whose data is
wrong is one whose CRC fails: it is on the flash and no reader shows it.

`BoundedJournal` has two sets, `kept` and `forgotten`. Its steps are: record an
event newer than all, and forget a set of the oldest. `ImplementsJournal` maps
the finished records of the ring to `kept` and the erased ones to `forgotten`.
A finished record whose data went wrong is in `kept` too: it has its place in
the order and its slot in the ring, although no reader shows it. Which of the
kept records a reader shows is the matter of `JournalShell`.

### UserData

One block of data, one call at a time (that is what `ud_lock` gives), each
file operation a step of its own. A file is a sequence of units; each unit
carries the mark of the encryption it came from (call, offset, length, key), so
a file made of two encryptions, a torn file and a file under another key are
unreadable exactly when the GCM tag would not match. littlefs is modelled from
its use: `fs_open()` with `FS_O_CREATE` makes an empty file at once,
`fs_close()` commits what `fs_write()` wrote, an existing file is not cut.
`user_data_init()` is the steps load, import or generate, save; `udtest` may
start it again when it failed.

A read walks the files from 0 to the first that is missing (`ChainLen`).
`ChunkMark` is the mark of the i-th chunk of a call; the offset, the length and
the number of a chunk advance together.

`want` is what the calls have put in, and `found` the files as an append found
them. What the code cannot give is excluded by name:

- `damaged`: an erase lost power, or a call of `fs_unlink()` failed, after
  chunk 0 was gone and before the next was (`CutShort`). An erase that stops
  before that has changed nothing.
- `miscounted`: a failing `fs_stat()` of a file that is there. `chunks_count()`
  takes every failure for the end of the chain (`user_data.c:255`), so that the
  append writes over chunks, without `FS_O_TRUNC`, and returns 0 (`CountError`).
- `torn`: a failing `fs_close()` whose result is ignored (`user_data.c:176`).
  The chunk is lost and the call has returned 0; the read then fails and is
  never just shorter. It holds until an erase has gone through.
- `key_replaced`: a new key was saved over another after `settings_load()`
  had failed, which the code and its comment accept.

The properties say what holds until then, and the two violation runs show what
happens after an erase was cut short and after a power loss within an append.

### BadgeCfg

`owner_id` is the number of the write, so configurations are ordered. BT RX
and the workqueue are cooperative, so what they do between two blocking calls
is one step; the loads of `main()` and of the shell, and the polling thread,
are taken apart. The settings subsystem holds its own lock during a load and
during a save (`settings_lock`, external). Wake thresholds are stored and never
used by the code, so they are left out.

### BleLink

One handler of the workqueue runs at a time, and `pc` is its next step; a step
ends where it calls the Bluetooth host and waits, and there `connected()` and
`disconnected()` may come in. `default_conn`, the two flags `is_sleeping` (of
`ble.c` and of `main.c`), the delayable works `adv_restart_work` and
`sleep_work` are those of the code; a delayable work can be scheduled and
queued at once, as in Zephyr. The host (`adv`, `link`) is external: one
connection at most, advertising ends with a connection and does not start
during one, and a call may fail (`MaxFaults`). `calls_sleep` is the call of
`ble_sleep()` that `main.c:77` has in a comment; both programs are checked.

### Telemetry

It extends `BleLink`: a step is one of the link, of the polling thread, or of
BT RX for the client. `poll` is the next step of `accel_poll_thread()`; the
three stores of a sample are three steps under `cfg_lock`, since the polling
thread is preemptible. BT RX is one thread: while a read waits for `cfg_lock`
(`rx`), no `connected()` or `disconnected()` runs, so a lock that is not given
back would also stop the link. `Mg` and `C01` are the conversions of
`accel_fetch_telemetry()`, with the division of C and the cast to `int16_t`;
`IsMg` is their reference, the acceleration in milli-g to within 1.1 mg (the
remainder of the division, and 9807 for 9806.65).
`stored` and `seen` number the samples: the one in the cache, the last one the
client got. Any fetch may fail, and publishes nothing then; a failing
temperature publishes 0.

### JournalDump

The journal is `BoundedJournal`, which `EventLog` implements. `workq` is the
queue of the system workqueue: `flush_work`, `jr_work`, `adv_restart_work` and
`debounce_work` run in the order of their submission. What runs under
`journal_lock` is one step, except that an append may rotate first. An index is
the number of older records (`Index`), and a chunk is the records from the index
asked for on, as many as fit (`Slice`), of those that could be read:
`chunk_walk_cb()` skips a record whose `flash_area_read()` fails, its index goes
to the next, it does not count for the total, and the walk returns 0
(`JrReadSkips`, any set of records at once). `JrReadError` is the other failure,
of the walk itself, after which the handler sends an empty chunk. `jr_req`
is one slot and keeps the MTU of the client and no connection (`conn` is in
the model so that the properties can speak of it). The client keeps to the
protocol that `gatt_badge.c:378-389` describes: one request at a time, the next
chunk from the number of records it has, anew from 0 when the total is
smaller; it repeats a request when no answer can be on its way.

What the code cannot give is excluded by name. `disturbed`: indices moved and
the total did not fall (a rotation and as many new records), which the protocol
cannot tell. `missed`: a notification of the live tail had no buffer.
`misread`: the client took a chunk for which not every record could be read -
one that leaves records out, or the empty one. If its total is smaller than the
last, the client begins anew and nothing is lost; in a first chunk nothing tells
it. Without this exclusion TLC finds a copy with a gap, and a finished dump that
lacks a record, within a dozen steps.
`woken`: a press started advertising; that does not wait behind `jr_work`, so
a new client may get the answer to an old one. It stays raised until
`adv_restart_work` has run with no connection, restart or request left over
from that time. Three connections are needed to see why: with a ghost that any
run of `adv_restart_work` lowers, a restart that finds itself refused could
leave the request of the first client to be answered to the third, and the
proof of `AnswerGoesToAsker` fails at that step.

### JournalShell

It extends `EventLog` by the shell command. `fcb_walk()` is modelled by what it
does with the flash: it finds the next finished entry under the mutex of the
FCB, and the callback reads it afterwards, so that an append, a rotation or a
clear may come in between and the place may hold another record by then.
`ctx` is `struct dump_ctx`; corrupt records count in `idx` and not in `total`,
as in the code.

## 3. What TLC checks

| run | bounds | distinct states | shows |
|---|---|---|---|
| `event_log` | 2 sectors of 2 records, 5 events, 1 refusal, 1 fault, 1 crash | 3.6 million | `OpenSlotIntact`, `NoStrandedEvent`, `FifoOrder`, `ToldTruth`, `OneFate`, `EraseOnlyWhenFull`, and that the flash implements `BoundedJournal` |
| `user_data` | chunks of 2 units, calls of up to 3, 4 calls, 2 faults, 1 crash, 4 keys | 3.1 million | `RoundTrip`, `KeyOutlivesData`, `AppendKeepsPrefix` |
| `user_data_replace` | 3 calls, 1 crash | - | violation of `WriteReplaces` |
| `user_data_crash` | 2 calls, 1 crash | - | violation of `CrashCostsLastChunk` |
| `badge_cfg` | 3 writes, 1 reload, 1 fault, 1 reset | 0.1 million | `Settled`, `NvsMovesOn`, `AcceptedIsApplied` |
| `badge_cfg_reload` | 2 writes, 1 reload | - | violation of `AcceptedStays` |
| `telemetry` | 2 samples, 1 failing call of the Bluetooth host, any number of failing samples, with and without `ble_sleep()`; connections, presses and timeouts unbounded | 0.2 million | `NoLostAdvertising`, `SilentInSleep`, `VisibleAgain`, `ReadIsOneSample`, `NeverOlder`, `ReadAnswered` |
| `ble_link_notify` | 1 failing call, without `ble_sleep()` | - | violation of `ConnectedIsNotified` |
| `journal_dump` | 2 sectors of 2 records, 3 found at boot and 2 new, chunks of 1 and 2, 3 connections, 1 clear, 1 press, 1 fault | 0.6 million | `CopyIsRun`, `NothingMissed`, `AnswerGoesToAsker`, `DumpEnds` |
| `journal_dump_cleared` | 1 connection, 1 clear, 1 fault | - | violation of `ClearedIsTrue` |
| `journal_shell` | 2 sectors of 1 record, 3 events, 2 threads, 1 fault, 1 dump | 0.1 million | `PrintedInOrder`, `DumpIsRight`, `EventuallyHandled`, `DumpEnds` |
| `journal_shell_last_n` | 2 sectors of 2 records, 3 events, 1 fault | - | violation of `LastNPrinted` |

Why the bounds are enough. Two sectors of two records with five events fill the
ring, rotate it and fill the new sector; the workqueue, BT RX and the shell, the
first and the last of which also clear, are every kind of thread there is; one
fault and one crash can fall on any step, and the code keeps no
count of either. In `UserData` a call of three units is a full chunk and a
short one; four calls are enough for write, crash, write, append; four keys
for every failed start the bounds allow. In `BadgeCfg` three writes are one
being saved, one pending and one more; the ODRs are one that snaps, one half
way between two, and one out of range. In `Telemetry` the two readings differ
in every axis, reach both ends of +-2 g and a rounding boundary below zero, so
a torn or an older sample is seen as such. In `JournalDump` three records found
at boot and two new ones fill the ring and rotate it between two chunks, chunks
of one and of two records come before and after the MTU exchange, and three
connections are a client that leaves, the next, and one after a press has
started advertising between them. In `JournalShell` sectors of
one record rotate at every append once the ring is full, so a walk meets
rotated, erased and rewritten sectors. `EventuallyHandled` is checked there,
without power loss.

Fairness. The kernel runs a thread that stays ready, the workqueue takes its
items first come first served, `journal_lock` goes to those who wait in turn,
and timers expire. So the steps inside a handler or a call are weakly fair, in
every module. What may be overtaken and still has its turn is strongly fair:
the start of a queued handler (`FlushStart` in `EventLog`; `BtReady` and
`RestartStart` in `BleLink`, where presses keep the workqueue busy) and the
taking of `journal_lock` (`AppendLock`, `ClearLock`). The polling thread and
the shell have a low priority and are not starved. In `JournalDump` a client
that dumps asks on and repeats what was lost (`AskNext`, `Retry`); that it does
not leave is not assumed. Nothing is assumed of
those who write events, of centrals, of the button, of faults and
of power loss.

Deadlock is checked in every run whose configuration does not say otherwise.

### What the violations show

- `user_data_replace`: an erase that loses power after the first file leaves
  the later ones; erase and write look from chunk 0 to the first missing file
  and never find them; a later short write makes them part of the block again,
  with valid tags (`user_data.c:272`, against `user_data.h:45`).
- `user_data_crash`: power loss between `fs_open()` and `fs_close()` of an
  append leaves an empty last file; the read of the whole block fails
  (`user_data.c:204`, against `user_data.h:11`).
- `badge_cfg_reload`: `udtest`, when `user_data_init()` failed at boot, loads
  the settings again; a configuration accepted and not yet saved is replaced
  by the stored one, and that one is saved (`gatt_badge.c:197`, against
  `gatt_badge.c:357` and `user_data.c:416`).
- `ble_link_notify`: when the first `bt_le_adv_start()` fails, `bt_ready()`
  returns without `gatt_badge_bt_ready()`; a press after the sleep timeout
  starts advertising, a client connects, and no notification is ever sent
  (`ble.c:198`, against `gatt_badge.c:90`, where the flag stands for the stack
  being up).
- `journal_dump_cleared`: a clear that fails is only logged; the client is sent
  the answer that says "cleared, total 0" and the journal still holds records
  (`gatt_badge.c:536`, against `gatt_badge.c:386`).
- `journal_shell_last_n`: the first walk counts good records, the second skips
  by an index that counts corrupt ones too; with one corrupt record in front,
  `journal dump 1` prints two records (`event_log.c:258`, against
  `event_log.c:461`).

Two things have no run of their own. `main.c:25-27` and `main.c:43` and
`src/README.md:80-82` say that advertising stops after 10 s without a press;
`sleep_work_handler()` sets its flag and no more, because the call of
`ble_sleep()` in `main.c:77` is a comment. That can be seen without a model
(`SleepStart` with `calls_sleep` FALSE goes back to idle), and
`SilentInSleep` speaks only of the program in which the line is restored.

And `EventLog` shows that `dropped_events++`
(`event_log.c:210`) is a load and a store in the shell thread
(`WriteFullLoad`, `WriteFullStore`), and a refusal in between is lost from the
count. The count only feeds a line of the log.

## 4. What TLAPS proves

For every value of the constants (any number of writers, clearers, sectors,
slots, events, chunks, calls, keys, readings, faults and crashes) that meets the named
assumptions of the modules:

| theorem | says |
|---|---|
| `EventLogProofs!TypeCorrect` | types; the ring never overflows |
| `OpenSlotSafe` | a slot being written is neither erased nor moved |
| `NoStranded` | an event in the queue has somebody coming for it |
| `FifoOrderSafe` | records are in the order of acceptance, older than the queue |
| `Implementation` | the flash implements `BoundedJournal` |
| `NewestKeptSafe` | what was erased is older than what is kept |
| `ToldTruthSafe` | what the live tail showed is on the flash until it is erased; what was logged as failed never is |
| `OneFateSafe` | since the last power loss each event is queued, in hand, shown or failed: one of them |
| `ErasesOnlyWhenFull` | an erase is a clear, or makes room in a full ring |
| `UserDataProofs!TypeCorrect` | types; no call goes past its buffer |
| `KeyOutlivesDataSafe` | what is stored is under the stored key |
| `AppendKeepsPrefixSafe` | an append leaves the chunks of the chain it found alone, unless `miscounted` |
| `RoundTripSafe` | a read that succeeds returns what the calls have put in, and it fails only when `torn`; unless `damaged`, `miscounted` or `key_replaced` |
| `BadgeCfgProofs!TypeCorrect` | types; the chip sees supported ODRs only, the polling thread periods of 1 to 3600 s |
| `ConfigurationSettles` | when all is quiet `accel.c` and the chip have the configuration in RAM (the chip unless `odr_failed`); that is the accepted one, and NVS has it, while `udtest` has loaded nothing (`loads = 0`) and no save has failed (`save_failed`) |
| `NvsNeverGoesBack` | a save never replaces a newer configuration in NVS |
| `BleLinkProofs!NoLostAdvertisingSafe` | awake and not connected means advertising, on its way, or refused |
| `SilentInSleepSafe` | asleep and silent stays silent |
| `TelemetryProofs!TeleTypeCorrect` | types; `cfg_lock` is held exactly while an axis is to be stored |
| `ReadIsOneSampleSafe` | a read is one whole sample, within 1.1 mg of the reading |
| `NeverOlderSafe` | no older sample after a newer one |
| `LinkImplemented` | telemetry and link together implement the link alone |
| `TeleNoLostAdvertising` | so the link keeps its promise under telemetry |
| `JournalDumpProofs!TypeCorrect` | types; the ring never uses more slots than there are |
| `AnswerGoesToAskerSafe` | an answer goes to the client that asked, and fits its MTU |
| `CopyIsRunSafe` | a client's copy is a run of the journal: in order, no gap, nothing twice; unless `disturbed`, `misread` or `woken` |
| `NothingMissedSafe` | a finished dump and the live tail together have every record; unless `disturbed`, `missed`, `misread` or `woken` |
| `JournalAllowsAll` | wherever the code appends, rotates or clears, the order that `BoundedJournal` asks for holds |
| `JournalShellProofs!DumpTypeCorrect` | types; each record read is counted once, as good or as corrupt |
| `PrintedInOrderSafe` | `journal dump` prints in the order of recording, nothing twice |
| `DumpIsRightSafe` | of a journal that rests and has no corrupt record it prints the newest N |
| `DumpLeavesJournal` | the journal with dumps beside it still implements `BoundedJournal` |

The arguments:

- `EventLog`, lock. `OpenSlotIntact` is not inductive alone. `LockIInv` adds
  who holds `journal_lock` at which step (`LockInv`), and that the slot at the
  end of the active sector is the one the handler is writing (`HandInv`).
  A clear only rotates while it holds the lock, and then the handler is at
  none of the writing steps.
- `EventLog`, order. `OrderIInv` relates four places an event can be - erased,
  on the flash, in the hand of the handler, in the queue - and says that each
  is older than the next (`FifoOrder`, `HandInOrder`, `ErasedIsOld`). A rotation moves the
  oldest sector to "erased", an append moves the hand to the flash; the
  refinement follows, because the step that finishes a slot adds an event newer
  than all that were kept.
- `UserData`, key. `KeyInv` says that the key in use is the stored one at every
  step that leads to its use, and that no unit is under "no key"; so the first
  key can only be saved when nothing is stored yet.
- `UserData`, append. `AppendInv` says that the files below `base` are those the
  append found, that the call is at or beyond `base`, and that no file was found
  at `base` itself - unless it miscounted.
- `BleLink`. `IInv` adds to `NoLostAdvertising` how the two flags `is_sleeping`
  hang together (`FlagsInv`: `main.c` sets its own first and `ble.c` follows
  only if `ble_sleep()` is called at all) and what sleep has done so far
  (`SleepInv`: it is entered by the running handler, and once
  `adv_restart_work` is cancelled nothing schedules it again). `SilentInSleep`
  follows: each of the four places that start advertising looks at the flag or
  cannot be running.
- `Telemetry`. Its steps either leave the variables of the link alone or are
  steps of the link, so `TeleSpec => Spec`. `TeleInv` says that the cache mixes
  two samples only at the steps `y` and `z`, where the lock is held and the
  axes already stored are those of `t` (`CacheInv`), that `t` is the newest
  reading while it is published (`FetchedInv`), and that the client has seen
  nothing the cache does not hold (`SeenInv`). `MgIsMg` is the arithmetic: the
  division and the cut to 16 bits, for every acceleration within 2 g.
- `EventLog`, fate. `ToldTruth` and `OneFate` need to know whether the event in
  hand is recorded yet: it is after `fcb_append_finish` (`unlock`, `live`) and
  is not before, nor after an error (`HandRecorded`). `DoneIsOld` says that an
  event shown or failed is older than those in hand and in the queue, so it
  has no second place. `ErasesOnlyWhenFull` needs that nobody makes room
  between the failed `fcb_append()` and `fcb_rotate()` (`RotatesFull`), and
  that is the lock again.
- `UserData`, round trip. `DataInv` says where a call is (`AtChunk`: offset and
  number of the chunk fit), that the files are one chain even while an erase
  runs through them (`OneChain`), and that what a running call has written
  stands behind what it found (`CallWrote`). Together with the call's end they
  give `Holds(want.chunks)`: each file is one whole encryption, or empty after a
  `fs_close()` that failed (`HoldsChunk`). With `KeyInv` every whole one can be
  read. A call that miscounted leaves the files a chain (`OneChain`), which is
  what the next erase needs to find them all.
- `BadgeCfg`. `IInv` says which thread may be at which step during boot
  (`BootInv`), that the configurations on their way are no newer than the last
  write (`CfgInv`), that what is applied is on its way to the chip
  (`AccelInv`), and that a configuration accepted is saved, being saved with a
  flag that asks for another save, or its save has failed (`SaveInv`).
  `NvsMovesOn` follows from the order `nvs`, `c`, `accepted` in `SaveInv`.
- `JournalDump`. A record is identified by its rank among all that were ever
  recorded; ranks do not change, indices do (`Grows`). An answer for which every
  record was read is a run of ranks that begins at "gone plus the index asked
  for" (`WholeChunk`), the copy
  is a run that begins at what was gone when its last chunk was read
  (`CopyInv`), and what came after that is in the live tail (`TailHasRest`).
  Who gets an answer rests on the order of the workqueue: `AdvInv` says that
  the radio advertises only when no request is left, `AskInv` that the request
  in work is that of the client connected now.
- `JournalDump`, its journal. The guards of `BoundedJournal` are no checks of
  the code, so they must never block a step: an event that a flush has got is
  not in the ring yet (`Fresh`), and a slot of the oldest sectors is older than
  any other, because fewer slots are as old (`OldestFirst`). `kept` and
  `forgotten` are changed by the actions of `BoundedJournal` only, so what is
  proved of the dump holds of a journal that keeps it, and the flash of
  `EventLog` does.
- `JournalShell`, order. `At` turns the physical sector of the walk into the
  number of that sector, which a rewritten sector changes by the size of the
  ring; the lemmas on remainders say by how much. `Walked(k)` says that k is
  older than all the walk has not come to and all that is still to be put on
  the flash. Whatever is printed is `Walked` from then on (`PrintedInv`): the
  journal only adds newer ones, and when the sector under the walk is rewritten
  it holds newer ones only.
- `JournalShell`, the newest N. While `before` is what the journal still is
  (`Quiet`), no earlier step can have changed a finished slot (`BesideSame`),
  so the counters are the number of records behind the walk and the screen has
  those of them with enough older ones (`CountInv`); a walk passes over none
  (`CountNext`, `AllPassed`), and "enough older ones" is "among the newest N"
  (`NewestIs`).

All invariants and action properties the passing runs check are proved.
Liveness is only model-checked (`EventuallyHandled`, `DumpEnds` of both dumps,
`AcceptedIsApplied`, `VisibleAgain`, `ReadAnswered`): fairness and `ENABLED` are
out of reach of the prover. No proof needed induction over data: the models
count and order records with sets, whose cardinalities the library's theorems
cover.

## 5. Not modelled

- Time: timestamps, the RTC, the length of sleeps and debounce intervals.
- Data: payloads, the bytes of records and headers, cryptography. A tag matches
  exactly when the whole encryption is there under the same key.
- The insides of Zephyr, FCB, NVS, littlefs and PSA: each is modelled from how
  the code uses it.
- A `fs_write()` that writes less than it was given: littlefs writes all or
  returns an error, and `chunk_write()` (`user_data.c:172`) would take a short
  count for success.
- In `JournalDump` records with a wrong CRC: no walk shows them, and the dump
  over BLE counts them neither in the index nor in the total, so they are not
  among the records of that module. `EventLog` and `JournalShell` have them.
- Two `user_data_init()` at once, and the PSA key slots a retry leaks.
- LoRa beyond its call of `event_log_write()`, logging, build and scripts.
- In `ble.c` a connection that comes up with an error, and the second connection that `connected()` cuts
  (`CONFIG_BT_MAX_CONN` is 1); in `button.c` the LED.
- A client that has two requests out at once, or repeats one too early: `jr_req`
  is one slot and a chunk has no start index, so such a client loses or doubles
  records; no line of the code promises otherwise.
- Two things the model of the link reaches and no line of the code or docs says
  anything about: `ble_sleep()` between the controller's connection and
  `connected()` leaves that connection open; a press that comes when
  `sleep_work` has expired and is queued does not keep the badge awake.

## 6. What is left

1. `button.c` with its LED and both edges; two starts of `user_data.c` at once.
2. Proofs: the dump over the flash of `EventLog` itself, in one theorem, instead
   of over the promise both keep.
