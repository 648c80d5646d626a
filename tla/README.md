# A verification project for espnow2mqtt

espnow2mqtt connects ESP-NOW devices to MQTT. Devices (ESP32-C3, component
`en2m`) form a mesh whose root is a coordinator (ESP32-S3,
`firmware/coordinator`); the coordinator speaks JSON lines over USB with the
bridge (`espnow2mqtt/__main__.py`), which speaks MQTT with the broker and Home
Assistant. This directory holds TLA+ specifications of that system, the TLC
configurations that check them on small instances, and TLAPS proofs for every
value of their constants. All definitions are read off the source; `PROJECT.json`
(`map`) names for each one the lines it stands for.

    tlc -config CommandPath_slots.cfg MCCommandPath     # one run
    tlapm CommandPath_proofs.tla                        # one module of proofs

## 1. The system

### 1.1 Components, their state and their operations

| Component | Source | State | Operations |
|---|---|---|---|
| Mesh node | `en2m_mesh.c` | parent, path cost, neighbour table, route table, retry slots (`pending`), pairing flag, next command id, receive queue | frame received, beacon, parent considered / expired, route learned / expired / forgotten, uplink, downlink, retry tick, item posted |
| Events | `en2m_event.c` | the default event loop's queue | post without waiting, register |
| Device model | `en2m_model.c` | configuration, `started`, `last_report_ms`, `next_report_ms`, identify timer | command frame, change, link change, tick, start, stop, report build and transmit |
| Data model | `en2m_datamodel.c` | endpoints, clusters, attribute slots with value, `persist`, `persist_dirty` | set, write, set from ISR, refresh, restore, flush, button report |
| Coordinator | `main.c` | peer table `s_peers`, end of the pairing window | uplink, host line (ping, pair, list, unpair, cmd), housekeeping, timeout event |
| USB line | `usb_host_link.c` | one line buffer | read bytes, write a line |
| Bridge | `__main__.py` | devices (online, slug, caps, merged state), pending commands, registry file; retained MQTT topics | serial line (hello, device, state, ack), MQTT message, connect, start, stop |

### 1.2 How they interact

* Radio. Nodes exchange frames (BEACON, HELLO, STATE, HEARTBEAT, CMD, ACK).
  ESP-NOW loses frames; retries and forwarding delay, reorder and duplicate them.
* Threads of a node. The Wi-Fi task puts received frames into a queue; the en2m
  task takes one item per turn and then runs its tick; application tasks and
  ISRs call into the attribute store; the default event loop calls handlers.
* Threads of the coordinator. The en2m task (`on_uplink`), the `esp_timer` task
  (`housekeeping`), the `usb_rx` task (`handle_host_line`) and the event loop
  (`on_en2m_event`). `s_ctx` is guarded by a lock, `s_peers` by none.
* Coordinator and bridge. Lines in both directions, which may be lost; each side
  restarts on its own.
* Bridge and broker. Retained `<slug>/availability`, `bridge/devices` and discovery
  configurations outlive the bridge. Every publish is QoS 0 with its result ignored:
  one made while the link is down is lost. The link comes back by itself, and paho's
  thread then runs `_on_mqtt_connect` beside the serial thread.

### 1.3 What is hard about it

Commands are retried over a lossy radio with a table of four slots, 16-bit ids
and 8-bit counters. Parents are chosen from beacons that may be out of date. An
attribute is changed by several threads, flushed by two of them and reported by
one. The peer table is shared without a lock. Either end of the USB line may
restart while the other goes on. `PROJECT.json` lists these hazards one by one
(`hazards`) with their line and the property that covers each, or the reason why
none does yet.

### 1.4 What makes each part correct

* Downlinks: an answer is never wrong (ok only for a command some device
  handled, timeout only after all retries and without an ACK), the retry budget
  is kept, nothing is resent after its ACK, no slot is used for ever.
* Tree: no circle while no path was given up, never a dearer path while a parent
  holds, convergence to shortest paths once failures stop.
* Store: no committed value escapes the flash; flash and coordinator catch up.
* Presence: one row per device, no row changes hands in mid-use, the retained
  topics agree but for what was lost, a living device is shown online in the end.
* Reverse routes: next hops lead ever closer to the device, a command is not cut
  off on the way, the way back heals.
* Bridge, commands: a result tells its own command's story and tells it once; a
  command leaves the table by its own answer or by its age, and does leave.
* Bridge, devices: discovery holds back only what was published and catches up,
  a capability survives guesses, names survive a restart, availability says what
  the bridge knew when its last publish got through.
* Commands on a device: the store shows the hardware, a repeated command does no
  harm, a press keeps its action.

## 2. Modules

| Module | Models | Composed with |
|---|---|---|
| `CommandPath` | a `cmd` line from the host to its `ack` line: retry table, radio, devices, timeout events, peer table, restart | implements `CommandService` |
| `CommandService` | the abstract promise: issue, handle, settle, give up, answer | |
| `MeshTree` | beacons, parent choice and loss on every node of the mesh | |
| `DeviceStore` | the attribute store with commands, sets, NVS, reports, start, stop and power cut | implements `PersistentStore` |
| `PersistentStore` | the abstract promise to an application: change, owe, keep, start, power cut | |
| `Presence` | peer table, routes and pairing flag of the coordinator, the USB line, the bridge's online flags and the broker's retained topics | |
| `ReverseRoutes` | route tables with next hops, uplinks and commands hop by hop, expiry, reboots, broken links | |
| `BridgeCommands` | the bridge's pending commands and results, its two threads, restart | `CommandService` as the coordinator, which `CommandPath` implements; implements `CommandResults` |
| `CommandResults` | the abstract promise to an automation: ask, wait, take, tell, lapse | |
| `BridgeDevices` | the bridge's devices: names, capabilities, discovery, availability, registry file, two threads | |
| `DeviceControl` | command frames on a device, write callback and hardware, application task, button | |
| `MC*` | constants and symmetry for TLC | extends the module named |
| `*_proofs` | theorems and their proofs | extends the module named and TLAPS |

Definitions keep the names of the functions they translate where they can
(`PendingAdd` is `en2m_pending_add`, `Visit`, `Store`, `EndFlush` are the three
parts of `en2m_dm_flush_persist` between its unlocked sections). Definitions
named `<definition>_<Mistake>` are faulty variants used by no specification;
each property is known to be violated when one of them takes the place of the
definition it varies (`mutants`).

### 2.1 CommandPath

State. `pending` is `s_ctx.pending`; a slot holds a command (destination, id and
`ser`, the identity of its payload), its attempts and whether its interval ran
out. `known` is the set of origins in the route table, `pairing` the flag,
`uplink` the frame the en2m task carries from the lock to `on_uplink`, `expired`
the local array of `en2m_maintenance`, `events` the timeout events in the event
loop, `peers` the devices with a row in `s_peers`. `cmds` and `acks` are the
frames ever put on the air: delivering a member at any later time, many times or
never is loss, delay, reordering and duplication. `sent`, `tx`, `ran`,
`resolved`, `told` are history.

Actions. `HostCommand` and `ConsoleCommand` (a line with and without an id), both
through `SendDownlink`; `PairLine`, `PairingCloses`, `UnpairLine`;
`DeviceCommand`; `ReceiveAck` and `ReceiveReport` (the locked half of a received
frame) and `OnUplink` (the half after the lock); `Maintenance` (the locked half of
the tick: routes expire, `PendingTick`) and `PostTimeout` (its unlocked half);
`IntervalElapses`; `OnAckTimeout`; `PeerSweep`; `Restart`.

Abstractions. A route is present or not; next hops and routers on the way belong
to the radio. A refused resend is a frame never delivered. `en2m_send_raw` may
fail at any first send.

`ok` means that a device handled the command: it acknowledges also when its write
callback refused the value (`en2m_model.c:1040`), so `ran` says no more.

### 2.2 MeshTree

State per node: `up`, `parent`, `cost`, `age` of the parent in beacon periods,
`turn` (its beacon of this period is done); `air`, the beacons under way;
`churn`, a history flag: some path was given up. `ReceiveBeacon` is
`en2m_consider_parent` with its three conditions (no parent, cheaper, equally
cheap with a signal stronger by more than 8, which is a free choice),
`ExpireParent` is `en2m_expire_parent`, `SendBeacon` is `en2m_send_beacon` with the
period of `en2m_maintenance`, `PowerOff` and `PowerOn` are loss and boot of a node.
Time is counted in beacon periods and `NextPeriod` waits until the beacons of
the period were handled or lost: queues are emptied in milliseconds, a period is
five seconds.

### 2.3 DeviceStore

State: `value` and `dirty` are the slots; `staged` and `flash` are the blobs after
`nvs_set_blob` and after `nvs_commit`; per thread (`en2m`, `app`, `main`) `job` is the
step on one attribute it is in, `walk` the loop it is in and `todo` what that loop has
still to visit; `seen`, `next`, `shown` are the report being built, `next_report_ms`
set, and the last report that arrived. A step is what a thread does between two
moments at which another thread may run: a locked section, a callback, an NVS
call. Hence a set is Begin, (`Drive`,) `Commit`, `Notify`, and a flush is
`TickFlush` or `Stop`, then `Visit` and `Store` per attribute, then `EndFlush`.
A command is `CommandFrame` once per
attribute it writes, then `CommandDone`, which schedules a report; `ReportNow` is an
application that asks for one. `Restore`, `Apply` and `Started` are `en2m_start`. Values are version numbers; a
refresh may also set again the value it was handed, however old.

`lost` is history: attributes NVS refused to store (`Store`) or to commit (`EndFlush`,
whose result the code ignores), or that two flushes held at once. For those the code
promises nothing until the next change, and `Saved` and `KeepsSettings` say nothing of
them; that is a weakness of the code, listed among the hazards.

### 2.4 Presence

State: `peers` is `s_peers` (address, used, age), `known` and `pairing` as above;
`link`, `sweep` and `host` say where the three threads are in `on_uplink`,
`housekeeping` and `handle_host_line`; `lines` is the USB line to the bridge; `up`,
`linked` and `online` are the bridge, its link to the broker and the `Device.online`
of its devices, `avail` and `listed` the retained topics.

The bridge has two threads. The serial thread handles a line in the code's order
(`turn`): `Device.online` (`DeviceEvent`, `OnState`), then the availability (`Tell`), then
the device file and the device list (`Save`), where the write may raise and the list is
not published. The MQTT thread (`walk`) reads `Device.online` one device after another
whenever it has connected (`Reconnects`, `ReadDevice`) and publishes the list too
(`ListPublish`), between any two steps of the other. What either publishes while the link
is down is lost, and the process may end at any step. `missed` and `late` are history:
devices whose availability is not what was published last, and a list that was not
written, was lost or is older than `Device.online`.

Time is one bit
per row: a row is "zero" (`last_ms` still 0), "recent" or "old". A row grows old
only for a device that fell silent, and not while a frame of it is being handled:
`on_uplink` takes milliseconds, `EN2M_OFFLINE_MS` is 90 s. The route of a silent
device expires after its row grew old (120 s after 90 s).

What goes wrong is bounded by `MaxEvents` and chosen from `Troubles`: silence,
unpair, a sweep in the instant a row is allocated, a lost line, a restart of the
bridge or of the coordinator, a broken link to the broker, a device file that cannot
be written. What the bridge's registry file brings back after a restart is in
`BridgeDevices`.

### 2.5 ReverseRoutes

State: `routes` is the table of each node that keeps one, by destination (`next_hop`,
`hop`); `parent`, `cost` and `pairing` are the fields of `s_ctx`; `air` the frames under
way, each with the pair of nodes it goes between; `links` the pairs in range. A frame
is delivered or lost at any later time. `Learn` is `en2m_learn_route`, `RouterHears`,
`CoordHears`, `CommandEnds` and `PassCommand` are the branches of `en2m_handle_rx`,
`Adopt` and `LoseParent` the choice of a parent with a beacon that arrives at once
(late ones are in `MeshTree`).

Time: an entry may expire whenever no report of its device passes the node as
things stand; a node on the way hears the device every 30 s and forgets after 120 s.
`gaps` is history: some table lost an entry or had no room for one. `rank` in a
command is history too: the hop count of the entry its last sender followed.

### 2.6 BridgeCommands

State: `devices`, `nextId`, `pending` are the bridge's fields; `at`, `size`, `stale`,
`want`, `cmd`, `ack`, `got` are what each thread has in hand. The mqtt thread finds the
device (`SetMessage`), records the command (`Record`), expires old ones (`Scan`,
`Drop`) and writes the line (`WriteLine`); the serial thread takes an ack (`TakeAck`),
expires, and publishes (`Publish`). A dictionary that changes its size under an
iteration raises (`FindFails`, `ScanFails`), a key deleted twice too (`DropFails`): the
serial loop catches the exception, paho catches it or lets its thread end,
depending on how the client was built, so both are possible (`Raises`).

The coordinator is an instance of `CommandService`: `WriteLine` is its `Issue`, the other
steps go on by themselves, and a line of `told` may be read at any later time, again,
or never. A command has the bridge's id (`key`) and what a `uint16_t` keeps of it (`id`).

### 2.7 BridgeDevices

State: `dev` are the Device objects, `known` the keys of `self.devices`, `file` the
registry file, `config` and `avail` the broker's retained messages; `at`, `line`, `draft`, `todo`, `size` are what the threads have in hand. `_publish_discovery`
is three steps of either thread: `Reads` (slug and capabilities), `Sign` (the guess is
stored, the signature compared) and `Announce` (configurations published, device
marked): between any two the other thread may run. The serial thread handles a
device line (`DeviceLine`, `Discover`, `Tell`, `Save`) or a state line (`StateLine`,
`Discover`, `Tell`, `Merge`); the mqtt thread walks over all devices after a connect
(`Connect`, `Walk`, `WalkEnds`). `SaveFails` leaves the file as it was or cut off, and so
may a `Restart` in the middle of a save. Of the merged state only its list of
capabilities (`stated`) and the keys matter, which a guess looks at.

The link to the broker is no variable: any publish of `Announce` or `Tell` may be lost,
all at once or one of several, connected or not, which is more than can happen. The bridge
does not know and marks the device all the same. `told`, `missed` and `unsaved` are
history: devices whose last availability got through under their present slug,
configurations whose last publish was lost, and a save that failed last.

### 2.8 DeviceControl

State: `slot` is the attribute store of one endpoint with the values in their declared
types, `hardware` what the callback last drove; `job` is the write each task is in;
`frame`, `orders`, `order` are the command the en2m task carries out; `count`,
`action`, `press`, `seen`, `shown` are the button. `Decode`, `OrderOf`, `Target`, `Asked` and
`Second` are the tables of `en2m_model_decode_flat`, `en2m_command_id_from_name`,
`en2m_command_arg` and `en2m_model_exec`, with the casts of the code in the code's
order (narrowed first, clamped then). A write is `Begin`, `Drive` or `Refuse`, `Commit`; the
application writes (`AppWrite`), reports what was moved by hand (`AppReport`) and
presses (`PressBegins`, `PressSets`); `Refresh` and `Countdown` are the tick.

History: `crossed` are attributes two tasks wrote at once, for which the code
promises nothing until one of them is driven alone again; `calm` and `last` say whether
anybody else wrote since the last frame; `pressed` the kinds of the presses that got
each number.

## 3. Runs

| Run | Specification | Checks | Size |
|---|---|---|---|
| `command_slots` | Spec | `UniquePending`, `NoRetryAfterAck` | 1 device, 2 slots, 3 sends, ids 0..2, 1 retry |
| `command_service` | Spec, symmetric devices | `TypeOK`, `NoFalseSuccess`, `HonestTimeout`, `ImplementsService` | 2 devices, 2 slots, 2 sends, ids 0..1, host id 3, one restart, 1 peer row |
| `command_live` | FairSpec | `NoEviction`, `Settles` | 1 device, 1 slot, 2 sends, ids 0..2 |
| `mesh_tree` | FairSpec | `TypeOK`, `Rooted`, `RestsShortest`, `Converges` | coordinator, 2 routers, a leaf; hop limit 4, one failure, one lost beacon |
| `device_store` | FairSpec | `TypeOK`, `KeepsSettings`, `FlashCatchesUp`, `ReportsCatchUp` | 1 attribute, 2 changes, one fault, stop and power cut |
| `presence_table` | Spec, symmetric devices | `OneRowEach` | 2 devices, 2 rows, 1 line, any 2 of unpair, sweep and restart |
| `presence_avail` | FairSpec | `TypeOK`, `BrokerAgrees`, `AliveComesOnline` | 1 device, 1 row, 1 line, any 2 of the eight troubles |
| `command_unanswered` | FairSpec | `EveryCommandAnswered` is violated | 1 slot, 2 sends |
| `routes_mesh` | FairSpec | `TypeOK`, `RoutesLead`, `CommandsDescend`, `Heals` | coordinator, 2 routers, 1 device; hop limit 2, 2 routes per table, 2 uplinks and 1 command under way, one broken link or reboot of the coordinator |
| `bridge_commands` | FairSpec | `TypeOK`, `NoFalseResult`, `NoOrphan`, `FreshKept`, `KeepsPromise`, `StaleForgotten` | 2 devices, 2 commands, ids 0..1 on the wire, one restart of the bridge |
| `bridge_devices` | FairSpec | `TypeOK`, `SigHonest`, `NamesOnFile`, `AvailTells`, `CapsSettle`, `CatchesUp` | 1 device, 2 capabilities (one that a guess knows), one restart or lost publish, any number of reconnects and failed saves |
| `device_control` | Spec | `TypeOK`, `ShowsHardware`, `RepeatHarmless`, `PressPaired` | 8 attributes, 4 with hardware, 2 frames, 2 events of application and hardware, 2 presses |

Why these bounds are enough to be interesting:

* `command_slots` has more sends than keys: a key is used again while its slot waits and
  after its ACK, both slots are in use at once, and the counter wraps. With two ids for
  one device no key is ever new to a full table there; `command_live` has one
  slot for two ids, so that a command with a new key meets a full table, which is
  `NoEviction`'s case.
  `command_service` has one peer row for two devices, two frames under one id, and a
  restart between any two steps. `AttemptWidth` is 4 in place of 256 and `IdModulus`
  2 or 3 in place of 65536, so the wrap-arounds happen; the host's id is above the
  modulus in all three, so that its cast to 16 bits changes it.
* In `mesh_tree` the triangle of coordinator and two routers is the smallest mesh
  in which two routers can adopt each other after the coordinator is lost; the
  leaf behind one of them has no other way. The hop limit 4 leaves room for the
  cost to be counted up before it ends the circle. All orders of boot are initial
  states.
* `device_store` has three threads on one attribute: the conflicts are between
  two threads over one attribute, and different attributes do not interact except in
  that a flush and a report walk over all of them. Two changes are needed for an older
  copy to meet a newer one. The theorems cover any number of attributes.
* `presence_table` has two rows and two devices: a row freed by one thread is taken for
  another device, or for the same one a second time, while a third thread is at it.
  `presence_avail` has one device and all eight troubles, any two of them, the same one
  twice too, at any step of any thread. A full peer table, which drops a frame and its
  ACK, is in `command_service`.
* In `routes_mesh` the device is in range of the coordinator and of the second router,
  which reaches the coordinator itself and through the first router: ways of one, two
  and three hops, which change when either breakable link goes. Two uplinks are under
  way at once and may overtake each other; a command may be under way beside them while
  the tables along it change, and with hop limit 2 it does arrive with its last hop.
  Entries of a table are for the device and the coordinator only, so no table is ever
  too small here, and what a full one does (`gaps`) is left to the theorems.
* `bridge_commands`: two commands for two devices are what it takes to confuse two; with
  ids modulo 2 the second command's id wraps, and after the restart the first is used
  again. `bridge_devices`: devices interact only in that adding one ends an iteration,
  which the one device does for a walk over none; a lost publish or a restart is one
  trouble each, and one is enough to set history and broker apart; two capabilities, one the
  device states and one a guess from the payload finds, are what a guess can destroy; a
  guess from the model's name adds nothing to that and finds nothing here. The
  theorems cover any number of devices and any guesses.
* `device_control`: the payloads (`Payloads` in `MCDeviceControl`) have one of every kind
  of command and, for the order of keys, pairs that depend on each other; two frames
  for a repetition, two local events for an overlap and its end.

Deadlock is checked everywhere except in `device_control`: there the bounds on frames,
events and presses let the device come to rest, as it does in truth when nobody
does anything.

### 3.1 Where code and documents disagree

The run `command_unanswered` has a violation to show: a command that found no free slot
is sent without being tracked, and a timeout event the event loop refuses is dropped;
the bridge's comment that the coordinator "always" acks (`__main__.py:283`) does not
hold.

The other disagreements have no run; those marked † were refuted by TLC when the property
said what the document says, and the properties above have the excuse named.

* Every ACK frame is printed: a duplicated one gives a second ok line, a late one an ok
  line after the timeout line (`docs/usb-protocol.md:87` says once per command). †
* A change made while a report is being sent is never reported in mode ON_CHANGE_ONLY
  (`en2m_model.h:80`). † In the default mode the keepalive repairs it, which
  `device_store` shows.
* A reconnect to the broker is said to replay the state (`docs/bridge.md:230`). It repeats
  no availability, and `_publish_discovery` returns before the configurations of a device
  it marked under the same signature (`__main__.py:557`), although the publishes of
  the time without a link (QoS 0, result ignored: `__main__.py:334`, `426`, `593`;
  `docs/bridge.md:216` knows that nothing gets out) were lost. An availability stays wrong
  until the device's next change of state, a configuration until the capabilities
  change or the bridge restarts. † The histories `missed` and `told` are what `SigHonest`,
  `AvailTells`, `CatchesUp`, `BrokerAgrees` and `AliveComesOnline` except.
* The availability is published before the registry file is written, the device list
  after it: when the write raises or the bridge ends there, or the mqtt thread's older
  list comes last, list and availability disagree until the next list (history `late`). †
* `offline` is said once; when the bridge is down at that moment the retained `online`
  stays for good (`docs/mqtt.md:280-283`). †
* A device silent for two minutes loses its route and is dropped until somebody opens
  the pairing window (`docs/coordinator.md:301-303`, `docs/troubleshooting.md:733`). †
* A route table keeps a shorter way that is gone for as long as it hears the device over
  a longer one (`troubleshooting.md:733` says the next heartbeat repairs it): the premise
  `NoShortcut` of `Heals`. †
* Two tasks that write one attribute may drive the hardware in one order and commit in
  the other (`en2m_attr.h:275-278`): the history `crossed`. † Two tasks that record
  presses may pair one's action with the other's count (`en2m_attr.h:314` "thread-safe"):
  `Pressers` has one member. †
* A fan's mode and percentage are driven with two writes by one command, each of which
  may drive the motor, as `docs/troubleshooting.md` section 7.8 says.
* `move_to_level` without a level sets level 0; numbers below zero are narrowed before they
  are clamped and become large.
* An exception half way through a callback of the bridge loses a recorded command or an
  ack's result (`__main__.py:250`, `289-292`, `463`); with a paho client that does not
  suppress exceptions its network thread ends, and with it all commands
  (`docs/bridge.md` 13.1 says that it goes on).
* After 65535 commands the ids on the wire are not the bridge's any more, and results lose
  their payload (`docs/mqtt.md:574`). †
* The discovery signature lacks the name: a renamed device keeps its entities under the
  old slug until the bridge restarts (`docs/bridge.md:161`).
* A guess `_publish_discovery` made on the mqtt thread may overwrite capabilities the device
  stated meanwhile; the next stated list repairs it, which `CapsSettle` shows.
* `send_fail` is never sent for a missing route or a full table; a full peer table drops the
  frame itself; `max_retries` 255 retries for ever (with `MaxRetries = AttemptWidth - 1`
  TLC refutes `Settles`); parents can form a circle for a while after the root is lost;
  what NVS refuses, by `nvs_open`, `nvs_set_blob` or `nvs_commit` (whose result is not
  looked at), is not retried.

### 3.2 Fairness

* CommandPath: time passes (`IntervalElapses`), the en2m task finishes what it holds,
  the event loop serves its queue: weak fairness. The tick has strong fairness: a
  frame in hand disables it for a moment, but `en2m_task` takes one item and then
  runs the tick when it is due, so no stream of frames keeps it away. Nothing is
  assumed of radio and host.
* MeshTree: the tick of every node runs (beacon, expiry), received beacons are
  served, periods pass. Nothing is assumed of failures.
* DeviceStore: every thread goes on with what it began; the tick's flush and report
  compete with queue items and commands and get strong fairness for the same reason
  as above. Nobody has to change a value.
* Presence: the en2m task and both threads of the bridge go on with what they began (weak
  fairness), so the bridge connects again after its link broke; it is started again,
  and a device that is not silent is heard again and again in spite of other traffic
  (strong fairness of a keepalive report and a heartbeat). No device has to return, no
  sweep has to come; nobody has to open the window. `AliveComesOnline` has the premise
  that the device is, from some time on, admitted for good.
* ReverseRoutes: heartbeats go on, and of the reports sent to a node again and again
  some arrive (strong fairness: other frames come between); a command under way
  arrives or is lost; beacons are heard by a node without a parent, and a lost parent is
  noticed. Nobody has to send a command. `Heals` has the premise that the device stays
  attached and known.
* BridgeCommands: both threads finish what they began, entries grow old. The mqtt
  thread need not get a message, the coordinator need not answer. `StaleForgotten` has
  the premise that acks go on to be handled: expiry runs only then and when a
  command is sent.
* BridgeDevices: the serial thread finishes its line. `CapsSettle` has the premises that the
  stated lists go on to come and that the bridge stays connected (with every reconnect
  that races a line a guess may win again); `CatchesUp` that the device comes online
  again and again.

## 4. Proofs

All theorems hold for every value of the constants under the named assumptions
of the modules, which only say that bounds are natural numbers, widths are greater than
one, the parent expires after more than one period, sets of devices are finite,
two devices have no name in common, and sentinels are distinct.

| Module | Theorems | Inductive invariant |
|---|---|---|
| `CommandPath_proofs` | `TypeCorrect`, `NoFalseSuccessHolds`, `RetryBooksHold`, `UniquePendingHolds`, `BoundedTransmissionsHolds`, `HonestTimeoutHolds`, `NoRetryAfterAckHolds`, `NoEvictionHolds`, `ImplementsServiceHolds` | `TypeOK`, `AckBooks`, `RetryBooks`, `FramesSent` |
| `MeshTree_proofs` | `MeshTypeCorrect`, `PromisesHold`, `CostsFallHolds`, `NoCostlierSwitchHolds`, `RootedHolds`, `RestsShortestHolds` | `TypeOK /\ Promises` |
| `DeviceStore_proofs` | `StoreTypeCorrect`, `SavedBooksHold`, `SavedHolds`, `KeepsSettingsHolds`, `RememberedHolds` | `TypeOK /\ SavedBooks /\ Uncommitted` |
| `Presence_proofs` | `PresenceTypeCorrect`, `OneRowEachHolds`, `BrokerAgreesHolds` | `TypeOK /\ TableBooks`; `BrokerAgrees` with what the walk has read (`TurnBooks`) |
| `ReverseRoutes_proofs` | `RoutesTypeCorrect`, `RouteBooksHold`, `RoutesFallHolds`, `RoutesLeadHolds`, `CommandsDescendHolds` | `TypeOK /\ RouteBooks` |
| `BridgeCommands_proofs` | `BridgeTypeCorrect`, `CommandBooksHold`, `NoFalseResultHolds`, `NoOrphanHolds`, `OnceReportedHolds`, `FreshKeptHolds`, `KeepsPromiseHolds` | `TypeOK /\ CommandBooks` |
| `BridgeDevices_proofs` | `DevicesTypeCorrect`, `SigHonestHolds`, `NamesOnFileHolds`, `AvailTellsHolds` | `TypeOK /\ DeviceBooks` |
| `DeviceControl_proofs` | `ControlTypeCorrect`, `ShowsHardwareHolds`, `PressPairedHolds`, `RepeatHarmlessHolds` | `TypeOK`, `RepeatBooks` and what the hardware, the tasks and the presses have in hand |

* Why `HonestTimeout` is not inductive: the tick gives a slot up by its `attempts`, the
  property speaks of transmissions. `RetryBooks` ties the two (a slot's counter is the
  number of transmissions of the one command it holds) and says that a command is in
  one slot or closed. The counter is eight bits wide: the theorems that need it
  assume `RetriesFit`, `MaxRetries + 1 < AttemptWidth`, because with a
  budget at the top of its type the code's comparison is never true.
* `NoFalseSuccess` rests on `AckBooks`: an ACK frame, a frame in hand or an ok line each
  stand for a command some device handled.
* `ImplementsServiceHolds`: initial states map to initial states and each step to a
  step of `CommandService` or a stutter; a send that takes over a slot is `Issue`, a
  tick that gives slots up is `GiveUp`, a restart is `Forget`.
* `CostsFall` is not inductive: a node adopts what a beacon says, not what its sender
  holds now. `Promises` adds that a beacon under way never promises less than its
  sender holds, which is true as long as no path was given up.
* `Saved` is not inductive: a flush's copy may be older than the value. `SavedBooks`
  adds that the copy is current unless the attribute is dirty again, that one thread
  holds it, and that only a flush of a running component holds anything.
* `OneRowEach` needs `TableBooks`: every row in use has a device's address, and the row
  a thread is about to name never loses its address, since freeing a row leaves the
  address in it and only the en2m task, which is the one that holds the pointer,
  takes rows.

* `RoutesFall` is not inductive: a node learns what a frame says, not what the sender's
  table has. `RouteBooks` adds that whoever passes a frame on knows its origin over
  fewer hops than the frame says, and that a command's hops and those of the entry it
  was sent by stay within the limit together, so that it is never cut off.
* `NoFalseResult` rests on `CommandBooks`: ids are numbered through, every command has its
  entry until it is spent, an entry's key names one command, every line of the
  coordinator stands for a command of that id. It is here that the composition is used:
  a timeout line is told only of commands `CommandService` gave up.
* `SigHonest` and `AvailTells` are not inductive: between the steps of a line the device
  is ahead of the broker. `SignatureBooks`, `NameBooks`, `TellBooks` say for which line,
  and that what a lost publish left out stays in `missed` until it is published again.
* `BrokerAgrees` needs `TurnBooks`: between `Device.online` and the availability the line at
  hand says the same as `Device.online`, since no other thread writes it.
* `ShowsHardware` needs that a task about to commit a value has driven it and that nobody
  else drove since; `crossed` is exactly where that fails. `PressPairedHolds` assumes that
  one task records presses, as `MCDeviceControl` does.
* `RepeatHarmless` compares two runs of a whole frame, several steps each, with the
  application and the ticks between them. `Final` says in closed form what a frame's
  orders make of each attribute, the later order of two that write the same one
  winning; `RepeatBooks` says that the store plus the orders still to come is always
  the outcome of the frame for the store it began with. What remains is that outcomes
  are idempotent (`OutcomeTwice`), key by key; the fan, whose mode and percentage write
  each other, is the hard case (`FanTwice`).

Refinements.

* `KeepsSettingsHolds`: three threads, flags, copies and NVS in two steps are a
  `PersistentStore`. A change is owed to the flash (`Owed`) while it is marked dirty, in
  a thread's hands, or written and not committed; that this last case needs a flush that
  still runs, unless NVS refused, is `Uncommitted`, the invariant added to `SavedBooks`.
  What it refused may come back with a stop and a start without being in the flash, and
  is still owed then (`Start`). A `Store` of an older copy leaves the debt, since the attribute is dirty again; the
  commit of one flush pays for the other's blobs too. `Remembered` is the invariant the
  abstract specification was written for.
* `KeepsPromiseHolds`: the bridge with the coordinator's `CommandService` is a
  `CommandResults`. The dictionary of pending commands is `waiting`, the ack in the
  serial thread's hands `taken`, the results with a payload `told`; the coordinator's
  commands are mapped to the bridge's by what the wire keeps of them (`Among`). The
  mqtt thread's exceptions are lapses or stutters.

Beyond one step. `CostsFall` and `RoutesFall` compare neighbours; what they are good for
is a statement about whole paths: `Rooted` (the parents of every attached node lead to
the coordinator, in no more hops than its cost says), `RoutesLead` (next hops lead to
the device from wherever it is known) and `RestsShortest` (a mesh in which every node
has heard its neighbours' present beacons and none would react has shortest paths, on
any graph and with any hop limit). The proofs take a node of least cost that is an
exception; that there is one is the lemma `Least`, from the library's theorem that the
natural numbers are well-founded, and this is how the proofs get round the rule of
induction, whose operator parameter the provers cannot fill in. Distance in the graph is the
recursive function `Within`; `WithinDef` shows that its equation has a solution.

`RetryBooks`, `BoundedTransmissions`, `Promises`, `SavedBooks` and `TableBooks` were first
checked by TLC and are now shown by their theorems only. So are properties whose
failure another property of the same run would show as well: `CostsFall` and
`NoCostlierSwitch` (`Rooted`), `RoutesFall` (`RoutesLead`), `Saved` and `Remembered`
(`KeepsSettings`), `OnceReported` (`KeepsPromise`).

The type theorems are what makes the refinement and the safety proofs go through, and
say something of their own where widths and table indices are concerned.

Only model-checked: the liveness properties `Settles`, `Converges`, `FlashCatchesUp`,
`ReportsCatchUp`, `AliveComesOnline`, `Heals`, `StaleForgotten`, `CapsSettle`,
`CatchesUp`, since the prover has no rules for liveness under fairness. Of `Converges` the
theorem `RestsShortest` keeps the part that is not: where the mesh comes to rest, it
rests on shortest paths. Of `FlashCatchesUp` it is `Remembered`: where nothing is owed, the
flash has everything. Every invariant, action property and refinement that a run
checks is also proved.

## 5. What is not modelled

* The receive queue's capacity and its drop counter; a dropped frame is a lost one.
* Bytes on the USB line; lines are lost whole.
* The deadline of the pairing window: the window closes at any time.
* `en2m_mesh_deinit` giving up on its task after a second: the code then deletes objects
  in use and nothing is promised. The boot of the coordinator before `en2m_mesh_init`.
* Several endpoints on one device and how a command finds its endpoint; a level command
  switches the lowest On/Off endpoint on, whichever endpoint it was for.
* What an application's own command handlers do, and report sizes.
* The end of paho's thread in `Presence`, where it always connects again; `BridgeDevices` and
  `BridgeCommands` have it.
* The content of discovery and state topics, the `bridge/devices` list, RSSI, hop count
  and `via`; a registry file that cannot be opened for reading; two devices of one name.
* The table of endpoints, clusters and attributes while it is filled; it is constant
  once the component runs. Formatting and parsing of addresses.
* Wi-Fi, ESP-NOW, NVS, USB driver, MQTT library: external, as the source uses them.

## 6. Plan

Done: `CommandPath` with `CommandService` (the system's main promise, and the most
concurrent part), `MeshTree`, `DeviceStore`, `Presence`, `ReverseRoutes`,
`BridgeCommands` on top of `CommandService`, `BridgeDevices`, `DeviceControl`. What is
left, by weight:

1. `PairingWindow`: the deadline, a pair line against housekeeping.
2. `RxQueue` and `UsbLine`: capacity, drop counter, bytes of several writers, overlong
   lines. Abstract specification: a lossy channel of whole lines.
3. Several endpoints in `DeviceControl`.
4. Proofs: where `ReverseRoutes` comes to rest every router on the way knows the device
   (the safe part of `Heals`); an abstract specification of reports and presence.
