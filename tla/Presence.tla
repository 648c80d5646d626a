-------------------------------- MODULE Presence --------------------------------
(***************************************************************************)
(* Who is online: the peer table of the coordinator (main.c) and the       *)
(* availability the bridge keeps on the MQTT broker (__main__.py).         *)
(*                                                                         *)
(* Three threads of the coordinator use s_peers without a lock: the en2m   *)
(* task (on_uplink), the esp_timer task (housekeeping) and the usb_rx task *)
(* (handle_host_line).  A step is what a thread does between two accesses  *)
(* to the table or two lines.  Time is one bit: a row is old once its      *)
(* device was silent for EN2M_OFFLINE_MS, and only a silent device's row   *)
(* grows old; a row whose last_ms is still 0 counts as old.                *)
(*                                                                         *)
(* The bridge has two threads.  The serial thread handles a line in steps: *)
(* Device.online, then the availability, then the device file and the      *)
(* device list.  The MQTT thread reads the devices one by one after every  *)
(* (re)connection and publishes the list too.  Publishes are QoS 0 and     *)
(* their result is ignored: without a broker they are lost.                *)
(***************************************************************************)
EXTENDS Naturals, Sequences

CONSTANTS
  Devices,   \* the devices in range
  Nobody,    \* the address in a row never used
  MaxPeers,  \* EN2M_MAX_ROUTES, the rows of s_peers
  MaxLines,  \* bound of the model: lines on the way to the bridge
  Troubles,  \* the kinds of events that happen
  MaxEvents  \* bound of the model: events

Rows == 1..MaxPeers

\* A device falls silent; "unpair"; the sweep comes in the instant a row is
\* allocated; a line is lost; the bridge or the coordinator restarts; the
\* link to the broker breaks; the device file cannot be written.
AllTroubles == {"silence", "unpair", "sweep", "loss", "bridge", "restart", "broker", "save"}

ASSUME PresenceAssumption ==
  /\ Nobody \notin Devices
  /\ MaxPeers \in Nat \ {0} /\ MaxLines \in Nat \ {0} /\ MaxEvents \in Nat
  /\ Troubles \subseteq AllTroubles

VARIABLES
  peers,    \* s_peers
  known,    \* devices in the route table of the coordinator
  pairing,  \* s_ctx.pairing
  link,     \* where the en2m task is in on_uplink
  sweep,    \* where the esp_timer task is in housekeeping
  host,     \* where the usb_rx task is in handle_host_line
  asked,    \* a "list" line of the bridge waits for the usb_rx task
  lines,    \* lines on the way to the bridge
  up,       \* the bridge runs
  linked,   \* the bridge is connected to the broker
  turn,     \* where the serial thread is in a line
  walk,     \* the MQTT thread in _on_mqtt_connect: devices to read, read online
  online,   \* devices with Device.online
  avail,    \* retained <slug>/availability
  listed,   \* devices that are online in the retained bridge/devices
  missed,   \* history: devices whose availability is wrong for a lost publish
  late,     \* history: the list is wrong: not written, lost or out of date
  quiet,    \* devices that have fallen silent
  events    \* counter of the model's bound

coordinator == <<peers, known, pairing, link, sweep, host, asked>>
topics == <<avail, listed, missed, late>>
bridge == <<up, linked, turn, walk, online, topics>>
vars == <<coordinator, lines, bridge, quiet, events>>

Kinds == {"hello", "heartbeat", "state", "ack"}
Line == [ev : {"online", "info", "offline", "state"}, mac : Devices]
Peer == [mac : Devices \cup {Nobody}, used : BOOLEAN, age : {"zero", "recent", "old"}]

Idle == [at |-> "idle"]

TypeOK ==
  /\ peers \in [Rows -> Peer]
  /\ known \subseteq Devices /\ pairing \in BOOLEAN
  /\ link \in {Idle} \cup [at : {"stamp", "device", "state"}, mac : Devices,
                           kind : Kinds, row : Rows, first : BOOLEAN]
  /\ sweep \in {Idle} \cup [at : {"emit", "free"}, row : Rows]
  /\ host \in {Idle} \cup [at : {"emit", "free", "forget"}, row : Rows, mac : Devices]
                     \cup [at : {"list"}, row : Rows]
  /\ asked \in BOOLEAN
  /\ lines \in Seq(Line) /\ Len(lines) <= MaxLines
  /\ up \in BOOLEAN /\ linked \in BOOLEAN
  /\ turn \in {Idle} \cup [at : {"tell", "save"}, mac : Devices,
                           ev : {"online", "info", "offline", "state"}]
  /\ walk \in {Idle} \cup [left : SUBSET Devices, on : SUBSET Devices]
  /\ online \subseteq Devices /\ listed \subseteq Devices
  /\ avail \in [Devices -> {"none", "online", "offline"}]
  /\ missed \subseteq Devices /\ late \in BOOLEAN
  /\ quiet \subseteq Devices /\ events \in 0..MaxEvents

Unused == [mac |-> Nobody, used |-> FALSE, age |-> "zero"]

Init ==
  /\ peers = [i \in Rows |-> Unused] /\ known = {} /\ pairing = FALSE
  /\ link = Idle /\ sweep = Idle /\ host = Idle /\ asked = FALSE
  /\ lines = <<>>
  /\ up = TRUE /\ linked = TRUE /\ turn = Idle /\ walk = Idle
  /\ online = {} /\ listed = {} /\ avail = [d \in Devices |-> "none"]
  /\ missed = {} /\ late = FALSE
  /\ quiet = {} /\ events = 0

Event(trouble) == trouble \in Troubles /\ events < MaxEvents /\ events' = events + 1

\* usb_emit_json: nobody reads the line while the bridge is down.
Emit(ev, d) ==
  IF up
  THEN Len(lines) < MaxLines /\ lines' = Append(lines, [ev |-> ev, mac |-> d])
  ELSE UNCHANGED lines

\* on_uplink works on a frame of d, which takes no EN2M_OFFLINE_MS.
Handling(d) == link # Idle /\ link.mac = d

Has(i, d) == peers[i].used /\ peers[i].mac = d    \* find_peer
Listed(d) == \E i \in Rows : Has(i, d)
First(i, S) == i \in S /\ \A j \in S : i <= j

-----------------------------------------------------------------------------
(* The en2m task: an uplink of device d. *)

\* Faulty: one loop, which stops at a free row before the device's own.
AllocPeer_OneLoop(d, i) == First(i, {j \in Rows : Has(j, d) \/ ~peers[j].used})

\* alloc_peer returns row i: the device's row or the first free one.
AllocPeer(d, i) ==
  IF Listed(d)
  THEN First(i, {j \in Rows : Has(j, d)})
  ELSE First(i, {j \in Rows : ~peers[j].used})

\* en2m_handle_rx of the coordinator admits the frame, learns the route and
\* calls on_uplink.
Admitted(d) == d \notin quiet /\ (d \in known \/ pairing)

Receive(d, kind) ==
  /\ link = Idle /\ Admitted(d)
  /\ known' = known \cup {d}
  /\ \/ \E i \in Rows :
          /\ AllocPeer(d, i)
          /\ peers' = IF Has(i, d) THEN peers
                      ELSE [peers EXCEPT ![i] = [mac |-> d, used |-> TRUE, age |-> "zero"]]
          /\ link' = [at |-> "stamp", mac |-> d, kind |-> kind, row |-> i, first |-> FALSE]
     \/ \* peer table full
        /\ ~\E i \in Rows : AllocPeer(d, i)
        /\ UNCHANGED <<peers, link>>
  /\ UNCHANGED <<pairing, sweep, host, asked, lines, bridge, quiet, events>>

AfterStamp == CASE link.kind \in {"hello", "heartbeat"} -> "device"
                [] link.kind = "state" -> "state"
                [] link.kind = "ack" -> "idle"

\* The row is stamped, whoever freed it meanwhile.
Stamp ==
  /\ link.at = "stamp"
  /\ peers' = [peers EXCEPT ![link.row].age = "recent"]
  /\ link' = IF AfterStamp = "idle" THEN Idle
             ELSE [link EXCEPT !.at = AfterStamp, !.first = peers[link.row].age = "zero"]
  /\ UNCHANGED <<known, pairing, sweep, host, asked, lines, bridge, quiet, events>>

\* emit_device of a HELLO or a HEARTBEAT.
EmitDevice ==
  /\ link.at = "device"
  /\ Emit(IF link.first THEN "online" ELSE "info", peers[link.row].mac)
  /\ link' = IF link.kind = "hello" THEN [link EXCEPT !.at = "state"] ELSE Idle
  /\ UNCHANGED <<peers, known, pairing, sweep, host, asked, bridge, quiet, events>>

\* The "state" line of a HELLO or a STATE.
EmitState ==
  /\ link.at = "state"
  /\ Emit("state", link.mac)
  /\ link' = Idle
  /\ UNCHANGED <<peers, known, pairing, sweep, host, asked, bridge, quiet, events>>

\* en2m_expire_routes: after EN2M_ROUTE_STALE_MS of silence, when the row is old.
RouteExpires(d) ==
  /\ d \in known \cap quiet /\ ~Handling(d)
  /\ \A i \in Rows : Has(i, d) => peers[i].age # "recent"
  /\ known' = known \ {d}
  /\ UNCHANGED <<peers, pairing, link, sweep, host, asked, lines, bridge, quiet, events>>

-----------------------------------------------------------------------------
(* The esp_timer task: housekeeping. *)

PairingCloses ==
  /\ pairing /\ sweep = Idle /\ pairing' = FALSE
  /\ UNCHANGED <<peers, known, link, sweep, host, asked, lines, bridge, quiet, events>>

\* The sweep comes to a row that is used and old, or allocated this instant.
SweepFind(i) ==
  /\ sweep = Idle /\ peers[i].used
  /\ \/ peers[i].age = "old" /\ UNCHANGED events
     \/ peers[i].age = "zero" /\ Event("sweep")
  /\ sweep' = [at |-> "emit", row |-> i]
  /\ UNCHANGED <<peers, known, pairing, link, host, asked, lines, bridge, quiet>>

SweepEmit ==
  /\ sweep.at = "emit"
  /\ Emit("offline", peers[sweep.row].mac)
  /\ sweep' = [sweep EXCEPT !.at = "free"]
  /\ UNCHANGED <<peers, known, pairing, link, host, asked, bridge, quiet, events>>

SweepFree ==
  /\ sweep.at = "free"
  /\ peers' = [peers EXCEPT ![sweep.row].used = FALSE]
  /\ sweep' = Idle
  /\ UNCHANGED <<known, pairing, link, host, asked, lines, bridge, quiet, events>>

-----------------------------------------------------------------------------
(* The usb_rx task: handle_host_line. *)

PairLine ==
  /\ host = Idle /\ ~pairing /\ pairing' = TRUE
  /\ UNCHANGED <<peers, known, link, sweep, host, asked, lines, bridge, quiet, events>>

UnpairLine(d) ==
  /\ host = Idle /\ Event("unpair")
  /\ \/ \E i \in Rows : /\ Listed(d) /\ AllocPeer(d, i)
                        /\ host' = [at |-> "emit", row |-> i, mac |-> d]
                        /\ UNCHANGED known
     \/ ~Listed(d) /\ known' = known \ {d} /\ UNCHANGED host
  /\ UNCHANGED <<peers, pairing, link, sweep, asked, lines, bridge, quiet>>

UnpairEmit ==
  /\ host.at = "emit"
  /\ Emit("offline", peers[host.row].mac)
  /\ host' = [host EXCEPT !.at = "free"]
  /\ UNCHANGED <<peers, known, pairing, link, sweep, asked, bridge, quiet, events>>

UnpairFree ==
  /\ host.at = "free"
  /\ peers' = [peers EXCEPT ![host.row].used = FALSE]
  /\ host' = [host EXCEPT !.at = "forget"]
  /\ UNCHANGED <<known, pairing, link, sweep, asked, lines, bridge, quiet, events>>

UnpairForget ==
  /\ host.at = "forget"
  /\ known' = known \ {host.mac}
  /\ host' = Idle
  /\ UNCHANGED <<peers, pairing, link, sweep, asked, lines, bridge, quiet, events>>

ListLine ==
  /\ host = Idle /\ asked
  /\ asked' = FALSE /\ host' = [at |-> "list", row |-> 1]
  /\ UNCHANGED <<peers, known, pairing, link, sweep, lines, bridge, quiet, events>>

\* Faulty: the loop goes one row too far.
ListRow_PastEnd ==
  /\ host.at = "list"
  /\ IF peers[host.row].used THEN Emit("info", peers[host.row].mac) ELSE UNCHANGED lines
  /\ host' = IF host.row > MaxPeers THEN Idle ELSE [host EXCEPT !.row = @ + 1]
  /\ UNCHANGED <<peers, known, pairing, link, sweep, asked, bridge, quiet, events>>

ListRow ==
  /\ host.at = "list"
  /\ IF peers[host.row].used THEN Emit("info", peers[host.row].mac) ELSE UNCHANGED lines
  /\ host' = IF host.row = MaxPeers THEN Idle ELSE [host EXCEPT !.row = @ + 1]
  /\ UNCHANGED <<peers, known, pairing, link, sweep, asked, bridge, quiet, events>>

-----------------------------------------------------------------------------
(* The bridge: the serial thread. *)

\* The head of _on_device_event.
DeviceEvent(l) ==
  /\ online' = CASE l.ev = "online" -> online \cup {l.mac}
                 [] l.ev = "offline" -> online \ {l.mac}
                 [] l.ev = "info" -> online
  /\ turn' = [at |-> IF l.ev = "info" THEN "save" ELSE "tell", mac |-> l.mac, ev |-> l.ev]

\* Faulty: a state report does not bring a device back.
OnState_StaysOffline(l) == UNCHANGED <<online, turn>>

\* The head of _on_state: a device that was offline is back.
OnState(l) ==
  /\ online' = online \cup {l.mac}
  /\ turn' = IF l.mac \in online THEN Idle
             ELSE [at |-> "tell", mac |-> l.mac, ev |-> "state"]

HandleSerial ==
  /\ up /\ turn = Idle /\ lines # <<>>
  /\ lines' = Tail(lines)
  /\ LET l == Head(lines) IN IF l.ev = "state" THEN OnState(l) ELSE DeviceEvent(l)
  /\ UNCHANGED <<coordinator, up, linked, walk, topics, quiet, events>>

\* The retained <slug>/availability.
Tell ==
  LET word == IF turn.ev = "offline" THEN "offline" ELSE "online" IN
  /\ turn.at = "tell"
  /\ avail' = IF linked THEN [avail EXCEPT ![turn.mac] = word] ELSE avail
  /\ missed' = IF linked \/ avail[turn.mac] = word THEN missed \ {turn.mac}
               ELSE missed \cup {turn.mac}
  /\ turn' = IF turn.ev = "state" THEN Idle ELSE [turn EXCEPT !.at = "save"]
  /\ UNCHANGED <<coordinator, lines, up, linked, walk, online, listed, late, quiet, events>>

\* Faulty: the list is published when a device comes, not when it goes.
Save_ListsArrivals ==
  /\ turn.at = "save" /\ turn' = Idle
  /\ \/ /\ listed' = IF linked /\ turn.ev # "offline" THEN online ELSE listed
        /\ late' = (~linked /\ listed # online)
        /\ UNCHANGED events
     \/ Event("save") /\ UNCHANGED listed /\ late' = (listed # online)
  /\ UNCHANGED <<coordinator, lines, up, linked, walk, online, avail, missed, quiet>>

\* _save_devices: the file, then the device list; or the exception of
\* write_text, which _serial_loop catches.
Save ==
  /\ turn.at = "save" /\ turn' = Idle
  /\ \/ linked /\ listed' = online /\ late' = FALSE /\ UNCHANGED events
     \/ /\ (~linked /\ UNCHANGED events) \/ Event("save")
        /\ UNCHANGED listed /\ late' = (listed # online)
  /\ UNCHANGED <<coordinator, lines, up, linked, walk, online, avail, missed, quiet>>

-----------------------------------------------------------------------------
(* The bridge: the MQTT thread, the process. *)

Walking == [left |-> Devices, on |-> {}]    \* _on_mqtt_connect begins

Reconnects ==
  /\ up /\ ~linked /\ walk = Idle
  /\ linked' = TRUE /\ walk' = Walking
  /\ UNCHANGED <<coordinator, lines, up, turn, online, topics, quiet, events>>

\* _publish_device_list reads Device.online of one device after the other.
ReadDevice ==
  /\ walk # Idle
  /\ \E d \in walk.left : walk' = [left |-> walk.left \ {d},
                                   on |-> walk.on \cup (online \cap {d})]
  /\ UNCHANGED <<coordinator, lines, up, linked, turn, online, topics, quiet, events>>

\* The list, unless the link is down, or a device added meanwhile has ended the
\* iteration with an exception.
ListPublish ==
  /\ walk # Idle /\ walk.left = {} /\ walk' = Idle
  /\ \/ linked /\ listed' = walk.on /\ late' = (walk.on # online)
     \/ UNCHANGED <<listed, late>>
  /\ UNCHANGED <<coordinator, lines, up, linked, turn, online, avail, missed, quiet, events>>

\* The process ends wherever its threads are; what is retained on the broker stays.
BridgeStops ==
  /\ up /\ Event("bridge")
  /\ up' = FALSE /\ lines' = <<>> /\ online' = {}
  /\ linked' = FALSE /\ turn' = Idle /\ walk' = Idle
  /\ late' = (late \/ turn # Idle)
  /\ UNCHANGED <<coordinator, avail, listed, missed, quiet>>

\* start: _load_devices, the connection, and a "list" line to the coordinator.
BridgeStarts ==
  /\ ~up /\ up' = TRUE
  /\ linked' = TRUE /\ walk' = Walking /\ asked' = TRUE
  /\ UNCHANGED <<peers, known, pairing, link, sweep, host, lines, turn, online, topics,
                 quiet, events>>

-----------------------------------------------------------------------------
(* The surroundings. *)

\* A device is switched off, or out of reach for EN2M_OFFLINE_MS; and back.
GoesQuiet(d) ==
  /\ d \notin quiet /\ Event("silence")
  /\ quiet' = quiet \cup {d}
  /\ UNCHANGED <<coordinator, lines, bridge>>

Returns(d) ==
  /\ d \in quiet /\ quiet' = quiet \ {d}
  /\ UNCHANGED <<coordinator, lines, bridge, events>>

GrowsOld(i) ==
  /\ peers[i].used /\ peers[i].mac \in quiet /\ peers[i].age = "recent"
  /\ ~Handling(peers[i].mac)
  /\ peers' = [peers EXCEPT ![i].age = "old"]
  /\ UNCHANGED <<known, pairing, link, sweep, host, asked, lines, bridge, quiet, events>>

\* What is published is lost until the MQTT thread has connected again.
LinkBreaks ==
  /\ up /\ linked /\ Event("broker")
  /\ linked' = FALSE
  /\ UNCHANGED <<coordinator, lines, up, turn, walk, online, topics, quiet>>

\* Two threads' lines merge, or the write times out.
LineLost ==
  /\ lines # <<>> /\ Event("loss")
  /\ lines' = Tail(lines)
  /\ UNCHANGED <<coordinator, bridge, quiet>>

\* The coordinator restarts: peer table, routes and pairing are gone.
CoordinatorRestarts ==
  /\ Event("restart")
  /\ peers' = [i \in Rows |-> Unused] /\ known' = {} /\ pairing' = FALSE
  /\ link' = Idle /\ sweep' = Idle /\ host' = Idle /\ asked' = FALSE
  /\ UNCHANGED <<lines, bridge, quiet>>

\* The threads, each at the step it has come to.
En2mTask == Stamp \/ EmitDevice \/ EmitState
Housekeeping == SweepEmit \/ SweepFree
UsbRxTask == UnpairEmit \/ UnpairFree \/ UnpairForget \/ ListLine \/ ListRow
SerialThread == HandleSerial \/ Tell \/ Save
MqttThread == Reconnects \/ ReadDevice \/ ListPublish

Next ==
  \/ \E d \in Devices : \/ \E kind \in Kinds : Receive(d, kind)
                        \/ RouteExpires(d) \/ UnpairLine(d) \/ GoesQuiet(d) \/ Returns(d)
  \/ \E i \in Rows : SweepFind(i) \/ GrowsOld(i)
  \/ En2mTask \/ Housekeeping \/ UsbRxTask \/ SerialThread \/ MqttThread
  \/ PairingCloses \/ PairLine \/ BridgeStops \/ BridgeStarts
  \/ LinkBreaks \/ LineLost \/ CoordinatorRestarts

Spec == Init /\ [][Next]_vars

(***************************************************************************)
(* Fairness: the en2m task and both threads of the bridge go on with what  *)
(* they have begun, the bridge connects and is started again.  A device    *)
(* that is not silent sends its keepalive report and its heartbeat again   *)
(* and again, and the radio delivers one again and again (strong fairness: *)
(* other frames come in between).  No device has to return, no sweep has   *)
(* to come, and nobody has to open the pairing window.                     *)
(***************************************************************************)
Fairness ==
  /\ WF_vars(En2mTask) /\ WF_vars(SerialThread) /\ WF_vars(MqttThread)
  /\ WF_vars(BridgeStarts)
  /\ \A d \in Devices : SF_vars(Receive(d, "state")) /\ SF_vars(Receive(d, "heartbeat"))

FairSpec == Spec /\ Fairness

-----------------------------------------------------------------------------
(* Properties. *)

\* Although three threads use the table without a lock, a device has one row,
\* and the row on_uplink holds a pointer to is still that device's, freed or not.
OneRowEach ==
  /\ \A i, j \in Rows : \A d \in Devices : Has(i, d) /\ Has(j, d) => i = j
  /\ link # Idle => peers[link.row].mac = link.mac

\* Why no thread ever names a row of nobody: only the en2m task takes rows,
\* and no thread clears the address in a row it frees.
TableBooks ==
  /\ OneRowEach
  /\ \A i \in Rows : peers[i].used => peers[i].mac \in Devices
  /\ sweep # Idle => peers[sweep.row].mac \in Devices
  /\ host.at = "emit" => peers[host.row].mac \in Devices

\* The retained topics agree with the bridge and with each other, for a device
\* whose last availability was not lost: what Device.online or the device list
\* holds for online has availability online.  Only the device of the line at
\* hand may differ, before its availability (or, in the list, before the list)
\* is published; and a list that was not written, lost or out of date.
BrokerAgrees ==
  /\ \A d \in online \ missed :
       avail[d] = "online" \/ (turn.at = "tell" /\ turn.mac = d)
  /\ ~late => \A d \in listed \ missed :
                avail[d] = "online" \/ (turn # Idle /\ turn.mac = d)

Heard(d) == <>[]Admitted(d)

\* A device that is heard again and again and known, or let in by an open
\* pairing window, is shown online for good, whatever restarts, lost lines,
\* unpairings, failed saves and sweeps at the wrong moment came before; its
\* availability, which no reconnection repeats, unless that publish was lost.
AliveComesOnline ==
  \A d \in Devices : Heard(d) => <>[](/\ avail[d] = "online" \/ d \in missed
                                    /\ up => d \in listed)
=============================================================================
