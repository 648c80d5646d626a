---------------------------- MODULE BridgeCommands ----------------------------
(***************************************************************************)
(* A command on its way through the bridge (__main__.py): from the MQTT    *)
(* message <slug>/set over the cmd line to the coordinator and back as     *)
(* <slug>/command_result.                                                  *)
(*                                                                         *)
(* Two threads meet: paho's network thread (_on_mqtt_message) and the      *)
(* serial thread (_on_ack and the device lines).  They share `devices` and *)
(* `pending` without a lock; iterating over a dictionary the other thread  *)
(* resizes raises an exception, and so does deleting what it deleted.      *)
(*                                                                         *)
(* The coordinator is CommandService, which CommandPath implements.  Its   *)
(* lines may be read late, again, in another order, or never.              *)
(***************************************************************************)
EXTENDS Naturals, FiniteSets

CONSTANTS
  Devices,     \* the devices on the mesh
  IdModulus,   \* 2^16: the coordinator keeps an id in a uint16_t
  MaxAsked,    \* bound of the model: commands asked for
  MaxRestarts, \* bound of the model: restarts of the bridge
  Nothing      \* no command or ack in hand

ASSUME BoundsAssumption ==
  /\ IdModulus \in Nat \ {0} /\ MaxAsked \in Nat /\ MaxRestarts \in Nat
  /\ IsFiniteSet(Devices)

WireIds == 0..(IdModulus - 1)
Serial  == 1..MaxAsked
Keys    == 1..(MaxAsked + 1)
Threads == {"mqtt", "serial"}

\* key: the bridge's id; id: what a uint16_t keeps of it; ser: the payload.
Asked == [dest : Devices, key : Keys, id : WireIds, ser : Serial]
\* A PendingCommand; old: sent_at is more than PENDING_TTL_S ago.
Entry == [cmd : Asked, old : BOOLEAN]
\* An ack line.
Ack == [mac : Devices, id : WireIds, ser : 0..MaxAsked,
        line : {"ok", "timeout", "send_fail"}]
\* A message on <topic>/command_result; ser is 0 when it has no payload.
Result == [topic : Devices, mac : Devices, id : WireIds, ser : 0..MaxAsked,
           line : {"ok", "timeout", "send_fail"}]

ASSUME NothingAssumption == Nothing \notin Asked \cup Ack \cup Devices

VARIABLES
  devices,  \* keys of self.devices
  nextId,   \* self.cmd_id
  pending,  \* self.pending
  at,       \* where each thread is
  size,     \* size of the dictionary a thread iterates over, as it began
  stale,    \* what _expire_pending still has to delete, per thread
  want,     \* the device the message in hand is for
  cmd,      \* the command in hand of the mqtt thread
  ack,      \* the ack in hand of the serial thread
  got,      \* the payload the ack in hand found in pending, or 0
  refused,  \* send_fail lines of the coordinator
  restarts, \* restarts of the bridge so far
  asked,    \* history: commands recorded
  gone,     \* history: commands whose entry was taken, expired or forgotten
  results,  \* history: command_result messages
  issued, open, ran, settled, lost, told  \* the coordinator's, see CommandService

Coordinator == INSTANCE CommandService

service == <<issued, open, ran, settled, lost, told>>
hands   == <<at, size, stale, want, cmd, ack, got>>
vars == <<devices, nextId, pending, hands, refused, restarts, asked, gone, results,
          service>>

TypeOK ==
  /\ devices \subseteq Devices
  /\ nextId \in Keys
  /\ pending \subseteq Entry
  /\ at \in [Threads -> {"idle", "find", "scan", "drop", "dead"}]
  /\ size \in [Threads -> Nat]
  /\ stale \in [Threads -> SUBSET Keys]
  /\ want \in Devices \cup {Nothing}
  /\ cmd \in Asked \cup {Nothing} /\ ack \in Ack \cup {Nothing}
  /\ got \in 0..MaxAsked
  /\ refused \subseteq Ack /\ told \subseteq Ack
  /\ restarts \in 0..MaxRestarts
  /\ asked \subseteq Asked /\ gone \subseteq Serial /\ results \subseteq Result
  /\ issued \cup open \cup ran \cup settled \cup lost \subseteq Coordinator!Command

Init ==
  /\ devices \in SUBSET Devices
  /\ nextId = 1 /\ pending = {}
  /\ at = [t \in Threads |-> "idle"] /\ size = [t \in Threads |-> 0]
  /\ stale = [t \in Threads |-> {}]
  /\ want = Nothing /\ cmd = Nothing /\ ack = Nothing /\ got = 0
  /\ refused = {} /\ restarts = 0 /\ asked = {} /\ gone = {} /\ results = {}
  /\ Coordinator!Init

-----------------------------------------------------------------------------
(* Definitions named <definition>_<Mistake> are faulty variants that a      *)
(* property has to catch; no specification uses them.                       *)

\* Entries leave the table for good.
Remove(E) ==
  /\ pending' = pending \ E
  /\ gone' = gone \cup {e.cmd.ser : e \in E}

\* The mqtt thread drops what it has in hand.
MqttTo(place) ==
  /\ at' = [at EXCEPT !["mqtt"] = place]
  /\ size' = [size EXCEPT !["mqtt"] = 0] /\ stale' = [stale EXCEPT !["mqtt"] = {}]
  /\ want' = Nothing /\ cmd' = Nothing
  /\ UNCHANGED <<ack, got>>

\* The serial thread drops what it has in hand.
SerialToIdle ==
  /\ at' = [at EXCEPT !["serial"] = "idle"]
  /\ size' = [size EXCEPT !["serial"] = 0] /\ stale' = [stale EXCEPT !["serial"] = {}]
  /\ ack' = Nothing /\ got' = 0
  /\ UNCHANGED <<want, cmd>>

\* An exception ends the callback.  The serial loop catches it; paho catches it
\* or lets it end its thread, depending on how it was built.
Raises(t) ==
  \/ t = "mqtt" /\ (MqttTo("idle") \/ MqttTo("dead"))
  \/ t = "serial" /\ SerialToIdle

-----------------------------------------------------------------------------
(* The mqtt thread. *)

\* _on_mqtt_message, a message for d: _find_by_slug begins to iterate.
SetMessage(d) ==
  /\ at["mqtt"] = "idle" /\ Cardinality(asked) < MaxAsked
  /\ at' = [at EXCEPT !["mqtt"] = "find"]
  /\ size' = [size EXCEPT !["mqtt"] = Cardinality(devices)]
  /\ want' = d
  /\ UNCHANGED <<devices, nextId, pending, stale, cmd, ack, got, refused, restarts,
                 asked, gone, results, service>>

\* The serial thread added a device under the iteration.
FindFails ==
  /\ at["mqtt"] = "find" /\ size["mqtt"] # Cardinality(devices)
  /\ Raises("mqtt")
  /\ UNCHANGED <<devices, nextId, pending, refused, restarts, asked, gone, results,
                 service>>

UnknownSlug ==
  /\ at["mqtt"] = "find" /\ want \notin devices
  /\ MqttTo("idle")
  /\ UNCHANGED <<devices, nextId, pending, refused, restarts, asked, gone, results,
                 service>>

\* Faulty: the coordinator would keep the whole id.
Fresh_NoWrap == [dest |-> want, key |-> nextId, id |-> nextId, ser |-> Cardinality(asked) + 1]

\* The next command, as the bridge knows it.
Fresh == [dest |-> want, key |-> nextId, id |-> nextId % IdModulus,
          ser |-> Cardinality(asked) + 1]

\* Faulty: the entry is stored under the counter, which went on already.
Record_NextKey ==
  /\ at["mqtt"] = "find" /\ want \in devices
  /\ cmd' = Fresh
  /\ asked' = asked \cup {Fresh}
  /\ nextId' = nextId + 1
  /\ pending' = pending \cup {[cmd |-> [Fresh EXCEPT !.key = nextId'], old |-> FALSE]}
  /\ at' = [at EXCEPT !["mqtt"] = "scan"]
  /\ size' = [size EXCEPT !["mqtt"] = Cardinality(pending')]
  /\ UNCHANGED <<devices, stale, want, ack, got, refused, restarts, gone, results,
                 service>>

\* The device is found: the command gets its id and is recorded, and
\* _expire_pending begins.
Record ==
  /\ at["mqtt"] = "find" /\ want \in devices
  /\ cmd' = Fresh
  /\ asked' = asked \cup {Fresh}
  /\ nextId' = nextId + 1
  /\ pending' = pending \cup {[cmd |-> Fresh, old |-> FALSE]}
  /\ at' = [at EXCEPT !["mqtt"] = "scan"]
  /\ size' = [size EXCEPT !["mqtt"] = Cardinality(pending')]
  /\ UNCHANGED <<devices, stale, want, ack, got, refused, restarts, gone, results,
                 service>>

\* The command as the coordinator knows it.
Wire(c) == [dest |-> c.dest, id |-> c.id, ser |-> c.ser]

\* _serial_write: the line reaches the coordinator, gets lost, or the coordinator
\* cannot send and says so.
WriteLine ==
  /\ at["mqtt"] = "drop" /\ stale["mqtt"] = {}
  /\ MqttTo("idle")
  /\ \/ /\ Coordinator!Issue(Wire(cmd))
        /\ UNCHANGED refused
     \/ /\ refused' \in {refused, refused \cup {[mac |-> cmd.dest, id |-> cmd.id,
                                                 ser |-> cmd.ser, line |-> "send_fail"]}}
        /\ UNCHANGED service
  /\ UNCHANGED <<devices, nextId, pending, restarts, asked, gone, results>>

-----------------------------------------------------------------------------
(* _expire_pending, on either thread. *)

\* Faulty: the comparison is turned round.
Scan_Young(t) ==
  /\ at[t] = "scan"
  /\ at' = [at EXCEPT ![t] = "drop"]
  /\ stale' = [stale EXCEPT ![t] = {e.cmd.key : e \in {x \in pending : ~x.old}}]
  /\ UNCHANGED <<devices, nextId, pending, size, want, cmd, ack, got, refused,
                 restarts, asked, gone, results, service>>

\* The keys of stale commands are collected.
Scan(t) ==
  /\ at[t] = "scan"
  /\ at' = [at EXCEPT ![t] = "drop"]
  /\ stale' = [stale EXCEPT ![t] = {e.cmd.key : e \in {x \in pending : x.old}}]
  /\ UNCHANGED <<devices, nextId, pending, size, want, cmd, ack, got, refused,
                 restarts, asked, gone, results, service>>

\* The other thread resized pending under the iteration.
ScanFails(t) ==
  /\ at[t] = "scan" /\ size[t] # Cardinality(pending)
  /\ Raises(t)
  /\ UNCHANGED <<devices, nextId, pending, refused, restarts, asked, gone, results,
                 service>>

\* One stale key is deleted.
Drop(t, k) ==
  /\ at[t] = "drop" /\ k \in stale[t]
  /\ \E e \in pending : e.cmd.key = k
  /\ Remove({e \in pending : e.cmd.key = k})
  /\ stale' = [stale EXCEPT ![t] = @ \ {k}]
  /\ UNCHANGED <<devices, nextId, at, size, want, cmd, ack, got, refused, restarts,
                 asked, results, service>>

\* The other thread deleted it meanwhile.
DropFails(t, k) ==
  /\ at[t] = "drop" /\ k \in stale[t]
  /\ \A e \in pending : e.cmd.key # k
  /\ Raises(t)
  /\ UNCHANGED <<devices, nextId, pending, refused, restarts, asked, gone, results,
                 service>>

-----------------------------------------------------------------------------
(* The serial thread. *)

\* Faulty: an ack is taken for the answer to whatever waits.
TakeAck_AnyId(a) ==
  /\ at["serial"] = "idle"
  /\ ack' = a
  /\ \E e \in pending : got' = e.cmd.ser /\ Remove({e})
  /\ at' = [at EXCEPT !["serial"] = IF pending' = {} THEN "drop" ELSE "scan"]
  /\ size' = [size EXCEPT !["serial"] = Cardinality(pending')]
  /\ UNCHANGED <<devices, nextId, stale, want, cmd, refused, restarts, asked, results,
                 service>>

\* Faulty: the entry is looked up and stays.
TakeAck_Get(a) ==
  LET mine == {e \in pending : e.cmd.key = a.id} IN
  /\ at["serial"] = "idle"
  /\ ack' = a
  /\ got' = IF mine = {} THEN 0 ELSE (CHOOSE e \in mine : TRUE).cmd.ser
  /\ at' = [at EXCEPT !["serial"] = "scan"]
  /\ size' = [size EXCEPT !["serial"] = Cardinality(pending)]
  /\ UNCHANGED <<devices, nextId, pending, gone, stale, want, cmd, refused, restarts,
                 asked, results, service>>

\* _on_ack: the entry of that id is taken, then _expire_pending begins.
TakeAck(a) ==
  LET mine == {e \in pending : e.cmd.key = a.id} IN
  /\ at["serial"] = "idle"
  /\ ack' = a
  /\ got' = IF mine = {} THEN 0 ELSE (CHOOSE e \in mine : TRUE).cmd.ser
  /\ Remove(mine)
  /\ at' = [at EXCEPT !["serial"] = IF pending' = {} THEN "drop" ELSE "scan"]
  /\ size' = [size EXCEPT !["serial"] = Cardinality(pending')]
  /\ UNCHANGED <<devices, nextId, stale, want, cmd, refused, restarts, asked, results,
                 service>>

\* The topic of the device the ack names or, if it is not known, of the device
\* the command was for.
Topics ==
  IF ack.mac \in devices THEN {ack.mac}
  ELSE {c.dest : c \in {x \in asked : x.ser = got}}

\* The rest of _on_ack.  An ack nobody can be told of is dropped.
Publish ==
  /\ at["serial"] = "drop" /\ stale["serial"] = {}
  /\ results' = results \cup
       {[topic |-> d, mac |-> ack.mac, id |-> ack.id, ser |-> got, line |-> ack.line]
          : d \in Topics}
  /\ SerialToIdle
  /\ UNCHANGED <<devices, nextId, pending, refused, restarts, asked, gone, service>>

\* _ensure_device, from a device or a state line.
DeviceLine(d) ==
  /\ at["serial"] = "idle"
  /\ devices' = devices \cup {d}
  /\ UNCHANGED <<nextId, pending, hands, refused, restarts, asked, gone, results,
                 service>>

-----------------------------------------------------------------------------
(* Time, restarts, the coordinator. *)

\* A command is open for PENDING_TTL_S.
Ages(e) ==
  /\ ~e.old
  /\ pending' = (pending \ {e}) \cup {[e EXCEPT !.old = TRUE]}
  /\ UNCHANGED <<devices, nextId, hands, refused, restarts, asked, gone, results,
                 service>>

\* The bridge restarts: ids begin again; the registry file may lack devices that
\* only sent state lines.
Restart ==
  /\ restarts < MaxRestarts
  /\ restarts' = restarts + 1
  /\ devices' \in SUBSET devices
  /\ nextId' = 1
  /\ Remove(pending)
  /\ at' = [t \in Threads |-> "idle"] /\ size' = [t \in Threads |-> 0]
  /\ stale' = [t \in Threads |-> {}]
  /\ want' = Nothing /\ cmd' = Nothing /\ ack' = Nothing /\ got' = 0
  /\ UNCHANGED <<refused, asked, results, service>>

CoordinatorStep ==
  /\ \/ \E c \in issued : Coordinator!Run(c)
     \/ \E c \in open : Coordinator!Settle(c)
     \/ \E S \in SUBSET open : Coordinator!GiveUp(S)
     \/ \E c \in ran : Coordinator!TellOk(c)
     \/ \E c \in lost : Coordinator!TellTimeout(c) \/ Coordinator!DropAnswer(c)
     \/ Coordinator!Forget
  /\ UNCHANGED <<devices, nextId, pending, hands, refused, restarts, asked, gone,
                 results>>

Mqtt == (\E d \in Devices : SetMessage(d)) \/ FindFails \/ UnknownSlug \/ Record \/ WriteLine

Expiry(t) == Scan(t) \/ ScanFails(t) \/ \E k \in stale[t] : Drop(t, k) \/ DropFails(t, k)

Next ==
  \/ Mqtt
  \/ \E t \in Threads : Expiry(t)
  \/ \E a \in told \cup refused : TakeAck(a)
  \/ Publish
  \/ \E d \in Devices : DeviceLine(d)
  \/ \E e \in pending : Ages(e)
  \/ Restart
  \/ CoordinatorStep

Spec == Init /\ [][Next]_vars

\* Both threads go on with what they began, and time passes.
FairSpec ==
  /\ Spec
  /\ WF_vars(Expiry("mqtt")) /\ WF_vars(Expiry("serial")) /\ WF_vars(Publish)
  /\ \A k \in Keys : WF_vars(\E e \in pending : e.cmd.key = k /\ Ages(e))

-----------------------------------------------------------------------------
(* Properties. *)

\* No other command has that id, on the wire: the bridge did not restart and
\* begin again, nor did the id wrap around.
Unmistakable(i) == \A c, e \in asked : c.id = i /\ e.id = i => c = e

\* A result never tells another command's story: as long as the id is
\* unmistakable, a result with a payload is about that command and on its
\* device's topic; it says ok only if the device handled the command, timeout
\* only if no acknowledgement settled it.
NoFalseResult ==
  \A r \in results : r.ser # 0 /\ Unmistakable(r.id) =>
    \E c \in asked :
      /\ c.ser = r.ser /\ c.id = r.id /\ c.dest = r.mac /\ c.dest = r.topic
      /\ r.line = "ok" => Wire(c) \in ran
      /\ r.line = "timeout" => Wire(c) \notin settled

\* The answer is never faster than the record: a result lacks its payload only
\* if the entry was spent before (an earlier answer, its age, a restart), or the
\* id is too large for the coordinator.
Spent(i) == \E c \in asked : c.id = i /\ (c.ser \in gone \/ c.key # c.id)

NoOrphan == \A r \in results : r.ser = 0 /\ Unmistakable(r.id) => Spent(r.id)

\* The two threads share out the entries: one whose payload was reported, or is
\* about to be, is not pending any more and cannot be reported again; so no payload
\* comes with two results.
OnceReported ==
  /\ \A e \in pending :
       /\ e.cmd.ser \notin gone /\ e.cmd.ser # got
       /\ \A r \in results : r.ser # e.cmd.ser
  /\ \A r, q \in results : r.ser # 0 /\ r.ser = q.ser => r = q

\* A command that is not stale leaves the table only by its own answer, however
\* the two threads' expiries overlap.
FreshKept ==
  [][restarts' = restarts =>
       \A e \in pending : ~e.old /\ (\A x \in pending' : x.cmd # e.cmd) =>
         ack = Nothing /\ ack' # Nothing /\ ack'.id = e.cmd.key]_vars

\* Nothing leaks: as long as answers of any command are handled to the end again
\* and again, no entry stays for good.
StaleForgotten ==
  []<>(at["serial"] = "drop" /\ stale["serial"] = {}) =>
    \A k \in Keys : []<>(\A e \in pending : e.cmd.key # k)

\* The bridge as CommandResults sees it.
Waiting == {e.cmd : e \in pending}
Taken == {c \in asked : c.ser = got}
Told == {r \in results : r.ser # 0}
Among(W) == {c \in asked : Wire(c) \in W}

Promise == INSTANCE CommandResults WITH
  Commands <- Asked, Lines <- Result, ran <- Among(ran), settled <- Among(settled),
  waiting <- Waiting, taken <- Taken, told <- Told

\* Two threads, a table and a coordinator whose lines come late and twice: together
\* they do what CommandResults promises.
KeepsPromise == Promise!Spec

-----------------------------------------------------------------------------
(***************************************************************************)
(* What these rest on: commands, entries and the coordinator's lines tally. *)
(***************************************************************************)

\* Some command accounts for a line or a result.
Backed(l) ==
  \E c \in asked :
    /\ c.dest = l.mac /\ c.id = l.id
    /\ l.line = "ok" => Wire(c) \in ran
    /\ l.line = "timeout" => Wire(c) \in issued \ (open \cup settled)

\* Commands are numbered through, and each has its entry until it is spent.
AskedBooks ==
  /\ IsFiniteSet(asked) /\ nextId <= Cardinality(asked) + 1
  /\ \A c \in asked : c.ser <= Cardinality(asked) /\ c.id = c.key % IdModulus
  /\ \A c, e \in asked : c.ser = e.ser => c = e
  /\ \A c \in asked : c.ser \in gone \/ \E e \in pending : e.cmd = c
  /\ \A s \in gone : \E c \in asked : c.ser = s

PendingBooks ==
  /\ IsFiniteSet(pending)
  /\ \A e \in pending : e.cmd \in asked /\ e.cmd.ser \notin gone /\ e.cmd.key < nextId
  /\ \A e, x \in pending : e.cmd.key = x.cmd.key => e = x
  /\ \A t \in Threads : \A k \in stale[t] :
       k < nextId /\ \A e \in pending : e.cmd.key = k => e.old

\* No command of the coordinator is in two states.
ServiceBooks ==
  /\ \A w \in issued : \E c \in asked : w = Wire(c)
  /\ open \cup ran \cup settled \cup lost \subseteq issued
  /\ open \cap settled = {} /\ open \cap lost = {} /\ settled \cap lost = {}
  /\ \A l \in told \cup refused : Backed(l)

HandBooks ==
  /\ at["mqtt"] \in {"scan", "drop"} => cmd \in asked
  /\ at["mqtt"] = "find" => want # Nothing /\ Cardinality(asked) < MaxAsked
  /\ at["serial"] \in {"scan", "drop"} <=> ack # Nothing
  /\ ack = Nothing => got = 0
  /\ ack # Nothing => Backed(ack) /\ (got = 0 /\ Unmistakable(ack.id) => Spent(ack.id))
  /\ got # 0 =>
       /\ got \in gone /\ \A r \in results : r.ser # got
       /\ \E c \in asked : c.ser = got /\ c.key = ack.id

ResultBooks ==
  /\ NoOrphan
  /\ \A r, q \in results : r.ser # 0 /\ r.ser = q.ser => r = q
  /\ \A r \in results :
       /\ Backed(r)
       /\ r.ser # 0 => /\ r.ser \in gone
                       /\ \E c \in asked : c.ser = r.ser /\ c.key = r.id
                                            /\ r.topic \in {r.mac, c.dest}

CommandBooks == AskedBooks /\ PendingBooks /\ ServiceBooks /\ HandBooks /\ ResultBooks
=============================================================================
