----------------------------- MODULE BridgeDevices -----------------------------
(***************************************************************************)
(* What the bridge (__main__.py) knows of the devices and tells the broker *)
(* and its registry file: names and slugs, capabilities, Home Assistant    *)
(* discovery, availability.                                                *)
(*                                                                         *)
(* The serial thread handles device and state lines one after another;     *)
(* paho's network thread walks over all devices whenever it (re)connects.  *)
(* Both run _publish_discovery on the same Device objects, without a lock. *)
(* Publishes are QoS 0 and their result is ignored: while the link to the  *)
(* broker is down they are lost, and the bridge does not know.  The link   *)
(* is no variable: any publish may be lost, up to a bound.                 *)
(***************************************************************************)
EXTENDS Naturals, FiniteSets

CONSTANTS
  Devices,
  Caps,         \* capabilities a device can state
  Basic,        \* those discovery and guessing know, each by a key of its name
  Models,
  DefaultModel, \* of a device that has not told its model
  ModelCaps,    \* what a model's name suggests
  Names,        \* the names each device can have
  Unnamed,      \* no name, or not told
  MaxTroubles,  \* bound of the model: restarts and lost publishes
  Nothing       \* no line, draft or model

ASSUME DevicesAssumption ==
  /\ IsFiniteSet(Devices) /\ MaxTroubles \in Nat
  /\ Basic \subseteq Caps
  /\ DefaultModel \in Models /\ ModelCaps \in [Models -> SUBSET Caps]

\* The user gives no two devices one name: they would share all their topics,
\* which the model keeps by device.
ASSUME NamesAssumption ==
  /\ DOMAIN Names = Devices
  /\ \A d \in Devices : Unnamed \notin Names[d] /\ Names[d] \cap Devices = {}
  /\ \A d, e \in Devices : Names[d] \cap Names[e] # {} => d = e
  /\ Unnamed \notin Devices

AllNames == UNION {Names[d] : d \in Devices}
Words == {"none", "online", "offline"}
Threads == {"mqtt", "serial"}
\* discovery_sig: what was last published for a device.
Sig == [caps : SUBSET Caps, model : Models]
Blank == [caps |-> {}, model |-> DefaultModel]

\* A Device; stated is the "caps" of last_state, and keys are its keys of
\* capabilities, of use as long as there is no such list.  sig is Blank and discovered FALSE before the first discovery.
Device == [name : AllNames \cup {Unnamed}, model : Models, online : BOOLEAN,
           caps : SUBSET Caps, keys : SUBSET Basic, stated : SUBSET Caps,
           discovered : BOOLEAN, sig : Sig]
NewDevice == [name |-> Unnamed, model |-> DefaultModel, online |-> FALSE, caps |-> {},
              keys |-> {}, stated |-> {}, discovered |-> FALSE, sig |-> Blank]
\* An entry of devices.json.
Saved == [mac : Devices, name : AllNames \cup {Unnamed}, model : Models]
\* A retained discovery configuration.
Config == [mac : Devices, cap : Basic]
\* A line being handled: a device line's event or a state line, before and after
\* its payload was merged.
Line == [mac : Devices, kind : {"online", "offline", "info", "state", "merged"},
         keys : SUBSET Basic, caps : SUBSET Caps]
\* What _publish_discovery has read; empty: the device had no capabilities.
Draft == [mac : Devices, caps : SUBSET Caps, empty : BOOLEAN, model : Models]

ASSUME NothingAssumption == Nothing \notin Line \cup Draft \cup Models

VARIABLES
  ha,        \* self.ha_discovery
  known,     \* keys of self.devices
  dev,       \* self.devices; NewDevice for those not in it
  file,      \* devices.json
  at,        \* where each thread is
  line,      \* the line the serial thread handles
  draft,     \* what a thread's _publish_discovery has read
  todo,      \* devices _on_mqtt_connect has still to walk over
  size,      \* size of self.devices when it began
  config,    \* the broker: retained discovery configurations
  avail,     \* the broker: <slug>/availability retained under the present slug
  troubles,  \* counter of the model's bound
  told,      \* history: devices whose last availability reached their slug's topic
  missed,    \* history: configurations whose last publish was lost
  unsaved    \* history: the last save failed

hands == <<at, line, draft, todo, size>>
history == <<told, missed, unsaved>>
vars  == <<ha, known, dev, file, hands, config, avail, troubles, history>>

TypeOK ==
  /\ ha \in BOOLEAN /\ unsaved \in BOOLEAN
  /\ known \subseteq Devices /\ dev \in [Devices -> Device]
  /\ file \subseteq Saved
  /\ at \in [Threads -> {"idle", "read", "sign", "announce", "tell", "merge", "save",
                         "walk", "dead"}]
  /\ line \in Line \cup {Nothing}
  /\ draft \in [Threads -> Draft \cup {Nothing}]
  /\ todo \subseteq Devices /\ size \in Nat
  /\ config \subseteq Config
  /\ avail \in [Devices -> Words]
  /\ troubles \in 0..MaxTroubles
  /\ told \subseteq Devices /\ missed \subseteq Config

Init ==
  /\ ha \in BOOLEAN
  /\ known = {} /\ dev = [d \in Devices |-> NewDevice] /\ file = {}
  /\ at = [t \in Threads |-> "idle"] /\ line = Nothing
  /\ draft = [t \in Threads |-> Nothing] /\ todo = {} /\ size = 0
  /\ config = {} /\ avail = [d \in Devices |-> "none"] /\ troubles = 0
  /\ told = {} /\ missed = {} /\ unsaved = FALSE

Trouble == troubles < MaxTroubles /\ troubles' = troubles + 1

-----------------------------------------------------------------------------
(* Definitions named <definition>_<Mistake> are faulty variants that a      *)
(* property has to catch; no specification uses them.                       *)

\* Under a new name a device has a new slug and new topics: what is retained there
\* is whatever was published under that name before.
Topics ==
  {a \in [Devices -> Words] : \A d \in Devices : dev'[d].name = dev[d].name => a[d] = avail[d]}

\* _parse_caps: the stated list, or the keys, or else what the model's name suggests.
Guess(stated, keys, model) ==
  IF stated # {} THEN stated ELSE IF keys # {} THEN keys ELSE ModelCaps[model]

\* Faulty: a guess replaces what the device stated.
Folded_Replace(d, caps, keys) ==
  LET guess == Guess(caps, keys, dev[d].model) IN
  IF guess # {} THEN guess ELSE dev[d].caps

\* _update_caps: a stated list replaces what was known, a guess adds to it.
Folded(d, caps, keys) ==
  IF caps # {} THEN caps ELSE dev[d].caps \cup Guess({}, keys, dev[d].model)

\* Faulty: the signature is the model's.
Signature_ModelOnly(caps, model) == [caps |-> {}, model |-> model]

Signature(caps, model) == [caps |-> caps, model |-> model]

\* Faulty: every capability gets a configuration.
Announced_All(caps) == caps

Announced(caps) == caps \cap Basic

At(t, place) == at' = [at EXCEPT ![t] = place]

\* Where the serial thread goes on after _publish_discovery.
After == [online |-> "tell", info |-> "save", state |-> "tell", merged |-> "idle"]

\* _publish_discovery returns.
Return(t) ==
  /\ draft' = [draft EXCEPT ![t] = Nothing]
  /\ IF t = "mqtt" THEN At(t, "walk") /\ UNCHANGED line
     ELSE /\ At(t, After[line.kind])
          /\ line' = IF line.kind = "merged" THEN Nothing ELSE line

-----------------------------------------------------------------------------
(* _publish_discovery, on either thread. *)

\* The device, discovered under a signature.
Marked(d, sig) == [dev[d] EXCEPT !.discovered = TRUE, !.sig = sig]

\* Turned off, it only marks the device; otherwise it reads slug and
\* capabilities, and guesses these if there are none.
Reads(t, d) ==
  \/ /\ ~ha
     /\ dev' = [dev EXCEPT ![d] = Marked(d, dev[d].sig)]
     /\ Return(t)
  \/ /\ ha
     /\ draft' = [draft EXCEPT ![t] =
          [mac |-> d, empty |-> dev[d].caps = {}, model |-> dev[d].model,
           caps |-> IF dev[d].caps = {}
                    THEN Guess(dev[d].stated, dev[d].keys, dev[d].model)
                    ELSE dev[d].caps]]
     /\ At(t, "sign")
     /\ UNCHANGED <<dev, line>>

\* The guess is stored; nothing is published again under the same signature.
Sign(t) ==
  LET d   == draft[t].mac
      now == [dev[d] EXCEPT !.caps = IF draft[t].empty THEN draft[t].caps ELSE @]
  IN
  /\ at[t] = "sign"
  /\ dev' = [dev EXCEPT ![d] = now]
  /\ \/ /\ now.discovered /\ now.sig = Signature(draft[t].caps, now.model)
        /\ Return(t)
     \/ /\ ~(now.discovered /\ now.sig = Signature(draft[t].caps, now.model))
        /\ draft' = [draft EXCEPT ![t].model = now.model]
        /\ At(t, "announce")
        /\ UNCHANGED line
  /\ UNCHANGED <<ha, known, file, todo, size, config, avail, troubles, history>>

\* The configurations are published, all or, if the link is down or breaks on the
\* way, all but some that are lost; then the device is marked under the signature.
Publishes(t, sig) ==
  LET all == {[mac |-> draft[t].mac, cap |-> c] : c \in Announced(draft[t].caps)} IN
  /\ at[t] = "announce"
  /\ \E lost \in SUBSET all :
       /\ IF lost = {} THEN UNCHANGED troubles ELSE Trouble
       /\ config' = config \cup (all \ lost)
       /\ missed' = (missed \cup lost) \ config'
  /\ dev' = [dev EXCEPT ![draft[t].mac] = Marked(draft[t].mac, sig)]
  /\ Return(t)
  /\ UNCHANGED <<ha, known, file, todo, size, avail, told, unsaved>>

\* Faulty: the signature is taken from the device when all is published.
Announce_Late(t) == Publishes(t, Signature(dev[draft[t].mac].caps, draft[t].model))

Announce(t) == Publishes(t, Signature(draft[t].caps, draft[t].model))

-----------------------------------------------------------------------------
(* The serial thread. *)

\* The device after a device line: name and model are kept unless the line has them.
Updated(d, name, model, kind) ==
  [dev[d] EXCEPT !.name = IF name = Unnamed THEN dev[d].name ELSE name,
                 !.model = IF model = Nothing THEN dev[d].model ELSE model,
                 !.online = kind = "online" \/ (dev[d].online /\ kind # "offline")]

\* _on_device_event.
DeviceLine(d, name, model, kind) ==
  /\ at["serial"] = "idle"
  /\ known' = known \cup {d}
  /\ dev' = [dev EXCEPT ![d] = Updated(d, name, model, kind)]
  /\ line' = [mac |-> d, kind |-> kind, keys |-> {}, caps |-> {}]
  /\ At("serial", IF kind = "offline" THEN "tell"
                  ELSE IF kind = "info" /\ dev[d].discovered THEN "save" ELSE "read")
  /\ avail' \in Topics
  /\ told' = {x \in told : dev'[x].name = dev[x].name}
  /\ UNCHANGED <<ha, file, draft, todo, size, config, troubles, missed, unsaved>>

\* The device after a state line.
Reported(d, caps) ==
  [dev[d] EXCEPT !.caps = caps, !.online = TRUE,
                 !.discovered = dev[d].discovered /\ caps = dev[d].caps]

\* Faulty: the device is marked online before it is asked whether it was.
StateLine_NeverTells(d, caps, keys) ==
  /\ at["serial"] = "idle"
  /\ known' = known \cup {d}
  /\ dev' = [dev EXCEPT ![d] = Reported(d, Folded(d, caps, keys))]
  /\ line' = [mac |-> d, kind |-> "state", keys |-> keys, caps |-> caps]
  /\ At("serial", "merge")
  /\ UNCHANGED <<ha, file, draft, todo, size, config, avail, troubles, history>>

\* _on_state: the capabilities are folded in, and whoever reports is online.
StateLine(d, caps, keys) ==
  /\ at["serial"] = "idle"
  /\ known' = known \cup {d}
  /\ dev' = [dev EXCEPT ![d] = Reported(d, Folded(d, caps, keys))]
  /\ line' = [mac |-> d, kind |-> "state", keys |-> keys, caps |-> caps]
  /\ At("serial", IF dev[d].online THEN "merge" ELSE "read")
  /\ UNCHANGED <<ha, file, draft, todo, size, config, avail, troubles, history>>

Discover ==
  /\ at["serial"] = "read"
  /\ Reads("serial", line.mac)
  /\ UNCHANGED <<ha, known, file, todo, size, config, avail, troubles, history>>

\* <slug>/availability is published, or lost.
Tell ==
  LET d == line.mac
      word == IF line.kind = "offline" THEN "offline" ELSE "online"
  IN
  /\ at["serial"] = "tell"
  /\ \/ /\ avail' = [avail EXCEPT ![d] = word] /\ told' = told \cup {d}
        /\ UNCHANGED troubles
     \/ /\ Trouble /\ UNCHANGED avail
        /\ told' = {x \in told : x = d => avail[d] = word}
  /\ At("serial", IF line.kind = "state" THEN "merge" ELSE "save")
  /\ UNCHANGED <<ha, known, dev, file, line, draft, todo, size, config, troubles, missed,
                 unsaved>>

\* last_state after the payload was merged; with a list of capabilities in it,
\* nobody asks for its keys.
Merged(d) ==
  LET stated == IF dev[d].caps # {} THEN dev[d].caps
                ELSE IF line.caps # {} THEN line.caps ELSE dev[d].stated
  IN  [dev[d] EXCEPT !.stated = stated,
                     !.keys = IF stated # {} THEN {} ELSE @ \cup line.keys]

\* The rest of _on_state: the payload is merged, and the discovery made up for.
Merge ==
  LET d == line.mac IN
  /\ at["serial"] = "merge"
  /\ dev' = [dev EXCEPT ![d] = Merged(d)]
  /\ IF dev[d].discovered
     THEN At("serial", "idle") /\ line' = Nothing
     ELSE /\ At("serial", "read")
          /\ line' = [line EXCEPT !.kind = "merged", !.keys = {}, !.caps = {}]
  /\ UNCHANGED <<ha, known, file, draft, todo, size, config, avail, troubles, history>>

Entry(d) == [mac |-> d, name |-> dev[d].name, model |-> dev[d].model]

\* Faulty: only the devices that are online are saved.
Save_Online ==
  /\ at["serial"] = "save"
  /\ file' = {Entry(d) : d \in {x \in known : dev[x].online}}
  /\ unsaved' = FALSE
  /\ At("serial", "idle") /\ line' = Nothing
  /\ UNCHANGED <<ha, known, dev, draft, todo, size, config, avail, troubles,
                 told, missed>>

\* _save_devices.
Save ==
  /\ at["serial"] = "save"
  /\ file' = {Entry(d) : d \in known}
  /\ unsaved' = FALSE
  /\ At("serial", "idle") /\ line' = Nothing
  /\ UNCHANGED <<ha, known, dev, draft, todo, size, config, avail, troubles,
                 told, missed>>

\* mkdir or open fails and the old file stays; or write_text, which cuts the file off
\* before it writes, and the file is unreadable.  The serial loop catches either.
SaveFails ==
  /\ at["serial"] = "save"
  /\ file' \in {file, {}} /\ unsaved' = TRUE
  /\ At("serial", "idle") /\ line' = Nothing
  /\ UNCHANGED <<ha, known, dev, draft, todo, size, config, avail, troubles,
                 told, missed>>

-----------------------------------------------------------------------------
(* The mqtt thread: _on_mqtt_connect. *)

Connect ==
  /\ at["mqtt"] = "idle"
  /\ At("mqtt", "walk")
  /\ todo' = known /\ size' = Cardinality(known)
  /\ UNCHANGED <<ha, known, dev, file, line, draft, config, avail, troubles, history>>

Walk(d) ==
  /\ at["mqtt"] = "walk" /\ size = Cardinality(known) /\ d \in todo
  /\ todo' = todo \ {d}
  /\ Reads("mqtt", d)
  /\ UNCHANGED <<ha, known, file, size, config, avail, troubles, history>>

\* All devices were visited, or the serial thread added one under the iteration:
\* paho goes on or ends its thread, depending on how it was built.
WalkEnds ==
  /\ at["mqtt"] = "walk"
  /\ \/ size = Cardinality(known) /\ todo = {} /\ At("mqtt", "idle")
     \/ size # Cardinality(known) /\ (At("mqtt", "idle") \/ At("mqtt", "dead"))
  /\ todo' = {} /\ size' = 0
  /\ UNCHANGED <<ha, known, dev, file, line, draft, config, avail, troubles, history>>

-----------------------------------------------------------------------------
\* The bridge restarts, perhaps while it writes the file; _load_devices reads what
\* is there, and nothing from a file that was cut off.
Restart ==
  /\ Trouble
  /\ file' \in {file} \cup {x \in {{}} : at["serial"] = "save"}
  /\ known' = {r.mac : r \in file'}
  /\ dev' = [d \in Devices |->
       IF d \notin known' THEN NewDevice
       ELSE LET r == CHOOSE x \in file' : x.mac = d
            IN  [NewDevice EXCEPT !.name = r.name, !.model = r.model]]
  /\ at' = [t \in Threads |-> "idle"] /\ line' = Nothing
  /\ draft' = [t \in Threads |-> Nothing] /\ todo' = {} /\ size' = 0
  /\ told' = {} /\ missed' = {} /\ unsaved' = FALSE
  /\ avail' \in Topics
  /\ UNCHANGED <<ha, config>>

Begins ==
  \E d \in Devices :
    \/ \E name \in Names[d] \cup {Unnamed}, model \in Models \cup {Nothing},
          kind \in {"online", "offline", "info"} : DeviceLine(d, name, model, kind)
    \/ \E caps \in SUBSET Caps, keys \in SUBSET Basic :
          (caps # {} => keys = {}) /\ StateLine(d, caps, keys)

GoesOn ==
  \/ Discover \/ Sign("serial") \/ Announce("serial")
  \/ Tell \/ Merge \/ Save \/ SaveFails

Mqtt ==
  \/ Connect \/ (\E d \in todo : Walk(d)) \/ WalkEnds
  \/ Sign("mqtt") \/ Announce("mqtt")

Next == Begins \/ GoesOn \/ Mqtt \/ Restart

Spec == Init /\ [][Next]_vars

\* The serial thread finishes the line it handles.
FairSpec == Spec /\ WF_vars(GoesOn)

-----------------------------------------------------------------------------
(* Properties. *)

Configured(d) == {c.cap : c \in {x \in config : x.mac = d}}
Missed(d) == {c.cap : c \in {x \in missed : x.mac = d}}

\* discovery_sig never claims more than was published, whichever thread ran
\* _publish_discovery: what it holds back is on the broker, or its publish was lost
\* (no reconnection makes up for that).
SigHonest == \A d \in known : dev[d].sig.caps \cap Basic \subseteq Configured(d) \cup Missed(d)

\* Between two lines, the registry file has every name and model the bridge
\* knows, unless the last save failed: a restart changes no slug.
NamesOnFile ==
  at["serial"] = "idle" /\ ~unsaved =>
    \A d \in known : dev[d].name # Unnamed \/ dev[d].model # DefaultModel => Entry(d) \in file

\* Between two lines, a device's availability topic says what the bridge knows, if
\* the last publish got through and the name, and so the slug, is still the same.
AvailTells ==
  at["serial"] = "idle" =>
    \A d \in known : d \in told =>
      avail[d] = IF dev[d].online THEN "online" ELSE "offline"

\* A capability is not lost to a guess for good: once the lists a device states all
\* have it, they go on to come and the bridge stays connected, it stays, although
\* _publish_discovery on the mqtt thread may overwrite the capabilities with a guess
\* it made before (and does so again with every reconnect that races a line).
States(d, caps) == \E keys \in SUBSET Basic : StateLine(d, caps, keys)

CapsSettle ==
  \A d \in Devices, c \in Caps :
    (/\ <>[][~Connect]_vars
     /\ <>[][(\E F \in SUBSET Caps : States(d, F)) =>
               \E F \in SUBSET Caps : (F = {} \/ c \in F) /\ States(d, F)]_vars
     /\ []<><<\E F \in SUBSET Caps : c \in F /\ States(d, F)>>_vars)
    => <>[](c \in dev[d].caps)

\* Discovery catches up with the capabilities: one that stays gets published, and is
\* on the broker unless that publish was lost, if the device comes online again and
\* again, although the mqtt thread may mark the device as discovered right after it
\* got the capability.
CatchesUp ==
  ha => \A d \in Devices, c \in Basic :
    (/\ <>[](c \in dev[d].caps)
     /\ []<>(at["serial"] = "read" /\ line.mac = d /\ line.kind = "online"))
    => <>(c \in Configured(d) \cup Missed(d))

-----------------------------------------------------------------------------
(* What these rest on. *)

\* What the serial thread has in hand fits to where it is.
HandBooks ==
  /\ at["serial"] = "idle" <=> line = Nothing
  /\ at["serial"] = "merge" => line.kind = "state"
  /\ at["serial"] = "tell" => line.kind \in {"online", "offline", "state"}
  /\ at["serial"] = "save" => line.kind \in {"online", "offline", "info"}
  /\ at["serial"] \in {"read", "sign", "announce"} => line.kind # "offline"
  /\ at["serial"] \notin {"walk", "dead"} /\ at["mqtt"] \notin {"read", "tell", "merge", "save"}
  /\ line # Nothing /\ line.kind \in {"online", "state", "merged"} => dev[line.mac].online
  /\ line # Nothing /\ line.kind = "offline" => ~dev[line.mac].online
  /\ \A t \in Threads : at[t] \in {"sign", "announce"} <=> draft[t] # Nothing

\* Names are the devices' own, and what is known by a state line only has none.
NameBooks ==
  /\ \A d \in Devices : dev[d].name \in Names[d] \cup {Unnamed}
  /\ \A d \in Devices \ known : dev[d].name = Unnamed /\ dev[d].model = DefaultModel
  /\ \A r \in file : r.name \in Names[r.mac] \cup {Unnamed}
  /\ ~unsaved /\ (line = Nothing \/ line.kind \in {"state", "merged"}) =>
       \A d \in known : dev[d].name # Unnamed \/ dev[d].model # DefaultModel => Entry(d) \in file

\* A topic is behind only while its device's line is handled.
TellBooks ==
  \A d \in told :
    \/ avail[d] = IF dev[d].online THEN "online" ELSE "offline"
    \/ line # Nothing /\ line.mac = d /\ line.kind \in {"online", "offline", "state"}
       /\ at["serial"] \in {"read", "sign", "announce", "tell"}

SignatureBooks ==
  \A d \in Devices : dev[d].sig.caps \cap Basic \subseteq Configured(d) \cup Missed(d)

DeviceBooks == HandBooks /\ NameBooks /\ TellBooks /\ SignatureBooks
=============================================================================
