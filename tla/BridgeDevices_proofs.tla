------------------------- MODULE BridgeDevices_proofs -------------------------
(***************************************************************************)
(* Theorems about BridgeDevices: what the bridge remembers of its devices  *)
(* and has told the broker holds whichever thread ran _publish_discovery.  *)
(***************************************************************************)
EXTENDS BridgeDevices, FiniteSetTheorems, TLAPS

USE DEF Threads, history

Sound == TypeOK /\ DeviceBooks

\* The assumptions in the form the provers use.
LEMMA Constants ==
  /\ MaxTroubles \in Nat /\ Basic \subseteq Caps /\ DefaultModel \in Models
  /\ \A m \in Models : ModelCaps[m] \subseteq Caps
  /\ Nothing \notin Line /\ Nothing \notin Draft /\ Nothing \notin Models
  /\ \A d \in Devices : Names[d] \subseteq AllNames /\ Unnamed \notin Names[d]
  /\ \A d \in Devices : Names[d] \cap Devices = {}
  /\ \A d, e \in Devices : Names[d] \cap Names[e] # {} => d = e
BY DevicesAssumption, NamesAssumption, NothingAssumption DEF AllNames

\* A new device is one.
LEMMA NewDeviceType == NewDevice \in Device
BY Constants DEF NewDevice, Device, Blank, Sig

\* Trouble is counted up to its bound.
LEMMA TroubleType == ASSUME TypeOK, Trouble PROVE troubles' \in 0..MaxTroubles
<1>1. troubles \in Nat /\ troubles < MaxTroubles /\ troubles' = troubles + 1
  BY DEF TypeOK, Trouble
<1>2. QED
  BY <1>1, Constants

\* A marked device is one.
LEMMA MarkedType ==
  ASSUME TypeOK, NEW d \in Devices, NEW g \in Sig PROVE Marked(d, g) \in Device
<1>1. dev[d] \in Device
  BY DEF TypeOK
<1>2. QED
  BY <1>1 DEF Marked, Device

\* What folding and guessing yield are capabilities.
LEMMA FoldedType ==
  ASSUME TypeOK, NEW d \in Devices, NEW caps \in SUBSET Caps, NEW keys \in SUBSET Basic
  PROVE  Folded(d, caps, keys) \in SUBSET Caps
<1>1. dev[d].caps \subseteq Caps /\ dev[d].model \in Models
  BY DEF TypeOK, Device
<1>2. QED
  BY <1>1, Constants DEF Folded, Guess

\* A step of _publish_discovery that ends keeps the types.
LEMMA ReturnType ==
  ASSUME TypeOK, HandBooks, NEW t \in Threads, t = "serial" => line # Nothing /\ line.kind # "offline",
         Return(t)
  PROVE  /\ at' \in [Threads -> {"idle", "read", "sign", "announce", "tell", "merge", "save",
                                 "walk", "dead"}]
         /\ line' \in Line \cup {Nothing} /\ draft' \in [Threads -> Draft \cup {Nothing}]
<1>1. CASE t = "mqtt"
  BY <1>1 DEF Return, At, TypeOK
<1>2. CASE t = "serial"
  <2>1. line.kind \in {"online", "info", "state", "merged"}
    BY <1>2 DEF TypeOK, Line
  <2>2. After[line.kind] \in {"tell", "save", "idle"}
    BY <2>1 DEF After
  <2>3. QED
    BY <1>2, <2>2 DEF Return, At, TypeOK
<1>3. QED
  BY <1>1, <1>2

\* _publish_discovery begins.
LEMMA ReadsType ==
  ASSUME TypeOK, HandBooks, NEW t \in Threads, NEW d \in Devices,
         t = "serial" => line # Nothing /\ line.kind # "offline", Reads(t, d)
  PROVE  /\ at' \in [Threads -> {"idle", "read", "sign", "announce", "tell", "merge", "save",
                                 "walk", "dead"}]
         /\ line' \in Line \cup {Nothing} /\ draft' \in [Threads -> Draft \cup {Nothing}]
         /\ dev' \in [Devices -> Device]
<1>1. CASE ~ha
  <2>1. Marked(d, dev[d].sig) \in Device
    <3>1. dev[d].sig \in Sig
      BY DEF TypeOK, Device
    <3>2. QED
      BY <3>1, MarkedType
  <2>2. QED
    BY <1>1, <2>1, ReturnType DEF Reads, TypeOK
<1>2. CASE ha
  <2> DEFINE new == [mac |-> d, empty |-> dev[d].caps = {}, model |-> dev[d].model,
                     caps |-> IF dev[d].caps = {} THEN Guess(dev[d].stated, dev[d].keys, dev[d].model)
                              ELSE dev[d].caps]
  <2>1. dev[d].caps \subseteq Caps /\ dev[d].model \in Models /\ dev[d].keys \subseteq Basic
        /\ dev[d].stated \subseteq Caps
    BY DEF TypeOK, Device
  <2>2. Guess(dev[d].stated, dev[d].keys, dev[d].model) \subseteq Caps
    BY <2>1, Constants DEF Guess
  <2>3. new \in Draft
    BY <2>1, <2>2 DEF Draft
  <2>4. draft' = [draft EXCEPT ![t] = new] /\ at' = [at EXCEPT ![t] = "sign"]
        /\ UNCHANGED <<dev, line>>
    BY <1>2 DEF Reads, At
  <2> HIDE DEF new
  <2>5. QED
    BY <2>3, <2>4 DEF TypeOK
<1>3. QED
  BY <1>1, <1>2 DEF TypeOK

\* The initial states have their types.
LEMMA InitType == Init => TypeOK
<1> SUFFICES ASSUME Init PROVE TypeOK
  OBVIOUS
<1>1. 0 \in 0..MaxTroubles
  BY Constants
<1>2. avail \in [Devices -> Words] /\ dev \in [Devices -> Device]
  BY NewDeviceType DEF Init, Words
<1>3. /\ at \in [Threads -> {"idle", "read", "sign", "announce", "tell", "merge", "save",
                            "walk", "dead"}]
      /\ draft \in [Threads -> Draft \cup {Nothing}]
  BY DEF Init
<1>4. QED
  BY <1>1, <1>2, <1>3 DEF Init, TypeOK

\* Every step keeps the types.
LEMMA NextType == Sound /\ [Next]_vars => TypeOK'
<1> SUFFICES ASSUME Sound, [Next]_vars PROVE TypeOK'
  OBVIOUS
<1> USE DEF Sound, DeviceBooks
<1>1. ASSUME NEW d \in Devices, NEW name \in Names[d] \cup {Unnamed},
             NEW model \in Models \cup {Nothing}, NEW kind \in {"online", "offline", "info"},
             DeviceLine(d, name, model, kind)
      PROVE  TypeOK'
  <2>1. name \in AllNames \cup {Unnamed} /\ (model # Nothing => model \in Models)
    BY Constants
  <2>2. dev' \in [Devices -> Device]
    <3>1. Updated(d, name, model, kind) \in Device
      <4>1. dev[d] \in Device
        BY DEF TypeOK
      <4>2. (kind = "online" \/ (dev[d].online /\ kind # "offline")) \in BOOLEAN
        OBVIOUS
      <4>3. QED
        BY <2>1, <4>1, <4>2 DEF Updated, Device
    <3>2. QED
      BY <1>1, <3>1 DEF DeviceLine, TypeOK
  <2>3. line' \in Line
    BY <1>1 DEF DeviceLine, Line
  <2>4. avail' \in [Devices -> Words]
    BY <1>1 DEF DeviceLine, Topics
  <2>5. QED
    BY <1>1, <2>2, <2>3, <2>4 DEF DeviceLine, At, TypeOK
<1>2. ASSUME NEW d \in Devices, NEW caps \in SUBSET Caps, NEW keys \in SUBSET Basic,
             StateLine(d, caps, keys)
      PROVE  TypeOK'
  <2>1. Folded(d, caps, keys) \in SUBSET Caps
    BY FoldedType
  <2>2. dev' \in [Devices -> Device]
    <3>1. \A c \in SUBSET Caps : Reported(d, c) \in Device
      <4>1. dev[d] \in Device
        BY DEF TypeOK
      <4>2. QED
        BY <4>1 DEF Reported, Device
    <3>2. QED
      BY <1>2, <2>1, <3>1 DEF StateLine, TypeOK
  <2>3. line' \in Line
    BY <1>2 DEF StateLine, Line
  <2>4. QED
    BY <1>2, <2>2, <2>3 DEF StateLine, At, TypeOK
<1>3. CASE Discover
  <2>1. line # Nothing /\ line.kind # "offline" /\ line.mac \in Devices
    BY <1>3 DEF Discover, HandBooks, TypeOK, Line
  <2>2. QED
    BY <1>3, <2>1, ReadsType DEF Discover, TypeOK
<1>4. ASSUME NEW t \in Threads, Sign(t) PROVE TypeOK'
  <2>1. draft[t] \in Draft /\ (t = "serial" => line # Nothing /\ line.kind # "offline")
    BY <1>4 DEF Sign, HandBooks, TypeOK
  <2>2. dev' \in [Devices -> Device]
    BY <1>4, <2>1 DEF Sign, TypeOK, Device, Draft
  <2>3. CASE Return(t)
    BY <1>4, <2>1, <2>2, <2>3, ReturnType DEF Sign, TypeOK
  <2>4. CASE ~Return(t)
    <3>1. draft[t].mac \in Devices
      BY <2>1 DEF Draft
    <3>2. PICK m \in Models : draft' = [draft EXCEPT ![t].model = m]
      BY <1>4, <2>1, <2>4, <3>1 DEF Sign, TypeOK, Device
    <3>3. [draft[t] EXCEPT !.model = m] \in Draft
      BY <2>1 DEF Draft
    <3>4. draft' \in [Threads -> Draft \cup {Nothing}]
      BY <3>2, <3>3 DEF TypeOK
    <3>5. QED
      BY <1>4, <2>2, <2>4, <3>4 DEF Sign, At, TypeOK
  <2>5. QED
    BY <2>3, <2>4
<1>5. ASSUME NEW t \in Threads, Announce(t) PROVE TypeOK'
  <2> DEFINE all == {[mac |-> draft[t].mac, cap |-> c] : c \in Announced(draft[t].caps)}
  <2>1. draft[t] \in Draft /\ (t = "serial" => line # Nothing /\ line.kind # "offline")
    BY <1>5 DEF Announce, Publishes, HandBooks, TypeOK
  <2>2. Signature(draft[t].caps, draft[t].model) \in Sig
    BY <2>1 DEF Signature, Sig, Draft
  <2>3. dev' \in [Devices -> Device]
    BY <1>5, <2>2, MarkedType DEF Announce, Publishes, TypeOK
  <2>4. all \subseteq Config
    BY <2>1 DEF Config, Draft, Announced
  <2>5. PICK lost \in SUBSET all : /\ IF lost = {} THEN UNCHANGED troubles ELSE Trouble
                                  /\ config' = config \cup (all \ lost)
                                  /\ missed' = (missed \cup lost) \ config'
    BY <1>5 DEF Announce, Publishes
  <2> HIDE DEF all
  <2>6. config' \subseteq Config /\ missed' \subseteq Config
    BY <2>4, <2>5 DEF TypeOK
  <2>7. troubles' \in 0..MaxTroubles
    BY <2>5, TroubleType DEF TypeOK
  <2>8. QED
    BY <1>5, <2>1, <2>3, <2>6, <2>7, ReturnType DEF Announce, Publishes, TypeOK
<1>6. CASE Tell
  <2>1. line \in Line
    BY <1>6 DEF Tell, HandBooks, TypeOK
  <2>2. troubles' \in 0..MaxTroubles
    BY <1>6, TroubleType DEF Tell, TypeOK
  <2>3. avail' \in [Devices -> Words] /\ told' \subseteq Devices
    BY <1>6, <2>1 DEF Tell, TypeOK, Line, Words
  <2>4. QED
    BY <1>6, <2>2, <2>3 DEF Tell, At, TypeOK
<1>7. CASE Merge
  <2>1. line \in Line
    BY <1>7 DEF Merge, HandBooks, TypeOK
  <2>2. dev' \in [Devices -> Device]
    <3>1. Merged(line.mac) \in Device
      <4>1. dev[line.mac] \in Device /\ line.caps \subseteq Caps /\ line.keys \subseteq Basic
        BY <2>1 DEF TypeOK, Line
      <4>2. dev[line.mac].caps \subseteq Caps /\ dev[line.mac].stated \subseteq Caps
            /\ dev[line.mac].keys \subseteq Basic
        BY <4>1 DEF Device
      <4>3. QED
        BY <4>1, <4>2 DEF Merged, Device
    <3>2. QED
      BY <1>7, <3>1 DEF Merge, TypeOK
  <2>3. line' \in Line \cup {Nothing}
    BY <1>7, <2>1 DEF Merge, Line
  <2>4. QED
    BY <1>7, <2>2, <2>3 DEF Merge, At, TypeOK
<1>8. CASE Save
  <2>1. file' \subseteq Saved
    BY <1>8 DEF Save, Entry, Saved, TypeOK, Device
  <2>2. QED
    BY <1>8, <2>1 DEF Save, At, TypeOK
<1>9. CASE SaveFails
  BY <1>9 DEF SaveFails, At, TypeOK
<1>10. CASE Connect
  <2>1. Cardinality(known) \in Nat
    BY DevicesAssumption, FS_Subset, FS_CardinalityType DEF TypeOK
  <2>2. QED
    BY <1>10, <2>1 DEF Connect, At, TypeOK
<1>11. ASSUME NEW d \in todo, Walk(d) PROVE TypeOK'
  BY <1>11, ReadsType DEF Walk, TypeOK
<1>12. CASE WalkEnds
  BY <1>12 DEF WalkEnds, At, TypeOK
<1>13. CASE Restart
  <2>1. file' \subseteq Saved
    BY <1>13 DEF Restart, TypeOK
  <2>2. known' \subseteq Devices
    BY <1>13, <2>1 DEF Restart, Saved
  <2>3. dev' \in [Devices -> Device]
    <3>1. ASSUME NEW d \in known'
          PROVE  LET r == CHOOSE x \in file' : x.mac = d
                 IN  [NewDevice EXCEPT !.name = r.name, !.model = r.model] \in Device
      <4> DEFINE r == CHOOSE x \in file' : x.mac = d
      <4>1. \E x \in file' : x.mac = d
        BY <1>13, <3>1 DEF Restart
      <4>2. r \in Saved
        BY <2>1, <4>1
      <4> HIDE DEF r
      <4>3. [NewDevice EXCEPT !.name = r.name, !.model = r.model] \in Device
        BY <4>2, NewDeviceType DEF Device, Saved
      <4>4. QED
        BY <4>3 DEF r
    <3>2. QED
      BY <1>13, <3>1, NewDeviceType DEF Restart
  <2>4. troubles' \in 0..MaxTroubles
    BY <1>13, TroubleType DEF Restart
  <2>5. avail' \in [Devices -> Words]
    BY <1>13 DEF Restart, Topics
  <2>6. QED
    BY <1>13, <2>1, <2>2, <2>3, <2>4, <2>5 DEF Restart, TypeOK
<1>14. CASE UNCHANGED vars
  BY <1>14 DEF vars, hands, history, TypeOK
<1>15. QED
  BY <1>1, <1>2, <1>3, <1>4, <1>5, <1>6, <1>7, <1>8, <1>9, <1>10, <1>11, <1>12, <1>13,
     <1>14
  DEF Next, Begins, GoesOn, Mqtt

-----------------------------------------------------------------------------
(* The books. *)

\* The initial states have empty books.
LEMMA InitBooks == Init => DeviceBooks
<1> SUFFICES ASSUME Init PROVE DeviceBooks
  OBVIOUS
<1>1. HandBooks
  BY DEF Init, HandBooks
<1>2. NameBooks /\ TellBooks
  BY DEF Init, NameBooks, Entry, TellBooks, NewDevice
<1>3. SignatureBooks
  BY DEF Init, SignatureBooks, NewDevice, Blank
<1>4. QED
  BY <1>1, <1>2, <1>3 DEF DeviceBooks

\* Names and states of the devices stay as they are.
Kept ==
  \A d \in Devices : /\ dev'[d].name = dev[d].name /\ dev'[d].model = dev[d].model
                     /\ dev'[d].online = dev[d].online

\* While a line's availability is still to be told.
Window == {"read", "sign", "announce", "tell"}

\* A step of _publish_discovery or of the merging of a payload.
LEMMA DiscoveryBooks ==
  ASSUME Sound, TypeOK', Kept, UNCHANGED <<known, file, unsaved, avail, told>>,
         \/ line' = line
         \/ /\ line # Nothing /\ line' # Nothing /\ line.kind = "state" /\ line'.kind = "merged"
            /\ at["serial"] \notin Window
         \/ line # Nothing /\ line.kind = "merged" /\ line' = Nothing,
         line' = line /\ line # Nothing /\ line.kind # "merged" /\ at["serial"] \in Window
           => at'["serial"] \in Window \/ line.kind = "info"
  PROVE  NameBooks' /\ TellBooks'
<1> USE DEF Sound, DeviceBooks
<1>1. NameBooks'
  <2>1. known \subseteq Devices
    BY DEF TypeOK
  <2>2. \A d \in known : [mac |-> d, name |-> dev'[d].name, model |-> dev'[d].model]
                       = [mac |-> d, name |-> dev[d].name, model |-> dev[d].model]
    BY <2>1 DEF Kept
  <2>3. line' = Nothing \/ line'.kind \in {"state", "merged"} =>
          line = Nothing \/ line.kind \in {"state", "merged"}
    OBVIOUS
  <2>4. QED
    BY <2>1, <2>2, <2>3 DEF NameBooks, Entry, Kept
<1>2. TellBooks'
  <2> SUFFICES ASSUME NEW d \in told
               PROVE  \/ avail'[d] = IF dev'[d].online THEN "online" ELSE "offline"
                      \/ line' # Nothing /\ line'.mac = d /\ line'.kind \in {"online", "offline", "state"}
                         /\ at'["serial"] \in {"read", "sign", "announce", "tell"}
    BY DEF TellBooks
  <2>1. d \in Devices
    BY DEF TypeOK
  <2>2. dev'[d].online = dev[d].online
    BY <2>1 DEF Kept
  <2>3. CASE avail[d] = IF dev[d].online THEN "online" ELSE "offline"
    BY <2>2, <2>3
  <2>4. CASE /\ line # Nothing /\ line.mac = d /\ line.kind \in {"online", "offline", "state"}
             /\ at["serial"] \in {"read", "sign", "announce", "tell"}
    BY <2>4 DEF Window
  <2>5. QED
    BY <2>3, <2>4 DEF TellBooks
<1>3. QED
  BY <1>1, <1>2

\* A thread leaves _publish_discovery.
LEMMA ReturnBooks ==
  ASSUME Sound, TypeOK', Kept, UNCHANGED <<known, file, unsaved, avail, told>>, SignatureBooks',
         NEW t \in Threads, Return(t),
         at["mqtt"] \in {"walk", "sign", "announce"} \/ t # "mqtt",
         at["serial"] \in {"read", "sign", "announce"} \/ t # "serial"
  PROVE  DeviceBooks'
<1> USE DEF Sound, DeviceBooks
<1>1. line # Nothing => line \in Line /\ line.mac \in Devices
  BY DEF TypeOK, Line
<1>2. CASE t = "mqtt"
  <2>1. at'["mqtt"] = "walk" /\ at'["serial"] = at["serial"] /\ line' = line
        /\ draft'["mqtt"] = Nothing /\ draft'["serial"] = draft["serial"]
    BY <1>2 DEF Return, At, TypeOK
  <2>2. HandBooks'
    BY <1>1, <2>1 DEF HandBooks, Kept
  <2>3. QED
    BY <2>1, <2>2, DiscoveryBooks
<1>3. CASE t = "serial"
  <2>1. line # Nothing /\ line.kind \in {"online", "info", "state", "merged"}
    BY <1>1, <1>3 DEF HandBooks, Line
  <2>2. /\ at'["serial"] = After[line.kind] /\ at'["mqtt"] = at["mqtt"]
        /\ line' = IF line.kind = "merged" THEN Nothing ELSE line
        /\ draft'["serial"] = Nothing /\ draft'["mqtt"] = draft["mqtt"]
    BY <1>3 DEF Return, At, TypeOK
  <2>3. HandBooks'
    BY <1>1, <2>1, <2>2 DEF HandBooks, Kept, After
  <2>4. QED
    BY <2>1, <2>2, <2>3, DiscoveryBooks DEF After, Window
<1>4. QED
  BY <1>2, <1>3

\* A thread begins _publish_discovery.
LEMMA ReadsBooks ==
  ASSUME Sound, TypeOK', UNCHANGED <<known, file, unsaved, avail, told, config, missed>>,
         NEW t \in Threads, NEW d \in Devices, Reads(t, d),
         at["mqtt"] = "walk" \/ t # "mqtt", at["serial"] = "read" \/ t # "serial"
  PROVE  DeviceBooks'
<1> USE DEF Sound, DeviceBooks
<1>1. CASE ~ha
  <2>1. dev' = [dev EXCEPT ![d] = Marked(d, dev[d].sig)] /\ Return(t)
    BY <1>1 DEF Reads
  <2>2. /\ Marked(d, dev[d].sig).name = dev[d].name /\ Marked(d, dev[d].sig).model = dev[d].model
        /\ Marked(d, dev[d].sig).online = dev[d].online /\ Marked(d, dev[d].sig).sig = dev[d].sig
    BY DEF Marked, TypeOK, Device
  <2>3. Kept
    BY <2>1, <2>2 DEF Kept, TypeOK
  <2>4. SignatureBooks'
    BY <2>1, <2>2 DEF SignatureBooks, Configured, Missed, TypeOK
  <2>5. QED
    BY <2>1, <2>3, <2>4, ReturnBooks
<1>2. CASE ha
  <2>1. at' = [at EXCEPT ![t] = "sign"] /\ UNCHANGED <<dev, line>>
    BY <1>2 DEF Reads, At
  <2>2. draft'[t] # Nothing /\ \A u \in Threads \ {t} : draft'[u] = draft[u]
    <3>1. PICK new : draft' = [draft EXCEPT ![t] = new] /\ new.mac = d
                     /\ new = [mac |-> d, empty |-> dev[d].caps = {}, model |-> dev[d].model,
                               caps |-> IF dev[d].caps = {} THEN Guess(dev[d].stated, dev[d].keys, dev[d].model)
                                        ELSE dev[d].caps]
      BY <1>2 DEF Reads
    <3>2. dev[d].caps \subseteq Caps /\ dev[d].model \in Models /\ dev[d].keys \subseteq Basic
        /\ dev[d].stated \subseteq Caps
      BY DEF TypeOK, Device
    <3>3. Guess(dev[d].stated, dev[d].keys, dev[d].model) \subseteq Caps
      BY <3>2, Constants DEF Guess
    <3>4. new \in Draft
      BY <3>1, <3>2, <3>3 DEF Draft
    <3>5. QED
      BY <3>1, <3>4, Constants DEF TypeOK
  <2>3. HandBooks'
    BY <2>1, <2>2 DEF HandBooks, TypeOK
  <2>4. Kept /\ SignatureBooks'
    BY <2>1 DEF Kept, SignatureBooks, Configured, Missed
  <2>5. at["serial"] \in Window => at'["serial"] \in Window
    BY <2>1 DEF Window, TypeOK
  <2>6. QED
    BY <2>1, <2>3, <2>4, <2>5, DiscoveryBooks
<1>3. QED
  BY <1>1, <1>2 DEF TypeOK

\* The guess is stored.
LEMMA SignBooks == ASSUME Sound, TypeOK', NEW t \in Threads, Sign(t) PROVE DeviceBooks'
<1> USE DEF Sound, DeviceBooks
<1> DEFINE d == draft[t].mac
           now == [dev[d] EXCEPT !.caps = IF draft[t].empty THEN draft[t].caps ELSE dev[d].caps]
<1>1. /\ dev' = [dev EXCEPT ![d] = now] /\ at[t] = "sign"
      /\ UNCHANGED <<known, file, unsaved, avail, told, config, missed>>
      /\ \/ Return(t)
         \/ /\ draft' = [draft EXCEPT ![t].model = now.model]
            /\ At(t, "announce") /\ line' = line
  BY DEF Sign
<1>2. draft[t] \in Draft /\ d \in Devices
  BY <1>1 DEF HandBooks, TypeOK, Draft
<1>3. now.name = dev[d].name /\ now.model = dev[d].model /\ now.online = dev[d].online
      /\ now.sig = dev[d].sig
  BY <1>2 DEF TypeOK, Device
<1> HIDE DEF now
<1>4. Kept
  BY <1>1, <1>2, <1>3 DEF Kept, TypeOK
<1>5. SignatureBooks'
  BY <1>1, <1>2, <1>3 DEF SignatureBooks, Configured, Missed, TypeOK
<1>6. at["mqtt"] = "sign" \/ t # "mqtt"
  BY <1>1
<1>7. at["serial"] = "sign" \/ t # "serial"
  BY <1>1
<1>8. CASE Return(t)
  BY <1>1, <1>4, <1>5, <1>6, <1>7, <1>8, ReturnBooks
<1>9. CASE draft' = [draft EXCEPT ![t].model = now.model] /\ At(t, "announce") /\ line' = line
  <2>1. draft'[t] # Nothing /\ \A u \in Threads \ {t} : draft'[u] = draft[u]
    <3>1. now.model \in Models
      BY <1>2, <1>3 DEF TypeOK, Device
    <3>2. [draft[t] EXCEPT !.model = now.model] \in Draft
      BY <1>2, <3>1 DEF Draft
    <3>3. QED
      BY <1>9, <3>2, Constants DEF TypeOK
  <2>2. HandBooks'
    BY <1>1, <1>4, <1>9, <2>1 DEF HandBooks, At, TypeOK, Kept, Line
  <2>3. at["serial"] \in Window => at'["serial"] \in Window
    BY <1>9 DEF Window, TypeOK, At
  <2>4. QED
    BY <1>1, <1>4, <1>5, <1>9, <2>2, <2>3, DiscoveryBooks
<1>10. QED
  BY <1>1, <1>8, <1>9

\* The configurations are published and the device is marked.
LEMMA AnnounceBooks == ASSUME Sound, TypeOK', NEW t \in Threads, Announce(t) PROVE DeviceBooks'
<1> USE DEF Sound, DeviceBooks
<1> DEFINE d == draft[t].mac
           g == Signature(draft[t].caps, draft[t].model)
           all == {[mac |-> d, cap |-> c] : c \in draft[t].caps \cap Basic}
<1>1. /\ dev' = [dev EXCEPT ![d] = Marked(d, g)] /\ at[t] = "announce" /\ Return(t)
      /\ \E lost \in SUBSET all : /\ config' = config \cup (all \ lost)
                                  /\ missed' = (missed \cup lost) \ config'
      /\ UNCHANGED <<known, file, unsaved, avail, told>>
  BY DEF Announce, Publishes, Announced
<1>2. draft[t] \in Draft /\ d \in Devices
  BY <1>1 DEF HandBooks, TypeOK, Draft
<1>3. /\ Marked(d, g).name = dev[d].name /\ Marked(d, g).model = dev[d].model
      /\ Marked(d, g).online = dev[d].online /\ Marked(d, g).sig = g /\ g.caps = draft[t].caps
  BY <1>2 DEF Marked, Signature, TypeOK, Device
<1> HIDE DEF g
<1>4. Kept
  BY <1>1, <1>2, <1>3 DEF Kept, TypeOK
<1>5. SignatureBooks'
  <2>1. ASSUME NEW e \in Devices, NEW c \in dev'[e].sig.caps \cap Basic
        PROVE  \E x \in config' \cup missed' : x.mac = e /\ x.cap = c
    <3>1. CASE e = d
      <4>1. c \in draft[t].caps \cap Basic
        BY <1>1, <1>2, <1>3, <2>1, <3>1 DEF TypeOK
      <4>2. [mac |-> d, cap |-> c] \in config' \cup missed'
        BY <1>1, <4>1
      <4>3. QED
        BY <3>1, <4>2
    <3>2. CASE e # d
      <4>1. c \in dev[e].sig.caps \cap Basic
        BY <1>1, <2>1, <3>2 DEF TypeOK
      <4>2. \E x \in config \cup missed : x.mac = e /\ x.cap = c
        BY <4>1 DEF SignatureBooks, Configured, Missed
      <4>3. QED
        BY <1>1, <4>2
    <3>3. QED
      BY <3>1, <3>2
  <2>2. QED
    BY <2>1 DEF SignatureBooks, Configured, Missed
<1>6. (at["mqtt"] = "announce" \/ t # "mqtt") /\ (at["serial"] = "announce" \/ t # "serial")
  BY <1>1
<1>7. QED
  BY <1>1, <1>4, <1>5, <1>6, ReturnBooks

\* A device line comes.
LEMMA DeviceLineBooks ==
  ASSUME Sound, TypeOK', NEW d \in Devices, NEW name \in Names[d] \cup {Unnamed},
         NEW model \in Models \cup {Nothing}, NEW kind \in {"online", "offline", "info"},
         DeviceLine(d, name, model, kind)
  PROVE  DeviceBooks'
<1> USE DEF Sound, DeviceBooks
<1> DEFINE new == Updated(d, name, model, kind)
<1>1. /\ known' = known \cup {d} /\ dev' = [dev EXCEPT ![d] = new]
      /\ line' = [mac |-> d, kind |-> kind, keys |-> {}, caps |-> {}]
      /\ at["serial"] = "idle"
      /\ at' = [at EXCEPT !["serial"] =
                  IF kind = "offline" THEN "tell"
                  ELSE IF kind = "info" /\ dev[d].discovered THEN "save" ELSE "read"]
      /\ told' = {x \in told : dev'[x].name = dev[x].name}
      /\ \A x \in Devices : dev'[x].name = dev[x].name => avail'[x] = avail[x]
      /\ UNCHANGED <<file, unsaved, draft, config, missed>>
  BY DEF DeviceLine, Topics, At
<1>2. /\ new.name = IF name = Unnamed THEN dev[d].name ELSE name
      /\ kind = "online" => new.online
      /\ kind = "offline" => ~new.online
      /\ kind = "info" => new.online = dev[d].online
      /\ new.sig = dev[d].sig
  <2>1. dev[d] \in Device
    BY DEF TypeOK
  <2>2. new.name = (IF name = Unnamed THEN dev[d].name ELSE name) /\ new.sig = dev[d].sig
    BY <2>1 DEF Updated, Device
  <2>3. new.online = (kind = "online" \/ (dev[d].online /\ kind # "offline"))
    BY <2>1 DEF Updated, Device
  <2>4. (kind = "online" => new.online) /\ (kind = "offline" => ~new.online)
    BY <2>3
  <2>5. kind = "info" => new.online = dev[d].online
    BY <2>1, <2>3 DEF Device
  <2>6. QED
    BY <2>2, <2>4, <2>5
<1> HIDE DEF new
<1>3. dev'[d] = new /\ \A e \in Devices : e # d => dev'[e] = dev[e]
  BY <1>1 DEF TypeOK
<1>4. line' # Nothing
  <2>1. line' \in Line
    BY <1>1 DEF Line
  <2>2. QED
    BY <2>1, Constants
<1>5. HandBooks'
  <2>1. /\ kind = "offline" => at'["serial"] = "tell"
        /\ kind = "online" => at'["serial"] = "read"
        /\ kind = "info" => at'["serial"] \in {"save", "read"}
        /\ at'["mqtt"] = at["mqtt"]
    BY <1>1 DEF TypeOK
  <2>2. line'.kind = kind /\ line'.mac = d
    BY <1>1
  <2>3. at'["serial"] # "idle" /\ at'["serial"] \notin {"merge", "sign", "announce", "walk", "dead"}
    BY <2>1
  <2>4. QED
    BY <1>1, <1>2, <1>3, <1>4, <2>1, <2>2, <2>3 DEF HandBooks
<1>6. NameBooks'
  <2>1. line' # Nothing /\ line'.kind \notin {"state", "merged"}
    BY <1>1, <1>4
  <2>2. \A e \in Devices : dev'[e].name \in Names[e] \cup {Unnamed}
    BY <1>2, <1>3 DEF NameBooks, Entry
  <2>3. \A e \in Devices \ known' : dev'[e].name = Unnamed /\ dev'[e].model = DefaultModel
    BY <1>1, <1>3 DEF NameBooks, Entry
  <2>4. QED
    BY <1>1, <2>1, <2>2, <2>3 DEF NameBooks, Entry
<1>7. TellBooks'
  <2>1. ASSUME NEW e \in told'
        PROVE  \/ avail'[e] = IF dev'[e].online THEN "online" ELSE "offline"
               \/ line' # Nothing /\ line'.mac = e /\ line'.kind \in {"online", "offline", "state"}
                  /\ at'["serial"] \in {"read", "sign", "announce", "tell"}
    <3>1. e \in told /\ e \in Devices /\ avail'[e] = avail[e]
      BY <1>1 DEF TypeOK
    <3>2. avail[e] = IF dev[e].online THEN "online" ELSE "offline"
      BY <1>1, <3>1 DEF TellBooks, HandBooks
    <3>3. CASE e = d /\ kind # "info"
      BY <1>1, <1>4, <3>3 DEF TypeOK
    <3>4. CASE ~(e = d /\ kind # "info")
      <4>1. dev'[e].online = dev[e].online
        BY <1>2, <1>3, <3>1, <3>4 DEF TypeOK, Device
      <4>2. QED
        BY <1>1, <3>1, <3>2, <4>1
    <3>5. QED
      BY <3>3, <3>4
  <2>2. QED
    BY <2>1 DEF TellBooks
<1>8. SignatureBooks'
  BY <1>1, <1>2, <1>3 DEF SignatureBooks, Configured, Missed
<1>9. QED
  BY <1>5, <1>6, <1>7, <1>8

\* A state line comes.
LEMMA StateLineBooks ==
  ASSUME Sound, TypeOK', NEW d \in Devices, NEW caps \in SUBSET Caps,
         NEW keys \in SUBSET Basic, StateLine(d, caps, keys)
  PROVE  DeviceBooks'
<1> USE DEF Sound, DeviceBooks
<1> DEFINE new == Reported(d, Folded(d, caps, keys))
<1>1. /\ known' = known \cup {d} /\ dev' = [dev EXCEPT ![d] = new]
      /\ line' = [mac |-> d, kind |-> "state", keys |-> keys, caps |-> caps]
      /\ at["serial"] = "idle"
      /\ at' = [at EXCEPT !["serial"] = IF dev[d].online THEN "merge" ELSE "read"]
      /\ UNCHANGED <<file, unsaved, draft, config, missed, avail, told>>
  BY DEF StateLine, At
<1>2. /\ new.name = dev[d].name /\ new.model = dev[d].model /\ new.online
      /\ new.sig = dev[d].sig
  BY DEF Reported, TypeOK, Device
<1> HIDE DEF new
<1>3. dev'[d] = new /\ \A e \in Devices : e # d => dev'[e] = dev[e]
  BY <1>1 DEF TypeOK
<1>4. line' # Nothing
  <2>1. line' \in Line
    BY <1>1 DEF Line
  <2>2. QED
    BY <2>1, Constants
<1>5. at'["serial"] = (IF dev[d].online THEN "merge" ELSE "read") /\ at'["mqtt"] = at["mqtt"]
  BY <1>1 DEF TypeOK
<1>6. HandBooks'
  BY <1>1, <1>2, <1>3, <1>4, <1>5 DEF HandBooks
<1>7. NameBooks'
  <2>1. \A e \in Devices : dev'[e].name = dev[e].name /\ dev'[e].model = dev[e].model
    BY <1>2, <1>3
  <2>2. line = Nothing
    BY <1>1 DEF HandBooks
  <2>3. \A e \in known' : dev[e].name # Unnamed \/ dev[e].model # DefaultModel => e \in known
    BY <1>1 DEF NameBooks, Entry, TypeOK
  <2>4. known' \subseteq Devices /\ known \subseteq known'
    BY <1>1 DEF TypeOK
  <2>5. \A e \in known' : [mac |-> e, name |-> dev'[e].name, model |-> dev'[e].model]
                        = [mac |-> e, name |-> dev[e].name, model |-> dev[e].model]
    BY <2>1, <2>4
  <2>6. ~unsaved => \A e \in known' : dev'[e].name # Unnamed \/ dev'[e].model # DefaultModel =>
                   [mac |-> e, name |-> dev'[e].name, model |-> dev'[e].model] \in file'
    BY <1>1, <2>1, <2>2, <2>3, <2>4, <2>5 DEF NameBooks, Entry
  <2>7. QED
    BY <1>1, <2>1, <2>4, <2>6 DEF NameBooks, Entry
<1>8. TellBooks'
  <2>1. ASSUME NEW e \in told'
        PROVE  \/ avail'[e] = IF dev'[e].online THEN "online" ELSE "offline"
               \/ line' # Nothing /\ line'.mac = e /\ line'.kind \in {"online", "offline", "state"}
                  /\ at'["serial"] \in {"read", "sign", "announce", "tell"}
    <3>1. e \in told /\ e \in Devices
      BY <1>1 DEF TypeOK
    <3>3. avail[e] = IF dev[e].online THEN "online" ELSE "offline"
      BY <1>1, <3>1 DEF TellBooks, HandBooks
    <3>4. CASE e = d /\ ~dev[d].online
      BY <1>1, <1>4, <1>5, <3>4
    <3>5. CASE ~(e = d /\ ~dev[d].online)
      <4>1. dev'[e].online = dev[e].online
        BY <1>2, <1>3, <3>1, <3>5 DEF TypeOK, Device
      <4>2. QED
        BY <1>1, <3>3, <4>1
    <3>6. QED
      BY <3>4, <3>5
  <2>2. QED
    BY <2>1 DEF TellBooks
<1>9. SignatureBooks'
  BY <1>1, <1>2, <1>3 DEF SignatureBooks, Configured, Missed
<1>10. QED
  BY <1>6, <1>7, <1>8, <1>9

\* The availability is published.
LEMMA TellStepBooks == ASSUME Sound, TypeOK', Tell PROVE DeviceBooks'
<1> USE DEF Sound, DeviceBooks
<1> DEFINE d == line.mac
<1>1. /\ at["serial"] = "tell"
      /\ at' = [at EXCEPT !["serial"] = IF line.kind = "state" THEN "merge" ELSE "save"]
      /\ UNCHANGED <<known, dev, file, unsaved, line, draft, config, missed>>
  BY DEF Tell, At
<1>2. line # Nothing /\ line \in Line /\ d \in Devices /\ line.kind \in {"online", "offline", "state"}
  BY <1>1 DEF HandBooks, TypeOK, Line
<1>3. dev[d].online <=> line.kind # "offline"
  BY <1>2 DEF HandBooks
<1>4. HandBooks'
  BY <1>1, <1>2 DEF HandBooks, TypeOK
<1>5. NameBooks' /\ SignatureBooks'
  BY <1>1 DEF NameBooks, Entry, SignatureBooks, Configured, Missed
<1>6. TellBooks'
  <2> DEFINE word == IF line.kind = "offline" THEN "offline" ELSE "online"
  <2>1. \/ avail' = [avail EXCEPT ![d] = word] /\ told' = told \cup {d}
        \/ avail' = avail /\ told' = {x \in told : x = d => avail[d] = word}
    BY DEF Tell
  <2>2. word = IF dev[d].online THEN "online" ELSE "offline"
    BY <1>3
  <2> HIDE DEF word
  <2>3. ASSUME NEW e \in told'
        PROVE  avail'[e] = IF dev[e].online THEN "online" ELSE "offline"
    <3>1. e \in Devices
      BY <1>2, <2>1 DEF TypeOK
    <3>2. CASE e = d
      BY <2>1, <2>2, <3>1, <3>2 DEF TypeOK
    <3>3. CASE e # d
      <4>1. e \in told /\ avail'[e] = avail[e]
        BY <2>1, <3>1, <3>3 DEF TypeOK
      <4>2. avail[e] = IF dev[e].online THEN "online" ELSE "offline"
        BY <3>3, <4>1 DEF TellBooks
      <4>3. QED
        BY <4>1, <4>2
    <3>4. QED
      BY <3>2, <3>3
  <2>4. QED
    BY <1>1, <2>3 DEF TellBooks
<1>7. QED
  BY <1>4, <1>5, <1>6

\* A state line's payload is merged.
LEMMA MergeBooks == ASSUME Sound, TypeOK', Merge PROVE DeviceBooks'
<1> USE DEF Sound, DeviceBooks
<1> DEFINE d == line.mac
           new == Merged(d)
<1>1. /\ at["serial"] = "merge" /\ dev' = [dev EXCEPT ![d] = new]
      /\ UNCHANGED <<known, file, unsaved, draft, config, missed, avail, told>>
      /\ \/ At("serial", "idle") /\ line' = Nothing
         \/ /\ At("serial", "read")
            /\ line' = [line EXCEPT !.kind = "merged", !.keys = {}, !.caps = {}]
  BY DEF Merge
<1>2. line # Nothing /\ line \in Line /\ d \in Devices /\ line.kind = "state"
  BY <1>1 DEF HandBooks, TypeOK, Line
<1>3. new.name = dev[d].name /\ new.model = dev[d].model /\ new.online = dev[d].online
      /\ new.sig = dev[d].sig
  BY <1>2 DEF Merged, TypeOK, Device
<1> HIDE DEF new
<1>4. Kept
  BY <1>1, <1>2, <1>3 DEF Kept, TypeOK
<1>5. SignatureBooks'
  BY <1>1, <1>2, <1>3 DEF SignatureBooks, Configured, Missed, TypeOK
<1>6. CASE At("serial", "read") /\ line' = [line EXCEPT !.kind = "merged", !.keys = {}, !.caps = {}]
  <2>1. line' \in Line /\ line'.mac = d /\ line'.kind = "merged"
    BY <1>2, <1>6 DEF Line
  <2>2. line' # Nothing /\ at'["serial"] = "read" /\ at'["mqtt"] = at["mqtt"]
    BY <1>6, <2>1, Constants DEF At, TypeOK
  <2>3. HandBooks'
    BY <1>1, <1>2, <1>4, <2>1, <2>2 DEF HandBooks, Kept
  <2>4. at["serial"] \notin Window
    BY <1>1 DEF Window
  <2>5. QED
    BY <1>1, <1>2, <1>4, <1>5, <2>1, <2>2, <2>3, <2>4, DiscoveryBooks
<1>7. CASE At("serial", "idle") /\ line' = Nothing
  <2>1. at'["serial"] = "idle" /\ at'["mqtt"] = at["mqtt"]
    BY <1>7 DEF At, TypeOK
  <2>2. HandBooks'
    BY <1>1, <1>4, <1>7, <2>1 DEF HandBooks, Kept
  <2>3. NameBooks'
    <3>1. known \subseteq Devices
      BY DEF TypeOK
    <3>2. \A e \in known : [mac |-> e, name |-> dev'[e].name, model |-> dev'[e].model]
                         = [mac |-> e, name |-> dev[e].name, model |-> dev[e].model]
      BY <1>4, <3>1 DEF Kept
    <3>3. QED
      BY <1>1, <1>2, <1>4, <3>1, <3>2 DEF NameBooks, Entry, Kept
  <2>4. TellBooks'
    <3>1. ASSUME NEW e \in told
          PROVE  avail[e] = IF dev'[e].online THEN "online" ELSE "offline"
      <4>1. e \in Devices /\ dev'[e].online = dev[e].online
        BY <1>4 DEF TypeOK, Kept
      <4>2. QED
        BY <1>1, <4>1 DEF TellBooks
    <3>2. QED
      BY <1>1, <3>1 DEF TellBooks
  <2>5. QED
    BY <1>5, <2>2, <2>3, <2>4
<1>8. QED
  BY <1>1, <1>6, <1>7

\* The registry file is written, or not.
LEMMA SaveBooks == ASSUME Sound, TypeOK', Save \/ SaveFails PROVE DeviceBooks'
<1> USE DEF Sound, DeviceBooks
<1>1. /\ at["serial"] = "save" /\ line' = Nothing
      /\ at' = [at EXCEPT !["serial"] = "idle"]
      /\ UNCHANGED <<known, dev, draft, config, missed, avail, told>>
  BY DEF Save, SaveFails, At
<1>2. HandBooks'
  BY <1>1 DEF HandBooks, TypeOK
<1>3. NameBooks'
  <2>1. CASE Save
    <3>1. file' = {[mac |-> d, name |-> dev[d].name, model |-> dev[d].model] : d \in known}
      BY <2>1 DEF Save, Entry
    <3>2. \A r \in file' : r.name \in Names[r.mac] \cup {Unnamed}
      BY <3>1 DEF NameBooks, Entry, TypeOK
    <3>3. QED
      BY <1>1, <3>1, <3>2 DEF NameBooks, Entry
  <2>2. CASE SaveFails
    BY <1>1, <2>2 DEF SaveFails, NameBooks, Entry
  <2>3. QED
    BY <2>1, <2>2
<1>4. TellBooks'
  BY <1>1 DEF TellBooks
<1>5. SignatureBooks'
  BY <1>1 DEF SignatureBooks, Configured, Missed
<1>6. QED
  BY <1>2, <1>3, <1>4, <1>5

\* The mqtt thread begins or ends its walk.
LEMMA WalkBooks == ASSUME Sound, TypeOK', Connect \/ WalkEnds PROVE DeviceBooks'
<1> USE DEF Sound, DeviceBooks
<1>1. /\ at["mqtt"] \in {"idle", "walk"}
      /\ \E p \in {"idle", "walk", "dead"} : at' = [at EXCEPT !["mqtt"] = p]
      /\ UNCHANGED <<known, dev, file, unsaved, line, draft, config, missed, avail, told>>
  BY DEF Connect, WalkEnds, At
<1>2. at'["serial"] = at["serial"] /\ at'["mqtt"] \in {"idle", "walk", "dead"}
  BY <1>1 DEF TypeOK
<1>3. HandBooks'
  BY <1>1, <1>2 DEF HandBooks
<1>4. NameBooks' /\ SignatureBooks'
  BY <1>1 DEF NameBooks, Entry, SignatureBooks, Configured, Missed
<1>5. TellBooks'
  BY <1>1, <1>2 DEF TellBooks
<1>6. QED
  BY <1>3, <1>4, <1>5

\* The bridge restarts with what the file has.
LEMMA RestartBooks == ASSUME Sound, TypeOK', Restart PROVE DeviceBooks'
<1> USE DEF Sound, DeviceBooks
<1>1. /\ known' = {r.mac : r \in file'}
      /\ at' = [t \in Threads |-> "idle"] /\ line' = Nothing
      /\ draft' = [t \in Threads |-> Nothing] /\ told' = {}
      /\ UNCHANGED config
      /\ file' \in {file, {}}
  BY DEF Restart
<1>2. ASSUME NEW d \in Devices
      PROVE  /\ ~dev'[d].online /\ dev'[d].sig = Blank
             /\ IF d \in known'
                THEN [mac |-> d, name |-> dev'[d].name, model |-> dev'[d].model] \in file'
                ELSE dev'[d].name = Unnamed /\ dev'[d].model = DefaultModel
  <2>1. CASE d \notin known'
    <3>1. dev'[d] = NewDevice
      BY <2>1 DEF Restart
    <3>2. QED
      BY <2>1, <3>1 DEF NewDevice
  <2>2. CASE d \in known'
    <3> DEFINE r == CHOOSE x \in file' : x.mac = d
    <3>1. \E x \in file' : x.mac = d
      BY <1>1, <2>2
    <3>2. r \in file' /\ r.mac = d
      BY <3>1
    <3>3. dev'[d] = [NewDevice EXCEPT !.name = r.name, !.model = r.model]
      BY <2>2 DEF Restart
    <3> HIDE DEF r
    <3>4. r \in Saved
      BY <3>2 DEF TypeOK
    <3>5. r = [mac |-> d, name |-> r.name, model |-> r.model]
      BY <3>2, <3>4 DEF Saved
    <3>6. /\ dev'[d].name = r.name /\ dev'[d].model = r.model
          /\ ~dev'[d].online /\ dev'[d].sig = Blank
      BY <3>3 DEF NewDevice
    <3>7. [mac |-> d, name |-> dev'[d].name, model |-> dev'[d].model] \in file'
      BY <3>2, <3>5, <3>6
    <3>8. QED
      BY <2>2, <3>6, <3>7
  <2>3. QED
    BY <2>1, <2>2
<1>3. HandBooks'
  BY <1>1 DEF HandBooks
<1>4. NameBooks'
  <2>1. \A r \in file' : r.name \in Names[r.mac] \cup {Unnamed}
    BY <1>1 DEF NameBooks, Entry
  <2>2. known' \subseteq Devices
    BY DEF TypeOK
  <2>3. \A d \in known' : [mac |-> d, name |-> dev'[d].name, model |-> dev'[d].model] \in file'
    BY <1>2, <2>2
  <2>4. ASSUME NEW d \in known' PROVE dev'[d].name \in Names[d] \cup {Unnamed}
    <3>1. [mac |-> d, name |-> dev'[d].name, model |-> dev'[d].model] \in file'
      BY <2>3
    <3>2. QED
      BY <2>1, <3>1
  <2>5. \A d \in Devices : dev'[d].name \in Names[d] \cup {Unnamed}
    BY <1>2, <2>4
  <2>6. QED
    BY <1>2, <2>1, <2>3, <2>5 DEF NameBooks, Entry
<1>5. TellBooks'
  BY <1>1 DEF TellBooks
<1>6. SignatureBooks'
  <2>1. Blank.caps = {}
    BY DEF Blank
  <2>2. \A d \in Devices : dev'[d].sig.caps = {}
    BY <1>2, <2>1
  <2>3. QED
    BY <2>2 DEF SignatureBooks, Configured, Missed
<1>7. QED
  BY <1>3, <1>4, <1>5, <1>6

\* Every step keeps the books.
LEMMA NextBooks == Sound /\ [Next]_vars => DeviceBooks'
<1> SUFFICES ASSUME Sound, [Next]_vars PROVE DeviceBooks'
  OBVIOUS
<1>1. TypeOK'
  BY NextType
<1>2. ASSUME NEW d \in Devices, NEW name \in Names[d] \cup {Unnamed},
             NEW model \in Models \cup {Nothing}, NEW kind \in {"online", "offline", "info"},
             DeviceLine(d, name, model, kind)
      PROVE  DeviceBooks'
  BY <1>1, <1>2, DeviceLineBooks
<1>3. ASSUME NEW d \in Devices, NEW caps \in SUBSET Caps, NEW keys \in SUBSET Basic,
             StateLine(d, caps, keys)
      PROVE  DeviceBooks'
  BY <1>1, <1>3, StateLineBooks
<1>4. CASE Discover
  <2>1. line.mac \in Devices /\ at["serial"] = "read"
    BY <1>4 DEF Discover, Sound, DeviceBooks, HandBooks, TypeOK, Line
  <2>2. QED
    BY <1>1, <1>4, <2>1, ReadsBooks DEF Discover
<1>5. ASSUME NEW d \in todo, Walk(d) PROVE DeviceBooks'
  <2>1. d \in Devices /\ at["mqtt"] = "walk"
    BY <1>5 DEF Walk, Sound, TypeOK
  <2>2. QED
    BY <1>1, <1>5, <2>1, ReadsBooks DEF Walk
<1>6. CASE UNCHANGED vars
  BY <1>6 DEF vars, hands, Sound, DeviceBooks, HandBooks, NameBooks, Entry, TellBooks, SignatureBooks,
              history, Configured, Missed, Entry
<1>7. QED
  BY <1>1, <1>2, <1>3, <1>4, <1>5, <1>6, SignBooks, AnnounceBooks, TellStepBooks, MergeBooks,
     SaveBooks, WalkBooks, RestartBooks
  DEF Next, Begins, GoesOn, Mqtt

\* Types and books hold in every state.
LEMMA SoundAlways == Spec => []Sound
<1>1. Init => Sound
  BY InitType, InitBooks DEF Sound
<1>2. Sound /\ [Next]_vars => Sound'
  BY NextType, NextBooks DEF Sound
<1>3. QED
  BY <1>1, <1>2, PTL DEF Spec

-----------------------------------------------------------------------------
(* The theorems. *)

\* Every variable keeps its type: no line, draft or retained topic is outside what
\* the code of __main__.py can produce.
THEOREM DevicesTypeCorrect == Spec => []TypeOK
<1>1. Sound => TypeOK
  BY DEF Sound
<1>2. QED
  BY <1>1, SoundAlways, PTL

\* Whichever thread ran _publish_discovery, discovery_sig claims nothing but what is
\* on the broker or was lost when it was published under that signature.
THEOREM SigHonestHolds == Spec => []SigHonest
<1>1. Sound => SigHonest
  BY DEF Sound, DeviceBooks, TypeOK, SignatureBooks, SigHonest
<1>2. QED
  BY <1>1, SoundAlways, PTL

\* Between two lines, names and models are on file, unless the last save failed.
THEOREM NamesOnFileHolds == Spec => []NamesOnFile
<1>1. Sound => NamesOnFile
  BY DEF Sound, DeviceBooks, HandBooks, NameBooks, Entry, NamesOnFile
<1>2. QED
  BY <1>1, SoundAlways, PTL

\* Between two lines, a device's availability topic says whether the bridge thinks
\* it online, if its last publish got through and it still has that slug.
THEOREM AvailTellsHolds == Spec => []AvailTells
<1>1. Sound => AvailTells
  BY DEF Sound, DeviceBooks, HandBooks, TellBooks, AvailTells
<1>2. QED
  BY <1>1, SoundAlways, PTL
=============================================================================
