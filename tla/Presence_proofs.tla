---------------------------- MODULE Presence_proofs ----------------------------
(***************************************************************************)
(* What TLAPS shows of Presence for any number of devices, rows and        *)
(* events: the peer table needs no lock for a device to have one row, and  *)
(* the retained topics agree but for what was lost or came late.           *)
(***************************************************************************)
EXTENDS Presence, SequenceTheorems, TLAPS

(* The inductive invariant is TypeOK together with TableBooks: a line is well
   typed because no thread names a row that never had a device. *)

Sound == TypeOK /\ TableBooks

LinkSteps == [at : {"stamp", "device", "state"}, mac : Devices, kind : Kinds,
              row : Rows, first : BOOLEAN]
SweepSteps == [at : {"emit", "free"}, row : Rows]
HostSteps == [at : {"emit", "free", "forget"}, row : Rows, mac : Devices]
             \cup [at : {"list"}, row : Rows]

\* What a thread that is busy has in hand.
LEMMA Hands ==
  ASSUME TypeOK
  PROVE  /\ link.at \in {"stamp", "device", "state"} =>
              link \in LinkSteps /\ link # Idle
         /\ sweep.at \in {"emit", "free"} => sweep \in SweepSteps /\ sweep # Idle
         /\ host.at \in {"emit", "free", "forget", "list"} =>
              host.row \in Rows /\ host \in HostSteps
         /\ host.at \in {"emit", "free", "forget"} => host.mac \in Devices
         /\ link # Idle => link.row \in Rows /\ link.mac \in Devices
         /\ sweep # Idle => sweep.row \in Rows
BY DEF TypeOK, Idle, LinkSteps, SweepSteps, HostSteps

LEMMA EmitType ==
  ASSUME TypeOK, NEW ev \in {"online", "info", "offline", "state"}, NEW d \in Devices,
         Emit(ev, d)
  PROVE  lines' \in Seq(Line) /\ Len(lines') <= MaxLines
<1>1. CASE up
  <2>1. [ev |-> ev, mac |-> d] \in Line
    BY DEF Line
  <2>2. lines' \in Seq(Line) /\ Len(lines') = Len(lines) + 1 /\ Len(lines) \in Nat
    BY <1>1, <2>1 DEF Emit, TypeOK
  <2> QED
    BY <1>1, <2>2, PresenceAssumption DEF Emit
<1>2. CASE ~up
  BY <1>2 DEF Emit, TypeOK
<1> QED
  BY <1>1, <1>2

LEMMA TailType ==
  ASSUME TypeOK, lines # <<>>
  PROVE  Head(lines) \in Line /\ Tail(lines) \in Seq(Line) /\ Len(Tail(lines)) <= MaxLines
<1>1. Head(lines) \in Line /\ Tail(lines) \in Seq(Line) /\ Len(Tail(lines)) = Len(lines) - 1
      /\ Len(lines) \in Nat
  BY DEF TypeOK
<1> QED
  BY <1>1, PresenceAssumption DEF TypeOK

LEMMA SoundInit == Init => Sound
<1> SUFFICES ASSUME Init PROVE Sound
  OBVIOUS
<1>1. peers \in [Rows -> Peer]
  BY DEF Init, Unused, Peer
<1>2. lines \in Seq(Line) /\ Len(lines) = 0
  BY DEF Init
<1>3. avail \in [Devices -> {"none", "online", "offline"}]
  BY DEF Init
<1>4. TypeOK
  <2>1. Len(lines) <= MaxLines /\ events \in 0..MaxEvents
    BY <1>2, PresenceAssumption DEF Init
  <2>2. link = Idle /\ sweep = Idle /\ host = Idle
    BY DEF Init
  <2>3. known \subseteq Devices /\ online \subseteq Devices /\ listed \subseteq Devices
        /\ quiet \subseteq Devices /\ pairing \in BOOLEAN /\ asked \in BOOLEAN
        /\ up \in BOOLEAN /\ linked \in BOOLEAN /\ turn = Idle /\ walk = Idle
        /\ missed \subseteq Devices /\ late \in BOOLEAN
    BY DEF Init
  <2> QED
    BY <1>1, <1>2, <1>3, <2>1, <2>2, <2>3, Zenon DEF TypeOK
<1>5. \A i \in Rows : ~peers[i].used
  BY DEF Init, Unused
<1>6. link = Idle /\ sweep = Idle /\ host.at # "emit"
  BY DEF Init, Idle
<1> QED
  BY <1>4, <1>5, <1>6 DEF Sound, TableBooks, OneRowEach, Has

-----------------------------------------------------------------------------
\* alloc_peer finds the device's row, or takes one nobody uses.
LEMMA AllocPeerRow ==
  ASSUME NEW d \in Devices, NEW i \in Rows, AllocPeer(d, i)
  PROVE  \/ Has(i, d)
         \/ ~peers[i].used /\ \A j \in Rows : ~Has(j, d)
BY DEF AllocPeer, First, Listed

\* A row that is freed or grows old keeps its address.
LEMMA KeepsBooks ==
  ASSUME Sound,
         \A j \in Rows : /\ peers'[j].mac = peers[j].mac
                         /\ peers'[j].used => peers[j].used,
         link' # Idle => link # Idle /\ link'.row = link.row /\ link'.mac = link.mac,
         sweep' # Idle => peers[sweep'.row].mac \in Devices /\ sweep'.row \in Rows,
         host'.at = "emit" => peers[host'.row].mac \in Devices /\ host'.row \in Rows
  PROVE  TableBooks'
<1>1. link # Idle => link.row \in Rows
  BY Hands DEF Sound
<1> QED
  BY <1>1 DEF Sound, TableBooks, OneRowEach, Has

LEMMA ReceiveStep ==
  ASSUME Sound, NEW d \in Devices, NEW kind \in Kinds, Receive(d, kind)
  PROVE  Sound'
<1>1. UNCHANGED <<pairing, sweep, host, asked, lines, bridge, quiet, events>>
      /\ known' \subseteq Devices
  BY DEF Receive, Sound, TypeOK
<1>2. ASSUME UNCHANGED <<peers, link>> PROVE Sound'
  BY <1>1, <1>2 DEF Sound, TypeOK, TableBooks, OneRowEach, Has, bridge, topics
<1>3. ASSUME NEW i \in Rows, AllocPeer(d, i),
             peers' = IF Has(i, d) THEN peers
                      ELSE [peers EXCEPT ![i] = [mac |-> d, used |-> TRUE, age |-> "zero"]],
             link' = [at |-> "stamp", mac |-> d, kind |-> kind, row |-> i, first |-> FALSE]
      PROVE  Sound'
  <2>1. link' \in LinkSteps /\ link'.row = i /\ link'.mac = d
    BY <1>3 DEF LinkSteps
  <2>2. CASE Has(i, d)
    <3>1. peers' = peers
      BY <1>3, <2>2
    <3>2. TypeOK'
      BY <1>1, <2>1, <3>1 DEF Sound, TypeOK, LinkSteps, bridge, topics
    <3> QED
      BY <1>1, <2>1, <2>2, <3>1, <3>2 DEF Sound, TableBooks, OneRowEach, Has
  <2>3. CASE ~Has(i, d)
    <3>1. ~peers[i].used /\ \A j \in Rows : ~Has(j, d)
      BY <1>3, <2>3, AllocPeerRow
    <3>2. [mac |-> d, used |-> TRUE, age |-> "zero"] \in Peer
      BY DEF Peer
    <3>3. /\ peers' \in [Rows -> Peer]
          /\ peers'[i].mac = d /\ peers'[i].used
          /\ \A j \in Rows : j # i => peers'[j] = peers[j]
      BY <1>3, <2>3, <3>2 DEF Sound, TypeOK
    <3>4. TypeOK'
      BY <1>1, <2>1, <3>3 DEF Sound, TypeOK, LinkSteps, bridge, topics
    <3>5. OneRowEach'
      BY <2>1, <3>1, <3>3 DEF Sound, TableBooks, OneRowEach, Has
    <3>6. \A j \in Rows : peers'[j].used => peers'[j].mac \in Devices
      BY <3>3 DEF Sound, TableBooks
    <3>7. \A j \in Rows : peers[j].mac \in Devices => peers'[j].mac \in Devices
      BY <3>3
    <3>8. /\ sweep # Idle => sweep.row \in Rows
          /\ host.at = "emit" => host.row \in Rows
      BY Hands DEF Sound
    <3> QED
      BY <1>1, <3>4, <3>5, <3>6, <3>7, <3>8 DEF Sound, TableBooks
  <2> QED
    BY <2>2, <2>3
<1> QED
  BY <1>2, <1>3 DEF Receive

\* A step of a thread that does not touch the table.
LEMMA EmittingStep ==
  ASSUME Sound, UNCHANGED <<peers, known, pairing, asked, bridge, quiet>>,
         lines' \in Seq(Line) /\ Len(lines') <= MaxLines,
         events' \in 0..MaxEvents,
         link' = Idle \/ (link' \in LinkSteps /\ link # Idle /\ link'.row = link.row
                                             /\ link'.mac = link.mac),
         sweep' = Idle \/ (sweep' \in SweepSteps /\ peers[sweep'.row].mac \in Devices),
         host' = Idle \/ (host' \in HostSteps
                            /\ (host'.at = "emit" => peers[host'.row].mac \in Devices))
  PROVE  Sound'
<1>1. TypeOK'
  BY DEF Sound, TypeOK, LinkSteps, SweepSteps, HostSteps, bridge, topics
<1>2. host'.at = "emit" => host' # Idle
  BY DEF Idle
<1> QED
  BY <1>1, <1>2 DEF Sound, TableBooks, OneRowEach, Has

\* What the threads have in hand when they do not move.
LEMMA InHand ==
  ASSUME Sound
  PROVE  /\ link = Idle \/ (link \in LinkSteps /\ link # Idle)
         /\ sweep = Idle \/ (sweep \in SweepSteps /\ peers[sweep.row].mac \in Devices)
         /\ host = Idle \/ (host \in HostSteps
                               /\ (host.at = "emit" => peers[host.row].mac \in Devices))
BY DEF Sound, TypeOK, TableBooks, LinkSteps, SweepSteps, HostSteps

LEMMA LinkSound ==
  ASSUME Sound, EmitDevice \/ EmitState PROVE Sound'
<1>1. /\ link \in LinkSteps /\ link # Idle /\ link.mac \in Devices
      /\ peers[link.row].mac = link.mac
  BY Hands DEF EmitDevice, EmitState, Sound, TableBooks, OneRowEach
<1>2. lines' \in Seq(Line) /\ Len(lines') <= MaxLines
  <2>1. CASE EmitDevice
    BY <1>1, <2>1, EmitType DEF EmitDevice, Sound
  <2>2. CASE EmitState
    BY <1>1, <2>2, EmitType DEF EmitState, Sound
  <2> QED
    BY <2>1, <2>2
<1>3. link' = Idle \/ (link' \in LinkSteps /\ link'.row = link.row /\ link'.mac = link.mac)
  BY <1>1 DEF EmitDevice, EmitState, LinkSteps
<1>4. UNCHANGED <<peers, known, pairing, asked, bridge, quiet, sweep,
                  host, events>>
  BY DEF EmitDevice, EmitState
<1>5. events' \in 0..MaxEvents
  BY <1>4 DEF Sound, TypeOK
<1> QED
  BY <1>1, <1>2, <1>3, <1>4, <1>5, InHand, EmittingStep

LEMMA SweepSound ==
  ASSUME Sound, (\E i \in Rows : SweepFind(i)) \/ SweepEmit PROVE Sound'
<1>1. ASSUME NEW i \in Rows, SweepFind(i) PROVE Sound'
  <2>1. sweep' \in SweepSteps /\ sweep'.row = i /\ peers[i].mac \in Devices
    BY <1>1 DEF SweepFind, SweepSteps, Sound, TableBooks
  <2>2. events' \in 0..MaxEvents
    BY <1>1, PresenceAssumption DEF SweepFind, Event, Sound, TypeOK
  <2>3. /\ UNCHANGED <<peers, known, pairing, asked, bridge, quiet,
                       link, host, lines>>
        /\ lines \in Seq(Line) /\ Len(lines) <= MaxLines
    BY <1>1 DEF SweepFind, Sound, TypeOK
  <2> QED
    BY <2>1, <2>2, <2>3, InHand, EmittingStep
<1>2. CASE SweepEmit
  <2>1. sweep \in SweepSteps /\ peers[sweep.row].mac \in Devices
    BY <1>2, Hands DEF SweepEmit, Sound, TableBooks
  <2>2. lines' \in Seq(Line) /\ Len(lines') <= MaxLines
    BY <1>2, <2>1, EmitType DEF SweepEmit, Sound
  <2>3. sweep' \in SweepSteps /\ sweep'.row = sweep.row
    BY <1>2, <2>1 DEF SweepEmit, SweepSteps
  <2>4. /\ UNCHANGED <<peers, known, pairing, asked, bridge, quiet,
                       link, host>>
        /\ events' \in 0..MaxEvents
    BY <1>2 DEF SweepEmit, Sound, TypeOK
  <2> QED
    BY <2>1, <2>2, <2>3, <2>4, InHand, EmittingStep
<1> QED
  BY <1>1, <1>2

LEMMA HostEmitSound ==
  ASSUME Sound, UnpairEmit \/ ListRow PROVE Sound'
<1>1. host.row \in Rows /\ host \in HostSteps /\ (host.at = "emit" => host.mac \in Devices)
  BY Hands DEF UnpairEmit, ListRow, Sound
<1>2. lines' \in Seq(Line) /\ Len(lines') <= MaxLines
  <2>1. CASE UnpairEmit
    BY <2>1, EmitType DEF UnpairEmit, Sound, TableBooks
  <2>2. CASE ListRow /\ peers[host.row].used
    BY <1>1, <2>2, EmitType DEF ListRow, Sound, TableBooks
  <2>3. CASE ListRow /\ ~peers[host.row].used
    BY <2>3 DEF ListRow, Sound, TypeOK
  <2> QED
    BY <2>1, <2>2, <2>3
<1>3. host' = Idle \/ (host' \in HostSteps /\ host'.at # "emit")
  <2>1. CASE UnpairEmit
    BY <1>1, <2>1 DEF UnpairEmit, HostSteps
  <2>2. CASE ListRow
    <3>1. host \in [at : {"list"}, row : Rows]
      BY <1>1, <2>2 DEF ListRow, HostSteps
    <3>2. host.row # MaxPeers => host.row + 1 \in Rows
      BY <1>1, PresenceAssumption DEF Rows
    <3> QED
      BY <2>2, <3>1, <3>2 DEF ListRow, HostSteps
  <2> QED
    BY <2>1, <2>2
<1>4. /\ UNCHANGED <<peers, known, pairing, asked, bridge, quiet,
                     link, sweep>>
      /\ events' \in 0..MaxEvents
  BY DEF UnpairEmit, ListRow, Sound, TypeOK
<1> QED
  BY <1>2, <1>3, <1>4, InHand, EmittingStep

\* What stamping, ageing and freeing do to one row.
LEMMA PeerAged ==
  ASSUME NEW p \in Peer, NEW age \in {"zero", "recent", "old"}
  PROVE  /\ [p EXCEPT !.age = age] \in Peer
         /\ [p EXCEPT !.age = age].mac = p.mac
         /\ [p EXCEPT !.age = age].used = p.used
BY DEF Peer

LEMMA PeerFreed ==
  ASSUME NEW p \in Peer
  PROVE  /\ [p EXCEPT !.used = FALSE] \in Peer
         /\ [p EXCEPT !.used = FALSE].mac = p.mac
         /\ ~[p EXCEPT !.used = FALSE].used
BY DEF Peer

\* The steps that stamp, free or age a row: its address stays.
LEMMA RowSound ==
  ASSUME Sound, Stamp \/ SweepFree \/ UnpairFree \/ \E i \in Rows : GrowsOld(i)
  PROVE  Sound'
<1>1. /\ UNCHANGED <<known, pairing, asked, lines, bridge, quiet, events>>
      /\ peers \in [Rows -> Peer]
  BY DEF Stamp, SweepFree, UnpairFree, GrowsOld, Sound, TypeOK
<1>2. PICK i \in Rows : \/ peers' = [peers EXCEPT ![i].age = "recent"]
                        \/ peers' = [peers EXCEPT ![i].age = "old"]
                        \/ peers' = [peers EXCEPT ![i].used = FALSE]
  BY Hands DEF Stamp, SweepFree, UnpairFree, GrowsOld, Sound
<1>3. /\ peers' \in [Rows -> Peer]
      /\ \A j \in Rows : /\ peers'[j].mac = peers[j].mac
                         /\ peers'[j].used => peers[j].used
  <2>1. peers[i] \in Peer
    BY <1>1
  <2>2. PICK p \in Peer : /\ peers' = [peers EXCEPT ![i] = p]
                          /\ p.mac = peers[i].mac /\ (p.used => peers[i].used)
    <3>1. CASE peers' = [peers EXCEPT ![i].age = "recent"]
      BY <2>1, <3>1, PeerAged
    <3>2. CASE peers' = [peers EXCEPT ![i].age = "old"]
      BY <2>1, <3>2, PeerAged
    <3>3. CASE peers' = [peers EXCEPT ![i].used = FALSE]
      BY <2>1, <3>3, PeerFreed
    <3> QED
      BY <1>2, <3>1, <3>2, <3>3
  <2> QED
    BY <1>1, <2>2
<1>4. link' = Idle \/ (/\ link' \in LinkSteps /\ link # Idle
                        /\ link'.row = link.row /\ link'.mac = link.mac)
  <2>1. CASE Stamp
    <3>1. link \in LinkSteps /\ link # Idle
      BY <2>1, Hands DEF Stamp, Sound
    <3>2. AfterStamp \in {"device", "state", "idle"}
      BY <3>1 DEF AfterStamp, LinkSteps, Kinds
    <3>3. (peers[link.row].age = "zero") \in BOOLEAN
      OBVIOUS
    <3> QED
      BY <2>1, <3>1, <3>2, <3>3 DEF Stamp, LinkSteps
  <2>2. CASE ~Stamp
    BY <2>2, InHand DEF SweepFree, UnpairFree, GrowsOld
  <2> QED
    BY <2>1, <2>2
<1>5. sweep' = Idle \/ (sweep' = sweep /\ sweep \in SweepSteps
                         /\ peers[sweep.row].mac \in Devices)
  BY InHand DEF Stamp, SweepFree, UnpairFree, GrowsOld
<1>6. host' = Idle \/ (host' \in HostSteps
                        /\ (host'.at = "emit" => peers[host'.row].mac \in Devices))
  <2>1. CASE UnpairFree
    <3>1. host \in [at : {"emit", "free", "forget"}, row : Rows, mac : Devices]
      BY <2>1, Hands DEF UnpairFree, HostSteps, Sound
    <3> QED
      BY <2>1, <3>1 DEF UnpairFree, HostSteps
  <2>2. CASE ~UnpairFree
    BY <2>2, InHand DEF Stamp, SweepFree, GrowsOld
  <2> QED
    BY <2>1, <2>2
<1>7. TypeOK'
  BY <1>1, <1>3, <1>4, <1>5, <1>6
     DEF Sound, TypeOK, LinkSteps, SweepSteps, HostSteps, bridge, topics
<1>8. host'.at = "emit" => host' # Idle
  BY DEF Idle
<1>9. host'.at = "emit" => host'.row \in Rows
  BY <1>6, <1>8 DEF HostSteps
<1>10. sweep' # Idle => sweep'.row \in Rows
  BY <1>5 DEF SweepSteps
<1>11. TableBooks'
  <2>1. link' # Idle => link # Idle /\ link'.row = link.row /\ link'.mac = link.mac
    BY <1>4
  <2>2. sweep' # Idle => peers[sweep'.row].mac \in Devices /\ sweep'.row \in Rows
    BY <1>5, <1>10
  <2>3. host'.at = "emit" => peers[host'.row].mac \in Devices /\ host'.row \in Rows
    BY <1>6, <1>8, <1>9
  <2> QED
    BY <1>3, <2>1, <2>2, <2>3, KeepsBooks
<1> QED
  BY <1>7, <1>11 DEF Sound

\* The steps of the bridge: its variables keep their types.
LEMMA SerialType ==
  ASSUME Sound, SerialThread
  PROVE  /\ turn' = Idle \/ turn' \in [at : {"tell", "save"}, mac : Devices,
                                     ev : {"online", "info", "offline", "state"}]
         /\ online' \subseteq Devices /\ listed' \subseteq Devices /\ missed' \subseteq Devices
         /\ avail' \in [Devices -> {"none", "online", "offline"}] /\ late' \in BOOLEAN
         /\ UNCHANGED <<up, linked, walk>>
<1>1. CASE HandleSerial
  <2>1. Head(lines) \in Line
    BY <1>1, TailType DEF HandleSerial, Sound
  <2>2. PICK d \in Devices, ev \in {"online", "info", "offline", "state"} :
          Head(lines) = [ev |-> ev, mac |-> d]
    BY <2>1 DEF Line
  <2>3. UNCHANGED <<up, linked, walk, avail, listed, missed, late>>
    BY <1>1 DEF HandleSerial, topics
  <2>4. online' \subseteq Devices
        /\ (turn' = Idle \/ turn' \in [at : {"tell", "save"}, mac : Devices,
                                     ev : {"online", "info", "offline", "state"}])
    BY <1>1, <2>2 DEF HandleSerial, OnState, DeviceEvent, Sound, TypeOK
  <2> QED
    BY <2>3, <2>4 DEF Sound, TypeOK
<1>2. CASE Tell
  <2>1. turn \in [at : {"tell", "save"}, mac : Devices,
                 ev : {"online", "info", "offline", "state"}]
    BY <1>2 DEF Tell, Sound, TypeOK, Idle
  <2>2. [turn EXCEPT !.at = "save"] \in [at : {"tell", "save"}, mac : Devices,
                 ev : {"online", "info", "offline", "state"}]
    BY <2>1
  <2> QED
    BY <1>2, <2>1, <2>2 DEF Tell, Sound, TypeOK
<1>3. CASE Save
  BY <1>3 DEF Save, Sound, TypeOK
<1> QED
  BY <1>1, <1>2, <1>3 DEF SerialThread

LEMMA MqttType ==
  ASSUME Sound, MqttThread \/ BridgeStops \/ BridgeStarts \/ LinkBreaks
  PROVE  /\ turn' = Idle \/ turn' = turn
         /\ walk' \in {Idle} \cup [left : SUBSET Devices, on : SUBSET Devices]
         /\ online' \subseteq Devices /\ listed' \subseteq Devices
         /\ late' \in BOOLEAN /\ up' \in BOOLEAN /\ linked' \in BOOLEAN
         /\ UNCHANGED <<avail, missed>>
<1>1. CASE ReadDevice
  <2>1. walk \in [left : SUBSET Devices, on : SUBSET Devices]
    BY <1>1 DEF ReadDevice, Sound, TypeOK
  <2>2. PICK d \in walk.left : walk' = [left |-> walk.left \ {d},
                                       on |-> walk.on \cup (online \cap {d})]
    BY <1>1 DEF ReadDevice
  <2>3. walk' \in [left : SUBSET Devices, on : SUBSET Devices]
    BY <2>1, <2>2 DEF Sound, TypeOK
  <2> QED
    BY <1>1, <2>3 DEF ReadDevice, topics, Sound, TypeOK
<1>2. CASE ListPublish
  <2>1. walk.on \subseteq Devices /\ walk' = Idle
    BY <1>2 DEF ListPublish, Sound, TypeOK
  <2>2. (walk.on # online) \in BOOLEAN
    OBVIOUS
  <2>3. listed' \subseteq Devices /\ late' \in BOOLEAN
    BY <1>2, <2>1, <2>2 DEF ListPublish, Sound, TypeOK
  <2> QED
    BY <1>2, <2>1, <2>3 DEF ListPublish, Sound, TypeOK
<1>3. CASE Reconnects \/ BridgeStarts
  <2>1. Walking \in [left : SUBSET Devices, on : SUBSET Devices]
    BY DEF Walking
  <2>2. walk' = Walking /\ up' \in BOOLEAN /\ linked' \in BOOLEAN
        /\ UNCHANGED <<turn, online, topics>>
    BY <1>3 DEF Reconnects, BridgeStarts, Sound, TypeOK
  <2> QED
    BY <2>1, <2>2 DEF topics, Sound, TypeOK
<1>4. CASE BridgeStops
  <2>1. late' \in BOOLEAN
    BY <1>4 DEF BridgeStops, Sound, TypeOK
  <2> QED
    BY <1>4, <2>1 DEF BridgeStops, Sound, TypeOK
<1>5. CASE LinkBreaks
  BY <1>5 DEF LinkBreaks, topics, Sound, TypeOK
<1> QED
  BY <1>1, <1>2, <1>3, <1>4, <1>5 DEF MqttThread

\* What every step of the bridge leaves alone, and what it does to the lines.
LEMMA BridgeSound ==
  ASSUME Sound, SerialThread \/ MqttThread \/ BridgeStops \/ BridgeStarts \/ LinkBreaks
  PROVE  Sound'
<1>1. UNCHANGED <<peers, known, pairing, link, sweep, host, quiet>> /\ asked' \in BOOLEAN
  BY DEF SerialThread, HandleSerial, Tell, Save, MqttThread, Reconnects, ReadDevice,
         ListPublish, BridgeStops, BridgeStarts, LinkBreaks, coordinator, Sound, TypeOK
<1>2. lines' \in Seq(Line) /\ Len(lines') <= MaxLines
  <2>1. CASE lines' = lines
    BY <2>1 DEF Sound, TypeOK
  <2>2. CASE lines' = <<>>
    BY <2>2, PresenceAssumption
  <2>3. CASE lines # <<>> /\ lines' = Tail(lines)
    BY <2>3, TailType DEF Sound
  <2> QED
    BY <2>1, <2>2, <2>3
       DEF SerialThread, HandleSerial, Tell, Save, MqttThread, Reconnects, ReadDevice,
           ListPublish, BridgeStops, BridgeStarts, LinkBreaks
<1>3. events' \in 0..MaxEvents
  BY PresenceAssumption
     DEF SerialThread, HandleSerial, Tell, Save, MqttThread, Reconnects, ReadDevice,
         ListPublish, BridgeStops, BridgeStarts, LinkBreaks, Event, Sound, TypeOK
<1>4. /\ turn' \in {Idle} \cup [at : {"tell", "save"}, mac : Devices,
                              ev : {"online", "info", "offline", "state"}]
      /\ walk' \in {Idle} \cup [left : SUBSET Devices, on : SUBSET Devices]
      /\ up' \in BOOLEAN /\ linked' \in BOOLEAN
      /\ online' \subseteq Devices /\ listed' \subseteq Devices /\ missed' \subseteq Devices
      /\ avail' \in [Devices -> {"none", "online", "offline"}] /\ late' \in BOOLEAN
  BY SerialType, MqttType DEF Sound, TypeOK
<1>5. TypeOK'
  BY <1>1, <1>2, <1>3, <1>4 DEF Sound, TypeOK
<1> QED
  BY <1>1, <1>5 DEF Sound, TableBooks, OneRowEach, Has

\* The steps that touch neither the table nor what a thread has in hand,
\* except to begin an unpairing or a list.
LEMMA OutsideSound ==
  ASSUME Sound,
         \/ \E d \in Devices : RouteExpires(d) \/ UnpairLine(d) \/ GoesQuiet(d) \/ Returns(d)
         \/ PairingCloses \/ PairLine \/ UnpairForget \/ ListLine \/ LineLost
  PROVE  Sound'
<1>1. UNCHANGED <<peers, link, sweep, bridge>>
  BY DEF RouteExpires, UnpairLine, GoesQuiet, Returns, PairingCloses, PairLine,
         UnpairForget, ListLine, LineLost, coordinator
<1>2. host' = Idle \/ (host' \in HostSteps
                        /\ (host'.at = "emit" => peers[host'.row].mac \in Devices))
  <2>1. ASSUME NEW d \in Devices, UnpairLine(d) PROVE <1>2!1 \/ <1>2!2
    <3>1. CASE host' = host
      BY <3>1, InHand
    <3>2. CASE host' # host
      <4>1. PICK i \in Rows : /\ Listed(d) /\ AllocPeer(d, i)
                              /\ host' = [at |-> "emit", row |-> i, mac |-> d]
        BY <2>1, <3>2 DEF UnpairLine
      <4>2. Has(i, d)
        BY <4>1 DEF AllocPeer, First, Listed
      <4> QED
        BY <4>1, <4>2 DEF HostSteps, Has
    <3> QED
      BY <3>1, <3>2
  <2>2. CASE ListLine
    BY <2>2, PresenceAssumption DEF ListLine, HostSteps, Rows
  <2>3. CASE host' = host \/ host' = Idle
    BY <2>3, InHand
  <2> QED
    BY <2>1, <2>2, <2>3
       DEF RouteExpires, GoesQuiet, Returns, PairingCloses, PairLine, UnpairForget,
           LineLost, coordinator
<1>3. lines' \in Seq(Line) /\ Len(lines') <= MaxLines
  <2>1. CASE lines' = lines
    BY <2>1 DEF Sound, TypeOK
  <2>2. CASE lines # <<>> /\ lines' = Tail(lines)
    BY <2>2, TailType DEF Sound
  <2> QED
    BY <2>1, <2>2
       DEF RouteExpires, UnpairLine, GoesQuiet, Returns, PairingCloses, PairLine,
           UnpairForget, ListLine, LineLost
<1>4. known' \subseteq Devices /\ quiet' \subseteq Devices /\ pairing' \in BOOLEAN
      /\ asked' \in BOOLEAN
  BY DEF RouteExpires, UnpairLine, GoesQuiet, Returns, PairingCloses, PairLine,
         UnpairForget, ListLine, LineLost, coordinator, Sound, TypeOK
<1>5. events' \in 0..MaxEvents
  BY PresenceAssumption
     DEF RouteExpires, UnpairLine, GoesQuiet, Returns, PairingCloses, PairLine,
         UnpairForget, ListLine, LineLost, Event, Sound, TypeOK
<1>6. TypeOK'
  BY <1>1, <1>2, <1>3, <1>4, <1>5 DEF Sound, TypeOK, HostSteps, bridge, topics
<1>7. host'.at = "emit" => host' # Idle
  BY DEF Idle
<1> QED
  BY <1>1, <1>2, <1>6, <1>7 DEF Sound, TableBooks, OneRowEach, Has

LEMMA RestartSound == ASSUME Sound, CoordinatorRestarts PROVE Sound'
<1>1. peers' \in [Rows -> Peer] /\ \A i \in Rows : ~peers'[i].used
  BY DEF CoordinatorRestarts, Unused, Peer
<1>2. link' = Idle /\ sweep' = Idle /\ host' = Idle /\ host'.at # "emit"
  BY DEF CoordinatorRestarts, Idle
<1>3. events' \in 0..MaxEvents
  BY PresenceAssumption DEF CoordinatorRestarts, Event, Sound, TypeOK
<1>4. TypeOK'
  BY <1>1, <1>2, <1>3 DEF CoordinatorRestarts, bridge, topics, Sound, TypeOK
<1> QED
  BY <1>1, <1>2, <1>4 DEF Sound, TableBooks, OneRowEach, Has

LEMMA SoundStep == ASSUME Sound, [Next]_vars PROVE Sound'
<1>1. CASE Next
  BY <1>1, ReceiveStep, LinkSound, SweepSound, HostEmitSound, RowSound, BridgeSound,
     OutsideSound, RestartSound DEF Next, En2mTask, Housekeeping, UsbRxTask
<1>2. CASE UNCHANGED vars
  BY <1>2 DEF vars, coordinator, bridge, topics, Sound, TypeOK, TableBooks, OneRowEach, Has
<1> QED
  BY <1>1, <1>2

-----------------------------------------------------------------------------
\* Every variable keeps its type: no thread names a row that never had a device.
THEOREM PresenceTypeCorrect == Spec => []TypeOK
<1>1. Sound /\ [Next]_vars => Sound'
  BY SoundStep
<1>2. Sound => TypeOK
  BY DEF Sound
<1> QED
  BY <1>1, <1>2, SoundInit, PTL DEF Spec

\* A device has one row and on_uplink's row stays its device's, although the
\* sweep, unpair and on_uplink use s_peers without a lock.
THEOREM OneRowEachHolds == Spec => []OneRowEach
<1>1. Sound /\ [Next]_vars => Sound'
  BY SoundStep
<1>2. Sound => OneRowEach
  BY DEF Sound, TableBooks
<1> QED
  BY <1>1, <1>2, SoundInit, PTL DEF Spec

-----------------------------------------------------------------------------
(* The topics.  BrokerAgrees alone is not inductive: a list published after a  *)
(* line needs to know that the availability of that line is out.               *)

TurnBooks == turn.at = "tell" => (turn.ev = "offline" <=> turn.mac \notin online)

Topics == BrokerAgrees /\ TurnBooks

LEMMA SerialTopics ==
  ASSUME TypeOK, Topics, SerialThread PROVE Topics'
<1>1. CASE HandleSerial
  <2>1. Head(lines) \in Line
    BY <1>1, TailType DEF HandleSerial
  <2>2. PICK d \in Devices, ev \in {"online", "info", "offline", "state"} :
          Head(lines) = [ev |-> ev, mac |-> d]
    BY <2>1 DEF Line
  <2>3. UNCHANGED <<avail, listed, missed, late>> /\ turn = Idle
    BY <1>1 DEF HandleSerial, topics
  <2>4. \/ ev = "state" /\ d \in online /\ online' = online \cup {d} /\ turn' = Idle
        \/ /\ ev = "state" /\ online' = online \cup {d}
           /\ turn' = [at |-> "tell", mac |-> d, ev |-> "state"]
        \/ /\ ev = "online" /\ online' = online \cup {d}
           /\ turn' = [at |-> "tell", mac |-> d, ev |-> "online"]
        \/ /\ ev = "offline" /\ online' = online \ {d}
           /\ turn' = [at |-> "tell", mac |-> d, ev |-> "offline"]
        \/ /\ ev = "info" /\ online' = online
           /\ turn' = [at |-> "save", mac |-> d, ev |-> "info"]
    BY <1>1, <2>2 DEF HandleSerial, OnState, DeviceEvent
  <2>5. Idle.at = "idle"
    BY DEF Idle
  <2>6. TurnBooks'
    <3> SUFFICES ASSUME turn'.at = "tell"
                 PROVE  turn'.ev = "offline" <=> turn'.mac \notin online'
      BY DEF TurnBooks
    <3> QED
      BY <2>4, <2>5
  <2>7. BrokerAgrees'
    <3>1. /\ \A e \in online \ missed : avail[e] = "online"
          /\ ~late => \A e \in listed \ missed : avail[e] = "online"
      BY <2>3, <2>5 DEF Topics, BrokerAgrees
    <3> QED
      BY <2>3, <2>4, <3>1 DEF BrokerAgrees
  <2> QED
    BY <2>6, <2>7 DEF Topics
<1>2. CASE Tell
  <2> DEFINE word == IF turn.ev = "offline" THEN "offline" ELSE "online"
  <2>1. turn \in [at : {"tell", "save"}, mac : Devices,
                 ev : {"online", "info", "offline", "state"}] /\ turn.at = "tell"
    BY <1>2 DEF Tell, TypeOK, Idle
  <2>2. UNCHANGED <<online, listed, late>>
    BY <1>2 DEF Tell
  <2>3. \/ turn' = Idle /\ word = "online"
        \/ turn'.at = "save" /\ turn' # Idle /\ turn'.mac = turn.mac
    BY <1>2, <2>1 DEF Tell, Idle
  <2>4. \A e \in Devices \ {turn.mac} : avail'[e] = avail[e]
    BY <1>2, <2>1 DEF Tell, TypeOK
  <2>5. \A e \in Devices \ {turn.mac} : e \in missed' <=> e \in missed
    BY <1>2 DEF Tell
  <2>6. turn.mac \notin missed' => avail'[turn.mac] = word
    BY <1>2, <2>1 DEF Tell, TypeOK
  <2>7. turn.mac \in online => word = "online"
    BY <2>1 DEF Topics, TurnBooks
  <2>8. online \subseteq Devices /\ listed \subseteq Devices
    BY DEF TypeOK
  <2>9. TurnBooks'
    BY <2>3 DEF TurnBooks, Idle
  <2>10. BrokerAgrees'
    <3>1. ASSUME NEW e \in online' \ missed' PROVE avail'[e] = "online"
      BY <2>2, <2>4, <2>5, <2>6, <2>7, <2>8, <3>1 DEF Topics, BrokerAgrees
    <3>2. ASSUME ~late', NEW e \in listed' \ missed', e # turn.mac
          PROVE  avail'[e] = "online"
      BY <2>2, <2>4, <2>5, <2>8, <3>2 DEF Topics, BrokerAgrees
    <3>3. ASSUME turn.mac \notin missed'
          PROVE  avail'[turn.mac] = "online" \/ (turn' # Idle /\ turn'.mac = turn.mac)
      BY <2>3, <2>6, <3>3
    <3> QED
      BY <3>1, <3>2, <3>3 DEF BrokerAgrees
  <2> QED
    BY <2>9, <2>10 DEF Topics
<1>3. CASE Save
  <2>1. UNCHANGED <<online, avail, missed>> /\ turn' = Idle /\ turn.at = "save"
    BY <1>3 DEF Save
  <2>2. ~late' => listed' = online
    BY <1>3 DEF Save
  <2>3. \A e \in online \ missed : avail[e] = "online"
    BY <2>1 DEF Topics, BrokerAgrees
  <2> QED
    BY <2>1, <2>2, <2>3 DEF Topics, TurnBooks, BrokerAgrees, Idle
<1> QED
  BY <1>1, <1>2, <1>3 DEF SerialThread

LEMMA MqttTopics ==
  ASSUME TypeOK, Topics, MqttThread \/ BridgeStops \/ BridgeStarts \/ LinkBreaks
  PROVE  Topics'
<1>1. CASE ListPublish
  <2>1. UNCHANGED <<turn, online, avail, missed>>
    BY <1>1 DEF ListPublish
  <2>2. UNCHANGED <<listed, late>> \/ (~late' => listed' = online)
    BY <1>1 DEF ListPublish
  <2>3. turn.at = "tell" => turn # Idle
    BY DEF Idle
  <2> QED
    BY <2>1, <2>2, <2>3 DEF Topics, TurnBooks, BrokerAgrees
<1>2. CASE BridgeStops
  <2>1. online' = {} /\ turn' = Idle /\ UNCHANGED <<avail, listed, missed>>
        /\ (~late' => ~late /\ turn = Idle)
    BY <1>2 DEF BridgeStops
  <2> QED
    BY <2>1 DEF Topics, TurnBooks, BrokerAgrees, Idle
<1>3. CASE Reconnects \/ ReadDevice \/ BridgeStarts \/ LinkBreaks
  <2>1. UNCHANGED <<turn, online, topics>>
    BY <1>3 DEF Reconnects, ReadDevice, BridgeStarts, LinkBreaks
  <2> QED
    BY <2>1 DEF topics, Topics, TurnBooks, BrokerAgrees
<1> QED
  BY <1>1, <1>2, <1>3 DEF MqttThread

\* The coordinator and the surroundings do not touch the topics.
LEMMA OtherTopics ==
  ASSUME Topics, UNCHANGED bridge PROVE Topics'
BY DEF bridge, topics, Topics, TurnBooks, BrokerAgrees

\* What the bridge or its device list holds for online has availability
\* online, but for the line at hand and for publishes that were lost or late.
THEOREM BrokerAgreesHolds == Spec => []BrokerAgrees
<1>1. Init => Topics
  BY DEF Init, Topics, TurnBooks, BrokerAgrees, Idle
<1>2. ASSUME TypeOK, Topics, [Next]_vars PROVE Topics'
  <2>1. CASE SerialThread \/ MqttThread \/ BridgeStops \/ BridgeStarts \/ LinkBreaks
    BY <1>2, <2>1, SerialTopics, MqttTopics
  <2>2. CASE UNCHANGED bridge
    BY <1>2, <2>2, OtherTopics
  <2> QED
    BY <1>2, <2>1, <2>2
       DEF Next, vars, En2mTask, Housekeeping, UsbRxTask, Receive, Stamp, EmitDevice,
           EmitState, RouteExpires, PairingCloses, SweepFind, SweepEmit, SweepFree,
           PairLine, UnpairLine, UnpairEmit, UnpairFree, UnpairForget, ListLine, ListRow,
           GoesQuiet, Returns, GrowsOld, LineLost, CoordinatorRestarts
<1>3. TypeOK /\ Topics /\ [Next]_vars => Topics'
  BY <1>2
<1>4. Topics => BrokerAgrees
  BY DEF Topics
<1> QED
  BY <1>1, <1>3, <1>4, PresenceTypeCorrect, PTL DEF Spec
=============================================================================
