------------------------ MODULE BridgeCommands_proofs ------------------------
(***************************************************************************)
(* Theorems about BridgeCommands: whatever the two threads of the bridge   *)
(* and the coordinator do, a result belongs to its command, and together   *)
(* they implement CommandResults.                                          *)
(***************************************************************************)
EXTENDS BridgeCommands, FiniteSetTheorems, TLAPS

USE DEF Threads

\* The assumptions in the form the provers use.
LEMMA Constants ==
  /\ IdModulus \in Nat /\ IdModulus > 0 /\ MaxAsked \in Nat /\ MaxRestarts \in Nat
  /\ 0 \in WireIds /\ 0 \in 0..MaxAsked /\ 1 \in Keys
  /\ Nothing \notin Asked /\ Nothing \notin Ack /\ Nothing \notin Devices
  /\ Keys \subseteq Nat /\ Serial \subseteq Nat /\ 0 \notin Serial
  /\ \A n \in Nat : n % IdModulus \in WireIds
BY BoundsAssumption, NothingAssumption DEF WireIds, Keys, Serial

-----------------------------------------------------------------------------
(* Type correctness. *)

\* The initial states have their types.
LEMMA InitType == Init => TypeOK
<1> SUFFICES ASSUME Init PROVE TypeOK
  OBVIOUS
<1>1. 0 \in 0..MaxAsked /\ 0 \in 0..MaxRestarts /\ 1 \in Keys
  BY Constants
<1>2. QED
  BY <1>1 DEF Init, TypeOK, Coordinator!Init

\* Dropping what is in hand keeps the types.
LEMMA DropHandType ==
  ASSUME TypeOK, NEW place \in {"idle", "dead"}, MqttTo(place) \/ SerialToIdle
  PROVE  /\ at' \in [Threads -> {"idle", "find", "scan", "drop", "dead"}]
         /\ size' \in [Threads -> Nat] /\ stale' \in [Threads -> SUBSET Keys]
         /\ want' \in Devices \cup {Nothing}
         /\ cmd' \in Asked \cup {Nothing} /\ ack' \in Ack \cup {Nothing}
         /\ got' \in 0..MaxAsked
BY Constants DEF TypeOK, MqttTo, SerialToIdle

\* The next command is one, while commands are left to ask for.
LEMMA FreshType ==
  ASSUME TypeOK, CommandBooks, want \in Devices, nextId \in Keys,
         Cardinality(asked) < MaxAsked
  PROVE  Fresh \in Asked
<1>1. Cardinality(asked) \in Nat
  BY FS_CardinalityType DEF CommandBooks, AskedBooks
<1>2. Cardinality(asked) + 1 \in Serial
  BY <1>1, Constants DEF Serial
<1>3. nextId % IdModulus \in WireIds
  BY Constants
<1>4. QED
  BY <1>2, <1>3 DEF Fresh, Asked

\* What the coordinator does keeps the types of its variables.
LEMMA ServiceType ==
  ASSUME TypeOK,
         \/ \E c \in issued : Coordinator!Run(c)
         \/ \E c \in open : Coordinator!Settle(c)
         \/ \E S \in SUBSET open : Coordinator!GiveUp(S)
         \/ \E c \in ran : Coordinator!TellOk(c)
         \/ \E c \in lost : Coordinator!TellTimeout(c) \/ Coordinator!DropAnswer(c)
         \/ Coordinator!Forget
  PROVE  /\ issued' \cup open' \cup ran' \cup settled' \cup lost' \subseteq Coordinator!Command
         /\ told' \subseteq Ack
<1>1. ASSUME NEW c \in Coordinator!Command
      PROVE  /\ [mac |-> c.dest, id |-> c.id, ser |-> 0, line |-> "ok"] \in Ack
             /\ [mac |-> c.dest, id |-> c.id, ser |-> c.ser, line |-> "timeout"] \in Ack
  BY Constants DEF Coordinator!Command, Ack, Serial
<1>2. QED
  BY <1>1 DEF TypeOK, Coordinator!Run, Coordinator!Settle, Coordinator!GiveUp,
     Coordinator!TellOk, Coordinator!TellTimeout, Coordinator!DropAnswer, Coordinator!Forget

Sound == TypeOK /\ CommandBooks

\* Every step keeps the types.
LEMMA NextType == Sound /\ [Next]_vars => TypeOK'
<1> SUFFICES ASSUME Sound, [Next]_vars PROVE TypeOK'
  OBVIOUS
<1> USE DEF Sound
<1> USE Constants
<1>0. Cardinality(devices) \in Nat /\ Cardinality(pending) \in Nat
  <2>1. IsFiniteSet(devices)
    BY BoundsAssumption, FS_Subset DEF TypeOK
  <2>2. IsFiniteSet(pending)
    BY DEF CommandBooks, PendingBooks
  <2>3. QED
    BY <2>1, <2>2, FS_CardinalityType
<1>1. ASSUME NEW d \in Devices, SetMessage(d) PROVE TypeOK'
  BY <1>0, <1>1 DEF SetMessage, service, TypeOK
<1>2. CASE FindFails \/ UnknownSlug
  <2>1. MqttTo("idle") \/ MqttTo("dead")
    BY <1>2 DEF FindFails, UnknownSlug, Raises
  <2>2. QED
    BY <1>2, <2>1, DropHandType DEF FindFails, UnknownSlug, service, TypeOK
<1>3. CASE Record
  <2>1. Fresh \in Asked
    BY <1>3, FreshType DEF Record, TypeOK, CommandBooks, HandBooks
  <2>2. Cardinality(asked) \in Nat
    BY FS_CardinalityType DEF CommandBooks, AskedBooks
  <2>3. nextId' \in Keys
    BY <1>3, <2>2 DEF Record, TypeOK, CommandBooks, AskedBooks, HandBooks, Keys
  <2>4. pending' \subseteq Entry
    <3>1. [cmd |-> Fresh, old |-> FALSE] \in Entry
      BY <2>1 DEF Entry
    <3>2. QED
      BY <1>3, <3>1 DEF Record, TypeOK
  <2>5. Cardinality(pending') \in Nat
    <3>1. IsFiniteSet(pending)
      BY DEF CommandBooks, PendingBooks
    <3>2. IsFiniteSet(pending')
      BY <1>3, <3>1, FS_AddElement DEF Record
    <3>3. QED
      BY <3>2, FS_CardinalityType
  <2>6. QED
    BY <1>3, <2>1, <2>3, <2>4, <2>5 DEF Record, service, TypeOK
<1>4. CASE WriteLine
  <2>1. cmd \in Asked
    BY <1>4 DEF WriteLine, CommandBooks, HandBooks, TypeOK
  <2>2. Wire(cmd) \in Coordinator!Command
    BY <2>1 DEF Wire, Coordinator!Command, Asked
  <2>3. [mac |-> cmd.dest, id |-> cmd.id, ser |-> cmd.ser, line |-> "send_fail"] \in Ack
    BY <2>1 DEF Asked, Ack, Serial
  <2>4. MqttTo("idle")
    BY <1>4 DEF WriteLine
  <2>5. refused' \subseteq Ack /\ told' \subseteq Ack
    BY <1>4, <2>3 DEF WriteLine, service, TypeOK, Coordinator!Issue
  <2>6. issued' \cup open' \cup ran' \cup settled' \cup lost' \subseteq Coordinator!Command
    BY <1>4, <2>2 DEF WriteLine, service, TypeOK, Coordinator!Issue
  <2>7. QED
    BY <1>4, <2>4, <2>5, <2>6, DropHandType DEF WriteLine, TypeOK
<1>5. ASSUME NEW t \in Threads, Scan(t) PROVE TypeOK'
  <2>1. {e.cmd.key : e \in {x \in pending : x.old}} \subseteq Keys
    BY DEF TypeOK, Entry, Asked
  <2>2. QED
    BY <1>5, <2>1 DEF Scan, service, TypeOK
<1>6. ASSUME NEW t \in Threads, ScanFails(t) \/ \E k \in stale[t] : DropFails(t, k)
      PROVE  TypeOK'
  <2>1. MqttTo("idle") \/ MqttTo("dead") \/ SerialToIdle
    BY <1>6 DEF ScanFails, DropFails, Raises
  <2>2. QED
    BY <1>6, <2>1, DropHandType DEF ScanFails, DropFails, service, TypeOK
<1>7. ASSUME NEW t \in Threads, NEW k \in stale[t], Drop(t, k) PROVE TypeOK'
  <2>1. gone' \subseteq Serial
    BY <1>7 DEF Drop, Remove, TypeOK, Entry, Asked
  <2>2. QED
    BY <1>7, <2>1 DEF Drop, Remove, service, TypeOK
<1>8. ASSUME NEW a \in told \cup refused, TakeAck(a) PROVE TypeOK'
  <2> DEFINE mine == {e \in pending : e.cmd.key = a.id}
  <2>1. gone' \subseteq Serial /\ pending' \subseteq Entry
    BY <1>8 DEF TakeAck, Remove, TypeOK, Entry, Asked
  <2>2. got' \in 0..MaxAsked
    <3>1. CASE mine = {}
      BY <1>8, <3>1 DEF TakeAck
    <3>2. CASE mine # {}
      <4>1. PICK e \in mine : got' = e.cmd.ser
        BY <1>8, <3>2 DEF TakeAck
      <4>2. QED
        BY <4>1 DEF TypeOK, Entry, Asked, Serial
    <3>3. QED
      BY <3>1, <3>2
  <2>3. Cardinality(pending') \in Nat
    <3>1. IsFiniteSet(pending')
      BY <1>8, FS_Subset DEF TakeAck, Remove, CommandBooks, PendingBooks
    <3>2. QED
      BY <3>1, FS_CardinalityType
  <2>4. a \in Ack
    BY DEF TypeOK
  <2>5. QED
    BY <1>8, <2>1, <2>2, <2>3, <2>4 DEF TakeAck, service, TypeOK
<1>9. CASE Publish
  <2>1. ack \in Ack
    BY <1>9 DEF Publish, CommandBooks, HandBooks, TypeOK
  <2>2. Topics \subseteq Devices
    BY <2>1 DEF Topics, TypeOK, Asked, Ack
  <2>3. results' \subseteq Result
    BY <1>9, <2>1, <2>2 DEF Publish, TypeOK, Ack, Result
  <2>4. QED
    BY <1>9, <2>3, DropHandType DEF Publish, service, TypeOK
<1>10. ASSUME NEW d \in Devices, DeviceLine(d) PROVE TypeOK'
  BY <1>10 DEF DeviceLine, hands, service, TypeOK
<1>11. ASSUME NEW e \in pending, Ages(e) PROVE TypeOK'
  <2>1. [e EXCEPT !.old = TRUE] \in Entry
    BY DEF TypeOK, Entry
  <2>2. QED
    BY <1>11, <2>1 DEF Ages, hands, service, TypeOK
<1>12. CASE Restart
  <2>1. gone' \subseteq Serial
    BY <1>12 DEF Restart, Remove, TypeOK, Entry, Asked
  <2>2. restarts' \in 0..MaxRestarts
    BY <1>12 DEF Restart, TypeOK
  <2>3. QED
    BY <1>12, <2>1, <2>2 DEF Restart, Remove, service, TypeOK
<1>13. CASE CoordinatorStep
  <2>1. /\ issued' \cup open' \cup ran' \cup settled' \cup lost' \subseteq Coordinator!Command
        /\ told' \subseteq Ack
    BY <1>13, ServiceType DEF CoordinatorStep
  <2>2. QED
    BY <1>13, <2>1 DEF CoordinatorStep, hands, TypeOK
<1>14. CASE UNCHANGED vars
  BY <1>14 DEF vars, hands, service, TypeOK
<1>15. QED
  BY <1>1, <1>2, <1>3, <1>4, <1>5, <1>6, <1>7, <1>8, <1>9, <1>10, <1>11, <1>12, <1>13,
     <1>14
  DEF Next, Mqtt, Expiry
-----------------------------------------------------------------------------
(* The books. *)

\* The initial state has empty books.
LEMMA InitBooks == Init => CommandBooks
<1> SUFFICES ASSUME Init PROVE CommandBooks
  OBVIOUS
<1> USE Constants DEF Init, Coordinator!Init
<1>1. AskedBooks
  BY FS_EmptySet DEF AskedBooks
<1>2. PendingBooks
  BY FS_EmptySet DEF PendingBooks
<1>3. ServiceBooks /\ HandBooks /\ ResultBooks
  BY DEF ServiceBooks, HandBooks, ResultBooks, NoOrphan
<1>4. QED
  BY <1>1, <1>2, <1>3 DEF CommandBooks

\* What accounted for a line goes on to do so while commands are only added and
\* the coordinator loses nothing that it knew.
LEMMA BackedKeeps ==
  ASSUME NEW l, Backed(l), asked \subseteq asked', ran \subseteq ran', issued \subseteq issued',
         \A w \in issued : w \notin open /\ w \notin settled => w \notin open' /\ w \notin settled'
  PROVE  Backed(l)'
<1>1. PICK c \in asked :
        /\ c.dest = l.mac /\ c.id = l.id
        /\ l.line = "ok" => Wire(c) \in ran
        /\ l.line = "timeout" => Wire(c) \in issued \ (open \cup settled)
  BY DEF Backed
<1>2. /\ c \in asked'
      /\ l.line = "ok" => Wire(c) \in ran'
      /\ l.line = "timeout" => Wire(c) \in issued' \ (open' \cup settled')
  BY <1>1
<1>3. QED
  BY <1>1, <1>2 DEF Backed, Wire

\* An id that was spent stays so.
LEMMA SpentKeeps ==
  ASSUME NEW i, asked \subseteq asked', gone \subseteq gone',
         Unmistakable(i) => Spent(i)
  PROVE  Unmistakable(i)' => Spent(i)'
BY DEF Unmistakable, Spent

\* A step that leaves commands, entries and the coordinator alone.
LEMMA DropHandBooks ==
  ASSUME Sound, TypeOK',
         UNCHANGED <<nextId, pending, refused, asked, gone, results, service>>,
         \/ MqttTo("idle") \/ MqttTo("dead") \/ SerialToIdle
  PROVE  CommandBooks'
<1> USE DEF Sound, CommandBooks
<1>1. /\ nextId' = nextId /\ pending' = pending /\ refused' = refused /\ asked' = asked
      /\ gone' = gone /\ results' = results /\ issued' = issued /\ open' = open
      /\ ran' = ran /\ settled' = settled /\ lost' = lost /\ told' = told
  BY DEF service
<1>2. AskedBooks'
  BY <1>1 DEF AskedBooks
<1>3. PendingBooks'
  <2>1. \A t \in Threads : stale'[t] \subseteq stale[t]
    BY DEF MqttTo, SerialToIdle, TypeOK
  <2>2. QED
    BY <1>1, <2>1 DEF PendingBooks
<1>4. ServiceBooks'
  BY <1>1 DEF ServiceBooks, Backed, Wire
<1>5. HandBooks'
  <2>1. CASE MqttTo("idle") \/ MqttTo("dead")
    <3>1. /\ at'["mqtt"] \in {"idle", "dead"} /\ at'["serial"] = at["serial"]
          /\ ack' = ack /\ got' = got
      BY <2>1 DEF MqttTo, TypeOK
    <3>2. QED
      BY <1>1, <3>1 DEF HandBooks, Backed, Wire, Spent, Unmistakable
  <2>2. CASE SerialToIdle
    <3>1. /\ at'["serial"] = "idle" /\ at'["mqtt"] = at["mqtt"]
          /\ ack' = Nothing /\ got' = 0 /\ want' = want /\ cmd' = cmd
      BY <2>2 DEF SerialToIdle, TypeOK
    <3>2. QED
      BY <1>1, <3>1 DEF HandBooks
  <2>3. QED
    BY <2>1, <2>2
<1>6. ResultBooks'
  BY <1>1 DEF ResultBooks, NoOrphan, Backed, Wire, Spent, Unmistakable
<1>7. QED
  BY <1>2, <1>3, <1>4, <1>5, <1>6

\* Entries that leave the table are spent.
LEMMA RemoveBooks ==
  ASSUME Sound, TypeOK, NEW E \in SUBSET pending, Remove(E), asked' = asked,
         nextId' \in {nextId, 1}
  PROVE  AskedBooks' /\ gone \subseteq gone' /\ pending' \subseteq pending
<1> USE DEF Sound, CommandBooks
<1>1. pending' = pending \ E /\ gone' = gone \cup {e.cmd.ser : e \in E}
  BY DEF Remove
<1>2. \A c \in asked : c.ser \in gone' \/ \E e \in pending' : e.cmd = c
  <2>1. ASSUME NEW c \in asked, c.ser \notin gone'
        PROVE  \E e \in pending' : e.cmd = c
    <3>1. PICK e \in pending : e.cmd = c
      BY <1>1, <2>1 DEF AskedBooks
    <3>2. e \notin E
      BY <1>1, <2>1, <3>1
    <3>3. QED
      BY <1>1, <3>1, <3>2
  <2>2. QED
    BY <2>1
<1>3. \A s \in gone' : \E c \in asked : c.ser = s
  BY <1>1 DEF AskedBooks, PendingBooks
<1>4. nextId' <= Cardinality(asked) + 1
  BY FS_CardinalityType DEF AskedBooks
<1>5. QED
  BY <1>1, <1>2, <1>3, <1>4 DEF AskedBooks

\* The records of commands that did not change.
LEMMA SameRecords ==
  ASSUME Sound, UNCHANGED <<asked, gone, results, refused, service>>
  PROVE  /\ ServiceBooks' /\ ResultBooks'
         /\ \A l : Backed(l) => Backed(l)'
         /\ \A i : (Unmistakable(i)' <=> Unmistakable(i)) /\ (Spent(i)' <=> Spent(i))
<1> USE DEF Sound, CommandBooks, service
<1>1. ServiceBooks'
  BY DEF ServiceBooks, Backed, Wire
<1>2. ResultBooks'
  BY DEF ResultBooks, NoOrphan, Backed, Wire, Spent, Unmistakable
<1>3. QED
  BY <1>1, <1>2 DEF Backed, Wire, Spent, Unmistakable

\* A command is recorded.
LEMMA RecordBooks == ASSUME Sound, TypeOK', Record PROVE CommandBooks'
<1> USE DEF Sound, CommandBooks
<1> DEFINE new == [cmd |-> Fresh, old |-> FALSE]
<1>1. /\ asked' = asked \cup {Fresh} /\ nextId' = nextId + 1
      /\ pending' = pending \cup {new} /\ cmd' = Fresh /\ gone' = gone
      /\ UNCHANGED <<stale, want, ack, got, refused, results, service>>
      /\ at["mqtt"] = "find" /\ at' = [at EXCEPT !["mqtt"] = "scan"]
  BY DEF Record
<1>2. /\ Fresh.key = nextId /\ Fresh.id = nextId % IdModulus
      /\ Fresh.ser = Cardinality(asked) + 1
  BY DEF Fresh
<1>3. Cardinality(asked) \in Nat /\ nextId \in Nat
  BY FS_CardinalityType, Constants DEF AskedBooks, TypeOK
<1>4. \A c \in asked : c.ser \in Nat /\ c.ser # Fresh.ser /\ c.key \in Nat
  <2>1. ASSUME NEW c \in asked PROVE c.ser \in Nat /\ c.key \in Nat
    BY <2>1, Constants DEF TypeOK, Asked
  <2>2. ASSUME NEW c \in asked PROVE c.ser # Fresh.ser
    <3>1. c.ser <= Cardinality(asked)
      BY DEF AskedBooks
    <3>2. QED
      BY <1>2, <1>3, <2>1, <3>1
  <2>3. QED
    BY <2>1, <2>2
<1>5. Fresh \notin asked
  BY <1>4
<1>6. IsFiniteSet(asked') /\ Cardinality(asked') = Cardinality(asked) + 1
  BY <1>1, <1>5, FS_AddElement DEF AskedBooks
<1>7. AskedBooks'
  <2>1. nextId' <= Cardinality(asked') + 1
    BY <1>1, <1>3, <1>6 DEF AskedBooks
  <2>2. \A c \in asked' : c.ser <= Cardinality(asked') /\ c.id = c.key % IdModulus
    BY <1>1, <1>2, <1>3, <1>4, <1>6 DEF AskedBooks
  <2>3. \A c, e \in asked' : c.ser = e.ser => c = e
    BY <1>1, <1>4 DEF AskedBooks
  <2>4. \A c \in asked' : c.ser \in gone' \/ \E e \in pending' : e.cmd = c
    <3>1. new \in pending' /\ new.cmd = Fresh
      BY <1>1
    <3>2. \A c \in asked : c.ser \in gone \/ \E e \in pending : e.cmd = c
      BY DEF AskedBooks
    <3>3. pending \subseteq pending'
      BY <1>1
    <3> HIDE DEF new
    <3>4. QED
      BY <1>1, <3>1, <3>2, <3>3
  <2>5. \A s \in gone' : \E c \in asked' : c.ser = s
    BY <1>1 DEF AskedBooks
  <2>6. QED
    BY <1>6, <2>1, <2>2, <2>3, <2>4, <2>5 DEF AskedBooks
<1>8. Fresh.ser \notin gone
  BY <1>4 DEF AskedBooks
<1>9. PendingBooks'
  <2>1. \A e \in pending : e.cmd.key \in Nat /\ e.cmd.key < nextId
    BY Constants DEF PendingBooks, TypeOK, Entry, Asked
  <2>2. IsFiniteSet(pending')
    BY <1>1, FS_AddElement DEF PendingBooks
  <2>3. \A e \in pending' : e.cmd \in asked' /\ e.cmd.ser \notin gone' /\ e.cmd.key < nextId'
    BY <1>1, <1>2, <1>3, <1>8, <2>1 DEF PendingBooks
  <2>4. \A e, x \in pending' : e.cmd.key = x.cmd.key => e = x
    <3>1. new.cmd.key = nextId
      BY <1>2
    <3>2. \A e, x \in pending : e.cmd.key = x.cmd.key => e = x
      BY DEF PendingBooks
    <3>3. \A e \in pending : e.cmd.key # nextId
      BY <1>3, <2>1
    <3> HIDE DEF new
    <3>4. QED
      BY <1>1, <3>1, <3>2, <3>3
  <2>5. \A t \in Threads : \A k \in stale[t] : k \in Nat /\ k < nextId
    BY Constants DEF PendingBooks, TypeOK
  <2>6. \A t \in Threads : \A k \in stale'[t] :
          k < nextId' /\ \A e \in pending' : e.cmd.key = k => e.old
    BY <1>1, <1>2, <1>3, <2>5 DEF PendingBooks
  <2>7. QED
    BY <2>2, <2>3, <2>4, <2>6 DEF PendingBooks
<1>10. asked \subseteq asked' /\ gone \subseteq gone'
  BY <1>1
<1>11. \A l : Backed(l) => Backed(l)'
  BY <1>1, BackedKeeps DEF service
<1>12. ServiceBooks'
  BY <1>1, <1>11 DEF ServiceBooks, service, Wire
<1>13. HandBooks'
  <2>1. at'["serial"] = at["serial"] /\ at'["mqtt"] = "scan"
    BY <1>1 DEF TypeOK
  <2>2. ack # Nothing => (Backed(ack)' /\ (got = 0 /\ Unmistakable(ack.id)' => Spent(ack.id)'))
    <3>1. ASSUME NEW a, Unmistakable(a.id) => Spent(a.id)
          PROVE  Unmistakable(a.id)' => Spent(a.id)'
      BY <1>10, <3>1 DEF Unmistakable, Spent
    <3>2. PICK a : a = ack
      OBVIOUS
    <3>3. Unmistakable(a.id)' = Unmistakable(ack.id)' /\ Spent(a.id)' = Spent(ack.id)'
      BY <1>1, <3>2 DEF Unmistakable, Spent
    <3>4. Backed(a)' = Backed(ack)'
      BY <1>1, <3>2 DEF Backed
    <3>5. QED
      BY <1>11, <3>1, <3>2, <3>3, <3>4 DEF HandBooks
  <2>3. got' # 0 => /\ got' \in gone' /\ \A r \in results' : r.ser # got'
                    /\ \E c \in asked' : c.ser = got' /\ c.key = ack'.id
    BY <1>1 DEF HandBooks
  <2>4. QED
    BY <1>1, <2>1, <2>2, <2>3 DEF HandBooks, Backed, Spent, Unmistakable
<1>14. ResultBooks'
  <2>1. NoOrphan'
    BY <1>1, <1>10, SpentKeeps DEF ResultBooks, NoOrphan, Unmistakable, Spent
  <2>2. QED
    BY <1>1, <1>10, <1>11, <2>1 DEF ResultBooks
<1>15. QED
  BY <1>7, <1>9, <1>12, <1>13, <1>14

\* The coordinator's variables may change, and what the mqtt thread has in hand.
LEMMA KeepBooks ==
  ASSUME Sound, TypeOK',
         UNCHANGED <<nextId, pending, asked, gone, results, ack, got>>,
         ServiceBooks', \A l : Backed(l) => Backed(l)',
         at'["serial"] = at["serial"], \A t \in Threads : stale'[t] \subseteq stale[t],
         at'["mqtt"] \in {"scan", "drop"} => cmd' \in asked,
         at'["mqtt"] = "find" => want' # Nothing /\ Cardinality(asked) < MaxAsked
  PROVE  CommandBooks'
<1> USE DEF Sound, CommandBooks
<1>1. AskedBooks' /\ PendingBooks'
  BY DEF AskedBooks, PendingBooks
<1>2. /\ \A i : (Unmistakable(i)' <=> Unmistakable(i)) /\ (Spent(i)' <=> Spent(i))
      /\ Unmistakable(ack.id)' = Unmistakable(ack.id) /\ Spent(ack.id)' = Spent(ack.id)
  BY DEF Unmistakable, Spent
<1>3. HandBooks'
  <2>1. Backed(ack) => Backed(ack)'
    <3>1. PICK a : a = ack
      OBVIOUS
    <3>2. Backed(a) => Backed(a)'
      OBVIOUS
    <3>3. Backed(a)' = Backed(ack)'
      BY <3>1 DEF Backed
    <3>4. QED
      BY <3>1, <3>2, <3>3
  <2>2. QED
    BY <1>2, <2>1 DEF HandBooks
<1>4. ResultBooks'
  BY <1>2 DEF ResultBooks, NoOrphan
<1>5. QED
  BY <1>1, <1>3, <1>4

\* A message begins to be handled.
LEMMA SetMessageBooks ==
  ASSUME Sound, TypeOK', NEW d \in Devices, SetMessage(d) PROVE CommandBooks'
<1>1. ServiceBooks' /\ \A l : Backed(l) => Backed(l)'
  BY SameRecords DEF SetMessage
<1>2. at'["serial"] = at["serial"] /\ at'["mqtt"] = "find"
  BY DEF SetMessage, Sound, TypeOK
<1>3. QED
  BY <1>1, <1>2, KeepBooks, Constants DEF SetMessage

\* The device lines do not touch commands.
LEMMA DeviceLineBooks ==
  ASSUME Sound, TypeOK', NEW d \in Devices, DeviceLine(d) PROVE CommandBooks'
<1>1. ServiceBooks' /\ \A l : Backed(l) => Backed(l)'
  BY SameRecords DEF DeviceLine
<1>2. QED
  BY <1>1, KeepBooks DEF DeviceLine, hands, Sound, CommandBooks, HandBooks

\* What a step of the coordinator, or a line to it, has to keep.
LEMMA CoordinatorBooks ==
  ASSUME Sound, TypeOK', CoordinatorStep PROVE CommandBooks'
<1> USE DEF Sound
<1>1. UNCHANGED <<devices, nextId, pending, hands, refused, restarts, asked, gone, results>>
  BY DEF CoordinatorStep
<1>2. /\ issued' = issued /\ ran \subseteq ran'
      /\ \A w \in issued : w \notin open /\ w \notin settled => w \notin open' /\ w \notin settled'
  BY DEF CoordinatorStep, Coordinator!Run, Coordinator!Settle, Coordinator!GiveUp,
     Coordinator!TellOk, Coordinator!TellTimeout, Coordinator!DropAnswer, Coordinator!Forget
<1>3. \A l : Backed(l) => Backed(l)'
  BY <1>1, <1>2, BackedKeeps
<1>4. /\ open' \cup ran' \cup settled' \cup lost' \subseteq issued'
      /\ open' \cap settled' = {} /\ open' \cap lost' = {} /\ settled' \cap lost' = {}
  BY DEF CoordinatorStep, Coordinator!Run, Coordinator!Settle, Coordinator!GiveUp,
     Coordinator!TellOk, Coordinator!TellTimeout, Coordinator!DropAnswer, Coordinator!Forget,
     CommandBooks, ServiceBooks
<1>5. \A l \in told' : Backed(l)'
  <2>1. ASSUME NEW c \in ran, Coordinator!TellOk(c) PROVE \A l \in told' : Backed(l)'
    <3>1. PICK x \in asked : c = Wire(x)
      BY DEF CommandBooks, ServiceBooks
    <3>2. \A l \in told' : l \in told \/ (l.mac = x.dest /\ l.id = x.id /\ l.line = "ok")
      BY <2>1, <3>1 DEF Coordinator!TellOk, Wire
    <3>3. \A l : l.mac = x.dest /\ l.id = x.id /\ l.line = "ok" => Backed(l)
      BY <3>1 DEF Backed
    <3>4. QED
      BY <1>3, <3>2, <3>3 DEF CommandBooks, ServiceBooks
  <2>2. ASSUME NEW c \in lost, Coordinator!TellTimeout(c) PROVE \A l \in told' : Backed(l)'
    <3>1. c \in issued \ (open \cup settled)
      BY DEF CommandBooks, ServiceBooks
    <3>2. PICK x \in asked : c = Wire(x)
      BY <3>1 DEF CommandBooks, ServiceBooks
    <3>3. \A l \in told' : l \in told \/ (l.mac = x.dest /\ l.id = x.id /\ l.line = "timeout")
      BY <2>2, <3>2 DEF Coordinator!TellTimeout, Wire
    <3>4. \A l : l.mac = x.dest /\ l.id = x.id /\ l.line = "timeout" => Backed(l)
      BY <3>1, <3>2 DEF Backed
    <3>5. QED
      BY <1>3, <3>3, <3>4 DEF CommandBooks, ServiceBooks
  <2>3. CASE told' = told
    BY <1>3, <2>3 DEF CommandBooks, ServiceBooks
  <2>4. QED
    BY <2>1, <2>2, <2>3 DEF CoordinatorStep, Coordinator!Run, Coordinator!Settle,
       Coordinator!GiveUp, Coordinator!DropAnswer, Coordinator!Forget
<1>6. ServiceBooks'
  <2>1. \A w \in issued' : \E c \in asked' : w = Wire(c)
    BY <1>1, <1>2 DEF CommandBooks, ServiceBooks
  <2>2. \A l \in refused' : Backed(l)'
    BY <1>1, <1>3 DEF CommandBooks, ServiceBooks
  <2>3. QED
    BY <1>4, <1>5, <2>1, <2>2 DEF ServiceBooks, Wire
<1>7. QED
  BY <1>1, <1>3, <1>6, KeepBooks DEF hands, CommandBooks, HandBooks

\* A cmd line is written.
LEMMA WriteLineBooks == ASSUME Sound, TypeOK', WriteLine PROVE CommandBooks'
<1> USE DEF Sound
<1>1. cmd \in asked
  BY DEF WriteLine, CommandBooks, HandBooks
<1>2. UNCHANGED <<nextId, pending, asked, gone, results>> /\ MqttTo("idle")
  BY DEF WriteLine
<1>3. /\ ran' = ran /\ settled' = settled /\ lost' = lost /\ told' = told
      /\ \/ issued' = issued /\ open' = open
         \/ /\ issued' = issued \cup {Wire(cmd)} /\ Wire(cmd) \notin issued
            /\ open' \subseteq open \cup {Wire(cmd)}
  BY DEF WriteLine, service, Coordinator!Issue
<1>4. \A w \in issued : w \notin open /\ w \notin settled => w \notin open' /\ w \notin settled'
  BY <1>3
<1>5. \A l : Backed(l) => Backed(l)'
  BY <1>2, <1>3, <1>4, BackedKeeps
<1>6. \A l \in refused' : Backed(l)'
  <2>1. \A l \in refused' : l \in refused \/ (l.mac = cmd.dest /\ l.id = cmd.id /\ l.line = "send_fail")
    BY DEF WriteLine
  <2>2. \A l : l.mac = cmd.dest /\ l.id = cmd.id /\ l.line = "send_fail" => Backed(l)
    BY <1>1 DEF Backed
  <2>3. QED
    BY <1>5, <2>1, <2>2 DEF CommandBooks, ServiceBooks
<1>7. ServiceBooks'
  <2>1. \A w \in issued' : \E c \in asked' : w = Wire(c)
    BY <1>1, <1>2, <1>3 DEF CommandBooks, ServiceBooks
  <2>2. /\ open' \cup ran' \cup settled' \cup lost' \subseteq issued'
        /\ open' \cap settled' = {} /\ open' \cap lost' = {} /\ settled' \cap lost' = {}
    BY <1>3 DEF CommandBooks, ServiceBooks
  <2>3. \A l \in told' : Backed(l)'
    BY <1>3, <1>5 DEF CommandBooks, ServiceBooks
  <2>4. QED
    BY <1>6, <2>1, <2>2, <2>3 DEF ServiceBooks, Wire
<1>8. /\ at'["mqtt"] = "idle" /\ at'["serial"] = at["serial"]
      /\ \A t \in Threads : stale'[t] \subseteq stale[t]
      /\ UNCHANGED <<ack, got>>
  BY <1>2 DEF MqttTo, TypeOK
<1>9. QED
  BY <1>2, <1>5, <1>7, <1>8, KeepBooks

\* Stale keys are collected.
LEMMA ScanBooks == ASSUME Sound, TypeOK', NEW t \in Threads, Scan(t) PROVE CommandBooks'
<1> USE DEF Sound, CommandBooks
<1>1. /\ UNCHANGED <<nextId, pending, want, cmd, ack, got, refused, asked, gone, results, service>>
      /\ at[t] = "scan" /\ at' = [at EXCEPT ![t] = "drop"]
      /\ stale' = [stale EXCEPT ![t] = {e.cmd.key : e \in {x \in pending : x.old}}]
  BY DEF Scan
<1>2. AskedBooks'
  BY <1>1 DEF AskedBooks
<1>3. PendingBooks'
  <2>1. \A k \in {e.cmd.key : e \in {x \in pending : x.old}} :
          k < nextId /\ \A e \in pending : e.cmd.key = k => e.old
    BY DEF PendingBooks
  <2>2. \A s \in Threads : stale'[s] = stale[s] \/ stale'[s] = {e.cmd.key : e \in {x \in pending : x.old}}
    BY <1>1 DEF TypeOK
  <2>3. \A s \in Threads : \A k \in stale'[s] :
          k < nextId' /\ \A e \in pending' : e.cmd.key = k => e.old
    BY <1>1, <2>1, <2>2 DEF PendingBooks
  <2>4. QED
    BY <1>1, <2>3 DEF PendingBooks
<1>4. /\ ServiceBooks' /\ ResultBooks'
  BY <1>1, SameRecords
<1>5. HandBooks'
  <2>1. /\ at'["mqtt"] \in {"scan", "drop"} => at["mqtt"] \in {"scan", "drop"}
        /\ at'["mqtt"] = "find" => at["mqtt"] = "find"
        /\ at'["serial"] \in {"scan", "drop"} <=> at["serial"] \in {"scan", "drop"}
    BY <1>1 DEF TypeOK
  <2>2. QED
    BY <1>1, <2>1 DEF HandBooks, Backed, Wire, Spent, Unmistakable, service
<1>6. QED
  BY <1>2, <1>3, <1>4, <1>5

\* A stale entry is deleted.
LEMMA DropBooks ==
  ASSUME Sound, TypeOK', NEW t \in Threads, NEW k \in stale[t], Drop(t, k)
  PROVE  CommandBooks'
<1> USE DEF Sound, CommandBooks
<1>1. /\ UNCHANGED <<nextId, at, want, cmd, ack, got, refused, asked, results, service>>
      /\ Remove({e \in pending : e.cmd.key = k})
      /\ stale' = [stale EXCEPT ![t] = @ \ {k}]
  BY DEF Drop
<1>2. AskedBooks' /\ gone \subseteq gone' /\ pending' \subseteq pending
  BY <1>1, RemoveBooks
<1>3. \A e \in pending' : e.cmd.ser \notin gone'
  BY <1>1 DEF Remove, AskedBooks, PendingBooks
<1>4. PendingBooks'
  <2>1. \A s \in Threads : stale'[s] \subseteq stale[s]
    BY <1>1 DEF TypeOK
  <2>2. IsFiniteSet(pending')
    BY <1>2, FS_Subset DEF PendingBooks
  <2>3. QED
    BY <1>1, <1>2, <1>3, <2>1, <2>2 DEF PendingBooks
<1>5. QED
  BY <1>1, <1>2, <1>4 DEF ServiceBooks, HandBooks, ResultBooks, NoOrphan, Backed, Wire,
     Spent, Unmistakable, service

\* An ack is taken.
LEMMA TakeAckBooks ==
  ASSUME Sound, TypeOK', NEW a \in told \cup refused, TakeAck(a)
  PROVE  CommandBooks'
<1> USE DEF Sound, CommandBooks
<1> DEFINE mine == {e \in pending : e.cmd.key = a.id}
<1>1. /\ UNCHANGED <<nextId, stale, want, cmd, refused, asked, results, service>>
      /\ ack' = a /\ Remove(mine)
      /\ got' = IF mine = {} THEN 0 ELSE (CHOOSE e \in mine : TRUE).cmd.ser
      /\ at["serial"] = "idle"
      /\ at'["mqtt"] = at["mqtt"] /\ at'["serial"] \in {"scan", "drop"}
  BY DEF TakeAck, TypeOK
<1>2. /\ pending' = pending \ mine
      /\ gone' = gone \cup {e.cmd.ser : e \in mine}
  BY <1>1 DEF Remove
<1>3. AskedBooks' /\ gone \subseteq gone' /\ pending' \subseteq pending
  BY <1>1, RemoveBooks
<1>4. PendingBooks'
  <2>1. \A e \in pending' : e.cmd.ser \notin gone'
    BY <1>2 DEF AskedBooks, PendingBooks
  <2>2. IsFiniteSet(pending')
    BY <1>2, FS_Subset DEF PendingBooks
  <2>3. QED
    BY <1>1, <1>3, <2>1, <2>2 DEF PendingBooks
<1>5. ServiceBooks'
  BY <1>1 DEF ServiceBooks, Backed, Wire, service
<1>6. Backed(a) /\ Backed(a)'
  BY <1>1 DEF ServiceBooks, Backed, Wire, service
<1>7. got' # 0 => /\ got' \in gone' /\ \A r \in results : r.ser # got'
                  /\ \E c \in asked : c.ser = got' /\ c.key = a.id
  <2>1. ASSUME mine # {} PROVE \E e \in mine : got' = e.cmd.ser
    BY <1>1, <2>1
  <2>2. ASSUME NEW e \in mine, NEW r \in results, r.ser # 0 PROVE r.ser # e.cmd.ser
    BY <2>2 DEF PendingBooks, ResultBooks
  <2>3. QED
    BY <1>1, <1>2, <2>1, <2>2 DEF PendingBooks
<1>8. got' = 0 => Spent(a.id)'
  <2>1. ASSUME mine # {} PROVE got' # 0
    <3>1. PICK e \in mine : got' = e.cmd.ser
      BY <1>1, <2>1
    <3>2. e.cmd.ser \in Serial
      BY DEF TypeOK, Entry, Asked
    <3>3. QED
      BY <3>1, <3>2, Constants
  <2>2. ASSUME mine = {} PROVE Spent(a.id)
    <3>1. PICK c \in asked : c.id = a.id
      BY <1>6 DEF Backed
    <3>2. c.ser \in gone \/ \E e \in pending : e.cmd = c
      BY DEF AskedBooks
    <3>3. c.ser \in gone \/ c.key # a.id
      BY <2>2, <3>2
    <3>4. QED
      BY <3>1, <3>3 DEF Spent
  <2>3. QED
    BY <1>1, <1>3, <2>1, <2>2 DEF Spent
<1>9. HandBooks'
  <2>1. at'["mqtt"] \in {"scan", "drop"} => cmd' \in asked'
    BY <1>1 DEF HandBooks
  <2>2. at'["mqtt"] = "find" => want' # Nothing /\ Cardinality(asked') < MaxAsked
    BY <1>1 DEF HandBooks
  <2>3. ack' # Nothing
    <3>1. a \in Ack
      BY DEF TypeOK
    <3>2. QED
      BY <1>1, <3>1, Constants
  <2>4. Backed(ack)' /\ (got' = 0 => Spent(ack.id)')
    BY <1>1, <1>6, <1>8 DEF Backed, Spent
  <2>5. got' # 0 => /\ got' \in gone' /\ \A r \in results' : r.ser # got'
                    /\ \E c \in asked' : c.ser = got' /\ c.key = ack'.id
    BY <1>1, <1>7
  <2>6. QED
    BY <1>1, <2>1, <2>2, <2>3, <2>4, <2>5 DEF HandBooks
<1>10. ResultBooks'
  BY <1>1, <1>3 DEF ResultBooks, NoOrphan, Backed, Wire, Spent, Unmistakable, service
<1>11. QED
  BY <1>3, <1>4, <1>5, <1>9, <1>10

\* The results of an ack are published.
LEMMA PublishBooks == ASSUME Sound, TypeOK', Publish PROVE CommandBooks'
<1> USE DEF Sound, CommandBooks
<1>1. /\ UNCHANGED <<nextId, pending, refused, asked, gone, service>>
      /\ results' = results \cup
           {[topic |-> d, mac |-> ack.mac, id |-> ack.id, ser |-> got, line |-> ack.line]
              : d \in Topics}
      /\ SerialToIdle /\ at["serial"] = "drop"
  BY DEF Publish
<1>2. /\ at'["serial"] = "idle" /\ at'["mqtt"] = at["mqtt"] /\ ack' = Nothing /\ got' = 0
      /\ want' = want /\ cmd' = cmd /\ \A t \in Threads : stale'[t] \subseteq stale[t]
  BY <1>1 DEF SerialToIdle, TypeOK
<1>3. AskedBooks' /\ PendingBooks'
  BY <1>1, <1>2 DEF AskedBooks, PendingBooks
<1>4. ServiceBooks'
  BY <1>1 DEF ServiceBooks, Backed, Wire, service
<1>5. HandBooks'
  BY <1>1, <1>2 DEF HandBooks
<1>6. /\ ack # Nothing /\ Backed(ack)
      /\ got = 0 /\ Unmistakable(ack.id) => Spent(ack.id)
      /\ got # 0 => /\ got \in gone /\ \A r \in results : r.ser # got
                    /\ \E c \in asked : c.ser = got /\ c.key = ack.id
  BY <1>1 DEF HandBooks
<1>7. \A r \in results' : r \in results \/
        /\ r.mac = ack.mac /\ r.id = ack.id /\ r.ser = got /\ r.line = ack.line
        /\ r.topic \in Topics
  BY <1>1
<1>8. ResultBooks'
  <2>1. \A r \in results' : r.ser = 0 /\ Unmistakable(r.id) => Spent(r.id)
    BY <1>6, <1>7 DEF ResultBooks, NoOrphan
  <2>2. \A r \in results' : Backed(r)
    BY <1>6, <1>7 DEF ResultBooks, Backed
  <2>3. \A r \in results' : r.ser # 0 =>
          /\ r.ser \in gone
          /\ \E c \in asked : c.ser = r.ser /\ c.key = r.id /\ r.topic \in {r.mac, c.dest}
    <3>1. ASSUME NEW r \in results', r \notin results, r.ser # 0
          PROVE  \E c \in asked : c.ser = r.ser /\ c.key = r.id /\ r.topic \in {r.mac, c.dest}
      <4>1. PICK c \in asked : c.ser = got /\ c.key = ack.id
        BY <1>6, <1>7, <3>1
      <4>2. \A x \in asked : x.ser = got => x = c
        BY <4>1 DEF AskedBooks
      <4>3. r.topic \in {ack.mac, c.dest}
        BY <1>7, <3>1, <4>2 DEF Topics
      <4>4. QED
        BY <1>7, <3>1, <4>1, <4>3
    <3>2. QED
      BY <1>6, <1>7, <3>1 DEF ResultBooks
  <2>4. ASSUME NEW r \in results', NEW q \in results', r.ser # 0, r.ser = q.ser
        PROVE  r = q
    <3>1. CASE r \in results /\ q \in results
      BY <2>4, <3>1 DEF ResultBooks
    <3>2. CASE r \notin results \/ q \notin results
      <4>1. r \notin results /\ q \notin results /\ got # 0
        BY <1>6, <1>7, <2>4, <3>2
      <4>2. PICK c \in asked : c.ser = got
        BY <1>6, <4>1
      <4>3. \A x \in asked : x.ser = got => x = c
        BY <4>2 DEF AskedBooks
      <4>4. PICK d : Topics = {d}
        BY <4>2, <4>3 DEF Topics
      <4>5. QED
        BY <1>1, <4>1, <4>4
    <3>3. QED
      BY <3>1, <3>2
  <2>5. QED
    BY <1>1, <2>1, <2>2, <2>3, <2>4 DEF ResultBooks, NoOrphan, Backed, Wire, Spent,
       Unmistakable, service
<1>9. QED
  BY <1>3, <1>4, <1>5, <1>8

\* A command gets old.
LEMMA AgesBooks == ASSUME Sound, TypeOK', NEW e \in pending, Ages(e) PROVE CommandBooks'
<1> USE DEF Sound, CommandBooks
<1> DEFINE aged == [e EXCEPT !.old = TRUE]
<1>1. /\ UNCHANGED <<nextId, hands, refused, asked, gone, results, service>>
      /\ pending' = (pending \ {e}) \cup {aged}
  BY DEF Ages
<1>2. aged.cmd = e.cmd /\ aged.old
  BY DEF TypeOK, Entry
<1> HIDE DEF aged
<1>3. AskedBooks'
  <2>1. \A c \in asked : (\E x \in pending : x.cmd = c) => \E x \in pending' : x.cmd = c
    BY <1>1, <1>2
  <2>2. QED
    BY <1>1, <2>1 DEF AskedBooks
<1>4. PendingBooks'
  <2>1. IsFiniteSet(pending')
    <3>1. IsFiniteSet(pending \ {e})
      BY FS_Subset DEF PendingBooks
    <3>2. QED
      BY <1>1, <3>1, FS_AddElement
  <2>2. \A x \in pending' : x.cmd \in asked' /\ x.cmd.ser \notin gone' /\ x.cmd.key < nextId'
    BY <1>1, <1>2 DEF PendingBooks
  <2>3. \A x, y \in pending' : x.cmd.key = y.cmd.key => x = y
    BY <1>1, <1>2 DEF PendingBooks
  <2>4. \A t \in Threads : \A k \in stale'[t] :
          k < nextId' /\ \A x \in pending' : x.cmd.key = k => x.old
    BY <1>1, <1>2 DEF PendingBooks, hands
  <2>5. QED
    BY <2>1, <2>2, <2>3, <2>4 DEF PendingBooks
<1>5. ServiceBooks' /\ HandBooks' /\ ResultBooks'
  BY <1>1 DEF ServiceBooks, HandBooks, ResultBooks, NoOrphan, Backed, Wire, Spent,
     Unmistakable, service, hands
<1>6. QED
  BY <1>3, <1>4, <1>5

\* The bridge restarts.
LEMMA RestartBooks == ASSUME Sound, TypeOK', Restart PROVE CommandBooks'
<1> USE DEF Sound, CommandBooks
<1>1. /\ UNCHANGED <<refused, asked, results, service>>
      /\ nextId' = 1 /\ Remove(pending) /\ ack' = Nothing /\ got' = 0
      /\ at' = [t \in Threads |-> "idle"] /\ stale' = [t \in Threads |-> {}]
  BY DEF Restart
<1>2. AskedBooks' /\ gone \subseteq gone'
  BY <1>1, RemoveBooks
<1>3. pending' = {}
  BY <1>1 DEF Remove
<1>4. PendingBooks'
  BY <1>1, <1>3, FS_EmptySet DEF PendingBooks
<1>5. ServiceBooks' /\ ResultBooks'
  BY <1>1, <1>2 DEF ServiceBooks, ResultBooks, NoOrphan, Backed, Wire, Spent, Unmistakable,
     service
<1>6. HandBooks'
  BY <1>1 DEF HandBooks
<1>7. QED
  BY <1>2, <1>4, <1>5, <1>6

\* Every step keeps the books.
LEMMA NextBooks == Sound /\ [Next]_vars => CommandBooks'
<1> SUFFICES ASSUME Sound, [Next]_vars PROVE CommandBooks'
  OBVIOUS
<1>0. TypeOK'
  BY NextType
<1>1. CASE \E d \in Devices : SetMessage(d) \/ DeviceLine(d)
  BY <1>0, <1>1, SetMessageBooks, DeviceLineBooks
<1>2. CASE FindFails \/ UnknownSlug
  <2>1. MqttTo("idle") \/ MqttTo("dead")
    BY <1>2 DEF FindFails, UnknownSlug, Raises
  <2>2. QED
    BY <1>0, <1>2, <2>1, DropHandBooks DEF FindFails, UnknownSlug
<1>3. CASE Record
  BY <1>0, <1>3, RecordBooks
<1>4. CASE WriteLine
  BY <1>0, <1>4, WriteLineBooks
<1>5. ASSUME NEW t \in Threads, Expiry(t) PROVE CommandBooks'
  <2>1. CASE Scan(t)
    BY <1>0, <2>1, ScanBooks
  <2>2. CASE ScanFails(t) \/ \E k \in stale[t] : DropFails(t, k)
    <3>1. MqttTo("idle") \/ MqttTo("dead") \/ SerialToIdle
      BY <2>2 DEF ScanFails, DropFails, Raises
    <3>2. QED
      BY <1>0, <2>2, <3>1, DropHandBooks DEF ScanFails, DropFails
  <2>3. CASE \E k \in stale[t] : Drop(t, k)
    BY <1>0, <2>3, DropBooks
  <2>4. QED
    BY <1>5, <2>1, <2>2, <2>3 DEF Expiry
<1>6. CASE \E a \in told \cup refused : TakeAck(a)
  BY <1>0, <1>6, TakeAckBooks
<1>7. CASE Publish
  BY <1>0, <1>7, PublishBooks
<1>8. CASE \E e \in pending : Ages(e)
  BY <1>0, <1>8, AgesBooks
<1>9. CASE Restart
  BY <1>0, <1>9, RestartBooks
<1>10. CASE CoordinatorStep
  BY <1>0, <1>10, CoordinatorBooks
<1>11. CASE UNCHANGED vars
  BY <1>11 DEF vars, hands, service, Sound, CommandBooks, AskedBooks, PendingBooks,
     ServiceBooks, HandBooks, ResultBooks, NoOrphan, Backed, Wire, Spent, Unmistakable
<1>12. QED
  BY <1>1, <1>2, <1>3, <1>4, <1>5, <1>6, <1>7, <1>8, <1>9, <1>10, <1>11 DEF Next, Mqtt

-----------------------------------------------------------------------------
(* What follows from the books. *)

\* A result is about its command.
LEMMA SoundNoFalseResult == Sound => NoFalseResult
<1> SUFFICES ASSUME Sound, NEW r \in results, r.ser # 0, Unmistakable(r.id)
             PROVE  \E c \in asked :
                      /\ c.ser = r.ser /\ c.id = r.id /\ c.dest = r.mac /\ c.dest = r.topic
                      /\ r.line = "ok" => Wire(c) \in ran
                      /\ r.line = "timeout" => Wire(c) \notin settled
  BY DEF NoFalseResult
<1> USE DEF Sound, CommandBooks
<1>1. PICK c \in asked : c.ser = r.ser /\ c.key = r.id /\ r.topic \in {r.mac, c.dest}
  BY DEF ResultBooks
<1>2. c.id = r.id
  <2>1. r.id \in WireIds
    BY DEF TypeOK, Result
  <2>2. r.id % IdModulus = r.id
    BY <2>1, Constants DEF WireIds
  <2>3. QED
    BY <1>1, <2>2 DEF AskedBooks
<1>3. PICK x \in asked :
        /\ x.dest = r.mac /\ x.id = r.id
        /\ r.line = "ok" => Wire(x) \in ran
        /\ r.line = "timeout" => Wire(x) \in issued \ (open \cup settled)
  BY DEF ResultBooks, Backed
<1>4. x = c
  BY <1>2, <1>3 DEF Unmistakable
<1>5. QED
  BY <1>1, <1>2, <1>3, <1>4

\* A reported entry is not pending.
LEMMA SoundOnceReported == Sound => OnceReported
<1> SUFFICES ASSUME Sound, NEW e \in pending
             PROVE  /\ e.cmd.ser \notin gone /\ e.cmd.ser # got
                    /\ \A r \in results : r.ser # e.cmd.ser
  BY DEF OnceReported, Sound, CommandBooks, ResultBooks
<1> USE DEF Sound, CommandBooks
<1>1. e.cmd.ser \notin gone
  BY DEF PendingBooks
<1>2. e.cmd.ser # 0
  BY Constants DEF TypeOK, Entry, Asked
<1>3. QED
  BY <1>1, <1>2 DEF HandBooks, ResultBooks

\* A fresh entry leaves by its own answer.
LEMMA StepFreshKept ==
  Sound /\ [Next]_vars =>
    [restarts' = restarts =>
       \A e \in pending : ~e.old /\ (\A x \in pending' : x.cmd # e.cmd) =>
         ack = Nothing /\ ack' # Nothing /\ ack'.id = e.cmd.key]_vars
<1> SUFFICES ASSUME Sound, Next, restarts' = restarts, NEW e \in pending, ~e.old,
                    \A x \in pending' : x.cmd # e.cmd
             PROVE  ack = Nothing /\ ack' # Nothing /\ ack'.id = e.cmd.key
  OBVIOUS
<1> USE DEF Sound, CommandBooks
<1>1. e \notin pending'
  OBVIOUS
<1>2. ASSUME NEW a \in told \cup refused, TakeAck(a)
      PROVE  ack = Nothing /\ ack' # Nothing /\ ack'.id = e.cmd.key
  <2>1. a \in Ack
    BY DEF TypeOK
  <2>2. ack = Nothing
    BY <1>2 DEF TakeAck, HandBooks
  <2>3. QED
    BY <1>1, <1>2, <2>1, <2>2, Constants DEF TakeAck, Remove
<1>3. ASSUME NEW t \in Threads, NEW k \in stale[t], Drop(t, k) PROVE FALSE
  <2>1. e.cmd.key = k
    BY <1>1, <1>3 DEF Drop, Remove
  <2>2. QED
    BY <2>1 DEF PendingBooks
<1>4. ASSUME NEW x \in pending, Ages(x) PROVE FALSE
  <2>1. [x EXCEPT !.old = TRUE] \in pending' /\ [x EXCEPT !.old = TRUE].cmd = x.cmd
    BY <1>4 DEF Ages, TypeOK, Entry
  <2>2. e # x => e \in pending'
    BY <1>4 DEF Ages
  <2>3. QED
    BY <1>1, <2>1, <2>2
<1>5. CASE Restart
  BY <1>5, Constants DEF Restart, TypeOK
<1>6. CASE \/ \E d \in Devices : SetMessage(d) \/ DeviceLine(d)
           \/ FindFails \/ UnknownSlug \/ Record \/ WriteLine \/ Publish \/ CoordinatorStep
           \/ \E t \in Threads : Scan(t) \/ ScanFails(t) \/ \E k \in stale[t] : DropFails(t, k)
  BY <1>1, <1>6 DEF SetMessage, DeviceLine, FindFails, UnknownSlug, Record, WriteLine,
     Publish, CoordinatorStep, Scan, ScanFails, DropFails
<1>7. QED
  BY <1>2, <1>3, <1>4, <1>5, <1>6 DEF Next, Mqtt, Expiry

-----------------------------------------------------------------------------
(* Theorems. *)

LEMMA SoundAlways == Spec => []Sound
<1>1. Init => Sound
  BY InitType, InitBooks DEF Sound
<1>2. Sound /\ [Next]_vars => Sound'
  BY NextType, NextBooks DEF Sound
<1>3. QED
  BY <1>1, <1>2, PTL DEF Spec

\* Every variable of the bridge and of the coordinator keeps its type.
THEOREM BridgeTypeCorrect == Spec => []TypeOK
<1>1. Sound => TypeOK
  BY DEF Sound
<1>2. QED
  BY <1>1, SoundAlways, PTL

\* Commands, entries, answers and results tally, for any number of devices and
\* commands and any width of the ids.
THEOREM CommandBooksHold == Spec => []CommandBooks
<1>1. Sound => CommandBooks
  BY DEF Sound
<1>2. QED
  BY <1>1, SoundAlways, PTL

\* _on_ack never publishes a result with another command's payload, nor a result
\* the coordinator had no ground for, while the id is unmistakable.
THEOREM NoFalseResultHolds == Spec => []NoFalseResult
BY SoundAlways, SoundNoFalseResult, PTL

\* _on_ack publishes a result without a payload only if the entry was spent.
THEOREM NoOrphanHolds == Spec => []NoOrphan
<1>1. Sound => NoOrphan
  BY DEF Sound, CommandBooks, ResultBooks
<1>2. QED
  BY <1>1, SoundAlways, PTL

\* An entry whose payload was reported is not pending, and no payload comes with two
\* results.
THEOREM OnceReportedHolds == Spec => []OnceReported
BY SoundAlways, SoundOnceReported, PTL

\* Neither thread's _expire_pending deletes an entry that is not stale.
THEOREM FreshKeptHolds == Spec => FreshKept
<1>1. Sound /\ [Next]_vars =>
        [restarts' = restarts =>
           \A e \in pending : ~e.old /\ (\A x \in pending' : x.cmd # e.cmd) =>
             ack = Nothing /\ ack' # Nothing /\ ack'.id = e.cmd.key]_vars
  BY StepFreshKept
<1>2. QED
  BY <1>1, SoundAlways, PTL DEF Spec, FreshKept

-----------------------------------------------------------------------------
(* The promise is kept. *)

\* What the promise sees when nothing it sees changes.
LEMMA PromiseSame ==
  ASSUME UNCHANGED <<asked, results, ran, settled>>, Waiting' = Waiting, Taken' = Taken
  PROVE  UNCHANGED Promise!vars
BY DEF Promise!vars, Told, Among, Wire

LEMMA PromiseBlind ==
  ASSUME UNCHANGED <<asked, pending, got, results, ran, settled>>
  PROVE  UNCHANGED Promise!vars
<1>1. Waiting' = Waiting /\ Taken' = Taken
  BY DEF Waiting, Taken
<1> QED
  BY <1>1, PromiseSame

\* Entries that leave, one at most.
LEMMA WaitingLess ==
  ASSUME Sound, NEW e \in pending, pending' = pending \ {e}
  PROVE  e.cmd \in Waiting /\ Waiting' = Waiting \ {e.cmd}
<1>1. \A x \in pending : x # e => x.cmd # e.cmd
  BY DEF Sound, CommandBooks, PendingBooks
<1> QED
  BY <1>1 DEF Waiting

LEMMA PromiseRecord == ASSUME Sound, Sound', Record PROVE Promise!Next
<1> USE DEF Sound, CommandBooks
<1>1. /\ asked' = asked \cup {Fresh} /\ pending' = pending \cup {[cmd |-> Fresh, old |-> FALSE]}
      /\ UNCHANGED <<got, results, ran, settled>>
  BY DEF Record, service
<1>2. Fresh \in Asked
  BY <1>1 DEF TypeOK
<1>3. Cardinality(asked) \in Nat /\ Fresh.ser = Cardinality(asked) + 1 /\ Fresh.key = nextId
  BY FS_CardinalityType DEF AskedBooks, Fresh
<1>4. \A c \in asked : c.ser \in Nat /\ c.ser <= Cardinality(asked)
  BY Constants DEF TypeOK, Asked, AskedBooks
<1>5. \A c \in asked : c.ser # Fresh.ser
  BY <1>3, <1>4
<1>6. \A e \in Waiting : e.key # Fresh.key
  <2>1. \A e \in pending : e.cmd.key < nextId /\ e.cmd.key \in Nat
    BY Constants DEF PendingBooks, TypeOK, Entry, Asked
  <2>2. nextId \in Nat
    BY Constants DEF TypeOK
  <2> QED
    BY <1>3, <2>1, <2>2 DEF Waiting
<1>7. Waiting' = Waiting \cup {Fresh}
  <2> DEFINE entry == [cmd |-> Fresh, old |-> FALSE]
  <2>1. pending' = pending \cup {entry} /\ entry.cmd = Fresh
    BY <1>1
  <2> HIDE DEF entry
  <2> QED
    BY <2>1 DEF Waiting
<1>8. Taken' = Taken
  <2>1. got = 0 \/ \E c \in asked : c.ser = got
    BY DEF HandBooks
  <2>2. Fresh.ser # got
    BY <1>3, <1>5, <2>1
  <2> QED
    BY <1>1, <2>2 DEF Taken
<1>9. Wire(Fresh) \notin issued
  <2>1. \A c \in asked : Wire(c).ser = c.ser
    BY DEF Wire
  <2>2. Wire(Fresh).ser = Fresh.ser
    BY DEF Wire
  <2> QED
    BY <1>5, <2>1, <2>2 DEF ServiceBooks
<1>10. Among(ran)' = Among(ran) /\ Among(settled)' = Among(settled)
  <2>1. Wire(Fresh) \notin ran /\ Wire(Fresh) \notin settled
    BY <1>9 DEF ServiceBooks
  <2>2. \A c \in asked' : c \in asked \/ c = Fresh
    BY <1>1
  <2> QED
    BY <1>1, <2>1, <2>2 DEF Among, Wire
<1>11. Told' = Told
  BY <1>1 DEF Told
<1>12. Promise!Ask(Fresh)
  BY <1>1, <1>5, <1>6, <1>7, <1>8, <1>10, <1>11 DEF Promise!Ask
<1> QED
  BY <1>2, <1>12 DEF Promise!Next

LEMMA PromiseDrop ==
  ASSUME Sound, NEW t \in Threads, NEW k \in stale[t], Drop(t, k)
  PROVE  Promise!Next
<1> USE DEF Sound, CommandBooks
<1>1. PICK e \in pending : e.cmd.key = k
  BY DEF Drop
<1>2. {x \in pending : x.cmd.key = k} = {e}
  BY <1>1 DEF PendingBooks
<1>3. pending' = pending \ {e} /\ UNCHANGED <<asked, got, results, ran, settled>>
  BY <1>2 DEF Drop, Remove, service
<1>4. e.cmd \in Waiting /\ Waiting' = Waiting \ {e.cmd}
  BY <1>3, WaitingLess
<1>5. UNCHANGED <<Told, Among(ran), Among(settled), Taken>>
  BY <1>3 DEF Told, Among, Wire, Taken
<1>6. Promise!Lapse(e.cmd)
  BY <1>3, <1>4, <1>5 DEF Promise!Lapse
<1> QED
  BY <1>4, <1>6 DEF Promise!Next

\* An exception costs the serial thread the answer in its hands.
LEMMA PromiseRaises ==
  ASSUME Sound, NEW t \in Threads, Raises(t),
         UNCHANGED <<pending, asked, results, service>>
  PROVE  Promise!Next \/ UNCHANGED Promise!vars
<1>1. Waiting' = Waiting
  BY DEF Waiting
<1>2. CASE got' = got
  <2>1. UNCHANGED <<asked, pending, got, results, ran, settled>>
    BY <1>2 DEF service
  <2> QED
    BY <2>1, PromiseBlind
<1>3. CASE got' = 0
  <2>1. Taken' = {}
    BY <1>3, Constants DEF Taken, Sound, TypeOK, Asked
  <2>2. UNCHANGED <<Told, Among(ran), Among(settled)>>
    BY DEF Told, Among, Wire, service
  <2>3. Promise!Lose
    BY <1>1, <2>1, <2>2 DEF Promise!Lose
  <2> QED
    BY <2>3 DEF Promise!Next
<1> QED
  BY <1>2, <1>3 DEF Raises, MqttTo, SerialToIdle

LEMMA PromiseTakeAck ==
  ASSUME Sound, NEW a \in told \cup refused, TakeAck(a)
  PROVE  Promise!Next \/ UNCHANGED Promise!vars
<1> USE DEF Sound, CommandBooks
<1> DEFINE mine == {e \in pending : e.cmd.key = a.id}
<1>1. /\ UNCHANGED <<asked, results, ran, settled>>
      /\ pending' = pending \ mine
      /\ got' = IF mine = {} THEN 0 ELSE (CHOOSE e \in mine : TRUE).cmd.ser
      /\ got = 0
  BY DEF TakeAck, Remove, service, HandBooks
<1>2. 0 \notin {c.ser : c \in asked}
  BY Constants DEF TypeOK, Asked
<1>3. CASE mine = {}
  <2>1. UNCHANGED <<asked, pending, got, results, ran, settled>>
    BY <1>1, <1>3
  <2> QED
    BY <2>1, PromiseBlind
<1>4. CASE mine # {}
  <2>1. PICK e \in pending : mine = {e}
    BY <1>4 DEF PendingBooks
  <2>2. pending' = pending \ {e} /\ got' = e.cmd.ser
    BY <1>1, <2>1
  <2>3. e.cmd \in Waiting /\ Waiting' = Waiting \ {e.cmd}
    BY <2>2, WaitingLess
  <2>4. Taken = {}
    BY <1>1, <1>2 DEF Taken
  <2>5. Taken' = {e.cmd}
    BY <1>1, <2>2 DEF Taken, PendingBooks, AskedBooks
  <2>6. UNCHANGED <<Told, Among(ran), Among(settled)>>
    BY <1>1 DEF Told, Among, Wire
  <2>7. Promise!Take(e.cmd)
    BY <1>1, <2>3, <2>4, <2>5, <2>6 DEF Promise!Take
  <2> QED
    BY <2>3, <2>7 DEF Promise!Next
<1> QED
  BY <1>3, <1>4

\* What the books say of a result, in the terms of the promise.
LEMMA BackedTruthful ==
  ASSUME NEW l, Backed(l)
  PROVE  Promise!Truthful(l, Among(ran), Among(settled))
BY DEF Backed, Promise!Truthful, Among

LEMMA PromisePublish ==
  ASSUME Sound, Sound', Publish
  PROVE  Promise!Next \/ UNCHANGED Promise!vars
<1> USE DEF Sound, CommandBooks
<1> DEFINE line(d) == [topic |-> d, mac |-> ack.mac, id |-> ack.id, ser |-> got,
                       line |-> ack.line]
<1>1. /\ UNCHANGED <<pending, asked, ran, settled>> /\ got' = 0
      /\ results' = results \cup {line(d) : d \in Topics} /\ ack # Nothing
  BY DEF Publish, SerialToIdle, service, HandBooks
<1>2. Taken' = {} /\ Waiting' = Waiting
  BY <1>1, Constants DEF Taken, Waiting, TypeOK, Asked
<1>3. UNCHANGED <<Among(ran), Among(settled)>>
  BY <1>1 DEF Among, Wire
<1>4. CASE got = 0
  <2>1. \A d : line(d).ser = 0
    BY <1>4
  <2>2. Told' = Told
    BY <1>1, <2>1 DEF Told
  <2>3. Taken' = Taken
    BY <1>1, <1>4 DEF Taken
  <2> QED
    BY <1>1, <1>2, <1>3, <2>2, <2>3 DEF Promise!vars
<1>5. CASE got # 0
  <2>1. PICK c \in asked : c.ser = got /\ c.key = ack.id
    BY <1>5 DEF HandBooks
  <2>2. \A x \in asked : x.ser = got => x = c
    BY <2>1 DEF AskedBooks
  <2>3. Taken = {c}
    BY <2>1, <2>2 DEF Taken
  <2>4. PICK d : Topics = {d} /\ d \in {ack.mac, c.dest}
    BY <2>1, <2>2 DEF Topics
  <2>5. line(d) \in results' /\ line(d) \in Result
    BY <1>1, <2>4 DEF TypeOK
  <2>6. Told' = Told \cup {line(d)}
    <3>1. line(d).ser # 0
      BY <1>5
    <3> HIDE DEF line
    <3>2. results' = results \cup {line(d)}
      BY <1>1, <2>4
    <3> QED
      BY <3>1, <3>2 DEF Told
  <2>7. Promise!Truthful(line(d), Among(ran), Among(settled))
    <3>1. Backed(line(d))
      BY <1>1 DEF HandBooks, Backed
    <3> HIDE DEF line
    <3> QED
      BY <3>1, BackedTruthful
  <2>8. Promise!Tell(c, line(d))
    <3>1. line(d).ser = c.ser /\ line(d).id = c.key /\ line(d).topic \in {line(d).mac, c.dest}
      BY <2>1, <2>4
    <3> HIDE DEF line
    <3> QED
      BY <1>1, <1>2, <1>3, <2>3, <2>6, <2>7, <3>1 DEF Promise!Tell
  <2> HIDE DEF line
  <2> QED
    BY <2>3, <2>5, <2>8 DEF Promise!Next
<1> QED
  BY <1>4, <1>5

LEMMA PromiseCoordinator ==
  ASSUME Sound, Sound', CoordinatorStep
  PROVE  Promise!Next \/ UNCHANGED Promise!vars
<1> USE DEF Sound, CommandBooks
<1>1. /\ UNCHANGED <<pending, asked, got, results>>
      /\ Waiting' = Waiting /\ Taken' = Taken /\ Told' = Told
  BY DEF CoordinatorStep, hands, Waiting, Taken, Told
<1>2. ASSUME NEW w \in issued
      PROVE  \E c \in asked : Wire(c) = w /\ \A x \in asked : Wire(x) = w => x = c
  <2>1. PICK c \in asked : w = Wire(c)
    BY DEF ServiceBooks
  <2>2. \A x \in asked : Wire(x) = w => x.ser = c.ser
    BY <2>1 DEF Wire
  <2> QED
    BY <2>1, <2>2 DEF AskedBooks
<1>3. ASSUME NEW w \in issued, Coordinator!Run(w) PROVE Promise!Next
  <2>1. PICK c \in asked : Wire(c) = w /\ \A x \in asked : Wire(x) = w => x = c
    BY <1>2
  <2>2. ran' = ran \cup {w} /\ settled' = settled
    BY <1>3 DEF Coordinator!Run
  <2>3. Among(ran)' = Among(ran) \cup {c} /\ Among(settled)' = Among(settled)
    BY <1>1, <2>1, <2>2 DEF Among, Wire
  <2>4. Promise!Run(c)
    BY <1>1, <2>3 DEF Promise!Run
  <2> QED
    BY <2>4 DEF Promise!Next
<1>4. ASSUME NEW w \in open, Coordinator!Settle(w) PROVE Promise!Next
  <2>1. PICK c \in asked : Wire(c) = w /\ \A x \in asked : Wire(x) = w => x = c
    BY <1>2 DEF ServiceBooks
  <2>2. settled' = settled \cup {w} /\ ran' = ran
    BY <1>4 DEF Coordinator!Settle
  <2>3. Among(settled)' = Among(settled) \cup {c} /\ Among(ran)' = Among(ran)
    BY <1>1, <2>1, <2>2 DEF Among, Wire
  <2>4. \A l \in Told : Promise!Truthful(l, Among(ran), Among(settled)')
    <3>1. ASSUME NEW l \in Told PROVE Promise!Truthful(l, Among(ran), Among(settled)')
      <4>1. PICK x \in asked :
              /\ x.dest = l.mac /\ x.id = l.id
              /\ l.line = "ok" => Wire(x) \in ran
              /\ l.line = "timeout" => Wire(x) \notin settled'
        BY <1>1, <2>2, <3>1 DEF Told, ResultBooks, Backed, Wire
      <4>2. l.line = "ok" => x \in Among(ran)
        BY <4>1 DEF Among
      <4>3. l.line = "timeout" => x \notin Among(settled)'
        BY <4>1 DEF Among, Wire
      <4> QED
        BY <4>1, <4>2, <4>3 DEF Promise!Truthful
    <3> QED
      BY <3>1
  <2>5. Promise!Settle(c)
    BY <1>1, <2>3, <2>4 DEF Promise!Settle
  <2> QED
    BY <2>5 DEF Promise!Next
<1>5. CASE UNCHANGED <<ran, settled>>
  <2>1. UNCHANGED <<asked, pending, got, results, ran, settled>>
    BY <1>1, <1>5
  <2> QED
    BY <2>1, PromiseBlind
<1> QED
  BY <1>3, <1>4, <1>5 DEF CoordinatorStep, Coordinator!GiveUp, Coordinator!TellOk,
     Coordinator!TellTimeout, Coordinator!DropAnswer, Coordinator!Forget

LEMMA PromiseStep ==
  Sound /\ Sound' /\ [Next]_vars => [Promise!Next]_(Promise!vars)
<1> SUFFICES ASSUME Sound, Sound', [Next]_vars
             PROVE  Promise!Next \/ UNCHANGED Promise!vars
  OBVIOUS
<1>1. CASE FindFails \/ UnknownSlug \/ WriteLine \/ \E d \in Devices : SetMessage(d) \/ DeviceLine(d)
  <2>1. UNCHANGED <<asked, pending, got, results, ran, settled>>
    BY <1>1 DEF FindFails, UnknownSlug, WriteLine, SetMessage, DeviceLine, Raises, MqttTo,
       hands, service, Coordinator!Issue
  <2> QED
    BY <2>1, PromiseBlind
<1>2. CASE Record
  BY <1>2, PromiseRecord
<1>3. ASSUME NEW t \in Threads, Scan(t) PROVE UNCHANGED Promise!vars
  BY <1>3, PromiseBlind DEF Scan, service
<1>4. ASSUME NEW t \in Threads, ScanFails(t) PROVE Promise!Next \/ UNCHANGED Promise!vars
  BY <1>4, PromiseRaises DEF ScanFails
<1>5. ASSUME NEW t \in Threads, NEW k \in stale[t], Drop(t, k) PROVE Promise!Next
  BY <1>5, PromiseDrop
<1>6. ASSUME NEW t \in Threads, NEW k \in stale[t], DropFails(t, k)
      PROVE  Promise!Next \/ UNCHANGED Promise!vars
  BY <1>6, PromiseRaises DEF DropFails
<1>7. ASSUME NEW a \in told \cup refused, TakeAck(a) PROVE Promise!Next \/ UNCHANGED Promise!vars
  BY <1>7, PromiseTakeAck
<1>8. CASE Publish
  BY <1>8, PromisePublish
<1>9. ASSUME NEW e \in pending, Ages(e) PROVE UNCHANGED Promise!vars
  <2>1. [e EXCEPT !.old = TRUE].cmd = e.cmd
    BY DEF Sound, TypeOK, Entry
  <2>2. UNCHANGED <<asked, got, results, ran, settled>>
        /\ pending' = (pending \ {e}) \cup {[e EXCEPT !.old = TRUE]}
    BY <1>9 DEF Ages, hands, service
  <2>3. Waiting' = Waiting
    <3> DEFINE x == [e EXCEPT !.old = TRUE]
    <3>1. x.cmd = e.cmd /\ pending' = (pending \ {e}) \cup {x}
      BY <2>1, <2>2
    <3> HIDE DEF x
    <3> QED
      BY <3>1 DEF Waiting
  <2>4. Taken' = Taken
    BY <2>2 DEF Taken
  <2> QED
    BY <2>2, <2>3, <2>4, PromiseSame
<1>10. CASE Restart
  <2>1. pending' = {} /\ got' = 0 /\ UNCHANGED <<asked, results, ran, settled>>
    BY <1>10 DEF Restart, Remove, service
  <2>2. Waiting' = {} /\ Taken' = {}
    BY <2>1, Constants DEF Waiting, Taken, Sound, TypeOK, Asked
  <2>3. UNCHANGED <<Told, Among(ran), Among(settled)>>
    BY <2>1 DEF Told, Among, Wire
  <2>4. Promise!Forget
    BY <2>1, <2>2, <2>3 DEF Promise!Forget
  <2> QED
    BY <2>4 DEF Promise!Next
<1>11. CASE CoordinatorStep
  BY <1>11, PromiseCoordinator
<1>12. CASE UNCHANGED vars
  BY <1>12, PromiseBlind DEF vars, hands, service
<1> QED
  BY <1>1, <1>2, <1>3, <1>4, <1>5, <1>6, <1>7, <1>8, <1>9, <1>10, <1>11, <1>12
     DEF Next, Mqtt, Expiry

LEMMA PromiseInit == Init => Promise!Init
<1> SUFFICES ASSUME Init PROVE Promise!Init
  OBVIOUS
<1>1. asked = {} /\ pending = {} /\ results = {}
  BY DEF Init
<1>2. Waiting = {} /\ Taken = {} /\ Told = {} /\ Among(ran) = {} /\ Among(settled) = {}
  BY <1>1 DEF Waiting, Taken, Told, Among
<1> QED
  BY <1>1, <1>2 DEF Promise!Init

\* The bridge implements CommandResults: whatever its two threads do to each other and
\* however late, often or out of order the coordinator's lines come, a command is told
\* about at most once, never after it lapsed, and truthfully.
THEOREM KeepsPromiseHolds == Spec => KeepsPromise
<1>1. Init => Promise!Init
  BY PromiseInit
<1>2. Sound /\ Sound' /\ [Next]_vars => [Promise!Next]_(Promise!vars)
  BY PromiseStep
<1>3. QED
  BY <1>1, <1>2, SoundAlways, PTL DEF Spec, KeepsPromise, Promise!Spec
=============================================================================
