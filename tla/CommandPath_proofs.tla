-------------------------- MODULE CommandPath_proofs --------------------------
(***************************************************************************)
(* What TLAPS shows of CommandPath for any devices, ids, table sizes,      *)
(* retry counts and numbers of sends and restarts.                         *)
(***************************************************************************)
EXTENDS CommandPath, TLAPS

\* A remainder is below its divisor.
LEMMA ModRange ==
  ASSUME NEW a \in Nat, NEW b \in Nat, b > 0
  PROVE  a % b \in 0..(b - 1)
OBVIOUS

\* Casts stay in their width: an id in WireIds, a counter below AttemptWidth.
LEMMA Widths ==
  /\ \A h \in Nat : h % IdModulus \in WireIds
  /\ \A n \in Nat : n % AttemptWidth \in 0..(AttemptWidth - 1)
  /\ 1 \in WireIds /\ 1 \in 0..(AttemptWidth - 1)
BY ModRange, BoundsAssumption DEF WireIds

\* The record pending_add writes is a slot.
LEMMA NewSlot ==
  ASSUME NEW c \in Command
  PROVE  [cmd |-> c, attempts |-> 1, due |-> FALSE] \in Slot
BY Widths DEF Slot

\* A slot that has been resent is a slot with the same command.
LEMMA ResentSlot ==
  ASSUME NEW s \in Slot
  PROVE  LET r == [s EXCEPT !.attempts = (@ + 1) % AttemptWidth, !.due = FALSE]
         IN r \in Slot /\ r # Free /\ r.cmd = s.cmd
<1>1. (s.attempts + 1) % AttemptWidth \in 0..(AttemptWidth - 1)
  <2>1. s.attempts + 1 \in Nat
    BY BoundsAssumption DEF Slot
  <2> QED
    BY <2>1, Widths
<1> QED
  BY <1>1, SentinelAssumption DEF Slot

LEMMA TypeInit == Init => TypeOK
<1>1. 0 \in 0..(MaxRetries + 2) /\ 0 \in 0..MaxRestarts
  BY BoundsAssumption
<1>2. [s \in Serial |-> 0] \in [Serial -> 0..(MaxRetries + 2)]
  BY <1>1
<1> QED
  BY <1>1, <1>2, Widths DEF Init, TypeOK

LEMMA TypeSend ==
  ASSUME TypeOK, NEW c \in Command, SendDownlink(c)
  PROVE  /\ pending' \in [Slots -> Slot \cup {Free}]
         /\ tx' \in [Serial -> 0..(MaxRetries + 2)]
         /\ sent' \subseteq Command /\ cmds' \subseteq Command
         /\ told' \subseteq Verdict
<1> DEFINE entry == [cmd |-> c, attempts |-> 1, due |-> FALSE]
<1>1. entry \in Slot
  BY NewSlot
<1>2. pending' \in [Slots -> Slot \cup {Free}]
  BY <1>1 DEF TypeOK, SendDownlink, PendingAdd, Lowest, Matching, FreeSlots, taskVars
<1>3. c.ser \in Serial /\ c.dest \in Devices /\ c.id \in WireIds
  BY DEF Command
<1>4. tx' \in [Serial -> 0..(MaxRetries + 2)]
  BY <1>3, BoundsAssumption DEF TypeOK, SendDownlink, Bump
<1>5. [mac |-> c.dest, id |-> c.id, ser |-> c.ser, line |-> "send_fail"] \in Verdict
  BY <1>3, BoundsAssumption DEF Verdict, Serial
<1>6. told' \subseteq Verdict
  BY <1>5 DEF TypeOK, SendDownlink
<1> QED
  BY <1>2, <1>4, <1>6 DEF TypeOK, SendDownlink

LEMMA TypeTick ==
  ASSUME TypeOK, PendingTick
  PROVE  /\ pending' \in [Slots -> Slot \cup {Free}]
         /\ tx' \in [Serial -> 0..(MaxRetries + 2)]
         /\ expired' \subseteq Command /\ cmds' \subseteq Command
<1>1. ASSUME NEW i \in Slots PROVE Ticked(i) \in Slot \cup {Free}
  <2>1. CASE i \in Resent
    <3>1. pending[i] \in Slot
      BY <2>1 DEF TypeOK, Resent, DueSlots
    <3> QED
      BY <2>1, <3>1, ResentSlot DEF Ticked, Resent
  <2>2. CASE i \notin Resent
    BY <2>2 DEF Ticked, TypeOK
  <2> QED
    BY <2>1, <2>2
<1>2. pending' \in [Slots -> Slot \cup {Free}]
  BY <1>1 DEF PendingTick
<1>3. \A s \in Serial : Bump(tx[s]) \in 0..(MaxRetries + 2)
  BY BoundsAssumption DEF TypeOK, Bump
<1>4. tx' \in [Serial -> 0..(MaxRetries + 2)]
  BY <1>3 DEF PendingTick, TypeOK
<1>5. \A i \in DueSlots : pending[i].cmd \in Command
  BY DEF TypeOK, DueSlots, Slot
<1> QED
  BY <1>2, <1>4, <1>5 DEF PendingTick, TypeOK, GivenUp, Resent

LEMMA TypeResolve ==
  ASSUME TypeOK, NEW d, NEW n, PendingResolve(d, n)
  PROVE  /\ pending' \in [Slots -> Slot \cup {Free}]
         /\ resolved' \subseteq Command
<1>1. \A i \in Matching(d, n) : pending[i].cmd \in Command
  BY DEF TypeOK, Matching, Slot
<1> QED
  BY <1>1 DEF TypeOK, PendingResolve, Lowest

LEMMA TypeStep == TypeOK /\ [Next]_vars => TypeOK'
<1> SUFFICES ASSUME TypeOK, [Next]_vars PROVE TypeOK'
  OBVIOUS
<1> USE DEF TypeOK, table, taskVars, host, radio
<1>1. ASSUME NEW d \in Devices, NEW h \in HostIds, HostCommand(d, h) PROVE TypeOK'
  <2>1. PICK s \in FreshSerial :
          SendDownlink([dest |-> d, id |-> h % IdModulus, ser |-> s])
    BY <1>1 DEF HostCommand
  <2>2. [dest |-> d, id |-> h % IdModulus, ser |-> s] \in Command
    BY <2>1, Widths, BoundsAssumption DEF Command, FreshSerial, Lowest
  <2> QED
    BY <1>1, <2>1, <2>2, TypeSend DEF HostCommand, SendDownlink
<1>2. ASSUME NEW d \in Devices, ConsoleCommand(d) PROVE TypeOK'
  <2> DEFINE id == IF nextId = 0 THEN 1 ELSE nextId
  <2>1. id \in WireIds /\ id \in Nat
    BY Widths DEF WireIds
  <2>2. PICK s \in FreshSerial : SendDownlink([dest |-> d, id |-> id, ser |-> s])
    BY <1>2 DEF ConsoleCommand
  <2>3. [dest |-> d, id |-> id, ser |-> s] \in Command
    BY <2>1, <2>2 DEF Command, FreshSerial, Lowest
  <2>4. nextId' \in WireIds
    BY <1>2, <2>1, Widths DEF ConsoleCommand
  <2> QED
    BY <2>2, <2>3, <2>4, TypeSend DEF SendDownlink
<1>3. CASE PairLine
  BY <1>3 DEF PairLine
<1>4. CASE PairingCloses
  BY <1>4 DEF PairingCloses
<1>5. ASSUME NEW d \in Devices, UnpairLine(d) PROVE TypeOK'
  BY <1>5 DEF UnpairLine
<1>6. ASSUME NEW f \in cmds, NEW a \in BOOLEAN, DeviceCommand(f, a) PROVE TypeOK'
  <2>1. [origin |-> f.dest, id |-> f.id] \in Ack
    BY DEF Ack, Command
  <2> QED
    BY <1>6, <2>1 DEF DeviceCommand
<1>7. ASSUME NEW f \in acks, ReceiveAck(f) PROVE TypeOK'
  <2>1. f.origin \in Devices /\ f.id \in WireIds
    BY DEF Ack
  <2>2. /\ pending' \in [Slots -> Slot \cup {Free}]
        /\ resolved' \subseteq Command
    BY <1>7, TypeResolve DEF ReceiveAck
  <2> QED
    BY <1>7, <2>1, <2>2 DEF ReceiveAck, Uplink, Learn
<1>8. ASSUME NEW d \in Devices, ReceiveReport(d) PROVE TypeOK'
  <2>1. 0 \in WireIds
    BY BoundsAssumption DEF WireIds
  <2> QED
    BY <1>8, <2>1 DEF ReceiveReport, Uplink, Learn
<1>9. CASE OnUplink
  <2>1. uplink.origin \in Devices /\ uplink.id \in WireIds
    BY <1>9 DEF OnUplink, Uplink
  <2>2. [mac |-> uplink.origin, id |-> uplink.id, ser |-> 0, line |-> "ok"] \in Verdict
    BY <2>1, BoundsAssumption DEF Verdict
  <2> QED
    BY <1>9, <2>1, <2>2 DEF OnUplink
<1>10. CASE Maintenance
  BY <1>10, TypeTick DEF Maintenance
<1>11. ASSUME NEW c \in expired, PostTimeout(c) PROVE TypeOK'
  BY <1>11 DEF PostTimeout
<1>12. ASSUME NEW i \in Slots, IntervalElapses(i) PROVE TypeOK'
  BY <1>12 DEF IntervalElapses, Slot
<1>13. ASSUME NEW c \in events, OnAckTimeout(c) PROVE TypeOK'
  <2>1. [mac |-> c.dest, id |-> c.id, ser |-> c.ser, line |-> "timeout"] \in Verdict
    BY BoundsAssumption DEF Verdict, Command, Serial
  <2> QED
    BY <1>13, <2>1 DEF OnAckTimeout
<1>14. CASE PeerSweep
  BY <1>14 DEF PeerSweep
<1>15. CASE Restart
  <2>1. restarts' \in 0..MaxRestarts
    BY <1>15, BoundsAssumption DEF Restart
  <2>2. nextId' \in WireIds
    BY <1>15, Widths DEF Restart
  <2> QED
    BY <1>15, <2>1, <2>2 DEF Restart
<1>16. CASE UNCHANGED vars
  BY <1>16 DEF vars
<1> QED
  BY <1>1, <1>2, <1>3, <1>4, <1>5, <1>6, <1>7, <1>8, <1>9, <1>10, <1>11, <1>12,
     <1>13, <1>14, <1>15, <1>16 DEF Next

\* Every reachable state of the command path is well typed: in particular no
\* cmd_id, attempt counter or serial leaves its width.
THEOREM TypeCorrect == Spec => []TypeOK
<1>1. Init => TypeOK
  BY TypeInit
<1>2. TypeOK /\ [Next]_vars => TypeOK'
  BY TypeStep
<1> QED
  BY <1>1, <1>2, PTL DEF Spec

-----------------------------------------------------------------------------
(* No false success: an ACK exists only for a command that was handled. *)

Carried(d, n) == \E c \in ran : c.dest = d /\ c.id = n

AckBooks ==
  /\ \A a \in acks : Carried(a.origin, a.id)
  /\ uplink # Idle /\ uplink.ack => Carried(uplink.origin, uplink.id)
  /\ NoFalseSuccess

LEMMA AckStep == TypeOK /\ AckBooks /\ [Next]_vars => AckBooks'
<1> SUFFICES ASSUME TypeOK, AckBooks, [Next]_vars PROVE AckBooks'
  OBVIOUS
<1> USE DEF AckBooks, Carried, NoFalseSuccess, table, taskVars, host, radio
<1>2. ASSUME NEW d \in Devices, NEW h \in HostIds, HostCommand(d, h) PROVE AckBooks'
  BY <1>2 DEF HostCommand, SendDownlink
<1>3. ASSUME NEW d \in Devices, ConsoleCommand(d) PROVE AckBooks'
  BY <1>3 DEF ConsoleCommand, SendDownlink
<1>4. CASE PairLine \/ PairingCloses \/ \E d \in Devices : UnpairLine(d)
  BY <1>4 DEF PairLine, PairingCloses, UnpairLine
<1>5. ASSUME NEW f \in cmds, NEW a \in BOOLEAN, DeviceCommand(f, a) PROVE AckBooks'
  <2>1. ran' = ran \cup {f} /\ UNCHANGED <<uplink, told>>
    BY <1>5 DEF DeviceCommand
  <2>2. \A b \in acks' : b \in acks \/ (b.origin = f.dest /\ b.id = f.id)
    BY <1>5 DEF DeviceCommand
  <2> QED
    BY <2>1, <2>2
<1>6. ASSUME NEW f \in acks, ReceiveAck(f) PROVE AckBooks'
  BY <1>6 DEF ReceiveAck
<1>7. ASSUME NEW d \in Devices, ReceiveReport(d) PROVE AckBooks'
  BY <1>7 DEF ReceiveReport
<1>8. CASE OnUplink
  <2>1. UNCHANGED <<acks, ran>> /\ uplink' = Idle
    BY <1>8 DEF OnUplink
  <2>2. \A t \in told' : t \in told \/
           (uplink # Idle /\ uplink.ack /\ t.mac = uplink.origin /\ t.id = uplink.id)
    BY <1>8 DEF OnUplink
  <2> QED
    BY <2>1, <2>2
<1>9. CASE Maintenance
  BY <1>9 DEF Maintenance
<1>10. ASSUME NEW c \in expired, PostTimeout(c) PROVE AckBooks'
  BY <1>10 DEF PostTimeout
<1>11. ASSUME NEW i \in Slots, IntervalElapses(i) PROVE AckBooks'
  BY <1>11 DEF IntervalElapses
<1>12. ASSUME NEW c \in events, OnAckTimeout(c) PROVE AckBooks'
  BY <1>12 DEF OnAckTimeout
<1>13. CASE PeerSweep \/ Restart
  BY <1>13 DEF PeerSweep, Restart
<1>14. CASE UNCHANGED vars
  BY <1>14 DEF vars
<1> QED
  BY <1>2, <1>3, <1>4, <1>5, <1>6, <1>7, <1>8, <1>9, <1>10, <1>11, <1>12, <1>13,
     <1>14 DEF Next

\* An ok line always stands for a command the device handled, however
\* frames are lost, delayed or duplicated and however often the coordinator
\* restarts.
THEOREM NoFalseSuccessHolds == Spec => []NoFalseSuccess
<1>1. Init => AckBooks
  BY DEF Init, AckBooks, NoFalseSuccess
<1>2. TypeOK /\ AckBooks /\ [Next]_vars => AckBooks'
  BY AckStep
<1>3. AckBooks => NoFalseSuccess
  BY DEF AckBooks
<1> QED
  BY <1>1, <1>2, <1>3, TypeCorrect, PTL DEF Spec

-----------------------------------------------------------------------------
(* The retry table.  Its counter has to be able to pass the limit: with     *)
(* MaxRetries = AttemptWidth - 1 the comparison in en2m_pending_tick can    *)
(* never be true.                                                           *)

RetriesFit == MaxRetries + 1 < AttemptWidth

\* The variables RetryBooks speaks of.
books == <<pending, tx, resolved, sent, expired, events, told>>

\* A counter below the width counts without wrapping.
LEMMA NoWrap ==
  ASSUME RetriesFit, NEW n \in Nat, n <= MaxRetries
  PROVE  (n + 1) % AttemptWidth = n + 1
BY BoundsAssumption DEF RetriesFit

LEMMA BooksUnchanged == RetryBooks /\ UNCHANGED books => RetryBooks'
BY DEF RetryBooks, books, UniquePending, HonestTimeout, BoundedTransmissions, Open

\* pending_add puts the new command in one slot that held its key or nothing,
\* or in none.
LEMMA AddOneSlot ==
  ASSUME TypeOK, UniquePending, NEW c \in Command, PendingAdd(c)
  PROVE  \/ UNCHANGED pending
         \/ \E k \in Slots :
              /\ pending' = [pending EXCEPT ![k] =
                               [cmd |-> c, attempts |-> 1, due |-> FALSE]]
              /\ \A i \in Slots : i # k /\ pending[i] # Free =>
                   \/ pending[i].cmd.dest # c.dest
                   \/ pending[i].cmd.id # c.id
              /\ pending[k] # Free =>
                   pending[k].cmd.dest = c.dest /\ pending[k].cmd.id = c.id
<1> DEFINE entry == [cmd |-> c, attempts |-> 1, due |-> FALSE]
<1>1. CASE Matching(c.dest, c.id) = {}
  <2>1. \A i \in Slots : pending[i] # Free =>
          pending[i].cmd.dest # c.dest \/ pending[i].cmd.id # c.id
    BY <1>1 DEF Matching
  <2> QED
    BY <1>1, <2>1 DEF PendingAdd, Lowest, FreeSlots
<1>2. CASE Matching(c.dest, c.id) # {}
  <2>1. PICK k \in Lowest(Matching(c.dest, c.id)) :
          pending' = [pending EXCEPT ![k] = entry]
    BY <1>2 DEF PendingAdd
  <2>2. /\ k \in Slots /\ pending[k] # Free
        /\ pending[k].cmd.dest = c.dest /\ pending[k].cmd.id = c.id
    BY <2>1 DEF Lowest, Matching
  <2>3. \A i \in Slots : i # k /\ pending[i] # Free =>
          pending[i].cmd.dest # c.dest \/ pending[i].cmd.id # c.id
    BY <2>2 DEF UniquePending
  <2> QED
    BY <2>1, <2>2, <2>3
<1> QED
  BY <1>1, <1>2

LEMMA BooksSend ==
  ASSUME TypeOK, RetryBooks, NEW c \in Command, c.ser \in FreshSerial, SendDownlink(c)
  PROVE  RetryBooks'
<1> DEFINE entry == [cmd |-> c, attempts |-> 1, due |-> FALSE]
<1>1. /\ c.ser \in Serial /\ \A e \in sent : e.ser # c.ser
      /\ tx[c.ser] = 0 /\ c \notin sent
  BY DEF FreshSerial, Lowest, RetryBooks
<1>2. /\ sent' = sent \cup {c}
      /\ UNCHANGED <<resolved, expired, events>>
      /\ tx' \in [Serial -> 0..(MaxRetries + 2)]
      /\ pending' \in [Slots -> Slot \cup {Free}]
  BY TypeSend DEF SendDownlink, taskVars, TypeOK
<1>3. \A s \in Serial : s # c.ser => tx'[s] = tx[s]
  BY DEF SendDownlink, TypeOK
<1>4. tx'[c.ser] \in {0, 1}
  BY <1>1, BoundsAssumption DEF SendDownlink, TypeOK, Bump
<1>5. \A t \in told' : t.line = "timeout" => t \in told
  BY DEF SendDownlink
<1>6. \A t \in told : t.line = "timeout" => t.ser # c.ser
  BY <1>1, BoundsAssumption DEF RetryBooks, HonestTimeout
<1>7. \A e \in sent : e \in Command /\ e.ser \in Serial
  BY DEF TypeOK, Command
<1>8. \/ UNCHANGED pending
      \/ /\ tx'[c.ser] = 1
         /\ \E k \in Slots :
              /\ pending' = [pending EXCEPT ![k] = entry]
              /\ \A i \in Slots : i # k /\ pending[i] # Free =>
                   pending[i].cmd.dest # c.dest \/ pending[i].cmd.id # c.id
  <2>1. CASE UNCHANGED pending
    BY <2>1
  <2>2. CASE PendingAdd(c) /\ tx' = [tx EXCEPT ![c.ser] = Bump(@)]
    <3>1. tx'[c.ser] = 1
      BY <1>1, <2>2, BoundsAssumption DEF TypeOK, Bump
    <3> QED
      BY <2>2, <3>1, AddOneSlot DEF RetryBooks
  <2> QED
    BY <2>1, <2>2 DEF SendDownlink
<1>9. \A i \in Slots : pending'[i] # Free =>
        \/ pending'[i] = pending[i] /\ pending[i] # Free
        \/ pending'[i] = entry /\ tx'[c.ser] = 1
  BY <1>8 DEF TypeOK
<1>10. UniquePending'
  BY <1>8 DEF UniquePending, RetryBooks, TypeOK
<1>11. Open' \subseteq sent'
  BY <1>2, <1>9 DEF Open, RetryBooks
<1>12. ASSUME NEW i \in Slots, pending'[i] # Free
       PROVE  /\ pending'[i].attempts = tx'[pending'[i].cmd.ser]
              /\ pending'[i].cmd \notin resolved' \cup expired' \cup events'
              /\ \A t \in told' : t.line = "timeout" => t.ser # pending'[i].cmd.ser
  <2>1. CASE pending'[i] = entry /\ tx'[c.ser] = 1
    BY <1>1, <1>2, <1>5, <1>6, <2>1 DEF RetryBooks
  <2>2. CASE pending'[i] = pending[i] /\ pending[i] # Free
    <3>1. pending[i].cmd \in sent
      BY <2>2 DEF RetryBooks, Open
    <3>2. pending[i].cmd.ser # c.ser /\ pending[i].cmd.ser \in Serial
      BY <1>1, <1>7, <3>1
    <3> QED
      BY <1>2, <1>3, <1>5, <2>2, <3>2 DEF RetryBooks
  <2> QED
    BY <1>9, <1>12, <2>1, <2>2
<1>13. \A e \in expired' \cup events' :
         e \notin resolved' /\ tx'[e.ser] = MaxRetries + 1
  BY <1>1, <1>2, <1>3, <1>7 DEF RetryBooks
<1>14. HonestTimeout'
  BY <1>2, <1>3, <1>5, <1>6 DEF HonestTimeout, RetryBooks
<1>15. BoundedTransmissions'
  BY <1>3, <1>4, BoundsAssumption DEF BoundedTransmissions, RetryBooks
<1>16. \A d, e \in sent' : d.ser = e.ser => d = e
  BY <1>1, <1>2 DEF RetryBooks
<1>17. \A s \in Serial : (\A d \in sent' : d.ser # s) => tx'[s] = 0
  BY <1>2, <1>3 DEF RetryBooks
<1>18. resolved' \cup expired' \cup events' \cup Open' \subseteq sent'
  BY <1>2, <1>11 DEF RetryBooks
<1>19. expired' \cap events' = {}
  BY <1>2 DEF RetryBooks
<1> QED
  BY <1>10, <1>12, <1>13, <1>14, <1>15, <1>16, <1>17, <1>18, <1>19 DEF RetryBooks

LEMMA BooksResolve ==
  ASSUME TypeOK, RetryBooks, NEW d, NEW n, PendingResolve(d, n),
         UNCHANGED <<tx, sent, expired, events, told>>
  PROVE  RetryBooks'
<1>1. CASE UNCHANGED <<pending, resolved>>
  BY <1>1, BooksUnchanged DEF books
<1>2. ASSUME NEW k \in Slots, pending[k] # Free,
             pending' = [pending EXCEPT ![k] = Free],
             resolved' = resolved \cup {pending[k].cmd}
      PROVE  RetryBooks'
  <2>1. /\ pending[k].cmd \in sent
        /\ pending[k].cmd \notin expired \cup events
        /\ \A t \in told : t.line = "timeout" => t.ser # pending[k].cmd.ser
    BY <1>2 DEF RetryBooks, Open
  <2>2. \A i \in Slots : pending'[i] # Free =>
          i # k /\ pending[i] # Free /\ pending'[i] = pending[i]
    BY <1>2 DEF TypeOK
  <2>3. \A i \in Slots : pending'[i] # Free => pending'[i].cmd # pending[k].cmd
    BY <1>2, <2>2 DEF RetryBooks, UniquePending
  <2>4. UniquePending' /\ Open' \subseteq sent'
    BY <1>2, <2>2 DEF RetryBooks, UniquePending, Open
  <2>5. HonestTimeout' /\ BoundedTransmissions'
    BY <1>2, <2>1 DEF RetryBooks, HonestTimeout, BoundedTransmissions
  <2> QED
    BY <1>2, <2>1, <2>2, <2>3, <2>4, <2>5 DEF RetryBooks
<1> QED
  BY <1>1, <1>2 DEF PendingResolve, Lowest, Matching

\* One tick: due slots are given up at MaxRetries + 1 attempts, else counted.
LEMMA BooksTick ==
  ASSUME RetriesFit, TypeOK, RetryBooks, expired = {}, PendingTick,
         UNCHANGED <<resolved, sent, events, told>>
  PROVE  RetryBooks'
<1> DEFINE Used(i) == pending[i] # Free
           Ser(i)  == pending[i].cmd.ser
<1>1. \A i \in Slots : Used(i) =>
        /\ pending[i] \in Slot /\ pending[i].cmd \in sent
        /\ pending[i].cmd \in Command /\ Ser(i) \in Serial
        /\ pending[i].attempts = tx[Ser(i)] /\ tx[Ser(i)] <= MaxRetries + 1
        /\ tx[Ser(i)] \in Nat
  BY BoundsAssumption DEF TypeOK, RetryBooks, Open, Slot, Command, BoundedTransmissions
<1>2. \A i, j \in Slots : Used(i) /\ Used(j) /\ Ser(i) = Ser(j) => i = j
  BY <1>1 DEF RetryBooks, UniquePending
<1>3. ASSUME NEW i \in GivenUp
      PROVE  i \in Slots /\ Used(i) /\ tx[Ser(i)] = MaxRetries + 1
  BY <1>1, BoundsAssumption DEF GivenUp, DueSlots
<1>4. ASSUME NEW i \in Resent
      PROVE  /\ i \in Slots /\ Used(i) /\ tx[Ser(i)] <= MaxRetries
             /\ (pending[i].attempts + 1) % AttemptWidth = tx[Ser(i)] + 1
  <2>1. i \in Slots /\ Used(i) /\ ~(pending[i].attempts > MaxRetries)
    BY DEF Resent, GivenUp, DueSlots
  <2>2. tx[Ser(i)] <= MaxRetries /\ tx[Ser(i)] \in Nat
    BY <1>1, <2>1, BoundsAssumption
  <2> QED
    BY <1>1, <2>1, <2>2, NoWrap
<1>5. \A s \in Serial :
        tx'[s] = IF \E i \in Resent : Ser(i) = s THEN Bump(tx[s]) ELSE tx[s]
  BY DEF PendingTick
<1>6. \A i \in Resent : tx'[Ser(i)] = tx[Ser(i)] + 1
  BY <1>1, <1>4, <1>5, BoundsAssumption DEF Bump
<1>7. \A s \in Serial : (\A i \in Resent : Ser(i) # s) => tx'[s] = tx[s]
  BY <1>5
<1>8. \A s \in Serial : (\A i \in Slots : Used(i) => Ser(i) # s) => tx'[s] = tx[s]
  BY <1>4, <1>7
<1>9. ASSUME NEW i \in Slots, pending'[i] # Free
      PROVE  /\ Used(i) /\ pending'[i].cmd = pending[i].cmd
             /\ pending'[i].attempts = tx'[pending'[i].cmd.ser]
             /\ i \notin GivenUp
  <2>1. pending'[i] = Ticked(i) /\ i \notin GivenUp
    BY <1>9 DEF PendingTick, Ticked, Resent
  <2>2. CASE i \in Resent
    <3>1. pending'[i] = [pending[i] EXCEPT
                           !.attempts = (@ + 1) % AttemptWidth, !.due = FALSE]
      BY <2>1, <2>2 DEF Ticked
    <3> QED
      BY <1>1, <1>4, <1>6, <2>1, <2>2, <3>1 DEF Slot
  <2>3. CASE i \notin Resent
    <3>1. pending'[i] = pending[i]
      BY <2>1, <2>3 DEF Ticked
    <3>2. Used(i)
      BY <1>9, <3>1
    <3>3. \A j \in Resent : Ser(j) # Ser(i)
      BY <1>2, <1>4, <2>3, <3>2
    <3> QED
      BY <1>1, <1>7, <2>1, <3>1, <3>2, <3>3
  <2> QED
    BY <2>2, <2>3
<1>10. UniquePending'
  BY <1>9 DEF RetryBooks, UniquePending
<1>11. ASSUME NEW c \in expired'
       PROVE  /\ c \in sent /\ c \notin resolved
              /\ tx'[c.ser] = MaxRetries + 1
              /\ c \notin events
             /\ \A i \in Slots : pending'[i] # Free => pending'[i].cmd # c
  <2>1. PICK k \in GivenUp : c = pending[k].cmd
    BY DEF PendingTick
  <2>2. k \in Slots /\ Used(k) /\ tx[Ser(k)] = MaxRetries + 1 /\ k \notin Resent
    BY <1>3 DEF Resent
  <2>3. tx'[Ser(k)] = tx[Ser(k)]
    BY <1>1, <1>2, <1>4, <1>7, <2>2
  <2>4. \A i \in Slots : pending'[i] # Free => pending[i].cmd # c
    BY <1>2, <1>9, <2>1, <2>2
  <2> QED
    BY <1>1, <1>9, <2>1, <2>2, <2>3, <2>4 DEF RetryBooks
<1>12. \A c \in events : tx'[c.ser] = tx[c.ser]
  <2>1. ASSUME NEW c \in events PROVE \A i \in Slots : Used(i) => Ser(i) # c.ser
    BY <1>1 DEF RetryBooks
  <2> QED
    BY <1>8, <2>1 DEF TypeOK, Command
<1>13. \A t \in told : t.line = "timeout" => tx'[t.ser] = tx[t.ser]
  BY <1>8 DEF RetryBooks, HonestTimeout
<1>14. HonestTimeout'
  BY <1>13 DEF RetryBooks, HonestTimeout
<1>15. BoundedTransmissions'
  <2> SUFFICES ASSUME NEW s \in Serial PROVE tx'[s] <= MaxRetries + 1
    BY DEF BoundedTransmissions
  <2>1. CASE \E i \in Resent : Ser(i) = s
    BY <1>1, <1>4, <1>6, <2>1, BoundsAssumption
  <2>2. CASE \A i \in Resent : Ser(i) # s
    BY <1>7, <2>2 DEF RetryBooks, BoundedTransmissions
  <2> QED
    BY <2>1, <2>2
<1>16. Open' \subseteq sent'
  BY <1>1, <1>9 DEF Open
<1>17. \A s \in Serial : (\A c \in sent' : c.ser # s) => tx'[s] = 0
  BY <1>1, <1>8 DEF RetryBooks
<1>18. ASSUME NEW i \in Slots, pending'[i] # Free
       PROVE  /\ pending'[i].cmd \notin resolved' \cup expired' \cup events'
              /\ \A t \in told' : t.line = "timeout" => t.ser # pending'[i].cmd.ser
  BY <1>9, <1>11, <1>18 DEF RetryBooks
<1>19. \A c \in events : c \in sent /\ c \notin resolved /\ tx[c.ser] = MaxRetries + 1
  BY DEF RetryBooks
<1>20. \A c \in expired' \cup events' :
         c \in sent' /\ c \notin resolved' /\ tx'[c.ser] = MaxRetries + 1
  BY <1>11, <1>12, <1>19
<1>21. \A c, e \in sent' : c.ser = e.ser => c = e
  BY DEF RetryBooks
<1>22. resolved' \subseteq sent'
  BY DEF RetryBooks
<1>23. expired' \cap events' = {}
  BY <1>11
<1> QED
  BY <1>9, <1>10, <1>14, <1>15, <1>16, <1>17, <1>18, <1>20, <1>21, <1>22, <1>23
     DEF RetryBooks

LEMMA BooksStep == RetriesFit /\ TypeOK /\ RetryBooks /\ [Next]_vars => RetryBooks'
<1> SUFFICES ASSUME RetriesFit, TypeOK, RetryBooks, [Next]_vars PROVE RetryBooks'
  OBVIOUS
<1> USE DEF table, taskVars, host, radio, books
<1>1. ASSUME NEW d \in Devices, NEW h \in HostIds, HostCommand(d, h) PROVE RetryBooks'
  <2>1. PICK s \in FreshSerial :
          SendDownlink([dest |-> d, id |-> h % IdModulus, ser |-> s])
    BY <1>1 DEF HostCommand
  <2>2. [dest |-> d, id |-> h % IdModulus, ser |-> s] \in Command
    BY <2>1, Widths, BoundsAssumption DEF Command, FreshSerial, Lowest
  <2> QED
    BY <2>1, <2>2, BooksSend
<1>2. ASSUME NEW d \in Devices, ConsoleCommand(d) PROVE RetryBooks'
  <2> DEFINE id == IF nextId = 0 THEN 1 ELSE nextId
  <2>1. id \in WireIds
    BY Widths DEF TypeOK
  <2>2. PICK s \in FreshSerial : SendDownlink([dest |-> d, id |-> id, ser |-> s])
    BY <1>2 DEF ConsoleCommand
  <2>3. [dest |-> d, id |-> id, ser |-> s] \in Command
    BY <2>1, <2>2 DEF Command, FreshSerial, Lowest
  <2> QED
    BY <2>2, <2>3, BooksSend
<1>3. CASE PairLine \/ PairingCloses \/ \E d \in Devices : UnpairLine(d)
  BY <1>3, BooksUnchanged DEF PairLine, PairingCloses, UnpairLine
<1>4. ASSUME NEW f \in cmds, NEW a \in BOOLEAN, DeviceCommand(f, a) PROVE RetryBooks'
  BY <1>4, BooksUnchanged DEF DeviceCommand
<1>5. ASSUME NEW f \in acks, ReceiveAck(f) PROVE RetryBooks'
  <2>1. CASE f.id = 0
    BY <1>5, <2>1, BooksUnchanged DEF ReceiveAck
  <2>2. CASE f.id # 0
    BY <1>5, <2>2, BooksResolve DEF ReceiveAck
  <2> QED
    BY <2>1, <2>2
<1>6. ASSUME NEW d \in Devices, ReceiveReport(d) PROVE RetryBooks'
  BY <1>6, BooksUnchanged DEF ReceiveReport
<1>7. CASE OnUplink
  <2>1. UNCHANGED <<pending, tx, resolved, sent, expired, events>>
    BY <1>7 DEF OnUplink
  <2>2. \A t \in told' : t.line = "timeout" => t \in told
    BY <1>7 DEF OnUplink
  <2>3. HonestTimeout' /\ BoundedTransmissions' /\ UniquePending' /\ Open' = Open
    BY <2>1, <2>2 DEF RetryBooks, HonestTimeout, BoundedTransmissions, UniquePending, Open
  <2> QED
    BY <2>1, <2>2, <2>3 DEF RetryBooks
<1>8. CASE Maintenance
  BY <1>8, BooksTick DEF Maintenance, TaskIdle
<1>9. ASSUME NEW c \in expired, PostTimeout(c) PROVE RetryBooks'
  <2>1. UNCHANGED <<pending, tx, resolved, sent, told>>
    BY <1>9 DEF PostTimeout
  <2>2. /\ expired' \cup events' \subseteq expired \cup events
        /\ expired' \cap events' = {}
    BY <1>9 DEF PostTimeout, RetryBooks
  <2>3. HonestTimeout' /\ BoundedTransmissions' /\ UniquePending' /\ Open' = Open
    BY <2>1 DEF RetryBooks, HonestTimeout, BoundedTransmissions, UniquePending, Open
  <2> QED
    BY <2>1, <2>2, <2>3 DEF RetryBooks
<1>10. ASSUME NEW i \in Slots, IntervalElapses(i) PROVE RetryBooks'
  <2>1. UNCHANGED <<tx, resolved, sent, expired, events, told>>
    BY <1>10 DEF IntervalElapses
  <2>2. \A j \in Slots : /\ pending'[j] # Free <=> pending[j] # Free
                         /\ pending[j] # Free =>
                              /\ pending'[j].cmd = pending[j].cmd
                              /\ pending'[j].attempts = pending[j].attempts
    BY <1>10, SentinelAssumption DEF IntervalElapses, TypeOK, Slot
  <2>3. HonestTimeout' /\ BoundedTransmissions' /\ UniquePending' /\ Open' = Open
    BY <2>1, <2>2 DEF RetryBooks, HonestTimeout, BoundedTransmissions, UniquePending, Open
  <2> QED
    BY <2>1, <2>2, <2>3 DEF RetryBooks
<1>11. ASSUME NEW c \in events, OnAckTimeout(c) PROVE RetryBooks'
  <2>1. UNCHANGED <<pending, tx, resolved, sent, expired>> /\ events' \subseteq events
    BY <1>11 DEF OnAckTimeout
  <2>2. \A t \in told' : t.line = "timeout" => t \in told \/ t.ser = c.ser
    BY <1>11 DEF OnAckTimeout
  <2>3. /\ c \in sent /\ c.ser \in Serial /\ tx[c.ser] = MaxRetries + 1
        /\ c \notin resolved
    BY DEF RetryBooks, TypeOK, Command
  <2>4. \A r \in resolved : r.ser # c.ser
    BY <2>3 DEF RetryBooks
  <2>5. \A i \in Slots : pending[i] # Free => pending[i].cmd.ser # c.ser
    BY <2>3 DEF RetryBooks, Open
  <2>6. HonestTimeout' /\ BoundedTransmissions' /\ UniquePending' /\ Open' = Open
    BY <2>1, <2>2, <2>3, <2>4
       DEF RetryBooks, HonestTimeout, BoundedTransmissions, UniquePending, Open
  <2> QED
    BY <2>1, <2>2, <2>5, <2>6 DEF RetryBooks
<1>12. CASE PeerSweep
  BY <1>12, BooksUnchanged DEF PeerSweep
<1>13. CASE Restart
  BY <1>13 DEF Restart, RetryBooks, HonestTimeout, BoundedTransmissions, UniquePending, Open
<1>14. CASE UNCHANGED vars
  BY <1>14, BooksUnchanged DEF vars
<1> QED
  BY <1>1, <1>2, <1>3, <1>4, <1>5, <1>6, <1>7, <1>8, <1>9, <1>10, <1>11, <1>12,
     <1>13, <1>14 DEF Next

LEMMA BooksInit == Init => RetryBooks
BY BoundsAssumption
   DEF Init, RetryBooks, UniquePending, HonestTimeout, BoundedTransmissions, Open

\* The books of the retry table always balance.
THEOREM RetryBooksHold == ASSUME RetriesFit PROVE Spec => []RetryBooks
<1>1. TypeOK /\ RetryBooks /\ [Next]_vars => RetryBooks'
  BY BooksStep
<1> QED
  BY <1>1, BooksInit, TypeCorrect, PTL DEF Spec

\* A timeout line is honest: the command went out MaxRetries + 1 times and no
\* ACK released it.
THEOREM HonestTimeoutHolds == ASSUME RetriesFit PROVE Spec => []HonestTimeout
<1>1. RetryBooks => HonestTimeout
  BY DEF RetryBooks
<1> QED
  BY <1>1, RetryBooksHold, PTL

\* No command exceeds its retry budget.
THEOREM BoundedTransmissionsHolds ==
  ASSUME RetriesFit PROVE Spec => []BoundedTransmissions
<1>1. RetryBooks => BoundedTransmissions
  BY DEF RetryBooks
<1> QED
  BY <1>1, RetryBooksHold, PTL

\* No key waits in two slots.
THEOREM UniquePendingHolds == ASSUME RetriesFit PROVE Spec => []UniquePending
<1>1. RetryBooks => UniquePending
  BY DEF RetryBooks
<1> QED
  BY <1>1, RetryBooksHold, PTL

\* A step that transmits c again finds c in a slot, and c is then unresolved.
LEMMA QuietStep ==
  TypeOK /\ RetryBooks /\ [Next]_vars => [\A c \in resolved : tx'[c.ser] = tx[c.ser]]_vars
<1> SUFFICES ASSUME TypeOK, RetryBooks, Next, NEW c \in resolved
             PROVE  tx'[c.ser] = tx[c.ser]
  BY DEF vars
<1> USE DEF table
<1>1. c \in sent /\ c.ser \in Serial
  BY DEF RetryBooks, TypeOK, Command
<1>2. ASSUME NEW e \in Command, e.ser \in FreshSerial, SendDownlink(e)
      PROVE  tx'[c.ser] = tx[c.ser]
  <2>1. e.ser # c.ser
    BY <1>1, <1>2 DEF FreshSerial, Lowest
  <2> QED
    BY <1>1, <1>2, <2>1 DEF SendDownlink, TypeOK
<1>3. ASSUME NEW d \in Devices, NEW h \in HostIds, HostCommand(d, h)
      PROVE  tx'[c.ser] = tx[c.ser]
  <2>1. PICK s \in FreshSerial :
          SendDownlink([dest |-> d, id |-> h % IdModulus, ser |-> s])
    BY <1>3 DEF HostCommand
  <2>2. [dest |-> d, id |-> h % IdModulus, ser |-> s] \in Command
    BY <2>1, Widths, BoundsAssumption DEF Command, FreshSerial, Lowest
  <2> QED
    BY <2>1, <2>2, <1>2
<1>4. ASSUME NEW d \in Devices, ConsoleCommand(d) PROVE tx'[c.ser] = tx[c.ser]
  <2> DEFINE id == IF nextId = 0 THEN 1 ELSE nextId
  <2>1. id \in WireIds
    BY Widths DEF TypeOK
  <2>2. PICK s \in FreshSerial : SendDownlink([dest |-> d, id |-> id, ser |-> s])
    BY <1>4 DEF ConsoleCommand
  <2>3. [dest |-> d, id |-> id, ser |-> s] \in Command
    BY <2>1, <2>2 DEF Command, FreshSerial, Lowest
  <2> QED
    BY <2>2, <2>3, <1>2
<1>5. CASE Maintenance
  <2>1. \A i \in Resent : pending[i].cmd.ser # c.ser
    BY <1>1 DEF RetryBooks, Resent, DueSlots, Open
  <2> QED
    BY <1>1, <1>5, <2>1 DEF Maintenance, PendingTick
<1>6. CASE PairLine \/ PairingCloses \/ (\E d \in Devices : UnpairLine(d))
           \/ (\E f \in cmds, a \in BOOLEAN : DeviceCommand(f, a))
           \/ (\E f \in acks : ReceiveAck(f)) \/ (\E d \in Devices : ReceiveReport(d))
  BY <1>6 DEF PairLine, PairingCloses, UnpairLine, DeviceCommand, ReceiveAck,
              ReceiveReport
<1>7. CASE OnUplink \/ (\E e \in expired : PostTimeout(e))
           \/ (\E i \in Slots : IntervalElapses(i)) \/ (\E e \in events : OnAckTimeout(e))
           \/ PeerSweep \/ Restart
  BY <1>7 DEF OnUplink, PostTimeout, IntervalElapses, OnAckTimeout, PeerSweep, Restart
<1> QED
  BY <1>3, <1>4, <1>5, <1>6, <1>7 DEF Next

\* After its ACK released the slot, a command is never on the air again.
THEOREM NoRetryAfterAckHolds == ASSUME RetriesFit PROVE Spec => NoRetryAfterAck
<1>1. TypeOK /\ RetryBooks /\ [Next]_vars =>
        [\A c \in resolved : tx'[c.ser] = tx[c.ser]]_vars
  BY QuietStep
<1> QED
  BY <1>1, TypeCorrect, RetryBooksHold, PTL DEF Spec, NoRetryAfterAck

-----------------------------------------------------------------------------
(* Nobody is evicted. *)

\* The command in slot i keeps its place, or leaves it by its own end.
Stays(i) ==
  \/ /\ pending'[i] # Free
     /\ pending[i].cmd.dest = pending'[i].cmd.dest
     /\ pending[i].cmd.id = pending'[i].cmd.id
  \/ pending[i].cmd \in resolved' \cup expired'
  \/ restarts' > restarts

\* en2m_pending_add only takes over a slot of the key, or a free one.
LEMMA AddStays ==
  ASSUME TypeOK, NEW c \in Command, PendingAdd(c), NEW i \in Slots, pending[i] # Free
  PROVE  Stays(i)
<1> DEFINE entry == [cmd |-> c, attempts |-> 1, due |-> FALSE]
<1>1. entry # Free /\ entry.cmd = c
  BY NewSlot, SentinelAssumption
<1>2. PICK j \in Slots : \/ pending' = pending
                         \/ /\ pending' = [pending EXCEPT ![j] = entry]
                            /\ j \in Matching(c.dest, c.id) \/ j \in FreeSlots
  BY DEF PendingAdd, Lowest, Matching, FreeSlots
<1> HIDE DEF entry
<1>3. CASE pending' = pending
  BY <1>3 DEF Stays
<1>4. CASE /\ pending' = [pending EXCEPT ![j] = entry]
           /\ j \in Matching(c.dest, c.id) \/ j \in FreeSlots
  <2>1. CASE i = j
    BY <1>1, <1>4, <2>1 DEF TypeOK, Stays, Matching, FreeSlots
  <2>2. CASE i # j
    BY <1>4, <2>2 DEF TypeOK, Stays
  <2> QED
    BY <2>1, <2>2
<1> QED
  BY <1>2, <1>3, <1>4

\* en2m_pending_resolve reports the command whose slot it releases.
LEMMA ResolveStays ==
  ASSUME TypeOK, NEW d, NEW n, PendingResolve(d, n), NEW i \in Slots, pending[i] # Free
  PROVE  Stays(i)
<1>1. CASE pending' = pending
  BY <1>1 DEF Stays
<1>2. CASE pending' # pending
  <2>1. PICK j \in Matching(d, n) : /\ pending' = [pending EXCEPT ![j] = Free]
                                   /\ resolved' = resolved \cup {pending[j].cmd}
    BY <1>2 DEF PendingResolve, Lowest
  <2> QED
    BY <2>1 DEF TypeOK, Stays, Matching
<1> QED
  BY <1>1, <1>2

\* The tick keeps what it resends and reports what it gives up.
LEMMA TickStays ==
  ASSUME TypeOK, PendingTick, NEW i \in Slots, pending[i] # Free
  PROVE  Stays(i)
<1>1. pending[i] \in Slot /\ pending'[i] = Ticked(i)
  BY DEF TypeOK, PendingTick
<1>2. CASE i \in GivenUp
  BY <1>2 DEF Stays, PendingTick
<1>3. CASE i \in Resent
  <2> DEFINE r == [pending[i] EXCEPT !.attempts = (@ + 1) % AttemptWidth, !.due = FALSE]
  <2>1. r # Free /\ r.cmd = pending[i].cmd
    BY <1>1, ResentSlot
  <2>2. Ticked(i) = r
    BY <1>3 DEF Ticked, Resent
  <2> HIDE DEF r
  <2> QED
    BY <1>1, <2>1, <2>2 DEF Stays
<1>4. CASE i \notin GivenUp /\ i \notin Resent
  BY <1>1, <1>4 DEF Stays, Ticked
<1> QED
  BY <1>2, <1>3, <1>4

LEMMA SendStays ==
  ASSUME TypeOK, NEW c \in Command, SendDownlink(c), NEW i \in Slots, pending[i] # Free
  PROVE  Stays(i)
<1>1. CASE pending' = pending
  BY <1>1 DEF Stays
<1>2. CASE PendingAdd(c)
  BY <1>2, AddStays
<1> QED
  BY <1>1, <1>2 DEF SendDownlink

LEMMA StaysStep ==
  TypeOK /\ [Next]_vars => [\A i \in Slots : pending[i] # Free => Stays(i)]_vars
<1> SUFFICES ASSUME TypeOK, Next, NEW i \in Slots, pending[i] # Free
             PROVE  Stays(i)
  BY DEF vars
<1>1. ASSUME NEW d \in Devices, NEW h \in HostIds, HostCommand(d, h) PROVE Stays(i)
  <2>1. PICK s \in FreshSerial :
          SendDownlink([dest |-> d, id |-> h % IdModulus, ser |-> s])
    BY <1>1 DEF HostCommand
  <2>2. [dest |-> d, id |-> h % IdModulus, ser |-> s] \in Command
    BY <2>1, Widths, BoundsAssumption DEF Command, FreshSerial, Lowest
  <2> QED
    BY <2>1, <2>2, SendStays
<1>2. ASSUME NEW d \in Devices, ConsoleCommand(d) PROVE Stays(i)
  <2> DEFINE id == IF nextId = 0 THEN 1 ELSE nextId
  <2>1. id \in WireIds
    BY Widths DEF TypeOK
  <2>2. PICK s \in FreshSerial : SendDownlink([dest |-> d, id |-> id, ser |-> s])
    BY <1>2 DEF ConsoleCommand
  <2>3. [dest |-> d, id |-> id, ser |-> s] \in Command
    BY <2>1, <2>2 DEF Command, FreshSerial, Lowest
  <2> QED
    BY <2>2, <2>3, SendStays
<1>3. ASSUME NEW f \in acks, ReceiveAck(f) PROVE Stays(i)
  <2>1. CASE pending' = pending
    BY <2>1 DEF Stays
  <2>2. CASE PendingResolve(f.origin, f.id)
    BY <2>2, ResolveStays
  <2> QED
    BY <1>3, <2>1, <2>2 DEF ReceiveAck
<1>4. CASE Maintenance
  BY <1>4, TickStays DEF Maintenance
<1>5. ASSUME NEW j \in Slots, IntervalElapses(j) PROVE Stays(i)
  <2>1. pending[i] \in Slot /\ pending[j] \in Slot
    BY <1>5 DEF TypeOK, IntervalElapses
  <2>2. [pending[j] EXCEPT !.due = TRUE] \in Slot
        /\ [pending[j] EXCEPT !.due = TRUE].cmd = pending[j].cmd
    BY <2>1 DEF Slot
  <2>3. pending'[i] = IF i = j THEN [pending[j] EXCEPT !.due = TRUE] ELSE pending[i]
    BY <1>5 DEF TypeOK, IntervalElapses
  <2> QED
    BY <2>1, <2>2, <2>3, SentinelAssumption DEF Stays
<1>6. CASE Restart
  <2>1. restarts' > restarts
    BY <1>6, BoundsAssumption DEF Restart, TypeOK
  <2> QED
    BY <2>1 DEF Stays
<1>7. CASE pending' = pending
  BY <1>7 DEF Stays
<1> QED
  BY <1>1, <1>2, <1>3, <1>4, <1>5, <1>6, <1>7
     DEF Next, table, PairLine, PairingCloses, UnpairLine, DeviceCommand, ReceiveReport,
         OnUplink, PostTimeout, OnAckTimeout, PeerSweep

\* A full table never costs a waiting command its slot: it leaves by its own ACK or
\* timeout, a restart, or a resend of the same key, for any table size and budget.
THEOREM NoEvictionHolds == Spec => NoEviction
<1>1. TypeOK /\ [Next]_vars => [\A i \in Slots : pending[i] # Free => Stays(i)]_vars
  BY StaysStep
<1> QED
  BY <1>1, TypeCorrect, PTL DEF Spec, NoEviction, Stays

-----------------------------------------------------------------------------
(* The command path implements CommandService. *)

LEMMA ServiceSend ==
  ASSUME TypeOK, RetryBooks, NEW c \in Command, c.ser \in FreshSerial, SendDownlink(c)
  PROVE  Service!Issue(c)
<1> USE DEF taskVars
<1>1. /\ \A e \in sent : e.ser # c.ser
      /\ sent' = sent \cup {c}
      /\ UNCHANGED <<ran, resolved, expired, events>>
  BY DEF FreshSerial, Lowest, SendDownlink
<1>2. {t \in told : t.line # "send_fail"}' = {t \in told : t.line # "send_fail"}
  BY DEF SendDownlink
<1>3. Open' \in {Open, {e \in Open : ~Service!SameKey(e, c)} \cup {c}}
  <2>1. CASE UNCHANGED pending
    BY <2>1 DEF Open
  <2>2. ASSUME NEW k \in Slots,
               pending' = [pending EXCEPT ![k] =
                             [cmd |-> c, attempts |-> 1, due |-> FALSE]],
               \A i \in Slots : i # k /\ pending[i] # Free =>
                 pending[i].cmd.dest # c.dest \/ pending[i].cmd.id # c.id,
               pending[k] # Free =>
                 pending[k].cmd.dest = c.dest /\ pending[k].cmd.id = c.id
        PROVE  Open' = {e \in Open : ~Service!SameKey(e, c)} \cup {c}
    <3>1. pending'[k] # Free /\ pending'[k].cmd = c
      BY <2>2, NewSlot, SentinelAssumption DEF TypeOK
    <3>2. \A i \in Slots : i # k => pending'[i] = pending[i]
      BY <2>2 DEF TypeOK
    <3>3. Open' \subseteq {e \in Open : ~Service!SameKey(e, c)} \cup {c}
      BY <2>2, <3>1, <3>2 DEF Open, Service!SameKey
    <3>4. ASSUME NEW e \in Open, ~Service!SameKey(e, c) PROVE e \in Open'
      <4>1. PICK i \in Slots : pending[i] # Free /\ e = pending[i].cmd
        BY DEF Open
      <4>2. i # k
        BY <2>2, <3>4, <4>1 DEF Service!SameKey
      <4> QED
        BY <3>2, <4>1, <4>2 DEF Open
    <3>5. c \in Open'
      BY <3>1 DEF Open
    <3> QED
      BY <3>3, <3>4, <3>5
  <2>3. CASE PendingAdd(c)
    BY <2>1, <2>2, <2>3, AddOneSlot DEF RetryBooks
  <2> QED
    BY <2>1, <2>3 DEF SendDownlink
<1> QED
  BY <1>1, <1>2, <1>3 DEF Service!Issue

\* An ACK settles the open command of its key, which its device handled.
LEMMA ServiceResolve ==
  ASSUME TypeOK, RetryBooks, NEW d, NEW n, PendingResolve(d, n), Carried(d, n),
         UNCHANGED <<sent, ran, expired, events, told>>
  PROVE  (\E c \in Open : Service!Settle(c)) \/ UNCHANGED Service!vars
<1>1. CASE UNCHANGED <<pending, resolved>>
  BY <1>1 DEF Service!vars, Open
<1>2. ASSUME NEW k \in Lowest(Matching(d, n)),
             pending' = [pending EXCEPT ![k] = Free],
             resolved' = resolved \cup {pending[k].cmd}
      PROVE  Service!Settle(pending[k].cmd) /\ pending[k].cmd \in Open
  <2>1. /\ k \in Slots /\ pending[k] # Free
        /\ pending[k].cmd.dest = d /\ pending[k].cmd.id = n
    BY DEF Lowest, Matching
  <2>2. pending[k].cmd \in Open
    BY <2>1 DEF Open
  <2>3. \E e \in ran : Service!SameKey(e, pending[k].cmd)
    BY <2>1 DEF Carried, Service!SameKey
  <2>4. \A i \in Slots : i # k /\ pending[i] # Free => pending[i].cmd # pending[k].cmd
    BY <2>1 DEF RetryBooks, UniquePending
  <2>5. pending'[k] = Free /\ \A i \in Slots : i # k => pending'[i] = pending[i]
    BY <1>2, <2>1 DEF TypeOK
  <2>6. Open' = Open \ {pending[k].cmd}
    <3>1. \A e \in Open' : e \in Open /\ e # pending[k].cmd
      BY <2>4, <2>5 DEF Open
    <3>2. \A e \in Open : e # pending[k].cmd => e \in Open'
      BY <2>5 DEF Open
    <3> QED
      BY <3>1, <3>2
  <2> QED
    BY <1>2, <2>2, <2>3, <2>6 DEF Service!Settle
<1> QED
  BY <1>1, <1>2 DEF PendingResolve

\* The tick gives up the commands it takes out of their slots, and no other.
LEMMA ServiceTick ==
  ASSUME RetriesFit, TypeOK, RetryBooks, expired = {}, PendingTick,
         UNCHANGED <<sent, ran, resolved, events, told>>
  PROVE  (\E S \in SUBSET Open : Service!GiveUp(S)) \/ UNCHANGED Service!vars
<1>1. \A i \in Slots : i \notin GivenUp /\ pending[i] # Free =>
        pending'[i] # Free /\ pending'[i].cmd = pending[i].cmd
  <2> SUFFICES ASSUME NEW i \in Slots, i \notin GivenUp, pending[i] # Free
               PROVE  pending'[i] # Free /\ pending'[i].cmd = pending[i].cmd
    OBVIOUS
  <2>1. CASE i \in Resent
    <3>1. pending[i] \in Slot
      BY DEF TypeOK
    <3>2. pending'[i] = [pending[i] EXCEPT
                           !.attempts = (@ + 1) % AttemptWidth, !.due = FALSE]
      BY <2>1 DEF PendingTick, Ticked
    <3> QED
      BY <3>1, <3>2, ResentSlot
  <2>2. CASE i \notin Resent
    BY <2>2 DEF PendingTick, Ticked
  <2> QED
    BY <2>1, <2>2
<1>2. ASSUME NEW i \in GivenUp
      PROVE  i \in Slots /\ pending[i] # Free /\ pending'[i] = Free
  <2>1. i \in Slots /\ pending[i] # Free
    BY DEF GivenUp, DueSlots
  <2>2. Ticked(i) = Free
    BY DEF Ticked, Resent
  <2> QED
    BY <2>1, <2>2 DEF PendingTick
<1>3. \A i \in Slots : pending[i] = Free => pending'[i] = Free
  BY DEF PendingTick, Ticked, GivenUp, DueSlots, Resent
<1>4. expired' = {pending[i].cmd : i \in GivenUp}
  BY DEF PendingTick
<1>5. expired' \subseteq Open
  BY <1>2, <1>4 DEF Open
<1>6. Open' = Open \ expired'
  <2>1. ASSUME NEW e \in Open' PROVE e \in Open /\ e \notin expired'
    <3>1. PICK i \in Slots : pending'[i] # Free /\ e = pending'[i].cmd
      BY DEF Open
    <3>2. i \notin GivenUp /\ pending[i] # Free /\ e = pending[i].cmd
      BY <1>1, <1>2, <1>3, <3>1
    <3>3. \A k \in GivenUp : pending[k].cmd # e
      BY <1>2, <3>2 DEF RetryBooks, UniquePending
    <3> QED
      BY <1>4, <3>2, <3>3 DEF Open
  <2>2. ASSUME NEW e \in Open, e \notin expired' PROVE e \in Open'
    <3>1. PICK i \in Slots : pending[i] # Free /\ e = pending[i].cmd
      BY DEF Open
    <3>2. i \notin GivenUp
      BY <1>4, <2>2, <3>1
    <3> QED
      BY <1>1, <3>1, <3>2 DEF Open
  <2> QED
    BY <2>1, <2>2
<1>7. expired' \cup events' = (expired \cup events) \cup expired'
  OBVIOUS
<1>8. CASE expired' = {}
  BY <1>6, <1>8 DEF Service!vars
<1>9. CASE expired' # {}
  BY <1>5, <1>6, <1>7, <1>9 DEF Service!GiveUp
<1> QED
  BY <1>8, <1>9

\* Only commands of the host are on the air.
FramesSent == cmds \subseteq sent

LEMMA FramesStep == TypeOK /\ RetryBooks /\ FramesSent /\ [Next]_vars => FramesSent'
<1> SUFFICES ASSUME TypeOK, RetryBooks, FramesSent, [Next]_vars PROVE FramesSent'
  OBVIOUS
<1> USE DEF FramesSent, table, taskVars, host, radio
<1>1. ASSUME NEW c, SendDownlink(c) PROVE FramesSent'
  BY <1>1 DEF SendDownlink
<1>2. CASE Maintenance
  <2>1. \A i \in Resent : pending[i].cmd \in sent
    BY DEF Resent, DueSlots, RetryBooks, Open
  <2> QED
    BY <1>2, <2>1 DEF Maintenance, PendingTick
<1>3. CASE (\E d \in Devices, h \in HostIds : HostCommand(d, h))
           \/ (\E d \in Devices : ConsoleCommand(d))
  BY <1>1, <1>3 DEF HostCommand, ConsoleCommand
<1>4. CASE PairLine \/ PairingCloses \/ (\E d \in Devices : UnpairLine(d))
           \/ (\E f \in cmds, a \in BOOLEAN : DeviceCommand(f, a))
           \/ (\E f \in acks : ReceiveAck(f)) \/ (\E d \in Devices : ReceiveReport(d))
  BY <1>4 DEF PairLine, PairingCloses, UnpairLine, DeviceCommand, ReceiveAck,
              ReceiveReport
<1>5. CASE OnUplink \/ (\E e \in expired : PostTimeout(e))
           \/ (\E i \in Slots : IntervalElapses(i)) \/ (\E e \in events : OnAckTimeout(e))
           \/ PeerSweep \/ Restart
  BY <1>5 DEF OnUplink, PostTimeout, IntervalElapses, OnAckTimeout, PeerSweep, Restart
<1>6. CASE UNCHANGED vars
  BY <1>6 DEF vars
<1> QED
  BY <1>2, <1>3, <1>4, <1>5, <1>6 DEF Next

LEMMA ServiceStep ==
  RetriesFit /\ TypeOK /\ RetryBooks /\ AckBooks /\ FramesSent /\ [Next]_vars
    => [Service!Next]_(Service!vars)
<1> SUFFICES ASSUME RetriesFit, TypeOK, RetryBooks, AckBooks, FramesSent, [Next]_vars
             PROVE  Service!Next \/ UNCHANGED Service!vars
  OBVIOUS
<1> USE DEF table, taskVars, host, radio
<1>1. ASSUME NEW c \in Command, c.ser \in FreshSerial, SendDownlink(c)
      PROVE  Service!Next
  <2>1. c \in Service!Command
    BY DEF Command, Service!Command
  <2> QED
    BY <1>1, <2>1, ServiceSend DEF Service!Next
<1>2. ASSUME NEW d \in Devices, NEW h \in HostIds, HostCommand(d, h) PROVE Service!Next
  <2>1. PICK s \in FreshSerial :
          SendDownlink([dest |-> d, id |-> h % IdModulus, ser |-> s])
    BY <1>2 DEF HostCommand
  <2>2. [dest |-> d, id |-> h % IdModulus, ser |-> s] \in Command
    BY <2>1, Widths, BoundsAssumption DEF Command, FreshSerial, Lowest
  <2> QED
    BY <2>1, <2>2, <1>1
<1>3. ASSUME NEW d \in Devices, ConsoleCommand(d) PROVE Service!Next
  <2> DEFINE id == IF nextId = 0 THEN 1 ELSE nextId
  <2>1. id \in WireIds
    BY Widths DEF TypeOK
  <2>2. PICK s \in FreshSerial : SendDownlink([dest |-> d, id |-> id, ser |-> s])
    BY <1>3 DEF ConsoleCommand
  <2>3. [dest |-> d, id |-> id, ser |-> s] \in Command
    BY <2>1, <2>2 DEF Command, FreshSerial, Lowest
  <2> QED
    BY <2>2, <2>3, <1>1
<1>4. CASE PairLine \/ PairingCloses \/ \E d \in Devices : UnpairLine(d)
  BY <1>4 DEF PairLine, PairingCloses, UnpairLine, Service!vars, Open
<1>5. ASSUME NEW f \in cmds, NEW a \in BOOLEAN, DeviceCommand(f, a)
      PROVE  Service!Next
  <2>1. f \in sent
    BY DEF FramesSent
  <2>2. Service!Run(f)
    BY <1>5, <2>1 DEF DeviceCommand, Service!Run, Open
  <2> QED
    BY <2>1, <2>2 DEF Service!Next
<1>6. ASSUME NEW f \in acks, ReceiveAck(f) PROVE Service!Next \/ UNCHANGED Service!vars
  <2>1. UNCHANGED <<sent, ran, expired, events, told>> /\ Carried(f.origin, f.id)
    BY <1>6 DEF ReceiveAck, AckBooks
  <2>2. CASE f.id = 0
    BY <1>6, <2>1, <2>2 DEF ReceiveAck, Service!vars, Open
  <2>3. CASE f.id # 0
    BY <1>6, <2>1, <2>3, ServiceResolve DEF ReceiveAck, Service!Next
  <2> QED
    BY <2>2, <2>3
<1>7. ASSUME NEW d \in Devices, ReceiveReport(d) PROVE UNCHANGED Service!vars
  BY <1>7 DEF ReceiveReport, Service!vars, Open
<1>8. CASE OnUplink
  <2> DEFINE ok == [mac |-> uplink.origin, id |-> uplink.id, ser |-> 0, line |-> "ok"]
  <2>1. UNCHANGED <<sent, ran, resolved, expired, events>> /\ Open' = Open
    BY <1>8 DEF OnUplink, Open
  <2>2. CASE UNCHANGED told
    BY <2>1, <2>2 DEF Service!vars
  <2>3. CASE uplink.ack /\ told' = told \cup {ok}
    <3>1. PICK c \in ran : c.dest = uplink.origin /\ c.id = uplink.id
      BY <1>8, <2>3 DEF OnUplink, AckBooks, Carried
    <3>2. {t \in told' : t.line # "send_fail"}
            = {t \in told : t.line # "send_fail"} \cup {ok}
      BY <2>3
    <3>3. Service!TellOk(c)
      BY <2>1, <3>1, <3>2 DEF Service!TellOk
    <3> QED
      BY <3>3 DEF Service!Next
  <2> QED
    BY <1>8, <2>2, <2>3 DEF OnUplink
<1>9. CASE Maintenance
  BY <1>9, ServiceTick DEF Maintenance, TaskIdle, Service!Next
<1>10. ASSUME NEW c \in expired, PostTimeout(c)
       PROVE  Service!Next \/ UNCHANGED Service!vars
  <2>1. UNCHANGED <<sent, ran, resolved, told>> /\ Open' = Open
    BY <1>10 DEF PostTimeout, Open
  <2>2. CASE events' = events \cup {c}
    <3>1. expired' \cup events' = expired \cup events
      BY <1>10, <2>2 DEF PostTimeout
    <3> QED
      BY <2>1, <3>1 DEF Service!vars
  <2>3. CASE UNCHANGED events
    <3>1. expired' \cup events' = (expired \cup events) \ {c}
      BY <1>10, <2>3 DEF PostTimeout, RetryBooks
    <3>2. Service!DropAnswer(c)
      BY <2>1, <3>1 DEF Service!DropAnswer
    <3> QED
      BY <3>2 DEF Service!Next
  <2> QED
    BY <1>10, <2>2, <2>3 DEF PostTimeout
<1>11. ASSUME NEW i \in Slots, IntervalElapses(i) PROVE UNCHANGED Service!vars
  <2>1. \A j \in Slots : /\ pending'[j] # Free <=> pending[j] # Free
                         /\ pending[j] # Free => pending'[j].cmd = pending[j].cmd
    BY <1>11, SentinelAssumption DEF IntervalElapses, TypeOK, Slot
  <2>2. Open' = Open
    BY <2>1 DEF Open
  <2> QED
    BY <1>11, <2>2 DEF IntervalElapses, Service!vars
<1>12. ASSUME NEW c \in events, OnAckTimeout(c) PROVE Service!Next
  <2> DEFINE late == [mac |-> c.dest, id |-> c.id, ser |-> c.ser, line |-> "timeout"]
  <2>1. UNCHANGED <<sent, ran, resolved, expired>> /\ Open' = Open
    BY <1>12 DEF OnAckTimeout, Open
  <2>2. expired' \cup events' = (expired \cup events) \ {c}
    BY <1>12, <2>1 DEF OnAckTimeout, RetryBooks
  <2>3. {t \in told' : t.line # "send_fail"}
          = {t \in told : t.line # "send_fail"} \cup {late}
    BY <1>12 DEF OnAckTimeout
  <2>4. Service!TellTimeout(c)
    BY <2>1, <2>2, <2>3 DEF Service!TellTimeout
  <2> QED
    BY <2>4 DEF Service!Next
<1>13. CASE PeerSweep
  BY <1>13 DEF PeerSweep, Service!vars, Open
<1>14. CASE Restart
  <2>1. Service!Forget
    BY <1>14 DEF Restart, Service!Forget, Open
  <2> QED
    BY <2>1 DEF Service!Next
<1>15. CASE UNCHANGED vars
  BY <1>15 DEF vars, Service!vars, Open
<1> QED
  BY <1>2, <1>3, <1>4, <1>5, <1>6, <1>7, <1>8, <1>9, <1>10, <1>11, <1>12, <1>13,
     <1>14, <1>15 DEF Next

LEMMA ServiceInit == Init => Service!Init
<1> SUFFICES ASSUME Init PROVE Service!Init
  OBVIOUS
<1>1. Open = {}
  BY DEF Init, Open
<1>2. expired \cup events = {} /\ {t \in told : t.line # "send_fail"} = {}
  BY DEF Init
<1> QED
  BY <1>1, <1>2 DEF Init, Service!Init

\* Slots, retries, frames and threads together behave as the service says: a
\* command is answered ok only when it ran, answered timeout only when it was
\* given up unacknowledged, and no command closes another one's business.
THEOREM ImplementsServiceHolds == ASSUME RetriesFit PROVE Spec => ImplementsService
<1>1. Init => Service!Init /\ AckBooks /\ FramesSent
  BY ServiceInit DEF Init, AckBooks, NoFalseSuccess, FramesSent
<1>2. TypeOK /\ AckBooks /\ [Next]_vars => AckBooks'
  BY AckStep
<1>3. TypeOK /\ RetryBooks /\ FramesSent /\ [Next]_vars => FramesSent'
  BY FramesStep
<1>4. TypeOK /\ RetryBooks /\ AckBooks /\ FramesSent /\ [Next]_vars
        => [Service!Next]_(Service!vars)
  BY ServiceStep
<1> QED
  BY <1>1, <1>2, <1>3, <1>4, TypeCorrect, RetryBooksHold, PTL
     DEF Spec, ImplementsService, Service!Spec
=============================================================================
