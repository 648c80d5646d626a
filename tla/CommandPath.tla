----------------------------- MODULE CommandPath -----------------------------
(***************************************************************************)
(* Acknowledged downlinks, from the host's `cmd` line to its `ack` line.   *)
(*                                                                         *)
(* Three threads of the coordinator meet here: usb_rx (host lines), the    *)
(* en2m task (received frames, the retry tick) and the default event loop  *)
(* (timeout verdicts).  The radio between the coordinator and the devices  *)
(* may lose, delay, reorder and duplicate a frame: a frame once on the air *)
(* may be delivered later, again and again, or never.                      *)
(*                                                                         *)
(* Every send carries a serial number that the code does not have: it is   *)
(* the identity of the payload, so that two uses of one cmd_id differ.     *)
(***************************************************************************)
EXTENDS Naturals, FiniteSets

CONSTANTS
  Devices,       \* the nodes a command can be addressed to
  HostIds,       \* values of "id" the host may write in a cmd line
  IdModulus,     \* 2^16: cmd_id is a uint16_t
  MaxPending,    \* EN2M_MAX_PENDING
  MaxRetries,    \* config.max_retries, a uint8_t
  AttemptWidth,  \* 2^8: attempts is a uint8_t
  MaxRoutes,     \* EN2M_MAX_ROUTES, rows of the routing table
  MaxPeers,      \* EN2M_MAX_ROUTES, rows of the firmware's peer table
  MaxSends,      \* bound of the model: cmd lines in one behaviour
  MaxRestarts,   \* bound of the model: coordinator restarts
  Free,          \* an unused retry slot
  Idle           \* no frame between en2m_handle_rx and on_uplink

Slots   == 1..MaxPending
Serial  == 1..MaxSends
WireIds == 0..(IdModulus - 1)

\* A CMD frame: its key (dest, id) and its payload (ser).
Command == [dest : Devices, id : WireIds, ser : Serial]
\* An en2m_pending_t in use: the frame, its attempts, next_us has passed.
Slot    == [cmd : Command, attempts : 0..(AttemptWidth - 1), due : BOOLEAN]
\* An ACK frame carries the origin and the id, no payload.
Ack     == [origin : Devices, id : WireIds]
\* A frame that en2m_handle_rx let through to on_uplink.
Uplink  == [origin : Devices, id : WireIds, ack : BOOLEAN]
\* An `ack` line handed to the USB driver; ser is 0 when the code knows none.
Verdict == [mac : Devices, id : WireIds, ser : 0..MaxSends,
            line : {"ok", "timeout", "send_fail"}]

ASSUME BoundsAssumption ==
  /\ HostIds \subseteq Nat
  /\ IdModulus \in Nat /\ IdModulus > 1
  /\ AttemptWidth \in Nat /\ AttemptWidth > 1
  /\ MaxPending \in Nat /\ MaxRoutes \in Nat /\ MaxPeers \in Nat
  /\ MaxRetries \in 0..(AttemptWidth - 1)
  /\ MaxSends \in Nat /\ MaxRestarts \in Nat
ASSUME SentinelAssumption == Free \notin Slot /\ Idle \notin Uplink

VARIABLES
  pending,   \* s_ctx.pending: the retry slots
  known,     \* origins with a row in s_ctx.routes
  pairing,   \* s_ctx.pairing
  nextId,    \* s_ctx.next_cmd_id
  uplink,    \* the frame the en2m task carries from the lock to on_uplink
  expired,   \* timeouts[] of en2m_maintenance, not posted yet
  events,    \* EN2M_EVENT_ACK_TIMEOUT events in the default event loop
  peers,     \* used rows of s_peers
  cmds,      \* CMD frames put on the air so far
  acks,      \* ACK frames put on the air so far
  restarts,  \* coordinator restarts so far
  sent,      \* history: every command handed to en2m_send_downlink
  tx,        \* history: transmissions of each command (saturates, see Bump)
  ran,       \* history: commands a device handled
  resolved,  \* history: commands whose slot an ACK released
  told       \* history: `ack` lines written to the host

radio    == <<cmds, acks, ran>>
table    == <<pending, tx, resolved>>
taskVars == <<uplink, expired>>
host     == <<sent, nextId>>
vars == <<pending, known, pairing, nextId, uplink, expired, events, peers,
          cmds, acks, restarts, sent, tx, ran, resolved, told>>

TypeOK ==
  /\ pending \in [Slots -> Slot \cup {Free}]
  /\ known \subseteq Devices
  /\ pairing \in BOOLEAN
  /\ nextId \in WireIds
  /\ uplink \in Uplink \cup {Idle}
  /\ expired \subseteq Command
  /\ events \subseteq Command
  /\ peers \subseteq Devices
  /\ cmds \subseteq Command
  /\ acks \subseteq Ack
  /\ restarts \in 0..MaxRestarts
  /\ sent \subseteq Command
  /\ tx \in [Serial -> 0..(MaxRetries + 2)]
  /\ ran \subseteq Command
  /\ resolved \subseteq Command
  /\ told \subseteq Verdict

Init ==
  /\ pending = [i \in Slots |-> Free]
  /\ known = {} /\ pairing = FALSE /\ nextId = 1
  /\ uplink = Idle /\ expired = {} /\ events = {} /\ peers = {}
  /\ cmds = {} /\ acks = {} /\ restarts = 0
  /\ sent = {} /\ tx = [s \in Serial |-> 0]
  /\ ran = {} /\ resolved = {} /\ told = {}

-----------------------------------------------------------------------------
(* The retry table. *)

\* The element a scan from index 0 meets first, as a set of at most one.
Lowest(S) == {i \in S : \A j \in S : i <= j}

(* Definitions named <definition>_<Mistake> are faulty variants that a      *)
(* property has to catch; no specification uses them.                       *)

Matching_IdOnly(dest, id) == {i \in Slots : pending[i] # Free /\ pending[i].cmd.id = id}

\* Slots in use for the key (dest, id).
Matching(dest, id) ==
  {i \in Slots : /\ pending[i] # Free
                 /\ pending[i].cmd.dest = dest
                 /\ pending[i].cmd.id = id}

FreeSlots == {i \in Slots : pending[i] = Free}

\* A command's transmission counter: MaxRetries + 2 stands for "too many".
Bump(n) == IF n > MaxRetries + 1 THEN n ELSE n + 1

\* Faulty: the scan stops at the first free slot.
PendingAdd_FirstFree(c) ==
  LET entry == [cmd |-> c, attempts |-> 1, due |-> FALSE]
  IN \/ \E i \in Lowest(FreeSlots) : pending' = [pending EXCEPT ![i] = entry]
     \/ FreeSlots = {} /\ UNCHANGED pending

\* Faulty: a full table gives up its first slot.
PendingAdd_Evicts(c) ==
  LET same  == Matching(c.dest, c.id)
      slots == IF same # {} THEN same ELSE IF FreeSlots # {} THEN FreeSlots ELSE Slots
  IN \E i \in Lowest(slots) :
       pending' = [pending EXCEPT ![i] = [cmd |-> c, attempts |-> 1, due |-> FALSE]]

\* en2m_pending_add: the slot of the same key is taken over, else the first
\* free one; with none the command goes out unacknowledged.
PendingAdd(c) ==
  LET entry == [cmd |-> c, attempts |-> 1, due |-> FALSE]
  IN \/ \E i \in Lowest(Matching(c.dest, c.id)) :
          pending' = [pending EXCEPT ![i] = entry]
     \/ /\ Matching(c.dest, c.id) = {}
        /\ \E i \in Lowest(FreeSlots) : pending' = [pending EXCEPT ![i] = entry]
     \/ /\ Matching(c.dest, c.id) = {}
        /\ FreeSlots = {}
        /\ UNCHANGED pending

\* Faulty: the slot is reported as resolved and stays in use.
PendingResolve_KeepsSlot(dest, id) ==
  /\ resolved' = resolved \cup {pending[i].cmd : i \in Matching(dest, id)}
  /\ UNCHANGED pending

\* en2m_pending_resolve: the first slot of the key is released.
PendingResolve(dest, id) ==
  \/ \E i \in Lowest(Matching(dest, id)) :
       /\ pending' = [pending EXCEPT ![i] = Free]
       /\ resolved' = resolved \cup {pending[i].cmd}
  \/ /\ Matching(dest, id) = {}
     /\ UNCHANGED <<pending, resolved>>

DueSlots == {i \in Slots : pending[i] # Free /\ pending[i].due}

\* Faulty: one retry too few.
GivenUp_Early == {i \in DueSlots : pending[i].attempts >= MaxRetries}

GivenUp  == {i \in DueSlots : pending[i].attempts > MaxRetries}
Resent   == DueSlots \ GivenUp

\* Faulty: a resend is not counted.
Ticked_NotCounted(i) ==
  CASE i \in GivenUp -> Free
    [] i \in Resent  -> [pending[i] EXCEPT !.due = FALSE]
    [] OTHER         -> pending[i]

\* One slot after en2m_pending_tick.
Ticked(i) ==
  CASE i \in GivenUp -> Free
    [] i \in Resent  -> [pending[i] EXCEPT
                           !.attempts = (@ + 1) % AttemptWidth, !.due = FALSE]
    [] OTHER         -> pending[i]

\* en2m_pending_tick.  Whether esp_now_send takes a resend is not looked at: a
\* frame it refuses is one that is never delivered.
PendingTick ==
  /\ pending' = [i \in Slots |-> Ticked(i)]
  /\ expired' = {pending[i].cmd : i \in GivenUp}
  /\ tx' = [s \in Serial |-> IF \E i \in Resent : pending[i].cmd.ser = s
                             THEN Bump(tx[s]) ELSE tx[s]]
  /\ cmds' = cmds \cup {pending[i].cmd : i \in Resent}

-----------------------------------------------------------------------------
(* The usb_rx thread: lines from the host. *)

\* The payload identity of the next send.
FreshSerial == Lowest({s \in Serial : \A c \in sent : c.ser # s})

\* en2m_send_downlink, and the send_fail line of handle_host_line.
SendDownlink(c) ==
  /\ sent' = sent \cup {c}
  /\ \/ \* en2m_send_raw fails: nothing is tracked
        /\ told' = told \cup {[mac |-> c.dest, id |-> c.id, ser |-> c.ser,
                               line |-> "send_fail"]}
        /\ UNCHANGED <<pending, cmds, tx>>
     \/ /\ cmds' = cmds \cup {c}
        /\ tx' = [tx EXCEPT ![c.ser] = Bump(@)]
        /\ IF c.id = 0 THEN UNCHANGED pending ELSE PendingAdd(c)
        /\ UNCHANGED told
  /\ UNCHANGED <<known, pairing, taskVars, events, peers, acks, restarts, ran, resolved>>

\* A cmd line with an id: cast to uint16_t.
HostCommand(d, h) ==
  /\ \E s \in FreshSerial : SendDownlink([dest |-> d, id |-> h % IdModulus, ser |-> s])
  /\ UNCHANGED nextId

\* Faulty: the counter is wider than the field it feeds.
ConsoleCommand_NoWrap(d) ==
  LET id == IF nextId = 0 THEN 1 ELSE nextId
  IN /\ \E s \in FreshSerial : SendDownlink([dest |-> d, id |-> id, ser |-> s])
     /\ nextId' = id + 1

\* A cmd line without one: en2m_next_cmd_id, which never hands out 0.
ConsoleCommand(d) ==
  LET id == IF nextId = 0 THEN 1 ELSE nextId
  IN /\ \E s \in FreshSerial : SendDownlink([dest |-> d, id |-> id, ser |-> s])
     /\ nextId' = (id + 1) % IdModulus

\* A pair line opens the window; housekeeping closes it.
PairLine ==
  /\ pairing' = TRUE
  /\ UNCHANGED <<table, known, host, taskVars, events, peers, radio, restarts, told>>

PairingCloses ==
  /\ pairing
  /\ pairing' = FALSE
  /\ UNCHANGED <<table, known, host, taskVars, events, peers, radio, restarts, told>>

\* An unpair line drops the peer and its route, not its retry slots.
UnpairLine(d) ==
  /\ peers' = peers \ {d}
  /\ known' = known \ {d}
  /\ UNCHANGED <<table, pairing, host, taskVars, events, radio, restarts, told>>

-----------------------------------------------------------------------------
(* The radio and the devices. *)

\* en2m_model_on_command_frame on a started device with a well-formed payload:
\* handle it, then acknowledge a non-zero id, even if the write callback refused
\* the value; the ACK needs a parent.
DeviceCommand(f, attached) ==
  /\ f \in cmds
  /\ ran' = ran \cup {f}
  /\ acks' = IF f.id # 0 /\ attached
             THEN acks \cup {[origin |-> f.dest, id |-> f.id]} ELSE acks
  /\ UNCHANGED <<table, known, pairing, host, taskVars, events, peers, cmds,
                 restarts, told>>

-----------------------------------------------------------------------------
(* The en2m task of the coordinator: one item at a time, then the tick. *)

TaskIdle == uplink = Idle /\ expired = {}

\* en2m_learn_route, as far as membership goes: a full table learns no more.
Learn(d) == IF d \in known \/ Cardinality(known) < MaxRoutes
            THEN known \cup {d} ELSE known

\* en2m_handle_rx for an ACK, under the lock.
ReceiveAck(f) ==
  /\ TaskIdle
  /\ f \in acks
  /\ f.origin \in known \/ pairing
  /\ known' = Learn(f.origin)
  /\ IF f.id # 0 THEN PendingResolve(f.origin, f.id)
                 ELSE UNCHANGED <<pending, resolved>>
  /\ uplink' = [origin |-> f.origin, id |-> f.id, ack |-> TRUE]
  /\ UNCHANGED <<pairing, host, expired, events, peers, radio, restarts, tx, told>>

\* en2m_handle_rx for a HELLO, STATE or HEARTBEAT of device d.
ReceiveReport(d) ==
  /\ TaskIdle
  /\ d \in known \/ pairing
  /\ known' = Learn(d)
  /\ uplink' = [origin |-> d, id |-> 0, ack |-> FALSE]
  /\ UNCHANGED <<table, pairing, host, expired, events, peers, radio, restarts, told>>

\* Faulty: the branch shared by STATE and ACK writes an ok line for both.
OnUplink_AnyFrame ==
  /\ uplink # Idle
  /\ uplink' = Idle
  /\ IF uplink.origin \in peers \/ Cardinality(peers) < MaxPeers
     THEN /\ peers' = peers \cup {uplink.origin}
          /\ told' = told \cup {[mac |-> uplink.origin, id |-> uplink.id,
                                 ser |-> 0, line |-> "ok"]}
     ELSE UNCHANGED <<peers, told>>
  /\ UNCHANGED <<table, known, pairing, host, expired, events, radio, restarts>>

\* on_uplink, after the lock: a full peer table ends it before the line.
OnUplink ==
  /\ uplink # Idle
  /\ uplink' = Idle
  /\ IF uplink.origin \in peers \/ Cardinality(peers) < MaxPeers
     THEN /\ peers' = peers \cup {uplink.origin}
          /\ told' = IF uplink.ack
                     THEN told \cup {[mac |-> uplink.origin, id |-> uplink.id,
                                      ser |-> 0, line |-> "ok"]}
                     ELSE told
     ELSE UNCHANGED <<peers, told>>
  /\ UNCHANGED <<table, known, pairing, host, expired, events, radio, restarts>>

\* en2m_maintenance, under the lock: stale routes go, then the retry tick.
Maintenance ==
  /\ TaskIdle
  /\ \E stale \in SUBSET known : known' = known \ stale
  /\ PendingTick
  /\ UNCHANGED <<pairing, host, uplink, events, peers, acks, ran, restarts,
                 resolved, told>>

\* en2m_maintenance, after the lock: post one timeout.  A full event loop
\* refuses it (the post does not wait).
PostTimeout(c) ==
  /\ c \in expired
  /\ expired' = expired \ {c}
  /\ \/ events' = events \cup {c}
     \/ UNCHANGED events
  /\ UNCHANGED <<table, known, pairing, host, uplink, peers, radio, restarts, told>>

\* Retry interval of slot i runs out: next_us is in the past.
IntervalElapses(i) ==
  /\ pending[i] # Free
  /\ ~pending[i].due
  /\ pending' = [pending EXCEPT ![i].due = TRUE]
  /\ UNCHANGED <<tx, resolved, known, pairing, host, taskVars, events, peers,
                 radio, restarts, told>>

-----------------------------------------------------------------------------
(* The event loop, the housekeeping timer, power. *)

\* on_en2m_event, EN2M_EVENT_ACK_TIMEOUT.
OnAckTimeout(c) ==
  /\ c \in events
  /\ events' = events \ {c}
  /\ told' = told \cup {[mac |-> c.dest, id |-> c.id, ser |-> c.ser,
                         line |-> "timeout"]}
  /\ UNCHANGED <<table, known, pairing, host, taskVars, peers, radio, restarts>>

\* The sweep of housekeeping: some peers have been silent for too long.
PeerSweep ==
  /\ \E silent \in SUBSET peers : silent # {} /\ peers' = peers \ silent
  /\ UNCHANGED <<table, known, pairing, host, taskVars, events, radio, restarts, told>>

\* The coordinator loses power: all of its state is in RAM.
Restart ==
  /\ restarts < MaxRestarts
  /\ restarts' = restarts + 1
  /\ pending' = [i \in Slots |-> Free]
  /\ known' = {} /\ pairing' = FALSE /\ nextId' = 1
  /\ uplink' = Idle /\ expired' = {} /\ events' = {} /\ peers' = {}
  /\ UNCHANGED <<radio, sent, tx, resolved, told>>

-----------------------------------------------------------------------------
Next ==
  \/ \E d \in Devices, h \in HostIds : HostCommand(d, h)
  \/ \E d \in Devices : ConsoleCommand(d)
  \/ PairLine
  \/ PairingCloses
  \/ \E d \in Devices : UnpairLine(d)
  \/ \E f \in cmds, attached \in BOOLEAN : DeviceCommand(f, attached)
  \/ \E f \in acks : ReceiveAck(f)
  \/ \E d \in Devices : ReceiveReport(d)
  \/ OnUplink
  \/ Maintenance
  \/ \E c \in expired : PostTimeout(c)
  \/ \E i \in Slots : IntervalElapses(i)
  \/ \E c \in events : OnAckTimeout(c)
  \/ PeerSweep
  \/ Restart

Spec == Init /\ [][Next]_vars

(***************************************************************************)
(* Fairness.  Time passes; the en2m task returns to its tick after at most *)
(* one item, however many frames arrive (strong fairness: a frame in hand  *)
(* disables the tick for a moment); it finishes what it holds; the event   *)
(* loop serves its queue.  Nothing is assumed of the radio or the host.    *)
(***************************************************************************)
Fairness ==
  /\ \A i \in Slots : WF_vars(IntervalElapses(i))
  /\ SF_vars(Maintenance)
  /\ WF_vars(OnUplink)
  /\ WF_vars(\E c \in expired : PostTimeout(c))
  /\ WF_vars(\E c \in events : OnAckTimeout(c))

FairSpec == Spec /\ Fairness

-----------------------------------------------------------------------------
(* Properties. *)

Open == {pending[i].cmd : i \in {j \in Slots : pending[j] # Free}}

\* No command waits in two slots: an ACK releases one slot only, so a second
\* one would go on retransmitting an acknowledged command.
UniquePending ==
  \A i, j \in Slots :
    /\ i # j /\ pending[i] # Free /\ pending[j] # Free
    => \/ pending[i].cmd.dest # pending[j].cmd.dest
       \/ pending[i].cmd.id # pending[j].cmd.id

\* An ok line names a device and an id under which that device really handled
\* a command, whatever the radio lost, duplicated or delayed, and across
\* restarts of the coordinator.
NoFalseSuccess ==
  \A t \in told : t.line = "ok" =>
    \E c \in ran : c.dest = t.mac /\ c.id = t.id

\* A timeout line is written only for a command that was transmitted once and
\* retried MaxRetries times, and whose slot no ACK released.
HonestTimeout ==
  \A t \in told : t.line = "timeout" =>
    /\ t.ser \in Serial /\ tx[t.ser] = MaxRetries + 1
    /\ \A c \in resolved : c.ser # t.ser

\* The retry budget: no command is transmitted more than 1 + MaxRetries times.
BoundedTransmissions == \A s \in Serial : tx[s] <= MaxRetries + 1

\* Once an ACK has released its slot, a command is never transmitted again.
NoRetryAfterAck == [][\A c \in resolved : tx'[c.ser] = tx[c.ser]]_vars

\* A command leaves its slot by its ACK, its timeout or a restart, or a resend under
\* the same key takes its place: never does another command that needs a slot.
NoEviction ==
  [][\A i \in Slots : pending[i] # Free =>
       \/ /\ pending'[i] # Free
          /\ pending[i].cmd.dest = pending'[i].cmd.dest
          /\ pending[i].cmd.id = pending'[i].cmd.id
       \/ pending[i].cmd \in resolved' \cup expired'
       \/ restarts' > restarts]_vars

\* Every tracked command leaves the retry table, even if no ACK ever arrives
\* and the host floods the coordinator's receive path with other frames.
Settles ==
  \A s \in Serial : (\E c \in Open : c.ser = s) ~> (\A c \in Open : c.ser # s)

\* The books of the retry table, from which the four properties above follow:
\* a slot counts the transmissions of the one command it holds, a command is
\* in one slot or closed, and never both acknowledged and given up.
RetryBooks ==
  /\ UniquePending
  /\ \A c, e \in sent : c.ser = e.ser => c = e
  /\ \A s \in Serial : (\A c \in sent : c.ser # s) => tx[s] = 0
  /\ resolved \cup expired \cup events \cup Open \subseteq sent
  /\ \A i \in Slots : pending[i] # Free =>
       /\ pending[i].attempts = tx[pending[i].cmd.ser]
       /\ pending[i].cmd \notin resolved \cup expired \cup events
       /\ \A t \in told : t.line = "timeout" => t.ser # pending[i].cmd.ser
  /\ expired \cap events = {}
  /\ \A c \in expired \cup events : c \notin resolved /\ tx[c.ser] = MaxRetries + 1
  /\ HonestTimeout
  /\ BoundedTransmissions

\* The slots, frames, retries and threads implement CommandService.
Service == INSTANCE CommandService WITH
             issued  <- sent,
             open    <- Open,
             settled <- resolved,
             lost    <- expired \cup events,
             told    <- {t \in told : t.line # "send_fail"}

ImplementsService == Service!Spec

-----------------------------------------------------------------------------
(* What the documentation says and the code does not do. *)

Answered(d, n) == \E t \in told : t.mac = d /\ t.id = n

\* The coordinator always acks a command, with `timeout` once the retries run
\* out: one ack line per command (restarts excluded by the run's bounds).
EveryCommandAnswered ==
  \A d \in Devices, n \in WireIds \ {0} :
    (\E c \in sent : c.dest = d /\ c.id = n) ~> Answered(d, n)

=============================================================================
