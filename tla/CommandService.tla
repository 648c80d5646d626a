---------------------------- MODULE CommandService ----------------------------
(***************************************************************************)
(* What the coordinator promises of a command, without slots, frames,      *)
(* retries, routes or threads.  A command is issued, may be handled by its *)
(* device, and while it is open either an acknowledgement settles it or    *)
(* the coordinator gives it up.  Answers are lines to the host:            *)
(*   "ok"         only for a key (device, id) that a device handled,       *)
(*   "timeout"    only for a command given up, which no acknowledgement    *)
(*                settled.                                                 *)
(* CommandPath implements this specification.                              *)
(***************************************************************************)
EXTENDS Naturals

CONSTANTS Devices, WireIds, Serial

Command == [dest : Devices, id : WireIds, ser : Serial]

VARIABLES
  issued,   \* commands accepted from the host
  open,     \* commands awaiting an acknowledgement
  ran,      \* commands handled by their device
  settled,  \* commands an acknowledgement has settled
  lost,     \* commands given up, the answer not written yet
  told      \* answers written: "ok" and "timeout" lines

vars == <<issued, open, ran, settled, lost, told>>

SameKey(c, e) == c.dest = e.dest /\ c.id = e.id

Init == issued = {} /\ open = {} /\ ran = {} /\ settled = {} /\ lost = {} /\ told = {}

\* A new command is open, unless the coordinator cannot track it; it replaces
\* an open command of the same key, and no other.
Issue(c) ==
  /\ \A e \in issued : e.ser # c.ser
  /\ issued' = issued \cup {c}
  /\ open' \in {open, {e \in open : ~SameKey(e, c)} \cup {c}}
  /\ UNCHANGED <<ran, settled, lost, told>>

Run(c) ==
  /\ c \in issued
  /\ ran' = ran \cup {c}
  /\ UNCHANGED <<issued, open, settled, lost, told>>

\* An acknowledgement names a key; it settles the open command of that key.
Settle(c) ==
  /\ c \in open
  /\ \E e \in ran : SameKey(e, c)
  /\ open' = open \ {c}
  /\ settled' = settled \cup {c}
  /\ UNCHANGED <<issued, ran, lost, told>>

GiveUp(S) ==
  /\ S # {} /\ S \subseteq open
  /\ open' = open \ S
  /\ lost' = lost \cup S
  /\ UNCHANGED <<issued, ran, settled, told>>

TellOk(c) ==
  /\ c \in ran
  /\ told' = told \cup {[mac |-> c.dest, id |-> c.id, ser |-> 0, line |-> "ok"]}
  /\ UNCHANGED <<issued, open, ran, settled, lost>>

TellTimeout(c) ==
  /\ c \in lost
  /\ lost' = lost \ {c}
  /\ told' = told \cup {[mac |-> c.dest, id |-> c.id, ser |-> c.ser,
                         line |-> "timeout"]}
  /\ UNCHANGED <<issued, open, ran, settled>>

\* An answer can be dropped before it is written.
DropAnswer(c) ==
  /\ c \in lost
  /\ lost' = lost \ {c}
  /\ UNCHANGED <<issued, open, ran, settled, told>>

\* A restart forgets what is open and what is about to be told.
Forget ==
  /\ open' = {} /\ lost' = {}
  /\ UNCHANGED <<issued, ran, settled, told>>

Next ==
  \/ \E c \in Command : Issue(c)
  \/ \E c \in issued : Run(c)
  \/ \E c \in open : Settle(c)
  \/ \E S \in SUBSET open : GiveUp(S)
  \/ \E c \in ran : TellOk(c)
  \/ \E c \in lost : TellTimeout(c) \/ DropAnswer(c)
  \/ Forget

Spec == Init /\ [][Next]_vars
=============================================================================
