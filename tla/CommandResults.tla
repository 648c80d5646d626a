---------------------------- MODULE CommandResults ----------------------------
(***************************************************************************)
(* What the bridge promises an automation that sends commands over MQTT,   *)
(* without threads, tables, iterations, lines or a coordinator.  A command *)
(* asked for waits for its answer, until the answer takes it or it lapses; *)
(* one that was taken is told at most once, and one that lapsed never.     *)
(* A result names a device and an id; what it claims is true of a command  *)
(* of that device and id (of its own command, as long as no other has the  *)
(* id).  BridgeCommands implements this specification.                     *)
(***************************************************************************)
EXTENDS Naturals

CONSTANTS
  Commands,  \* records with dest, key, id and ser, the payload
  Lines      \* results: records with topic, mac, id, ser and line

VARIABLES
  asked,    \* commands an automation asked for
  ran,      \* those their device handled
  settled,  \* those an acknowledgement settled
  waiting,  \* those whose answer would find them
  taken,    \* the one an answer found, not told yet, if there is one
  told      \* results that carry a command's payload

vars == <<asked, ran, settled, waiting, taken, told>>

Init == asked = {} /\ ran = {} /\ settled = {} /\ waiting = {} /\ taken = {} /\ told = {}

\* What result l claims is true of a command of its device and id, given the commands
\* that ran and those that were settled.
Truthful(l, R, S) ==
  \E c \in asked :
    /\ c.dest = l.mac /\ c.id = l.id
    /\ l.line = "ok" => c \in R
    /\ l.line = "timeout" => c \notin S

Ask(c) ==
  /\ \A e \in asked : e.ser # c.ser
  /\ \A e \in waiting : e.key # c.key
  /\ asked' = asked \cup {c} /\ waiting' = waiting \cup {c}
  /\ UNCHANGED <<ran, settled, taken, told>>

Run(c) ==
  /\ ran' = ran \cup {c}
  /\ UNCHANGED <<asked, settled, waiting, taken, told>>

\* An acknowledgement settles no command of which a timeout was told.
Settle(c) ==
  /\ settled' = settled \cup {c}
  /\ \A l \in told : Truthful(l, ran, settled')
  /\ UNCHANGED <<asked, ran, waiting, taken, told>>

\* An answer finds its command.
Take(c) ==
  /\ taken = {} /\ taken' = {c}
  /\ waiting' = waiting \ {c}
  /\ UNCHANGED <<asked, ran, settled, told>>

\* The command is told about, on the topic of its device or of the one that answered.
Tell(c, l) ==
  /\ taken = {c} /\ taken' = {}
  /\ l.ser = c.ser /\ l.id = c.key /\ l.topic \in {l.mac, c.dest}
  /\ Truthful(l, ran, settled)
  /\ told' = told \cup {l}
  /\ UNCHANGED <<asked, ran, settled, waiting>>

\* It was waiting for too long.
Lapse(c) ==
  /\ waiting' = waiting \ {c}
  /\ UNCHANGED <<asked, ran, settled, taken, told>>

\* The answer is lost: the bridge failed between taking the command and telling.
Lose ==
  /\ taken' = {}
  /\ UNCHANGED <<asked, ran, settled, waiting, told>>

\* A restart forgets what waits and what is about to be told.
Forget ==
  /\ waiting' = {} /\ taken' = {}
  /\ UNCHANGED <<asked, ran, settled, told>>

Next ==
  \/ \E c \in Commands : Ask(c)
  \/ \E c \in asked : Run(c) \/ Settle(c)
  \/ \E c \in waiting : Take(c) \/ Lapse(c)
  \/ \E c \in taken, l \in Lines : Tell(c, l)
  \/ Lose \/ Forget

Spec == Init /\ [][Next]_vars
=============================================================================
