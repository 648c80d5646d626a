---------------------------- MODULE PersistentStore ----------------------------
(***************************************************************************)
(* What the attribute store promises an application about its settings,    *)
(* without threads, locks, flags, copies or the two steps of NVS: a change *)
(* is owed to the flash, the flash changes only where something is owed,   *)
(* and a debt is paid by nothing but the present value.  A power cut       *)
(* touches what is owed and nothing else; a start reads the flash.         *)
(* DeviceStore implements this specification.                              *)
(***************************************************************************)
CONSTANTS
  Attrs,    \* the persisted attributes
  Version,  \* their values
  Default,  \* the factory default
  Nothing   \* the flash has no value for an attribute

VARIABLES
  on,      \* the component has read the flash and is up
  value,   \* the values an application reads
  kept,    \* what the flash holds
  owed,    \* attributes with a change the flash need not hold yet
  excused  \* attributes for which storage failed since their last change was taken up

vars == <<on, value, kept, owed, excused>>

Fresh == [a \in Attrs |-> Default]

Init ==
  /\ on = FALSE /\ value = Fresh /\ kept = [a \in Attrs |-> Nothing]
  /\ owed = {} /\ excused = {}

\* The flash brings back the present value of a.
Settled(a) == kept[a] = value[a] \/ (kept[a] = Nothing /\ value[a] = Default)

Change(a, v) ==
  /\ value' = [value EXCEPT ![a] = v]
  /\ owed' = owed \cup {a}
  /\ UNCHANGED <<on, kept, excused>>

\* A change is taken up, which ends an excuse, or begins one when another is still
\* being stored.
TakeUp(a) ==
  /\ excused' \in {excused \cup {a}, excused \ {a}}
  /\ UNCHANGED <<on, value, kept, owed>>

\* The flash refuses what A needs.
Refuse(A) ==
  /\ excused' = excused \cup A
  /\ owed' \in SUBSET owed /\ owed \ owed' \subseteq A
  /\ UNCHANGED <<on, value, kept>>

\* The flash changes, to older values where a newer one is owed.
Keep ==
  /\ on
  /\ kept' \in [Attrs -> Version \cup {Nothing}]
  /\ \A a \in Attrs \ owed : kept'[a] = kept[a]
  /\ owed' \in SUBSET owed
  /\ \A a \in owed \ (owed' \cup excused) : Settled(a)'
  /\ UNCHANGED <<on, value, excused>>

\* Values without a place in the flash stay as they are.  What the flash refused
\* may come back without being in it, and then is still owed.
Start ==
  /\ ~on /\ on'
  /\ value' \in [Attrs -> Version]
  /\ owed' \in SUBSET owed
  /\ \A a \in Attrs \ (owed' \cap excused) :
       /\ value'[a] = IF kept[a] = Nothing THEN value[a] ELSE kept[a]
       /\ a \in owed' <=> a \in owed /\ kept[a] = Nothing
  /\ UNCHANGED <<kept, excused>>

\* The flash cannot be read.
StartBlind ==
  /\ ~on /\ on' /\ excused' = Attrs
  /\ UNCHANGED <<value, kept, owed>>

Halt == on' = FALSE /\ UNCHANGED <<value, kept, owed, excused>>

PowerCut ==
  /\ on' = FALSE /\ value' = Fresh
  /\ kept' \in [Attrs -> Version \cup {Nothing}]
  /\ \A a \in Attrs \ owed : kept'[a] = kept[a]
  /\ owed' = {} /\ excused' = {}

Next ==
  \/ \E a \in Attrs, v \in Version : Change(a, v)
  \/ \E a \in owed : TakeUp(a)
  \/ \E A \in SUBSET owed : Refuse(A)
  \/ Keep \/ Start \/ StartBlind \/ Halt \/ PowerCut

Spec == Init /\ [][Next]_vars

\* While the component is up, what is neither owed nor excused would be back after a
\* power cut.
Remembers == on => \A a \in Attrs \ (owed \cup excused) : Settled(a)
=============================================================================
