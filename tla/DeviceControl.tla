----------------------------- MODULE DeviceControl -----------------------------
(***************************************************************************)
(* What a device does with its commands, and the hardware behind the       *)
(* attribute store (en2m_model.c, en2m_datamodel.c).                       *)
(*                                                                         *)
(* A command frame is a JSON object; the en2m task carries out the orders  *)
(* in it one after another, each as one write or two.  A write drives the  *)
(* hardware in the application's callback and then commits the value to    *)
(* the store; an application task writes too, reports what was moved by    *)
(* hand and counts button presses.  A step is what a task does between two *)
(* moments at which the other can run.  Flash and reports of the store are *)
(* in DeviceStore, frames and acknowledgements in CommandPath.             *)
(***************************************************************************)
EXTENDS Integers, Sequences

CONSTANTS
  Has,         \* attributes of the device, of one endpoint
  Driven,      \* those with hardware behind them: a write callback takes them
  Handled,     \* commands the application has handlers of its own for
  Docs,        \* payloads the host sends, as records; names of modes as their numbers
  Touched,     \* attributes the application writes and reports
  AppValues,   \* values the application writes and reports
  Pressers,    \* tasks that call en2m_report_button
  Actions,     \* kinds of presses
  Nothing,     \* no frame, order, press or run
  MaxFrames,   \* bound of the model: command frames
  MaxLocal,    \* bound of the model: what the application and the hardware do
  MaxPresses   \* bound of the model: button presses

Tasks == {"en2m", "app"}
Attrs == {"on", "level", "ct", "lock", "position", "mode", "percent", "system", "heat",
          "cool", "identify"}
FanOff == 0
FanOn == 4
Cool == 3

ASSUME ControlAssumption ==
  /\ Has \subseteq Attrs /\ Driven \subseteq Has \ {"identify"}
  /\ Touched \subseteq Has /\ AppValues \subseteq Int /\ Pressers \subseteq Tasks
  /\ MaxFrames \in Nat /\ MaxLocal \in Nat /\ MaxPresses \in Nat
  /\ Nothing \notin Docs /\ "short" \in Actions
  /\ \A doc \in Docs : \A k \in DOMAIN doc \ {"switch", "cover", "lock"} : doc[k] \in Int

\* Casts to uint8_t, uint16_t and int16_t.
U8(v) == v % 256
U16(v) == v % 65536
I16(v) == ((v + 32768) % 65536) - 32768

\* en2m_value_coerce, to the type the attribute was declared with.
Coerce(a, v) ==
  CASE a = "on"                    -> IF v # 0 THEN 1 ELSE 0
    [] a \in {"ct", "identify"}    -> U16(v)
    [] a \in {"heat", "cool"}      -> I16(v)
    [] OTHER                       -> U8(v)

\* en2m_dm_add_default_attrs.
Default ==
  [on |-> 0, level |-> 254, ct |-> 300, lock |-> 1, position |-> 0, mode |-> FanOff,
   percent |-> 0, system |-> 0, heat |-> 2100, cool |-> 2400, identify |-> 0]

Clamp(v, top) == IF v < 0 THEN 0 ELSE IF v > top THEN top ELSE v

-----------------------------------------------------------------------------
(* Definitions named <definition>_<Mistake> are faulty variants that a      *)
(* property has to catch; no specification uses them.                       *)

(* Decoding: en2m_model_decode_flat, en2m_command_arg. *)

\* Faulty: the temperature is looked for before the mode it depends on.
Keys_TemperatureFirst ==
  <<"switch", "brightness", "color_temp", "position", "cover", "lock", "fan_mode",
    "percentage", "target_temperature", "hvac_mode", "identify", "set_heating",
    "set_cooling">>

\* The keys of a frame, in the order in which they are looked for; the last two only
\* come in frames that name cluster and command, which have one key.
Keys == <<"switch", "brightness", "color_temp", "position", "cover", "lock", "fan_mode",
          "percentage", "hvac_mode", "target_temperature", "identify", "set_heating",
          "set_cooling">>

\* A key's command and its argument.
OrderOf(doc, key) ==
  CASE key = "switch" ->
         [cmd |-> IF doc.switch \in {"ON", "TOGGLE"} THEN doc.switch ELSE "OFF", arg |-> 0]
    [] key = "cover" ->
         [cmd |-> IF doc.cover \in {"OPEN", "CLOSE"} THEN doc.cover ELSE "STOP", arg |-> 0]
    [] key = "lock" ->
         [cmd |-> IF doc.lock = "LOCK" THEN "LOCK" ELSE "UNLOCK", arg |-> 0]
    [] key \in {"brightness", "color_temp", "identify"} ->
         [cmd |-> key, arg |-> U16(doc[key])]
    [] key \in {"position", "percentage", "fan_mode", "hvac_mode"} ->
         [cmd |-> key, arg |-> U8(doc[key])]
    [] OTHER -> [cmd |-> key, arg |-> I16(doc[key])]

\* The places in Keys of the keys a frame has.
Decode(doc) ==
  {i \in DOMAIN Keys : /\ Keys[i] \in DOMAIN doc
                       /\ Keys[i] = "cover" => "position" \notin DOMAIN doc}

-----------------------------------------------------------------------------
Write == [at : {"drive", "commit"}, attr : Has, val : Int]
Order == UNION {{OrderOf(doc, k) : k \in DOMAIN doc} : doc \in Docs}
Press == [at : {"action", "count"}, num : 1..MaxPresses, act : Actions]

ASSUME NothingAssumption == Nothing \notin Write \cup Order \cup Press

VARIABLES
  slot,      \* values of the attribute store
  hardware,  \* what the hardware behind the driven attributes is at
  job,       \* per task: the write it is in
  frame,     \* the payload the en2m task carries out
  orders,    \* its keys, by their places in Keys, still to be carried out
  order,     \* the order whose first write is under way
  count,     \* EN2M_ATTR_PRESS_COUNT
  action,    \* EN2M_ATTR_PRESS_ACTION
  press,     \* per task: the press it is recording
  seen,      \* the count in the report being built, or Nothing
  shown,     \* button and button_action of the last report
  frames, locals,  \* counters of the model's bounds
  pressed,   \* history: the kinds of the presses that got each number
  crossed,   \* history: attributes two writes of which overlapped, and none since drove alone
  calm,      \* history: nobody else wrote since the frame began
  last       \* history: the last frame and the store after it, if nobody wrote since

buttons == <<count, action, press, seen, shown, pressed>>
vars == <<slot, hardware, job, frame, orders, order, buttons, frames, locals, crossed,
          calm, last>>

TypeOK ==
  /\ slot \in [Has -> Int] /\ \A a \in Has : Coerce(a, slot[a]) = slot[a]
  /\ hardware \in [Driven -> Int]
  /\ job \in [Tasks -> Write \cup {Nothing}]
  /\ frame \in Docs \cup {Nothing}
  /\ orders \subseteq DOMAIN Keys /\ order \in Order \cup {Nothing}
  /\ count \in 0..MaxPresses /\ action \in Actions
  /\ press \in [Tasks -> Press \cup {Nothing}]
  /\ seen \in 0..MaxPresses \cup {Nothing}
  /\ shown \in [count : 0..MaxPresses, act : Actions]
  /\ frames \in 0..MaxFrames /\ locals \in 0..MaxLocal
  /\ pressed \in [1..MaxPresses -> SUBSET Actions]
  /\ crossed \subseteq Has /\ calm \in BOOLEAN
  /\ last = Nothing \/ last \in [doc : Docs, slot : [Has -> Int]]

\* en2m_start has driven the hardware to the values it restored.
Init ==
  /\ slot = [a \in Has |-> Default[a]] /\ hardware = [a \in Driven |-> Default[a]]
  /\ job = [p \in Tasks |-> Nothing]
  /\ frame = Nothing /\ orders = {} /\ order = Nothing
  /\ count = 0 /\ action = "short" /\ press = [p \in Tasks |-> Nothing]
  /\ seen = Nothing /\ shown = [count |-> 0, act |-> action]
  /\ frames = 0 /\ locals = 0
  /\ pressed = [n \in 1..MaxPresses |-> {}]
  /\ crossed = {} /\ calm = FALSE /\ last = Nothing

\* The other task is writing a, too.
Overlaps(p, a) == \E q \in Tasks \ {p} : job[q] # Nothing /\ job[q].attr = a

\* Faulty: the value is not brought to the attribute's type.
Begin_Raw(p, a, v, first) ==
  /\ job' = [job EXCEPT ![p] =
       [at |-> IF a \in Driven THEN first ELSE "commit", attr |-> a, val |-> v]]
  /\ crossed' = IF Overlaps(p, a) THEN crossed \cup {a}
                ELSE IF first = "commit" THEN crossed \ {a} ELSE crossed

\* Task p sets out to write v to attribute a; first says whether it drives it.
Begin(p, a, v, first) ==
  /\ job' = [job EXCEPT ![p] =
       [at |-> IF a \in Driven THEN first ELSE "commit", attr |-> a, val |-> Coerce(a, v)]]
  /\ crossed' = IF Overlaps(p, a) THEN crossed \cup {a}
                ELSE IF first = "commit" THEN crossed \ {a} ELSE crossed

Idle(p) == job[p] = Nothing /\ press[p] = Nothing
TaskFree == Idle("en2m") /\ frame = Nothing /\ seen = Nothing

\* Somebody other than the frame under way writes.
Disturb == calm' = FALSE /\ last' = Nothing

-----------------------------------------------------------------------------
(* en2m_model_exec: the attribute a command writes and the value, given the  *)
(* store s.                                                                  *)
Target(o, s) ==
  CASE o.cmd \in {"ON", "OFF", "TOGGLE"} -> "on"
    [] o.cmd = "brightness"               -> "level"
    [] o.cmd = "color_temp"               -> "ct"
    [] o.cmd \in {"LOCK", "UNLOCK"}       -> "lock"
    [] o.cmd \in {"OPEN", "CLOSE", "position"} -> "position"
    [] o.cmd = "fan_mode"                 -> "mode"
    [] o.cmd = "percentage"               -> "percent"
    [] o.cmd = "hvac_mode"                -> "system"
    [] o.cmd = "set_heating"              -> "heat"
    [] o.cmd = "set_cooling"              -> "cool"
    [] o.cmd = "identify"                 -> "identify"
    [] o.cmd = "target_temperature" ->
         IF "system" \in Has /\ s["system"] = Cool THEN "cool" ELSE "heat"
    [] OTHER                              -> "none"

Asked(o, s) ==
  CASE o.cmd \in {"ON", "LOCK"}          -> 1
    [] o.cmd \in {"OFF", "UNLOCK", "OPEN"} -> 0
    [] o.cmd = "TOGGLE"                   -> 1 - s["on"]
    [] o.cmd = "CLOSE"                    -> 100
    [] o.cmd = "brightness"               -> Clamp(o.arg, 254)
    [] o.cmd \in {"position", "percentage"} -> Clamp(o.arg, 100)
    [] OTHER                              -> o.arg

-----------------------------------------------------------------------------
(* The en2m task: a command frame. *)

\* en2m_model_on_command_frame.
Frame(doc) ==
  /\ TaskFree /\ frames < MaxFrames /\ frames' = frames + 1
  /\ frame' = doc /\ orders' = Decode(doc)
  /\ calm' = (job["app"] = Nothing)
  /\ UNCHANGED <<slot, hardware, job, order, buttons, locals, crossed, last>>

\* An order the application handles, that names nothing the device has, or a stop,
\* which only the application could carry out.
Passed(o) == o.cmd \in Handled \/ Target(o, slot) \notin Has

\* The next order; identify only sets its attribute.
NextOrder ==
  /\ Idle("en2m") /\ order = Nothing
  /\ \E i \in orders :
       LET o == OrderOf(frame, Keys[i]) IN
       /\ \A j \in orders : i <= j
       /\ orders' = orders \ {i}
       /\ \/ Passed(o) /\ UNCHANGED <<job, order, crossed>>
          \/ ~Passed(o) /\ order' = o /\ Begin("en2m", Target(o, slot), Asked(o, slot), "drive")
  /\ UNCHANGED <<slot, hardware, frame, buttons, frames, locals, calm, last>>

\* What the command writes after its first write succeeded, given the store s then.
Second(o, s) ==
  CASE o.cmd = "brightness" /\ Asked(o, s) > 0 -> <<"on", 1>>
    [] o.cmd = "fan_mode" /\ Asked(o, s) = FanOff -> <<"percent", 0>>
    [] o.cmd = "percentage" /\ "mode" \in Has ->
         IF Asked(o, s) = 0 /\ s["mode"] # FanOff THEN <<"mode", FanOff>>
         ELSE IF Asked(o, s) > 0 /\ s["mode"] = FanOff THEN <<"mode", FanOn>>
         ELSE <<"none", 0>>
    [] OTHER -> <<"none", 0>>

Follow ==
  LET w == Second(order, slot) IN
  /\ Idle("en2m") /\ order # Nothing
  /\ order' = Nothing
  /\ \/ w[1] \in Has /\ Begin("en2m", w[1], w[2], "drive")
     \/ w[1] \notin Has /\ UNCHANGED <<job, crossed>>
  /\ UNCHANGED <<slot, hardware, frame, orders, buttons, frames, locals, calm, last>>

\* All orders are carried out; the ACK and the report follow.
Carried == frame # Nothing /\ Idle("en2m") /\ order = Nothing /\ orders = {}

FrameDone ==
  /\ Carried
  /\ frame' = Nothing
  /\ last' = IF calm THEN [doc |-> frame, slot |-> slot] ELSE Nothing
  /\ UNCHANGED <<slot, hardware, job, orders, order, buttons, frames, locals, crossed,
                 calm>>

-----------------------------------------------------------------------------
(* en2m_attribute_write and en2m_attribute_set, on either task. *)

\* The callback drives the hardware, without the lock.
Drive(p) ==
  /\ job[p] # Nothing /\ job[p].at = "drive"
  /\ hardware' = [hardware EXCEPT ![job[p].attr] = job[p].val]
  /\ job' = [job EXCEPT ![p].at = "commit"]
  /\ crossed' = IF Overlaps(p, job[p].attr) THEN crossed ELSE crossed \ {job[p].attr}
  /\ UNCHANGED <<slot, frame, orders, order, buttons, frames, locals, calm, last>>

\* Faulty: the value is committed although the callback refused it.
Refuse_Commits(p) ==
  /\ job[p] # Nothing /\ job[p].at = "drive" /\ locals < MaxLocal
  /\ locals' = locals + 1
  /\ job' = [job EXCEPT ![p].at = "commit"]
  /\ Disturb
  /\ UNCHANGED <<slot, hardware, frame, orders, order, buttons, frames, crossed>>

\* The callback refuses: nothing is committed, and a command ends there.
Refuse(p) ==
  /\ job[p] # Nothing /\ job[p].at = "drive" /\ locals < MaxLocal
  /\ locals' = locals + 1
  /\ job' = [job EXCEPT ![p] = Nothing]
  /\ order' = IF p = "en2m" THEN Nothing ELSE order
  /\ Disturb
  /\ UNCHANGED <<slot, hardware, frame, orders, buttons, frames, crossed>>

\* The value is committed, under the lock.
Commit(p) ==
  /\ job[p] # Nothing /\ job[p].at = "commit"
  /\ slot' = [slot EXCEPT ![job[p].attr] = job[p].val]
  /\ job' = [job EXCEPT ![p] = Nothing]
  /\ UNCHANGED <<hardware, frame, orders, order, buttons, frames, locals, crossed, calm,
                 last>>

\* The application controls an attribute, ...
AppWrite(a, v) ==
  /\ Idle("app") /\ locals < MaxLocal /\ locals' = locals + 1
  /\ Begin("app", a, v, "drive")
  /\ Disturb
  /\ UNCHANGED <<slot, hardware, frame, orders, order, buttons, frames>>

\* ... or reports what was moved by hand; en2m_report_fan and the others clamp.
AppReport(a, v) ==
  /\ Idle("app") /\ locals < MaxLocal /\ locals' = locals + 1
  /\ hardware' = IF a \in Driven THEN [hardware EXCEPT ![a] = Coerce(a, v)] ELSE hardware
  /\ Begin("app", a, v, "commit")
  /\ Disturb
  /\ UNCHANGED <<slot, frame, orders, order, buttons, frames>>

\* en2m_dm_refresh, for one attribute: the read callback looks at the hardware.
Refresh(a) ==
  /\ TaskFree /\ locals < MaxLocal /\ locals' = locals + 1
  /\ Begin("en2m", a, hardware[a], "commit")
  /\ IF slot[a] = hardware[a] THEN UNCHANGED <<calm, last>> ELSE Disturb
  /\ UNCHANGED <<slot, hardware, frame, orders, order, buttons, frames>>

\* en2m_model_identify_tick.
Countdown ==
  /\ TaskFree /\ "identify" \in Has /\ slot["identify"] > 0
  /\ Begin("en2m", "identify", slot["identify"] - 1, "commit")
  /\ Disturb
  /\ UNCHANGED <<slot, hardware, frame, orders, order, buttons, frames, locals>>

-----------------------------------------------------------------------------
(* The button: en2m_report_button, on an application task or, from an ISR, *)
(* as a work item of the en2m task; and its part of en2m_report_cluster.    *)

Free(p) == IF p = "en2m" THEN TaskFree ELSE Idle(p)

\* The counter is read, ...
PressBegins(p, act) ==
  /\ p \in Pressers /\ Free(p) /\ count < MaxPresses
  /\ press' = [press EXCEPT ![p] = [at |-> "action", num |-> count + 1, act |-> act]]
  /\ pressed' = [pressed EXCEPT ![count + 1] = pressed[count + 1] \cup {act}]
  /\ UNCHANGED <<slot, hardware, job, frame, orders, order, count, action, seen, shown,
                 frames, locals, crossed, calm, last>>

\* Faulty: the counter is set first.
PressSets_CountFirst(p) ==
  /\ press[p] # Nothing
  /\ IF press[p].at = "action"
     THEN /\ count' = press[p].num
          /\ press' = [press EXCEPT ![p].at = "count"] /\ UNCHANGED action
     ELSE /\ action' = press[p].act
          /\ press' = [press EXCEPT ![p] = Nothing] /\ UNCHANGED count
  /\ UNCHANGED <<slot, hardware, job, frame, orders, order, seen, shown, pressed, frames,
                 locals, crossed, calm, last>>

\* ... the action is set, and then the counter.
PressSets(p) ==
  /\ press[p] # Nothing
  /\ IF press[p].at = "action"
     THEN /\ action' = press[p].act
          /\ press' = [press EXCEPT ![p].at = "count"] /\ UNCHANGED count
     ELSE /\ count' = press[p].num
          /\ press' = [press EXCEPT ![p] = Nothing] /\ UNCHANGED action
  /\ UNCHANGED <<slot, hardware, job, frame, orders, order, seen, shown, pressed, frames,
                 locals, crossed, calm, last>>

\* The report reads the counter; a button never pressed is not reported.
ReportCount ==
  /\ TaskFree /\ count > 0
  /\ seen' = count
  /\ UNCHANGED <<slot, hardware, job, frame, orders, order, count, action, press, shown,
                 pressed, frames, locals, crossed, calm, last>>

ReportAction ==
  /\ seen # Nothing
  /\ seen' = Nothing /\ shown' = [count |-> seen, act |-> action]
  /\ UNCHANGED <<slot, hardware, job, frame, orders, order, count, action, press, pressed,
                 frames, locals, crossed, calm, last>>

Next ==
  \/ \E doc \in Docs : Frame(doc)
  \/ NextOrder \/ Follow \/ FrameDone
  \/ \E p \in Tasks : Drive(p) \/ Refuse(p) \/ Commit(p)
  \/ \E a \in Touched, v \in AppValues : AppWrite(a, v) \/ AppReport(a, v)
  \/ \E a \in Driven : Refresh(a)
  \/ Countdown
  \/ \E p \in Tasks, act \in Actions : PressBegins(p, act)
  \/ \E p \in Tasks : PressSets(p)
  \/ ReportCount \/ ReportAction

Spec == Init /\ [][Next]_vars

-----------------------------------------------------------------------------
(* Properties. *)

InWrite(a) == \E p \in Tasks : job[p] # Nothing /\ job[p].attr = a

\* The store never shows a state the hardware is not in (en2m_attr.h:275-278): when no
\* write of an attribute is under way, its value is what the hardware was driven to,
\* refused or not; unless two tasks wrote it at once, which may drive in one order
\* and commit in the other.
ShowsHardware ==
  \A a \in Driven \ crossed : ~InWrite(a) => slot[a] = hardware[a]

\* A command that is carried out again, because its acknowledgement was lost, leaves
\* the store as it was after the first time, unless it toggles or somebody else wrote
\* since: that is what lets the coordinator retransmit.
Toggles(doc) == "switch" \in DOMAIN doc /\ doc.switch = "TOGGLE"

RepeatHarmless ==
  Carried /\ calm /\ last # Nothing =>
    (last.doc = frame /\ ~Toggles(frame) => slot = last.slot)

\* A report never pairs a press with an older press's action (en2m_datamodel.c:702-704),
\* as long as one task records the presses.
PressPaired ==
  shown.count > 0 => \E n \in shown.count..MaxPresses : shown.act \in pressed[n]
=============================================================================
