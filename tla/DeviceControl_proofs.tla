------------------------- MODULE DeviceControl_proofs -------------------------
(***************************************************************************)
(* Proofs about DeviceControl, for every set of attributes, payloads and   *)
(* bounds: types, the inductive invariant, ShowsHardware, PressPaired and  *)
(* RepeatHarmless.                                                         *)
(***************************************************************************)
EXTENDS DeviceControl, TLAPS

(* The inductive invariant. *)

\* What is to be carried out is what the frame has.
FrameBooks == orders \subseteq (IF frame = Nothing THEN {} ELSE Decode(frame))

\* A write under way holds a value of the attribute's type; so does the hardware.
JobsCoerced ==
  /\ \A p \in Tasks : job[p] # Nothing => Coerce(job[p].attr, job[p].val) = job[p].val
  /\ \A a \in Driven : Coerce(a, hardware[a]) = hardware[a]

In(p, a) == job[p] # Nothing /\ job[p].attr = a

\* Where each write of an attribute stands: before the hardware is driven store and
\* hardware agree, after it the hardware is what will be committed.
HardwareBooks ==
  \A a \in Driven \ crossed :
    /\ ~InWrite(a) => slot[a] = hardware[a]
    /\ \A p \in Tasks : In(p, a) =>
         /\ job[p].at = "drive" => slot[a] = hardware[a]
         /\ job[p].at = "commit" => hardware[a] = job[p].val
    /\ \A p, q \in Tasks : In(p, a) /\ In(q, a) => p = q

\* Where each press stands, if one task records them.
PressBooks ==
  /\ \A p \in Tasks : press[p] # Nothing =>
       /\ p \in Pressers
       /\ press[p].num = count + 1 /\ count < MaxPresses
       /\ press[p].act \in pressed[count + 1]
       /\ press[p].at = "count" => action = press[p].act
  /\ count > 0 => \E n \in count..MaxPresses : action \in pressed[n]
  /\ seen # Nothing => 0 < seen /\ seen <= count
  /\ PressPaired

Typed == TypeOK /\ FrameBooks /\ JobsCoerced

-----------------------------------------------------------------------------
(* Values. *)

LEMMA CastsInt ==
  ASSUME NEW v \in Int
  PROVE  /\ U8(v) \in Int /\ U16(v) \in Int /\ I16(v) \in Int
         /\ U8(U8(v)) = U8(v) /\ U16(U16(v)) = U16(v) /\ I16(I16(v)) = I16(v)
<1>1. U8(v) \in Int /\ U8(U8(v)) = U8(v)
  BY DEF U8
<1>2. U16(v) \in Int /\ U16(U16(v)) = U16(v)
  BY DEF U16
<1>3. I16(v) \in Int /\ I16(I16(v)) = I16(v)
  <2> DEFINE r == (v + 32768) % 65536
  <2>1. r \in Int /\ r % 65536 = r
    OBVIOUS
  <2>2. I16(v) = r - 32768
    BY DEF I16
  <2> HIDE DEF r
  <2>3. I16(r - 32768) = r - 32768
    BY <2>1 DEF I16
  <2> QED
    BY <2>1, <2>2, <2>3
<1> QED
  BY <1>1, <1>2, <1>3

LEMMA CoerceTwice ==
  ASSUME NEW a \in Attrs, NEW v \in Int
  PROVE  Coerce(a, v) \in Int /\ Coerce(a, Coerce(a, v)) = Coerce(a, v)
<1>1. CASE a = "on"
  BY <1>1 DEF Coerce
<1>2. CASE a \in {"ct", "identify"}
  BY <1>2, CastsInt DEF Coerce
<1>3. CASE a \in {"heat", "cool"}
  BY <1>3, CastsInt DEF Coerce
<1>4. CASE a \notin {"on", "ct", "identify", "heat", "cool"}
  <2>1. \A w \in Int : Coerce(a, w) = U8(w)
    BY <1>4 DEF Coerce
  <2>2. U8(v) \in Int
    BY CastsInt
  <2> QED
    BY <2>1, <2>2, CastsInt
<1> QED
  BY <1>1, <1>2, <1>3, <1>4

LEMMA DefaultsInt ==
  \A a \in Attrs : Default[a] \in Int /\ Coerce(a, Default[a]) = Default[a]
<1> SUFFICES ASSUME NEW a \in Attrs
             PROVE  Default[a] \in Int /\ Coerce(a, Default[a]) = Default[a]
  OBVIOUS
<1> QED
  BY SMTT(30) DEF Attrs, Default, Coerce, U8, U16, I16, FanOff

LEMMA OrderInt == \A o \in Order : o.arg \in Int
<1> SUFFICES ASSUME NEW doc \in Docs, NEW k \in DOMAIN doc
             PROVE  OrderOf(doc, k).arg \in Int
  BY DEF Order
<1>1. CASE k \in {"switch", "cover", "lock"}
  BY <1>1 DEF OrderOf
<1>2. CASE k \notin {"switch", "cover", "lock"}
  <2>1. doc[k] \in Int
    BY <1>2, ControlAssumption
  <2>2. U8(doc[k]) \in Int /\ U16(doc[k]) \in Int /\ I16(doc[k]) \in Int
    BY <2>1, CastsInt
  <2> QED
    BY <1>2, <2>2 DEF OrderOf
<1> QED
  BY <1>1, <1>2

LEMMA AskedInt ==
  ASSUME slot \in [Has -> Int], NEW o \in Order, Target(o, slot) \in Has
  PROVE  Asked(o, slot) \in Int
<1>1. o.arg \in Int
  BY OrderInt
<1>2. Clamp(o.arg, 254) \in Int /\ Clamp(o.arg, 100) \in Int
  BY <1>1 DEF Clamp
<1>3. o.cmd = "TOGGLE" => slot["on"] \in Int
  BY DEF Target
<1> QED
  BY <1>1, <1>2, <1>3 DEF Asked

LEMMA SecondInt == \A o, s : Second(o, s)[2] \in Int
BY DEF Second, FanOff, FanOn

LEMMA HasAttrs == Has \subseteq Attrs /\ Driven \subseteq Has
BY ControlAssumption

-----------------------------------------------------------------------------
(* Types. *)

LEMMA BeginTyped ==
  ASSUME Typed, NEW p \in Tasks, NEW a \in Has, NEW v \in Int,
         NEW f \in {"drive", "commit"}, Begin(p, a, v, f)
  PROVE  /\ job' \in [Tasks -> Write \cup {Nothing}] /\ crossed' \subseteq Has
         /\ \A q \in Tasks : job'[q] # Nothing =>
              Coerce(job'[q].attr, job'[q].val) = job'[q].val
<1>1. Coerce(a, v) \in Int /\ Coerce(a, Coerce(a, v)) = Coerce(a, v)
  BY CoerceTwice, HasAttrs
<1> DEFINE w == [at |-> IF a \in Driven THEN f ELSE "commit", attr |-> a,
                 val |-> Coerce(a, v)]
<1>2. w \in Write
  BY <1>1 DEF Write
<1>3. w.attr = a /\ w.val = Coerce(a, v)
  OBVIOUS
<1>4. job' = [job EXCEPT ![p] = w] /\ crossed' \subseteq crossed \cup {a}
  BY DEF Begin
<1> HIDE DEF w
<1> QED
  BY <1>1, <1>2, <1>3, <1>4 DEF Typed, TypeOK, JobsCoerced

\* Conjuncts that most steps leave alone.
rest == <<frames, locals, pressed, seen, shown, press, count, action>>

LEMMA TypedInit == Init => Typed
<1> SUFFICES ASSUME Init PROVE Typed
  OBVIOUS
<1>1. slot \in [Has -> Int] /\ \A a \in Has : Coerce(a, slot[a]) = slot[a]
  BY DefaultsInt, HasAttrs DEF Init
<1>2. hardware \in [Driven -> Int] /\ \A a \in Driven : Coerce(a, hardware[a]) = hardware[a]
  BY DefaultsInt, HasAttrs DEF Init
<1>3. MaxFrames \in Nat /\ MaxLocal \in Nat /\ MaxPresses \in Nat /\ "short" \in Actions
  BY ControlAssumption
<1>4. /\ job \in [Tasks -> Write \cup {Nothing}] /\ press \in [Tasks -> Press \cup {Nothing}]
      /\ \A p \in Tasks : job[p] = Nothing
  BY DEF Init
<1>5. /\ count \in 0..MaxPresses /\ action \in Actions /\ seen \in 0..MaxPresses \cup {Nothing}
      /\ shown \in [count : 0..MaxPresses, act : Actions]
      /\ pressed \in [1..MaxPresses -> SUBSET Actions]
  BY <1>3 DEF Init
<1>6. /\ frame = Nothing /\ orders = {} /\ order = Nothing /\ frames \in 0..MaxFrames
      /\ locals \in 0..MaxLocal /\ crossed = {} /\ last = Nothing
  BY <1>3 DEF Init
<1>7. calm \in BOOLEAN
  BY DEF Init
<1> QED
  BY <1>1, <1>2, <1>4, <1>5, <1>6, <1>7 DEF Typed, TypeOK, FrameBooks, JobsCoerced

LEMMA NextOrderTyped == Typed /\ NextOrder => Typed'
<1> SUFFICES ASSUME Typed, NextOrder PROVE Typed'
  OBVIOUS
<1>1. PICK i \in orders :
        LET o == OrderOf(frame, Keys[i]) IN
        /\ orders' = orders \ {i}
        /\ \/ Passed(o) /\ UNCHANGED <<job, order, crossed>>
           \/ ~Passed(o) /\ order' = o /\ Begin("en2m", Target(o, slot), Asked(o, slot), "drive")
  BY DEF NextOrder
<1> DEFINE o == OrderOf(frame, Keys[i])
<1>2. frame \in Docs /\ i \in Decode(frame)
  BY DEF Typed, TypeOK, FrameBooks
<1>3. o \in Order
  BY <1>2 DEF Order, Decode
<1> HIDE DEF o
<1>4. orders' \subseteq orders /\ UNCHANGED <<slot, hardware, frame, calm, last>> /\ UNCHANGED rest
  BY <1>1 DEF NextOrder, rest, buttons
<1>5. FrameBooks'
  BY <1>4 DEF Typed, FrameBooks, Decode
<1>6. /\ job' \in [Tasks -> Write \cup {Nothing}] /\ crossed' \subseteq Has
      /\ \A q \in Tasks : job'[q] # Nothing => Coerce(job'[q].attr, job'[q].val) = job'[q].val
      /\ order' \in Order \cup {Nothing}
  <2>1. CASE Passed(o) /\ UNCHANGED <<job, order, crossed>>
    BY <2>1 DEF Typed, TypeOK, JobsCoerced
  <2>2. CASE ~Passed(o) /\ order' = o /\ Begin("en2m", Target(o, slot), Asked(o, slot), "drive")
    <3>1. Target(o, slot) \in Has
      BY <2>2 DEF Passed
    <3>2. Asked(o, slot) \in Int
      BY <1>3, <3>1, AskedInt DEF Typed, TypeOK
    <3> QED
      BY <1>3, <2>2, <3>1, <3>2, BeginTyped DEF Tasks
  <2> QED
    BY <1>1, <2>1, <2>2 DEF o
<1>7. TypeOK'
  BY <1>4, <1>6 DEF Typed, TypeOK, rest
<1> QED
  BY <1>4, <1>5, <1>6, <1>7 DEF Typed, JobsCoerced

LEMMA TypedStep == Typed /\ [Next]_vars => Typed'
<1> SUFFICES ASSUME Typed, [Next]_vars PROVE Typed'
  OBVIOUS
<1> USE DEF Typed
<1>1. ASSUME NEW doc \in Docs, Frame(doc) PROVE Typed'
  <2>1. frames' \in 0..MaxFrames
    BY <1>1, ControlAssumption DEF Frame, TypeOK
  <2>2. calm' \in BOOLEAN
    BY <1>1 DEF Frame
  <2>3. frame' = doc /\ doc # Nothing /\ orders' = Decode(doc) /\ Decode(doc) \subseteq DOMAIN Keys
    BY <1>1, ControlAssumption DEF Frame, Decode
  <2>4. FrameBooks'
    BY <2>3 DEF FrameBooks, Decode
  <2> QED
    BY <1>1, <2>1, <2>2, <2>3, <2>4 DEF Frame, TypeOK, JobsCoerced, buttons
<1>2. CASE NextOrder
  BY <1>2, NextOrderTyped
<1>3. CASE Follow
  <2>1. PICK s : s = Second(order, slot)
    OBVIOUS
  <2>2. UNCHANGED <<slot, hardware, frame, orders, calm, last>> /\ UNCHANGED rest /\ order' = Nothing
    BY <1>3 DEF Follow, buttons, rest
  <2>3. /\ job' \in [Tasks -> Write \cup {Nothing}] /\ crossed' \subseteq Has
        /\ \A q \in Tasks : job'[q] # Nothing => Coerce(job'[q].attr, job'[q].val) = job'[q].val
    <3>1. CASE s[1] \in Has /\ Begin("en2m", s[1], s[2], "drive")
      BY <2>1, <3>1, SecondInt, BeginTyped DEF Tasks
    <3>2. CASE UNCHANGED <<job, crossed>>
      BY <3>2 DEF TypeOK, JobsCoerced
    <3> QED
      BY <1>3, <2>1, <3>1, <3>2 DEF Follow
  <2>4. TypeOK'
    BY <2>2, <2>3 DEF TypeOK, rest
  <2>5. FrameBooks' /\ JobsCoerced'
    BY <2>2, <2>3 DEF FrameBooks, JobsCoerced, Decode
  <2> QED
    BY <2>4, <2>5
<1>4. CASE FrameDone
  BY <1>4 DEF FrameDone, Carried, TypeOK, FrameBooks, JobsCoerced, buttons, Idle
<1>5. ASSUME NEW p \in Tasks, Drive(p) PROVE Typed'
  <2>1. job[p] \in Write /\ job' = [job EXCEPT ![p].at = "commit"]
    BY <1>5 DEF Drive, TypeOK
  <2>2. [job[p] EXCEPT !.at = "commit"] \in Write
    BY <2>1 DEF Write
  <2>3. job' \in [Tasks -> Write \cup {Nothing}]
    BY <2>1, <2>2 DEF TypeOK
  <2>4. \A q \in Tasks : job'[q] # Nothing =>
          job[q] # Nothing /\ job'[q].attr = job[q].attr /\ job'[q].val = job[q].val
    BY <1>5, <2>1 DEF TypeOK, Drive, Write
  <2>5. hardware' = [hardware EXCEPT ![job[p].attr] = job[p].val] /\ job[p].val \in Int
    BY <1>5, <2>1 DEF Drive, Write
  <2>6. hardware' \in [Driven -> Int]
    BY <2>5 DEF TypeOK
  <2>7. \A a \in Driven : Coerce(a, hardware'[a]) = hardware'[a]
    BY <1>5, <2>5 DEF JobsCoerced, TypeOK, Drive
  <2>8. UNCHANGED <<slot, frame, orders, order, calm, last>> /\ UNCHANGED rest /\ crossed' \subseteq Has
    BY <1>5 DEF Drive, buttons, rest, TypeOK
  <2>9. TypeOK'
    BY <2>3, <2>6, <2>8 DEF TypeOK, rest
  <2> QED
    BY <2>4, <2>7, <2>8, <2>9 DEF FrameBooks, JobsCoerced, Decode
<1>6. ASSUME NEW p \in Tasks, Refuse(p) PROVE Typed'
  <2>1. job' \in [Tasks -> Write \cup {Nothing}] /\ \A q \in Tasks : job'[q] # Nothing => job'[q] = job[q]
    BY <1>6 DEF Refuse, TypeOK
  <2>2. locals' \in 0..MaxLocal
    BY <1>6, ControlAssumption DEF Refuse, TypeOK
  <2>3. order' \in Order \cup {Nothing} /\ last' = Nothing
    BY <1>6 DEF Refuse, TypeOK, Disturb
  <2>4. calm' \in BOOLEAN
    BY <1>6 DEF Refuse, Disturb
  <2> QED
    BY <1>6, <2>1, <2>2, <2>3, <2>4 DEF Refuse, TypeOK, FrameBooks, JobsCoerced, buttons, Decode
<1>7. ASSUME NEW p \in Tasks, Commit(p) PROVE Typed'
  <2>1. job[p] \in Write /\ slot' = [slot EXCEPT ![job[p].attr] = job[p].val]
    BY <1>7 DEF Commit, TypeOK
  <2>2. job[p].attr \in Has /\ job[p].val \in Int /\ Coerce(job[p].attr, job[p].val) = job[p].val
    BY <1>7, <2>1 DEF Write, JobsCoerced, Commit
  <2>3. slot' \in [Has -> Int] /\ \A a \in Has : Coerce(a, slot'[a]) = slot'[a]
    BY <2>1, <2>2 DEF TypeOK
  <2>4. job' \in [Tasks -> Write \cup {Nothing}] /\ \A q \in Tasks : job'[q] # Nothing => job'[q] = job[q]
    BY <1>7 DEF Commit, TypeOK
  <2> QED
    BY <1>7, <2>3, <2>4 DEF Commit, TypeOK, FrameBooks, JobsCoerced, buttons, Decode
<1>8. ASSUME NEW a \in Touched, NEW v \in AppValues, AppWrite(a, v) PROVE Typed'
  <2>1. a \in Has /\ v \in Int /\ Begin("app", a, v, "drive")
    BY <1>8, ControlAssumption DEF AppWrite
  <2>2. /\ job' \in [Tasks -> Write \cup {Nothing}] /\ crossed' \subseteq Has
        /\ \A q \in Tasks : job'[q] # Nothing => Coerce(job'[q].attr, job'[q].val) = job'[q].val
    BY <2>1, BeginTyped DEF Tasks
  <2>3. locals' \in 0..MaxLocal
    BY <1>8, ControlAssumption DEF AppWrite, TypeOK
  <2>9. calm' \in BOOLEAN /\ last' = Nothing
    BY <1>8 DEF AppWrite, TypeOK, Disturb
  <2> QED
    BY <1>8, <2>2, <2>3, <2>9 DEF AppWrite, TypeOK, FrameBooks, JobsCoerced, buttons, Decode
<1>9. ASSUME NEW a \in Touched, NEW v \in AppValues, AppReport(a, v) PROVE Typed'
  <2>1. a \in Has /\ v \in Int /\ Begin("app", a, v, "commit")
    BY <1>9, ControlAssumption DEF AppReport
  <2>2. /\ job' \in [Tasks -> Write \cup {Nothing}] /\ crossed' \subseteq Has
        /\ \A q \in Tasks : job'[q] # Nothing => Coerce(job'[q].attr, job'[q].val) = job'[q].val
    BY <2>1, BeginTyped DEF Tasks
  <2>3. locals' \in 0..MaxLocal
    BY <1>9, ControlAssumption DEF AppReport, TypeOK
  <2>9. calm' \in BOOLEAN /\ last' = Nothing
    BY <1>9 DEF AppReport, TypeOK, Disturb
  <2>4. Coerce(a, v) \in Int /\ Coerce(a, Coerce(a, v)) = Coerce(a, v)
    BY <2>1, CoerceTwice, HasAttrs
  <2>5. hardware' \in [Driven -> Int] /\ \A b \in Driven : Coerce(b, hardware'[b]) = hardware'[b]
    BY <1>9, <2>4 DEF AppReport, TypeOK, JobsCoerced
  <2> QED
    BY <1>9, <2>2, <2>3, <2>9, <2>5 DEF AppReport, TypeOK, FrameBooks, JobsCoerced, buttons, Decode
<1>10. ASSUME NEW a \in Driven, Refresh(a) PROVE Typed'
  <2>1. a \in Has /\ hardware[a] \in Int /\ Begin("en2m", a, hardware[a], "commit")
    BY <1>10, HasAttrs DEF Refresh, TypeOK
  <2>2. /\ job' \in [Tasks -> Write \cup {Nothing}] /\ crossed' \subseteq Has
        /\ \A q \in Tasks : job'[q] # Nothing => Coerce(job'[q].attr, job'[q].val) = job'[q].val
    BY <2>1, BeginTyped DEF Tasks
  <2>3. locals' \in 0..MaxLocal
    BY <1>10, ControlAssumption DEF Refresh, TypeOK
  <2>9. calm' \in BOOLEAN /\ (last' = Nothing \/ last' = last)
    BY <1>10 DEF Refresh, TypeOK, Disturb
  <2> QED
    BY <1>10, <2>2, <2>3, <2>9 DEF Refresh, TypeOK, FrameBooks, JobsCoerced, buttons, Decode
<1>11. CASE Countdown
  <2>1. "identify" \in Has /\ slot["identify"] - 1 \in Int
        /\ Begin("en2m", "identify", slot["identify"] - 1, "commit")
    BY <1>11 DEF Countdown, TypeOK
  <2>2. /\ job' \in [Tasks -> Write \cup {Nothing}] /\ crossed' \subseteq Has
        /\ \A q \in Tasks : job'[q] # Nothing => Coerce(job'[q].attr, job'[q].val) = job'[q].val
    BY <2>1, BeginTyped DEF Tasks
  <2> QED
    BY <1>11, <2>2 DEF Countdown, TypeOK, FrameBooks, JobsCoerced, buttons, Decode, Disturb
<1>12. ASSUME NEW p \in Tasks, NEW act \in Actions, PressBegins(p, act) PROVE Typed'
  <2>1. count + 1 \in 1..MaxPresses /\ count + 1 \in Nat
    BY <1>12, ControlAssumption DEF PressBegins, TypeOK
  <2>2. press' \in [Tasks -> Press \cup {Nothing}]
    BY <1>12, <2>1 DEF PressBegins, TypeOK, Press
  <2>3. pressed' \in [1..MaxPresses -> SUBSET Actions]
    BY <1>12, <2>1 DEF PressBegins, TypeOK
  <2> QED
    BY <1>12, <2>2, <2>3 DEF PressBegins, TypeOK, FrameBooks, JobsCoerced, Decode
<1>13. ASSUME NEW p \in Tasks, PressSets(p) PROVE Typed'
  <2>1. press[p] \in Press
    BY <1>13 DEF PressSets, TypeOK
  <2>2. press[p].num \in 0..MaxPresses /\ press[p].act \in Actions
    BY <2>1, ControlAssumption DEF Press
  <2>3. [press[p] EXCEPT !.at = "count"] \in Press
    BY <2>1 DEF Press
  <2>4. press' \in [Tasks -> Press \cup {Nothing}]
    BY <1>13, <2>3 DEF PressSets, TypeOK
  <2>5. count' \in 0..MaxPresses /\ action' \in Actions
    BY <1>13, <2>2 DEF PressSets, TypeOK
  <2> QED
    BY <1>13, <2>4, <2>5 DEF PressSets, TypeOK, FrameBooks, JobsCoerced, Decode
<1>14. CASE ReportCount
  BY <1>14 DEF ReportCount, TypeOK, FrameBooks, JobsCoerced, Decode
<1>15. CASE ReportAction
  BY <1>15 DEF ReportAction, TypeOK, FrameBooks, JobsCoerced, Decode
<1>16. CASE UNCHANGED vars
  BY <1>16 DEF vars, buttons, TypeOK, FrameBooks, JobsCoerced, Decode
<1> QED
  BY <1>1, <1>2, <1>3, <1>4, <1>5, <1>6, <1>7, <1>8, <1>9, <1>10, <1>11, <1>12, <1>13,
     <1>14, <1>15, <1>16 DEF Next

\* Every variable keeps its type, whatever commands, writes, refusals and presses come.
THEOREM ControlTypeCorrect == Spec => []TypeOK
<1>1. Typed => TypeOK
  BY DEF Typed
<1> QED
  BY <1>1, TypedInit, TypedStep, PTL DEF Spec

-----------------------------------------------------------------------------
(* Store and hardware. *)

LEMMA HardwareSame ==
  ASSUME HardwareBooks, UNCHANGED <<slot, hardware, job, crossed>>
  PROVE  HardwareBooks'
BY DEF HardwareBooks, In, InWrite

\* A write of a that neither drives yet nor has driven alone.
LEMMA BeginBooks ==
  ASSUME Typed, HardwareBooks, NEW p \in Tasks, NEW a \in Has, NEW v \in Int,
         NEW f \in {"drive", "commit"}, Begin(p, a, v, f), job[p] = Nothing,
         UNCHANGED slot,
         \A b \in Driven : b # a \/ f = "drive" => hardware'[b] = hardware[b],
         f = "commit" /\ a \in Driven => hardware'[a] = Coerce(a, v)
  PROVE  HardwareBooks'
<1> DEFINE w == [at |-> IF a \in Driven THEN f ELSE "commit", attr |-> a,
                 val |-> Coerce(a, v)]
<1>1. job' = [job EXCEPT ![p] = w]
  BY DEF Begin
<1>2. w # Nothing
  <2>1. Coerce(a, v) \in Int
    BY CoerceTwice, HasAttrs
  <2>2. w \in Write
    BY <2>1 DEF Write
  <2> QED
    BY <2>2, NothingAssumption
<1>3. w.attr = a /\ w.val = Coerce(a, v) /\ (a \in Driven => w.at = f)
  OBVIOUS
<1> HIDE DEF w
<1>4. \A q \in Tasks : job'[q] = IF q = p THEN w ELSE job[q]
  BY <1>1 DEF Typed, TypeOK
<1> SUFFICES ASSUME NEW b \in Driven \ crossed'
             PROVE  /\ ~InWrite(b)' => slot'[b] = hardware'[b]
                    /\ \A q \in Tasks : In(q, b)' =>
                         /\ job'[q].at = "drive" => slot'[b] = hardware'[b]
                         /\ job'[q].at = "commit" => hardware'[b] = job'[q].val
                    /\ \A q, r \in Tasks : In(q, b)' /\ In(r, b)' => q = r
  BY DEF HardwareBooks
<1>5. CASE b # a
  <2>1. b \notin crossed /\ hardware'[b] = hardware[b]
    BY <1>5 DEF Begin
  <2>2. \A q \in Tasks : In(q, b)' <=> In(q, b) /\ q # p
    BY <1>2, <1>3, <1>4, <1>5 DEF In
  <2>3. \A q \in Tasks : In(q, b) => q # p /\ job'[q] = job[q]
    BY <1>4 DEF In
  <2>4. InWrite(b)' <=> InWrite(b)
    BY <2>2, <2>3 DEF InWrite, In
  <2> QED
    BY <2>1, <2>2, <2>3, <2>4 DEF HardwareBooks
<1>6. CASE b = a
  <2>1. \A q \in Tasks \ {p} : ~In(q, a)
    BY <1>6 DEF Begin, Overlaps, In
  <2>2. \A q \in Tasks : In(q, a)' <=> q = p
    BY <1>2, <1>3, <1>4, <2>1 DEF In
  <2>3. InWrite(a)' /\ ~InWrite(a)
    BY <2>1, <2>2 DEF InWrite, In
  <2>4. job'[p] = w
    BY <1>4
  <2>5. CASE f = "drive"
    <3>1. a \notin crossed
      BY <1>6, <2>1, <2>5 DEF Begin, Overlaps, In
    <3>2. slot'[a] = hardware'[a] /\ w.at = "drive"
      BY <1>3, <1>6, <2>3, <2>5, <3>1 DEF HardwareBooks
    <3> QED
      BY <1>6, <2>2, <2>3, <2>4, <3>2
  <2>6. CASE f = "commit"
    BY <1>3, <1>6, <2>2, <2>3, <2>4, <2>6
  <2> QED
    BY <2>5, <2>6
<1> QED
  BY <1>5, <1>6

LEMMA DriveBooks ==
  ASSUME Typed, HardwareBooks, NEW p \in Tasks, Drive(p)
  PROVE  HardwareBooks'
<1> DEFINE c == job[p].attr
<1>1. /\ job[p] # Nothing /\ job[p] \in Write /\ job[p].at = "drive"
      /\ job' = [job EXCEPT ![p].at = "commit"] /\ UNCHANGED slot
      /\ hardware' = [hardware EXCEPT ![c] = job[p].val]
      /\ crossed' = IF Overlaps(p, c) THEN crossed ELSE crossed \ {c}
  BY DEF Drive, Typed, TypeOK
<1>2. [job[p] EXCEPT !.at = "commit"] \in Write
  BY <1>1 DEF Write
<1>3. \A q \in Tasks : /\ job'[q] # Nothing <=> job[q] # Nothing
                       /\ job[q] # Nothing => /\ job'[q].attr = job[q].attr
                                               /\ job'[q].val = job[q].val
                       /\ q # p => job'[q] = job[q]
  BY <1>1, <1>2, NothingAssumption DEF Typed, TypeOK, Write
<1>4. job'[p].at = "commit"
  BY <1>1 DEF Typed, TypeOK, Write
<1>5. \A q \in Tasks, b \in Driven : In(q, b)' <=> In(q, b)
  BY <1>3 DEF In
<1>6. \A b \in Driven : hardware'[b] = IF b = c THEN job[p].val ELSE hardware[b]
  BY <1>1 DEF Typed, TypeOK
<1>7. In(p, c)
  BY <1>1 DEF In
<1> HIDE DEF c
<1> SUFFICES ASSUME NEW b \in Driven \ crossed'
             PROVE  /\ ~InWrite(b)' => slot'[b] = hardware'[b]
                    /\ \A q \in Tasks : In(q, b)' =>
                         /\ job'[q].at = "drive" => slot'[b] = hardware'[b]
                         /\ job'[q].at = "commit" => hardware'[b] = job'[q].val
                    /\ \A q, r \in Tasks : In(q, b)' /\ In(r, b)' => q = r
  BY DEF HardwareBooks
<1>8. CASE b # c
  <2>1. b \notin crossed /\ hardware'[b] = hardware[b]
    BY <1>1, <1>6, <1>8
  <2>2. \A q \in Tasks : In(q, b) => q # p
    BY <1>7, <1>8 DEF In
  <2>3. InWrite(b)' <=> InWrite(b)
    BY <1>5 DEF InWrite, In
  <2> QED
    BY <1>1, <1>3, <1>5, <2>1, <2>2, <2>3 DEF HardwareBooks
<1>9. CASE b = c
  <2>1. \A q \in Tasks \ {p} : ~In(q, c)
    <3>1. CASE Overlaps(p, c)
      BY <1>1, <1>7, <1>9, <3>1 DEF HardwareBooks
    <3>2. CASE ~Overlaps(p, c)
      BY <3>2 DEF Overlaps, In
    <3> QED
      BY <3>1, <3>2
  <2>2. InWrite(b)'
    BY <1>5, <1>7, <1>9 DEF InWrite, In
  <2>3. hardware'[b] = job'[p].val
    BY <1>1, <1>3, <1>6, <1>9
  <2> QED
    BY <1>4, <1>5, <1>9, <2>1, <2>2, <2>3
<1> QED
  BY <1>8, <1>9

LEMMA EndBooks ==
  ASSUME Typed, HardwareBooks, NEW p \in Tasks, Refuse(p) \/ Commit(p)
  PROVE  HardwareBooks'
<1> DEFINE c == job[p].attr
<1>1. /\ job[p] # Nothing /\ job[p] \in Write /\ UNCHANGED <<hardware, crossed>>
      /\ job' = [job EXCEPT ![p] = Nothing]
  BY DEF Refuse, Commit, Typed, TypeOK
<1>2. \/ job[p].at = "drive" /\ UNCHANGED slot
      \/ job[p].at = "commit" /\ slot' = [slot EXCEPT ![c] = job[p].val]
  BY DEF Refuse, Commit
<1>3. \A q \in Tasks : job'[q] = IF q = p THEN Nothing ELSE job[q]
  BY <1>1 DEF Typed, TypeOK
<1>4. In(p, c)
  BY <1>1 DEF In
<1>5. \A b \in Has : b # c => slot'[b] = slot[b]
  BY <1>2 DEF Typed, TypeOK
<1>6. c \in Has
  BY <1>1 DEF Write
<1> HIDE DEF c
<1>7. \A q \in Tasks, b \in Driven : In(q, b)' <=> In(q, b) /\ q # p
  BY <1>3 DEF In
<1> SUFFICES ASSUME NEW b \in Driven \ crossed
             PROVE  /\ ~InWrite(b)' => slot'[b] = hardware[b]
                    /\ \A q \in Tasks : In(q, b)' =>
                         /\ job'[q].at = "drive" => slot'[b] = hardware[b]
                         /\ job'[q].at = "commit" => hardware[b] = job'[q].val
                    /\ \A q, r \in Tasks : In(q, b)' /\ In(r, b)' => q = r
  BY <1>1 DEF HardwareBooks
<1>8. CASE b # c
  <2>1. \A q \in Tasks : In(q, b) => q # p
    BY <1>4, <1>8 DEF In
  <2>2. slot'[b] = slot[b]
    BY <1>5, <1>8, HasAttrs
  <2>3. InWrite(b)' <=> InWrite(b)
    BY <1>7, <2>1 DEF InWrite, In
  <2> QED
    BY <1>3, <1>7, <2>1, <2>2, <2>3 DEF HardwareBooks
<1>9. CASE b = c
  <2>1. \A q \in Tasks : ~In(q, b)'
    BY <1>4, <1>7, <1>9 DEF HardwareBooks
  <2>2. slot'[b] = hardware[b]
    <3>1. CASE job[p].at = "drive" /\ UNCHANGED slot
      BY <1>4, <1>9, <3>1 DEF HardwareBooks
    <3>2. CASE job[p].at = "commit" /\ slot' = [slot EXCEPT ![c] = job[p].val]
      BY <1>4, <1>6, <1>9, <3>2 DEF HardwareBooks, Typed, TypeOK
    <3> QED
      BY <1>2, <3>1, <3>2 DEF c
  <2> QED
    BY <2>1, <2>2
<1> QED
  BY <1>8, <1>9

LEMMA HardwareStep == Typed /\ HardwareBooks /\ [Next]_vars => HardwareBooks'
<1> SUFFICES ASSUME Typed, HardwareBooks, [Next]_vars PROVE HardwareBooks'
  OBVIOUS
<1>1. ASSUME NEW doc \in Docs, Frame(doc) PROVE HardwareBooks'
  BY <1>1, HardwareSame DEF Frame
<1>2. CASE NextOrder
  <2>1. PICK i \in orders :
          LET o == OrderOf(frame, Keys[i]) IN
          \/ Passed(o) /\ UNCHANGED <<job, order, crossed>>
          \/ ~Passed(o) /\ order' = o /\ Begin("en2m", Target(o, slot), Asked(o, slot), "drive")
    BY <1>2 DEF NextOrder
  <2> DEFINE o == OrderOf(frame, Keys[i])
  <2>2. o \in Order
    BY DEF Order, Decode, Typed, TypeOK, FrameBooks
  <2> HIDE DEF o
  <2>3. UNCHANGED <<slot, hardware>> /\ job["en2m"] = Nothing
    BY <1>2 DEF NextOrder, Idle
  <2>4. CASE UNCHANGED <<job, crossed>>
    BY <2>3, <2>4, HardwareSame
  <2>5. CASE ~Passed(o) /\ Begin("en2m", Target(o, slot), Asked(o, slot), "drive")
    <3>1. Target(o, slot) \in Has
      BY <2>5 DEF Passed
    <3>2. Asked(o, slot) \in Int
      BY <2>2, <3>1, AskedInt DEF Typed, TypeOK
    <3> QED
      BY <2>3, <2>5, <3>1, <3>2, BeginBooks DEF Tasks
  <2> QED
    BY <2>1, <2>4, <2>5 DEF o
<1>3. CASE Follow
  <2>1. PICK s : s = Second(order, slot)
    OBVIOUS
  <2>2. UNCHANGED <<slot, hardware>> /\ job["en2m"] = Nothing
    BY <1>3 DEF Follow, Idle
  <2>3. CASE s[1] \in Has /\ Begin("en2m", s[1], s[2], "drive")
    BY <2>1, <2>2, <2>3, SecondInt, BeginBooks DEF Tasks
  <2>4. CASE UNCHANGED <<job, crossed>>
    BY <2>2, <2>4, HardwareSame
  <2> QED
    BY <1>3, <2>1, <2>3, <2>4 DEF Follow
<1>4. CASE FrameDone
  BY <1>4, HardwareSame DEF FrameDone
<1>5. ASSUME NEW p \in Tasks, Drive(p) \/ Refuse(p) \/ Commit(p) PROVE HardwareBooks'
  BY <1>5, DriveBooks, EndBooks
<1>6. ASSUME NEW a \in Touched, NEW v \in AppValues, AppWrite(a, v) PROVE HardwareBooks'
  <2>1. a \in Has /\ v \in Int /\ Begin("app", a, v, "drive")
    BY <1>6, ControlAssumption DEF AppWrite
  <2>2. UNCHANGED <<slot, hardware>> /\ job["app"] = Nothing
    BY <1>6 DEF AppWrite, Idle
  <2> QED
    BY <2>1, <2>2, BeginBooks DEF Tasks
<1>7. ASSUME NEW a \in Touched, NEW v \in AppValues, AppReport(a, v) PROVE HardwareBooks'
  <2>1. a \in Has /\ v \in Int /\ Begin("app", a, v, "commit")
    BY <1>7, ControlAssumption DEF AppReport
  <2>2. UNCHANGED slot /\ job["app"] = Nothing
    BY <1>7 DEF AppReport, Idle
  <2>3. \A b \in Driven : hardware'[b] = IF b = a THEN Coerce(a, v) ELSE hardware[b]
    BY <1>7 DEF AppReport, Typed, TypeOK
  <2> QED
    BY <2>1, <2>2, <2>3, BeginBooks DEF Tasks
<1>8. ASSUME NEW a \in Driven, Refresh(a) PROVE HardwareBooks'
  <2>1. a \in Has /\ hardware[a] \in Int /\ Begin("en2m", a, hardware[a], "commit")
    BY <1>8, HasAttrs DEF Refresh, Typed, TypeOK
  <2>2. UNCHANGED <<slot, hardware>> /\ job["en2m"] = Nothing
    BY <1>8 DEF Refresh, TaskFree, Idle
  <2>3. hardware[a] = Coerce(a, hardware[a])
    BY DEF Typed, JobsCoerced
  <2> QED
    BY <2>1, <2>2, <2>3, BeginBooks DEF Tasks
<1>9. CASE Countdown
  <2>1. "identify" \in Has /\ slot["identify"] - 1 \in Int
        /\ Begin("en2m", "identify", slot["identify"] - 1, "commit")
    BY <1>9 DEF Countdown, Typed, TypeOK
  <2>2. UNCHANGED <<slot, hardware>> /\ job["en2m"] = Nothing
    BY <1>9 DEF Countdown, TaskFree, Idle
  <2>3. "identify" \notin Driven
    BY ControlAssumption
  <2> QED
    BY <2>1, <2>2, <2>3, BeginBooks DEF Tasks
<1>10. ASSUME NEW p \in Tasks, NEW act \in Actions, PressBegins(p, act) PROVE HardwareBooks'
  BY <1>10, HardwareSame DEF PressBegins
<1>11. ASSUME NEW p \in Tasks, PressSets(p) PROVE HardwareBooks'
  BY <1>11, HardwareSame DEF PressSets
<1>12. CASE ReportCount \/ ReportAction
  BY <1>12, HardwareSame DEF ReportCount, ReportAction
<1>13. CASE UNCHANGED vars
  BY <1>13, HardwareSame DEF vars
<1> QED
  BY <1>1, <1>2, <1>3, <1>4, <1>5, <1>6, <1>7, <1>8, <1>9, <1>10, <1>11, <1>12, <1>13
     DEF Next

\* The store never shows a state the hardware is not in, refused writes included.
THEOREM ShowsHardwareHolds == Spec => []ShowsHardware
<1>1. Init => HardwareBooks
  BY HasAttrs DEF Init, HardwareBooks, In
<1>2. HardwareBooks => ShowsHardware
  BY DEF HardwareBooks, ShowsHardware
<1> QED
  BY <1>1, <1>2, TypedInit, TypedStep, HardwareStep, PTL DEF Spec

-----------------------------------------------------------------------------
(* Presses. *)

LEMMA PressSame ==
  ASSUME PressBooks, UNCHANGED buttons
  PROVE  PressBooks'
BY DEF PressBooks, PressPaired, buttons

LEMMA PressStep ==
  ASSUME \A p, q \in Pressers : p = q
  PROVE  Typed /\ PressBooks /\ [Next]_vars => PressBooks'
<1> SUFFICES ASSUME Typed, PressBooks, [Next]_vars PROVE PressBooks'
  OBVIOUS
<1>1. MaxPresses \in Nat /\ count \in 0..MaxPresses
  BY ControlAssumption DEF Typed, TypeOK
<1>2. ASSUME NEW p \in Tasks, NEW act \in Actions, PressBegins(p, act) PROVE PressBooks'
  <2>1. /\ p \in Pressers /\ press[p] = Nothing /\ count < MaxPresses
        /\ UNCHANGED <<count, action, seen, shown>>
    BY <1>2 DEF PressBegins, Free, TaskFree, Idle
  <2>2. \A q \in Tasks : q # p => press[q] = Nothing
    BY <2>1 DEF PressBooks
  <2>3. count + 1 \in 1..MaxPresses
    BY <1>1, <2>1
  <2>4. \A n \in 1..MaxPresses : pressed[n] \subseteq pressed'[n]
    BY <1>2, <2>3 DEF PressBegins, Typed, TypeOK
  <2>5. act \in pressed'[count + 1]
    BY <1>2, <2>3 DEF PressBegins, Typed, TypeOK
  <2>6. \A q \in Tasks : press'[q] # Nothing => q = p
    BY <1>2, <2>2 DEF PressBegins, Typed, TypeOK
  <2>7. press'[p] = [at |-> "action", num |-> count + 1, act |-> act]
    BY <1>2 DEF PressBegins, Typed, TypeOK
  <2>8. \A q \in Tasks : press'[q] # Nothing =>
          /\ q \in Pressers
          /\ press'[q].num = count' + 1 /\ count' < MaxPresses
          /\ press'[q].act \in pressed'[count' + 1]
          /\ press'[q].at = "count" => action' = press'[q].act
    BY <2>1, <2>5, <2>6, <2>7
  <2>9. count' > 0 => \E n \in count'..MaxPresses : action' \in pressed'[n]
    BY <1>1, <2>1, <2>4 DEF PressBooks
  <2>10. PressPaired'
    <3> SUFFICES ASSUME shown.count > 0
                 PROVE  \E n \in shown.count..MaxPresses : shown.act \in pressed'[n]
      BY <2>1 DEF PressPaired
    <3>1. PICK n \in shown.count..MaxPresses : shown.act \in pressed[n]
      BY DEF PressBooks, PressPaired
    <3>2. n \in 1..MaxPresses
      BY <1>1 DEF Typed, TypeOK
    <3> QED
      BY <2>4, <3>1, <3>2
  <2> QED
    BY <2>1, <2>8, <2>9, <2>10 DEF PressBooks
<1>3. ASSUME NEW p \in Tasks, PressSets(p) PROVE PressBooks'
  <2>1. /\ press[p] # Nothing /\ press[p] \in Press /\ UNCHANGED <<seen, shown, pressed>>
    BY <1>3 DEF PressSets, Typed, TypeOK
  <2>2. /\ p \in Pressers /\ press[p].num = count + 1 /\ count < MaxPresses
        /\ press[p].act \in pressed[count + 1]
        /\ press[p].at = "count" => action = press[p].act
    BY <2>1 DEF PressBooks
  <2>3. \A q \in Tasks : q # p => press[q] = Nothing
    BY <2>2 DEF PressBooks
  <2>4. count + 1 \in count..MaxPresses /\ count + 1 \in (count + 1)..MaxPresses
    BY <1>1, <2>2
  <2>5. PressPaired'
    BY <2>1 DEF PressBooks, PressPaired
  <2>6. CASE press[p].at = "action"
    <3>1. /\ action' = press[p].act /\ count' = count
          /\ press' = [press EXCEPT ![p].at = "count"]
      BY <1>3, <2>6 DEF PressSets
    <3>2. /\ \A q \in Tasks : q # p => press'[q] = Nothing
          /\ press'[p].num = press[p].num /\ press'[p].act = press[p].act
      BY <2>1, <2>3, <3>1 DEF Typed, TypeOK, Press
    <3>3. \A q \in Tasks : press'[q] # Nothing =>
            /\ q \in Pressers
            /\ press'[q].num = count' + 1 /\ count' < MaxPresses
            /\ press'[q].act \in pressed'[count' + 1]
            /\ press'[q].at = "count" => action' = press'[q].act
      BY <2>1, <2>2, <3>1, <3>2
    <3> QED
      BY <2>1, <2>2, <2>4, <2>5, <3>1, <3>3 DEF PressBooks
  <2>7. CASE press[p].at = "count"
    <3>1. /\ action' = action /\ count' = count + 1
          /\ press' = [press EXCEPT ![p] = Nothing]
      BY <1>3, <2>2, <2>7 DEF PressSets
    <3>2. \A q \in Tasks : press'[q] = Nothing
      BY <2>3, <3>1 DEF Typed, TypeOK
    <3>3. seen' # Nothing => 0 < seen' /\ seen' <= count'
      BY <1>1, <2>1, <3>1 DEF PressBooks, Typed, TypeOK
    <3>4. action' \in pressed'[count']
      BY <2>1, <2>2, <2>7, <3>1
    <3> QED
      BY <2>4, <2>5, <3>1, <3>2, <3>3, <3>4 DEF PressBooks
  <2> QED
    BY <2>1, <2>6, <2>7 DEF Press
<1>4. CASE ReportCount
  BY <1>1, <1>4 DEF ReportCount, PressBooks, PressPaired
<1>5. CASE ReportAction
  <2>1. /\ seen # Nothing /\ seen' = Nothing /\ shown' = [count |-> seen, act |-> action]
        /\ UNCHANGED <<count, action, press, pressed>>
    BY <1>5 DEF ReportAction
  <2>2. 0 < seen /\ seen <= count /\ seen \in 0..MaxPresses
    BY <2>1 DEF PressBooks, Typed, TypeOK
  <2>3. PICK n \in count..MaxPresses : action \in pressed[n]
    BY <1>1, <2>2 DEF PressBooks
  <2>4. n \in seen..MaxPresses
    BY <1>1, <2>2
  <2>5. PressPaired'
    BY <2>1, <2>3, <2>4 DEF PressPaired
  <2> QED
    BY <2>1, <2>5 DEF PressBooks
<1>6. CASE UNCHANGED buttons
  BY <1>6, PressSame
<1> QED
  BY <1>2, <1>3, <1>4, <1>5, <1>6
     DEF Next, vars, Frame, NextOrder, Follow, FrameDone, Drive, Refuse, Commit, AppWrite,
         AppReport, Refresh, Countdown

\* No report pairs a press with an older press's action, if one task records presses.
THEOREM PressPairedHolds ==
  ASSUME \A p, q \in Pressers : p = q
  PROVE  Spec => []PressPaired
<1>1. Init => PressBooks
  BY DEF Init, PressBooks, PressPaired
<1>2. PressBooks => PressPaired
  BY DEF PressBooks
<1>3. Typed /\ PressBooks /\ [Next]_vars => PressBooks'
  BY PressStep
<1> QED
  BY <1>1, <1>2, <1>3, TypedInit, TypedStep, PTL DEF Spec
-----------------------------------------------------------------------------
(***************************************************************************)
(* A repeated frame.  Final is what a frame makes of a store if nobody     *)
(* else writes, in closed form, attribute by attribute; the books below    *)
(* say that at every moment of a frame what is still to come makes of the  *)
(* present store what the whole frame makes of the store it began with.    *)
(***************************************************************************)

Cmd(doc, k) == OrderOf(doc, k).cmd
Arg(doc, k) == OrderOf(doc, k).arg

\* The keys of a frame whose orders, by their places O, the component carries out.
Live(doc, O) == {Keys[i] : i \in {j \in O : Cmd(doc, Keys[j]) \notin Handled}}

\* What a switch asks for.
Switched(doc, s) ==
  CASE Cmd(doc, "switch") = "ON" -> 1
    [] Cmd(doc, "switch") = "TOGGLE" -> 1 - s["on"]
    [] OTHER -> 0

OnFinal(doc, L, s) ==
  IF "brightness" \in L /\ "level" \in Has /\ Clamp(Arg(doc, "brightness"), 254) > 0
  THEN Coerce("on", 1)
  ELSE IF "switch" \in L
  THEN Coerce("on", Switched(doc, s))
  ELSE s["on"]

\* What a cover asks for, unless it is to stop, and a lock.
Covered(doc) == IF Cmd(doc, "cover") = "OPEN" THEN 0 ELSE 100
Locked(doc) == IF Cmd(doc, "lock") = "LOCK" THEN 1 ELSE 0

PositionFinal(doc, L, s) ==
  IF "cover" \in L /\ Cmd(doc, "cover") # "STOP"
  THEN Coerce("position", Covered(doc))
  ELSE IF "position" \in L THEN Coerce("position", Clamp(Arg(doc, "position"), 100))
  ELSE s["position"]

\* A fan's mode m once its percentage is p.
Fan(m, p) ==
  IF p = 0 /\ m # FanOff THEN Coerce("mode", FanOff)
  ELSE IF p > 0 /\ m = FanOff THEN Coerce("mode", FanOn)
  ELSE m

ModeFinal(doc, L, s) ==
  LET m == IF "fan_mode" \in L THEN Coerce("mode", Arg(doc, "fan_mode")) ELSE s["mode"] IN
  IF "percentage" \in L /\ "percent" \in Has
  THEN Fan(m, Clamp(Arg(doc, "percentage"), 100)) ELSE m

PercentFinal(doc, L, s) ==
  IF "percentage" \in L THEN Coerce("percent", Clamp(Arg(doc, "percentage"), 100))
  ELSE IF "fan_mode" \in L /\ "mode" \in Has /\ Arg(doc, "fan_mode") = FanOff
  THEN Coerce("percent", 0)
  ELSE s["percent"]

SystemFinal(doc, L, s) ==
  IF "hvac_mode" \in L THEN Coerce("system", Arg(doc, "hvac_mode")) ELSE s["system"]

Cools(doc, L, s) == "system" \in Has /\ SystemFinal(doc, L, s) = Cool

HeatFinal(doc, L, s) ==
  IF "set_heating" \in L THEN Coerce("heat", Arg(doc, "set_heating"))
  ELSE IF "target_temperature" \in L /\ ~Cools(doc, L, s)
  THEN Coerce("heat", Arg(doc, "target_temperature"))
  ELSE s["heat"]

CoolFinal(doc, L, s) ==
  IF "set_cooling" \in L THEN Coerce("cool", Arg(doc, "set_cooling"))
  ELSE IF "target_temperature" \in L /\ Cools(doc, L, s)
  THEN Coerce("cool", Arg(doc, "target_temperature"))
  ELSE s["cool"]

\* The keys L are the last to write the other attributes.
Final(doc, L, s) ==
  [a \in Has |->
     CASE a = "on"       -> OnFinal(doc, L, s)
       [] a = "position" -> PositionFinal(doc, L, s)
       [] a = "mode"     -> ModeFinal(doc, L, s)
       [] a = "percent"  -> PercentFinal(doc, L, s)
       [] a = "system"   -> SystemFinal(doc, L, s)
       [] a = "heat"     -> HeatFinal(doc, L, s)
       [] a = "cool"     -> CoolFinal(doc, L, s)
       [] a = "level" /\ "brightness" \in L ->
            Coerce("level", Clamp(Arg(doc, "brightness"), 254))
       [] a = "ct" /\ "color_temp" \in L -> Coerce("ct", Arg(doc, "color_temp"))
       [] a = "lock" /\ "lock" \in L -> Coerce("lock", Locked(doc))
       [] a = "identify" /\ "identify" \in L -> Coerce("identify", Arg(doc, "identify"))
       [] OTHER -> s[a]]

\* The store once the write under way is committed, ...
Mid == IF job["en2m"] = Nothing THEN slot
       ELSE [slot EXCEPT ![job["en2m"].attr] = job["en2m"].val]

\* ... a value in it, if the device has the attribute, ...
Put(s, a, v) == IF a \in Has THEN [s EXCEPT ![a] = Coerce(a, v)] ELSE s

\* ... the second write of an order, ...
After(o, s) == Put(s, Second(o, s)[1], Second(o, s)[2])

\* ... a whole order, ...
Done(o, s) ==
  IF Target(o, s) \in Has THEN After(o, Put(s, Target(o, s), Asked(o, s))) ELSE s

\* ... and the store once the order under way is carried out.
Due == IF order = Nothing THEN Mid ELSE After(order, Mid)

Outcome(doc, s) == Final(doc, Live(doc, Decode(doc)), s)

RepeatBooks ==
  /\ job["app"] # Nothing => last = Nothing /\ (frame # Nothing => ~calm)
  /\ frame = Nothing => order = Nothing
  /\ last # Nothing => \E s \in [Has -> Int] : last.slot = Outcome(last.doc, s)
  /\ frame = Nothing /\ last # Nothing => slot = last.slot /\ Mid = last.slot
  /\ frame # Nothing /\ calm =>
       \E s \in [Has -> Int] :
         /\ Final(frame, Live(frame, orders), Due) = Outcome(frame, s)
         /\ last # Nothing => s = last.slot

-----------------------------------------------------------------------------
(* What one order does to a store, key by key. *)

LEMMA NoneForeign == "none" \notin Has /\ \A s, v : Put(s, "none", v) = s
BY ControlAssumption DEF Attrs, Put

\* A function on the attributes the device has.
Store(s) == DOMAIN s = Has

LEMMA PutAt ==
  ASSUME NEW s, Store(s), NEW a, NEW v
  PROVE  /\ Store(Put(s, a, v))
         /\ \A b \in Has : Put(s, a, v)[b] = IF b = a THEN Coerce(a, v) ELSE s[b]
BY DEF Put, Store

\* An order of one write.
LEMMA DoneOne ==
  ASSUME NEW o, NEW s, \A t : Second(o, t)[1] = "none"
  PROVE  Done(o, s) = Put(s, Target(o, s), Asked(o, s))
BY NoneForeign DEF Done, After, Put

LEMMA DoneSwitch ==
  ASSUME NEW doc, NEW s
  PROVE  Done(OrderOf(doc, "switch"), s) = Put(s, "on", Switched(doc, s))
<1> DEFINE o == OrderOf(doc, "switch")
<1>1. o.cmd \in {"ON", "OFF", "TOGGLE"}
  BY DEF OrderOf
<1>2. Cmd(doc, "switch") = o.cmd
  BY DEF Cmd
<1> HIDE DEF o
<1>3. Target(o, s) = "on" /\ \A t : Second(o, t)[1] = "none"
  BY <1>1 DEF Target, Second
<1>4. Asked(o, s) = Switched(doc, s)
  BY <1>1, <1>2 DEF Asked, Switched
<1>5. Done(o, s) = Put(s, "on", Switched(doc, s))
  BY <1>3, <1>4, DoneOne
<1> QED
  BY <1>5 DEF o

LEMMA DoneCover ==
  ASSUME NEW doc, NEW s
  PROVE  Done(OrderOf(doc, "cover"), s) =
           IF Cmd(doc, "cover") = "STOP" THEN s
           ELSE Put(s, "position", Covered(doc))
<1> DEFINE o == OrderOf(doc, "cover")
<1>1. o.cmd \in {"OPEN", "CLOSE", "STOP"}
  BY DEF OrderOf
<1>2. Cmd(doc, "cover") = o.cmd
  BY DEF Cmd
<1> HIDE DEF o
<1>3. \A t : Second(o, t)[1] = "none"
  BY <1>1 DEF Second
<1>4. o.cmd = "OPEN" => Done(o, s) = Put(s, "position", 0)
  BY <1>3, DoneOne DEF Target, Asked
<1>5. o.cmd = "CLOSE" => Done(o, s) = Put(s, "position", 100)
  BY <1>3, DoneOne DEF Target, Asked
<1>6. o.cmd = "STOP" => Done(o, s) = s
  BY NoneForeign DEF Done, Target
<1> QED
  BY <1>1, <1>2, <1>4, <1>5, <1>6 DEF o, Covered

LEMMA DoneLock ==
  ASSUME NEW doc, NEW s
  PROVE  Done(OrderOf(doc, "lock"), s) =
           Put(s, "lock", Locked(doc))
<1> DEFINE o == OrderOf(doc, "lock")
<1>1. o.cmd \in {"LOCK", "UNLOCK"}
  BY DEF OrderOf
<1>2. Cmd(doc, "lock") = o.cmd
  BY DEF Cmd
<1> HIDE DEF o
<1>3. Target(o, s) = "lock" /\ \A t : Second(o, t)[1] = "none"
  BY <1>1 DEF Target, Second
<1>4. Asked(o, s) = Locked(doc)
  BY <1>1, <1>2 DEF Asked, Locked
<1>5. Done(o, s) = Put(s, "lock", Locked(doc))
  BY <1>3, <1>4, DoneOne
<1> QED
  BY <1>5 DEF o

\* The keys that name their commands.
LEMMA NamedOrder ==
  ASSUME NEW doc, NEW k \in {"brightness", "color_temp", "position", "fan_mode",
           "percentage", "hvac_mode", "target_temperature", "identify", "set_heating",
           "set_cooling"}
  PROVE  OrderOf(doc, k).cmd = k /\ OrderOf(doc, k).arg = Arg(doc, k)
<1>1. OrderOf(doc, k).cmd = k
  BY DEF OrderOf
<1> QED
  BY <1>1 DEF Arg

LEMMA DoneBrightness ==
  ASSUME NEW doc, NEW s
  PROVE  LET v == Clamp(Arg(doc, "brightness"), 254)
             t == Put(s, "level", v)
         IN  Done(OrderOf(doc, "brightness"), s) =
               IF "level" \notin Has THEN s ELSE IF v > 0 THEN Put(t, "on", 1) ELSE t
<1> DEFINE o == OrderOf(doc, "brightness")
           v == Clamp(Arg(doc, "brightness"), 254)
           t == Put(s, "level", v)
<1>1. o.cmd = "brightness" /\ o.arg = Arg(doc, "brightness")
  BY NamedOrder
<1> HIDE DEF o
<1>2. Target(o, s) = "level" /\ \A u : Asked(o, u) = v
  BY <1>1 DEF Target, Asked
<1>3. Second(o, t) = IF v > 0 THEN <<"on", 1>> ELSE <<"none", 0>>
  BY <1>1, <1>2 DEF Second
<1>4. Done(o, s) = IF "level" \notin Has THEN s ELSE After(o, t)
  BY <1>2 DEF Done
<1> HIDE DEF v, t
<1>5. After(o, t) = IF v > 0 THEN Put(t, "on", 1) ELSE t
  BY <1>3, NoneForeign DEF After
<1> QED
  BY <1>4, <1>5 DEF o, v, t

LEMMA DoneFanMode ==
  ASSUME NEW doc, NEW s
  PROVE  LET v == Arg(doc, "fan_mode")
             t == Put(s, "mode", v)
         IN  Done(OrderOf(doc, "fan_mode"), s) =
               IF "mode" \notin Has THEN s
               ELSE IF v = FanOff THEN Put(t, "percent", 0) ELSE t
<1> DEFINE o == OrderOf(doc, "fan_mode")
           v == Arg(doc, "fan_mode")
           t == Put(s, "mode", v)
<1>1. o.cmd = "fan_mode" /\ o.arg = Arg(doc, "fan_mode")
  BY NamedOrder
<1> HIDE DEF o
<1>2. Target(o, s) = "mode" /\ \A u : Asked(o, u) = v
  BY <1>1 DEF Target, Asked
<1>3. Second(o, t) = IF v = FanOff THEN <<"percent", 0>> ELSE <<"none", 0>>
  BY <1>1, <1>2 DEF Second
<1>4. Done(o, s) = IF "mode" \notin Has THEN s ELSE After(o, t)
  BY <1>2 DEF Done
<1> HIDE DEF v, t
<1>5. After(o, t) = IF v = FanOff THEN Put(t, "percent", 0) ELSE t
  BY <1>3, NoneForeign DEF After
<1> QED
  BY <1>4, <1>5 DEF o, v, t

LEMMA DonePercentage ==
  ASSUME NEW doc, NEW s, Store(s)
  PROVE  LET v == Clamp(Arg(doc, "percentage"), 100)
             t == Put(s, "percent", v)
         IN  Done(OrderOf(doc, "percentage"), s) =
               IF "percent" \notin Has THEN s
               ELSE IF "mode" \notin Has THEN t
               ELSE IF v = 0 /\ s["mode"] # FanOff THEN Put(t, "mode", FanOff)
               ELSE IF v > 0 /\ s["mode"] = FanOff THEN Put(t, "mode", FanOn)
               ELSE t
<1> DEFINE o == OrderOf(doc, "percentage")
           v == Clamp(Arg(doc, "percentage"), 100)
           t == Put(s, "percent", v)
<1>1. o.cmd = "percentage" /\ o.arg = Arg(doc, "percentage")
  BY NamedOrder
<1> HIDE DEF o
<1>2. Target(o, s) = "percent" /\ \A u : Asked(o, u) = v
  BY <1>1 DEF Target, Asked
<1>3. Second(o, t) =
        IF "mode" \notin Has THEN <<"none", 0>>
        ELSE IF v = 0 /\ t["mode"] # FanOff THEN <<"mode", FanOff>>
        ELSE IF v > 0 /\ t["mode"] = FanOff THEN <<"mode", FanOn>>
        ELSE <<"none", 0>>
  BY <1>1, <1>2 DEF Second
<1>4. "mode" \in Has => t["mode"] = s["mode"]
  BY PutAt
<1>5. Done(o, s) = IF "percent" \notin Has THEN s ELSE After(o, t)
  BY <1>2 DEF Done
<1> HIDE DEF v, t
<1>6. After(o, t) = IF "mode" \notin Has THEN t
                    ELSE IF v = 0 /\ s["mode"] # FanOff THEN Put(t, "mode", FanOff)
                    ELSE IF v > 0 /\ s["mode"] = FanOff THEN Put(t, "mode", FanOn)
                    ELSE t
  BY <1>3, <1>4, NoneForeign DEF After
<1> QED
  BY <1>5, <1>6 DEF o, v, t

LEMMA DoneTemperature ==
  ASSUME NEW doc, NEW s
  PROVE  Done(OrderOf(doc, "target_temperature"), s) =
           Put(s, IF "system" \in Has /\ s["system"] = Cool THEN "cool" ELSE "heat",
               Arg(doc, "target_temperature"))
<1> DEFINE o == OrderOf(doc, "target_temperature")
           a == IF "system" \in Has /\ s["system"] = Cool THEN "cool" ELSE "heat"
<1>1. o.cmd = "target_temperature" /\ o.arg = Arg(doc, "target_temperature")
  BY NamedOrder
<1> HIDE DEF o
<1>2. Target(o, s) = a /\ Asked(o, s) = Arg(doc, "target_temperature")
  BY <1>1 DEF Target, Asked
<1>3. \A t : Second(o, t)[1] = "none"
  BY <1>1 DEF Second
<1> HIDE DEF a
<1>4. Done(o, s) = Put(s, a, Arg(doc, "target_temperature"))
  BY <1>2, <1>3, DoneOne
<1> QED
  BY <1>4 DEF o, a

\* The keys whose commands write one attribute, always the same.
Simple == [color_temp |-> "ct", position |-> "position", hvac_mode |-> "system",
           identify |-> "identify", set_heating |-> "heat", set_cooling |-> "cool"]

LEMMA DoneSimple ==
  ASSUME NEW doc, NEW s, NEW k \in DOMAIN Simple
  PROVE  Done(OrderOf(doc, k), s) =
           Put(s, Simple[k],
               IF k = "position" THEN Clamp(Arg(doc, k), 100) ELSE Arg(doc, k))
<1> DEFINE o == OrderOf(doc, k)
           v == IF k = "position" THEN Clamp(Arg(doc, k), 100) ELSE Arg(doc, k)
<1>1. k \in {"color_temp", "position", "hvac_mode", "identify", "set_heating", "set_cooling"}
  BY DEF Simple
<1>2. o.cmd = k /\ o.arg = Arg(doc, k)
  BY <1>1, NamedOrder
<1> HIDE DEF o
<1>3. Target(o, s) = Simple[k] /\ Asked(o, s) = v
  BY <1>1, <1>2 DEF Target, Asked, Simple
<1>4. \A t : Second(o, t)[1] = "none"
  BY <1>1, <1>2 DEF Second
<1> HIDE DEF v
<1>5. Done(o, s) = Put(s, Simple[k], v)
  BY <1>3, <1>4, DoneOne
<1> QED
  BY <1>5 DEF o, v

-----------------------------------------------------------------------------
(* The first of the orders left, and the rest. *)

\* The keys to be carried out before a key, if a frame has them.
Earlier(k) ==
  CASE k = "brightness"         -> {"switch"}
    [] k = "cover"              -> {"position"}
    [] k = "percentage"         -> {"fan_mode"}
    [] k = "target_temperature" -> {"hvac_mode"}
    [] k \in {"set_heating", "set_cooling"} -> {"target_temperature"}
    [] OTHER                    -> {}

LEMMA FinalSame ==
  ASSUME NEW doc, NEW L, NEW M, NEW s, NEW t,
         \A a \in Has : Final(doc, L, s)[a] = Final(doc, M, t)[a]
  PROVE  Final(doc, L, s) = Final(doc, M, t)
BY DEF Final

LEMMA FinalAt ==
  ASSUME NEW doc, NEW L, NEW s, NEW a \in Has
  PROVE  /\ a = "on"       => Final(doc, L, s)[a] = OnFinal(doc, L, s)
         /\ a = "position" => Final(doc, L, s)[a] = PositionFinal(doc, L, s)
         /\ a = "mode"     => Final(doc, L, s)[a] = ModeFinal(doc, L, s)
         /\ a = "percent"  => Final(doc, L, s)[a] = PercentFinal(doc, L, s)
         /\ a = "system"   => Final(doc, L, s)[a] = SystemFinal(doc, L, s)
         /\ a = "heat"     => Final(doc, L, s)[a] = HeatFinal(doc, L, s)
         /\ a = "cool"     => Final(doc, L, s)[a] = CoolFinal(doc, L, s)
         /\ a = "level" /\ "brightness" \in L =>
              Final(doc, L, s)[a] = Coerce("level", Clamp(Arg(doc, "brightness"), 254))
         /\ a = "ct" /\ "color_temp" \in L =>
              Final(doc, L, s)[a] = Coerce("ct", Arg(doc, "color_temp"))
         /\ a = "lock" /\ "lock" \in L =>
              Final(doc, L, s)[a] = Coerce("lock", Locked(doc))
         /\ a = "identify" /\ "identify" \in L =>
              Final(doc, L, s)[a] = Coerce("identify", Arg(doc, "identify"))
         /\ \/ a = "level" /\ "brightness" \notin L
            \/ a = "ct" /\ "color_temp" \notin L
            \/ a = "lock" /\ "lock" \notin L
            \/ a = "identify" /\ "identify" \notin L
            => Final(doc, L, s)[a] = s[a]
BY DEF Final

\* Every attribute is one of those.
LEMMA AttrCases ==
  ASSUME NEW a \in Has
  PROVE  a \in {"on", "level", "ct", "lock", "position", "mode", "percent", "system", "heat",
                "cool", "identify"}
BY ControlAssumption DEF Attrs

\* The keys and attributes that the value of an attribute depends on.
KeysOf(a) ==
  CASE a = "on"                  -> {"switch", "brightness"}
    [] a = "position"            -> {"cover", "position"}
    [] a \in {"mode", "percent"} -> {"fan_mode", "percentage"}
    [] a = "system"              -> {"hvac_mode"}
    [] a = "heat"                -> {"hvac_mode", "target_temperature", "set_heating"}
    [] a = "cool"                -> {"hvac_mode", "target_temperature", "set_cooling"}
    [] a = "level"               -> {"brightness"}
    [] a = "ct"                  -> {"color_temp"}
    [] OTHER                     -> {a}

LEMMA FinalKept ==
  ASSUME NEW doc, NEW L, NEW k, NEW s, NEW t, NEW a \in Has,
         k \notin KeysOf(a),
         t[a] = s[a],
         a \in {"heat", "cool"} /\ "system" \in Has => t["system"] = s["system"]
  PROVE  Final(doc, L, s)[a] = Final(doc, L \ {k}, t)[a]
<1> DEFINE M == L \ {k}
<1>0. \A x \in KeysOf(a) : x \in M <=> x \in L
  OBVIOUS
<1> HIDE DEF M
<1>1. CASE a = "on"
  BY <1>0, <1>1, FinalAt DEF KeysOf, OnFinal, Switched
<1>2. CASE a = "position"
  BY <1>0, <1>2, FinalAt DEF KeysOf, PositionFinal
<1>3. CASE a = "mode"
  BY <1>0, <1>3, FinalAt DEF KeysOf, ModeFinal
<1>4. CASE a = "percent"
  BY <1>0, <1>4, FinalAt DEF KeysOf, PercentFinal
<1>5. CASE a = "system"
  BY <1>0, <1>5, FinalAt DEF KeysOf, SystemFinal
<1>6. CASE a = "heat"
  BY <1>0, <1>6, FinalAt DEF KeysOf, HeatFinal, Cools, SystemFinal
<1>7. CASE a = "cool"
  BY <1>0, <1>7, FinalAt DEF KeysOf, CoolFinal, Cools, SystemFinal
<1>8. CASE a \in {"level", "ct", "lock", "identify"}
  BY <1>0, <1>8, FinalAt DEF KeysOf
<1> QED
  BY <1>1, <1>2, <1>3, <1>4, <1>5, <1>6, <1>7, <1>8, AttrCases DEF M

LEMMA PeelSwitch ==
  ASSUME NEW doc, NEW L, "switch" \in L, NEW s, Store(s)
  PROVE  Final(doc, L, s) = Final(doc, L \ {"switch"}, Done(OrderOf(doc, "switch"), s))
<1> DEFINE M == L \ {"switch"}
           t == Done(OrderOf(doc, "switch"), s)
<1>2. \A b \in Has : t[b] = IF b = "on" THEN Coerce("on", Switched(doc, s)) ELSE s[b]
  BY DoneSwitch, PutAt
<1>3. \A x : x \in M <=> x \in L /\ x # "switch"
  OBVIOUS
<1> HIDE DEF M, t
<1>4. "on" \in Has => Final(doc, L, s)["on"] = Final(doc, M, t)["on"]
  BY <1>2, <1>3, FinalAt DEF OnFinal
<1>5. ASSUME NEW a \in Has, a \notin {"on"}
     PROVE  Final(doc, L, s)[a] = Final(doc, M, t)[a]
  <2>1. "switch" \notin KeysOf(a)
    BY <1>5, AttrCases DEF KeysOf
  <2>2. t[a] = s[a] /\ (a \in {"heat", "cool"} /\ "system" \in Has => t["system"] = s["system"])
    BY <1>2, <1>5
  <2> QED
    BY <2>1, <2>2, FinalKept DEF M
<1> QED
  BY <1>4, <1>5, FinalSame DEF M, t

LEMMA PeelCover ==
  ASSUME NEW doc, NEW L, "cover" \in L, "position" \notin L, NEW s, Store(s)
  PROVE  Final(doc, L, s) = Final(doc, L \ {"cover"}, Done(OrderOf(doc, "cover"), s))
<1> DEFINE M == L \ {"cover"}
           t == Done(OrderOf(doc, "cover"), s)
<1>2. \A b \in Has :
        t[b] = IF b = "position" /\ Cmd(doc, "cover") # "STOP"
               THEN Coerce("position", Covered(doc)) ELSE s[b]
  <2>1. t = IF Cmd(doc, "cover") = "STOP" THEN s ELSE Put(s, "position", Covered(doc))
    BY DoneCover
  <2> HIDE DEF t
  <2> QED
    BY <2>1, PutAt
<1>3. \A x : x \in M <=> x \in L /\ x # "cover"
  OBVIOUS
<1> HIDE DEF M, t
<1>4. "position" \in Has => Final(doc, L, s)["position"] = Final(doc, M, t)["position"]
  BY <1>2, <1>3, FinalAt DEF PositionFinal
<1>5. ASSUME NEW a \in Has, a \notin {"position"}
     PROVE  Final(doc, L, s)[a] = Final(doc, M, t)[a]
  <2>1. "cover" \notin KeysOf(a)
    BY <1>5, AttrCases DEF KeysOf
  <2>2. t[a] = s[a] /\ (a \in {"heat", "cool"} /\ "system" \in Has => t["system"] = s["system"])
    BY <1>2, <1>5
  <2> QED
    BY <2>1, <2>2, FinalKept DEF M
<1> QED
  BY <1>4, <1>5, FinalSame DEF M, t

LEMMA PeelLock ==
  ASSUME NEW doc, NEW L, "lock" \in L, NEW s, Store(s)
  PROVE  Final(doc, L, s) = Final(doc, L \ {"lock"}, Done(OrderOf(doc, "lock"), s))
<1> DEFINE M == L \ {"lock"}
           t == Done(OrderOf(doc, "lock"), s)
<1>2. \A b \in Has : t[b] = IF b = "lock" THEN Coerce("lock", Locked(doc)) ELSE s[b]
  BY DoneLock, PutAt
<1>3. \A x : x \in M <=> x \in L /\ x # "lock"
  OBVIOUS
<1> HIDE DEF M, t
<1>4. "lock" \in Has => Final(doc, L, s)["lock"] = Final(doc, M, t)["lock"]
  BY <1>2, <1>3, FinalAt
<1>5. ASSUME NEW a \in Has, a \notin {"lock"}
     PROVE  Final(doc, L, s)[a] = Final(doc, M, t)[a]
  <2>1. "lock" \notin KeysOf(a)
    BY <1>5, AttrCases DEF KeysOf
  <2>2. t[a] = s[a] /\ (a \in {"heat", "cool"} /\ "system" \in Has => t["system"] = s["system"])
    BY <1>2, <1>5
  <2> QED
    BY <2>1, <2>2, FinalKept DEF M
<1> QED
  BY <1>4, <1>5, FinalSame DEF M, t

LEMMA PeelBrightness ==
  ASSUME NEW doc, NEW L, "brightness" \in L, "switch" \notin L, NEW s, Store(s)
  PROVE  Final(doc, L, s) = Final(doc, L \ {"brightness"}, Done(OrderOf(doc, "brightness"), s))
<1> DEFINE M == L \ {"brightness"}
           t == Done(OrderOf(doc, "brightness"), s)
<1> DEFINE v == Clamp(Arg(doc, "brightness"), 254)
           u == Put(s, "level", v)
<1>1. t = IF "level" \notin Has THEN s ELSE IF v > 0 THEN Put(u, "on", 1) ELSE u
  BY DoneBrightness
<1>2. \A b \in Has :
        t[b] = IF b = "level" THEN Coerce("level", v)
               ELSE IF b = "on" /\ "level" \in Has /\ v > 0 THEN Coerce("on", 1)
               ELSE s[b]
  <2>1. Store(u)
    BY PutAt
  <2>2. \A b \in Has : u[b] = IF b = "level" THEN Coerce("level", v) ELSE s[b]
    BY PutAt
  <2> HIDE DEF t, u, v
  <2>3. \A b \in Has : Put(u, "on", 1)[b] = IF b = "on" THEN Coerce("on", 1) ELSE u[b]
    BY <2>1, PutAt
  <2> QED
    BY <1>1, <2>2, <2>3
<1>3. \A x : x \in M <=> x \in L /\ x # "brightness"
  OBVIOUS
<1> HIDE DEF M, t
<1>4. "on" \in Has => Final(doc, L, s)["on"] = Final(doc, M, t)["on"]
  BY <1>2, <1>3, FinalAt DEF OnFinal
<1>5. "level" \in Has => Final(doc, L, s)["level"] = Final(doc, M, t)["level"]
  BY <1>2, <1>3, FinalAt
<1>6. ASSUME NEW a \in Has, a \notin {"on", "level"}
     PROVE  Final(doc, L, s)[a] = Final(doc, M, t)[a]
  <2>1. "brightness" \notin KeysOf(a)
    BY <1>6, AttrCases DEF KeysOf
  <2>2. t[a] = s[a] /\ (a \in {"heat", "cool"} /\ "system" \in Has => t["system"] = s["system"])
    BY <1>2, <1>6
  <2> QED
    BY <2>1, <2>2, FinalKept DEF M
<1> QED
  BY <1>4, <1>5, <1>6, FinalSame DEF M, t

LEMMA PeelFanMode ==
  ASSUME NEW doc, NEW L, "fan_mode" \in L, NEW s, Store(s)
  PROVE  Final(doc, L, s) = Final(doc, L \ {"fan_mode"}, Done(OrderOf(doc, "fan_mode"), s))
<1> DEFINE M == L \ {"fan_mode"}
           t == Done(OrderOf(doc, "fan_mode"), s)
<1> DEFINE v == Arg(doc, "fan_mode")
           u == Put(s, "mode", v)
<1>1. t = IF "mode" \notin Has THEN s ELSE IF v = FanOff THEN Put(u, "percent", 0) ELSE u
  BY DoneFanMode
<1>2. \A b \in Has :
        t[b] = IF b = "mode" THEN Coerce("mode", v)
               ELSE IF b = "percent" /\ "mode" \in Has /\ v = FanOff
                    THEN Coerce("percent", 0)
               ELSE s[b]
  <2>1. Store(u)
    BY PutAt
  <2>2. \A b \in Has : u[b] = IF b = "mode" THEN Coerce("mode", v) ELSE s[b]
    BY PutAt
  <2> HIDE DEF t, u, v
  <2>3. \A b \in Has : Put(u, "percent", 0)[b] = IF b = "percent" THEN Coerce("percent", 0) ELSE u[b]
    BY <2>1, PutAt
  <2> QED
    BY <1>1, <2>2, <2>3
<1>3. \A x : x \in M <=> x \in L /\ x # "fan_mode"
  OBVIOUS
<1> HIDE DEF M, t
<1>4. "mode" \in Has => Final(doc, L, s)["mode"] = Final(doc, M, t)["mode"]
  BY <1>2, <1>3, FinalAt DEF ModeFinal, Fan
<1>5. "percent" \in Has => Final(doc, L, s)["percent"] = Final(doc, M, t)["percent"]
  BY <1>2, <1>3, FinalAt DEF PercentFinal
<1>6. ASSUME NEW a \in Has, a \notin {"mode", "percent"}
     PROVE  Final(doc, L, s)[a] = Final(doc, M, t)[a]
  <2>1. "fan_mode" \notin KeysOf(a)
    BY <1>6, AttrCases DEF KeysOf
  <2>2. t[a] = s[a] /\ (a \in {"heat", "cool"} /\ "system" \in Has => t["system"] = s["system"])
    BY <1>2, <1>6
  <2> QED
    BY <2>1, <2>2, FinalKept DEF M
<1> QED
  BY <1>4, <1>5, <1>6, FinalSame DEF M, t

LEMMA PeelPercentage ==
  ASSUME NEW doc, NEW L, "percentage" \in L, "fan_mode" \notin L, NEW s, Store(s)
  PROVE  Final(doc, L, s) = Final(doc, L \ {"percentage"}, Done(OrderOf(doc, "percentage"), s))
<1> DEFINE M == L \ {"percentage"}
           t == Done(OrderOf(doc, "percentage"), s)
<1> DEFINE v == Clamp(Arg(doc, "percentage"), 100)
           u == Put(s, "percent", v)
<1>1. t = IF "percent" \notin Has THEN s
          ELSE IF "mode" \notin Has THEN u
          ELSE IF v = 0 /\ s["mode"] # FanOff THEN Put(u, "mode", FanOff)
          ELSE IF v > 0 /\ s["mode"] = FanOff THEN Put(u, "mode", FanOn)
          ELSE u
  BY DonePercentage
<1>2. \A b \in Has :
        t[b] = IF b = "percent" THEN Coerce("percent", v)
               ELSE IF b = "mode" /\ "percent" \in Has THEN Fan(s["mode"], v)
               ELSE s[b]
  <2>1. Store(u)
    BY PutAt
  <2>2. \A b \in Has : u[b] = IF b = "percent" THEN Coerce("percent", v) ELSE s[b]
    BY PutAt
  <2> HIDE DEF t, u, v
  <2>3. \A m : \A b \in Has : Put(u, "mode", m)[b] = IF b = "mode" THEN Coerce("mode", m) ELSE u[b]
    BY <2>1, PutAt
  <2> QED
    BY <1>1, <2>2, <2>3 DEF Fan
<1>3. \A x : x \in M <=> x \in L /\ x # "percentage"
  OBVIOUS
<1> HIDE DEF M, t
<1>4. "mode" \in Has => Final(doc, L, s)["mode"] = Final(doc, M, t)["mode"]
  BY <1>2, <1>3, FinalAt DEF ModeFinal, Fan
<1>5. "percent" \in Has => Final(doc, L, s)["percent"] = Final(doc, M, t)["percent"]
  BY <1>2, <1>3, FinalAt DEF PercentFinal
<1>6. ASSUME NEW a \in Has, a \notin {"mode", "percent"}
     PROVE  Final(doc, L, s)[a] = Final(doc, M, t)[a]
  <2>1. "percentage" \notin KeysOf(a)
    BY <1>6, AttrCases DEF KeysOf
  <2>2. t[a] = s[a] /\ (a \in {"heat", "cool"} /\ "system" \in Has => t["system"] = s["system"])
    BY <1>2, <1>6
  <2> QED
    BY <2>1, <2>2, FinalKept DEF M
<1> QED
  BY <1>4, <1>5, <1>6, FinalSame DEF M, t

LEMMA PeelTemperature ==
  ASSUME NEW doc, NEW L, "target_temperature" \in L, "hvac_mode" \notin L, NEW s, Store(s)
  PROVE  Final(doc, L, s) = Final(doc, L \ {"target_temperature"}, Done(OrderOf(doc, "target_temperature"), s))
<1> DEFINE M == L \ {"target_temperature"}
           t == Done(OrderOf(doc, "target_temperature"), s)
<1> DEFINE c == IF "system" \in Has /\ s["system"] = Cool THEN "cool" ELSE "heat"
<1>2. \A b \in Has :
        t[b] = IF \/ b = "cool" /\ "system" \in Has /\ s["system"] = Cool
                  \/ b = "heat" /\ ~("system" \in Has /\ s["system"] = Cool)
               THEN Coerce(b, Arg(doc, "target_temperature"))
               ELSE s[b]
  <2>1. t = Put(s, c, Arg(doc, "target_temperature"))
    BY DoneTemperature
  <2> HIDE DEF t, c
  <2>2. \A b \in Has : t[b] = IF b = c THEN Coerce(b, Arg(doc, "target_temperature")) ELSE s[b]
    BY <2>1, PutAt
  <2> QED
    BY <2>2 DEF c
<1>3. \A x : x \in M <=> x \in L /\ x # "target_temperature"
  OBVIOUS
<1> HIDE DEF M, t
<1>4. "heat" \in Has => Final(doc, L, s)["heat"] = Final(doc, M, t)["heat"]
  BY <1>2, <1>3, FinalAt DEF HeatFinal, Cools, SystemFinal
<1>5. "cool" \in Has => Final(doc, L, s)["cool"] = Final(doc, M, t)["cool"]
  BY <1>2, <1>3, FinalAt DEF CoolFinal, Cools, SystemFinal
<1>6. ASSUME NEW a \in Has, a \notin {"heat", "cool"}
     PROVE  Final(doc, L, s)[a] = Final(doc, M, t)[a]
  <2>1. "target_temperature" \notin KeysOf(a)
    BY <1>6, AttrCases DEF KeysOf
  <2>2. t[a] = s[a] /\ (a \in {"heat", "cool"} /\ "system" \in Has => t["system"] = s["system"])
    BY <1>2, <1>6
  <2> QED
    BY <2>1, <2>2, FinalKept DEF M
<1> QED
  BY <1>4, <1>5, <1>6, FinalSame DEF M, t

LEMMA PeelColorTemp ==
  ASSUME NEW doc, NEW L, "color_temp" \in L, NEW s, Store(s)
  PROVE  Final(doc, L, s) = Final(doc, L \ {"color_temp"}, Done(OrderOf(doc, "color_temp"), s))
<1> DEFINE M == L \ {"color_temp"}
           t == Done(OrderOf(doc, "color_temp"), s)
<1>1. t = Put(s, "ct", Arg(doc, "color_temp"))
  BY DoneSimple DEF Simple
<1>2. \A b \in Has : t[b] = IF b = "ct" THEN Coerce("ct", Arg(doc, "color_temp")) ELSE s[b]
  <2> HIDE DEF t
  <2> QED
    BY <1>1, PutAt
<1>3. \A x : x \in M <=> x \in L /\ x # "color_temp"
  OBVIOUS
<1> HIDE DEF M, t
<1>4. "ct" \in Has => Final(doc, L, s)["ct"] = Final(doc, M, t)["ct"]
  BY <1>2, <1>3, FinalAt
<1>5. ASSUME NEW a \in Has, a \notin {"ct"}
     PROVE  Final(doc, L, s)[a] = Final(doc, M, t)[a]
  <2>1. "color_temp" \notin KeysOf(a)
    BY <1>5, AttrCases DEF KeysOf
  <2>2. t[a] = s[a] /\ (a \in {"heat", "cool"} /\ "system" \in Has => t["system"] = s["system"])
    BY <1>2, <1>5
  <2> QED
    BY <2>1, <2>2, FinalKept DEF M
<1> QED
  BY <1>4, <1>5, FinalSame DEF M, t

LEMMA PeelPosition ==
  ASSUME NEW doc, NEW L, "position" \in L, NEW s, Store(s)
  PROVE  Final(doc, L, s) = Final(doc, L \ {"position"}, Done(OrderOf(doc, "position"), s))
<1> DEFINE M == L \ {"position"}
           t == Done(OrderOf(doc, "position"), s)
<1>1. t = Put(s, "position", Clamp(Arg(doc, "position"), 100))
  BY DoneSimple DEF Simple
<1>2. \A b \in Has : t[b] = IF b = "position" THEN Coerce("position", Clamp(Arg(doc, "position"), 100)) ELSE s[b]
  <2> HIDE DEF t
  <2> QED
    BY <1>1, PutAt
<1>3. \A x : x \in M <=> x \in L /\ x # "position"
  OBVIOUS
<1> HIDE DEF M, t
<1>4. "position" \in Has => Final(doc, L, s)["position"] = Final(doc, M, t)["position"]
  BY <1>2, <1>3, FinalAt DEF PositionFinal
<1>5. ASSUME NEW a \in Has, a \notin {"position"}
     PROVE  Final(doc, L, s)[a] = Final(doc, M, t)[a]
  <2>1. "position" \notin KeysOf(a)
    BY <1>5, AttrCases DEF KeysOf
  <2>2. t[a] = s[a] /\ (a \in {"heat", "cool"} /\ "system" \in Has => t["system"] = s["system"])
    BY <1>2, <1>5
  <2> QED
    BY <2>1, <2>2, FinalKept DEF M
<1> QED
  BY <1>4, <1>5, FinalSame DEF M, t

LEMMA PeelHvac ==
  ASSUME NEW doc, NEW L, "hvac_mode" \in L, NEW s, Store(s)
  PROVE  Final(doc, L, s) = Final(doc, L \ {"hvac_mode"}, Done(OrderOf(doc, "hvac_mode"), s))
<1> DEFINE M == L \ {"hvac_mode"}
           t == Done(OrderOf(doc, "hvac_mode"), s)
<1>1. t = Put(s, "system", Arg(doc, "hvac_mode"))
  BY DoneSimple DEF Simple
<1>2. \A b \in Has : t[b] = IF b = "system" THEN Coerce("system", Arg(doc, "hvac_mode")) ELSE s[b]
  <2> HIDE DEF t
  <2> QED
    BY <1>1, PutAt
<1>3. \A x : x \in M <=> x \in L /\ x # "hvac_mode"
  OBVIOUS
<1> HIDE DEF M, t
<1>4. "system" \in Has => Final(doc, L, s)["system"] = Final(doc, M, t)["system"]
  BY <1>2, <1>3, FinalAt DEF SystemFinal
<1>5. "heat" \in Has => Final(doc, L, s)["heat"] = Final(doc, M, t)["heat"]
  BY <1>2, <1>3, FinalAt DEF HeatFinal, Cools, SystemFinal
<1>6. "cool" \in Has => Final(doc, L, s)["cool"] = Final(doc, M, t)["cool"]
  BY <1>2, <1>3, FinalAt DEF CoolFinal, Cools, SystemFinal
<1>7. ASSUME NEW a \in Has, a \notin {"system", "heat", "cool"}
     PROVE  Final(doc, L, s)[a] = Final(doc, M, t)[a]
  <2>1. "hvac_mode" \notin KeysOf(a)
    BY <1>7, AttrCases DEF KeysOf
  <2>2. t[a] = s[a] /\ (a \in {"heat", "cool"} /\ "system" \in Has => t["system"] = s["system"])
    BY <1>2, <1>7, <2>1 DEF KeysOf
  <2> QED
    BY <2>1, <2>2, FinalKept DEF M
<1> QED
  BY <1>4, <1>5, <1>6, <1>7, FinalSame DEF M, t

LEMMA PeelIdentify ==
  ASSUME NEW doc, NEW L, "identify" \in L, NEW s, Store(s)
  PROVE  Final(doc, L, s) = Final(doc, L \ {"identify"}, Done(OrderOf(doc, "identify"), s))
<1> DEFINE M == L \ {"identify"}
           t == Done(OrderOf(doc, "identify"), s)
<1>1. t = Put(s, "identify", Arg(doc, "identify"))
  BY DoneSimple DEF Simple
<1>2. \A b \in Has : t[b] = IF b = "identify" THEN Coerce("identify", Arg(doc, "identify")) ELSE s[b]
  <2> HIDE DEF t
  <2> QED
    BY <1>1, PutAt
<1>3. \A x : x \in M <=> x \in L /\ x # "identify"
  OBVIOUS
<1> HIDE DEF M, t
<1>4. "identify" \in Has => Final(doc, L, s)["identify"] = Final(doc, M, t)["identify"]
  BY <1>2, <1>3, FinalAt
<1>5. ASSUME NEW a \in Has, a \notin {"identify"}
     PROVE  Final(doc, L, s)[a] = Final(doc, M, t)[a]
  <2>1. "identify" \notin KeysOf(a)
    BY <1>5, AttrCases DEF KeysOf
  <2>2. t[a] = s[a] /\ (a \in {"heat", "cool"} /\ "system" \in Has => t["system"] = s["system"])
    BY <1>2, <1>5
  <2> QED
    BY <2>1, <2>2, FinalKept DEF M
<1> QED
  BY <1>4, <1>5, FinalSame DEF M, t

LEMMA PeelHeating ==
  ASSUME NEW doc, NEW L, "set_heating" \in L, "target_temperature" \notin L, NEW s, Store(s)
  PROVE  Final(doc, L, s) = Final(doc, L \ {"set_heating"}, Done(OrderOf(doc, "set_heating"), s))
<1> DEFINE M == L \ {"set_heating"}
           t == Done(OrderOf(doc, "set_heating"), s)
<1>1. t = Put(s, "heat", Arg(doc, "set_heating"))
  BY DoneSimple DEF Simple
<1>2. \A b \in Has : t[b] = IF b = "heat" THEN Coerce("heat", Arg(doc, "set_heating")) ELSE s[b]
  <2> HIDE DEF t
  <2> QED
    BY <1>1, PutAt
<1>3. \A x : x \in M <=> x \in L /\ x # "set_heating"
  OBVIOUS
<1> HIDE DEF M, t
<1>4. "heat" \in Has => Final(doc, L, s)["heat"] = Final(doc, M, t)["heat"]
  BY <1>2, <1>3, FinalAt DEF HeatFinal, Cools, SystemFinal
<1>5. ASSUME NEW a \in Has, a \notin {"heat"}
     PROVE  Final(doc, L, s)[a] = Final(doc, M, t)[a]
  <2>1. "set_heating" \notin KeysOf(a)
    BY <1>5, AttrCases DEF KeysOf
  <2>2. t[a] = s[a] /\ (a \in {"heat", "cool"} /\ "system" \in Has => t["system"] = s["system"])
    BY <1>2, <1>5
  <2> QED
    BY <2>1, <2>2, FinalKept DEF M
<1> QED
  BY <1>4, <1>5, FinalSame DEF M, t

LEMMA PeelCooling ==
  ASSUME NEW doc, NEW L, "set_cooling" \in L, "target_temperature" \notin L, NEW s, Store(s)
  PROVE  Final(doc, L, s) = Final(doc, L \ {"set_cooling"}, Done(OrderOf(doc, "set_cooling"), s))
<1> DEFINE M == L \ {"set_cooling"}
           t == Done(OrderOf(doc, "set_cooling"), s)
<1>1. t = Put(s, "cool", Arg(doc, "set_cooling"))
  BY DoneSimple DEF Simple
<1>2. \A b \in Has : t[b] = IF b = "cool" THEN Coerce("cool", Arg(doc, "set_cooling")) ELSE s[b]
  <2> HIDE DEF t
  <2> QED
    BY <1>1, PutAt
<1>3. \A x : x \in M <=> x \in L /\ x # "set_cooling"
  OBVIOUS
<1> HIDE DEF M, t
<1>4. "cool" \in Has => Final(doc, L, s)["cool"] = Final(doc, M, t)["cool"]
  BY <1>2, <1>3, FinalAt DEF CoolFinal, Cools, SystemFinal
<1>5. ASSUME NEW a \in Has, a \notin {"cool"}
     PROVE  Final(doc, L, s)[a] = Final(doc, M, t)[a]
  <2>1. "set_cooling" \notin KeysOf(a)
    BY <1>5, AttrCases DEF KeysOf
  <2>2. t[a] = s[a] /\ (a \in {"heat", "cool"} /\ "system" \in Has => t["system"] = s["system"])
    BY <1>2, <1>5
  <2> QED
    BY <2>1, <2>2, FinalKept DEF M
<1> QED
  BY <1>4, <1>5, FinalSame DEF M, t

LEMMA PeelKey ==
  ASSUME NEW doc, NEW L, NEW k \in L, NEW i \in DOMAIN Keys, k = Keys[i],
         Earlier(k) \cap L = {}, NEW s, Store(s)
  PROVE  Final(doc, L, s) = Final(doc, L \ {k}, Done(OrderOf(doc, k), s))
<1>1. k \in {"switch", "brightness", "color_temp", "position", "cover", "lock", "fan_mode",
             "percentage", "hvac_mode", "target_temperature", "identify", "set_heating",
             "set_cooling"}
  BY DEF Keys
<1>2. CASE k \in {"switch", "position", "lock", "fan_mode", "color_temp", "hvac_mode", "identify"}
  BY <1>2, PeelSwitch, PeelPosition, PeelLock, PeelFanMode, PeelColorTemp, PeelHvac, PeelIdentify
<1>3. CASE k = "brightness"
  <2>1. "switch" \notin L
    BY <1>3 DEF Earlier
  <2> QED
    BY <1>3, <2>1, PeelBrightness
<1>4. CASE k = "cover"
  <2>1. "position" \notin L
    BY <1>4 DEF Earlier
  <2> QED
    BY <1>4, <2>1, PeelCover
<1>5. CASE k = "percentage"
  <2>1. "fan_mode" \notin L
    BY <1>5 DEF Earlier
  <2> QED
    BY <1>5, <2>1, PeelPercentage
<1>6. CASE k = "target_temperature"
  <2>1. "hvac_mode" \notin L
    BY <1>6 DEF Earlier
  <2> QED
    BY <1>6, <2>1, PeelTemperature
<1>7. CASE k \in {"set_heating", "set_cooling"}
  <2>1. "target_temperature" \notin L
    BY <1>7 DEF Earlier
  <2> QED
    BY <1>7, <2>1, PeelHeating, PeelCooling
<1> QED
  BY <1>1, <1>2, <1>3, <1>4, <1>5, <1>6, <1>7

\* Keys are looked for once each, those that others depend on before those.
LEMMA KeysOrder ==
  ASSUME NEW i \in DOMAIN Keys, NEW j \in DOMAIN Keys
  PROVE  /\ Keys[i] = Keys[j] => i = j
         /\ Keys[j] \in Earlier(Keys[i]) => j < i
<1>1. DOMAIN Keys = 1..13
  BY DEF Keys
<1>2. /\ Keys[1] = "switch" /\ Keys[2] = "brightness" /\ Keys[3] = "color_temp"
      /\ Keys[4] = "position" /\ Keys[5] = "cover" /\ Keys[6] = "lock"
      /\ Keys[7] = "fan_mode" /\ Keys[8] = "percentage" /\ Keys[9] = "hvac_mode"
      /\ Keys[10] = "target_temperature" /\ Keys[11] = "identify"
      /\ Keys[12] = "set_heating" /\ Keys[13] = "set_cooling"
  BY DEF Keys
<1>3. i \in 1..13 /\ j \in 1..13
  BY <1>1
<1>4. Keys[i] = Keys[j] => i = j
  BY <1>2, <1>3
<1>5. Keys[j] \in Earlier(Keys[i]) => j < i
  <2>1. CASE i \in {2, 5, 8, 10, 12, 13}
    BY <1>2, <1>3, <2>1 DEF Earlier
  <2>2. CASE i \notin {2, 5, 8, 10, 12, 13}
    BY <1>2, <1>3, <2>2 DEF Earlier
  <2> QED
    BY <2>1, <2>2
<1> QED
  BY <1>4, <1>5

\* The store after the whole rest, by way of the store after its first order.
LEMMA Peel ==
  ASSUME NEW doc, NEW O, O \subseteq DOMAIN Keys, NEW i \in O, \A j \in O : i <= j,
         NEW s, Store(s)
  PROVE  Final(doc, Live(doc, O), s) =
           Final(doc, Live(doc, O \ {i}),
                 IF Cmd(doc, Keys[i]) \in Handled THEN s
                 ELSE Done(OrderOf(doc, Keys[i]), s))
<1> DEFINE k == Keys[i]
           L == Live(doc, O)
<1>1. CASE Cmd(doc, k) \in Handled
  <2>1. Live(doc, O \ {i}) = L
    BY <1>1 DEF Live
  <2> QED
    BY <1>1, <2>1
<1>2. CASE Cmd(doc, k) \notin Handled
  <2>1. k \in L
    BY <1>2 DEF Live
  <2>2. Live(doc, O \ {i}) = L \ {k}
    <3>1. \A j \in O \ {i} : Keys[j] # k
      BY KeysOrder
    <3> QED
      BY <3>1 DEF Live
  <2>3. Earlier(k) \cap L = {}
    <3>1. ASSUME NEW x \in Earlier(k), x \in L PROVE FALSE
      <4>1. PICK j \in O : x = Keys[j]
        BY <3>1 DEF Live
      <4>2. j < i /\ i <= j
        BY <3>1, <4>1, KeysOrder
      <4>3. i \in Nat /\ j \in Nat
        BY DEF Keys
      <4> QED
        BY <4>2, <4>3
    <3> QED
      BY <3>1
  <2> HIDE DEF L, k
  <2>4. Final(doc, L, s) = Final(doc, L \ {k}, Done(OrderOf(doc, k), s))
    BY <2>1, <2>3, PeelKey DEF k
  <2> QED
    BY <1>2, <2>2, <2>4 DEF L, k
<1> QED
  BY <1>1, <1>2

\* Nothing is left.
LEMMA FinalOver ==
  ASSUME NEW doc, NEW s \in [Has -> Int]
  PROVE  Final(doc, Live(doc, {}), s) = s
<1>1. Live(doc, {}) = {}
  BY DEF Live
<1>2. ASSUME NEW a \in Has PROVE Final(doc, {}, s)[a] = s[a]
  BY FinalAt, AttrCases
     DEF OnFinal, PositionFinal, ModeFinal, PercentFinal, SystemFinal, HeatFinal, CoolFinal
<1>3. Final(doc, {}, s) = [a \in Has |-> Final(doc, {}, s)[a]]
  BY DEF Final
<1> HIDE DEF Final
<1> QED
  BY <1>1, <1>2, <1>3

-----------------------------------------------------------------------------
(* The second time. *)

LEMMA FanTwice == \A m, p : Fan(Fan(m, p), p) = Fan(m, p)
<1>1. Coerce("mode", FanOff) = FanOff /\ Coerce("mode", FanOn) = FanOn /\ FanOn # FanOff
  BY DEF Coerce, U8, FanOff, FanOn
<1> QED
  BY <1>1 DEF Fan

LEMMA OutcomeTwice ==
  ASSUME NEW doc, ~Toggles(doc), NEW s
  PROVE  Outcome(doc, Outcome(doc, s)) = Outcome(doc, s)
<1> DEFINE L == Live(doc, Decode(doc))
           t == Final(doc, L, s)
<1>1. "switch" \in L => Cmd(doc, "switch") # "TOGGLE"
  BY DEF Live, Decode, Toggles, Cmd, OrderOf
<1>2. t = [a \in Has |-> t[a]]
  BY DEF Final
<1>3. Final(doc, L, t) = [a \in Has |-> Final(doc, L, t)[a]]
  BY DEF Final
<1> HIDE DEF L
<1>4. ASSUME NEW a \in Has PROVE Final(doc, L, t)[a] = t[a]
  <2>1. "system" \in Has => SystemFinal(doc, L, t) = SystemFinal(doc, L, s)
    BY FinalAt DEF SystemFinal
  <2>2. Cools(doc, L, t) <=> Cools(doc, L, s)
    BY <2>1 DEF Cools
  <2>3. "on" \in Has => t["on"] = OnFinal(doc, L, s)
    BY FinalAt
  <2>4. "position" \in Has => t["position"] = PositionFinal(doc, L, s)
    BY FinalAt
  <2>5. "mode" \in Has => t["mode"] = ModeFinal(doc, L, s)
    BY FinalAt
  <2>6. "percent" \in Has => t["percent"] = PercentFinal(doc, L, s)
    BY FinalAt
  <2>7. "heat" \in Has => t["heat"] = HeatFinal(doc, L, s)
    BY FinalAt
  <2>8. "cool" \in Has => t["cool"] = CoolFinal(doc, L, s)
    BY FinalAt
  <2>9. CASE a = "on"
    BY <1>1, <2>3, <2>9, FinalAt DEF OnFinal, Switched
  <2>10. CASE a = "position"
    BY <2>4, <2>10, FinalAt DEF PositionFinal
  <2>11. CASE a = "mode"
    BY <2>5, <2>11, FinalAt, FanTwice DEF ModeFinal
  <2>12. CASE a = "percent"
    BY <2>6, <2>12, FinalAt DEF PercentFinal
  <2>13. CASE a = "system"
    BY <2>1, <2>13, FinalAt
  <2>14. CASE a = "heat"
    BY <2>2, <2>7, <2>14, FinalAt DEF HeatFinal
  <2>15. CASE a = "cool"
    BY <2>2, <2>8, <2>15, FinalAt DEF CoolFinal
  <2>16. CASE a \in {"level", "ct", "lock", "identify"}
    BY <2>16, FinalAt
  <2> QED
    BY <2>9, <2>10, <2>11, <2>12, <2>13, <2>14, <2>15, <2>16, AttrCases
<1> HIDE DEF t
<1>5. Final(doc, L, t) = t
  BY <1>2, <1>3, <1>4
<1> QED
  BY <1>5 DEF Outcome, t, L

-----------------------------------------------------------------------------
(* The books are kept. *)

LEMMA MidBegin ==
  ASSUME Typed, NEW a \in Has, NEW v \in Int, NEW f \in {"drive", "commit"},
         Begin("en2m", a, v, f), slot' = slot
  PROVE  Mid' = Put(slot, a, v) /\ job'["app"] = job["app"]
<1> DEFINE w == [at |-> IF a \in Driven THEN f ELSE "commit", attr |-> a,
                 val |-> Coerce(a, v)]
<1>1. w.attr = a /\ w.val = Coerce(a, v) /\ w # Nothing
  <2>1. Coerce(a, v) \in Int
    BY CoerceTwice, HasAttrs
  <2>2. w \in Write
    BY <2>1 DEF Write
  <2> QED
    BY <2>2, NothingAssumption
<1>2. job'["en2m"] = w /\ job'["app"] = job["app"]
  BY DEF Begin, Typed, TypeOK, Tasks
<1> HIDE DEF w
<1> QED
  BY <1>1, <1>2 DEF Mid, Put

LEMMA RepeatSame ==
  ASSUME RepeatBooks, UNCHANGED <<slot, job, frame, orders, order, calm, last>>
  PROVE  RepeatBooks'
BY DEF RepeatBooks, Mid, Due

\* Somebody else writes.
LEMMA RepeatDisturbed ==
  ASSUME RepeatBooks, Disturb, frame' = frame, order' \in {order, Nothing}
  PROVE  RepeatBooks'
BY DEF RepeatBooks, Disturb

LEMMA RepeatFrame ==
  ASSUME Typed, RepeatBooks, NEW doc \in Docs, Frame(doc)
  PROVE  RepeatBooks'
<1>1. /\ frame = Nothing /\ job["en2m"] = Nothing /\ order = Nothing
      /\ frame' = doc /\ orders' = Decode(doc) /\ calm' = (job["app"] = Nothing)
      /\ UNCHANGED <<slot, job, order, last>>
  BY DEF Frame, TaskFree, Idle, RepeatBooks
<1>2. doc # Nothing
  BY ControlAssumption
<1>3. Due' = slot
  BY <1>1 DEF Due, Mid
<1>4. Final(frame', Live(frame', orders'), Due') = Outcome(frame', slot)
  BY <1>1, <1>3 DEF Outcome
<1>5. slot \in [Has -> Int]
  BY DEF Typed, TypeOK
<1>6. last # Nothing => slot = last.slot
  BY <1>1 DEF RepeatBooks
<1>7. \E s \in [Has -> Int] :
        /\ Final(frame', Live(frame', orders'), Due') = Outcome(frame', s)
        /\ last' # Nothing => s = last'.slot
  BY <1>1, <1>4, <1>5, <1>6
<1>8. last' # Nothing => \E s \in [Has -> Int] : last'.slot = Outcome(last'.doc, s)
  BY <1>1 DEF RepeatBooks
<1>9. job'["app"] # Nothing => last' = Nothing /\ ~calm'
  BY <1>1 DEF RepeatBooks
<1> QED
  BY <1>1, <1>2, <1>7, <1>8, <1>9 DEF RepeatBooks

\* A step of the frame: what is still to come makes the same of the store.
LEMMA RepeatWithin ==
  ASSUME RepeatBooks, frame # Nothing,
         UNCHANGED <<frame, calm, last>>, job'["app"] # Nothing => job["app"] # Nothing,
         calm => Final(frame, Live(frame, orders'), Due') = Final(frame, Live(frame, orders), Due)
  PROVE  RepeatBooks'
<1>1. calm => \E s \in [Has -> Int] :
        /\ Final(frame, Live(frame, orders'), Due') = Outcome(frame, s)
        /\ last # Nothing => s = last.slot
  BY DEF RepeatBooks
<1> QED
  BY <1>1 DEF RepeatBooks

LEMMA RepeatNextOrder ==
  ASSUME Typed, RepeatBooks, NextOrder
  PROVE  RepeatBooks'
<1>1. PICK i \in orders :
        LET o == OrderOf(frame, Keys[i]) IN
        /\ \A j \in orders : i <= j
        /\ orders' = orders \ {i}
        /\ \/ Passed(o) /\ UNCHANGED <<job, order, crossed>>
           \/ ~Passed(o) /\ order' = o /\ Begin("en2m", Target(o, slot), Asked(o, slot), "drive")
  BY DEF NextOrder
<1> DEFINE o == OrderOf(frame, Keys[i])
<1>2. /\ UNCHANGED <<slot, frame, calm, last>> /\ order = Nothing /\ job["en2m"] = Nothing
      /\ orders' = orders \ {i}
  BY <1>1 DEF NextOrder, Idle
<1>3. frame \in Docs /\ frame # Nothing /\ i \in Decode(frame) /\ orders \subseteq DOMAIN Keys
  BY ControlAssumption DEF Typed, TypeOK, FrameBooks
<1>4. o \in Order /\ o # Nothing
  BY <1>3, NothingAssumption DEF Order, Decode
<1>5. Store(slot)
  BY DEF Typed, TypeOK, Store
<1>6. Due = slot
  BY <1>2 DEF Due, Mid
<1>7. Final(frame, Live(frame, orders), slot) =
        Final(frame, Live(frame, orders \ {i}),
              IF Cmd(frame, Keys[i]) \in Handled THEN slot ELSE Done(o, slot))
  BY <1>1, <1>3, <1>5, Peel
<1>8. Cmd(frame, Keys[i]) = o.cmd
  BY DEF Cmd
<1> HIDE DEF o
<1>9. CASE Passed(o) /\ UNCHANGED <<job, order>>
  <2>1. Due' = slot
    BY <1>2, <1>9 DEF Due, Mid
  <2>2. (IF o.cmd \in Handled THEN slot ELSE Done(o, slot)) = slot
    BY <1>9 DEF Passed, Done
  <2>3. Final(frame, Live(frame, orders'), Due') = Final(frame, Live(frame, orders), Due)
    BY <1>2, <1>6, <1>7, <1>8, <2>1, <2>2
  <2> QED
    BY <1>2, <1>3, <1>9, <2>3, RepeatWithin
<1>10. CASE ~Passed(o) /\ order' = o /\ Begin("en2m", Target(o, slot), Asked(o, slot), "drive")
  <2>1. Target(o, slot) \in Has /\ o.cmd \notin Handled
    BY <1>10 DEF Passed
  <2>2. Mid' = Put(slot, Target(o, slot), Asked(o, slot)) /\ job'["app"] = job["app"]
    <3>1. Asked(o, slot) \in Int
      BY <1>4, <2>1, AskedInt DEF Typed, TypeOK
    <3> QED
      BY <1>2, <1>10, <2>1, <3>1, MidBegin
  <2>3. Due' = After(o, Mid')
    BY <1>4, <1>10 DEF Due
  <2>4. Due' = Done(o, slot)
    BY <2>1, <2>2, <2>3 DEF Done
  <2>5. Final(frame, Live(frame, orders'), Due') = Final(frame, Live(frame, orders), Due)
    BY <1>2, <1>6, <1>7, <1>8, <2>1, <2>4
  <2> QED
    BY <1>2, <1>3, <2>2, <2>5, RepeatWithin
<1> QED
  BY <1>1, <1>9, <1>10 DEF o

LEMMA RepeatFollow ==
  ASSUME Typed, RepeatBooks, Follow
  PROVE  RepeatBooks'
<1> DEFINE w == Second(order, slot)
<1>1. /\ UNCHANGED <<slot, frame, orders, calm, last>> /\ order' = Nothing /\ order # Nothing
      /\ job["en2m"] = Nothing
      /\ \/ w[1] \in Has /\ Begin("en2m", w[1], w[2], "drive")
         \/ w[1] \notin Has /\ UNCHANGED <<job, crossed>>
  BY DEF Follow, Idle
<1>2. frame # Nothing
  BY <1>1 DEF RepeatBooks
<1>3. Due = Put(slot, w[1], w[2])
  BY <1>1 DEF Due, Mid, After
<1> HIDE DEF w
<1>4. Due' = Put(slot, w[1], w[2]) /\ job'["app"] = job["app"]
  <2>1. CASE w[1] \in Has /\ Begin("en2m", w[1], w[2], "drive")
    <3>1. w[2] \in Int
      BY SecondInt DEF w
    <3> QED
      BY <1>1, <2>1, <3>1, MidBegin DEF Due
  <2>2. CASE w[1] \notin Has /\ UNCHANGED job
    BY <1>1, <2>2 DEF Due, Mid, Put
  <2> QED
    BY <1>1, <2>1, <2>2
<1> QED
  BY <1>1, <1>2, <1>3, <1>4, RepeatWithin

LEMMA RepeatFrameDone ==
  ASSUME Typed, RepeatBooks, FrameDone
  PROVE  RepeatBooks'
<1>1. /\ frame # Nothing /\ job["en2m"] = Nothing /\ order = Nothing /\ orders = {}
      /\ frame' = Nothing /\ UNCHANGED <<slot, job, order, calm>>
      /\ last' = IF calm THEN [doc |-> frame, slot |-> slot] ELSE Nothing
  BY DEF FrameDone, Carried, Idle
<1>2. slot \in [Has -> Int]
  BY DEF Typed, TypeOK
<1>3. Due = slot /\ Mid' = slot
  BY <1>1 DEF Due, Mid
<1>4. Final(frame, Live(frame, orders), Due) = slot
  BY <1>1, <1>2, <1>3, FinalOver
<1>5. CASE calm
  <2>1. PICK s \in [Has -> Int] : slot = Outcome(frame, s)
    BY <1>1, <1>4, <1>5 DEF RepeatBooks
  <2>2. last'.slot = slot /\ last'.doc = frame
    BY <1>1, <1>5
  <2>3. job["app"] = Nothing
    BY <1>1, <1>5 DEF RepeatBooks
  <2> QED
    BY <1>1, <1>3, <2>1, <2>2, <2>3 DEF RepeatBooks
<1>6. CASE ~calm
  BY <1>1, <1>6 DEF RepeatBooks
<1> QED
  BY <1>5, <1>6

LEMMA RepeatDrive ==
  ASSUME Typed, RepeatBooks, NEW p \in Tasks, Drive(p)
  PROVE  RepeatBooks'
<1>1. /\ job[p] # Nothing /\ job' = [job EXCEPT ![p].at = "commit"]
      /\ UNCHANGED <<slot, frame, orders, order, calm, last>>
  BY DEF Drive
<1>2. job[p] \in Write /\ job \in [Tasks -> Write \cup {Nothing}]
  BY <1>1 DEF Typed, TypeOK
<1>3. /\ job'[p] # Nothing /\ job'[p].attr = job[p].attr /\ job'[p].val = job[p].val
      /\ \A q \in Tasks : q # p => job'[q] = job[q]
  <2>1. [job[p] EXCEPT !.at = "commit"] \in Write
    BY <1>2 DEF Write
  <2> QED
    BY <1>1, <1>2, <2>1, NothingAssumption DEF Write
<1>4. /\ job'["app"] # Nothing <=> job["app"] # Nothing
      /\ job'["en2m"] # Nothing <=> job["en2m"] # Nothing
      /\ job["en2m"] # Nothing =>
           job'["en2m"].attr = job["en2m"].attr /\ job'["en2m"].val = job["en2m"].val
  BY <1>1, <1>3 DEF Tasks
<1>5. Mid' = Mid
  BY <1>1, <1>4 DEF Mid
<1>6. Due' = Due
  BY <1>1, <1>5 DEF Due
<1> QED
  BY <1>1, <1>4, <1>5, <1>6 DEF RepeatBooks

LEMMA RepeatCommit ==
  ASSUME Typed, RepeatBooks, NEW p \in Tasks, Commit(p)
  PROVE  RepeatBooks'
<1>1. /\ job[p] # Nothing /\ slot' = [slot EXCEPT ![job[p].attr] = job[p].val]
      /\ job' = [job EXCEPT ![p] = Nothing]
      /\ UNCHANGED <<frame, orders, order, calm, last>>
  BY DEF Commit
<1>2. job \in [Tasks -> Write \cup {Nothing}]
  BY DEF Typed, TypeOK
<1>3. CASE p = "en2m"
  <2>1. job'["en2m"] = Nothing /\ job'["app"] = job["app"]
    BY <1>1, <1>2, <1>3 DEF Tasks
  <2>2. slot' = Mid /\ Mid' = slot'
    BY <1>1, <1>3, <2>1 DEF Mid
  <2>3. Due' = Due
    BY <1>1, <2>2 DEF Due
  <2> QED
    BY <1>1, <2>1, <2>2, <2>3 DEF RepeatBooks
<1>4. CASE p = "app"
  <2>1. last' = Nothing /\ (frame' # Nothing => ~calm')
    BY <1>1, <1>4 DEF RepeatBooks
  <2> QED
    BY <1>1, <2>1 DEF RepeatBooks
<1> QED
  BY <1>3, <1>4 DEF Tasks

LEMMA RepeatRefresh ==
  ASSUME Typed, RepeatBooks, NEW a \in Driven, Refresh(a)
  PROVE  RepeatBooks'
<1>1. /\ frame = Nothing /\ job["en2m"] = Nothing /\ Begin("en2m", a, hardware[a], "commit")
      /\ UNCHANGED <<slot, frame, orders, order>>
  BY DEF Refresh, TaskFree, Idle
<1>2. CASE slot[a] = hardware[a] /\ UNCHANGED <<calm, last>>
  <2>1. a \in Has /\ Coerce(a, hardware[a]) = slot[a]
    BY <1>2, HasAttrs DEF Typed, JobsCoerced
  <2>2. Mid' = Put(slot, a, hardware[a]) /\ job'["app"] = job["app"]
    <3>1. hardware[a] \in Int
      BY DEF Typed, TypeOK
    <3> QED
      BY <1>1, <2>1, <3>1, MidBegin
  <2>3. Mid' = slot
    BY <2>1, <2>2 DEF Put, Typed, TypeOK
  <2> QED
    BY <1>1, <1>2, <2>2, <2>3 DEF RepeatBooks
<1>3. CASE Disturb
  BY <1>1, <1>3, RepeatDisturbed
<1> QED
  BY <1>2, <1>3 DEF Refresh

LEMMA RepeatStep == Typed /\ RepeatBooks /\ [Next]_vars => RepeatBooks'
<1> SUFFICES ASSUME Typed, RepeatBooks, [Next]_vars PROVE RepeatBooks'
  OBVIOUS
<1>1. ASSUME NEW doc \in Docs, Frame(doc) PROVE RepeatBooks'
  BY <1>1, RepeatFrame
<1>2. CASE NextOrder \/ Follow \/ FrameDone
  BY <1>2, RepeatNextOrder, RepeatFollow, RepeatFrameDone
<1>3. ASSUME NEW p \in Tasks, Drive(p) PROVE RepeatBooks'
  BY <1>3, RepeatDrive
<1>4. ASSUME NEW p \in Tasks, Refuse(p) PROVE RepeatBooks'
  BY <1>4, RepeatDisturbed DEF Refuse
<1>5. ASSUME NEW p \in Tasks, Commit(p) PROVE RepeatBooks'
  BY <1>5, RepeatCommit
<1>6. ASSUME NEW a \in Touched, NEW v \in AppValues, AppWrite(a, v) \/ AppReport(a, v)
      PROVE  RepeatBooks'
  BY <1>6, RepeatDisturbed DEF AppWrite, AppReport
<1>7. ASSUME NEW a \in Driven, Refresh(a) PROVE RepeatBooks'
  BY <1>7, RepeatRefresh
<1>8. CASE Countdown
  BY <1>8, RepeatDisturbed DEF Countdown
<1>9. ASSUME NEW p \in Tasks, NEW act \in Actions, PressBegins(p, act) PROVE RepeatBooks'
  BY <1>9, RepeatSame DEF PressBegins
<1>10. ASSUME NEW p \in Tasks, PressSets(p) PROVE RepeatBooks'
  BY <1>10, RepeatSame DEF PressSets
<1>11. CASE ReportCount \/ ReportAction
  BY <1>11, RepeatSame DEF ReportCount, ReportAction
<1>12. CASE UNCHANGED vars
  BY <1>12, RepeatSame DEF vars
<1> QED
  BY <1>1, <1>2, <1>3, <1>4, <1>5, <1>6, <1>7, <1>8, <1>9, <1>10, <1>11, <1>12 DEF Next

\* At the end of a frame nothing is left to come, so the store is what the whole frame
\* makes of the store it began with; and a frame makes nothing new of what it has made.
LEMMA RepeatBooksHarmless == Typed /\ RepeatBooks => RepeatHarmless
<1> SUFFICES ASSUME Typed, RepeatBooks, Carried, calm, last # Nothing,
                    last.doc = frame, ~Toggles(frame)
             PROVE  slot = last.slot
  BY DEF RepeatHarmless
<1>1. frame # Nothing /\ job["en2m"] = Nothing /\ order = Nothing /\ orders = {}
  BY DEF Carried, Idle
<1>2. slot \in [Has -> Int] /\ Due = slot
  BY <1>1 DEF Due, Mid, Typed, TypeOK
<1>3. Final(frame, Live(frame, orders), Due) = slot
  BY <1>1, <1>2, FinalOver
<1>4. slot = Outcome(frame, last.slot)
  BY <1>1, <1>3 DEF RepeatBooks
<1>5. PICK s \in [Has -> Int] : last.slot = Outcome(frame, s)
  BY DEF RepeatBooks
<1> QED
  BY <1>4, <1>5, OutcomeTwice

\* A command carried out again leaves the store as it was after the first time, unless it
\* toggles or somebody else wrote since: retransmitting is harmless.
THEOREM RepeatHarmlessHolds == Spec => []RepeatHarmless
<1>1. Init => RepeatBooks
  BY DEF Init, RepeatBooks, Tasks
<1> QED
  BY <1>1, TypedInit, TypedStep, RepeatStep, RepeatBooksHarmless, PTL DEF Spec
=============================================================================
