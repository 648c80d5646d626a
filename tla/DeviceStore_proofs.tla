--------------------------- MODULE DeviceStore_proofs ---------------------------
(***************************************************************************)
(* What TLAPS shows of DeviceStore for any set of attributes and any       *)
(* number of changes, errors, stops and power cuts.                        *)
(***************************************************************************)
EXTENDS DeviceStore, TLAPS

LEMMA Bounds ==
  /\ 0 \in Version /\ Version \subseteq Nat /\ Nothing \notin Version
  /\ 0 \in 0..MaxFaults /\ 0 \in 0..MaxStops /\ 0 \in 0..MaxPowerCuts
  /\ \A c \in Version : c < MaxChanges => c + 1 \in Version
BY StoreAssumption DEF Version

LEMMA Names == "en2m" \in Threads /\ "app" \in Threads /\ "main" \in Threads
BY DEF Threads

\* A step on an attribute, as the record it is.
LEMMA Jobs ==
  /\ Idle \in Job /\ Notifying \in Job
  /\ Idle.at = "idle" /\ Notifying.at = "notify"
  /\ \A a \in Attrs, v \in Version, s \in {"drive", "commit", "store"} :
       [at |-> s, attr |-> a, ver |-> v] \in Job
BY DEF Job, Idle, Notifying

LEMMA JobParts ==
  ASSUME NEW j \in Job, j.at \in {"drive", "commit", "store"}
  PROVE  /\ j.attr \in Attrs /\ j.ver \in Version
         /\ [j EXCEPT !.at = "commit"] = [at |-> "commit", attr |-> j.attr, ver |-> j.ver]
         /\ [j EXCEPT !.at = "commit"] \in Job
<1>1. j \in [at : {"drive", "commit", "store"}, attr : Attrs, ver : Version]
  BY DEF Job, Idle, Notifying
<1>2. PICK s \in {"drive", "commit", "store"}, a \in Attrs, v \in Version :
        j = [at |-> s, attr |-> a, ver |-> v]
  BY <1>1
<1>3. [j EXCEPT !.at = "commit"] = [at |-> "commit", attr |-> a, ver |-> v]
  BY <1>2
<1> QED
  BY <1>2, <1>3, Jobs

LEMMA TypeInit == Init => TypeOK
<1> SUFFICES ASSUME Init PROVE TypeOK
  OBVIOUS
<1>1. value \in [Attrs -> Version] /\ dirty \in [Attrs -> BOOLEAN]
      /\ seen \in [Attrs -> Version]
      /\ shown \in [Attrs -> Version]
  BY Bounds DEF Init, Fresh
<1>2. staged \in [Attrs -> Blob] /\ flash \in [Attrs -> Blob]
  BY DEF Init, Blob
<1>3. job \in [Threads -> Job] /\ walk \in [Threads -> Walks]
      /\ todo \in [Threads -> SUBSET Attrs]
  BY Jobs DEF Init, Walks
<1> QED
  BY <1>1, <1>2, <1>3, Bounds DEF Init, TypeOK

\* A thread that takes up a new version of an attribute.
LEMMA BeginType ==
  ASSUME TypeOK, NEW p \in Threads, NEW a \in Attrs, NEW s \in {"drive", "commit"},
         Begin(p, a, s), walk' \in [Threads -> Walks]
  PROVE  TypeOK'
BY Bounds, Jobs
   DEF TypeOK, Begin, Goes, saved, report, counts

\* The steps of one thread on one attribute and the loops of the en2m task.
LEMMA ThreadTypes ==
  ASSUME TypeOK, NEW p \in Threads,
         \/ Drive(p) \/ Commit(p) \/ Notify(p) \/ Store(p) \/ EndFlush(p)
         \/ \E a \in Attrs : Visit(p, a)
  PROVE  TypeOK'
<1> DEFINE j == job[p]
<1> USE DEF TypeOK, saved, report, counts, Goes, Walks_
<1>1. j \in Job
  OBVIOUS
<1>2. j.at \in {"drive", "commit", "store"} =>
        /\ j.attr \in Attrs /\ j.ver \in Version /\ [j EXCEPT !.at = "commit"] \in Job
  BY <1>1, JobParts
<1> HIDE DEF j
<1>3. CASE Drive(p)
  BY <1>2, <1>3, Jobs DEF Drive, j
<1>4. CASE Commit(p)
  <2>1. j.attr \in Attrs /\ j.ver \in Version
    BY <1>2, <1>4 DEF Commit, j
  <2> QED
    BY <1>4, <2>1, Jobs DEF Commit, j
<1>5. CASE Notify(p)
  BY <1>5, Jobs DEF Notify
<1>6. CASE Store(p)
  <2>1. j.attr \in Attrs /\ j.ver \in Version
    BY <1>2, <1>6 DEF Store, j
  <2>2. /\ job' \in [Threads -> Job] /\ todo' \in [Threads -> SUBSET Attrs]
    BY <1>6, Jobs DEF Store, j
  <2>3. walk' \in [Threads -> Walks]
    BY <1>6 DEF Store, Walks
  <2>4. staged' \in [Attrs -> Blob] /\ lost' \subseteq Attrs
    BY <1>6, <2>1 DEF Store, Blob, j
  <2>5. faults' \in 0..MaxFaults
    BY <1>6, StoreAssumption DEF Store, Fault
  <2> QED
    BY <1>6, <2>2, <2>3, <2>4, <2>5 DEF Store
<1>7. CASE EndFlush(p)
  <2>1. walk' \in [Threads -> Walks] /\ flash' \in [Attrs -> Blob]
    BY <1>7 DEF EndFlush, Walks
  <2>2. lost' \subseteq Attrs /\ faults' \in 0..MaxFaults
    BY <1>7, StoreAssumption DEF EndFlush, Fault
  <2> QED
    BY <1>7, <2>1, <2>2 DEF EndFlush
<1>8. ASSUME NEW a \in Attrs, Visit(p, a) PROVE TypeOK'
  <2>1. [at |-> "store", attr |-> a, ver |-> value[a]] \in Job
    BY Jobs
  <2>2. todo' \in [Threads -> SUBSET Attrs]
    BY <1>8 DEF Visit
  <2>3. CASE dirty[a]
    <3>1. dirty' \in [Attrs -> BOOLEAN]
      BY <1>8, <2>3 DEF Visit
    <3>2. job' \in [Threads -> Job]
      BY <1>8, <2>1, <2>3 DEF Visit
    <3>3. lost' = lost \cup {a} \/ lost' = lost \ {a}
      BY <1>8, <2>3 DEF Visit
    <3> QED
      BY <1>8, <2>2, <3>1, <3>2, <3>3 DEF Visit
  <2>4. CASE ~dirty[a]
    BY <1>8, <2>2, <2>4 DEF Visit
  <2> QED
    BY <2>3, <2>4
<1> QED
  BY <1>3, <1>4, <1>5, <1>6, <1>7, <1>8

LEMMA TypeStep == ASSUME TypeOK, [Next]_vars PROVE TypeOK'
<1> USE DEF TypeOK, saved, report, counts, threads, Goes, Walks_
<1>1. ASSUME NEW a \in Attrs,
             \/ AppSet(a) \/ AppWrite(a) \/ IsrItem(a) \/ CommandFrame(a)
      PROVE  TypeOK'
  <2>1. "app" \in Threads /\ "en2m" \in Threads /\ walk' \in [Threads -> Walks]
    BY <1>1 DEF AppSet, AppWrite, IsrItem, CommandFrame, Walks, Threads
  <2> QED
    BY <1>1, <2>1, BeginType DEF AppSet, AppWrite, IsrItem, CommandFrame
<1>2. ASSUME NEW a \in Attrs, Refresh(a) PROVE TypeOK'
  <2>1. /\ [at |-> "commit", attr |-> a, ver |-> value[a]] \in Job
        /\ clock + 1 \in Version => [at |-> "commit", attr |-> a, ver |-> clock + 1] \in Job
    BY Jobs
  <2>2. clock < MaxChanges => clock + 1 \in Version
    BY Bounds
  <2>3. job' \in [Threads -> Job] /\ clock' \in Version
    BY <1>2, <2>1, <2>2 DEF Refresh
  <2>4. todo' \in [Threads -> SUBSET Attrs]
    BY <1>2 DEF Refresh
  <2> QED
    BY <1>2, <2>3, <2>4 DEF Refresh
<1>3. ASSUME NEW a \in Attrs, ReadValue(a) PROVE TypeOK'
  BY <1>3 DEF ReadValue
<1>4. ASSUME NEW a \in Attrs, Apply(a) PROVE TypeOK'
  <2>1. [at |-> "drive", attr |-> a, ver |-> value[a]] \in Job
    BY Jobs
  <2> QED
    BY <1>4, <2>1, Names DEF Apply
<1>5. CASE CommandDone \/ TickFlush \/ TickReport \/ BuildReport
  <2>1. {"none", "flush", "refresh", "build"} \subseteq Walks
    BY DEF Walks
  <2>2. CASE CommandDone
    BY <2>1, <2>2 DEF CommandDone
  <2>3. CASE TickFlush
    BY <2>1, <2>3 DEF TickFlush
  <2>4. CASE TickReport
    BY <2>1, <2>4 DEF TickReport
  <2>5. CASE BuildReport
    BY <2>1, <2>5 DEF BuildReport
  <2> QED
    BY <1>5, <2>2, <2>3, <2>4, <2>5
<1>6. CASE Transmit
  <2>1. faults' \in 0..MaxFaults
    BY <1>6, StoreAssumption DEF Transmit, Fault
  <2>2. walk' \in [Threads -> Walks] /\ shown' \in [Attrs -> Version] /\ next' \in BOOLEAN
    BY <1>6 DEF Transmit, Walks
  <2> QED
    BY <1>6, <2>1, <2>2 DEF Transmit
<1>7. CASE LinkLost \/ LinkFound \/ ReportNow
  <2>1. faults' \in 0..MaxFaults
    BY <1>7, StoreAssumption DEF LinkLost, LinkFound, ReportNow, Fault
  <2>2. attached' \in BOOLEAN /\ next' \in BOOLEAN
    BY <1>7 DEF LinkLost, LinkFound, ReportNow
  <2> QED
    BY <1>7, <2>1, <2>2 DEF LinkLost, LinkFound, ReportNow
<1>8. CASE MeshInit \/ Started \/ Stop \/ Deinit
  <2>1. "none" \in Walks /\ "flush" \in Walks
    BY DEF Walks
  <2>2. CASE MeshInit \/ Deinit
    BY <2>2 DEF MeshInit, Deinit
  <2>3. CASE Started
    BY <2>1, <2>3 DEF Started
  <2>4. CASE Stop
    <3>1. stops' \in 0..MaxStops
      BY <2>4, StoreAssumption DEF Stop
    <3> QED
      BY <2>1, <2>4, <3>1 DEF Stop
  <2> QED
    BY <1>8, <2>2, <2>3, <2>4
<1>9. CASE Restore
  <2>1. \A a \in Attrs : staged[a] # Nothing => staged[a] \in Version
    BY DEF Blob
  <2>2. value' \in [Attrs -> Version] /\ dirty' \in [Attrs -> BOOLEAN]
    BY <1>9, <2>1 DEF Restore
  <2>3. faults' \in 0..MaxFaults /\ lost' \subseteq Attrs
    BY <1>9, StoreAssumption DEF Restore, Fault
  <2>4. walk' \in [Threads -> Walks] /\ todo' \in [Threads -> SUBSET Attrs]
    BY <1>9 DEF Restore, Walks
  <2> QED
    BY <1>9, <2>2, <2>3, <2>4 DEF Restore
<1>10. CASE PowerCut
  <2>1. staged' \in [Attrs -> Blob]
    BY <1>10 DEF PowerCut
  <2>2. value' \in [Attrs -> Version]
        /\ seen' \in [Attrs -> Version] /\ dirty' \in [Attrs -> BOOLEAN]
    BY <1>10, Bounds DEF PowerCut, Fresh
  <2>3. job' \in [Threads -> Job] /\ walk' \in [Threads -> Walks]
        /\ todo' \in [Threads -> SUBSET Attrs]
    BY <1>10, Jobs DEF PowerCut, Walks
  <2>4. cuts' \in 0..MaxPowerCuts
    BY <1>10, StoreAssumption DEF PowerCut
  <2> QED
    BY <1>10, <2>1, <2>2, <2>3, <2>4 DEF PowerCut
<1>11. CASE UNCHANGED vars
  BY <1>11 DEF vars
<1> QED
  BY <1>1, <1>2, <1>3, <1>4, <1>5, <1>6, <1>7, <1>8, <1>9, <1>10, <1>11, ThreadTypes
     DEF Next
-----------------------------------------------------------------------------
(* The books.  TypeOK /\ SavedBooks is inductive: Saved alone is not, for a
   flush may hold an old copy, and en2m_start may find a value that no blob
   and no flag knows of. *)

Sound == TypeOK /\ SavedBooks

Up == {"applying", "started", "stopping"}

LEMMA Moves ==
  ASSUME TypeOK, NEW p \in Threads, NEW x, Goes(p, x)
  PROVE  job'[p] = x /\ \A q \in Threads : q # p => job'[q] = job[q]
BY DEF TypeOK, Goes

LEMMA Turns ==
  ASSUME TypeOK, NEW p \in Threads, NEW w, Walks_(p, w)
  PROVE  walk'[p] = w /\ \A q \in Threads : q # p => walk'[q] = walk[q]
BY DEF TypeOK, Walks_

\* A step that touches neither values, flags, blobs nor what a flush holds; it may
\* excuse more attributes.
LEMMA QuietStep ==
  ASSUME SavedBooks, UNCHANGED <<value, dirty, staged>>, lost \subseteq lost',
         phase' \in Up => phase \in Up,
         \A p \in Threads :
           /\ job'[p].at = "store" <=> job[p].at = "store"
           /\ job[p].at = "store" => job'[p] = job[p] /\ walk'[p] \in Flushing
           /\ walk'[p] \in Flushing => p # "app" /\ phase' \in {"started", "stopping"}
  PROVE  SavedBooks'
<1>1. \A p \in Threads, a \in Attrs : Holds(p, a)' <=> Holds(p, a)
  BY DEF Holds
<1>2. \A p \in Threads, a \in Attrs : Holds(p, a) => job'[p] = job[p]
  BY DEF Holds
<1>3. Saved'
  BY <1>1, <1>2 DEF SavedBooks, Saved, Up
<1>4. \A p \in Threads, a \in Attrs : Holds(p, a)' /\ a \notin lost' =>
        /\ job'[p].ver = value'[a] \/ dirty'[a]
        /\ \A q \in Threads : Holds(q, a)' => q = p
  BY <1>1, <1>2 DEF SavedBooks
<1>5. \A p \in Threads, a \in Attrs : Holds(p, a)' => walk'[p] \in Flushing
  BY <1>1 DEF Holds
<1>6. \A a \in Attrs \ lost' :
        staged'[a] = Nothing =>
          dirty'[a] \/ value'[a] = 0 \/ \E p \in Threads : Holds(p, a)'
  BY <1>1 DEF SavedBooks
<1> QED
  BY <1>3, <1>4, <1>5, <1>6 DEF SavedBooks

\* The same for a step of one thread that stays within its loop.
LEMMA QuietJob ==
  ASSUME Sound, UNCHANGED <<value, dirty, staged, lost, phase, walk>>,
         NEW p \in Threads, job[p].at # "store",
         NEW x, x.at # "store", Goes(p, x)
  PROVE  SavedBooks'
<1>1. job'[p] = x /\ \A q \in Threads : q # p => job'[q] = job[q]
  BY Moves DEF Sound
<1>2. \A q \in Threads : job[q].at = "store" =>
        /\ job'[q] = job[q]
        /\ job[q].attr \in Attrs /\ Holds(q, job[q].attr)
  BY <1>1, JobParts DEF Sound, TypeOK, Holds
<1>3. \A q \in Threads : job[q].at = "store" => walk[q] \in Flushing
  BY <1>2 DEF Sound, SavedBooks
<1>4. \A q \in Threads : walk[q] \in Flushing =>
        q # "app" /\ phase \in {"started", "stopping"}
  BY DEF Sound, SavedBooks
<1>5. \A q \in Threads : job'[q].at = "store" <=> job[q].at = "store"
  BY <1>1
<1> QED
  BY <1>2, <1>3, <1>4, <1>5, QuietStep DEF Sound

\* The same for a step that moves one thread from loop to loop, or none, and
\* may change the phase.
LEMMA QuietWalk ==
  ASSUME Sound, UNCHANGED <<value, dirty, staged, job>>, lost \subseteq lost',
         phase' \in Up => phase \in Up,
         NEW p \in Threads, job[p].at # "store",
         \A q \in Threads : q # p => walk'[q] = walk[q],
         walk'[p] \in Flushing => p # "app" /\ phase' \in {"started", "stopping"},
         \A q \in Threads : q # p /\ walk[q] \in Flushing =>
                              phase' \in {"started", "stopping"}
  PROVE  SavedBooks'
<1>1. \A q \in Threads : job[q].at = "store" =>
        job[q].attr \in Attrs /\ Holds(q, job[q].attr)
  BY JobParts DEF Sound, TypeOK, Holds
<1>2. \A q \in Threads : job[q].at = "store" => walk[q] \in Flushing
  BY <1>1 DEF Sound, SavedBooks
<1>3. \A q \in Threads : job[q].at = "store" => walk'[q] \in Flushing
  BY <1>2
<1>4. \A q \in Threads : walk'[q] \in Flushing =>
        q # "app" /\ phase' \in {"started", "stopping"}
  BY DEF Sound, SavedBooks
<1> QED
  BY <1>3, <1>4, QuietStep DEF Sound

\* The application's thread never flushes.
LEMMA AppHoldsNothing ==
  ASSUME Sound PROVE job["app"].at # "store" /\ walk["app"] \notin Flushing
<1>1. walk["app"] \notin Flushing
  BY Names DEF Sound, SavedBooks
<1>2. job["app"].at = "store" => Holds("app", job["app"].attr) /\ job["app"].attr \in Attrs
  BY Names, JobParts DEF Sound, TypeOK, Holds
<1> QED
  BY <1>1, <1>2, Names DEF Sound, SavedBooks

\* The steps that only begin, end or go on with something.
LEMMA QuietActions ==
  ASSUME Sound,
         \/ \E a \in Attrs : \/ AppSet(a) \/ AppWrite(a) \/ IsrItem(a) \/ CommandFrame(a)
                             \/ Refresh(a) \/ ReadValue(a) \/ Apply(a)
         \/ \E p \in Threads : Drive(p) \/ Notify(p) \/ EndFlush(p)
         \/ CommandDone \/ TickFlush \/ TickReport \/ BuildReport \/ Transmit
         \/ LinkLost \/ LinkFound \/ ReportNow
         \/ MeshInit \/ Started \/ Stop \/ Deinit
         \/ UNCHANGED vars
  PROVE  SavedBooks'
<1> USE DEF saved, report, counts, threads, In
<1>1. ASSUME NEW a \in Attrs, AppSet(a) \/ AppWrite(a) \/ IsrItem(a) PROVE SavedBooks'
  <2>1. ASSUME NEW p \in Threads, NEW s \in {"drive", "commit"},
               job[p] = Idle, UNCHANGED walk, Begin(p, a, s)
        PROVE  SavedBooks'
    BY <2>1, QuietJob, Jobs DEF Begin
  <2> QED
    BY <1>1, <2>1, Names DEF AppSet, AppWrite, IsrItem
<1>2. ASSUME NEW a \in Attrs, CommandFrame(a) PROVE SavedBooks'
  <2>1. /\ job'["en2m"].at = "drive" /\ walk'["en2m"] = "command"
        /\ \A q \in Threads : q # "en2m" => job'[q] = job[q] /\ walk'[q] = walk[q]
        /\ UNCHANGED <<value, dirty, staged, lost, phase>>
    BY <1>2, Moves, Turns, Names DEF CommandFrame, Begin, Sound
  <2>2. job["en2m"].at # "store"
    BY <1>2, Jobs DEF CommandFrame
  <2>3. \A q \in Threads : job[q].at = "store" => walk[q] \in Flushing
    BY JobParts DEF Sound, TypeOK, Holds, SavedBooks
  <2>4. \A q \in Threads : walk[q] \in Flushing =>
          q # "app" /\ phase \in {"started", "stopping"}
    BY DEF Sound, SavedBooks
  <2> QED
    BY <2>1, <2>2, <2>3, <2>4, QuietStep DEF Sound, Flushing
<1>3. ASSUME NEW a \in Attrs, Refresh(a) \/ ReadValue(a) PROVE SavedBooks'
  <2>1. CASE UNCHANGED job
    <3>1. /\ UNCHANGED <<value, dirty, staged, lost, phase, walk>>
          /\ job["en2m"].at # "store" /\ walk["en2m"] \notin Flushing
      BY <1>3, Jobs DEF Refresh, ReadValue, Flushing
    <3>2. \A q \in Threads : walk[q] \in Flushing => phase \in {"started", "stopping"}
      BY DEF Sound, SavedBooks
    <3> QED
      BY <2>1, <3>1, <3>2, QuietWalk, Names
  <2>2. CASE ~UNCHANGED job
    <3>1. PICK v : Goes("en2m", [at |-> "commit", attr |-> a, ver |-> v])
      BY <1>3, <2>2 DEF Refresh, ReadValue
    <3> QED
      BY <1>3, <3>1, QuietJob, Jobs, Names DEF Refresh, ReadValue
  <2> QED
    BY <2>1, <2>2
<1>4. ASSUME NEW a \in Attrs, Apply(a) PROVE SavedBooks'
  BY <1>4, QuietJob, Jobs, Names DEF Apply
<1>5. ASSUME NEW p \in Threads, Drive(p) PROVE SavedBooks'
  <2>1. job[p].at = "drive" /\ job[p] \in Job
    BY <1>5 DEF Drive, Sound, TypeOK
  <2>2. [job[p] EXCEPT !.at = "commit"].at = "commit"
    BY <2>1, JobParts
  <2>3. PICK x : Goes(p, x) /\ x.at # "store"
    BY <1>5, <2>2, Jobs DEF Drive
  <2> QED
    BY <1>5, <2>1, <2>3, QuietJob DEF Drive
<1>6. ASSUME NEW p \in Threads, Notify(p) PROVE SavedBooks'
  BY <1>6, QuietJob, Jobs DEF Notify
<1>7. ASSUME NEW p \in Threads, EndFlush(p) PROVE SavedBooks'
  <2>1. walk'[p] = "none" /\ \A q \in Threads : q # p => walk'[q] = walk[q]
    BY <1>7, Turns DEF EndFlush, Sound
  <2>2. \A q \in Threads : walk[q] \in Flushing => phase \in {"started", "stopping"}
    BY DEF Sound, SavedBooks
  <2> QED
    BY <1>7, <2>1, <2>2, QuietWalk, Jobs DEF EndFlush, Flushing
<1>8. CASE CommandDone \/ TickFlush \/ TickReport \/ BuildReport \/ Transmit
  <2>1. PICK w \in {"none", "flush", "refresh", "build"} :
          Walks_("en2m", w) /\ (w = "flush" => phase = "started")
    <3>1. CASE TickFlush
      BY <3>1 DEF TickFlush
    <3>2. CASE ~TickFlush
      <4>1. Walks_("en2m", "none") \/ Walks_("en2m", "refresh") \/ Walks_("en2m", "build")
        BY <1>8, <3>2 DEF CommandDone, TickReport, BuildReport, Transmit
      <4> QED
        BY <4>1
    <3> QED
      BY <3>1, <3>2
  <2>2. walk'["en2m"] = w /\ \A q \in Threads : q # "en2m" => walk'[q] = walk[q]
    BY <2>1, Turns, Names DEF Sound
  <2>3. job["en2m"].at # "store" /\ UNCHANGED <<value, dirty, staged, lost, job, phase>>
    BY <1>8, Jobs DEF CommandDone, TickFlush, TickReport, BuildReport, Transmit
  <2>4. \A q \in Threads : walk[q] \in Flushing => phase \in {"started", "stopping"}
    BY DEF Sound, SavedBooks
  <2> QED
    BY <2>1, <2>2, <2>3, <2>4, QuietWalk, Names DEF Flushing
<1>9. CASE LinkLost \/ LinkFound \/ ReportNow \/ UNCHANGED vars
  <2>1. UNCHANGED <<value, dirty, staged, lost, job, phase, walk>>
    BY <1>9 DEF LinkLost, LinkFound, ReportNow, vars
  <2>2. \A q \in Threads : walk[q] \in Flushing => phase \in {"started", "stopping"}
    BY DEF Sound, SavedBooks
  <2> QED
    BY <2>1, <2>2, QuietWalk, AppHoldsNothing, Names
<1>10. CASE MeshInit
  <2>1. \A q \in Threads : walk[q] \notin Flushing
    BY <1>10 DEF MeshInit, Sound, SavedBooks
  <2> QED
    BY <1>10, <2>1, QuietWalk, AppHoldsNothing, Names DEF MeshInit, Up
<1>11. CASE Started
  <2>1. walk'["main"] = "none" /\ \A q \in Threads : q # "main" => walk'[q] = walk[q]
    BY <1>11, Turns, Names DEF Started, Sound
  <2> QED
    BY <1>11, <2>1, QuietWalk, Jobs, Names DEF Started, Up, Flushing
<1>12. CASE Stop
  <2>1. walk'["main"] = "flush" /\ \A q \in Threads : q # "main" => walk'[q] = walk[q]
    BY <1>12, Turns, Names DEF Stop, Sound
  <2> QED
    BY <1>12, <2>1, QuietWalk, Jobs, Names DEF Stop, Up
<1>13. CASE Deinit
  <2>1. \A q \in Threads : walk[q] \notin Flushing
    BY <1>13, AppHoldsNothing DEF Deinit, Threads, Flushing
  <2> QED
    BY <1>13, <2>1, QuietWalk, AppHoldsNothing, Names DEF Deinit, Up
<1> QED
  BY <1>1, <1>2, <1>3, <1>4, <1>5, <1>6, <1>7, <1>8, <1>9, <1>10, <1>11, <1>12, <1>13

\* en2m_attribute_set marks what it changes.
LEMMA CommitStep ==
  ASSUME Sound, NEW p \in Threads, Commit(p) PROVE SavedBooks'
<1> DEFINE a == job[p].attr
<1>1. job[p].at = "commit" /\ a \in Attrs /\ job[p].ver \in Version
  BY JobParts DEF Commit, Sound, TypeOK
<1>2. CASE value[a] = job[p].ver
  BY <1>1, <1>2, QuietJob, Jobs DEF Commit
<1>3. CASE value[a] # job[p].ver
  <2>1. /\ UNCHANGED <<staged, lost, phase, walk>>
        /\ dirty'[a] = TRUE
        /\ \A b \in Attrs : b # a => dirty'[b] = dirty[b] /\ value'[b] = value[b]
    BY <1>1, <1>3 DEF Commit, Sound, TypeOK
  <2>2. job'[p] = Notifying /\ \A q \in Threads : q # p => job'[q] = job[q]
    BY <1>3, Moves DEF Commit, Sound
  <2>3. \A q \in Threads, b \in Attrs : Holds(q, b)' <=> Holds(q, b)
    BY <1>1, <2>2, Jobs DEF Holds
  <2>4. \A q \in Threads, b \in Attrs : Holds(q, b) => job'[q] = job[q]
    BY <1>1, <2>2 DEF Holds
  <2>5. Saved'
    BY <2>1, <2>3, <2>4 DEF Sound, SavedBooks, Saved
  <2>6. \A q \in Threads, b \in Attrs : Holds(q, b)' /\ b \notin lost' =>
          /\ job'[q].ver = value'[b] \/ dirty'[b]
          /\ \A r \in Threads : Holds(r, b)' => r = q
    BY <2>1, <2>3, <2>4 DEF Sound, SavedBooks
  <2>7. \A b \in Attrs \ lost' :
          staged'[b] = Nothing =>
            dirty'[b] \/ value'[b] = 0 \/ \E q \in Threads : Holds(q, b)'
    BY <2>1, <2>3 DEF Sound, SavedBooks
  <2>8. \A q \in Threads, b \in Attrs : Holds(q, b)' => walk'[q] \in Flushing
    BY <2>1, <2>3 DEF Sound, SavedBooks
  <2>9. \A q \in Threads :
          walk'[q] \in Flushing => q # "app" /\ phase' \in {"started", "stopping"}
    BY <2>1 DEF Sound, SavedBooks
  <2> QED
    BY <2>5, <2>6, <2>7, <2>8, <2>9 DEF SavedBooks
<1> QED
  BY <1>2, <1>3

\* A flush that takes a dirty attribute holds its present value.
LEMMA VisitStep ==
  ASSUME Sound, NEW p \in Threads, NEW a \in Attrs, Visit(p, a) PROVE SavedBooks'
<1>1. job[p] = Idle /\ walk[p] \in Flushing /\ UNCHANGED <<phase, walk, value, staged>>
  BY DEF Visit
<1>2. CASE ~dirty[a]
  <2>1. UNCHANGED <<dirty, job, lost>>
    BY <1>2 DEF Visit
  <2>2. \A q \in Threads : walk[q] \in Flushing => q # "app" /\ phase \in {"started", "stopping"}
    BY DEF Sound, SavedBooks
  <2> QED
    BY <1>1, <2>1, <2>2, QuietWalk, Jobs
<1>3. CASE dirty[a]
  <2>1. /\ dirty'[a] = FALSE
        /\ \A b \in Attrs : b # a => dirty'[b] = dirty[b]
    BY <1>3 DEF Visit, Sound, TypeOK
  <2>2. /\ job'[p].at = "store" /\ job'[p].attr = a /\ job'[p].ver = value[a]
        /\ \A q \in Threads : q # p => job'[q] = job[q]
    BY <1>3, Moves DEF Visit, Sound
  <2>3. /\ \A b \in Attrs : b # a => (b \in lost' <=> b \in lost)
        /\ a \notin lost' => ~HeldByOther(p, a)
    BY <1>3 DEF Visit
  <2>4. /\ Holds(p, a)' /\ \A b \in Attrs : b # a => ~Holds(p, b)' /\ ~Holds(p, b)
        /\ \A q \in Threads, b \in Attrs : q # p => (Holds(q, b)' <=> Holds(q, b))
    BY <1>1, <2>2, Jobs DEF Holds
  <2>5. a \notin lost' => \A q \in Threads : Holds(q, a)' => q = p
    BY <2>3, <2>4 DEF HeldByOther, Holds
  <2>6. \A b \in Attrs : b # a => \A q \in Threads :
          (Holds(q, b)' <=> Holds(q, b)) /\ (Holds(q, b) => job'[q] = job[q])
    BY <2>2, <2>4
  <2>7. Saved'
    BY <1>1, <2>1, <2>2, <2>3, <2>4, <2>6 DEF Sound, SavedBooks, Saved
  <2>8. \A q \in Threads, b \in Attrs : Holds(q, b)' /\ b \notin lost' =>
          /\ job'[q].ver = value'[b] \/ dirty'[b]
          /\ \A r \in Threads : Holds(r, b)' => r = q
    <3>1. ASSUME NEW q \in Threads, NEW b \in Attrs, Holds(q, b)', b \notin lost'
          PROVE  /\ job'[q].ver = value'[b] \/ dirty'[b]
                 /\ \A r \in Threads : Holds(r, b)' => r = q
      <4>1. CASE b = a
        BY <1>1, <2>2, <2>5, <3>1, <4>1
      <4>2. CASE b # a
        <5>1. Holds(q, b) /\ b \notin lost /\ job'[q] = job[q]
          BY <2>3, <2>6, <3>1, <4>2
        <5> QED
          BY <1>1, <2>1, <2>6, <4>2, <5>1 DEF Sound, SavedBooks
      <4> QED
        BY <4>1, <4>2
    <3> QED
      BY <3>1
  <2>9. \A b \in Attrs \ lost' :
          staged'[b] = Nothing =>
            dirty'[b] \/ value'[b] = 0 \/ \E q \in Threads : Holds(q, b)'
    BY <1>1, <2>1, <2>3, <2>4, <2>6 DEF Sound, SavedBooks
  <2>10. \A q \in Threads, b \in Attrs : Holds(q, b)' => walk'[q] \in Flushing
    BY <1>1, <2>4 DEF Sound, SavedBooks
  <2>11. \A q \in Threads :
           walk'[q] \in Flushing => q # "app" /\ phase' \in {"started", "stopping"}
    BY <1>1 DEF Sound, SavedBooks
  <2> QED
    BY <2>7, <2>8, <2>9, <2>10, <2>11 DEF SavedBooks
<1> QED
  BY <1>2, <1>3

\* A blob that is written is the value held; one that is refused is lost.
LEMMA StoreStep ==
  ASSUME Sound, NEW p \in Threads, Store(p) PROVE SavedBooks'
<1> DEFINE a == job[p].attr
           v == job[p].ver
<1>1. job[p].at = "store" /\ a \in Attrs /\ v \in Version /\ Holds(p, a)
  BY JobParts DEF Store, Sound, TypeOK, Holds
<1>2. UNCHANGED <<phase, value, dirty>>
  BY DEF Store
<1>3. /\ ~\E b \in Attrs : Holds(p, b)'
      /\ \A q \in Threads, b \in Attrs : q # p => (Holds(q, b)' <=> Holds(q, b))
      /\ \A q \in Threads : q # p => job'[q] = job[q]
  BY Moves, Jobs DEF Store, Holds, Sound
<1>4. \A b \in Attrs : b # a => ~Holds(p, b)
  BY DEF Holds
<1>5. walk[p] \in Flushing
  BY <1>1 DEF Sound, SavedBooks
<1>6. \A q \in Threads : /\ walk'[q] \in Flushing => walk[q] \in Flushing
                         /\ q # p => walk'[q] = walk[q]
  BY <1>5, Turns DEF Store, Sound, Flushing
<1>7. \A b \in Attrs : b # a => staged'[b] = staged[b] /\ (b \in lost' <=> b \in lost)
  BY <1>1 DEF Store, Sound, TypeOK
<1>8. \/ a \in lost'
      \/ staged'[a] = v /\ (a \in lost' <=> a \in lost)
  BY <1>1 DEF Store, Sound, TypeOK
<1>9. Saved'
  <2>1. ASSUME NEW b \in Attrs, b \notin lost', phase \in Up
        PROVE  \/ dirty[b] \/ staged'[b] = value[b]
               \/ \E q \in Threads : Holds(q, b)' /\ job'[q].ver = value[b]
               \/ staged'[b] = Nothing /\ value[b] = 0
    <3>1. CASE b = a
      BY <1>1, <1>8, <2>1, <3>1 DEF Sound, SavedBooks
    <3>2. CASE b # a
      BY <1>3, <1>4, <1>7, <2>1, <3>2 DEF Sound, SavedBooks, Saved, Up
    <3> QED
      BY <3>1, <3>2
  <2> QED
    BY <1>2, <2>1 DEF Saved, Up
<1>10. \A q \in Threads, b \in Attrs : Holds(q, b)' /\ b \notin lost' =>
         /\ job'[q].ver = value'[b] \/ dirty'[b]
         /\ \A r \in Threads : Holds(r, b)' => r = q
  <2>1. ASSUME NEW q \in Threads, NEW b \in Attrs, Holds(q, b)', b \notin lost'
        PROVE  q # p /\ Holds(q, b) /\ b \notin lost /\ job'[q] = job[q]
    BY <1>3, <1>7, <1>8, <2>1
  <2> QED
    BY <1>2, <1>3, <2>1 DEF Sound, SavedBooks
<1>11. \A q \in Threads, b \in Attrs : Holds(q, b)' => walk'[q] \in Flushing
  BY <1>3, <1>6 DEF Sound, SavedBooks
<1>12. \A q \in Threads :
         walk'[q] \in Flushing => q # "app" /\ phase' \in {"started", "stopping"}
  BY <1>2, <1>6 DEF Sound, SavedBooks
<1>13. \A b \in Attrs \ lost' :
         staged'[b] = Nothing =>
           dirty'[b] \/ value'[b] = 0 \/ \E q \in Threads : Holds(q, b)'
  <2>1. ASSUME NEW b \in Attrs, b \notin lost', staged'[b] = Nothing
        PROVE  dirty[b] \/ value[b] = 0 \/ \E q \in Threads : Holds(q, b)'
    <3>1. b # a
      BY <1>1, <1>8, <2>1, Bounds
    <3> QED
      BY <1>3, <1>4, <1>7, <2>1, <3>1 DEF Sound, SavedBooks
  <2> QED
    BY <1>2, <2>1
<1> QED
  BY <1>9, <1>10, <1>11, <1>12, <1>13 DEF SavedBooks

\* en2m_dm_restore takes the blobs there are; what has none was never lost sight of.
LEMMA RestoreStep == ASSUME Sound, Restore PROVE SavedBooks'
<1>1. \A q \in Threads : walk[q] \notin Flushing
  BY DEF Restore, Sound, SavedBooks
<1>2. \A q \in Threads : walk'[q] \notin Flushing
  BY <1>1, Turns, Names DEF Restore, Sound, Flushing
<1>3. \A q \in Threads, b \in Attrs : ~Holds(q, b) /\ ~Holds(q, b)'
  BY <1>1 DEF Restore, Holds, Sound, SavedBooks
<1>4. CASE lost' = Attrs
  BY <1>2, <1>3, <1>4 DEF SavedBooks, Saved
<1>5. CASE lost' # Attrs
  <2>1. /\ \A b \in Attrs : staged[b] # Nothing => value'[b] = staged[b]
        /\ \A b \in Attrs : staged[b] = Nothing =>
             value'[b] = value[b] /\ dirty'[b] = dirty[b]
        /\ UNCHANGED <<staged, lost>>
    BY <1>5 DEF Restore, Sound, TypeOK
  <2>2. \A b \in Attrs \ lost : staged[b] = Nothing => dirty[b] \/ value[b] = 0
    BY <1>3 DEF Sound, SavedBooks
  <2> QED
    BY <1>2, <1>3, <2>1, <2>2 DEF SavedBooks, Saved
<1> QED
  BY <1>4, <1>5

LEMMA PowerCutStep == ASSUME Sound, PowerCut PROVE SavedBooks'
<1>1. \A q \in Threads : job'[q] = Idle /\ walk'[q] = "none"
  BY DEF PowerCut
<1>2. \A q \in Threads, b \in Attrs : ~Holds(q, b)'
  BY <1>1, Jobs DEF Holds
<1>3. phase' = "down" /\ \A b \in Attrs : value'[b] = 0
  BY DEF PowerCut, Fresh
<1> QED
  BY <1>1, <1>2, <1>3 DEF SavedBooks, Saved, Flushing

-----------------------------------------------------------------------------
LEMMA SoundInit == Init => Sound
<1> SUFFICES ASSUME Init PROVE SavedBooks
  BY TypeInit DEF Sound
<1>1. \A q \in Threads, b \in Attrs : ~Holds(q, b)
  BY Jobs DEF Init, Holds
<1> QED
  BY <1>1 DEF Init, Fresh, SavedBooks, Saved, Flushing

LEMMA SoundStep == ASSUME Sound, [Next]_vars PROVE Sound'
<1>1. TypeOK'
  BY TypeStep DEF Sound
<1>2. SavedBooks'
  BY QuietActions, CommitStep, VisitStep, StoreStep, RestoreStep, PowerCutStep DEF Next
<1> QED
  BY <1>1, <1>2 DEF Sound

\* Every variable keeps its type, whatever the threads do.
THEOREM StoreTypeCorrect == Spec => []TypeOK
<1>1. TypeOK /\ [Next]_vars => TypeOK'
  BY TypeStep
<1> QED
  BY <1>1, TypeInit, PTL DEF Spec

\* The books of en2m_dm_flush_persist and en2m_dm_restore: a value is held by
\* one flush, current or dirty again, and none without a blob is forgotten.
THEOREM SavedBooksHold == Spec => []SavedBooks
<1>1. Sound /\ [Next]_vars => Sound'
  BY SoundStep
<1>2. Sound => SavedBooks
  BY DEF Sound
<1> QED
  BY <1>1, <1>2, SoundInit, PTL DEF Spec

\* No value of a running device escapes NVS: it is stored, marked dirty or in
\* the hands of a flush, for any number of attributes, changes and restarts.
THEOREM SavedHolds == Spec => []Saved
<1>1. SavedBooks => Saved
  BY DEF SavedBooks
<1> QED
  BY <1>1, SavedBooksHold, PTL
-----------------------------------------------------------------------------
(* The settings are kept. *)

\* A step that changes neither values, flags, blobs nor what a flush holds or wrote.
Blind ==
  /\ UNCHANGED <<value, dirty, staged, flash, lost>>
  /\ \A q \in Threads :
       /\ job'[q].at = "store" <=> job[q].at = "store"
       /\ job[q].at = "store" => job'[q] = job[q]
       /\ walk'[q] = "wrote" <=> walk[q] = "wrote"

LEMMA BlindOwes ==
  ASSUME Uncommitted, Blind PROVE Owed' = Owed /\ Uncommitted'
<1>1. \A q \in Threads, a \in Attrs : Holds(q, a)' <=> Holds(q, a)
  BY DEF Blind, Holds
<1> QED
  BY <1>1 DEF Blind, Owed, Uncommitted

\* A thread that goes from one job to another, or from loop to loop, outside a flush.
LEMMA BlindMove ==
  ASSUME TypeOK, UNCHANGED <<value, dirty, staged, flash, lost>>, NEW p \in Threads,
         NEW x, NEW w, job[p].at # "store", x.at # "store", walk[p] # "wrote", w # "wrote",
         Goes(p, x) \/ UNCHANGED job, Walks_(p, w) \/ UNCHANGED walk
  PROVE  Blind
<1>1. \A q \in Threads : q # p => job'[q] = job[q] /\ walk'[q] = walk[q]
  BY Moves, Turns
<1>2. job'[p].at # "store" /\ walk'[p] # "wrote"
  BY Moves, Turns
<1> QED
  BY <1>1, <1>2 DEF Blind

\* The same for a job within any loop.
LEMMA BlindJob ==
  ASSUME TypeOK, UNCHANGED <<value, dirty, staged, flash, lost, walk>>, NEW p \in Threads,
         NEW x, job[p].at # "store", x.at # "store", Goes(p, x)
  PROVE  Blind
BY Moves DEF Blind

LEMMA BlindActions ==
  ASSUME TypeOK,
         \/ \E a \in Attrs : \/ AppSet(a) \/ AppWrite(a) \/ IsrItem(a) \/ CommandFrame(a)
                             \/ Refresh(a) \/ ReadValue(a) \/ Apply(a)
         \/ \E p \in Threads : Drive(p) \/ Notify(p)
         \/ CommandDone \/ TickFlush \/ TickReport \/ BuildReport \/ Transmit
         \/ LinkLost \/ LinkFound \/ ReportNow
         \/ MeshInit \/ Started \/ Stop \/ Deinit
         \/ UNCHANGED vars
  PROVE  Blind
<1> USE DEF saved, report, counts, threads, In
<1>1. ASSUME NEW a \in Attrs, AppSet(a) \/ AppWrite(a) \/ IsrItem(a) PROVE Blind
  <2>1. ASSUME NEW p \in Threads, NEW t \in {"drive", "commit"},
               job[p] = Idle, UNCHANGED walk, Begin(p, a, t)
        PROVE  Blind
    BY <2>1, BlindJob, Jobs DEF Begin
  <2> QED
    BY <1>1, <2>1, Names DEF AppSet, AppWrite, IsrItem
<1>2. ASSUME NEW a \in Attrs, CommandFrame(a) PROVE Blind
  <2> DEFINE x == [at |-> "drive", attr |-> a, ver |-> clock + 1]
  <2>1. x.at # "store"
    OBVIOUS
  <2>2. Goes("en2m", x) /\ Walks_("en2m", "command") /\ UNCHANGED <<value, dirty, staged, flash, lost>>
    BY <1>2 DEF CommandFrame, Begin
  <2>3. job["en2m"].at # "store" /\ walk["en2m"] # "wrote"
    BY <1>2, Jobs DEF CommandFrame
  <2> HIDE DEF x
  <2> QED
    BY <2>1, <2>2, <2>3, BlindMove, Names
<1>3. ASSUME NEW a \in Attrs, Refresh(a) \/ ReadValue(a) PROVE Blind
  <2>1. CASE UNCHANGED job
    BY <1>3, <2>1 DEF Refresh, ReadValue, Blind
  <2>2. CASE ~UNCHANGED job
    <3>1. PICK v : Goes("en2m", [at |-> "commit", attr |-> a, ver |-> v])
      BY <1>3, <2>2 DEF Refresh, ReadValue
    <3> QED
      BY <1>3, <3>1, BlindJob, Jobs, Names DEF Refresh, ReadValue
  <2> QED
    BY <2>1, <2>2
<1>4. ASSUME NEW a \in Attrs, Apply(a) PROVE Blind
  BY <1>4, BlindJob, Jobs, Names DEF Apply
<1>5. ASSUME NEW p \in Threads, Drive(p) PROVE Blind
  <2>1. job[p].at = "drive" /\ job[p] \in Job
    BY <1>5 DEF Drive, TypeOK
  <2>2. [job[p] EXCEPT !.at = "commit"].at = "commit"
    BY <2>1, JobParts
  <2>3. PICK x : Goes(p, x) /\ x.at # "store"
    BY <1>5, <2>2, Jobs DEF Drive
  <2> QED
    BY <1>5, <2>1, <2>3, BlindJob DEF Drive
<1>6. ASSUME NEW p \in Threads, Notify(p) PROVE Blind
  BY <1>6, BlindJob, Jobs DEF Notify
<1>7. CASE CommandDone \/ TickFlush \/ TickReport \/ BuildReport \/ Transmit
  <2>1. \/ Walks_("en2m", "none") \/ Walks_("en2m", "flush")
        \/ Walks_("en2m", "refresh") \/ Walks_("en2m", "build")
    BY <1>7 DEF CommandDone, TickFlush, TickReport, BuildReport, Transmit
  <2>2. job["en2m"].at # "store" /\ walk["en2m"] # "wrote"
        /\ UNCHANGED <<value, dirty, staged, flash, lost, job>>
    BY <1>7, Jobs DEF CommandDone, TickFlush, TickReport, BuildReport, Transmit
  <2> QED
    BY <2>1, <2>2, BlindMove, Names, Jobs
<1>8. CASE LinkLost \/ LinkFound \/ ReportNow \/ MeshInit \/ Deinit \/ UNCHANGED vars
  BY <1>8 DEF LinkLost, LinkFound, ReportNow, MeshInit, Deinit, vars, Blind
<1>9. CASE Started \/ Stop
  <2>1. Walks_("main", "none") \/ Walks_("main", "flush")
    BY <1>9 DEF Started, Stop
  <2>2. job["main"].at # "store" /\ walk["main"] # "wrote"
        /\ UNCHANGED <<value, dirty, staged, flash, lost, job>>
    BY <1>9, Jobs DEF Started, Stop
  <2> QED
    BY <2>1, <2>2, BlindMove, Names, Jobs
<1> QED
  BY <1>1, <1>2, <1>3, <1>4, <1>5, <1>6, <1>7, <1>8, <1>9

\* Such a step changes nothing the promise speaks of, or it is the end of the component.
LEMMA BlindKeeps ==
  ASSUME Uncommitted, Blind, UNCHANGED phase \/ Deinit \/ MeshInit \/ Started \/ Stop
  PROVE  Settings!Next \/ UNCHANGED Settings!vars
<1>1. UNCHANGED <<value, flash, lost>> /\ Owed' = Owed
  BY BlindOwes DEF Blind
<1>2. CASE Deinit
  <2>1. Settings!Halt
    BY <1>1, <1>2 DEF Settings!Halt, Deinit
  <2> QED
    BY <2>1 DEF Settings!Next
<1>3. CASE UNCHANGED phase \/ MeshInit \/ Started \/ Stop
  BY <1>1, <1>3 DEF Settings!vars, MeshInit, Started, Stop
<1> QED
  BY <1>2, <1>3

LEMMA KeepsBlind ==
  ASSUME Sound, Uncommitted,
         \/ \E a \in Attrs : \/ AppSet(a) \/ AppWrite(a) \/ IsrItem(a) \/ CommandFrame(a)
                             \/ Refresh(a) \/ ReadValue(a) \/ Apply(a)
         \/ \E p \in Threads : Drive(p) \/ Notify(p)
         \/ CommandDone \/ TickFlush \/ TickReport \/ BuildReport \/ Transmit
         \/ LinkLost \/ LinkFound \/ ReportNow
         \/ MeshInit \/ Started \/ Stop \/ Deinit
         \/ UNCHANGED vars
  PROVE  Uncommitted' /\ (Settings!Next \/ UNCHANGED Settings!vars)
<1>1. Blind
  BY BlindActions DEF Sound
<1>2. UNCHANGED phase \/ Deinit \/ MeshInit \/ Started \/ Stop
  BY DEF AppSet, AppWrite, IsrItem, CommandFrame, Refresh, ReadValue, Apply, Begin, Drive,
         Notify, CommandDone, TickFlush, TickReport, BuildReport, Transmit, LinkLost,
         LinkFound, ReportNow, vars
<1> QED
  BY <1>1, <1>2, BlindOwes, BlindKeeps

\* A commit marks what it changes: a change is owed.
LEMMA KeepsCommit ==
  ASSUME Sound, Uncommitted, NEW p \in Threads, Commit(p)
  PROVE  Uncommitted' /\ (Settings!Next \/ UNCHANGED Settings!vars)
<1> DEFINE a == job[p].attr
<1>1. job[p].at = "commit" /\ a \in Attrs /\ job[p].ver \in Version
  BY JobParts DEF Commit, Sound, TypeOK
<1>2. CASE value[a] = job[p].ver
  <2>1. Goes(p, Idle) /\ UNCHANGED <<phase, value, dirty, staged, flash, lost, walk>>
    BY <1>2 DEF Commit
  <2>2. Blind
    BY <1>1, <2>1, BlindJob, Jobs DEF Sound
  <2> QED
    BY <2>1, <2>2, BlindOwes, BlindKeeps
<1>3. CASE value[a] # job[p].ver
  <2>1. /\ UNCHANGED <<staged, flash, lost, phase, walk>>
        /\ value' = [value EXCEPT ![a] = job[p].ver]
        /\ dirty'[a] = TRUE
        /\ \A b \in Attrs : b # a => dirty'[b] = dirty[b]
    BY <1>1, <1>3 DEF Commit, Sound, TypeOK
  <2>2. job'[p] = Notifying /\ \A q \in Threads : q # p => job'[q] = job[q]
    BY <1>3, Moves DEF Commit, Sound
  <2>3. \A q \in Threads, b \in Attrs : Holds(q, b)' <=> Holds(q, b)
    BY <1>1, <2>2, Jobs DEF Holds
  <2>4. Owed' = Owed \cup {a}
    BY <1>1, <2>1, <2>3 DEF Owed
  <2>5. Settings!Change(a, job[p].ver)
    BY <2>1, <2>4 DEF Settings!Change
  <2>6. Uncommitted'
    BY <2>1, <2>3 DEF Uncommitted
  <2> QED
    BY <1>1, <2>5, <2>6 DEF Settings!Next
<1> QED
  BY <1>2, <1>3

\* What a flush takes stays owed.
LEMMA KeepsVisit ==
  ASSUME Sound, Uncommitted, NEW p \in Threads, NEW a \in Attrs, Visit(p, a)
  PROVE  Uncommitted' /\ (Settings!Next \/ UNCHANGED Settings!vars)
<1>1. job[p] = Idle /\ UNCHANGED <<phase, walk, value, staged, flash>>
  BY DEF Visit
<1>2. CASE ~dirty[a]
  <2>1. Blind
    BY <1>1, <1>2 DEF Visit, Blind
  <2> QED
    BY <1>1, <2>1, BlindOwes, BlindKeeps
<1>3. CASE dirty[a]
  <2>1. \A b \in Attrs : b # a => dirty'[b] = dirty[b]
    BY <1>3 DEF Visit, Sound, TypeOK
  <2>2. /\ job'[p].at = "store" /\ job'[p].attr = a
        /\ \A q \in Threads : q # p => job'[q] = job[q]
    BY <1>3, Moves DEF Visit, Sound
  <2>3. /\ Holds(p, a)' /\ \A b \in Attrs : b # a => ~Holds(p, b)' /\ ~Holds(p, b)
        /\ \A q \in Threads, b \in Attrs : q # p => (Holds(q, b)' <=> Holds(q, b))
    BY <1>1, <2>2, Jobs DEF Holds
  <2>4. a \in Owed
    BY <1>3 DEF Owed
  <2>5. Owed' = Owed
    <3>1. a \in Owed'
      BY <2>3 DEF Owed
    <3>2. \A b \in Attrs : b # a => (b \in Owed' <=> b \in Owed)
      BY <1>1, <2>1, <2>3 DEF Owed
    <3>3. Owed \subseteq Attrs /\ Owed' \subseteq Attrs
      BY DEF Owed
    <3> QED
      BY <2>4, <3>1, <3>2, <3>3
  <2>6. lost' \in {lost \cup {a}, lost \ {a}}
    BY <1>3 DEF Visit
  <2>7. Settings!TakeUp(a)
    BY <1>1, <2>5, <2>6 DEF Settings!TakeUp
  <2>8. Uncommitted'
    <3>1. ASSUME NEW b \in Attrs, b \notin lost', staged[b] # flash[b], b # a
          PROVE  \E q \in Threads : walk[q] = "wrote" \/ Holds(q, b)'
      BY <2>3, <2>6, <3>1 DEF Uncommitted
    <3> QED
      BY <1>1, <2>3, <3>1 DEF Uncommitted
  <2> QED
    BY <2>4, <2>7, <2>8 DEF Settings!Next
<1> QED
  BY <1>2, <1>3

\* A blob that is written pays the debt only if it is the present value and the flash
\* has it already; one that is refused is excused.
LEMMA KeepsStore ==
  ASSUME Sound, Uncommitted, TypeOK', NEW p \in Threads, Store(p)
  PROVE  Uncommitted' /\ (Settings!Next \/ UNCHANGED Settings!vars)
<1>1. PICK a \in Attrs : /\ a = job[p].attr /\ job[p].at = "store"
                         /\ job[p].ver \in Version /\ Holds(p, a)
  BY JobParts DEF Store, Sound, TypeOK, Holds
<1>2. UNCHANGED <<phase, value, dirty, flash>> /\ phase \in Up
  BY <1>1 DEF Store, Sound, SavedBooks, Up
<1>3. /\ \A q \in Threads, b \in Attrs : b # a => (Holds(q, b)' <=> Holds(q, b))
      /\ \A q \in Threads : q # p => (Holds(q, a)' <=> Holds(q, a))
  <2>1. TypeOK /\ Goes(p, Idle)
    BY DEF Store, Sound
  <2>2. job'[p] = Idle /\ \A q \in Threads : q # p => job'[q] = job[q]
    BY <2>1, Moves
  <2>3. \A q \in Threads, b \in Attrs : q # p => (Holds(q, b)' <=> Holds(q, b))
    BY <2>2 DEF Holds
  <2>4. \A b \in Attrs : ~Holds(p, b)'
    BY <2>2, Jobs DEF Holds
  <2>5. \A b \in Attrs : b # a => ~Holds(p, b)
    BY <1>1 DEF Holds
  <2> QED
    BY <1>1, <2>3, <2>4, <2>5
<1>4. a \in Owed /\ Owed \subseteq Attrs /\ Owed' \subseteq Attrs
  BY <1>1 DEF Owed
<1>5. CASE staged' = [staged EXCEPT ![a] = job[p].ver] /\ Walks_(p, "wrote") /\ UNCHANGED lost
  <2>1. walk'[p] = "wrote"
    BY <1>5, Turns DEF Sound
  <2>2. \A b \in Attrs : b # a => staged'[b] = staged[b]
    BY <1>5 DEF Sound, TypeOK
  <2>3. staged'[a] = job[p].ver
    BY <1>1, <1>5 DEF Sound, TypeOK
  <2>4. Owed' \subseteq Owed
    <3>1. ASSUME NEW b \in Owed', b # a PROVE b \in Owed
      BY <1>2, <1>3, <2>2, <3>1 DEF Owed
    <3> QED
      BY <1>4, <3>1
  <2>5. \A b \in Owed : b # a => b \in Owed'
    BY <1>2, <1>3, <2>1, <2>2 DEF Owed
  <2>6. ASSUME a \notin Owed', a \notin lost PROVE flash[a] = value[a]
    <3>1. ~dirty[a] /\ staged'[a] = flash[a]
      BY <1>1, <1>2, <2>1, <2>6 DEF Owed
    <3>2. job[p].ver = value[a]
      BY <1>1, <2>6, <3>1 DEF Sound, SavedBooks
    <3> QED
      BY <2>3, <3>1, <3>2
  <2>7. Settings!Keep
    <3>1. flash \in [Attrs -> Version \cup {Nothing}]
      BY DEF Sound, TypeOK, Blob
    <3>2. \A b \in Owed \ (Owed' \cup lost) : Settings!Settled(b)'
      BY <1>2, <2>5, <2>6 DEF Settings!Settled
    <3>3. Owed' \in SUBSET Owed
      BY <2>4
    <3> QED
      BY <1>2, <1>5, <3>1, <3>2, <3>3 DEF Settings!Keep, Up
  <2>8. Uncommitted'
    BY <2>1 DEF Uncommitted
  <2> QED
    BY <2>7, <2>8 DEF Settings!Next
<1>6. CASE /\ lost' = lost \cup {a} /\ UNCHANGED staged
           /\ UNCHANGED walk \/ (walk[p] # "wrote" /\ Walks_(p, "opened"))
  <2>1. \A q \in Threads : walk'[q] = "wrote" <=> walk[q] = "wrote"
    BY <1>6, Turns DEF Sound
  <2>2. \A b \in Attrs : b # a => (b \in Owed' <=> b \in Owed)
    BY <1>2, <1>3, <1>6, <2>1 DEF Owed
  <2>3. Owed' \in {Owed, Owed \ {a}}
    BY <1>4, <2>2
  <2>4. Settings!Refuse({a})
    BY <1>2, <1>6, <2>3 DEF Settings!Refuse
  <2>5. Uncommitted'
    <3>1. ASSUME NEW b \in Attrs, b \notin lost', staged[b] # flash[b]
          PROVE  \E q \in Threads : walk'[q] = "wrote" \/ Holds(q, b)'
      BY <1>3, <1>6, <2>1, <3>1 DEF Uncommitted
    <3> QED
      BY <1>2, <1>6, <3>1 DEF Uncommitted
  <2>6. {a} \in SUBSET Owed
    BY <1>4
  <2> QED
    BY <2>4, <2>5, <2>6 DEF Settings!Next
<1>7. walk[p] \in {"flush", "opened", "wrote"}
  BY <1>1 DEF Sound, SavedBooks, Flushing
<1>8. Walks_(p, walk[p]) => UNCHANGED walk
  BY DEF Walks_, Sound, TypeOK
<1> QED
  BY <1>1, <1>5, <1>6, <1>7, <1>8 DEF Store

\* The end of a flush that wrote pays for all blobs there are, its own or another's; a
\* commit that is refused excuses them.
LEMMA KeepsEndFlush ==
  ASSUME Sound, Uncommitted, TypeOK', NEW p \in Threads, EndFlush(p)
  PROVE  Uncommitted' /\ (Settings!Next \/ UNCHANGED Settings!vars)
<1>1. /\ UNCHANGED <<phase, value, dirty, staged, job>> /\ Walks_(p, "none")
      /\ job[p].at # "store" /\ phase \in Up
  BY Jobs DEF EndFlush, Sound, SavedBooks, Up
<1>2. CASE UNCHANGED <<flash, lost>> /\ walk[p] # "wrote"
  <2>1. Blind
    BY <1>1, <1>2, BlindMove, Jobs DEF Sound
  <2> QED
    BY <1>1, <2>1, BlindOwes, BlindKeeps
<1>3. CASE walk[p] = "wrote" /\ flash' = staged /\ UNCHANGED lost
  <2>1. flash' = staged /\ flash' = staged'
    BY <1>1, <1>3
  <2>2. \A q \in Threads, b \in Attrs : Holds(q, b)' <=> Holds(q, b)
    BY <1>1 DEF Holds
  <2>3. Owed' \in SUBSET Owed
    BY <1>1, <2>1, <2>2 DEF Owed
  <2>4. \A b \in Attrs \ Owed : flash'[b] = flash[b]
    BY <1>3, <2>1 DEF Owed
  <2>5. \A b \in Owed \ (Owed' \cup lost) : Settings!Settled(b)'
    <3>1. ASSUME NEW b \in Attrs, b \notin Owed', b \notin lost
          PROVE  staged[b] = value[b] \/ (staged[b] = Nothing /\ value[b] = 0)
      <4>1. ~dirty[b] /\ \A q \in Threads : ~Holds(q, b)
        BY <1>1, <2>2, <3>1 DEF Owed
      <4> QED
        BY <1>1, <3>1, <4>1 DEF Sound, SavedBooks, Saved, Up
    <3> QED
      BY <1>1, <2>1, <3>1 DEF Settings!Settled, Owed
  <2>6. flash' \in [Attrs -> Version \cup {Nothing}]
    BY DEF TypeOK, Blob
  <2>7. Settings!Keep
    BY <1>1, <1>3, <2>3, <2>4, <2>5, <2>6 DEF Settings!Keep, Up
  <2>8. Uncommitted'
    BY <2>1 DEF Uncommitted
  <2> QED
    BY <2>7, <2>8 DEF Settings!Next
<1>4. CASE /\ lost' = lost \cup {b \in Attrs : staged[b] # flash[b]}
           /\ UNCHANGED flash
  <2> DEFINE A == {b \in Attrs : staged[b] # flash[b]}
  <2>1. \A q \in Threads, b \in Attrs : Holds(q, b)' <=> Holds(q, b)
    BY <1>1 DEF Holds
  <2>2. Owed' = Owed
    BY <1>1, <1>4, <2>1 DEF Owed
  <2>3. A \in SUBSET Owed
    BY DEF Owed
  <2>4. Settings!Refuse(A)
    BY <1>1, <1>4, <2>2 DEF Settings!Refuse
  <2>5. Uncommitted'
    BY <1>1, <1>4 DEF Uncommitted
  <2> QED
    BY <2>3, <2>4, <2>5 DEF Settings!Next
<1> QED
  BY <1>2, <1>3, <1>4 DEF EndFlush

\* No flush runs during en2m_start, so what it restores is committed, apart from what
\* NVS refused to commit.
LEMMA KeepsRestore ==
  ASSUME Sound, Uncommitted, Restore
  PROVE  Uncommitted' /\ (Settings!Next \/ UNCHANGED Settings!vars)
<1>1. \A q \in Threads : walk[q] \notin Flushing /\ walk'[q] # "wrote"
  <2>1. \A q \in Threads : walk[q] \notin Flushing
    BY DEF Restore, Sound, SavedBooks
  <2> QED
    BY <2>1, Turns, Names DEF Restore, Sound, Flushing
<1>2. \A q \in Threads, b \in Attrs : ~Holds(q, b) /\ ~Holds(q, b)'
  BY <1>1 DEF Restore, Holds, Sound, SavedBooks
<1>3. UNCHANGED <<staged, flash>> /\ \A b \in Attrs \ lost : staged[b] = flash[b]
  BY <1>1, <1>2 DEF Restore, Uncommitted, Flushing
<1>4. /\ Owed = {b \in Attrs : dirty[b] \/ staged[b] # flash[b]}
      /\ Owed' = {b \in Attrs : dirty'[b] \/ staged[b] # flash[b]}
  BY <1>2, <1>3 DEF Owed
<1>5. phase = "joining" /\ phase' = "applying"
  BY DEF Restore
<1>6. CASE /\ value' = [b \in Attrs |-> IF staged[b] = Nothing THEN value[b] ELSE staged[b]]
           /\ dirty' = [b \in Attrs |-> dirty[b] /\ staged[b] = Nothing]
           /\ UNCHANGED lost
  <2>1. Owed' \in SUBSET Owed
    BY <1>4, <1>6
  <2>2. ASSUME NEW b \in Attrs, b \notin Owed' \cap lost
        PROVE  /\ value'[b] = IF flash[b] = Nothing THEN value[b] ELSE flash[b]
               /\ b \in Owed' <=> b \in Owed /\ flash[b] = Nothing
    <3>1. staged[b] = flash[b]
      BY <1>3, <1>4, <2>2
    <3> QED
      BY <1>4, <1>6, <3>1
  <2>3. value' \in [Attrs -> Version]
    <3>1. \A b \in Attrs : staged[b] # Nothing => staged[b] \in Version
      BY DEF Sound, TypeOK, Blob
    <3> QED
      BY <1>6, <3>1 DEF Sound, TypeOK
  <2>4. Settings!Start
    BY <1>3, <1>5, <1>6, <2>1, <2>2, <2>3 DEF Settings!Start
  <2>5. Uncommitted'
    BY <1>3, <1>6 DEF Uncommitted
  <2> QED
    BY <2>4, <2>5 DEF Settings!Next
<1>7. CASE lost' = Attrs /\ UNCHANGED <<value, dirty>>
  <2>1. Settings!StartBlind
    BY <1>3, <1>4, <1>5, <1>7 DEF Settings!StartBlind
  <2>2. Uncommitted'
    BY <1>7 DEF Uncommitted
  <2> QED
    BY <2>1, <2>2 DEF Settings!Next
<1> QED
  BY <1>6, <1>7 DEF Restore

LEMMA KeepsPowerCut ==
  ASSUME Sound, Uncommitted, TypeOK', PowerCut
  PROVE  Uncommitted' /\ (Settings!Next \/ UNCHANGED Settings!vars)
<1>1. \A q \in Threads : job'[q] = Idle /\ walk'[q] = "none"
  BY DEF PowerCut
<1>2. \A q \in Threads, b \in Attrs : ~Holds(q, b)'
  BY <1>1, Jobs DEF Holds
<1>3. Owed' = {}
  BY <1>1, <1>2 DEF Owed, PowerCut
<1>4. \A b \in Attrs \ Owed : flash'[b] = flash[b]
  <2>1. ASSUME NEW b \in Attrs, b \notin Owed PROVE staged[b] = flash[b]
    BY <2>1 DEF Owed, Uncommitted
  <2> QED
    BY <2>1 DEF PowerCut
<1>5. Settings!PowerCut
  BY <1>3, <1>4 DEF Settings!PowerCut, Settings!Fresh, Fresh, PowerCut, TypeOK, Blob
<1>6. Uncommitted'
  BY DEF PowerCut, Uncommitted
<1> QED
  BY <1>5, <1>6 DEF Settings!Next

LEMMA KeepsStep ==
  ASSUME Sound, Uncommitted, [Next]_vars
  PROVE  Uncommitted' /\ (Settings!Next \/ UNCHANGED Settings!vars)
<1>1. TypeOK'
  BY TypeStep DEF Sound
<1> QED
  BY <1>1, KeepsBlind, KeepsCommit, KeepsVisit, KeepsStore, KeepsEndFlush, KeepsRestore,
     KeepsPowerCut DEF Next

LEMMA KeepsInit == Init => Uncommitted /\ Settings!Init
<1> SUFFICES ASSUME Init PROVE Uncommitted /\ Settings!Init
  OBVIOUS
<1>1. \A q \in Threads, b \in Attrs : ~Holds(q, b)
  BY Jobs DEF Init, Holds
<1>2. Owed = {}
  BY <1>1 DEF Owed, Init
<1> QED
  BY <1>2 DEF Init, Uncommitted, Settings!Init, Settings!Fresh, Fresh

\* The store implements PersistentStore: whatever three threads, two flushes, failing
\* NVS calls and power cuts do, the flash changes only where a change is owed and a debt
\* is paid only with the present value.
THEOREM KeepsSettingsHolds == Spec => KeepsSettings
<1>1. Init => Sound /\ Uncommitted /\ Settings!Init
  BY SoundInit, KeepsInit
<1>2. Sound /\ Uncommitted /\ [Next]_vars => Sound' /\ Uncommitted'
  BY SoundStep, KeepsStep
<1>3. Sound /\ Uncommitted /\ [Next]_vars => [Settings!Next]_(Settings!vars)
  BY KeepsStep
<1> QED
  BY <1>1, <1>2, <1>3, PTL DEF Spec, KeepsSettings, Settings!Spec

\* Apart from what is owed and what NVS refused, a running device's values would all be
\* back after a power cut.
THEOREM RememberedHolds == Spec => []Remembered
<1>1. Sound /\ Uncommitted => Remembered
  <2> SUFFICES ASSUME Sound, Uncommitted, phase \in Up,
                      NEW a \in Attrs, a \notin Owed, a \notin lost
               PROVE  flash[a] = value[a] \/ (flash[a] = Nothing /\ value[a] = 0)
    BY DEF Remembered, Settings!Remembers, Settings!Settled, Up
  <2>1. ~dirty[a] /\ (\A p \in Threads : ~Holds(p, a)) /\ staged[a] = flash[a]
    BY DEF Owed, Uncommitted
  <2> QED
    BY <2>1 DEF Sound, SavedBooks, Saved, Up
<1>2. Sound /\ Uncommitted /\ [Next]_vars => Sound' /\ Uncommitted'
  BY SoundStep, KeepsStep
<1>3. Init => Sound /\ Uncommitted
  BY SoundInit, KeepsInit
<1> QED
  BY <1>1, <1>2, <1>3, PTL DEF Spec
=============================================================================
