------------------------------ MODULE DeviceStore ------------------------------
(***************************************************************************)
(* The attribute store of a device: who changes a value, how it reaches    *)
(* the flash and how it is reported (en2m_datamodel.c, en2m_model.c).      *)
(*                                                                         *)
(* Three threads share the store: the en2m task (commands, items deferred  *)
(* from an ISR, the tick with flush and report), an application task       *)
(* (en2m_attribute_set, en2m_attribute_write) and the main task            *)
(* (en2m_start, en2m_stop).  A step is what a thread does between two      *)
(* moments at which another can run: a locked section, a callback, an NVS  *)
(* call.  A value is a version number: every change brings a new one.      *)
(***************************************************************************)
EXTENDS Naturals

CONSTANTS
  Attrs,         \* the persisted attributes of the device
  OnChangeOnly,  \* report_mode is EN2M_REPORT_ON_CHANGE_ONLY, else DEFAULT
  Nothing,       \* no blob under the attribute's key
  MaxChanges,    \* bound of the model: new values
  MaxFaults,     \* bound of the model: NVS calls that fail, reports and links lost
  MaxStops,      \* bound of the model: calls of en2m_stop
  MaxPowerCuts   \* bound of the model: power cuts

Threads == {"en2m", "app", "main"}
Version == 0..MaxChanges   \* 0 is the factory default

\* What a thread is about to do with one attribute.
Idle == [at |-> "idle"]
Notifying == [at |-> "notify"]
Job == {Idle, Notifying}
       \cup [at : {"drive", "commit", "store"}, attr : Attrs, ver : Version]

\* The loop a thread is in; a flush is "opened" after nvs_open and "wrote"
\* after the first blob.
Walks == {"none", "command", "apply", "refresh", "build", "flush", "opened", "wrote"}
Flushing == {"flush", "opened", "wrote"}

ASSUME StoreAssumption ==
  /\ OnChangeOnly \in BOOLEAN
  /\ MaxChanges \in Nat /\ MaxFaults \in Nat /\ MaxStops \in Nat /\ MaxPowerCuts \in Nat
  /\ Nothing \notin Version

VARIABLES
  phase,     \* en2m_start and en2m_stop: how far the component is up
  value,     \* slot->value
  dirty,     \* slot->persist_dirty
  staged,    \* blobs as nvs_get_blob returns them
  flash,     \* blobs as of the last nvs_commit
  job,       \* per thread: the step on one attribute it is in
  walk,      \* per thread: the loop it is in
  todo,      \* per thread: attributes that loop has still to visit
  seen,      \* the report the en2m task is building
  next,      \* next_report_ms is not 0
  attached,  \* the node has a parent
  shown,     \* the last report that reached the coordinator
  clock,     \* versions handed out so far
  faults, stops, cuts,  \* counters of the model's bounds
  lost       \* history: attributes NVS refused to store or commit, or two flushes held

threads == <<job, walk, todo, seen>>
saved   == <<dirty, staged, flash, lost>>
report  == <<next, attached, shown>>
counts  == <<faults, stops, cuts>>
vars == <<phase, value, dirty, staged, flash, job, walk, todo, seen,
          next, attached, shown, clock, faults, stops, cuts, lost>>

Blob == Version \cup {Nothing}

TypeOK ==
  /\ phase \in {"down", "joining", "applying", "started", "stopping"}
  /\ value \in [Attrs -> Version] /\ dirty \in [Attrs -> BOOLEAN]
  /\ staged \in [Attrs -> Blob] /\ flash \in [Attrs -> Blob]
  /\ job \in [Threads -> Job] /\ walk \in [Threads -> Walks]
  /\ todo \in [Threads -> SUBSET Attrs] /\ seen \in [Attrs -> Version]
  /\ next \in BOOLEAN /\ attached \in BOOLEAN /\ shown \in [Attrs -> Version]
  /\ clock \in Version /\ lost \subseteq Attrs
  /\ faults \in 0..MaxFaults /\ stops \in 0..MaxStops /\ cuts \in 0..MaxPowerCuts

Fresh == [a \in Attrs |-> 0]

Init ==
  /\ phase = "down"
  /\ value = Fresh /\ dirty = [a \in Attrs |-> FALSE]
  /\ staged = [a \in Attrs |-> Nothing] /\ flash = staged
  /\ job = [p \in Threads |-> Idle] /\ walk = [p \in Threads |-> "none"]
  /\ todo = [p \in Threads |-> {}] /\ seen = Fresh
  /\ next = FALSE /\ attached = TRUE /\ shown = Fresh
  /\ clock = 0 /\ faults = 0 /\ stops = 0 /\ cuts = 0 /\ lost = {}

Goes(p, j)  == job' = [job EXCEPT ![p] = j]
Walks_(p, w) == walk' = [walk EXCEPT ![p] = w]
Fault == faults < MaxFaults /\ faults' = faults + 1

\* Thread p is between two steps of loop w.
In(p, w) == job[p] = Idle /\ walk[p] = w

-----------------------------------------------------------------------------
(* New values. *)

\* A thread takes up a new version of attribute a.
Begin(p, a, step) ==
  /\ clock < MaxChanges
  /\ clock' = clock + 1
  /\ Goes(p, [at |-> step, attr |-> a, ver |-> clock + 1])
  /\ UNCHANGED <<phase, value, saved, todo, seen, report, counts>>

\* en2m_attribute_set, en2m_attribute_write on an application task.
AppSet(a)   == In("app", "none") /\ Begin("app", a, "commit") /\ UNCHANGED walk
AppWrite(a) == In("app", "none") /\ Begin("app", a, "drive") /\ UNCHANGED walk

\* en2m_task takes an EN2M_ITEM_ATTR out of its queue; the Identify countdown and
\* a button's work item set their attributes the same way.
IsrItem(a) ==
  /\ phase # "down" /\ In("en2m", "none")
  /\ Begin("en2m", a, "commit") /\ UNCHANGED walk

\* en2m_model_on_command_frame: the command writes one attribute or more, ...
CommandFrame(a) ==
  /\ \/ phase = "started" /\ In("en2m", "none")
     \/ In("en2m", "command")
  /\ Begin("en2m", a, "drive") /\ Walks_("en2m", "command")

\* ... then, whatever came of it, a report is scheduled.
CommandDone ==
  /\ In("en2m", "command")
  /\ Walks_("en2m", "none")
  /\ next' = (next \/ phase = "started")
  /\ UNCHANGED <<phase, value, saved, job, todo, seen, attached, shown,
                 clock, counts>>

\* en2m_report_now, en2m_report_schedule on an application task.
ReportNow ==
  /\ phase = "started" /\ In("app", "none")
  /\ next' = TRUE
  /\ UNCHANGED <<phase, value, saved, threads, attached, shown, clock, counts>>

\* en2m_dm_refresh, attribute by attribute: no read callback or one that fails;
\* one that leaves the value it was handed, which is then set again whatever
\* happened meanwhile; one with a new value.
Refresh(a) ==
  /\ In("en2m", "refresh") /\ a \in todo["en2m"]
  /\ todo' = [todo EXCEPT !["en2m"] = @ \ {a}]
  /\ \/ UNCHANGED <<job, clock>>
     \/ Goes("en2m", [at |-> "commit", attr |-> a, ver |-> value[a]]) /\ UNCHANGED clock
     \/ /\ clock < MaxChanges /\ clock' = clock + 1
        /\ Goes("en2m", [at |-> "commit", attr |-> a, ver |-> clock + 1])
  /\ UNCHANGED <<phase, value, saved, walk, seen, report, counts>>

\* en2m_attribute_write, without the lock: the callback drives the hardware,
\* which the model leaves out, or rejects the value.
Drive(p) ==
  /\ job[p].at = "drive"
  /\ \/ Goes(p, [job[p] EXCEPT !.at = "commit"])
     \/ Goes(p, Idle)
  /\ UNCHANGED <<phase, value, saved, walk, todo, seen, report, clock, counts>>

\* en2m_attribute_set, under the lock.
Commit(p) ==
  /\ job[p].at = "commit"
  /\ LET a == job[p].attr IN
       IF value[a] = job[p].ver
       THEN Goes(p, Idle) /\ UNCHANGED <<value, dirty>>
       ELSE /\ value' = [value EXCEPT ![a] = job[p].ver]
            /\ dirty' = [dirty EXCEPT ![a] = TRUE]
            /\ Goes(p, Notifying)
  /\ UNCHANGED <<phase, staged, flash, lost, walk, todo, seen, report,
                 clock, counts>>

\* en2m_model_on_change, after the lock.
Notify(p) ==
  /\ job[p] = Notifying
  /\ Goes(p, Idle)
  /\ next' = (next \/ phase = "started")
  /\ UNCHANGED <<phase, value, saved, walk, todo, seen, attached, shown,
                 clock, counts>>

-----------------------------------------------------------------------------
(* en2m_dm_flush_persist, by the tick or by en2m_stop. *)

TickFlush ==
  /\ phase = "started" /\ In("en2m", "none")
  /\ Walks_("en2m", "flush")
  /\ todo' = [todo EXCEPT !["en2m"] = Attrs]
  /\ UNCHANGED <<phase, value, saved, job, seen, report, clock, counts>>

\* Some other thread has taken attribute a for the flash and not stored it yet.
HeldByOther(p, a) ==
  \E q \in Threads \ {p} : job[q].at = "store" /\ job[q].attr = a

\* Under the lock: a dirty attribute is taken and its flag cleared.
Visit(p, a) ==
  /\ job[p] = Idle /\ walk[p] \in Flushing /\ a \in todo[p]
  /\ todo' = [todo EXCEPT ![p] = @ \ {a}]
  /\ IF dirty[a]
     THEN /\ dirty' = [dirty EXCEPT ![a] = FALSE]
          /\ Goes(p, [at |-> "store", attr |-> a, ver |-> value[a]])
          /\ lost' = IF HeldByOther(p, a) THEN lost \cup {a} ELSE lost \ {a}
     ELSE UNCHANGED <<dirty, job, lost>>
  /\ UNCHANGED <<phase, value, staged, flash, walk, seen, report, clock,
                 counts>>

(* Definitions named <definition>_<Mistake> are faulty variants that a      *)
(* property has to catch; no specification uses them.                       *)

\* Faulty: the flag is cleared once the blob is written.
Store_ClearsFlag(p) ==
  /\ job[p].at = "store"
  /\ Goes(p, Idle)
  /\ staged' = [staged EXCEPT ![job[p].attr] = job[p].ver]
  /\ dirty' = [dirty EXCEPT ![job[p].attr] = FALSE]
  /\ Walks_(p, "wrote")
  /\ UNCHANGED <<phase, value, flash, lost, todo, seen, report, clock, counts>>

\* Without the lock: nvs_open for the first blob, nvs_set_blob.
Store(p) ==
  /\ job[p].at = "store"
  /\ Goes(p, Idle)
  /\ \/ /\ staged' = [staged EXCEPT ![job[p].attr] = job[p].ver]
        /\ Walks_(p, "wrote")
        /\ UNCHANGED <<todo, lost, faults>>
     \/ \* nvs_set_blob fails: the next attribute's turn
        /\ Fault
        /\ lost' = lost \cup {job[p].attr}
        /\ Walks_(p, IF walk[p] = "flush" THEN "opened" ELSE walk[p])
        /\ UNCHANGED <<todo, staged>>
     \/ \* nvs_open fails: the flush ends
        /\ Fault /\ walk[p] = "flush"
        /\ lost' = lost \cup {job[p].attr}
        /\ todo' = [todo EXCEPT ![p] = {}]
        /\ UNCHANGED <<walk, staged>>
  /\ UNCHANGED <<phase, value, dirty, flash, seen, report, clock, stops, cuts>>

\* Faulty: the blobs are never committed.
EndFlush_NoCommit(p) ==
  /\ job[p] = Idle /\ walk[p] \in Flushing /\ todo[p] = {}
  /\ Walks_(p, "none")
  /\ UNCHANGED <<phase, value, saved, job, todo, seen, report, clock, counts>>

\* The end of the flush: nvs_commit, if a blob was written; its result is ignored.
EndFlush(p) ==
  /\ job[p] = Idle /\ walk[p] \in Flushing /\ todo[p] = {}
  /\ Walks_(p, "none")
  /\ \/ /\ flash' = IF walk[p] = "wrote" THEN staged ELSE flash
        /\ UNCHANGED <<lost, faults>>
     \/ \* nvs_commit fails
        /\ Fault /\ walk[p] = "wrote"
        /\ lost' = lost \cup {a \in Attrs : staged[a] # flash[a]}
        /\ UNCHANGED flash
  /\ UNCHANGED <<phase, value, dirty, staged, job, todo, seen, report, clock,
                 stops, cuts>>

-----------------------------------------------------------------------------
(* en2m_model_tick: the report. *)

\* Faulty: the periodic keepalive is forgotten.
TickReport_NoKeepalive ==
  /\ phase = "started" /\ In("en2m", "none") /\ next
  /\ Walks_("en2m", "refresh")
  /\ todo' = [todo EXCEPT !["en2m"] = Attrs]
  /\ UNCHANGED <<phase, value, saved, job, seen, report, clock, counts>>

\* A report is due: scheduled, or the keepalive of the default mode.
TickReport ==
  /\ phase = "started" /\ In("en2m", "none")
  /\ next \/ ~OnChangeOnly
  /\ Walks_("en2m", "refresh")
  /\ todo' = [todo EXCEPT !["en2m"] = Attrs]
  /\ UNCHANGED <<phase, value, saved, job, seen, report, clock, counts>>

BuildReport ==
  /\ In("en2m", "refresh") /\ todo["en2m"] = {}
  /\ Walks_("en2m", "build")
  /\ todo' = [todo EXCEPT !["en2m"] = Attrs]
  /\ UNCHANGED <<phase, value, saved, job, seen, report, clock, counts>>

\* en2m_report_build reads one attribute at a time.
ReadValue(a) ==
  /\ In("en2m", "build") /\ a \in todo["en2m"]
  /\ todo' = [todo EXCEPT !["en2m"] = @ \ {a}]
  /\ seen' = [seen EXCEPT ![a] = value[a]]
  /\ UNCHANGED <<phase, value, saved, job, walk, report, clock, counts>>

\* en2m_report_transmit: what was scheduled is done, sent or not.  Nothing
\* reads next between the send and its reset, so they are one step.
Transmit ==
  /\ In("en2m", "build") /\ todo["en2m"] = {}
  /\ Walks_("en2m", "none")
  /\ next' = FALSE
  /\ \/ attached /\ shown' = seen /\ UNCHANGED faults
     \/ attached /\ Fault /\ UNCHANGED shown
     \/ ~attached /\ UNCHANGED <<shown, faults>>
  /\ UNCHANGED <<phase, value, saved, job, todo, seen, attached, clock,
                 stops, cuts>>

\* en2m_expire_parent, en2m_consider_parent; en2m_model_on_link_change.
LinkLost ==
  /\ phase # "down" /\ In("en2m", "none") /\ attached
  /\ Fault /\ attached' = FALSE
  /\ UNCHANGED <<phase, value, saved, threads, next, shown, clock, stops, cuts>>

LinkFound ==
  /\ phase # "down" /\ In("en2m", "none") /\ ~attached
  /\ attached' = TRUE
  /\ next' = (next \/ phase = "started")
  /\ UNCHANGED <<phase, value, saved, threads, shown, clock, counts>>

-----------------------------------------------------------------------------
(* The main task: en2m_start, en2m_stop; and the power. *)

\* en2m_mesh_init: the en2m task runs from here on.
MeshInit ==
  /\ phase = "down" /\ phase' = "joining"
  /\ UNCHANGED <<value, saved, threads, report, clock, counts>>

\* Faulty: the result of nvs_get_blob is not looked at.
Restore_Unchecked ==
  /\ phase = "joining" /\ phase' = "applying"
  /\ Walks_("main", "apply") /\ todo' = [todo EXCEPT !["main"] = Attrs]
  /\ value' = staged
  /\ dirty' = [a \in Attrs |-> FALSE]
  /\ UNCHANGED <<staged, flash, lost, job, seen, report, clock, counts>>

\* en2m_dm_restore, under the lock.
Restore ==
  /\ phase = "joining" /\ phase' = "applying"
  /\ Walks_("main", "apply") /\ todo' = [todo EXCEPT !["main"] = Attrs]
  /\ \/ /\ value' = [a \in Attrs |-> IF staged[a] = Nothing THEN value[a] ELSE staged[a]]
        /\ dirty' = [a \in Attrs |-> dirty[a] /\ staged[a] = Nothing]
        /\ UNCHANGED <<lost, faults>>
     \/ \* nvs_open fails
        /\ Fault /\ lost' = Attrs
        /\ UNCHANGED <<value, dirty>>
  /\ UNCHANGED <<staged, flash, job, seen, report, clock, stops, cuts>>

\* en2m_model_apply_persisted: read one attribute, drive it.
Apply(a) ==
  /\ In("main", "apply") /\ a \in todo["main"]
  /\ todo' = [todo EXCEPT !["main"] = @ \ {a}]
  /\ Goes("main", [at |-> "drive", attr |-> a, ver |-> value[a]])
  /\ UNCHANGED <<phase, value, saved, walk, seen, report, clock, counts>>

Started ==
  /\ phase = "applying" /\ phase' = "started"
  /\ In("main", "apply") /\ todo["main"] = {}
  /\ Walks_("main", "none") /\ next' = TRUE
  /\ UNCHANGED <<value, saved, job, todo, seen, attached, shown, clock, counts>>

\* en2m_stop: the main task flushes while the en2m task may still run.
Stop ==
  /\ phase = "started" /\ phase' = "stopping"
  /\ In("main", "none")
  /\ stops < MaxStops /\ stops' = stops + 1
  /\ Walks_("main", "flush") /\ todo' = [todo EXCEPT !["main"] = Attrs]
  /\ UNCHANGED <<value, saved, job, seen, report, clock, faults, cuts>>

\* en2m_mesh_deinit: the en2m task has left its loop, the data model is kept.
Deinit ==
  /\ phase = "stopping" /\ phase' = "down"
  /\ In("main", "none") /\ In("en2m", "none")
  /\ UNCHANGED <<value, saved, threads, report, clock, counts>>

\* A power cut: blobs not committed yet may or may not be there afterwards.
PowerCut ==
  /\ cuts < MaxPowerCuts /\ cuts' = cuts + 1
  /\ phase' = "down"
  /\ value' = Fresh /\ dirty' = [a \in Attrs |-> FALSE]
  /\ \E S \in SUBSET Attrs :
       staged' = [a \in Attrs |-> IF a \in S THEN staged[a] ELSE flash[a]]
  /\ flash' = staged'
  /\ job' = [p \in Threads |-> Idle] /\ walk' = [p \in Threads |-> "none"]
  /\ todo' = [p \in Threads |-> {}] /\ seen' = Fresh
  /\ next' = FALSE /\ lost' = {}
  /\ UNCHANGED <<attached, shown, clock, faults, stops>>

Next ==
  \/ \E a \in Attrs : \/ AppSet(a) \/ AppWrite(a) \/ IsrItem(a) \/ CommandFrame(a)
                      \/ Refresh(a) \/ ReadValue(a) \/ Apply(a)
  \/ \E p \in Threads : Drive(p) \/ Commit(p) \/ Notify(p) \/ Store(p) \/ EndFlush(p)
  \/ \E p \in Threads, a \in Attrs : Visit(p, a)
  \/ CommandDone \/ ReportNow \/ TickFlush \/ TickReport \/ BuildReport \/ Transmit
  \/ LinkLost \/ LinkFound
  \/ MeshInit \/ Restore \/ Started \/ Stop \/ Deinit
  \/ PowerCut

Spec == Init /\ [][Next]_vars

(***************************************************************************)
(* Fairness: every thread goes on with what it has begun, the en2m task    *)
(* returns to its tick, en2m_start and en2m_stop end.  The tick's flush    *)
(* and report compete with items and commands for the task (strong         *)
(* fairness): each falls due again and again and the queue is served one   *)
(* item per turn.  Nobody has to change a value, start or stop.            *)
(***************************************************************************)
Fairness ==
  /\ \A p \in Threads : /\ WF_vars(Drive(p)) /\ WF_vars(Commit(p)) /\ WF_vars(Notify(p))
                        /\ WF_vars(Store(p)) /\ WF_vars(EndFlush(p))
                        /\ \A a \in Attrs : WF_vars(Visit(p, a))
  /\ \A a \in Attrs : WF_vars(Refresh(a)) /\ WF_vars(ReadValue(a)) /\ WF_vars(Apply(a))
  /\ WF_vars(CommandDone) /\ WF_vars(BuildReport) /\ WF_vars(Transmit)
  /\ SF_vars(TickFlush) /\ SF_vars(TickReport)
  /\ WF_vars(Restore) /\ WF_vars(Started) /\ WF_vars(Deinit)

FairSpec == Spec /\ Fairness

-----------------------------------------------------------------------------
(* Properties. *)

Holds(p, a) == job[p].at = "store" /\ job[p].attr = a

\* While the component is up, every value is in NVS, marked for the next
\* flush or in the hands of a flush, however sets, two flushes, errors and
\* power cuts interleave; the exceptions are what NVS refused and what two
\* flushes held at once.
Saved ==
  phase \in {"applying", "started", "stopping"} =>
    \A a \in Attrs \ lost :
      \/ dirty[a]
      \/ staged[a] = value[a]
      \/ \E p \in Threads : Holds(p, a) /\ job[p].ver = value[a]
      \/ staged[a] = Nothing /\ value[a] = 0

\* What Saved rests on: an attribute is in one hand, that hand's copy is the
\* current value unless the attribute is dirty again, only a flush of a component
\* that is up has hands, and a value without a blob is never forgotten, not even
\* across en2m_stop and en2m_start.
SavedBooks ==
  /\ Saved
  /\ \A p \in Threads, a \in Attrs : Holds(p, a) /\ a \notin lost =>
       /\ job[p].ver = value[a] \/ dirty[a]
       /\ \A q \in Threads : Holds(q, a) => q = p
  /\ \A p \in Threads, a \in Attrs : Holds(p, a) => walk[p] \in Flushing
  /\ \A p \in Threads :
       walk[p] \in Flushing => p # "app" /\ phase \in {"started", "stopping"}
  /\ \A a \in Attrs \ lost :
       staged[a] = Nothing => dirty[a] \/ value[a] = 0 \/ \E p \in Threads : Holds(p, a)

\* What the flash need not hold yet: a change marked for a flush, in the hands of one,
\* or written and not committed.
Owed ==
  {a \in Attrs : \/ dirty[a]
                 \/ \E p \in Threads : Holds(p, a)
                 \/ staged[a] # flash[a]}

Settings == INSTANCE PersistentStore WITH
  Default <- 0, on <- phase \in {"applying", "started", "stopping"}, kept <- flash,
  owed <- Owed, excused <- lost

\* Three threads, two of which flush, flags, copies and NVS in two steps do what
\* PersistentStore promises.
KeepsSettings == Settings!Spec

\* No value is committed and forgotten: apart from what is owed and what NVS refused
\* the flash has the present values.
Remembered == Settings!Remembers

\* A blob that is not committed yet is some running flush's, about to be written
\* again, or what NVS refused to commit.
Uncommitted ==
  \A a \in Attrs \ lost : staged[a] # flash[a] =>
    \E p \in Threads : walk[p] = "wrote" \/ Holds(p, a)

\* Once a started device's values stop changing, the flash holds them, so that
\* they survive a reboot, unless NVS refused to store or commit them.
FlashCatchesUp ==
  <>[](phase = "started") => <>[](\A a \in Attrs \ lost :
                                    flash[a] = value[a] \/ value[a] = 0)

\* The host learns of every change: once the device stays up and attached,
\* the report the coordinator got last shows the present values.
ReportsCatchUp ==
  <>[](phase = "started" /\ attached) => <>[](shown = value)
=============================================================================
