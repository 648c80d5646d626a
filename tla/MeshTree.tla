------------------------------- MODULE MeshTree -------------------------------
(***************************************************************************)
(* How routers and leaves find their way to the coordinator: beacons, the  *)
(* choice of a parent and its loss (en2m_mesh.c).                          *)
(*                                                                         *)
(* Every node runs its own en2m task.  The coordinator and each attached   *)
(* router broadcast one beacon per beacon period with their path cost; a   *)
(* beacon reaches the linked nodes that are on, in any order, and may be   *)
(* lost.  Time is counted in beacon periods: age is the number of periods  *)
(* that began since parent_last_us was written.                            *)
(***************************************************************************)
EXTENDS Naturals, FiniteSets

CONSTANTS
  Coord,      \* the coordinator
  Routers,    \* mains-powered nodes: they beacon and forward
  Leaves,     \* nodes that only attach
  Links,      \* pairs of nodes within radio range of each other
  HopLimit,   \* EN2M_HOP_LIMIT
  StaleAge,   \* EN2M_PARENT_STALE_MS in beacon periods
  NoParent,   \* has_parent is false
  NoCost,     \* path_cost of a node without a parent: 255
  MaxFaults,  \* bound of the model: nodes switched off
  MaxLosses   \* bound of the model: beacons lost

Members == Routers \cup Leaves
Senders == Routers \cup {Coord}
Nodes   == Members \cup {Coord}

\* A node ignores its own frames.
Linked(n) == {m \in Nodes \ {n} : <<n, m>> \in Links \/ <<m, n>> \in Links}

Costs  == 0..HopLimit
Beacon == [from : Senders, to : Members, cost : Costs]

ASSUME NodesAssumption ==
  /\ Coord \notin Members /\ NoParent \notin Nodes
  /\ Routers \cap Leaves = {}
ASSUME LimitsAssumption ==
  /\ HopLimit \in Nat /\ NoCost \in Nat /\ NoCost > HopLimit
  /\ StaleAge \in Nat /\ StaleAge > 1
  /\ MaxFaults \in Nat /\ MaxLosses \in Nat

VARIABLES
  up,      \* nodes that are on
  parent,  \* parent_mac of each member, or NoParent
  cost,    \* path_cost of each node
  age,     \* beacon periods since parent_last_us
  turn,    \* nodes whose beacon of this period is done
  air,     \* beacons sent and not yet handled
  faults,  \* nodes switched off so far
  losses,  \* beacons lost so far
  churn    \* history: some path was given up (parent stale, node off)

vars == <<up, parent, cost, age, turn, air, faults, losses, churn>>

TypeOK ==
  /\ up \subseteq Nodes
  /\ parent \in [Members -> Senders \cup {NoParent}]
  /\ cost \in [Nodes -> Costs \cup {NoCost}]
  /\ age \in [Members -> 0..StaleAge]
  /\ turn \subseteq Nodes
  /\ air \subseteq Beacon
  /\ faults \in 0..MaxFaults /\ losses \in 0..MaxLosses
  /\ churn \in BOOLEAN

\* Nodes are switched on in any order; those that are on have just booted.
Init ==
  /\ up \in SUBSET Nodes
  /\ parent = [n \in Members |-> NoParent]
  /\ cost = [n \in Nodes |-> IF n = Coord THEN 0 ELSE NoCost]
  /\ age = [n \in Members |-> 0]
  /\ turn = {} /\ air = {} /\ faults = 0 /\ losses = 0 /\ churn = FALSE

-----------------------------------------------------------------------------
Attached(n) == n = Coord \/ parent[n] # NoParent

\* The beacon part of en2m_maintenance, en2m_send_beacon: a router without a
\* parent lets its turn pass.
SendBeacon(n) ==
  /\ n \in up \cap Senders /\ n \notin turn
  /\ turn' = turn \cup {n}
  /\ air' = IF Attached(n)
            THEN air \cup {[from |-> n, to |-> m, cost |-> cost[n]]
                             : m \in Linked(n) \cap up \cap Members}
            ELSE air
  /\ UNCHANGED <<up, parent, cost, age, faults, losses, churn>>

(* Definitions named <definition>_<Mistake> are faulty variants that a      *)
(* property has to catch; no specification uses them.                       *)

\* Faulty: a stronger signal wins whatever it costs.
Better_Signal(b, stronger) ==
  parent[b.to] = NoParent \/ b.cost + 1 < cost[b.to]
    \/ (b.from # parent[b.to] /\ stronger)

\* Does en2m_consider_parent prefer beacon b?  stronger: its rssi beats the
\* neighbour table's value for the present parent by more than 8.
Better(b, stronger) ==
  \/ parent[b.to] = NoParent
  \/ b.cost + 1 < cost[b.to]
  \/ b.cost + 1 = cost[b.to] /\ b.from # parent[b.to] /\ stronger

\* Faulty: any beacon of the parent keeps it fresh.
Refreshes_Any(b) == parent[b.to] = b.from

\* A beacon that only confirms the parent: same sender, same cost.
Refreshes(b) == parent[b.to] = b.from /\ b.cost + 1 = cost[b.to]

\* Faulty: paths beyond the hop limit are taken.
ReceiveBeacon_NoLimit(b, stronger) ==
  LET n == b.to IN
  /\ b \in air
  /\ air' = air \ {b}
  /\ IF Better(b, stronger)
     THEN /\ parent' = [parent EXCEPT ![n] = b.from]
          /\ cost' = [cost EXCEPT ![n] = b.cost + 1]
          /\ age' = [age EXCEPT ![n] = 0]
     ELSE /\ age' = IF Refreshes(b) THEN [age EXCEPT ![n] = 0] ELSE age
          /\ UNCHANGED <<parent, cost>>
  /\ UNCHANGED <<up, turn, faults, losses, churn>>

\* en2m_handle_rx on a beacon, en2m_consider_parent.
ReceiveBeacon(b, stronger) ==
  LET n == b.to IN
  /\ b \in air
  /\ air' = air \ {b}
  /\ IF b.cost + 1 > HopLimit
     THEN UNCHANGED <<parent, cost, age>>
     ELSE \/ /\ Better(b, stronger)
             /\ parent' = [parent EXCEPT ![n] = b.from]
             /\ cost' = [cost EXCEPT ![n] = b.cost + 1]
             /\ age' = [age EXCEPT ![n] = 0]
          \/ /\ ~Better(b, stronger)
             /\ age' = IF Refreshes(b) THEN [age EXCEPT ![n] = 0] ELSE age
             /\ UNCHANGED <<parent, cost>>
  /\ UNCHANGED <<up, turn, faults, losses, churn>>

\* The radio or a full receive queue loses a beacon.
LoseBeacon(b) ==
  /\ b \in air
  /\ losses < MaxLosses
  /\ air' = air \ {b} /\ losses' = losses + 1
  /\ UNCHANGED <<up, parent, cost, age, turn, faults, churn>>

\* en2m_expire_parent, from en2m_maintenance.
ExpireParent(n) ==
  /\ n \in up \cap Members
  /\ parent[n] # NoParent /\ age[n] >= StaleAge
  /\ parent' = [parent EXCEPT ![n] = NoParent]
  /\ cost' = [cost EXCEPT ![n] = NoCost]
  /\ churn' = TRUE
  /\ UNCHANGED <<up, age, turn, air, faults, losses>>

\* The next beacon period begins: every node had its turn, the beacons were
\* handled or lost, and no maintenance tick is overdue.
NextPeriod ==
  /\ up \cap Senders \subseteq turn
  /\ air = {}
  /\ \A n \in up \cap Members : parent[n] # NoParent => age[n] < StaleAge
  /\ age' = [n \in Members |-> IF n \in up /\ parent[n] # NoParent
                               THEN age[n] + 1 ELSE 0]
  /\ turn' = {}
  /\ UNCHANGED <<up, parent, cost, air, faults, losses, churn>>

\* A node goes off: what it knew is gone, what is on its way to it is lost.
PowerOff(n) ==
  /\ n \in up /\ faults < MaxFaults
  /\ faults' = faults + 1
  /\ up' = up \ {n}
  /\ parent' = [m \in Members |-> IF m = n THEN NoParent ELSE parent[m]]
  /\ cost' = [cost EXCEPT ![n] = IF n = Coord THEN 0 ELSE NoCost]
  /\ age' = [m \in Members |-> IF m = n THEN 0 ELSE age[m]]
  /\ air' = {b \in air : b.to # n}
  /\ churn' = TRUE
  /\ UNCHANGED <<turn, losses>>

\* en2m_mesh_init: the first beacon comes a beacon interval after the boot.
PowerOn(n) ==
  /\ n \notin up
  /\ up' = up \cup {n}
  /\ turn' = turn \cup {n}
  /\ UNCHANGED <<parent, cost, age, air, faults, losses, churn>>

Next ==
  \/ \E n \in Senders : SendBeacon(n)
  \/ \E b \in air, stronger \in BOOLEAN : ReceiveBeacon(b, stronger)
  \/ \E b \in air : LoseBeacon(b)
  \/ \E n \in Members : ExpireParent(n)
  \/ NextPeriod
  \/ \E n \in Nodes : PowerOff(n) \/ PowerOn(n)

Spec == Init /\ [][Next]_vars

(***************************************************************************)
(* Fairness: time passes, every node's task goes on running its tick and   *)
(* serving its receive queue.                                              *)
(***************************************************************************)
Fairness ==
  /\ \A n \in Senders : WF_vars(SendBeacon(n))
  /\ WF_vars(\E b \in air, stronger \in BOOLEAN : ReceiveBeacon(b, stronger))
  /\ \A n \in Members : WF_vars(ExpireParent(n))
  /\ WF_vars(NextPeriod)

FairSpec == Spec /\ Fairness

-----------------------------------------------------------------------------
(* Properties. *)

\* Within[k]: the nodes at most k hops from the coordinator, over nodes that
\* are on, leaves not forwarding.
Within[k \in Costs] ==
  IF k = 0 THEN up \cap {Coord}
  ELSE Within[k - 1] \cup
       {m \in up \cap Members : Linked(m) \cap Within[k - 1] \cap Senders # {}}

\* Every node in reach of the coordinator sits on a shortest path, and no node
\* out of reach believes it has one.
ShortestPaths ==
  \A n \in up \cap Members :
    IF n \in Within[HopLimit]
    THEN /\ parent[n] # NoParent
         /\ cost[n] > 0 /\ n \notin Within[cost[n] - 1]
         /\ parent[n] \in Linked(n) \cap Within[cost[n] - 1]
    ELSE parent[n] = NoParent

\* The beacons node m would hear if everyone sent one now.
Heard(m) ==
  {[from |-> n, to |-> m, cost |-> cost[n]]
     : n \in {x \in up \cap Senders \cap Linked(m) : Attached(x)}}

\* No such beacon gives anyone a better path, and everyone's parent is confirmed by one.
AtRest ==
  \A m \in up \cap Members :
    /\ \A b \in Heard(m) : b.cost + 1 <= HopLimit => ~Better(b, FALSE)
    /\ parent[m] # NoParent => \E b \in Heard(m) : Refreshes(b)

\* The mesh comes to rest nowhere else: if beacons change nothing any more, there is no
\* better path than the one a node sits on, and no stale one that confirms itself.
RestsShortest == AtRest => ShortestPaths

\* Once nodes stop failing and beacons stop being lost the mesh repairs
\* itself for good: stale paths, also those that count each other up in a
\* circle, die out at the hop limit, and everyone in reach is attached.
Converges == <>[]ShortestPaths

\* Beacons never outbid their sender, costs fall along every path to the
\* coordinator.  So parents cannot form a circle until a path is given up.
CostsFall ==
  ~churn => \A n \in Members : parent[n] # NoParent =>
              Attached(parent[n]) /\ cost[parent[n]] < cost[n]

\* p goes from n to the coordinator in k steps, from parent to parent.
LeadsHome(p, n, k) ==
  /\ p[0] = n /\ p[k] = Coord
  /\ \A i \in 0..(k - 1) : p[i] \in Members /\ parent[p[i]] = p[i + 1]

\* The mesh is a tree: until a path is given up, the parents of every attached node
\* lead to the coordinator, in no more hops than the node's cost says, although each
\* chose its own from beacons that may be late.
Rooted ==
  ~churn => \A n \in Members : parent[n] # NoParent =>
    \E k \in 1..cost[n] : \E p \in [0..k -> Nodes] : LeadsHome(p, n, k)

\* A node gets a longer path only by losing its parent first.
NoCostlierSwitch ==
  [][\A n \in Members : parent[n] # NoParent /\ parent'[n] # NoParent
       => cost'[n] <= cost[n]]_vars

\* A node without a parent claims no path, and a path is within the hop limit.
CostMatchesParent ==
  \A n \in Members : IF parent[n] = NoParent THEN cost[n] = NoCost
                                             ELSE cost[n] \in 1..HopLimit

\* What CostsFall rests on: a beacon on the air promises no less than its
\* sender holds now.
Promises ==
  /\ cost[Coord] = 0
  /\ CostMatchesParent
  /\ \A b \in air : b.from # b.to
  /\ ~churn => \A b \in air : Attached(b.from) /\ cost[b.from] <= b.cost
  /\ CostsFall
=============================================================================
