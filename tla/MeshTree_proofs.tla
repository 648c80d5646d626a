---------------------------- MODULE MeshTree_proofs ----------------------------
(***************************************************************************)
(* What TLAPS shows of MeshTree for any set of nodes, any radio range, any *)
(* hop limit and any number of failures and losses.                        *)
(***************************************************************************)
EXTENDS MeshTree, WellFoundedInduction, TLAPS

LEMMA Bounds ==
  /\ 0 \in Costs /\ 0 \in 0..StaleAge /\ 0 \in 0..MaxFaults /\ 0 \in 0..MaxLosses
  /\ NoCost \notin Costs
  /\ \A c \in Costs : c + 1 <= HopLimit => c + 1 \in Costs
BY LimitsAssumption DEF Costs

LEMMA TypeInit == Init => TypeOK
BY Bounds DEF Init, TypeOK, Nodes, Senders

(* The inductive invariant is TypeOK together with Promises: a beacon is well
   typed because an attached sender has a cost within the hop limit. *)

Sound == TypeOK /\ Promises

LEMMA SoundInit == Init => Sound
BY TypeInit, NodesAssumption DEF Sound, Init, Promises, CostMatchesParent, CostsFall, Nodes

\* What an attached node may promise.
LEMMA AttachedCost ==
  ASSUME Sound, NEW n \in Nodes, Attached(n) PROVE cost[n] \in Costs
BY LimitsAssumption
   DEF Sound, TypeOK, Promises, CostMatchesParent, Attached, Nodes, Costs

LEMMA TypeStep ==
  ASSUME Sound, [Next]_vars PROVE TypeOK'
<1> USE DEF TypeOK, Nodes, Senders, Members, Sound
<1>1. ASSUME NEW n \in Senders, SendBeacon(n) PROVE TypeOK'
  <2>1. ASSUME NEW m \in Linked(n) \cap up \cap Members, Attached(n)
        PROVE  [from |-> n, to |-> m, cost |-> cost[n]] \in Beacon
    BY <2>1, AttachedCost DEF Beacon
  <2>2. Attached(n) =>
          {[from |-> n, to |-> m, cost |-> cost[n]]
             : m \in Linked(n) \cap up \cap Members} \subseteq Beacon
    BY <2>1
  <2>3. air' \subseteq Beacon
    BY <1>1, <2>2 DEF SendBeacon
  <2> QED
    BY <1>1, <2>3 DEF SendBeacon
<1>2. ASSUME NEW b \in air, NEW s \in BOOLEAN, ReceiveBeacon(b, s) PROVE TypeOK'
  <2>1. b.from \in Senders /\ b.to \in Members /\ b.cost \in Costs
    BY DEF Beacon
  <2>2. b.cost + 1 <= HopLimit => b.cost + 1 \in Costs
    BY <2>1, Bounds
  <2>3. ~(b.cost + 1 > HopLimit) => b.cost + 1 <= HopLimit
    BY <2>1, LimitsAssumption DEF Costs
  <2> QED
    BY <1>2, <2>1, <2>2, <2>3, Bounds DEF ReceiveBeacon
<1>3. ASSUME NEW b \in air, LoseBeacon(b) PROVE TypeOK'
  BY <1>3, LimitsAssumption DEF LoseBeacon
<1>4. ASSUME NEW n \in Members, ExpireParent(n) PROVE TypeOK'
  BY <1>4 DEF ExpireParent
<1>5. CASE NextPeriod
  <2>1. ASSUME NEW n \in Members PROVE age'[n] \in 0..StaleAge
    <3>1. CASE n \in up /\ parent[n] # NoParent
      BY <1>5, <3>1, LimitsAssumption DEF NextPeriod
    <3>2. CASE ~(n \in up /\ parent[n] # NoParent)
      BY <1>5, <3>2, Bounds DEF NextPeriod
    <3> QED
      BY <3>1, <3>2
  <2> QED
    BY <1>5, <2>1 DEF NextPeriod
<1>6. ASSUME NEW n \in Nodes, PowerOff(n) PROVE TypeOK'
  BY <1>6, Bounds, LimitsAssumption DEF PowerOff
<1>7. ASSUME NEW n \in Nodes, PowerOn(n) PROVE TypeOK'
  BY <1>7 DEF PowerOn
<1>8. CASE UNCHANGED vars
  BY <1>8 DEF vars
<1> QED
  BY <1>1, <1>2, <1>3, <1>4, <1>5, <1>6, <1>7, <1>8 DEF Next

-----------------------------------------------------------------------------
(* Taking a better beacon keeps the promises: the new cost is above the cost
   of the new parent, and an attached node's own cost only falls, so neither
   its children nor its beacons on the air are let down. *)

\* The cost of a node that takes beacon b does not rise.
LEMMA BetterFalls ==
  ASSUME Sound, NEW b \in air, NEW s \in BOOLEAN, Better(b, s),
         parent[b.to] # NoParent
  PROVE  b.cost + 1 <= cost[b.to]
<1>1. b.to \in Members /\ b.cost \in Costs
  BY DEF Sound, TypeOK, Beacon
<1>2. cost[b.to] \in 1..HopLimit
  BY <1>1 DEF Sound, Promises, CostMatchesParent
<1> QED
  BY <1>1, <1>2, LimitsAssumption DEF Better, Costs

LEMMA AdoptStep ==
  ASSUME Sound, TypeOK', NEW b \in air, NEW s \in BOOLEAN, ReceiveBeacon(b, s),
         ~(b.cost + 1 > HopLimit), Better(b, s),
         parent' = [parent EXCEPT ![b.to] = b.from],
         cost' = [cost EXCEPT ![b.to] = b.cost + 1]
  PROVE  Promises'
<1> DEFINE n == b.to
           Placed(p) == p = Coord \/ parent'[p] # NoParent
<1>1. /\ n \in Members /\ b.from \in Nodes /\ b.from # n /\ b.cost \in Costs
      /\ b.cost \in Nat /\ b.cost + 1 \in 1..HopLimit /\ n # Coord /\ b.from # NoParent
  BY NodesAssumption, LimitsAssumption
     DEF Sound, TypeOK, Promises, Beacon, Costs, Nodes, Senders, Members
<1>2. /\ parent'[n] = b.from /\ cost'[n] = b.cost + 1
      /\ \A m \in Members : m # n => parent'[m] = parent[m]
      /\ \A m \in Nodes : m # n => cost'[m] = cost[m]
      /\ churn' = churn /\ air' = air \ {b}
  BY <1>1 DEF ReceiveBeacon, Sound, TypeOK, Nodes
<1>3. cost'[Coord] = 0
  BY <1>1, <1>2 DEF Sound, Promises, Nodes
<1>4. CostMatchesParent'
  BY <1>1, <1>2 DEF Sound, Promises, CostMatchesParent, Nodes
<1>5. ASSUME ~churn, NEW m \in Nodes, Attached(m)
      PROVE  Placed(m) /\ cost'[m] <= cost[m] /\ cost[m] \in Nat /\ cost'[m] \in Nat
  <2>1. cost[m] \in Nat /\ cost'[m] \in Nat
    BY LimitsAssumption DEF Sound, TypeOK, Costs
  <2>2. CASE m = n
    <3>1. parent[n] # NoParent
      BY <1>1, <1>5, <2>2 DEF Attached
    <3> QED
      BY <1>1, <1>2, <2>1, <2>2, <3>1, BetterFalls DEF Attached
  <2>3. CASE m # n
    BY <1>2, <1>5, <2>1, <2>3 DEF Attached, Nodes
  <2> QED
    BY <2>2, <2>3
<1>6. ASSUME ~churn, NEW e \in air
      PROVE  Placed(e.from) /\ cost'[e.from] <= e.cost
  <2>1. e.from \in Nodes /\ e.cost \in Nat /\ Attached(e.from) /\ cost[e.from] <= e.cost
    BY <1>6, LimitsAssumption DEF Sound, TypeOK, Promises, Beacon, Nodes, Senders, Members, Costs
  <2>2. Placed(e.from) /\ cost'[e.from] <= cost[e.from]
        /\ cost[e.from] \in Nat /\ cost'[e.from] \in Nat
    BY <1>5, <1>6, <2>1
  <2> QED
    BY <2>1, <2>2
<1>7. ASSUME ~churn, NEW m \in Members, parent'[m] # NoParent
      PROVE  Placed(parent'[m]) /\ cost'[parent'[m]] < cost'[m]
  <2>1. CASE m = n
    <3>1. Placed(b.from) /\ cost'[b.from] <= b.cost
      BY <1>6, <1>7
    <3>2. cost'[b.from] \in Nat
      BY <1>1, LimitsAssumption DEF TypeOK, Costs
    <3> QED
      BY <1>1, <1>2, <2>1, <3>1, <3>2
  <2>2. CASE m # n
    <3>1. /\ parent'[m] = parent[m] /\ cost'[m] = cost[m]
          /\ parent[m] \in Nodes
      BY <1>2, <1>7, <2>2 DEF Sound, TypeOK, Nodes, Senders, Members
    <3>2. Attached(parent[m]) /\ cost[parent[m]] < cost[m]
      BY <1>7, <3>1 DEF Sound, Promises, CostsFall
    <3>3. /\ Placed(parent[m]) /\ cost'[parent[m]] <= cost[parent[m]]
          /\ cost[parent[m]] \in Nat /\ cost'[parent[m]] \in Nat
      BY <1>5, <1>7, <3>1, <3>2
    <3>4. cost[m] \in Nat
      BY LimitsAssumption DEF Sound, TypeOK, Costs, Nodes
    <3> QED
      BY <3>1, <3>2, <3>3, <3>4
  <2> QED
    BY <2>1, <2>2
<1>8. CostsFall'
  BY <1>2, <1>7 DEF CostsFall, Attached
<1> QED
  BY <1>2, <1>3, <1>4, <1>6, <1>8 DEF Promises, Sound, Attached

\* A step that changes neither parents nor costs and adds no beacon.
LEMMA StillStep ==
  ASSUME Promises, UNCHANGED <<parent, cost>>, air' \subseteq air, churn' = churn
  PROVE  Promises'
BY DEF Promises, CostMatchesParent, CostsFall, Attached

LEMMA PromisesStep ==
  ASSUME Sound, TypeOK', [Next]_vars PROVE Promises'
<1> USE DEF Sound
<1>1. ASSUME NEW n \in Senders, SendBeacon(n) PROVE Promises'
  <2>1. \A b \in air' : b \in air \/ (b.from = n /\ Attached(n) /\ b.cost = cost[n]
                                        /\ b.to \in Linked(n))
    BY <1>1 DEF SendBeacon
  <2>2. UNCHANGED <<parent, cost, churn>> /\ n \notin Linked(n)
    BY <1>1 DEF SendBeacon, Linked
  <2>3. n \in Nodes /\ (Attached(n) => cost[n] \in Costs)
    BY AttachedCost DEF Nodes, Senders, Members
  <2>4. cost[n] <= cost[n] \/ cost[n] \notin Costs
    BY LimitsAssumption DEF Costs
  <2> QED
    BY <2>1, <2>2, <2>3, <2>4 DEF Promises, CostMatchesParent, CostsFall, Attached
<1>2. ASSUME NEW b \in air, NEW s \in BOOLEAN, ReceiveBeacon(b, s) PROVE Promises'
  <2>1. CASE UNCHANGED <<parent, cost>>
    BY <1>2, <2>1, StillStep DEF ReceiveBeacon
  <2>2. CASE /\ ~(b.cost + 1 > HopLimit) /\ Better(b, s)
             /\ parent' = [parent EXCEPT ![b.to] = b.from]
             /\ cost' = [cost EXCEPT ![b.to] = b.cost + 1]
    BY <1>2, <2>2, AdoptStep
  <2> QED
    BY <1>2, <2>1, <2>2 DEF ReceiveBeacon
<1>3. ASSUME NEW b \in air, LoseBeacon(b) PROVE Promises'
  BY <1>3, StillStep DEF LoseBeacon
<1>4. ASSUME NEW n \in Members, ExpireParent(n) PROVE Promises'
  BY <1>4, NodesAssumption
     DEF ExpireParent, Promises, CostMatchesParent, CostsFall, TypeOK, Nodes
<1>5. CASE NextPeriod
  BY <1>5, StillStep DEF NextPeriod
<1>6. ASSUME NEW n \in Nodes, PowerOff(n) PROVE Promises'
  BY <1>6, NodesAssumption
     DEF PowerOff, Promises, CostMatchesParent, CostsFall, TypeOK, Nodes
<1>7. ASSUME NEW n \in Nodes, PowerOn(n) PROVE Promises'
  BY <1>7, StillStep DEF PowerOn
<1>8. CASE UNCHANGED vars
  BY <1>8, StillStep DEF vars
<1> QED
  BY <1>1, <1>2, <1>3, <1>4, <1>5, <1>6, <1>7, <1>8 DEF Next

LEMMA SoundHolds == Spec => []Sound
<1>1. Sound /\ [Next]_vars => Sound'
  BY TypeStep, PromisesStep DEF Sound
<1> QED
  BY SoundInit, <1>1, PTL DEF Spec

-----------------------------------------------------------------------------
(* The theorems. *)

\* Every variable stays in its type: no path cost between the hop limit and
\* the value that stands for "no path", no age past the expiry.
THEOREM MeshTypeCorrect == Spec => []TypeOK
<1>1. Sound => TypeOK
  BY DEF Sound
<1> QED
  BY SoundHolds, <1>1, PTL

\* Beacons on the air promise what their senders hold (en2m_send_beacon,
\* en2m_consider_parent).
THEOREM PromisesHold == Spec => []Promises
<1>1. Sound => Promises
  BY DEF Sound
<1> QED
  BY SoundHolds, <1>1, PTL

\* Until a path is given up, costs fall along every path to the coordinator
\* (en2m_consider_parent).
THEOREM CostsFallHolds == Spec => []CostsFall
<1>1. Sound => CostsFall
  BY DEF Sound, Promises
<1> QED
  BY SoundHolds, <1>1, PTL

\* Every nonempty set of natural numbers has a least element.
LEMMA Least ==
  ASSUME NEW S \in SUBSET Nat, S # {}
  PROVE  \E m \in S : \A n \in S : m <= n
<1> DEFINE less == OpToRel(<, Nat)
<1>1. IsWellFoundedOn(less, Nat)
  BY NatLessThanWellFounded
<1>2. \A m, n \in Nat : n < m => <<n, m>> \in less
  BY DEF OpToRel
<1> HIDE DEF less
<1>3. PICK m \in S : \A n \in S : ~ (<<n, m>> \in less)
  BY <1>1, WFMin
<1>4. ASSUME NEW n \in S PROVE m <= n
  <2>1. m \in Nat /\ n \in Nat /\ ~ (n < m)
    BY <1>2, <1>3
  <2> QED
    BY <2>1
<1> QED
  BY <1>4

\* A path from a node's parent is prolonged to one from the node.
LEMMA Prolonged ==
  ASSUME NEW n \in Members, NEW k \in Nat, NEW p \in [0..k -> Nodes],
         LeadsHome(p, parent[n], k)
  PROVE  \E q \in [0..(k + 1) -> Nodes] : LeadsHome(q, n, k + 1)
<1> DEFINE q == [i \in 0..(k + 1) |-> IF i = 0 THEN n ELSE p[i - 1]]
<1>1. q \in [0..(k + 1) -> Nodes]
  BY DEF Nodes
<1>2. q[0] = n /\ q[k + 1] = p[k]
  OBVIOUS
<1>3. ASSUME NEW i \in 0..k PROVE q[i] \in Members /\ parent[q[i]] = q[i + 1]
  <2>1. CASE i = 0
    <3>1. q[i] = n /\ q[i + 1] = p[0]
      BY <2>1
    <3> QED
      BY <3>1 DEF LeadsHome
  <2>2. CASE i # 0
    <3>1. i - 1 \in 0..(k - 1) /\ q[i] = p[i - 1] /\ q[i + 1] = p[(i - 1) + 1]
      BY <2>2
    <3> QED
      BY <3>1 DEF LeadsHome
  <2> QED
    BY <2>1, <2>2
<1> HIDE DEF q
<1>4. LeadsHome(q, n, k + 1)
  <2>1. (k + 1) - 1 = k
    OBVIOUS
  <2> QED
    BY <1>2, <1>3, <2>1 DEF LeadsHome
<1> QED
  BY <1>1, <1>4

\* Where costs fall, every path ends, and only the coordinator ends one: a node
\* without a way of the length of its cost, of least cost, has a parent with one.
LEMMA FallRoots == ASSUME Sound PROVE Rooted
<1> DEFINE Way(n) == \E k \in 1..cost[n] : \E p \in [0..k -> Nodes] : LeadsHome(p, n, k)
           Bad == {n \in Members : parent[n] # NoParent /\ ~Way(n)}
<1> SUFFICES ASSUME ~churn, Bad # {} PROVE FALSE
  BY DEF Rooted
<1>1. ASSUME NEW n \in Members, parent[n] # NoParent
      PROVE  /\ cost[n] \in Nat /\ cost[n] > 0 /\ parent[n] \in Nodes
             /\ Attached(parent[n]) /\ cost[parent[n]] < cost[n]
  BY <1>1, LimitsAssumption
     DEF Sound, TypeOK, Promises, CostMatchesParent, CostsFall, Nodes, Senders, Members
<1> DEFINE S == {cost[n] : n \in Bad}
<1>2. S \in SUBSET Nat /\ S # {}
  BY <1>1
<1>3. PICK n \in Bad : \A m \in Bad : cost[n] <= cost[m]
  <2> HIDE DEF Bad
  <2>1. PICK c \in S : \A x \in S : c <= x
    <3> HIDE DEF S
    <3> QED
      BY <1>2, Least
  <2> QED
    BY <2>1
<1>4. n \in Members /\ parent[n] # NoParent /\ ~Way(n)
  OBVIOUS
<1>5. CASE parent[n] = Coord
  <2> DEFINE p == [i \in 0..1 |-> IF i = 0 THEN n ELSE Coord]
  <2>1. p \in [0..1 -> Nodes]
    BY <1>4 DEF Nodes
  <2>2. p[0] = n /\ p[1] = Coord /\ \A i \in 0..(1 - 1) : i = 0 /\ i + 1 = 1
    OBVIOUS
  <2> HIDE DEF p
  <2>3. LeadsHome(p, n, 1)
    BY <1>4, <1>5, <2>2 DEF LeadsHome
  <2>4. 1 \in 1..cost[n]
    BY <1>1, <1>4
  <2> QED
    BY <1>4, <2>1, <2>3, <2>4
<1>6. CASE parent[n] # Coord
  <2>1. parent[n] \in Members /\ parent[parent[n]] # NoParent
    BY <1>1, <1>4, <1>6 DEF Attached, Nodes
  <2>2. cost[parent[n]] \in Nat /\ cost[n] \in Nat /\ cost[parent[n]] < cost[n]
    BY <1>1, <1>4, <2>1
  <2>3. parent[n] \notin Bad
    BY <1>3, <2>2
  <2>4. PICK k \in 1..cost[parent[n]] :
          \E p \in [0..k -> Nodes] : LeadsHome(p, parent[n], k)
    BY <2>1, <2>3
  <2>5. k \in Nat /\ k + 1 \in 1..cost[n]
    BY <2>2
  <2>6. \E q \in [0..(k + 1) -> Nodes] : LeadsHome(q, n, k + 1)
    BY <1>4, <2>4, <2>5, Prolonged
  <2> QED
    BY <1>4, <2>5, <2>6
<1> QED
  BY <1>5, <1>6

\* Until a path is given up, the parents of every attached node lead to the
\* coordinator, in any mesh: no circle, no node cut off, no way longer than told.
THEOREM RootedHolds == Spec => []Rooted
<1>1. Sound => Rooted
  BY FallRoots
<1> QED
  BY SoundHolds, <1>1, PTL

-----------------------------------------------------------------------------
(* What a mesh at rest is. *)

\* Those one hop further from the coordinator than V.
Next1(V) == V \cup {m \in up \cap Members : Linked(m) \cap V \cap Senders # {}}

\* f is Within, as far as K.
WithinTo(f, K) ==
  f = [k \in 0..K |-> IF k = 0 THEN up \cap {Coord} ELSE Next1(f[k - 1])]

\* There is such a function, however far.
LEMMA WithinExists == ASSUME NEW K \in Nat PROVE \E f : WithinTo(f, K)
<1> DEFINE S == {j \in Nat : ~ \E f : WithinTo(f, j)}
<1> SUFFICES ASSUME S # {} PROVE FALSE
  OBVIOUS
<1>1. PICK j \in S : \A i \in S : j <= i
  <2>1. S \in SUBSET Nat
    OBVIOUS
  <2> HIDE DEF S
  <2> QED
    BY <2>1, Least
<1>2. j \in Nat /\ ~ \E f : WithinTo(f, j)
  OBVIOUS
<1>3. CASE j = 0
  <2>1. WithinTo([k \in 0..0 |-> up \cap {Coord}], 0)
    BY DEF WithinTo
  <2> QED
    BY <1>2, <1>3, <2>1
<1>4. CASE j # 0
  <2>1. j - 1 \in Nat /\ j - 1 \notin S
    BY <1>1, <1>2, <1>4
  <2>2. PICK f : WithinTo(f, j - 1)
    BY <2>1
  <2> DEFINE g == [k \in 0..j |-> IF k = j THEN Next1(f[j - 1]) ELSE f[k]]
  <2>3. ASSUME NEW k \in 0..j
        PROVE  g[k] = IF k = 0 THEN up \cap {Coord} ELSE Next1(g[k - 1])
    <3>1. CASE k = j
      <4>1. g[k] = Next1(f[j - 1]) /\ g[j - 1] = f[j - 1]
        BY <1>2, <2>1, <3>1
      <4> HIDE DEF g
      <4> QED
        BY <1>4, <3>1, <4>1
    <3>2. CASE k # j
      <4>1. k \in 0..(j - 1) /\ g[k] = f[k]
        BY <1>2, <3>2
      <4>2. k # 0 => g[k - 1] = f[k - 1]
        BY <1>2, <4>1
      <4>3. f[k] = IF k = 0 THEN up \cap {Coord} ELSE Next1(f[k - 1])
        BY <2>2, <4>1 DEF WithinTo
      <4> HIDE DEF g
      <4> QED
        BY <4>1, <4>2, <4>3
    <3> QED
      BY <3>1, <3>2
  <2>4. WithinTo(g, j)
    <3>1. g = [k \in 0..j |-> g[k]]
      OBVIOUS
    <3> HIDE DEF g
    <3>2. [k \in 0..j |-> g[k]]
            = [k \in 0..j |-> IF k = 0 THEN up \cap {Coord} ELSE Next1(g[k - 1])]
      BY <2>3
    <3> QED
      BY <3>1, <3>2 DEF WithinTo
  <2> QED
    BY <1>2, <2>4
<1> QED
  BY <1>3, <1>4

\* What the recursive definition of Within says.
LEMMA WithinDef ==
  /\ Within[0] = up \cap {Coord}
  /\ \A k \in Costs : k # 0 => Within[k] = Next1(Within[k - 1])
<1> DEFINE Is(f) == f = [k \in Costs |->
                          IF k = 0 THEN up \cap {Coord}
                          ELSE f[k - 1] \cup
                               {m \in up \cap Members : Linked(m) \cap f[k - 1] \cap Senders # {}}]
<1>1. \E f : Is(f)
  <2>1. PICK f : WithinTo(f, HopLimit)
    BY WithinExists, LimitsAssumption
  <2>2. Is(f)
    BY <2>1 DEF WithinTo, Next1, Costs
  <2> QED
    BY <2>2
<1>2. Is(CHOOSE f : Is(f))
  <2> HIDE DEF Is
  <2> QED
    BY <1>1
<1>3. Is(Within)
  BY <1>2, Zenon DEF Within
<1>4. 0 \in Costs
  BY Bounds
<1> QED
  BY <1>3, <1>4 DEF Next1

\* The sets grow with the distance.
LEMMA WithinGrows ==
  ASSUME NEW j \in Costs, NEW k \in Costs, j <= k PROVE Within[j] \subseteq Within[k]
<1> DEFINE S == {i \in Costs : j <= i /\ ~ (Within[j] \subseteq Within[i])}
<1> SUFFICES ASSUME S # {} PROVE FALSE
  OBVIOUS
<1>1. PICK i \in S : \A h \in S : i <= h
  <2>1. S \in SUBSET Nat
    BY LimitsAssumption DEF Costs
  <2> HIDE DEF S
  <2> QED
    BY <2>1, Least
<1>2. i \in Costs /\ j <= i /\ ~ (Within[j] \subseteq Within[i])
  OBVIOUS
<1>3. i # j
  BY <1>2
<1>4. i - 1 \in Costs /\ j <= i - 1 /\ i # 0 /\ ~ (i <= i - 1)
  BY <1>2, <1>3, LimitsAssumption DEF Costs
<1>5. i - 1 \notin S
  BY <1>1, <1>4
<1>6. Within[j] \subseteq Within[i - 1]
  BY <1>4, <1>5
<1>7. Within[i - 1] \subseteq Within[i]
  BY <1>2, <1>4, WithinDef DEF Next1
<1> QED
  BY <1>2, <1>6, <1>7

\* At rest, a node near the coordinator is attached, at no higher cost than that.
LEMMA RestAttaches ==
  ASSUME Sound, AtRest, NEW k \in Costs, NEW n \in Within[k]
  PROVE  n \in up /\ Attached(n) /\ cost[n] \in Costs /\ cost[n] <= k
<1> DEFINE Good(i, x) == x \in up /\ Attached(x) /\ cost[x] \in Costs /\ cost[x] <= i
           S == {i \in Costs : \E x \in Within[i] : ~Good(i, x)}
<1> SUFFICES ASSUME S # {} PROVE FALSE
  OBVIOUS
<1>1. PICK i \in S : \A h \in S : i <= h
  <2>1. S \in SUBSET Nat
    BY LimitsAssumption DEF Costs
  <2> HIDE DEF S
  <2> QED
    BY <2>1, Least
<1>2. PICK x \in Within[i] : ~Good(i, x)
  OBVIOUS
<1>3. i \in Costs
  OBVIOUS
<1> HIDE DEF S
<1>4. CASE i = 0
  BY <1>2, <1>4, WithinDef, Bounds DEF Attached, Sound, Promises
<1>5. CASE i # 0
  <2>1. i - 1 \in Costs /\ i \in Nat /\ ~ (i <= i - 1)
    BY <1>3, <1>5, LimitsAssumption DEF Costs
  <2>2. \A y \in Within[i - 1] : Good(i - 1, y)
    BY <1>1, <2>1 DEF S
  <2>3. CASE x \in Within[i - 1]
    <3>1. Good(i - 1, x)
      BY <2>2, <2>3
    <3> QED
      BY <1>2, <2>1, <3>1, LimitsAssumption DEF Costs
  <2>4. CASE x \notin Within[i - 1]
    <3>1. x \in up \cap Members /\ Linked(x) \cap Within[i - 1] \cap Senders # {}
      BY <1>2, <1>3, <1>5, <2>4, WithinDef DEF Next1
    <3>2. PICK y \in Linked(x) \cap Within[i - 1] \cap Senders : TRUE
      BY <3>1
    <3>3. Good(i - 1, y)
      BY <2>2, <3>2
    <3> DEFINE o == [from |-> y, to |-> x, cost |-> cost[y]]
    <3>4. o \in Heard(x)
      BY <3>2, <3>3 DEF Heard
    <3>5. o.cost + 1 <= i /\ o.cost + 1 <= HopLimit /\ o.cost \in Nat
      BY <1>3, <2>1, <3>3, LimitsAssumption DEF Costs
    <3>6. ~Better(o, FALSE)
      BY <3>1, <3>4, <3>5 DEF AtRest
    <3>7. parent[x] # NoParent /\ ~ (o.cost + 1 < cost[x])
      BY <3>6 DEF Better
    <3>8. cost[x] \in Costs
      BY <3>1, <3>7, LimitsAssumption DEF Sound, Promises, CostMatchesParent, Costs
    <3> HIDE DEF o
    <3>9. cost[x] <= i
      BY <1>3, <3>5, <3>7, <3>8, LimitsAssumption DEF Costs
    <3> QED
      BY <1>2, <3>1, <3>7, <3>8, <3>9 DEF Attached
  <2> QED
    BY <2>3, <2>4
<1> QED
  BY <1>4, <1>5

\* What a confirmed parent is.
LEMMA RestParent ==
  ASSUME Sound, AtRest, NEW n \in up \cap Members, parent[n] # NoParent
  PROVE  /\ cost[n] \in Costs /\ cost[n] # 0
         /\ parent[n] \in up \cap Senders \cap Linked(n) /\ Attached(parent[n])
         /\ cost[parent[n]] = cost[n] - 1 /\ cost[parent[n]] \in Costs
<1>1. cost[n] \in Costs /\ cost[n] # 0
  BY LimitsAssumption DEF Sound, Promises, CostMatchesParent, Costs
<1>2. PICK b \in Heard(n) : Refreshes(b)
  BY DEF AtRest
<1>3. PICK x \in up \cap Senders \cap Linked(n) :
        Attached(x) /\ b = [from |-> x, to |-> n, cost |-> cost[x]]
  BY <1>2 DEF Heard
<1>4. parent[n] = x /\ cost[x] + 1 = cost[n]
  BY <1>2, <1>3 DEF Refreshes
<1>5. cost[x] \in Costs
  BY <1>3, AttachedCost DEF Sound, TypeOK
<1> QED
  BY <1>1, <1>3, <1>4, <1>5, LimitsAssumption DEF Costs

\* At rest, an attached node is as near as its cost says.
LEMMA RestWithin ==
  ASSUME Sound, AtRest, NEW n \in up, Attached(n)
  PROVE  cost[n] \in Costs /\ n \in Within[cost[n]]
<1> DEFINE Bad == {x \in up : Attached(x) /\ x \notin Within[cost[x]]}
           S == {cost[x] : x \in Bad}
<1>1. \A x \in up : Attached(x) => cost[x] \in Costs
  BY AttachedCost DEF Sound, TypeOK
<1> SUFFICES ASSUME Bad # {} PROVE FALSE
  BY <1>1
<1>2. S \in SUBSET Nat /\ S # {}
  BY <1>1, LimitsAssumption DEF Costs
<1>3. PICK x \in Bad : \A y \in Bad : cost[x] <= cost[y]
  <2> HIDE DEF Bad
  <2>1. PICK c \in S : \A y \in S : c <= y
    <3> HIDE DEF S
    <3> QED
      BY <1>2, Least
  <2> QED
    BY <2>1
<1>4. x \in up /\ Attached(x) /\ x \notin Within[cost[x]]
  OBVIOUS
<1>5. CASE x = Coord
  BY <1>4, <1>5, WithinDef DEF Sound, Promises
<1>6. CASE x # Coord
  <2>1. x \in up \cap Members /\ parent[x] # NoParent
    BY <1>4, <1>6 DEF Attached, Sound, TypeOK, Nodes
  <2> DEFINE y == parent[x]
  <2>2. /\ cost[x] \in Costs /\ cost[x] # 0
        /\ y \in up \cap Senders \cap Linked(x) /\ Attached(y)
        /\ cost[y] = cost[x] - 1 /\ cost[y] \in Costs
    BY <2>1, RestParent
  <2>3. ~ (cost[x] <= cost[y])
    BY <2>2, LimitsAssumption DEF Costs
  <2>4. y \notin Bad
    BY <1>3, <2>3
  <2>5. y \in Within[cost[x] - 1]
    BY <2>2, <2>4
  <2>6. x \in Within[cost[x]]
    BY <2>1, <2>2, <2>5, WithinDef DEF Next1
  <2> QED
    BY <1>4, <2>6
<1> QED
  BY <1>5, <1>6

\* A mesh that beacons do not change any more has shortest paths, from both sides: no
\* node is nearer than its cost, by RestAttaches, nor farther, by RestWithin.
LEMMA RestShortest == ASSUME Sound PROVE RestsShortest
<1> SUFFICES ASSUME AtRest, NEW n \in up \cap Members
             PROVE  IF n \in Within[HopLimit]
                    THEN /\ parent[n] # NoParent
                         /\ cost[n] > 0 /\ n \notin Within[cost[n] - 1]
                         /\ parent[n] \in Linked(n) \cap Within[cost[n] - 1]
                    ELSE parent[n] = NoParent
  BY DEF RestsShortest, ShortestPaths
<1>1. HopLimit \in Costs /\ \A k \in Costs : k <= HopLimit /\ k \in Nat
  BY LimitsAssumption DEF Costs
<1>2. CASE n \in Within[HopLimit]
  <2>1. parent[n] # NoParent
    BY <1>1, <1>2, RestAttaches, NodesAssumption DEF Attached
  <2>2. /\ cost[n] \in Costs /\ cost[n] # 0
        /\ parent[n] \in up \cap Senders \cap Linked(n) /\ Attached(parent[n])
        /\ cost[parent[n]] = cost[n] - 1 /\ cost[parent[n]] \in Costs
    BY <2>1, RestParent
  <2>3. n \notin Within[cost[n] - 1]
    <3> SUFFICES ASSUME n \in Within[cost[n] - 1] PROVE FALSE
      OBVIOUS
    <3>1. cost[n] <= cost[n] - 1
      BY <2>2, RestAttaches
    <3> QED
      BY <1>1, <2>2, <3>1
  <2>4. parent[n] \in Within[cost[n] - 1]
    BY <2>2, RestWithin
  <2> QED
    BY <1>1, <1>2, <2>1, <2>2, <2>3, <2>4
<1>3. CASE n \notin Within[HopLimit]
  <2> SUFFICES ASSUME parent[n] # NoParent PROVE FALSE
    BY <1>3
  <2>1. cost[n] \in Costs /\ n \in Within[cost[n]]
    BY RestWithin DEF Attached
  <2> QED
    BY <1>1, <1>3, <2>1, WithinGrows
<1> QED
  BY <1>2, <1>3

\* Whatever happened before, a mesh at rest has shortest paths, in any mesh: no circle,
\* no stale path and no detour confirms itself.
THEOREM RestsShortestHolds == Spec => []RestsShortest
<1>1. Sound => RestsShortest
  BY RestShortest
<1> QED
  BY SoundHolds, <1>1, PTL

-----------------------------------------------------------------------------

\* A node takes a longer path only after it lost its parent.
THEOREM NoCostlierSwitchHolds == Spec => NoCostlierSwitch
<1> DEFINE Kept == \A n \in Members : parent[n] # NoParent /\ parent'[n] # NoParent
                     => cost'[n] <= cost[n]
<1>1. ASSUME Sound, [Next]_vars PROVE Kept
  <2> SUFFICES ASSUME NEW n \in Members, parent[n] # NoParent, parent'[n] # NoParent
               PROVE  cost'[n] <= cost[n]
    OBVIOUS
  <2>1. cost[n] \in Nat
    BY <1>1, LimitsAssumption DEF Sound, TypeOK, Costs, Nodes
  <2>2. cost[n] <= cost[n]
    BY <2>1
  <2>3. ASSUME NEW b \in air, NEW s \in BOOLEAN, ReceiveBeacon(b, s)
        PROVE  cost'[n] <= cost[n]
    <3>1. CASE UNCHANGED cost
      BY <2>2, <3>1
    <3>2. CASE Better(b, s) /\ cost' = [cost EXCEPT ![b.to] = b.cost + 1]
      <4>1. cost \in [Nodes -> Costs \cup {NoCost}] /\ n \in Nodes
        BY <1>1 DEF Sound, TypeOK, Nodes
      <4>2. CASE b.to = n
        BY <1>1, <3>2, <4>1, <4>2, BetterFalls
      <4>3. CASE b.to # n
        BY <2>2, <3>2, <4>1, <4>3
      <4> QED
        BY <4>2, <4>3
    <3> QED
      BY <2>3, <3>1, <3>2 DEF ReceiveBeacon
  <2>4. ASSUME NEW m \in Members, ExpireParent(m) PROVE cost'[n] <= cost[n]
    <3>1. m # n
      BY <1>1, <2>4 DEF ExpireParent, Sound, TypeOK
    <3> QED
      BY <1>1, <2>2, <2>4, <3>1 DEF ExpireParent, Sound, TypeOK, Nodes
  <2>5. ASSUME NEW m \in Nodes, PowerOff(m) PROVE cost'[n] <= cost[n]
    <3>1. m # n
      BY <1>1, <2>5 DEF PowerOff, Sound, TypeOK
    <3> QED
      BY <1>1, <2>2, <2>5, <3>1 DEF PowerOff, Sound, TypeOK, Nodes
  <2>6. CASE UNCHANGED cost
    BY <2>2, <2>6
  <2> QED
    BY <1>1, <2>3, <2>4, <2>5, <2>6
       DEF Next, SendBeacon, LoseBeacon, NextPeriod, PowerOn, vars
<1>2. Sound /\ [Next]_vars => [Kept]_vars
  BY <1>1
<1> QED
  BY SoundHolds, <1>2, PTL DEF Spec, NoCostlierSwitch
=============================================================================
