------------------------- MODULE ReverseRoutes_proofs -------------------------
(***************************************************************************)
(* Theorems about ReverseRoutes: the hop counts of route tables, frames    *)
(* and commands fit together, so commands descend to their device.         *)
(***************************************************************************)
EXTENDS ReverseRoutes, WellFoundedInduction, TLAPS

\* The assumptions in the form the provers use.
LEMMA Constants ==
  /\ Coord \notin Members /\ Coord \in Nodes /\ Coord \in Senders
  /\ Routers \subseteq Senders /\ Routers \subseteq Members /\ Members \subseteq Nodes
  /\ Senders \subseteq Nodes /\ Talkers \subseteq Members
  /\ NoParent \notin Nodes /\ NoRoute \notin Route
  /\ HopLimit \in Nat /\ MaxTroubles \in Nat /\ 0 \in Hops /\ Hops \subseteq Nat
  BY NodesAssumption, LimitsAssumption, NoRouteAssumption
  DEF Members, Senders, Nodes, Hops

\* A known entry is a route.
LEMMA KnownIsRoute ==
  ASSUME TypeOK, NEW n \in Senders, NEW d \in Nodes, Known(n, d)
  PROVE  /\ routes[n][d] \in Route
         /\ routes[n][d].next \in Nodes /\ routes[n][d].hop \in Hops
  BY DEF TypeOK, Known, Route

\* The kind tells the two sorts of frames apart.
LEMMA Frames ==
  ASSUME TypeOK, NEW f \in air
  PROVE  /\ f.kind \in {"up", "cmd"}
         /\ f.kind = "up" => f \in Uplink
         /\ f.kind = "cmd" => f \in Cmd
  BY DEF TypeOK, Uplink, Cmd

-----------------------------------------------------------------------------
(* Type correctness. *)

\* Learning keeps the type of the tables.
LEMMA LearnType ==
  ASSUME TypeOK, NEW n \in Senders, NEW o \in Nodes, NEW from \in Nodes, NEW hop \in Hops
  PROVE  Learn(n, o, from, hop) \in [Senders -> [Nodes -> Route \cup {NoRoute}]]
<1>1. [next |-> from, hop |-> hop] \in Route
  BY DEF Route
<1>2. QED
  BY <1>1 DEF Learn, TypeOK

\* A command sent on by a node is a command.
LEMMA TowardDestType ==
  ASSUME NEW table \in [Senders -> [Nodes -> Route \cup {NoRoute}]],
         NEW n \in Senders, NEW d \in Members, NEW hop \in Hops
  PROVE  InRange(TowardDest(table, n, d, hop)) \subseteq Cmd
<1>1. CASE table[n][d] = NoRoute
  BY <1>1, Constants DEF TowardDest, InRange, Cmd
<1>2. CASE table[n][d] # NoRoute
  <2>1. table[n][d] \in Route
    BY <1>2, Constants
  <2>2. table[n][d].next \in Nodes /\ table[n][d].hop \in Hops
    BY <2>1 DEF Route
  <2>3. QED
    BY <1>2, <2>2, Constants DEF TowardDest, InRange, Cmd
<1>3. QED
  BY <1>1, <1>2

\* A report passed on is a report.
LEMMA TowardCoordType ==
  ASSUME TypeOK, NEW n \in Routers, NEW f \in Uplink
  PROVE  InRange(TowardCoord(n, f)) \subseteq Uplink
<1>1. SUFFICES ASSUME parent[n] # NoParent, f.hop < HopLimit
               PROVE  [f EXCEPT !.from = n, !.to = parent[n], !.hop = @ + 1] \in Uplink
  BY DEF TowardCoord, InRange
<1>2. parent[n] \in Senders /\ f.hop + 1 \in Hops
  BY <1>1, Constants DEF TypeOK, Uplink, Hops
<1>3. QED
  BY <1>2, Constants DEF Uplink

\* The initial states have their types.
LEMMA InitType == Init => TypeOK
<1>1. 0 \in Hops /\ 0 \in 0..MaxTroubles
  BY Constants
<1>2. QED
  BY <1>1 DEF Init, TypeOK

\* Every step keeps the types.
LEMMA NextType == TypeOK /\ [Next]_vars => TypeOK'
<1> SUFFICES ASSUME TypeOK, [Next]_vars PROVE TypeOK'
  OBVIOUS
<1> USE Constants
<1>1. ASSUME NEW o \in Talkers, SendUplink(o) PROVE TypeOK'
  <2>1. InRange({[kind |-> "up", origin |-> o, from |-> o, to |-> t, hop |-> 0] :
          t \in IF parent[o] = NoParent THEN Senders \ {o} ELSE {parent[o]}}) \subseteq Uplink
    BY DEF InRange, Uplink, TypeOK
  <2>2. QED
    BY <1>1, <2>1 DEF SendUplink, TypeOK
<1>2. ASSUME NEW d \in Talkers, SendDownlink(d) PROVE TypeOK'
  <2>1. InRange(TowardDest(routes, Coord, d, 0)) \subseteq Cmd
    BY TowardDestType DEF TypeOK
  <2>2. QED
    BY <1>2, <2>1 DEF SendDownlink, TypeOK
<1>3. ASSUME NEW f \in air, RouterHears(f) PROVE TypeOK'
  <2>1. f \in Uplink /\ f.to \in Routers
    BY <1>3, Frames DEF RouterHears
  <2>2. f.origin \in Nodes /\ f.from \in Nodes /\ f.hop \in Hops /\ f.to \in Senders
    BY <2>1 DEF Uplink
  <2>3. Learn(f.to, f.origin, f.from, f.hop) \in [Senders -> [Nodes -> Route \cup {NoRoute}]]
    BY <2>2, LearnType
  <2>4. InRange(TowardCoord(f.to, f)) \subseteq Uplink
    BY <2>1, TowardCoordType
  <2>5. Missed(f.to, f.origin) \in BOOLEAN
    BY DEF Missed, Full, Known
  <2>6. QED
    BY <1>3, <2>3, <2>4, <2>5 DEF RouterHears, TypeOK
<1>4. ASSUME NEW f \in air, CoordHears(f) PROVE TypeOK'
  <2>1. f \in Uplink /\ f.to = Coord
    BY <1>4, Frames DEF CoordHears
  <2>2. f.origin \in Nodes /\ f.from \in Nodes /\ f.hop \in Hops
    BY <2>1 DEF Uplink
  <2>3. Learn(Coord, f.origin, f.from, f.hop) \in [Senders -> [Nodes -> Route \cup {NoRoute}]]
    BY <2>2, LearnType
  <2>4. Missed(Coord, f.origin) \in BOOLEAN
    BY DEF Missed, Full, Known
  <2>5. QED
    BY <1>4, <2>3, <2>4 DEF CoordHears, TypeOK
<1>5. ASSUME NEW f \in air, CommandEnds(f) \/ LoseFrame(f) PROVE TypeOK'
  BY <1>5 DEF CommandEnds, LoseFrame, TypeOK
<1>6. ASSUME NEW f \in air, PassCommand(f) PROVE TypeOK'
  <2>1. f \in Cmd /\ f.to \in Routers
    BY <1>6, Frames DEF PassCommand
  <2>2. f.dest \in Members /\ f.from \in Nodes /\ f.hop \in Hops /\ f.to \in Senders
    BY <2>1 DEF Cmd
  <2>3. routes' \in [Senders -> [Nodes -> Route \cup {NoRoute}]]
    BY <1>6, <2>2, LearnType DEF PassCommand
  <2>4. f.hop < HopLimit => f.hop + 1 \in Hops
    BY <2>2 DEF Hops
  <2>5. f.hop < HopLimit =>
          InRange(TowardDest(routes', f.to, f.dest, f.hop + 1)) \subseteq Cmd
    BY <2>2, <2>3, <2>4, TowardDestType
  <2>6. Missed(f.to, Coord) \in BOOLEAN
    BY DEF Missed, Full, Known
  <2>7. QED
    BY <1>6, <2>3, <2>5, <2>6 DEF PassCommand, TypeOK
<1>7. ASSUME NEW n \in Senders, NEW d \in Nodes, ExpireRoute(n, d) PROVE TypeOK'
  BY <1>7 DEF ExpireRoute, TypeOK
<1>8. ASSUME NEW d \in Talkers, ForgetRoute(d) PROVE TypeOK'
  BY <1>8 DEF ForgetRoute, TypeOK
<1>9. CASE SetPairing
  BY <1>9 DEF SetPairing, TypeOK
<1>10. ASSUME NEW n \in Members, NEW p \in Senders, Adopt(n, p) PROVE TypeOK'
  <2>1. cost[p] + 1 \in Hops
    BY <1>10 DEF Adopt, TypeOK, Hops
  <2>2. QED
    BY <1>10, <2>1 DEF Adopt, TypeOK
<1>11. ASSUME NEW n \in Members, LoseParent(n) PROVE TypeOK'
  BY <1>11 DEF LoseParent, TypeOK
<1>12. ASSUME NEW l \in Fragile, LinkBreaks(l) PROVE TypeOK'
  <2>1. troubles + 1 \in 0..MaxTroubles
    BY <1>12 DEF LinkBreaks, TypeOK
  <2>2. QED
    BY <1>12, <2>1 DEF LinkBreaks, TypeOK
<1>13. ASSUME NEW n \in Unstable, Reboot(n) PROVE TypeOK'
  <2>1. troubles + 1 \in 0..MaxTroubles
    BY <1>13 DEF Reboot, TypeOK
  <2>2. routes' \in [Senders -> [Nodes -> Route \cup {NoRoute}]]
    BY <1>13 DEF Reboot, TypeOK
  <2>3. parent' \in [Members -> Senders \cup {NoParent}] /\ cost' \in [Nodes -> Hops]
    BY <1>13 DEF Reboot, TypeOK
  <2>4. air' \subseteq Uplink \cup Cmd /\ pairing' \in BOOLEAN
    BY <1>13 DEF Reboot, TypeOK
  <2>5. QED
    BY <1>13, <2>1, <2>2, <2>3, <2>4 DEF Reboot, TypeOK
<1>14. CASE UNCHANGED vars
  BY <1>14 DEF vars, TypeOK
<1>15. QED
  BY <1>1, <1>2, <1>3, <1>4, <1>5, <1>6, <1>7, <1>8, <1>9, <1>10, <1>11, <1>12,
     <1>13, <1>14
  DEF Next, Hears

\* Every route, frame and path cost stays within the hop limit, in every state
\* of every mesh: circles of parents and late frames included.
THEOREM RoutesTypeCorrect == Spec => []TypeOK
<1>1. QED
  BY InitType, NextType, PTL DEF Spec
-----------------------------------------------------------------------------
(* The books of routes and frames. *)

\* RouteBooks without its premise: what holds until a table lost an entry.
Falls ==
  \A x \in Senders, d \in Nodes :
    Known(x, d) /\ routes[x][d].next # d =>
      /\ routes[x][d].next \in Senders
      /\ Known(routes[x][d].next, d)
      /\ routes[routes[x][d].next][d].hop < routes[x][d].hop

Descends(f) ==
  f.kind = "cmd" /\ f.to # f.dest =>
    /\ f.to \in Senders /\ Known(f.to, f.dest)
    /\ routes[f.to][f.dest].hop < f.rank
    /\ f.hop < HopLimit

Vouched(f) ==
  /\ f.kind = "up"  => PassedOn(f, f.origin)
  /\ f.kind = "cmd" => PassedOn(f, Coord) /\ f.hop + f.rank <= HopLimit

Books == Falls /\ \A f \in air : Descends(f) /\ Vouched(f)

\* RouteBooks is Books as long as no table lost an entry.
LEMMA BooksAre == RouteBooks <=> (gaps \/ Books)
BY DEF RouteBooks, RoutesFall, CommandsDescend, Books, Falls, Descends, Vouched

\* Learning from a frame whose sender knows the origin better keeps the hop
\* counts falling, and forgets nothing.
LEMMA LearnKeeps ==
  ASSUME TypeOK, Falls,
         NEW n \in Senders, NEW o \in Nodes, NEW from \in Nodes, NEW hop \in Hops,
         routes' = Learn(n, o, from, hop), ~Missed(n, o),
         from = o \/ (from \in Senders /\ Known(from, o) /\ routes[from][o].hop < hop)
  PROVE  /\ \A x \in Senders, d \in Nodes :
              Known(x, d) => Known(x, d)' /\ routes'[x][d].hop <= routes[x][d].hop
         /\ o # n => Known(n, o)' /\ routes'[n][o].hop <= hop
         /\ \A x \in Senders, d \in Nodes : d # o => routes'[x][d] = routes[x][d]
         /\ Falls'
<1> DEFINE new == [next |-> from, hop |-> hop]
<1>1. new \in Route
  BY DEF Route
<1>2. new # NoRoute
  BY <1>1, Constants
<1>3. \A x \in Senders, d \in Nodes :
        Known(x, d) => routes[x][d].hop \in Nat /\ routes[x][d].next \in Nodes
  BY KnownIsRoute, Constants
<1>4. hop \in Nat
  BY Constants
<1>5. CASE routes' = routes
  <2>1. o # n => Known(n, o) /\ routes[n][o].hop <= hop
    <3>1. SUFFICES ASSUME o # n PROVE Known(n, o) /\ routes[n][o].hop <= hop
      OBVIOUS
    <3>2. Known(n, o) \/ ~Full(n)
      BY <3>1 DEF Missed
    <3>3. CASE (IF Known(n, o) THEN hop <= routes[n][o].hop ELSE ~Full(n))
      <4>1. routes' = [routes EXCEPT ![n][o] = new]
        BY <3>1, <3>3 DEF Learn
      <4>2. routes[n][o] = new
        BY <4>1, <1>5 DEF TypeOK
      <4>3. QED
        BY <4>2, <1>2, <1>4 DEF Known
    <3>4. CASE ~(IF Known(n, o) THEN hop <= routes[n][o].hop ELSE ~Full(n))
      <4>1. Known(n, o) /\ ~(hop <= routes[n][o].hop)
        BY <3>2, <3>4
      <4>2. QED
        BY <4>1, <1>3, <1>4
    <3>5. QED
      BY <3>3, <3>4
  <2>2. QED
    BY <1>3, <1>5, <2>1 DEF Falls, Known
<1>6. CASE routes' # routes
  <2>1. o # n /\ (IF Known(n, o) THEN hop <= routes[n][o].hop ELSE ~Full(n))
    BY <1>6 DEF Learn
  <2>2. routes' = [routes EXCEPT ![n][o] = new]
    BY <2>1 DEF Learn
  <2>3. routes'[n][o] = new
    BY <2>2 DEF TypeOK
  <2>4. \A x \in Senders, d \in Nodes :
          ~(x = n /\ d = o) => routes'[x][d] = routes[x][d]
    BY <2>2 DEF TypeOK
  <2>5. new.next = from /\ new.hop = hop
    OBVIOUS
  <2>6. Known(n, o)' /\ routes'[n][o].hop <= hop
    BY <2>3, <2>5, <1>2, <1>4 DEF Known
  <2>7. \A x \in Senders, d \in Nodes :
          Known(x, d) => Known(x, d)' /\ routes'[x][d].hop <= routes[x][d].hop
    <3>1. SUFFICES ASSUME NEW x \in Senders, NEW d \in Nodes, Known(x, d)
                   PROVE  Known(x, d)' /\ routes'[x][d].hop <= routes[x][d].hop
      OBVIOUS
    <3>2. CASE x = n /\ d = o
      BY <3>1, <3>2, <2>1, <2>3, <2>5, <2>6
    <3>3. CASE ~(x = n /\ d = o)
      BY <3>1, <3>3, <2>4, <1>3 DEF Known
    <3>4. QED
      BY <3>2, <3>3
  <2>8. ASSUME NEW x \in Senders, NEW d \in Nodes,
               Known(x, d)', routes'[x][d].next # d
        PROVE  /\ routes'[x][d].next \in Senders
               /\ routes'[routes'[x][d].next][d] # NoRoute
               /\ routes'[routes'[x][d].next][d].hop < routes'[x][d].hop
    <3>1. CASE x = n /\ d = o
      <4>1. from \in Senders /\ Known(from, o) /\ routes[from][o].hop < hop
        BY <2>8, <3>1, <2>3, <2>5
      <4>2. from # n
        BY <4>1, <2>1, <1>3, <1>4
      <4>3. routes'[from][o] = routes[from][o]
        BY <4>1, <4>2, <2>4
      <4>4. QED
        BY <3>1, <4>1, <4>3, <2>3, <2>5 DEF Known
    <3>2. CASE ~(x = n /\ d = o)
      <4>1. routes'[x][d] = routes[x][d]
        BY <3>2, <2>4
      <4>2. PICK y \in Senders :
              /\ y = routes[x][d].next /\ Known(y, d)
              /\ routes[y][d].hop < routes[x][d].hop
        BY <2>8, <4>1 DEF Falls, Known
      <4>3. Known(x, d)
        BY <2>8, <4>1 DEF Known
      <4>4. Known(y, d)' /\ routes'[y][d].hop <= routes[y][d].hop
        BY <4>2, <2>7
      <4>5. routes[y][d].hop \in Nat /\ routes[x][d].hop \in Nat
        BY <4>2, <4>3, <1>3
      <4>6. routes'[y][d].hop \in Nat
        <5>1. CASE y = n /\ d = o
          BY <5>1, <2>3, <2>5, <1>4
        <5>2. CASE ~(y = n /\ d = o)
          BY <5>2, <2>4, <4>2, <4>5
        <5>3. QED
          BY <5>1, <5>2
      <4>7. routes'[y][d].hop < routes'[x][d].hop
        BY <4>1, <4>2, <4>4, <4>5, <4>6
      <4>8. QED
        BY <4>1, <4>2, <4>4, <4>7 DEF Known
    <3>3. QED
      BY <3>1, <3>2
  <2>9. Falls'
    BY <2>8 DEF Falls, Known
  <2>10. QED
    BY <2>4, <2>6, <2>7, <2>9
<1>7. QED
  BY <1>5, <1>6

\* Hop counts fall in a table given as a value.
FallsIn(table) ==
  \A x \in Senders, d \in Nodes :
    table[x][d] # NoRoute /\ table[x][d].next # d =>
      /\ table[x][d].next \in Senders
      /\ table[table[x][d].next][d] # NoRoute
      /\ table[table[x][d].next][d].hop < table[x][d].hop

\* A command a node sends by its own table descends from there.
LEMMA SentByTable ==
  ASSUME NEW table \in [Senders -> [Nodes -> Route \cup {NoRoute}]], FallsIn(table),
         NEW n \in Senders, NEW d \in Members, NEW hop \in Hops,
         table[n][d] # NoRoute => hop + table[n][d].hop <= HopLimit,
         NEW f \in TowardDest(table, n, d, hop)
  PROVE  /\ f.kind = "cmd" /\ f.dest = d /\ f.from = n /\ f.hop = hop
         /\ f.hop + f.rank <= HopLimit
         /\ f.to # d => /\ f.to \in Senders /\ table[f.to][d] # NoRoute
                        /\ table[f.to][d].hop < f.rank
                        /\ hop < HopLimit
<1> DEFINE r == table[n][d]
<1>1. f = [kind |-> "cmd", dest |-> d, from |-> n, hop |-> hop,
           to   |-> IF r = NoRoute THEN d ELSE r.next,
           rank |-> IF r = NoRoute THEN 0 ELSE r.hop]
  BY DEF TowardDest
<1>2. /\ f.kind = "cmd" /\ f.dest = d /\ f.from = n /\ f.hop = hop
      /\ f.to = IF r = NoRoute THEN d ELSE r.next
      /\ f.rank = IF r = NoRoute THEN 0 ELSE r.hop
  BY <1>1
<1>3. hop \in Nat /\ hop <= HopLimit /\ HopLimit \in Nat /\ d \in Nodes
  BY Constants DEF Hops
<1>4. f.hop + f.rank <= HopLimit
  BY <1>2, <1>3
<1>5. ASSUME r # NoRoute, r.next # d
      PROVE  /\ f.to \in Senders /\ table[f.to][d] # NoRoute
             /\ table[f.to][d].hop < f.rank
             /\ hop < HopLimit
  <2>1. /\ r.next \in Senders /\ table[r.next][d] # NoRoute
        /\ table[r.next][d].hop < r.hop
    BY <1>3, <1>5 DEF FallsIn
  <2>2. r \in Route /\ table[r.next][d] \in Route
    BY <1>3, <1>5, <2>1
  <2>3. r.hop \in Nat /\ table[r.next][d].hop \in Nat
    BY <2>2, Constants DEF Route
  <2>4. hop < HopLimit
    BY <1>3, <1>5, <2>1, <2>3
  <2>5. QED
    BY <1>2, <1>5, <2>1, <2>4
<1>6. QED
  BY <1>2, <1>4, <1>5

\* What was true of a frame stays true while hop counts only fall.
LEMMA FrameKeeps ==
  ASSUME TypeOK, TypeOK', NEW f \in air, Descends(f), Vouched(f),
         \A x \in Senders, d \in Nodes :
           Known(x, d) => Known(x, d)' /\ routes'[x][d].hop <= routes[x][d].hop
  PROVE  Descends(f)' /\ Vouched(f)'
<1>1. \A x \in Senders, d \in Nodes :
        Known(x, d) => routes[x][d].hop \in Nat /\ routes'[x][d].hop \in Nat
  <2>1. ASSUME NEW x \in Senders, NEW d \in Nodes, Known(x, d)
        PROVE  routes[x][d].hop \in Nat /\ routes'[x][d].hop \in Nat
    <3>1. routes[x][d].hop \in Nat
      BY <2>1, KnownIsRoute, Constants
    <3>2. Known(x, d)'
      BY <2>1
    <3>3. routes'[x][d] \in Route
      BY <3>2 DEF TypeOK, Known
    <3>4. QED
      BY <3>1, <3>3, Constants DEF Route
  <2>2. QED
    BY <2>1
<1>2. CASE f.kind = "up"
  <2>1. f.origin \in Nodes /\ f.hop \in Nat
    BY <1>2, Frames, Constants DEF Uplink
  <2>2. PassedOn(f, f.origin)
    BY <1>2 DEF Vouched
  <2>3. PassedOn(f, f.origin)'
    BY <1>1, <2>1, <2>2 DEF PassedOn
  <2>4. QED
    BY <1>2, <2>3 DEF Vouched, Descends
<1>3. CASE f.kind = "cmd"
  <2>1. f.dest \in Nodes /\ f.hop \in Nat /\ f.rank \in Nat
    BY <1>3, Frames, Constants DEF Cmd
  <2>2. PassedOn(f, Coord) /\ f.hop + f.rank <= HopLimit
    BY <1>3 DEF Vouched
  <2>3. PassedOn(f, Coord)'
    BY <1>1, <2>1, <2>2, Constants DEF PassedOn
  <2>4. Vouched(f)'
    BY <1>3, <2>2, <2>3 DEF Vouched
  <2>5. Descends(f)'
    BY <1>1, <1>3, <2>1 DEF Descends
  <2>6. QED
    BY <2>4, <2>5
<1>4. QED
  BY <1>2, <1>3, Frames

\* A node that hears a report learns, and may pass it on.
LEMMA HearKeeps ==
  ASSUME TypeOK, TypeOK', Books, NEW f \in air, f.kind = "up", f.to \in Senders,
         routes' = Learn(f.to, f.origin, f.from, f.hop), ~Missed(f.to, f.origin),
         air' \subseteq (air \ {f}) \cup TowardCoord(f.to, f)
  PROVE  Books'
<1>1. f \in Uplink
  BY Frames
<1>2. f.origin \in Nodes /\ f.from \in Nodes /\ f.hop \in Hops /\ f.hop \in Nat
  BY <1>1, Constants DEF Uplink
<1>3. PassedOn(f, f.origin)
  BY DEF Books, Vouched
<1>4. /\ \A x \in Senders, d \in Nodes :
           Known(x, d) => Known(x, d)' /\ routes'[x][d].hop <= routes[x][d].hop
      /\ f.origin # f.to =>
           Known(f.to, f.origin)' /\ routes'[f.to][f.origin].hop <= f.hop
      /\ Falls'
  BY <1>2, <1>3, LearnKeeps DEF Books, PassedOn
<1>5. ASSUME NEW g \in air PROVE Descends(g)' /\ Vouched(g)'
  BY <1>4, <1>5, FrameKeeps DEF Books
<1>6. ASSUME NEW g \in TowardCoord(f.to, f) PROVE Descends(g)' /\ Vouched(g)'
  <2>1. g = [f EXCEPT !.from = f.to, !.to = parent[f.to], !.hop = @ + 1]
    BY DEF TowardCoord
  <2>2. g.kind = "up" /\ g.origin = f.origin /\ g.from = f.to /\ g.hop = f.hop + 1
    BY <2>1, <1>1 DEF Uplink
  <2>3. routes'[f.to][f.origin].hop <= f.hop /\ Known(f.to, f.origin)' =>
          routes'[f.to][f.origin].hop < f.hop + 1
    <3>1. SUFFICES ASSUME Known(f.to, f.origin)',
                          routes'[f.to][f.origin].hop <= f.hop
                   PROVE  routes'[f.to][f.origin].hop < f.hop + 1
      OBVIOUS
    <3>2. routes'[f.to][f.origin] \in Route
      BY <3>1, <1>2 DEF TypeOK, Known
    <3>3. routes'[f.to][f.origin].hop \in Nat
      BY <3>2, Constants DEF Route
    <3>4. QED
      BY <3>1, <3>3, <1>2
  <2>4. PassedOn(g, g.origin)'
    BY <1>4, <2>2, <2>3 DEF PassedOn
  <2>5. QED
    BY <2>2, <2>4 DEF Vouched, Descends
<1>7. QED
  BY <1>4, <1>5, <1>6 DEF Books
\* A router that passes a command on.
LEMMA PassKeeps ==
  ASSUME TypeOK, TypeOK', Books, NEW f \in air, PassCommand(f), ~gaps'
  PROVE  Books'
<1>1. f \in Cmd /\ f.to \in Senders /\ f.kind = "cmd" /\ f.to # f.dest
  BY Frames, Constants DEF PassCommand
<1>2. /\ f.dest \in Members /\ f.dest \in Nodes /\ f.dest # Coord
      /\ f.from \in Nodes /\ f.hop \in Hops /\ f.hop \in Nat /\ f.rank \in Nat
  BY <1>1, Constants DEF Cmd
<1>3. /\ PassedOn(f, Coord) /\ f.hop + f.rank <= HopLimit
      /\ Known(f.to, f.dest) /\ routes[f.to][f.dest].hop < f.rank /\ f.hop < HopLimit
  BY <1>1 DEF Books, Descends, Vouched
<1>4. routes' = Learn(f.to, Coord, f.from, f.hop) /\ ~Missed(f.to, Coord)
  BY DEF PassCommand
<1>5. /\ \A x \in Senders, d \in Nodes :
           Known(x, d) => Known(x, d)' /\ routes'[x][d].hop <= routes[x][d].hop
      /\ Coord # f.to => Known(f.to, Coord)' /\ routes'[f.to][Coord].hop <= f.hop
      /\ \A x \in Senders, d \in Nodes : d # Coord => routes'[x][d] = routes[x][d]
      /\ Falls'
  BY <1>1, <1>2, <1>3, <1>4, LearnKeeps, Constants DEF Books, PassedOn
<1>6. ASSUME NEW g \in air PROVE Descends(g)' /\ Vouched(g)'
  BY <1>5, <1>6, FrameKeeps DEF Books
<1>7. f.hop + 1 \in Hops
  BY <1>2, <1>3, Constants DEF Hops
<1>8. f.to = Coord \/ (Known(f.to, Coord)' /\ routes'[f.to][Coord].hop < f.hop + 1)
  <2>1. SUFFICES ASSUME f.to # Coord
                 PROVE  Known(f.to, Coord)' /\ routes'[f.to][Coord].hop < f.hop + 1
    OBVIOUS
  <2>2. Known(f.to, Coord)' /\ routes'[f.to][Coord].hop <= f.hop
    BY <1>5, <2>1
  <2>3. routes'[f.to][Coord] \in Route
    BY <2>2, <1>1, Constants DEF TypeOK, Known
  <2>4. routes'[f.to][Coord].hop \in Nat
    BY <2>3, Constants DEF Route
  <2>5. QED
    BY <2>2, <2>4, <1>2
<1>9. f.hop + 1 + routes'[f.to][f.dest].hop <= HopLimit
  <2>1. routes'[f.to][f.dest] = routes[f.to][f.dest]
    BY <1>1, <1>2, <1>5
  <2>2. routes[f.to][f.dest].hop \in Nat
    BY <1>1, <1>2, <1>3, KnownIsRoute, Constants
  <2>3. QED
    BY <1>2, <1>3, <2>1, <2>2, Constants
<1>10. ASSUME NEW g, g \in TowardDest(routes', f.to, f.dest, f.hop + 1)
       PROVE  Descends(g)' /\ Vouched(g)'
  <2>1. routes' \in [Senders -> [Nodes -> Route \cup {NoRoute}]] /\ FallsIn(routes')
    BY <1>5 DEF TypeOK, Falls, FallsIn, Known
  <2>2. /\ g.kind = "cmd" /\ g.dest = f.dest /\ g.from = f.to /\ g.hop = f.hop + 1
        /\ g.hop + g.rank <= HopLimit
        /\ g.to # f.dest => /\ g.to \in Senders /\ routes'[g.to][f.dest] # NoRoute
                            /\ routes'[g.to][f.dest].hop < g.rank
                            /\ f.hop + 1 < HopLimit
    BY <1>1, <1>2, <1>7, <1>9, <1>10, <2>1, SentByTable
  <2>3. PassedOn(g, Coord)'
    BY <1>1, <1>8, <2>2 DEF PassedOn
  <2>4. QED
    BY <2>2, <2>3 DEF Descends, Vouched, Known
<1>11. QED
  BY <1>5, <1>6, <1>10 DEF Books, PassCommand, InRange
\* The initial state has empty books.
LEMMA InitBooks == Init => RouteBooks
<1>1. SUFFICES ASSUME Init PROVE Books
  BY BooksAre
<1>2. QED
  BY <1>1 DEF Init, Books, Falls, Known

\* Every step keeps the books.
LEMMA NextBooks == TypeOK /\ TypeOK' /\ RouteBooks /\ [Next]_vars => RouteBooks'
<1> SUFFICES ASSUME TypeOK, TypeOK', RouteBooks, [Next]_vars PROVE RouteBooks'
  OBVIOUS
<1>1. RouteBooks' <=> (gaps' \/ Books')
  BY DEF RouteBooks, RoutesFall, CommandsDescend, Books, Falls, Descends, Vouched
<1>2. SUFFICES ASSUME ~gaps' PROVE Books'
  BY <1>1
<1>3. ~gaps
  <2>1. Next => (gaps => gaps')
    BY DEF Next, SendUplink, SendDownlink, Hears, RouterHears, CoordHears, CommandEnds,
       PassCommand, LoseFrame, ExpireRoute, ForgetRoute, SetPairing, Adopt, LoseParent,
       LinkBreaks, Reboot
  <2>2. QED
    BY <1>2, <2>1 DEF vars
<1>4. Books
  BY <1>3, BooksAre
<1>5. ASSUME routes' = routes, air' \subseteq air PROVE Books'
  <2>1. \A x \in Senders, d \in Nodes : Known(x, d)' <=> Known(x, d)
    BY <1>5 DEF Known
  <2>2. QED
    BY <1>4, <1>5, <2>1 DEF Books, Falls, Descends, Vouched, PassedOn, Known
<1>6. ASSUME NEW o \in Talkers, SendUplink(o) PROVE Books'
  <2>1. Falls' /\ \A f \in air : (Descends(f) /\ Vouched(f))'
    BY <1>4, <1>6 DEF SendUplink, Books, Falls, Descends, Vouched, PassedOn, Known
  <2>2. ASSUME NEW f \in air', f \notin air PROVE Descends(f)' /\ Vouched(f)'
    <3>1. PICK t : f = [kind |-> "up", origin |-> o, from |-> o, to |-> t, hop |-> 0]
      BY <1>6, <2>2 DEF SendUplink, InRange
    <3>2. f.kind = "up" /\ f.from = f.origin
      BY <3>1
    <3>3. QED
      BY <3>2 DEF Descends, Vouched, PassedOn
  <2>3. QED
    BY <2>1, <2>2 DEF Books
<1>7. ASSUME NEW d \in Talkers, SendDownlink(d) PROVE Books'
  <2>1. Falls' /\ \A f \in air : (Descends(f) /\ Vouched(f))'
    BY <1>4, <1>7 DEF SendDownlink, Books, Falls, Descends, Vouched, PassedOn, Known
  <2>2. ASSUME NEW f \in air', f \notin air PROVE Descends(f)' /\ Vouched(f)'
    <3>1. f \in TowardDest(routes, Coord, d, 0)
      BY <1>7, <2>2 DEF SendDownlink, InRange
    <3>2. routes \in [Senders -> [Nodes -> Route \cup {NoRoute}]] /\ FallsIn(routes)
      BY <1>4 DEF TypeOK, Books, Falls, FallsIn, Known
    <3>3. d \in Members /\ d \in Nodes
      BY Constants
    <3>4. routes[Coord][d] # NoRoute => 0 + routes[Coord][d].hop <= HopLimit
      BY <3>3, KnownIsRoute, Constants DEF Known, Hops
    <3>5. /\ f.kind = "cmd" /\ f.dest = d /\ f.from = Coord /\ f.hop = 0
          /\ f.hop + f.rank <= HopLimit
          /\ f.to # d => /\ f.to \in Senders /\ routes[f.to][d] # NoRoute
                         /\ routes[f.to][d].hop < f.rank
                         /\ 0 < HopLimit
      BY <3>1, <3>2, <3>3, <3>4, Constants, SentByTable
    <3>6. QED
      BY <1>7, <3>5 DEF SendDownlink, Descends, Vouched, PassedOn, Known
  <2>3. QED
    BY <2>1, <2>2 DEF Books
<1>8. ASSUME NEW f \in air, RouterHears(f) PROVE Books'
  <2>1. f.kind = "up" /\ f.to \in Senders /\ ~Missed(f.to, f.origin)
    BY <1>2, <1>8, Constants DEF RouterHears
  <2>2. air' \subseteq (air \ {f}) \cup TowardCoord(f.to, f)
    BY <1>8 DEF RouterHears, InRange
  <2>3. QED
    BY <1>4, <1>8, <2>1, <2>2, HearKeeps DEF RouterHears
<1>9. ASSUME NEW f \in air, CoordHears(f) PROVE Books'
  <2>1. f.kind = "up" /\ f.to = Coord /\ Coord \in Senders /\ air' = air \ {f}
    BY <1>9, Constants DEF CoordHears
  <2>2. CASE Known(Coord, f.origin) \/ pairing
    BY <1>2, <1>4, <1>9, <2>1, <2>2, HearKeeps DEF CoordHears
  <2>3. CASE ~(Known(Coord, f.origin) \/ pairing)
    BY <1>5, <1>9, <2>1, <2>3 DEF CoordHears
  <2>4. QED
    BY <2>2, <2>3
<1>10. ASSUME NEW f \in air, PassCommand(f) PROVE Books'
  BY <1>2, <1>4, <1>10, PassKeeps
<1>11. ASSUME NEW f \in air, CommandEnds(f) \/ LoseFrame(f) PROVE Books'
  BY <1>5, <1>11 DEF CommandEnds, LoseFrame
<1>12. ASSUME NEW n \in Senders, NEW d \in Nodes, ExpireRoute(n, d) PROVE Books'
  BY <1>2, <1>12 DEF ExpireRoute
<1>13. ASSUME NEW d \in Talkers, ForgetRoute(d) PROVE Books'
  BY <1>2, <1>13 DEF ForgetRoute
<1>14. CASE SetPairing
  BY <1>5, <1>14 DEF SetPairing
<1>15. ASSUME NEW n \in Members, NEW p \in Senders, Adopt(n, p) PROVE Books'
  BY <1>5, <1>15 DEF Adopt
<1>16. ASSUME NEW n \in Members, LoseParent(n) PROVE Books'
  BY <1>5, <1>16 DEF LoseParent
<1>17. ASSUME NEW l \in Fragile, LinkBreaks(l) PROVE Books'
  BY <1>5, <1>17 DEF LinkBreaks
<1>18. ASSUME NEW n \in Unstable, Reboot(n) PROVE Books'
  BY <1>2, <1>18 DEF Reboot
<1>19. CASE UNCHANGED vars
  BY <1>5, <1>19 DEF vars
<1>20. QED
  BY <1>6, <1>7, <1>8, <1>9, <1>10, <1>11, <1>12, <1>13, <1>14, <1>15, <1>16, <1>17,
     <1>18, <1>19
  DEF Next, Hears

\* Whoever passes a report on knows its origin over fewer hops than the report
\* says, and a command never has more hops behind and before it than the limit.
THEOREM RouteBooksHold == Spec => []RouteBooks
<1>1. Init => TypeOK /\ RouteBooks
  BY InitType, InitBooks
<1>2. TypeOK /\ RouteBooks /\ [Next]_vars => (TypeOK /\ RouteBooks)'
  BY NextType, NextBooks
<1>3. QED
  BY <1>1, <1>2, PTL DEF Spec

\* While no table lost an entry, every next hop is closer to the device than the
\* table that names it: route tables never hold a circle.
THEOREM RoutesFallHolds == Spec => []RoutesFall
<1>1. RouteBooks => RoutesFall
  BY DEF RouteBooks
<1>2. QED
  BY <1>1, RouteBooksHold, PTL

\* Every nonempty set of natural numbers has a least element.
LEMMA Least ==
  ASSUME NEW S \in SUBSET Nat, S # {}
  PROVE  \E m \in S : \A n \in S : m <= n
<1> DEFINE less == OpToRel(<, Nat)
<1>1. IsWellFoundedOn(less, Nat)
  BY NatLessThanWellFounded
<1>2. \A m, n \in Nat : n < m => <<n, m>> \in less
  BY DEF OpToRel
<1> HIDE DEF less
<1>3. PICK m \in S : \A n \in S : ~ (<<n, m>> \in less)
  BY <1>1, WFMin
<1>4. ASSUME NEW n \in S PROVE m <= n
  <2>1. m \in Nat /\ n \in Nat /\ ~ (n < m)
    BY <1>2, <1>3
  <2> QED
    BY <2>1
<1> QED
  BY <1>4

\* A way from the next hop is prolonged to one from the node.
LEMMA Prolonged ==
  ASSUME NEW x \in Senders, NEW d \in Nodes, Known(x, d), NEW k \in Nat,
         NEW p \in [0..k -> Nodes], LeadsTo(p, routes[x][d].next, d, k)
  PROVE  \E q \in [0..(k + 1) -> Nodes] : LeadsTo(q, x, d, k + 1)
<1> DEFINE q == [i \in 0..(k + 1) |-> IF i = 0 THEN x ELSE p[i - 1]]
<1>1. q \in [0..(k + 1) -> Nodes]
  BY Constants
<1>2. q[0] = x /\ q[k + 1] = p[k]
  OBVIOUS
<1>3. ASSUME NEW i \in 0..k
      PROVE  q[i] \in Senders /\ Known(q[i], d) /\ routes[q[i]][d].next = q[i + 1]
  <2>1. CASE i = 0
    <3>1. q[i] = x /\ q[i + 1] = p[0]
      BY <2>1
    <3> HIDE DEF q
    <3> QED
      BY <3>1 DEF LeadsTo
  <2>2. CASE i # 0
    <3>1. i - 1 \in 0..(k - 1) /\ q[i] = p[i - 1] /\ q[i + 1] = p[(i - 1) + 1]
      BY <2>2
    <3> HIDE DEF q
    <3> QED
      BY <3>1 DEF LeadsTo
  <2> QED
    BY <2>1, <2>2
<1> HIDE DEF q
<1>4. LeadsTo(q, x, d, k + 1)
  <2>1. (k + 1) - 1 = k
    OBVIOUS
  <2> QED
    BY <1>2, <1>3, <2>1 DEF LeadsTo
<1> QED
  BY <1>1, <1>4

\* Where hop counts fall, every way ends, and only its destination ends one: a node
\* whose entry leads nowhere, with the least count, has a next hop whose entry leads on.
LEMMA FallLeads == ASSUME TypeOK, RoutesFall PROVE RoutesLead
<1> SUFFICES ASSUME ~gaps, NEW d \in Nodes,
                    \E x \in Senders : Known(x, d) /\
                      ~ \E k \in 1..(routes[x][d].hop + 1) :
                          \E p \in [0..k -> Nodes] : LeadsTo(p, x, d, k)
             PROVE  FALSE
  BY DEF RoutesLead
<1> DEFINE hop(x) == routes[x][d].hop
           Way(x) == \E k \in 1..(hop(x) + 1) : \E p \in [0..k -> Nodes] : LeadsTo(p, x, d, k)
           Bad == {x \in Senders : Known(x, d) /\ ~Way(x)}
           S == {hop(x) : x \in Bad}
<1>1. ASSUME NEW x \in Senders, Known(x, d)
      PROVE  hop(x) \in Nat /\ routes[x][d].next \in Nodes
  BY <1>1, KnownIsRoute, Constants
<1>2. S \in SUBSET Nat /\ S # {}
  BY <1>1
<1>3. PICK x \in Bad : \A y \in Bad : hop(x) <= hop(y)
  <2> HIDE DEF Bad
  <2>1. PICK h \in S : \A y \in S : h <= y
    <3> HIDE DEF S
    <3> QED
      BY <1>2, Least
  <2> QED
    BY <2>1
<1>4. x \in Senders /\ Known(x, d) /\ ~Way(x)
  OBVIOUS
<1> DEFINE y == routes[x][d].next
<1>5. CASE y = d
  <2> DEFINE p == [i \in 0..1 |-> IF i = 0 THEN x ELSE d]
  <2>1. p \in [0..1 -> Nodes]
    BY <1>4, Constants
  <2>2. p[0] = x /\ p[1] = d /\ \A i \in 0..(1 - 1) : i = 0 /\ i + 1 = 1
    OBVIOUS
  <2> HIDE DEF p
  <2>3. LeadsTo(p, x, d, 1)
    BY <1>4, <1>5, <2>2 DEF LeadsTo
  <2>4. 1 \in 1..(hop(x) + 1)
    BY <1>1, <1>4
  <2> QED
    BY <1>4, <2>1, <2>3, <2>4
<1>6. CASE y # d
  <2>1. y \in Senders /\ Known(y, d) /\ hop(y) < hop(x)
    BY <1>4, <1>6 DEF RoutesFall
  <2>2. hop(y) \in Nat /\ hop(x) \in Nat
    BY <1>1, <1>4, <2>1
  <2>3. y \notin Bad
    BY <1>3, <2>1, <2>2
  <2>4. PICK k \in 1..(hop(y) + 1) : \E p \in [0..k -> Nodes] : LeadsTo(p, y, d, k)
    BY <2>1, <2>3
  <2>5. k \in Nat /\ k + 1 \in 1..(hop(x) + 1)
    BY <2>1, <2>2
  <2>6. \E q \in [0..(k + 1) -> Nodes] : LeadsTo(q, x, d, k + 1)
    BY <1>4, <2>4, <2>5, Prolonged
  <2> QED
    BY <1>4, <2>5, <2>6
<1> QED
  BY <1>5, <1>6

\* While no table lost an entry, the tables of all nodes together hold a whole way
\* from every node that knows a device to that device, in any mesh.
THEOREM RoutesLeadHolds == Spec => []RoutesLead
<1>1. TypeOK /\ RouteBooks => RoutesLead
  BY FallLeads DEF RouteBooks
<1>2. QED
  BY <1>1, RoutesTypeCorrect, RouteBooksHold, PTL

\* While no table lost an entry, a command comes closer to its device with every
\* hop and the hop limit never cuts it off.
THEOREM CommandsDescendHolds == Spec => []CommandsDescend
<1>1. RouteBooks => CommandsDescend
  BY DEF RouteBooks
<1>2. QED
  BY <1>1, RouteBooksHold, PTL
=============================================================================
