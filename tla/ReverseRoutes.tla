----------------------------- MODULE ReverseRoutes -----------------------------
(***************************************************************************)
(* The way back: how the coordinator and the routers learn from uplinks    *)
(* where a device is, and how a command finds it (en2m_mesh.c).            *)
(*                                                                         *)
(* Every frame a router passes on teaches it, and the node it passes it    *)
(* to, a next hop.  A table keeps the shortest way it ever heard of, until *)
(* nothing came from the device for EN2M_ROUTE_STALE_MS.  Parents change   *)
(* as MeshTree says; here a beacon arrives at once.                        *)
(***************************************************************************)
EXTENDS Naturals, FiniteSets

CONSTANTS
  Coord,      \* the coordinator
  Routers,    \* nodes that forward
  Leaves,     \* nodes that do not
  Talkers,    \* bound of the model: the members that send reports
  Range,      \* pairs of nodes within radio range at first
  Fragile,    \* bound of the model: the pairs that may lose each other
  Unstable,   \* bound of the model: the nodes that may reboot
  HopLimit,   \* EN2M_HOP_LIMIT
  MaxRoutes,  \* EN2M_MAX_ROUTES
  NoParent,   \* has_parent is false
  NoRoute,    \* no entry for a destination
  MaxUplinks, \* bounds of the model: uplinks and
  MaxCommands,\* commands under way when one is sent
  MaxTroubles \* bound of the model: links that break and nodes that reboot

Members == Routers \cup Leaves
Senders == Routers \cup {Coord}
Nodes   == Members \cup {Coord}

ASSUME NodesAssumption ==
  /\ Coord \notin Members /\ Routers \cap Leaves = {} /\ Talkers \subseteq Members
  /\ NoParent \notin Nodes
ASSUME LimitsAssumption ==
  /\ HopLimit \in Nat /\ MaxRoutes \in Nat /\ MaxTroubles \in Nat
  /\ MaxUplinks \in Nat /\ MaxCommands \in Nat

Hops   == 0..HopLimit
Route  == [next : Nodes, hop : Hops]
Uplink == [kind : {"up"}, origin : Members, from : Members, to : Senders, hop : Hops]
\* rank: history, the hop count of the entry the sender followed.
Cmd    == [kind : {"cmd"}, dest : Members, from : Senders, to : Nodes,
           hop : Hops, rank : Hops]

ASSUME NoRouteAssumption == NoRoute \notin Route

VARIABLES
  links,    \* pairs of nodes within radio range
  parent,   \* parent_mac of each member, or NoParent
  cost,     \* path_cost of each node with a parent
  routes,   \* the route table of each node that keeps one
  pairing,  \* the coordinator's pairing flag
  air,      \* frames under way
  troubles, \* links broken and nodes rebooted so far
  gaps      \* history: some table lost an entry, or had no room for one

vars == <<links, parent, cost, routes, pairing, air, troubles, gaps>>

TypeOK ==
  /\ links \subseteq Range
  /\ parent \in [Members -> Senders \cup {NoParent}]
  /\ cost \in [Nodes -> Hops]
  /\ routes \in [Senders -> [Nodes -> Route \cup {NoRoute}]]
  /\ pairing \in BOOLEAN
  /\ air \subseteq Uplink \cup Cmd
  /\ troubles \in 0..MaxTroubles
  /\ gaps \in BOOLEAN

Init ==
  /\ links = Range
  /\ parent = [n \in Members |-> NoParent]
  /\ cost = [n \in Nodes |-> 0]
  /\ routes = [n \in Senders |-> [d \in Nodes |-> NoRoute]]
  /\ pairing = FALSE /\ air = {} /\ troubles = 0 /\ gaps = FALSE

-----------------------------------------------------------------------------
(* Definitions named <definition>_<Mistake> are faulty variants that a      *)
(* property has to catch; no specification uses them.                       *)

Linked(m, n) == <<m, n>> \in links \/ <<n, m>> \in links
Attached(n)  == n \in Members => parent[n] # NoParent

\* en2m_lookup_route
Known(n, d) == routes[n][d] # NoRoute

Full(n) == Cardinality({d \in Nodes : Known(n, d)}) >= MaxRoutes

\* Faulty: the first way heard of is kept.
Learn_First(n, o, from, hop) ==
  IF o # n /\ ~Known(n, o) /\ ~Full(n)
  THEN [routes EXCEPT ![n][o] = [next |-> from, hop |-> hop]]
  ELSE routes

\* Faulty: the latest way always replaces the one known, with its old count.
Learn_KeepsHop(n, o, from, hop) ==
  IF o # n /\ (Known(n, o) \/ ~Full(n))
  THEN [routes EXCEPT ![n][o] =
          [next |-> from, hop |-> IF Known(n, o) THEN routes[n][o].hop ELSE hop]]
  ELSE routes

\* Faulty: the hop to the node itself is counted, too.
Learn_CountsItself(n, o, from, hop) ==
  IF o # n /\ (IF Known(n, o) THEN hop < routes[n][o].hop ELSE ~Full(n))
  THEN [routes EXCEPT ![n][o] = [next |-> from, hop |-> hop + 1]]
  ELSE routes

\* en2m_learn_route: an equally short way replaces the one known, a longer one
\* does not; a full table learns nothing.
Learn(n, o, from, hop) ==
  IF o # n /\ (IF Known(n, o) THEN hop <= routes[n][o].hop ELSE ~Full(n))
  THEN [routes EXCEPT ![n][o] = [next |-> from, hop |-> hop]]
  ELSE routes

\* The frame's origin could not be entered.
Missed(n, o) == o # n /\ ~Known(n, o) /\ Full(n)

\* Frames reach only nodes in range.
InRange(frames) == {f \in frames : Linked(f.from, f.to)}

\* en2m_forward_toward_dest and the end of en2m_send_downlink: without a route
\* the frame goes straight to its destination.  table: the routes as learned.
TowardDest(table, n, d, hop) ==
  LET r == table[n][d] IN
  {[kind |-> "cmd", dest |-> d, from |-> n, hop |-> hop,
    to   |-> IF r = NoRoute THEN d ELSE r.next,
    rank |-> IF r = NoRoute THEN 0 ELSE r.hop]}

\* en2m_forward_toward_coord
TowardCoord(n, f) ==
  IF parent[n] # NoParent /\ f.hop < HopLimit
  THEN {[f EXCEPT !.from = n, !.to = parent[n], !.hop = @ + 1]}
  ELSE {}

-----------------------------------------------------------------------------
(* Frames. *)

OfKind(kind) == {f \in air : f.kind = kind}

\* en2m_send_uplink: without a parent a hello or a heartbeat is broadcast.
SendUplink(o) ==
  /\ Cardinality(OfKind("up")) < MaxUplinks
  /\ LET targets == IF parent[o] = NoParent THEN Senders \ {o} ELSE {parent[o]} IN
     air' = air \cup InRange({[kind |-> "up", origin |-> o, from |-> o,
                               to |-> t, hop |-> 0] : t \in targets})
  /\ UNCHANGED <<links, parent, cost, routes, pairing, troubles, gaps>>

\* en2m_send_downlink
SendDownlink(d) ==
  /\ Cardinality(OfKind("cmd")) < MaxCommands
  /\ air' = air \cup InRange(TowardDest(routes, Coord, d, 0))
  /\ UNCHANGED <<links, parent, cost, routes, pairing, troubles, gaps>>

\* en2m_handle_rx, an uplink at a router: learned, then passed on.
RouterHears(f) ==
  /\ f \in air /\ f.kind = "up" /\ f.to \in Routers
  /\ routes' = Learn(f.to, f.origin, f.from, f.hop)
  /\ gaps' = (gaps \/ Missed(f.to, f.origin))
  /\ air' = (air \ {f}) \cup InRange(TowardCoord(f.to, f))
  /\ UNCHANGED <<links, parent, cost, pairing, troubles>>

\* en2m_handle_rx, an uplink at the coordinator: an unknown origin is heard only
\* while the pairing window is open.
CoordHears(f) ==
  /\ f \in air /\ f.kind = "up" /\ f.to = Coord
  /\ air' = air \ {f}
  /\ IF Known(Coord, f.origin) \/ pairing
     THEN /\ routes' = Learn(Coord, f.origin, f.from, f.hop)
          /\ gaps' = (gaps \/ Missed(Coord, f.origin))
     ELSE UNCHANGED <<routes, gaps>>
  /\ UNCHANGED <<links, parent, cost, pairing, troubles>>

\* en2m_handle_rx, a command at its destination, or at a node that does not
\* forward: it goes no further.
CommandEnds(f) ==
  /\ f \in air /\ f.kind = "cmd" /\ (f.to = f.dest \/ f.to \notin Routers)
  /\ air' = air \ {f}
  /\ UNCHANGED <<links, parent, cost, routes, pairing, troubles, gaps>>

\* Faulty: a router sends the command back where it came from.
PassCommand_Back(f) ==
  /\ f \in air /\ f.kind = "cmd" /\ f.to # f.dest /\ f.to \in Routers
  /\ air' = (air \ {f}) \cup
       IF f.hop < HopLimit
       THEN InRange({[f EXCEPT !.from = f.to, !.to = f.from, !.hop = @ + 1]}) ELSE {}
  /\ UNCHANGED <<links, parent, cost, routes, pairing, troubles, gaps>>

\* en2m_handle_rx, a command at a router on the way: the coordinator is learned
\* as an origin, then the command is passed on.
PassCommand(f) ==
  /\ f \in air /\ f.kind = "cmd" /\ f.to # f.dest /\ f.to \in Routers
  /\ routes' = Learn(f.to, Coord, f.from, f.hop)
  /\ gaps' = (gaps \/ Missed(f.to, Coord))
  /\ air' = (air \ {f}) \cup
       IF f.hop < HopLimit
       THEN InRange(TowardDest(routes', f.to, f.dest, f.hop + 1)) ELSE {}
  /\ UNCHANGED <<links, parent, cost, pairing, troubles>>

\* The radio or a full receive queue loses a frame.
LoseFrame(f) ==
  /\ f \in air
  /\ air' = air \ {f}
  /\ UNCHANGED <<links, parent, cost, routes, pairing, troubles, gaps>>

-----------------------------------------------------------------------------
(* Tables, parents, nodes. *)

\* The nodes that pass on the reports of o as things stand, with their distance.
Path[o \in Members] ==
  LET at[k \in Hops] == IF k = 0 THEN parent[o]
                        ELSE IF at[k - 1] \in Routers THEN parent[at[k - 1]] ELSE NoParent
  IN  {<<k, at[k]>> : k \in {j \in Hops : at[j] # NoParent}}

\* en2m_expire_routes: nothing came from d for EN2M_ROUTE_STALE_MS, four
\* heartbeats.  A node that d's reports pass through keeps its entry.
ExpireRoute(n, d) ==
  /\ Known(n, d)
  /\ d \in Members => \A p \in Path[d] : p[2] # n
  /\ routes' = [routes EXCEPT ![n][d] = NoRoute]
  /\ gaps' = TRUE
  /\ UNCHANGED <<links, parent, cost, pairing, air, troubles>>

\* en2m_forget_route, from an unpair line.
ForgetRoute(d) ==
  /\ Known(Coord, d)
  /\ routes' = [routes EXCEPT ![Coord][d] = NoRoute]
  /\ gaps' = TRUE
  /\ UNCHANGED <<links, parent, cost, pairing, air, troubles>>

\* en2m_set_pairing
SetPairing ==
  /\ pairing' = ~pairing
  /\ UNCHANGED <<links, parent, cost, routes, air, troubles, gaps>>

\* en2m_consider_parent on a beacon of p.
Adopt(n, p) ==
  /\ p # n /\ Linked(n, p) /\ Attached(p) /\ cost[p] < HopLimit
  /\ \/ parent[n] = NoParent
     \/ cost[p] + 1 < cost[n]
     \/ cost[p] + 1 = cost[n] /\ p # parent[n]
  /\ parent' = [parent EXCEPT ![n] = p]
  /\ cost' = [cost EXCEPT ![n] = cost[p] + 1]
  /\ UNCHANGED <<links, routes, pairing, air, troubles, gaps>>

\* en2m_expire_parent: no beacon that confirms the parent.
LoseParent(n) ==
  LET p == parent[n] IN
  /\ p # NoParent
  /\ ~Linked(n, p) \/ ~Attached(p) \/ cost[p] + 1 # cost[n]
  /\ parent' = [parent EXCEPT ![n] = NoParent]
  /\ cost' = [cost EXCEPT ![n] = 0]
  /\ UNCHANGED <<links, routes, pairing, air, troubles, gaps>>

\* Two nodes drift out of range; frames between them are lost.
LinkBreaks(l) ==
  /\ l \in links /\ troubles < MaxTroubles
  /\ troubles' = troubles + 1
  /\ links' = links \ {l}
  /\ air' = {f \in air : {f.from, f.to} # {l[1], l[2]}}
  /\ UNCHANGED <<parent, cost, routes, pairing, gaps>>

\* en2m_mesh_init after a reset: tables and flags begin empty.
Reboot(n) ==
  /\ troubles < MaxTroubles
  /\ troubles' = troubles + 1
  /\ routes' = [m \in Senders |->
                  IF m = n THEN [d \in Nodes |-> NoRoute] ELSE routes[m]]
  /\ parent' = [m \in Members |-> IF m = n THEN NoParent ELSE parent[m]]
  /\ cost' = [cost EXCEPT ![n] = 0]
  /\ pairing' = (pairing /\ n # Coord)
  /\ air' = {f \in air : f.to # n}
  /\ gaps' = TRUE
  /\ UNCHANGED links

Hears(f) == RouterHears(f) \/ CoordHears(f)

Next ==
  \/ \E o \in Talkers : SendUplink(o)
  \/ \E d \in Talkers : SendDownlink(d)
  \/ \E f \in air : Hears(f) \/ CommandEnds(f) \/ PassCommand(f) \/ LoseFrame(f)
  \/ \E n \in Senders, d \in Nodes : ExpireRoute(n, d)
  \/ \E d \in Talkers : ForgetRoute(d)
  \/ SetPairing
  \/ \E n \in Members, p \in Senders : Adopt(n, p)
  \/ \E n \in Members : LoseParent(n)
  \/ \E l \in Fragile : LinkBreaks(l)
  \/ \E n \in Unstable : Reboot(n)

Spec == Init /\ [][Next]_vars

(***************************************************************************)
(* Fairness: heartbeats go on, and of the reports sent to a node again and *)
(* again some arrive; no frame stays on the air; beacons arrive.           *)
(***************************************************************************)
Fairness ==
  /\ \A o \in Talkers : SF_vars(SendUplink(o))
  /\ \A n \in Senders : SF_vars(\E f \in air : f.to = n /\ Hears(f))
  /\ WF_vars(\E f \in air : CommandEnds(f) \/ PassCommand(f))
  /\ WF_vars(\E n \in Members : LoseParent(n))
  /\ WF_vars(\E n \in Members, p \in Senders : parent[n] = NoParent /\ Adopt(n, p))

FairSpec == Spec /\ Fairness

-----------------------------------------------------------------------------
(* Properties. *)

\* Following next hops leads ever closer to the device, so commands cannot go
\* in circles: as long as no table lost an entry or was full, the next hop
\* towards a device knows it too, over fewer hops.  Entries are learned from
\* frames that are late, duplicated and reordered while parents change.
RoutesFall ==
  ~gaps => \A x \in Senders, d \in Nodes :
    Known(x, d) /\ routes[x][d].next # d =>
      LET y == routes[x][d].next
      IN  y \in Senders /\ Known(y, d) /\ routes[y][d].hop < routes[x][d].hop

\* p goes from x to d in k steps, from next hop to next hop.
LeadsTo(p, x, d, k) ==
  /\ p[0] = x /\ p[k] = d
  /\ \A i \in 0..(k - 1) :
       p[i] \in Senders /\ Known(p[i], d) /\ routes[p[i]][d].next = p[i + 1]

\* The tables of different nodes, each learned from other frames, fit together to a
\* way: from every node that knows d the next hops lead to d itself, no entry missing
\* in between, in no more hops than the node's own entry says.
RoutesLead ==
  ~gaps => \A x \in Senders, d \in Nodes : Known(x, d) =>
    \E k \in 1..(routes[x][d].hop + 1) :
      \E p \in [0..k -> Nodes] : LeadsTo(p, x, d, k)

\* A command under way to a router finds an entry there that is closer to its
\* destination than the one it was sent by, and the hop limit does not cut it off.
CommandsDescend ==
  ~gaps => \A f \in air : f.kind = "cmd" /\ f.to # f.dest =>
    /\ f.to \in Senders /\ Known(f.to, f.dest)
    /\ routes[f.to][f.dest].hop < f.rank
    /\ f.hop < HopLimit

\* The nodes from which a command for d would arrive, if no frame got lost.
Reaching[d \in Members] ==
  LET target(n) == IF Known(n, d) THEN routes[n][d].next ELSE d
      within[k \in Hops] ==
        IF k = 0 THEN {n \in Senders : target(n) = d /\ Linked(n, d)}
        ELSE within[k - 1] \cup
             {n \in Senders : target(n) \in within[k - 1] \cap Routers
                               /\ Linked(n, target(n))}
  IN  within[HopLimit]

\* No table on d's way remembers a shorter way than there is now.
NoShortcut(d) ==
  \A p \in Path[d] : p[2] \in Senders /\ Known(p[2], d) => routes[p[2]][d].hop >= p[1]

\* The way back heals: whatever moved, broke, rebooted or expired before, the
\* coordinator's commands reach a device again that stays attached and known,
\* unless some table remembers a shorter way than there is (which it then keeps
\* for as long as it hears the device).
Heals ==
  \A d \in Talkers :
    <>[](Attached(d) /\ Known(Coord, d) /\ NoShortcut(d)) => <>[](Coord \in Reaching[d])

\* What RoutesFall rests on: whoever passes a report on knows its origin over
\* fewer hops than the frame says, and the hop counts of a command and of the
\* entry it was sent by stay within the limit together.
PassedOn(f, o) ==
  f.from = o \/ (f.from \in Senders /\ Known(f.from, o) /\ routes[f.from][o].hop < f.hop)

RouteBooks ==
  /\ RoutesFall
  /\ CommandsDescend
  /\ ~gaps => \A f \in air :
       /\ f.kind = "up"  => PassedOn(f, f.origin)
       /\ f.kind = "cmd" => PassedOn(f, Coord) /\ f.hop + f.rank <= HopLimit
=============================================================================
