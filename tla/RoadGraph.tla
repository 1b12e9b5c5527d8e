------------------------------ MODULE RoadGraph ------------------------------
(***************************************************************************)
(* The road graph every search of itinera reads (crates/itinera-graph).    *)
(* A graph is a record: nodes are the ids 0 .. n-1, `pos' places them on a *)
(* line (the straight-line metric is all the searches ask of coordinates), *)
(* `edges' is the edge array, and `restrictions' the turn restrictions.    *)
(* A profile maps a road class to its pace, the time one unit of distance  *)
(* takes (the inverse of the speed the code stores); pace 0, like a class  *)
(* the profile does not list, stands for speed 0: the class is closed.     *)
(***************************************************************************)
EXTENDS Integers, Sequences, FiniteSets

Edge == [from : Nat, to : Nat, way : Nat, distance : Nat, road_class : Nat]

TurnRestriction ==
    [via : Nat, from_way : Nat, to_way : Nat, kind : {"no", "only"}]

IsGraph(g) ==
    /\ g.n \in Nat
    /\ g.edges \in Seq(Edge)
    /\ g.restrictions \subseteq TurnRestriction
    /\ \A u \in 0 .. (g.n - 1) : u \in DOMAIN g.pos /\ g.pos[u] \in Int

IsProfile(p) == DOMAIN p \subseteq Nat /\ \A c \in DOMAIN p : p[c] \in Nat

-----------------------------------------------------------------------------
(* Reading the graph.  Edges are named by their index in the edge array.   *)

outgoing_edges(g, u) ==
    {i \in DOMAIN g.edges : u < g.n /\ g.edges[i].from = u}

pace_of_class(p, c) == IF c \in DOMAIN p THEN p[c] ELSE 0

usable(g, p, i) == pace_of_class(p, g.edges[i].road_class) > 0

edge_weight(g, p, i) ==
    g.edges[i].distance * pace_of_class(p, g.edges[i].road_class)

(* Way 0 means "no way yet" on the arriving side and "unknown way" on the  *)
(* leaving side: neither takes part in a restriction.                      *)
turn_is_banned(g, via, from_way, to_way) ==
    LET at   == {r \in g.restrictions : r.via = via /\ r.from_way = from_way}
        only == {r \in at : r.kind = "only"}
    IN  /\ from_way # 0
        /\ to_way # 0
        /\ \/ \E r \in at : r.kind = "no" /\ r.to_way = to_way
           \/ only # {} /\ \A r \in only : r.to_way # to_way

-----------------------------------------------------------------------------
(* Driving.  A label is a node together with the way it was entered by.    *)

Label == Nat \X Nat

Start(s) == <<s, 0>>

HeadOf(g, i) == <<g.edges[i].to, g.edges[i].way>>

(* The edges a driver who arrived with label k may leave by.               *)
exits(g, p, k) ==
    {i \in outgoing_edges(g, k[1]) :
        usable(g, p, i) /\ ~turn_is_banned(g, k[1], k[2], g.edges[i].way)}

(***************************************************************************)
(* Reference definitions, independent of any search: the least cost of a   *)
(* legal drive from s to each label (Bellman-Ford over the labels), and    *)
(* whether a sequence of nodes can be driven for exactly a given cost.     *)
(***************************************************************************)
Cheapest(drives) ==
    {d \in drives : \A x \in drives : x[1] = d[1] => d[2] <= x[2]}

(* roads[k] holds where each road out of k leads, with its cost.           *)
Further(roads, drives) ==
    UNION {{d} \cup {<<r[1], d[2] + r[2]>> : r \in roads[d[1]]} : d \in drives}

(* The cheapest drives of at most so many roads, for each number of roads. *)
CheapestDrives(start, roads) ==
    LET after[h \in Nat] ==
            IF h = 0 THEN {<<start, 0>>}
            ELSE UNION {Cheapest(drives) : drives \in {Further(roads, after[h - 1])}}
    IN  after

(* A cheapest drive comes to no label twice.                               *)
LeastCostsOver(start, roads) ==
    LET least == CheapestDrives(start, roads)[Cardinality(DOMAIN roads) - 1]
    IN  [k \in {d[1] : d \in least} |-> (CHOOSE d \in least : d[1] = k)[2]]

(* The labels a driver from s can be at, and the roads out of each.        *)
LabelsFrom(g, s) == {Start(s)} \cup {HeadOf(g, i) : i \in DOMAIN g.edges}

RoadsFrom(g, p, s) ==
    [k \in LabelsFrom(g, s) |->
        {<<HeadOf(g, i), edge_weight(g, p, i)>> : i \in exits(g, p, k)}]

LeastCosts(g, p, s) ==
    LeastCostsOver(Start(s), RoadsFrom(g, p, s))

CostsTo(g, p, s, t) ==
    LET least == LeastCosts(g, p, s)
    IN  {least[k] : k \in {l \in DOMAIN least : l[1] = t}}

(* All <<label, cost>> pairs of legal drives that visit exactly path.      *)
DrivesAlong(g, p, path) ==
    LET upto[j \in Nat] ==
            IF j <= 1 THEN {<<Start(path[1]), 0>>}
            ELSE UNION {{<<HeadOf(g, i), d[2] + edge_weight(g, p, i)>> :
                            i \in {x \in exits(g, p, d[1]) :
                                      g.edges[x].to = path[j]}} :
                           d \in upto[j - 1]}
    IN  upto[Len(path)]

Drivable(g, p, path, cost) == \E d \in DrivesAlong(g, p, path) : d[2] = cost
=============================================================================
