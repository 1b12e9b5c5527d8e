----------------------------- MODULE RouteAssembly -----------------------------
(***************************************************************************)
(* From the nodes of a path to the route a caller is told:                 *)
(* route_from_path (crates/itinera-core/src/route.rs) and the maneuvers of *)
(* crates/itinera-core/src/maneuver.rs, as functions of the graph.  Nodes  *)
(* lie on a line, east and west of each other; angles are whole degrees.   *)
(***************************************************************************)
EXTENDS RoadGraph, Ordering

(* The first edge that is no shortcut, else the first.                     *)
edge_between(g, u, v) ==
    LET between == {i \in outgoing_edges(g, u) : g.edges[i].to = v}
        roads   == {i \in between : g.edges[i].way >= 0}
        of      == IF roads # {} THEN roads ELSE between
    IN  {i \in of : \A k \in of : i <= k}

-----------------------------------------------------------------------------
(* Coord::bearing_to on the line; of a place to itself it is 0.            *)
bearing(g, u, v) ==
    IF g.pos[u] < g.pos[v] THEN 90 ELSE IF g.pos[u] > g.pos[v] THEN 270 ELSE 0

(* The remainder keeps the sign of the angle.                              *)
Rem(a, n) == IF a < 0 THEN -((-a) % n) ELSE a % n

normalize_angle(angle) ==
    LET a == Rem(angle, 360)
        b == IF a > 180 THEN a - 360 ELSE a
    IN  IF b <= -180 THEN b + 360 ELSE b

(* Right turns are positive.                                               *)
angle_to_maneuver(angle) ==
    LET size == IF angle < 0 THEN -angle ELSE angle
    IN  CASE size < 10  -> "Continue"
          [] size > 170 -> "UTurn"
          [] size \in 10 .. 44 -> IF angle > 0 THEN "TurnSlightRight" ELSE "TurnSlightLeft"
          [] size \in 45 .. 134 -> IF angle > 0 THEN "TurnRight" ELSE "TurnLeft"
          [] OTHER -> IF angle > 0 THEN "TurnSharpRight" ELSE "TurnSharpLeft"

(* Faulty: looks back at the node the driver comes from.                   *)
detect_maneuver_backwards(g, before, via, after) ==
    angle_to_maneuver(normalize_angle(bearing(g, via, after) - bearing(g, via, before)))

detect_maneuver(g, before, via, after) ==
    angle_to_maneuver(normalize_angle(bearing(g, via, after) - bearing(g, before, via)))

annotate_maneuvers(g, path) ==
    [k \in DOMAIN path |->
        IF k = 1 THEN "Depart"
        ELSE IF k = Len(path) THEN "Arrive"
        ELSE detect_maneuver(g, path[k - 1], path[k], path[k + 1])]

-----------------------------------------------------------------------------
(* Legs without an edge are passed over.                                   *)
LegsFound(g, path) ==
    LET all == 1 .. Len(path) - 1
    IN  Picked([k \in all |-> k], {k \in all : edge_between(g, path[k], path[k + 1]) # {}})

Arrival == [edge |-> 0, distance |-> 0, duration |-> 0, maneuver |-> "Arrive"]

route_from_path(g, p, path, duration) ==
    LET legs == LegsFound(g, path)
        StepOf(k) ==
            LET i == CHOOSE x \in edge_between(g, path[k], path[k + 1]) : TRUE
            IN  [edge |-> i, distance |-> g.edges[i].distance,
                 duration |-> edge_weight(g, p, i),
                 maneuver |-> annotate_maneuvers(g, path)[k]]
        steps == [n \in DOMAIN legs |-> StepOf(legs[n])]
    IN  [distance |-> Total([n \in DOMAIN steps |-> steps[n].distance]),
         duration |-> duration,
         node_ids |-> path,
         steps    |-> IF steps = <<>> THEN <<>> ELSE Append(steps, Arrival)]
================================================================================
