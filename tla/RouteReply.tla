------------------------------- MODULE RouteReply -------------------------------
(* The route a caller of dijkstra or astar is told: what reconstruct_path      *)
(* hands to route_from_path, compared with what the search has found.          *)
EXTENDS DriveAudit, RouteAssembly

Told == route_from_path(G, P, reply.path, reply.duration)

OneRoad(u, v) == Cardinality({i \in outgoing_edges(G, u) : G.edges[i].to = v}) = 1

(* The steps told are the drive found: one for every leg, by an edge that  *)
(* leads along it, from the departure to the arrival; where no two roads   *)
(* join the ends of a leg they take as long as the search says, if its     *)
(* heuristic is consistent.  A step says to turn round exactly where the   *)
(* path comes back the way it went, between legs that have a direction.    *)
StepsTellTheDrive ==
    reply.kind = "Route" =>
        LET nodes == reply.path
            steps == Told.steps
            legs  == 1 .. Len(nodes) - 1
            Directed(k) == G.pos[nodes[k]] # G.pos[nodes[k + 1]]
            Eastward(k) == G.pos[nodes[k]] < G.pos[nodes[k + 1]]
        IN  /\ Len(steps) = (IF Len(nodes) = 1 THEN 0 ELSE Len(nodes))
            /\ \A k \in legs :
                  /\ G.edges[steps[k].edge].from = nodes[k]
                  /\ G.edges[steps[k].edge].to = nodes[k + 1]
                  /\ k = 1 => steps[k].maneuver = "Depart"
                  /\ k > 1 /\ Directed(k - 1) /\ Directed(k) =>
                        steps[k].maneuver = (IF Eastward(k) = Eastward(k - 1)
                                             THEN "Continue" ELSE "UTurn")
            /\ Len(nodes) > 1 => steps[Len(nodes)].maneuver = "Arrive"
            /\ Consistent(req) /\ (\A k \in legs : OneRoad(nodes[k], nodes[k + 1])) =>
                  Total([k \in DOMAIN steps |-> steps[k].duration]) = reply.duration
=================================================================================
