----------------------------- MODULE RoutePlanner -----------------------------
(***************************************************************************)
(* What dijkstra, astar and a contraction-hierarchy query all promise the  *)
(* caller: one request in, one answer out.  The answer is an error for a   *)
(* node that is not in the graph, NoRoute when no drive obeying the turn   *)
(* restrictions reaches the target, and otherwise the cost of a quickest   *)
(* such drive with a sequence of nodes that can be driven for that cost.   *)
(***************************************************************************)
EXTENDS RoadGraph

VARIABLES req, reply

NoReply == [kind |-> "none"]

CorrectReply(r, a) ==
    LET g     == r.graph
        costs == CostsTo(g, r.profile, r.source, r.target)
        lost  == {u \in {r.source, r.target} : u >= g.n}
    IN  CASE g.n = 0 -> a = [kind |-> "EmptyGraph"]
          [] g.n > 0 /\ lost # {} -> a.kind = "NodeNotFound" /\ a.node \in lost
          [] g.n > 0 /\ lost = {} /\ costs = {} -> a = [kind |-> "NoRoute"]
          [] OTHER -> /\ a.kind = "Route"
                      /\ a.duration \in costs
                      /\ \A c \in costs : a.duration <= c
                      /\ a.path[1] = r.source
                      /\ a.path[Len(a.path)] = r.target
                      /\ Drivable(g, r.profile, a.path, a.duration)

Init == reply = NoReply

Answer == /\ reply = NoReply
          /\ reply' # NoReply
          /\ CorrectReply(req, reply')
          /\ UNCHANGED req

Spec == Init /\ [][Answer]_<<req, reply>>
===============================================================================
