------------------------------ MODULE DriveAudit ------------------------------
(***************************************************************************)
(* A driver put next to the search: once the search has answered, the      *)
(* driver sets out from the source and takes any exits the restrictions    *)
(* allow, for as long as MaxSpent lets them.  Whatever the drive, it is    *)
(* compared with the answer: the module states the optimality of dijkstra  *)
(* and astar as a property of states, without summing up whole paths.      *)
(***************************************************************************)
EXTENDS AStar

CONSTANT MaxSpent     \* the driver gives up beyond this cost

ASSUME MaxSpentAssumption == MaxSpent \in Nat

VARIABLES
    at,         \* the label the driver is at
    spent       \* what the drive has cost

auditVars == <<vars, at, spent>>

AuditInit == Init /\ at = Start(req.source) /\ spent = 0

Drive(i) ==
    /\ pc = "done"
    /\ i \in exits(G, P, at)
    /\ spent + edge_weight(G, P, i) <= MaxSpent
    /\ at' = HeadOf(G, i)
    /\ spent' = spent + edge_weight(G, P, i)
    /\ UNCHANGED vars

AuditNext ==
    \/ Next /\ UNCHANGED <<at, spent>>
    \/ \E i \in DOMAIN G.edges : Drive(i)

AuditSpec == AuditInit /\ [][AuditNext]_auditVars

(* The search runs on a thread of the caller to its end: nothing it does   *)
(* waits for anyone.  Of the driver nothing is expected.                   *)
AuditFairSpec == AuditSpec /\ WF_vars(Next)

(* No driver who obeys the turn restrictions is at the target cheaper than *)
(* the route the search returned, and none gets there at all when it       *)
(* answered NoRoute: the early stop at the first pop of the target loses   *)
(* nothing.                                                                *)
NoFasterDrive ==
    /\ Consistent(req)
    /\ reply.kind \in {"Route", "NoRoute"}
    /\ at[1] = req.target
    => reply.kind = "Route" /\ reply.duration <= spent
===============================================================================
