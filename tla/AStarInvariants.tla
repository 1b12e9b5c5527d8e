--------------------------- MODULE AStarInvariants ---------------------------
(***************************************************************************)
(* The inductive invariant of astar_search: what TLC checks on the towns   *)
(* and AStarProofs proves for every request.                               *)
(***************************************************************************)
EXTENDS DriveAudit

(* Nothing is recorded before the request is checked, and the search only  *)
(* runs with both its nodes in the graph; it replies at its end.           *)
NodesKnown ==
    /\ pc = "check" => DOMAIN g_scores = {} /\ todo = {} /\ reply = NoReply
    /\ pc \in {"search", "backtrack"} =>
          /\ req.source < G.n
          /\ req.target < G.n
          /\ Start(req.source) \in DOMAIN g_scores
          /\ reply = NoReply

(* An open entry carries a known label, at a cost no better than the best  *)
(* cost known for the label, and its estimate of the whole trip.           *)
HeapSound ==
    \A e \in heap : /\ e.at \in DOMAIN g_scores
                    /\ g_scores[e.at] <= e.g
                    /\ e.f = e.g + heuristic(req, e.at[1])

TypeInv == TypeOK /\ NodesKnown /\ HeapSound

-----------------------------------------------------------------------------
(* The inductive invariant behind the optimality of the search.  It speaks *)
(* of requests with a consistent heuristic.                                *)

Estimate(k) == g_scores[k] + heuristic(req, k[1])

(* The start costs nothing and is only ever reached by starting there.     *)
StartZero ==
    Start(req.source) \in DOMAIN g_scores => g_scores[Start(req.source)] = 0

(* A label not settled yet is in the heap with its best cost.              *)
OpenCovered ==
    \A k \in DOMAIN g_scores \ settled : Entry(g_scores[k], k) \in heap

(* Settled labels come before everything that is still open.               *)
SettledFirst ==
    \A k \in settled : \A l \in DOMAIN g_scores \ settled :
        Estimate(k) <= Estimate(l)

(* While edges are being relaxed, current is the last label settled.       *)
CurrentLast ==
    todo # {} =>
        /\ pc = "search"
        /\ current.at \in settled
        /\ current.g = g_scores[current.at]
        /\ todo \subseteq outgoing_edges(G, current.at[1])
        /\ \A k \in settled : Estimate(k) <= Estimate(current.at)

(* Every exit of a settled label has been offered to its head, but for the *)
(* edges still to do and for the target, which is not expanded.            *)
OfferedBy(k, i) ==
    /\ HeadOf(G, i) \in DOMAIN g_scores
    /\ g_scores[HeadOf(G, i)] <= g_scores[k] + edge_weight(G, P, i)

Offered ==
    \A k \in settled : k[1] # req.target =>
        \A i \in exits(G, P, k) :
            OfferedBy(k, i) \/ (k = current.at /\ i \in todo)

(* The target is settled by the step that ends the search, at the cost     *)
(* reported, and nothing open could do better.                             *)
Arrived ==
    /\ pc = "search" => \A k \in settled : k[1] # req.target
    /\ pc = "backtrack" \/ reply.kind = "Route" =>
          /\ todo = {}
          /\ \A k \in settled : k[1] = req.target => g_scores[k] = duration
          /\ \A k \in DOMAIN g_scores \ settled : duration <= Estimate(k)
    /\ pc = "backtrack" => cursor \in settled
    /\ reply.kind = "Route" => reply.duration = duration
    /\ reply.kind = "NoRoute" =>
          /\ todo = {}
          /\ DOMAIN g_scores \subseteq settled
          /\ \A k \in settled : k[1] # req.target
    /\ reply.kind \in {"Route", "NoRoute"} =>
          /\ pc = "done"
          /\ req.target < G.n
          /\ Start(req.source) \in DOMAIN g_scores

TreeInv == \A k \in DOMAIN g_scores \ {Start(req.source)} : TightAt(k)

SearchInv ==
    /\ StartZero
    /\ OpenCovered
    /\ SettledFirst
    /\ CurrentLast
    /\ Offered
    /\ Arrived
    /\ TreeInv

IInv == TypeInv /\ (Consistent(req) => SearchInv)

(* The start is the first label settled.                                   *)
StartFirst ==
    \/ Start(req.source) \in settled
    \/ settled = {} /\ DOMAIN g_scores \subseteq {Start(req.source)}

(* The backtrack has come from the target to cursor, from each label to    *)
(* the one it was reached from, and has not met the source.                *)
Backed ==
    /\ pc \in {"check", "search"} => path = <<>>
    /\ pc = "backtrack" =>
          \E ks \in [1 .. Len(path) + 1 -> settled] :
             /\ ks[1][1] = req.target
             /\ ks[Len(path) + 1] = cursor
             /\ \A j \in 1 .. Len(path) :
                   /\ ks[j][1] = path[j]
                   /\ path[j] # req.source
                   /\ prev[ks[j]] = ks[j + 1]

PlanInv == IInv /\ (Consistent(req) => StartFirst /\ Backed)

(* After the answer, a driver is at a settled label they did not reach     *)
(* cheaper than the search did, or can no longer beat the route.           *)
DriverBehind ==
    reply.kind \in {"Route", "NoRoute"} =>
        \/ at \in settled /\ g_scores[at] <= spent
        \/ /\ reply.kind = "Route"
           /\ duration <= spent + heuristic(req, at[1])

DriverWaits == pc # "done" => at = Start(req.source) /\ spent = 0

AuditIInv ==
    /\ IInv
    /\ at \in Label
    /\ spent \in Nat
    /\ DriverWaits
    /\ Consistent(req) => DriverBehind
=============================================================================
