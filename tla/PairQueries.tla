------------------------------ MODULE PairQueries ------------------------------
(***************************************************************************)
(* POST /network/od-matrix and /network/closest-facility: the handlers     *)
(* (crates/itinera-server/src/handlers.rs) that snap two lists of points   *)
(* to the graph, and od_matrix and closest_facility                        *)
(* (crates/itinera-core/src/network_analysis.rs) that ask dijkstra for     *)
(* one pair of nodes after the other.  Of dijkstra the module uses what    *)
(* RoutePlanner promises.  Points lie on the line the nodes lie on.        *)
(***************************************************************************)
EXTENDS RoadGraph, Ordering

CONSTANTS
    Requests,     \* endpoint, graph, the bounds its extract declared, profile,
                  \* and the lists sources and targets
    MaxPoints,    \* MAX_NETWORK_POINTS
    MaxPairs      \* MAX_NETWORK_PAIRS

IsRequest(r) ==
    /\ r.endpoint \in {"od-matrix", "closest-facility"}
    /\ IsGraph(r.graph)
    /\ r.declared = <<>> \/ r.declared \in Int \X Int
    /\ IsProfile(r.profile)
    /\ r.sources \in Seq(Int)
    /\ r.targets \in Seq(Int)

VARIABLES
    req,
    pc,          \* "start", "ask" or "done"
    sources,     \* the nodes the first list snapped to: origins, demand
    targets,     \* the same for the second: destinations, facilities
    turn,        \* the position in sources the outer loop is at
    left,        \* what the inner loop still has to ask for
    best,        \* closest_facility: the best answer so far for this demand
    results,
    reply

vars == <<req, pc, sources, targets, turn, left, best, results, reply>>

G == req.graph
P == req.profile
Nodes == 0 .. G.n - 1
NoBest == [cost |-> -1]
NoReply == [kind |-> "none"]
Matrix == req.endpoint = "od-matrix"

Init ==
    /\ req \in Requests
    /\ pc = "start"
    /\ sources = <<>>
    /\ targets = <<>>
    /\ turn = 1
    /\ left = {}
    /\ best = NoBest
    /\ results = <<>>
    /\ reply = NoReply

-----------------------------------------------------------------------------
Apart(a, b) == IF a < b THEN b - a ELSE a - b

(* What the extract declared, or else the extent of the nodes, grown by    *)
(* the longest edge.                                                       *)
Covered(x) ==
    LET lengths == {0} \cup {G.edges[i].distance : i \in DOMAIN G.edges}
    IN  /\ Nodes # {}
        /\ IF req.declared # <<>>
           THEN req.declared[1] <= x /\ x <= req.declared[2]
           ELSE /\ \E u \in Nodes, d \in lengths : G.pos[u] - d <= x
                /\ \E u \in Nodes, d \in lengths : x <= G.pos[u] + d

Points == {req.sources[i] : i \in DOMAIN req.sources}
            \cup {req.targets[i] : i \in DOMAIN req.targets}

Acceptable ==
    /\ Len(req.sources) \in 1 .. MaxPoints
    /\ Len(req.targets) \in 1 .. MaxPoints
    /\ Len(req.sources) * Len(req.targets) <= MaxPairs
    /\ Points \subseteq {x \in Points : Covered(x)}

Reject ==
    /\ pc = "start"
    /\ ~Acceptable
    /\ pc' = "done"
    /\ reply' = [kind |-> "bad_request"]
    /\ UNCHANGED <<req, sources, targets, turn, left, best, results>>

(* od_matrix asks for each node of dest_set, closest_facility for each     *)
(* position in the list of facilities.                                     *)
ToAsk(nodes) == IF Matrix THEN {nodes[j] : j \in DOMAIN nodes} ELSE DOMAIN nodes

(* Which of two nodes equally near a point is snapped to is up to the      *)
(* spatial index; equal points snap to the same node.                      *)
Snappings ==
    {f \in [Points -> Nodes] :
        \A x \in Points, u \in Nodes : Apart(G.pos[f[x]], x) <= Apart(G.pos[u], x)}

Snap ==
    /\ pc = "start"
    /\ Acceptable
    /\ pc' = "ask"
    /\ \E snapped \in Snappings :
          /\ sources' = [i \in DOMAIN req.sources |-> snapped[req.sources[i]]]
          /\ targets' = [j \in DOMAIN req.targets |-> snapped[req.targets[j]]]
          /\ left' = ToAsk(targets')
    /\ UNCHANGED <<req, turn, best, results, reply>>

-----------------------------------------------------------------------------
Least(costs) == {c \in costs : \A x \in costs : c <= x}

(* Faulty: asks for the way back.                                          *)
DijkstraBack(u, w) == Least(CostsTo(G, P, w, u))

(* What dijkstra answers: the cost of a quickest legal drive, or none.     *)
Dijkstra(u, w) == Least(CostsTo(G, P, u, w))

(* One turn of the inner loop of od_matrix; a set is read in any order.    *)
AskPair(w) ==
    /\ pc = "ask"
    /\ Matrix
    /\ w \in left
    /\ left' = left \ {w}
    /\ LET costs == Dijkstra(sources[turn], w)
       IN  IF costs = {} THEN UNCHANGED results
           ELSE \E c \in costs :
                   results' = Append(results, [source |-> sources[turn],
                                               target |-> w, cost |-> c])
    /\ UNCHANGED <<req, pc, sources, targets, turn, best, reply>>

Beats(c) == best = NoBest \/ c < best.cost

(* One turn of the inner loop of closest_facility, in list order.          *)
AskFacility(j) ==
    /\ pc = "ask"
    /\ ~Matrix
    /\ j \in left
    /\ \A k \in left : j <= k
    /\ left' = left \ {j}
    /\ LET costs == Dijkstra(sources[turn], targets[j])
       IN  IF \E c \in costs : Beats(c)
           THEN \E c \in costs :
                   best' = [source |-> sources[turn], target |-> targets[j], cost |-> c]
           ELSE UNCHANGED best
    /\ UNCHANGED <<req, pc, sources, targets, turn, results, reply>>

WithBest == IF best = NoBest THEN results ELSE Append(results, best)

(* Faulty: the best answer is carried over to the next demand point.       *)
NextSourceKeepingBest ==
    /\ pc = "ask"
    /\ left = {}
    /\ turn < Len(sources)
    /\ turn' = turn + 1
    /\ left' = ToAsk(targets)
    /\ results' = WithBest
    /\ UNCHANGED <<req, pc, sources, targets, best, reply>>

(* Faulty: the inner loop is not started again.                            *)
NextSourceOnly ==
    /\ pc = "ask"
    /\ left = {}
    /\ turn < Len(sources)
    /\ turn' = turn + 1
    /\ results' = WithBest
    /\ best' = NoBest
    /\ UNCHANGED <<req, pc, sources, targets, left, reply>>

NextSource ==
    /\ pc = "ask"
    /\ left = {}
    /\ turn < Len(sources)
    /\ turn' = turn + 1
    /\ left' = ToAsk(targets)
    /\ results' = WithBest
    /\ best' = NoBest
    /\ UNCHANGED <<req, pc, sources, targets, reply>>

(* index_by_node: a node stands for the first point that snapped to it.    *)
IndexOf(nodes, u) ==
    CHOOSE i \in DOMAIN nodes :
        nodes[i] = u /\ \A k \in DOMAIN nodes : nodes[k] = u => i <= k

Entry(r) == [source_index |-> IndexOf(sources, r.source),
             target_index |-> IndexOf(targets, r.target), duration |-> r.cost]

Before(x, y) ==
    \/ x.source_index < y.source_index
    \/ x.source_index = y.source_index /\ x.target_index < y.target_index

(* By the indices; entries with the same indices stay in their order.      *)
ByIndices(entries) ==
    LET before == {p \in (DOMAIN entries) \X (DOMAIN entries) :
                      \/ Before(entries[p[1]], entries[p[2]])
                      \/ ~Before(entries[p[2]], entries[p[1]]) /\ p[1] < p[2]}
        sorted == InOrder(DOMAIN entries, before)
    IN  [k \in DOMAIN sorted |-> entries[sorted[k]]]

Entries(found) ==
    LET entries == [k \in DOMAIN found |-> Entry(found[k])]
    IN  IF Matrix THEN ByIndices(entries) ELSE entries

Answer ==
    /\ pc = "ask"
    /\ left = {}
    /\ turn = Len(sources)
    /\ pc' = "done"
    /\ results' = WithBest
    /\ reply' = [kind |-> "ok", entries |-> Entries(results'),
                 unreachable |-> IF Matrix THEN 0 ELSE Len(sources) - Len(results')]
    /\ UNCHANGED <<req, sources, targets, turn, left, best>>

Next ==
    \/ Reject
    \/ Snap
    \/ \E x \in left : AskPair(x) \/ AskFacility(x)
    \/ NextSource
    \/ Answer

Spec == Init /\ [][Next]_vars

-----------------------------------------------------------------------------
(* The state is one the locals of the two handlers can hold.               *)
TypeOK ==
    /\ pc \in {"start", "ask", "done"}
    /\ sources \in Seq(Nodes) /\ targets \in Seq(Nodes)
    /\ turn \in 1 .. Len(sources) + 1
    /\ left \subseteq ToAsk(targets)
    /\ \A k \in DOMAIN results :
          results[k].source \in Nodes /\ results[k].target \in Nodes
                                      /\ results[k].cost \in Nat

Answered == reply.kind = "ok"

Rows == {reply.entries[k] : k \in DOMAIN reply.entries}

OneEach(nodes) == \A i, j \in DOMAIN nodes : nodes[i] = nodes[j] => i = j

Quickest(i, j) == Least(CostsTo(G, P, sources[i], targets[j]))

(* Whatever is answered about two points is the duration of a quickest     *)
(* legal drive from the first to the second.                               *)
DurationsRight ==
    Answered => \A e \in Rows :
        e.duration \in Quickest(e.source_index, e.target_index)

(* Where no two points of a list snap to one node, every pair of points    *)
(* with a drive between them has exactly one entry, the others none.       *)
MatrixCompleteOneEach ==
    Answered /\ Matrix /\ OneEach(sources) /\ OneEach(targets) =>
        \A i \in DOMAIN sources, j \in DOMAIN targets :
            Cardinality({k \in DOMAIN reply.entries :
                            /\ reply.entries[k].source_index = i
                            /\ reply.entries[k].target_index = j})
              = Cardinality(Quickest(i, j))

(* Every demand point is either given a facility none of the others is     *)
(* quicker than, or counted as unreachable.                                *)
ClosestChosen ==
    Answered /\ ~Matrix =>
        /\ \A e \in Rows : \A j \in DOMAIN targets :
              \A c \in Quickest(e.source_index, j) : e.duration <= c
        /\ reply.unreachable =
              Cardinality({i \in DOMAIN sources :
                  \A j \in DOMAIN targets : Quickest(i, j) = {}})
=================================================================================
