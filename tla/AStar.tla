-------------------------------- MODULE AStar --------------------------------
(***************************************************************************)
(* astar_search (crates/itinera-core/src/astar.rs), the label-setting      *)
(* search behind astar and dijkstra: dijkstra is the same search with the  *)
(* zero heuristic.  Labels are (node, arriving way) so that turn           *)
(* restrictions can be obeyed.  One behaviour serves one request; the      *)
(* graph is immutable, so concurrent requests do not disturb each other.   *)
(* The unit of time is that of the heuristic: one unit of distance at the  *)
(* heuristic's 150 km/h takes one unit of time.                            *)
(***************************************************************************)
EXTENDS RoadGraph

CONSTANT Requests     \* the requests explored

IsRequest(r) ==
    /\ IsGraph(r.graph)
    /\ IsProfile(r.profile)
    /\ r.source \in Nat
    /\ r.target \in Nat
    /\ r.astar \in BOOLEAN

ASSUME RequestsAssumption == \A r \in Requests : IsRequest(r)

VARIABLES
    req,        \* the request being served
    pc,         \* "check", "search", "backtrack" or "done"
    heap,       \* open entries [f, g, at]; no entry is ever pushed twice
    g_scores,   \* label -> best cost found so far
    prev,       \* label -> the label it was reached from
    settled,    \* labels popped from the heap
    current,    \* the entry whose edges are being relaxed
    todo,       \* the edges of current not looked at yet
    cursor,     \* where the backtrack stands
    path,       \* nodes visited by the backtrack, target first
    duration,   \* cost on arrival at the target
    reply       \* what the caller gets

vars == <<req, pc, heap, g_scores, prev, settled, current, todo, cursor,
          path, duration, reply>>

G == req.graph
P == req.profile
NoReply == [kind |-> "none"]

(* Straight-line distance to the target; a node the graph does not have    *)
(* is taken to be at the target.                                           *)
heuristic(r, u) ==
    LET here == IF u < r.graph.n THEN r.graph.pos[u] ELSE r.graph.pos[r.target]
        away == here - r.graph.pos[r.target]
    IN  IF ~r.astar THEN 0 ELSE IF away < 0 THEN -away ELSE away

Entry(g, k) == [f |-> g + heuristic(req, k[1]), g |-> g, at |-> k]

Init ==
    /\ req \in Requests
    /\ pc = "check"
    /\ heap = {}
    /\ g_scores = <<>>
    /\ prev = <<>>
    /\ settled = {}
    /\ current = [f |-> 0, g |-> 0, at |-> Start(req.source)]
    /\ todo = {}
    /\ cursor = Start(req.source)
    /\ path = <<>>
    /\ duration = 0
    /\ reply = NoReply

Finish(a) == pc' = "done" /\ reply' = a

-----------------------------------------------------------------------------
RejectEmptyGraph ==
    /\ pc = "check"
    /\ G.n = 0
    /\ Finish([kind |-> "EmptyGraph"])
    /\ UNCHANGED <<req, heap, g_scores, prev, settled, current, todo, cursor,
                   path, duration>>

RejectNode ==
    /\ pc = "check"
    /\ G.n > 0
    /\ req.source >= G.n \/ req.target >= G.n
    /\ Finish([kind |-> "NodeNotFound",
               node |-> IF req.source >= G.n THEN req.source ELSE req.target])
    /\ UNCHANGED <<req, heap, g_scores, prev, settled, current, todo, cursor,
                   path, duration>>

Begin ==
    /\ pc = "check"
    /\ req.source < G.n
    /\ req.target < G.n
    /\ pc' = "search"
    /\ g_scores' = [k \in {Start(req.source)} |-> 0]
    /\ heap' = {Entry(0, Start(req.source))}
    /\ UNCHANGED <<req, prev, settled, current, todo, cursor, path, duration,
                   reply>>

(* Faulty variant: pops in no particular order.                            *)
PopAny(e) ==
    /\ pc = "search"
    /\ todo = {}
    /\ e \in heap
    /\ heap' = heap \ {e}
    /\ settled' = settled \cup {e.at}

(* heap.pop(): any entry of least f, ties in any order.                    *)
Pop(e) ==
    /\ pc = "search"
    /\ todo = {}
    /\ e \in heap
    /\ \A d \in heap : e.f <= d.f
    /\ heap' = heap \ {e}
    /\ settled' = settled \cup {e.at}

Fresh(e) == e.at \notin settled /\ e.g <= g_scores[e.at]

(* The label was settled before, or a better cost was found meanwhile.     *)
PopStale(e) ==
    /\ Pop(e)
    /\ ~Fresh(e)
    /\ UNCHANGED <<req, pc, g_scores, prev, current, todo, cursor, path,
                   duration, reply>>

PopTarget(e) ==
    /\ Pop(e)
    /\ Fresh(e)
    /\ e.at[1] = req.target
    /\ pc' = "backtrack"
    /\ cursor' = e.at
    /\ duration' = e.g
    /\ UNCHANGED <<req, g_scores, prev, current, todo, path, reply>>

Expand(e) ==
    /\ Pop(e)
    /\ Fresh(e)
    /\ e.at[1] # req.target
    /\ current' = e
    /\ todo' = outgoing_edges(G, e.at[1])
    /\ UNCHANGED <<req, pc, g_scores, prev, cursor, path, duration, reply>>

(* Faulty variant: the first cost found for a label stays.                 *)
FirstOffer(k, g) == k \notin DOMAIN g_scores

(* Faulty variant: an offer that ties takes the label over.                *)
ImprovesOrTies(k, g) == k \in DOMAIN g_scores => g <= g_scores[k]

Improves(k, g) == k \in DOMAIN g_scores => g < g_scores[k]

Record(f, k, v) == [x \in DOMAIN f \cup {k} |-> IF x = k THEN v ELSE f[x]]

(* Faulty variants: one forgets g_scores.insert, the other lets a label    *)
(* keep its first predecessor, the third offers edges a turn bans.         *)
OfferWithoutCost(k, g) ==
    /\ prev' = Record(prev, k, current.at)
    /\ heap' = heap \cup {Entry(g, k)}
    /\ UNCHANGED g_scores

OfferKeepingPrev(k, g) ==
    /\ g_scores' = Record(g_scores, k, g)
    /\ prev' = IF k \in DOMAIN prev THEN prev ELSE Record(prev, k, current.at)
    /\ heap' = heap \cup {Entry(g, k)}

Offer(k, g) ==
    /\ g_scores' = Record(g_scores, k, g)
    /\ prev' = Record(prev, k, current.at)
    /\ heap' = heap \cup {Entry(g, k)}

TakesAnyTurn(i) == usable(G, P, i)

Takes(i) == i \in exits(G, P, current.at)

(* One turn of the loop over outgoing_edges, in array order.               *)
Relax(i) ==
    LET k == HeadOf(G, i)
        g == current.g + edge_weight(G, P, i)
    IN  /\ pc = "search"
        /\ i \in todo
        /\ \A j \in todo : i <= j
        /\ todo' = todo \ {i}
        /\ \/ /\ Takes(i)
              /\ Improves(k, g)
              /\ Offer(k, g)
           \/ /\ ~(Takes(i) /\ Improves(k, g))
              /\ UNCHANGED <<g_scores, prev, heap>>
        /\ UNCHANGED <<req, pc, settled, current, cursor, path, duration,
                       reply>>

NoRoute ==
    /\ pc = "search"
    /\ todo = {}
    /\ heap = {}
    /\ Finish([kind |-> "NoRoute"])
    /\ UNCHANGED <<req, heap, g_scores, prev, settled, current, todo, cursor,
                   path, duration>>

(* The bound on path: a walk back along more labels than have a            *)
(* predecessor is in a ring, and the loop would push nodes for ever.       *)
GoesRound == Len(path) > Cardinality(DOMAIN prev)

(* The walk back along prev ends at the first label whose node is the      *)
(* source, whatever way it was entered by; path is reversed at the end.    *)
Backtrack ==
    /\ pc = "backtrack"
    /\ cursor[1] # req.source
    /\ ~GoesRound
    /\ path' = Append(path, cursor[1])
    /\ IF cursor \in DOMAIN prev
         THEN cursor' = prev[cursor] /\ UNCHANGED <<pc, reply>>
         ELSE Finish([kind |-> "NoRoute"]) /\ UNCHANGED cursor
    /\ UNCHANGED <<req, heap, g_scores, prev, settled, current, todo, duration>>

Reversed(s) == [j \in 1 .. Len(s) |-> s[Len(s) + 1 - j]]

Return ==
    /\ pc = "backtrack"
    /\ cursor[1] = req.source
    /\ path' = Append(path, cursor[1])
    /\ Finish([kind |-> "Route", duration |-> duration,
               path |-> Reversed(path')])
    /\ UNCHANGED <<req, heap, g_scores, prev, settled, current, todo, cursor,
                   duration>>

Next ==
    \/ RejectEmptyGraph
    \/ RejectNode
    \/ Begin
    \/ \E e \in heap : PopStale(e) \/ PopTarget(e) \/ Expand(e)
    \/ \E i \in todo : Relax(i)
    \/ NoRoute
    \/ Backtrack
    \/ Return

Spec == Init /\ [][Next]_vars

-----------------------------------------------------------------------------
HeapEntry == [f : Nat, g : Nat, at : Label]

(* Every variable holds what its field in astar_search can hold: costs are *)
(* never negative, labels always carry a node and a way.                   *)
TypeOK ==
    /\ IsRequest(req)
    /\ pc \in {"check", "search", "backtrack", "done"}
    /\ heap \subseteq HeapEntry
    /\ DOMAIN g_scores \subseteq Label
    /\ \A k \in DOMAIN g_scores : g_scores[k] \in Nat
    /\ DOMAIN prev \subseteq DOMAIN g_scores
    /\ \A k \in DOMAIN prev : prev[k] \in Label
    /\ settled \subseteq DOMAIN g_scores
    /\ current \in HeapEntry
    /\ todo \subseteq DOMAIN G.edges
    /\ cursor \in Label
    /\ path \in Seq(Nat)
    /\ duration \in Nat
    /\ reply.kind \in {"none", "EmptyGraph", "NodeNotFound", "NoRoute", "Route"}

(* The heuristic never promises more than an edge takes.  The zero         *)
(* heuristic of dijkstra always satisfies it; that of astar does when no   *)
(* edge is shorter than the straight line between its ends.                *)
Consistent(r) ==
    \A i \in DOMAIN r.graph.edges :
        usable(r.graph, r.profile, i) =>
            heuristic(r, r.graph.edges[i].from)
              <= edge_weight(r.graph, r.profile, i)
                   + heuristic(r, r.graph.edges[i].to)

(* A settled label keeps its cost: no later relaxation can improve on the  *)
(* answer the search has already acted upon.                               *)
SettledIsFinal ==
    [][Consistent(req) =>
         \A k \in settled :
            k \in DOMAIN g_scores' /\ g_scores'[k] = g_scores[k]]_vars

(* Every label but the start was reached from a settled label by an edge   *)
(* the driver may take there, and costs exactly what that label cost plus  *)
(* the edge: the chain the backtrack follows is the drive the cost is of.  *)
TightAt(k) ==
    /\ k \in DOMAIN prev
    /\ prev[k] \in settled
    /\ \E i \in exits(G, P, prev[k]) :
          /\ HeadOf(G, i) = k
          /\ g_scores[k] = g_scores[prev[k]] + edge_weight(G, P, i)

TreeIsTight ==
    Consistent(req) => \A k \in DOMAIN g_scores \ {Start(req.source)} : TightAt(k)

(* The answer is that of the abstract planner: quickest legal drive,       *)
(* NoRoute only when there is none.                                        *)
Planner == INSTANCE RoutePlanner
AnswersCorrectly == Planner!Spec

(* Every request is answered, roads that take no time included: offers that *)
(* tie never close a ring of predecessors for the walk back to go round in. *)
Terminates == <>(pc = "done")
=============================================================================
