------------------------------- MODULE Isochrone -------------------------------
(***************************************************************************)
(* isochrone (crates/itinera-core/src/isochrone.rs): the nodes within a    *)
(* time budget of a source, by a search with one label for each node that  *)
(* takes every turn.  The hull drawn around them is left out.              *)
(***************************************************************************)
EXTENDS RoadGraph

CONSTANT Requests     \* graph, profile, source and max_seconds of a call

IsRequest(r) ==
    /\ IsGraph(r.graph)
    /\ \A i \in DOMAIN r.graph.edges : r.graph.edges[i].to < r.graph.n
    /\ IsProfile(r.profile)
    /\ r.source \in Nat
    /\ r.max_seconds \in Int

VARIABLES
    req,
    pc,           \* "start", "search" or "done"
    dist,         \* node -> best cost found so far; infinity where undefined
    visited,      \* nodes expanded
    heap,         \* open entries <<cost, node>>
    reachable     \* the answer: <<node, cost>> in the order of expansion

vars == <<req, pc, dist, visited, heap, reachable>>

G == req.graph
P == req.profile

Init ==
    /\ req \in Requests
    /\ pc = "start"
    /\ dist = <<>>
    /\ visited = {}
    /\ heap = {}
    /\ reachable = <<>>

RejectNode ==
    /\ pc = "start"
    /\ req.source >= G.n
    /\ pc' = "done"
    /\ UNCHANGED <<req, dist, visited, heap, reachable>>

(* Faulty: the source is given no cost.                                    *)
BeginUnmarked ==
    /\ pc = "start"
    /\ req.source < G.n
    /\ pc' = "search"
    /\ heap' = {<<0, req.source>>}
    /\ UNCHANGED <<req, dist, visited, reachable>>

Begin ==
    /\ pc = "start"
    /\ req.source < G.n
    /\ pc' = "search"
    /\ dist' = [u \in {req.source} |-> 0]
    /\ heap' = {<<0, req.source>>}
    /\ UNCHANGED <<req, visited, reachable>>

-----------------------------------------------------------------------------
(* Faulty: the heap gives its entries in no particular order.              *)
AnyEntry(e) == pc = "search" /\ e \in heap

Nearest(e) ==
    /\ pc = "search"
    /\ e \in heap
    /\ \A x \in heap : e[1] <= x[1]

(* Faulty: an entry for an expanded node stays on the heap.                *)
SkipPeeking(e) == Nearest(e) /\ e[2] \in visited /\ UNCHANGED vars

Skip(e) ==
    /\ Nearest(e)
    /\ e[2] \in visited
    /\ heap' = heap \ {e}
    /\ UNCHANGED <<req, pc, dist, visited, reachable>>

(* Faulty: the budget is exclusive.                                        *)
WithinStrictly(cost) == cost < req.max_seconds

Within(cost) == cost <= req.max_seconds

(* Only a source without any budget is popped over it.                     *)
Stop(e) ==
    /\ Nearest(e)
    /\ e[2] \notin visited
    /\ e[1] > req.max_seconds
    /\ visited' = visited \cup {e[2]}
    /\ heap' = heap \ {e}
    /\ pc' = "done"
    /\ UNCHANGED <<req, dist, reachable>>

(* The edges that lead somewhere sooner than known, within the budget, in  *)
(* array order: each must beat those before it to the same node.           *)
Sooner(e) ==
    LET cost(i) == e[1] + edge_weight(G, P, i)
        better  == {i \in outgoing_edges(G, e[2]) :
                       /\ usable(G, P, i)
                       /\ Within(cost(i))
                       /\ G.edges[i].to \in DOMAIN dist => cost(i) < dist[G.edges[i].to]}
    IN  {i \in better : \A k \in better :
            k < i /\ G.edges[k].to = G.edges[i].to => cost(i) < cost(k)}

Reach(e) ==
    LET entries == {<<e[1] + edge_weight(G, P, i), G.edges[i].to>> : i \in Sooner(e)}
    IN  /\ Nearest(e)
        /\ e[2] \notin visited
        /\ e[1] <= req.max_seconds
        /\ visited' = visited \cup {e[2]}
        /\ reachable' = Append(reachable, <<e[2], e[1]>>)
        /\ heap' = (heap \ {e}) \cup entries
        /\ dist' = [u \in DOMAIN dist \cup {x[2] : x \in entries} |->
                       LET new == {x[1] : x \in {y \in entries : y[2] = u}}
                       IN  IF new = {} THEN dist[u]
                           ELSE CHOOSE c \in new : \A d \in new : c <= d]
        /\ UNCHANGED <<req, pc>>

Answer ==
    /\ pc = "search"
    /\ heap = {}
    /\ pc' = "done"
    /\ UNCHANGED <<req, dist, visited, heap, reachable>>

Next ==
    \/ RejectNode
    \/ Begin
    \/ \E e \in heap : Skip(e) \/ Stop(e) \/ Reach(e)
    \/ Answer

Spec == Init /\ [][Next]_vars

-----------------------------------------------------------------------------
(* The state is one the locals of isochrone can hold.                      *)
TypeOK ==
    /\ pc \in {"start", "search", "done"}
    /\ DOMAIN dist \subseteq 0 .. G.n - 1
    /\ \A u \in DOMAIN dist : dist[u] \in Nat
    /\ visited \subseteq DOMAIN dist
    /\ \A e \in heap : e[1] \in Nat /\ e[2] \in DOMAIN dist
    /\ reachable \in Seq((0 .. G.n - 1) \X Nat)

(* What has been answered stands: the cost of an expanded node is final.   *)
ReachedIsFinal == [][\A u \in visited : dist'[u] = dist[u]]_vars

Unrestricted(g) == [g EXCEPT !.restrictions = {}]

(* The answer is every node within the budget, once each, the nearest      *)
(* first, with the cost of the quickest drive there that need not obey     *)
(* turn restrictions.                                                      *)
ReachableExactly ==
    pc = "done" =>
        /\ \A i, k \in DOMAIN reachable : i < k =>
              reachable[i][1] # reachable[k][1] /\ reachable[i][2] <= reachable[k][2]
        /\ {reachable[i] : i \in DOMAIN reachable} =
              {x \in (0 .. G.n - 1) \X (0 .. req.max_seconds) :
                  LET costs == CostsTo(Unrestricted(G), P, req.source, x[1])
                  IN  req.source < G.n /\ x[2] \in costs /\ \A c \in costs : x[2] <= c}
================================================================================
