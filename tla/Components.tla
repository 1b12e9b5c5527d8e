------------------------------- MODULE Components -------------------------------
(***************************************************************************)
(* POST /network/components: connected_components                          *)
(* (crates/itinera-core/src/network_analysis.rs), the weakly connected     *)
(* components of the road graph, one breadth-first search for each node    *)
(* that no search before it has reached; and its handler.                  *)
(***************************************************************************)
EXTENDS RoadGraph, Ordering

CONSTANTS
    Requests,      \* graph and top_k of a call
    MaxTopK        \* MAX_TOP_K

IsNetwork(g) ==
    /\ IsGraph(g)
    /\ \A i \in DOMAIN g.edges : g.edges[i].from < g.n /\ g.edges[i].to < g.n

IsRequest(r) == IsNetwork(r.graph) /\ r.top_k \in Nat

VARIABLES
    req,
    pc,                 \* "start", "scan", "search" or "done"
    start,              \* the node the scan is at
    component_id,       \* node -> component; u32::MAX where undefined
    queue,              \* nodes labelled and not yet expanded
    current_component,
    size,               \* nodes of this component expanded so far
    component_sizes,    \* component -> its number of nodes
    reply

vars == <<req, pc, start, component_id, queue, current_component, size,
          component_sizes, reply>>

net == req.graph
NoReply == [kind |-> "none"]
Nodes == 0 .. net.n - 1

Init ==
    /\ req \in Requests
    /\ pc = "start"
    /\ start = 0
    /\ component_id = <<>>
    /\ queue = {}
    /\ current_component = 0
    /\ size = 0
    /\ component_sizes = <<>>
    /\ reply = NoReply

incoming_edges(g, u) == {i \in DOMAIN g.edges : u < g.n /\ g.edges[i].to = u}

Neighbours(u) ==
    {net.edges[i].to : i \in outgoing_edges(net, u)}
      \cup {net.edges[i].from : i \in incoming_edges(net, u)}

Labelled == DOMAIN component_id

Assign(us) ==
    component_id' = [u \in Labelled \cup us |->
                        IF u \in us THEN current_component ELSE component_id[u]]

-----------------------------------------------------------------------------
Reject ==
    /\ pc = "start"
    /\ req.top_k \notin 1 .. MaxTopK
    /\ pc' = "done"
    /\ reply' = [kind |-> "bad_request"]
    /\ UNCHANGED <<req, start, component_id, queue, current_component, size,
                   component_sizes>>

Begin ==
    /\ pc = "start"
    /\ req.top_k \in 1 .. MaxTopK
    /\ pc' = "scan"
    /\ UNCHANGED <<req, reply, start, component_id, queue, current_component, size,
                   component_sizes>>

SkipLabelled ==
    /\ pc = "scan"
    /\ start < net.n
    /\ start \in Labelled
    /\ start' = start + 1
    /\ UNCHANGED <<req, reply, pc, component_id, queue, current_component, size, component_sizes>>

(* Faulty: the count goes on from the component before.                    *)
OpenKeepingSize ==
    /\ pc = "scan"
    /\ start < net.n
    /\ start \notin Labelled
    /\ pc' = "search"
    /\ queue' = {start}
    /\ Assign({start})
    /\ UNCHANGED <<req, reply, start, current_component, size, component_sizes>>

Open ==
    /\ pc = "scan"
    /\ start < net.n
    /\ start \notin Labelled
    /\ pc' = "search"
    /\ queue' = {start}
    /\ Assign({start})
    /\ size' = 0
    /\ UNCHANGED <<req, reply, start, current_component, component_sizes>>

(* Faulty: streets are followed one way only.                              *)
NewNeighboursAhead(u) == {net.edges[i].to : i \in outgoing_edges(net, u)} \ Labelled

NewNeighbours(u) == Neighbours(u) \ Labelled

(* One turn of the search; which node of the queue is next does not matter *)
(* for what is answered.                                                   *)
Expand(u) ==
    /\ pc = "search"
    /\ u \in queue
    /\ size' = size + 1
    /\ queue' = (queue \ {u}) \cup NewNeighbours(u)
    /\ Assign(NewNeighbours(u))
    /\ UNCHANGED <<req, reply, pc, start, current_component, component_sizes>>

(* Faulty: the next component gets the same number.                        *)
CloseKeepingNumber ==
    /\ pc = "search"
    /\ queue = {}
    /\ pc' = "scan"
    /\ component_sizes' = [c \in DOMAIN component_sizes \cup {current_component} |->
                              IF c = current_component THEN size ELSE component_sizes[c]]
    /\ start' = start + 1
    /\ UNCHANGED <<req, reply, component_id, queue, current_component, size>>

Close ==
    /\ pc = "search"
    /\ queue = {}
    /\ pc' = "scan"
    /\ component_sizes' = [c \in DOMAIN component_sizes \cup {current_component} |->
                              IF c = current_component THEN size ELSE component_sizes[c]]
    /\ current_component' = current_component + 1
    /\ start' = start + 1
    /\ UNCHANGED <<req, reply, component_id, queue, size>>

(* The handler answers the top_k largest, by number if equally large.      *)
LargerFirst ==
    {p \in (DOMAIN component_sizes) \X (DOMAIN component_sizes) :
        \/ component_sizes[p[1]] > component_sizes[p[2]]
        \/ component_sizes[p[1]] = component_sizes[p[2]] /\ p[1] < p[2]}

Finish ==
    LET all == InOrder(DOMAIN component_sizes, LargerFirst)
    IN  /\ pc = "scan"
        /\ start = net.n
        /\ pc' = "done"
        /\ reply' = [kind |-> "ok", num_components |-> current_component,
                     largest |-> IF all = <<>> THEN 0 ELSE component_sizes[all[1]],
                     components |-> SubSeq(all, 1, IF req.top_k < Len(all) THEN req.top_k
                                                                   ELSE Len(all))]
        /\ UNCHANGED <<req, start, component_id, queue, current_component, size,
                       component_sizes>>

Next ==
    \/ Reject
    \/ Begin
    \/ SkipLabelled
    \/ Open
    \/ \E u \in queue : Expand(u)
    \/ Close
    \/ Finish

Spec == Init /\ [][Next]_vars

-----------------------------------------------------------------------------
(* The state is one the locals of connected_components can hold.           *)
TypeOK ==
    /\ pc \in {"start", "scan", "search", "done"}
    /\ start \in 0 .. net.n
    /\ Labelled \subseteq Nodes
    /\ queue \subseteq Labelled
    /\ current_component \in 0 .. start
    /\ size \in 0 .. net.n
    /\ \A u \in Labelled : component_id[u] \in 0 .. current_component
    /\ DOMAIN component_sizes = 0 .. current_component - 1

Closed(S) == \A u \in S : Neighbours(u) \subseteq S

(* What the searches before this one have labelled is closed: no street    *)
(* leads from one component into another.                                  *)
ComponentsClosed ==
    pc = "scan" => \A c \in 0 .. current_component - 1 :
                      Closed({u \in Labelled : component_id[u] = c})

(* Nodes of one component are joined by streets: no closed set of nodes    *)
(* holds one of them without the others.                                   *)
ComponentsJoined ==
    \A u, w \in Labelled : component_id[u] = component_id[w] =>
        \A S \in SUBSET Nodes : Closed(S) => (u \in S <=> w \in S)

(* Every node is in one component, component_sizes counts them, and of     *)
(* those listed none is smaller than one that is left out.                 *)
SizesCount ==
    reply.kind = "ok" =>
        LET counted(c) == Cardinality({u \in Nodes : component_id[u] = c})
            listed     == {reply.components[k] : k \in DOMAIN reply.components}
            all        == 0 .. reply.num_components - 1
        IN  /\ Labelled = Nodes
            /\ \A c \in all : component_sizes[c] = counted(c) /\ counted(c) <= reply.largest
            /\ \A c \in listed, d \in all \ listed : counted(c) >= counted(d)
            /\ all # listed => Cardinality(listed) = req.top_k

=================================================================================
