------------------------------ MODULE Betweenness ------------------------------
(***************************************************************************)
(* POST /network/betweenness: betweenness_centrality                       *)
(* (crates/itinera-core/src/network_analysis.rs), which counts for a       *)
(* sample of sources the quickest drives through each node (Brandes), and  *)
(* its handler.  Turn restrictions are not looked at.  Scores are numbers  *)
(* of Scale-ths: Scale has to hold every quotient that occurs.             *)
(***************************************************************************)
EXTENDS RoadGraph, Ordering, SequencesExt

CONSTANTS
    Requests,      \* graph, profile, sample_size and top_k of a call
    Scale,
    MaxSample,     \* MAX_BETWEENNESS_SAMPLE
    MaxTopK        \* MAX_TOP_K

IsRequest(r) ==
    /\ IsGraph(r.graph)
    /\ \A i \in DOMAIN r.graph.edges : r.graph.edges[i].to < r.graph.n
    /\ IsProfile(r.profile)
    /\ r.sample_size \in Nat /\ r.top_k \in Nat

VARIABLES
    req,
    pc,            \* "start", "search", "count", "spread" or "done"
    sources,       \* the nodes sampled
    turn,          \* which of them the loop is at
    dist,          \* node -> best cost found so far; infinity where undefined
    predecessors,  \* node -> how often each node precedes it on a best drive
    heap,          \* open entries <<cost, node>>
    order,         \* the nodes reached, the nearest first
    at,            \* the position in order the loops over it are at
    sigma,         \* how many quickest drives lead to each node
    dependency,    \* the share of drives that pass through each node
    centrality,    \* node -> score; not every node has one
    reply

searchVars == <<dist, predecessors, heap>>
spreadVars == <<order, at, sigma, dependency>>
vars == <<req, pc, sources, turn, searchVars, spreadVars, centrality, reply>>

G == req.graph
P == req.profile
Nodes == 0 .. G.n - 1
NoReply == [kind |-> "none"]

Init ==
    /\ req \in Requests
    /\ pc = "start"
    /\ sources = <<>> /\ turn = 1
    /\ dist = <<>> /\ predecessors = <<>> /\ heap = {}
    /\ order = <<>> /\ at = 0 /\ sigma = <<>> /\ dependency = <<>>
    /\ centrality = <<>>
    /\ reply = NoReply

-----------------------------------------------------------------------------
Acceptable ==
    /\ req.sample_size \in 1 .. MaxSample
    /\ req.top_k \in 1 .. MaxTopK

Reject ==
    /\ pc = "start"
    /\ ~Acceptable
    /\ pc' = "done"
    /\ reply' = [kind |-> "bad_request"]
    /\ UNCHANGED <<req, sources, turn, searchVars, spreadVars, centrality>>

(* Evenly spaced over the ids, or every node.                              *)
Sample ==
    LET size == req.sample_size
    IN  IF size >= G.n THEN [i \in 1 .. G.n |-> i - 1]
                       ELSE [i \in 1 .. size |-> ((i - 1) * G.n) \div size]

SearchFrom(s) ==
    /\ dist' = [u \in {s} |-> 0]
    /\ predecessors' = [u \in Nodes |-> <<>>]
    /\ heap' = {<<0, s>>}

Begin ==
    /\ pc = "start"
    /\ Acceptable
    /\ G.n > 0
    /\ pc' = "search"
    /\ sources' = Sample
    /\ SearchFrom(Sample[1])
    /\ UNCHANGED <<req, turn, spreadVars, centrality, reply>>

AnswerEmpty ==
    /\ pc = "start"
    /\ Acceptable
    /\ G.n = 0
    /\ pc' = "done"
    /\ reply' = [kind |-> "ok", nodes |-> <<>>, sampled_sources |-> 0]
    /\ UNCHANGED <<req, sources, turn, searchVars, spreadVars, centrality>>

-----------------------------------------------------------------------------
(* single_source_shortest_paths                                            *)
Nearest(e) == pc = "search" /\ e \in heap /\ \A x \in heap : e[1] <= x[1]

Skip(e) ==
    /\ Nearest(e)
    /\ e[1] > dist[e[2]]
    /\ heap' = heap \ {e}
    /\ UNCHANGED <<req, pc, sources, turn, dist, predecessors, spreadVars,
                   centrality, reply>>

Times(b, u) == IF u \in DOMAIN b THEN b[u] ELSE 0

(* The edges from u to v that can be driven and their costs; dist is the   *)
(* best of them all, and predecessors[v] has u for each that is as good.   *)
Offers(e, v) ==
    {i \in outgoing_edges(G, e[2]) : usable(G, P, i) /\ G.edges[i].to = v}

CostBy(e, i) == e[1] + edge_weight(G, P, i)

BestBy(e, v) == Min({CostBy(e, i) : i \in Offers(e, v)})

Better(e, v) == Offers(e, v) # {} /\ (v \in DOMAIN dist => BestBy(e, v) < dist[v])

AsGood(e, v) == Offers(e, v) # {} /\ v \in DOMAIN dist /\ BestBy(e, v) = dist[v]

(* Faulty: a better drive leaves the predecessors of those it beats.       *)
PrecededKeeping(e, v) ==
    LET ties == Cardinality({i \in Offers(e, v) : CostBy(e, i) = BestBy(e, v)})
        old == predecessors[v]
    IN  [u \in DOMAIN old \cup {e[2]} |->
            Times(old, u) + (IF u = e[2] THEN ties ELSE 0)]

Preceded(e, v) ==
    LET ties == Cardinality({i \in Offers(e, v) : CostBy(e, i) = BestBy(e, v)})
        old == IF Better(e, v) THEN <<>> ELSE predecessors[v]
    IN  [u \in DOMAIN old \cup {e[2]} |->
            Times(old, u) + (IF u = e[2] THEN ties ELSE 0)]

(* The edges that beat what is known, and those before them to the same    *)
(* node, are put on the heap.                                              *)
Pushed(e) ==
    {<<CostBy(e, i), G.edges[i].to>> : i \in
        {x \in outgoing_edges(G, e[2]) :
            LET v == G.edges[x].to
            IN  /\ Better(e, v) /\ x \in Offers(e, v)
                /\ v \in DOMAIN dist => CostBy(e, x) < dist[v]
                /\ \A k \in Offers(e, v) : k < x => CostBy(e, x) < CostBy(e, k)}}

Expand(e) ==
    /\ Nearest(e)
    /\ e[1] <= dist[e[2]]
    /\ dist' = [v \in DOMAIN dist \cup {x[2] : x \in Pushed(e)} |->
                   IF Better(e, v) THEN BestBy(e, v) ELSE dist[v]]
    /\ predecessors' = [v \in Nodes |-> IF Better(e, v) \/ AsGood(e, v)
                                        THEN Preceded(e, v) ELSE predecessors[v]]
    /\ heap' = (heap \ {e}) \cup Pushed(e)
    /\ UNCHANGED <<req, pc, sources, turn, spreadVars, centrality, reply>>

-----------------------------------------------------------------------------
(* The nodes reached are sorted by their distance, those equally near stay *)
(* in the order of their ids.                                              *)
NearestFirst ==
    {p \in (DOMAIN dist) \X (DOMAIN dist) :
        dist[p[1]] < dist[p[2]] \/ (dist[p[1]] = dist[p[2]] /\ p[1] < p[2])}

BeginCount ==
    /\ pc = "search"
    /\ heap = {}
    /\ pc' = "count"
    /\ order' = InOrder(DOMAIN dist, NearestFirst)
    /\ at' = 1
    /\ sigma' = [u \in Nodes |-> IF u = sources[turn] THEN 1 ELSE 0]
    /\ dependency' = [u \in Nodes |-> 0]
    /\ UNCHANGED <<req, sources, turn, searchVars, centrality, reply>>

(* Count shortest paths: as many lead to a node as to its predecessors.    *)
Count ==
    LET v == order[at]
        Through(u) == predecessors[v][u] * sigma[u]
    IN  /\ pc = "count"
        /\ sigma' = [sigma EXCEPT ![v] = @ + MapThenSumSet(Through, DOMAIN predecessors[v])]
        /\ IF at < Len(order) THEN at' = at + 1 /\ pc' = pc
                              ELSE at' = at /\ pc' = "spread"
        /\ UNCHANGED <<req, sources, turn, searchVars, order, dependency, centrality, reply>>

(* The drives that end at w or go on from it come through the predecessors *)
(* of w, to each its share.                                                *)
ShareOf(v, w) ==
    IF sigma[w] = 0 THEN 0
    ELSE (Times(predecessors[w], v) * sigma[v] * (Scale + dependency[w])) \div sigma[w]

(* Back-propagation, the furthest node first; the source has no part in it. *)
Spread ==
    LET w == order[at]
    IN  /\ pc = "spread"
        /\ at > 0
        /\ at' = at - 1
        /\ IF w = sources[turn] THEN UNCHANGED <<dependency, centrality>>
           ELSE /\ dependency' = [v \in Nodes |-> dependency[v] + ShareOf(v, w)]
                /\ centrality' = [v \in DOMAIN centrality \cup {w} |->
                      Times(centrality, v) + (IF v = w THEN dependency'[w] ELSE 0)]
        /\ UNCHANGED <<req, pc, sources, turn, searchVars, order, sigma, reply>>

NextSource ==
    /\ pc = "spread"
    /\ at = 0
    /\ turn < Len(sources)
    /\ turn' = turn + 1
    /\ pc' = "search"
    /\ SearchFrom(sources[turn + 1])
    /\ UNCHANGED <<req, sources, spreadVars, centrality, reply>>

Normalised(scores) ==
    [v \in DOMAIN scores |-> (scores[v] * G.n) \div Len(sources)]

(* The handler: the top_k nodes of the highest score, by id if equal.      *)
Listed(scores) ==
    LET highestFirst ==
            {p \in (DOMAIN scores) \X (DOMAIN scores) :
                scores[p[1]] > scores[p[2]] \/ (scores[p[1]] = scores[p[2]] /\ p[1] < p[2])}
        all == InOrder(DOMAIN scores, highestFirst)
    IN  [k \in 1 .. Min({req.top_k, Len(all)}) |->
            [node |-> all[k], score |-> scores[all[k]]]]

Answer ==
    /\ pc = "spread"
    /\ at = 0
    /\ turn = Len(sources)
    /\ pc' = "done"
    /\ centrality' = Normalised(centrality)
    /\ reply' = [kind |-> "ok", nodes |-> Listed(centrality'),
                 sampled_sources |-> Min({req.sample_size, G.n})]
    /\ UNCHANGED <<req, sources, turn, searchVars, spreadVars>>

Next ==
    \/ Reject \/ AnswerEmpty \/ Begin
    \/ \E e \in heap : Skip(e) \/ Expand(e)
    \/ BeginCount \/ Count \/ Spread
    \/ NextSource \/ Answer

Spec == Init /\ [][Next]_vars

-----------------------------------------------------------------------------
(* The state is one the locals of betweenness_centrality can hold.         *)
TypeOK ==
    /\ pc \in {"start", "search", "count", "spread", "done"}
    /\ sources \in Seq(Nodes) /\ turn \in 1 .. Len(sources) + 1
    /\ DOMAIN dist \subseteq Nodes
    /\ \A u \in DOMAIN predecessors : DOMAIN predecessors[u] \subseteq DOMAIN dist
    /\ \A e \in heap : e[1] \in Nat /\ e[2] \in DOMAIN dist
    /\ order \in Seq(Nodes) /\ at \in 0 .. Len(order)
    /\ \A u \in DOMAIN sigma : sigma[u] \in Nat /\ dependency[u] \in Nat
    /\ DOMAIN centrality \subseteq Nodes /\ \A u \in DOMAIN centrality : centrality[u] \in Nat

(* All drives from s that come to no node twice: the edges they go by, the *)
(* nodes they come to, and what they cost.                                 *)
DrivesFrom(s) ==
    LET open == {i \in DOMAIN G.edges : usable(G, P, i)}
        End(d) == IF d.nodes = <<>> THEN s ELSE Last(d.nodes)
        New(d, v) == v # s /\ \A k \in DOMAIN d.nodes : d.nodes[k] # v
        Then(d, i) == [edges |-> Append(d.edges, i),
                       nodes |-> Append(d.nodes, G.edges[i].to),
                       cost |-> d.cost + edge_weight(G, P, i)]
        of[h \in Nat] ==
            IF h = 0 THEN {[edges |-> <<>>, nodes |-> <<>>, cost |-> 0]}
            ELSE UNION {{Then(d, i) : i \in {x \in open :
                      G.edges[x].from = End(d) /\ New(d, G.edges[x].to)}} : d \in of[h - 1]}
    IN  UNION {of[h] : h \in 1 .. G.n - 1}

PassesThrough(d, v) == \E k \in 1 .. Len(d.nodes) - 1 : d.nodes[k] = v

(* Of the quickest drives from s to every other node, the share through v. *)
ShareThrough(s, v) ==
    LET all == DrivesFrom(s)
        Share(w) ==
            LET there == {d \in all : Last(d.nodes) = w}
                least == Min({d.cost : d \in there})
                quickest == {d \in there : d.cost = least}
            IN  (Scale * Cardinality({d \in quickest : PassesThrough(d, v)}))
                    \div Cardinality(quickest)
    IN  MapThenSumSet(Share, {Last(d.nodes) : d \in all} \ {v})

Betweenness(v) ==
    LET Of(i) == IF sources[i] = v THEN 0 ELSE ShareThrough(sources[i], v)
    IN  (MapThenSumSet(Of, DOMAIN sources) * G.n) \div Len(sources)

NoFreeEdges == \A i \in DOMAIN G.edges : usable(G, P, i) => edge_weight(G, P, i) > 0

(* A node listed has as score the number of quickest drives of the sources *)
(* sampled that pass through it, by shares, and no node that is left out   *)
(* has a higher one.                                                       *)
CentralityExact ==
    reply.kind = "ok" /\ NoFreeEdges =>
        LET listed == {reply.nodes[k].node : k \in DOMAIN reply.nodes}
            left_out == {Betweenness(v) : v \in Nodes \ listed}
        IN  /\ Cardinality(listed) = Len(reply.nodes)
            /\ Len(reply.nodes) < req.top_k => left_out \subseteq {0}
            /\ \A k \in DOMAIN reply.nodes :
                  /\ reply.nodes[k].score = Betweenness(reply.nodes[k].node)
                  /\ \A score \in left_out : score <= reply.nodes[k].score
================================================================================
