-------------------------------- MODULE Import --------------------------------
(***************************************************************************)
(* itinera import and the start of itinera serve: the routing graph built  *)
(* from an OSM extract (crates/itinera-osm; parser.rs for XML and pbf.rs   *)
(* do the same from parsed elements on), Graph::build with its two indices *)
(* of edges (crates/itinera-graph/src/graph.rs), and the segments the map  *)
(* matcher is given (crates/itinera-server/src/state.rs).                  *)
(* OSM nodes are numbers; located maps those the extract has coordinates   *)
(* of to places on a line.                                                 *)
(***************************************************************************)
EXTENDS RoadGraph, Ordering

CONSTANT Extracts

OsmWay ==
    [way_id : Nat, node_refs : Seq(Nat), road_class : Nat, oneway : BOOLEAN]

OsmRestriction ==
    [from_way : Nat, via : Nat, to_way : Nat, kind : {"no", "only", "other"}]

IsExtract(x) ==
    /\ \A o \in DOMAIN x.located : x.located[o] \in Int
    /\ x.ways \in Seq(OsmWay)
    /\ x.relations \in Seq(OsmRestriction)

ASSUME ExtractsAssumption == \A x \in Extracts : IsExtract(x)

VARIABLES
    extract,
    pc,               \* "count", "split", "match" or "done"
    w,                \* the way the loops are at
    i,                \* the position in its node_refs
    segment_start,
    node_usage,       \* OSM node -> how often ways refer to it, ends doubly
    osm_to_internal,  \* OSM node -> NodeId
    nodes,            \* OSM node by position; its NodeId in node_ids
    node_ids,
    edges,
    offsets, rev_offsets, rev_edge_indices,
    restrictions,
    segments          \* the edges the matcher knows as roads

vars == <<extract, pc, w, i, segment_start, node_usage, osm_to_internal, nodes,
          node_ids, edges, offsets, rev_offsets, rev_edge_indices, restrictions,
          segments>>

counted == <<node_usage>>
numbered == <<osm_to_internal, nodes, node_ids>>
indices == <<offsets, rev_offsets, rev_edge_indices>>

(* Ways of a class that is routable, relations with all their members.     *)
Ways ==
    Picked(extract.ways, {y \in DOMAIN extract.ways : extract.ways[y].road_class > 0})

Relations ==
    Picked(extract.relations,
           {r \in DOMAIN extract.relations :
               0 \notin {extract.relations[r].from_way, extract.relations[r].to_way,
                         extract.relations[r].via}})

Init ==
    /\ extract \in Extracts
    /\ pc = "count"
    /\ w = 1 /\ i = 2 /\ segment_start = 1
    /\ node_usage = <<>>
    /\ osm_to_internal = <<>> /\ nodes = <<>> /\ node_ids = <<>>
    /\ edges = <<>>
    /\ offsets = <<>> /\ rev_offsets = <<>> /\ rev_edge_indices = <<>>
    /\ restrictions = {}
    /\ segments = {}

-----------------------------------------------------------------------------
(* What a way adds to the usage of o: 2 for each of its ends, 1 elsewhere. *)
UsesOf(refs, o) ==
    Total([k \in {x \in DOMAIN refs : refs[x] = o} |->
              IF k \in {1, Len(refs)} THEN 2 ELSE 1])

Count ==
    /\ pc = "count"
    /\ w <= Len(Ways)
    /\ LET refs == Ways[w].node_refs
           on   == {refs[k] : k \in DOMAIN refs}
       IN  node_usage' = [o \in DOMAIN node_usage \cup on |->
                             (IF o \in DOMAIN node_usage THEN node_usage[o] ELSE 0)
                               + UsesOf(refs, o)]
    /\ w' = w + 1
    /\ UNCHANGED <<extract, pc, i, segment_start, numbered, edges, indices,
                   restrictions, segments>>

Enumerations(S) == {f \in [1 .. Cardinality(S) -> S] : {f[k] : k \in DOMAIN f} = S}

Located(o) == o \in DOMAIN extract.located

(* Nodes are numbered in the order a hash map gives them; one without      *)
(* coordinates uses up its number.                                         *)
Number ==
    /\ pc = "count"
    /\ w > Len(Ways)
    /\ \E order \in Enumerations({o \in DOMAIN node_usage : node_usage[o] >= 2}) :
          LET all   == [k \in DOMAIN order |-> k]
              known == Picked(all, {k \in DOMAIN order : Located(order[k])})
          IN  /\ nodes' = [k \in DOMAIN known |-> order[known[k]]]
              /\ node_ids' = [k \in DOMAIN known |-> known[k] - 1]
              /\ osm_to_internal' =
                    [o \in {order[k] : k \in {known[x] : x \in DOMAIN known}} |->
                        (CHOOSE k \in DOMAIN order : order[k] = o) - 1]
    /\ pc' = "split"
    /\ w' = 1
    /\ UNCHANGED <<extract, i, segment_start, node_usage, edges, indices,
                   restrictions, segments>>

-----------------------------------------------------------------------------
Apart(x, y) == IF x < y THEN y - x ELSE x - y

(* Faulty: every leg is measured from the last node that was split at.     *)
LengthFromSplit(refs, from, to) ==
    Total([k \in {x \in from .. to - 1 : Located(refs[from]) /\ Located(refs[x + 1])} |->
              Apart(extract.located[refs[from]], extract.located[refs[k + 1]])])

(* The length of the legs of which both ends are located.                  *)
LengthOf(refs, from, to) ==
    Total([k \in {x \in from .. to - 1 : Located(refs[x]) /\ Located(refs[x + 1])} |->
              Apart(extract.located[refs[k]], extract.located[refs[k + 1]])])

EdgeOf(way, from, to, distance) ==
    [from |-> osm_to_internal[from], to |-> osm_to_internal[to],
     way |-> way.way_id, distance |-> distance, road_class |-> way.road_class,
     oneway |-> way.oneway]

(* The segment of a way between two graph nodes: an edge, and an edge back *)
(* if the way may be driven both ways.                                     *)
EdgesOf(way, from, to) ==
    LET refs     == way.node_refs
        distance == LengthOf(refs, from, to)
        there    == <<EdgeOf(way, refs[from], refs[to], distance)>>
        back     == <<EdgeOf(way, refs[to], refs[from], distance)>>
    IN  IF {refs[from], refs[to]} \subseteq DOMAIN osm_to_internal
        THEN IF way.oneway THEN there ELSE there \o back
        ELSE <<>>

(* One turn of the loop over the nodes of a way.                           *)
Split ==
    /\ pc = "split"
    /\ w <= Len(Ways)
    /\ LET way  == Ways[w]
           refs == way.node_refs
           ends == refs[i] \in DOMAIN osm_to_internal \/ i = Len(refs)
       IN  /\ i <= Len(refs)
           /\ edges' = IF ends THEN edges \o EdgesOf(way, segment_start, i) ELSE edges
           /\ segment_start' = IF ends THEN i ELSE segment_start
    /\ i' = i + 1
    /\ UNCHANGED <<extract, pc, w, counted, numbered, indices, restrictions,
                   segments>>

(* Faulty: the next way goes on from where this one was split last.        *)
NextWayKeepingStart ==
    /\ pc = "split"
    /\ w <= Len(Ways)
    /\ i > Len(Ways[w].node_refs)
    /\ w' = w + 1
    /\ i' = 2
    /\ UNCHANGED <<extract, pc, segment_start, counted, numbered, edges, indices,
                   restrictions, segments>>

NextWay ==
    /\ pc = "split"
    /\ w <= Len(Ways)
    /\ i > Len(Ways[w].node_refs)
    /\ w' = w + 1
    /\ i' = 2
    /\ segment_start' = 1
    /\ UNCHANGED <<extract, pc, counted, numbered, edges, indices, restrictions,
                   segments>>

-----------------------------------------------------------------------------
(* Graph::build: the edges sorted by where they start, and for each node   *)
(* the range of its edges, by counting; the same by where they lead.       *)
(* Sequences start at 1 here, the offsets count from 0 as in the code.     *)
SortedByFrom(s) ==
    LET sooner == {p \in (DOMAIN s) \X (DOMAIN s) :
                      \/ s[p[1]].from < s[p[2]].from
                      \/ s[p[1]].from = s[p[2]].from /\ p[1] < p[2]}
        order  == InOrder(DOMAIN s, sooner)
    IN  [k \in DOMAIN s |-> s[order[k]]]

(* Faulty: every node with its own, and not those before it.               *)
OffsetsUnsummed(n, at) ==
    [u \in 0 .. n |-> Cardinality({k \in DOMAIN at : at[k] = u - 1})]

(* Prefix sums of the number of edges at each node, edge k being at at[k]. *)
Offsets(n, at) == [u \in 0 .. n |-> Cardinality({k \in DOMAIN at : at[k] < u})]

Starts(s) == [k \in DOMAIN s |-> s[k].from]
Ends(s) == [k \in DOMAIN s |-> s[k].to]

(* The indices of the edges into each node, node after node; places of     *)
(* edges that lead nowhere keep index 0.                                   *)
ReverseIndices(n, s) ==
    LET led    == {k \in DOMAIN s : s[k].to < n}
        sooner == {p \in led \X led :
                      \/ s[p[1]].to < s[p[2]].to
                      \/ s[p[1]].to = s[p[2]].to /\ p[1] < p[2]}
        order  == InOrder(led, sooner)
    IN  [k \in DOMAIN s |-> IF k \in DOMAIN order THEN order[k] ELSE 1]

(* Faulty: the two ways of the relation the wrong way round.               *)
RestrictionSwapped(r) ==
    [via |-> osm_to_internal[r.via], from_way |-> r.to_way,
     to_way |-> r.from_way, kind |-> r.kind]

RestrictionOf(r) ==
    [via |-> osm_to_internal[r.via], from_way |-> r.from_way,
     to_way |-> r.to_way, kind |-> r.kind]

Build ==
    /\ pc = "split"
    /\ w > Len(Ways)
    /\ edges' = SortedByFrom(edges)
    /\ offsets' = Offsets(Len(nodes), Starts(edges'))
    /\ rev_offsets' = Offsets(Len(nodes), Ends(edges'))
    /\ rev_edge_indices' = ReverseIndices(Len(nodes), edges')
    /\ restrictions' =
          {RestrictionOf(Relations[r]) :
              r \in {x \in DOMAIN Relations :
                        /\ Relations[x].via \in DOMAIN osm_to_internal
                        /\ Relations[x].kind # "other"}}
    /\ pc' = "match"
    /\ UNCHANGED <<extract, w, i, segment_start, counted, numbered, segments>>

Street(e) == <<{e.from, e.to}, e.way>>

(* Faulty: two ways that join the same nodes are taken for one street.     *)
DroppedByEnds(k) ==
    /\ ~edges[k].oneway
    /\ \E x \in 1 .. k - 1 :
          ~edges[x].oneway /\ Street(edges[x])[1] = Street(edges[k])[1]

(* A two-way street is two edges, of which the second is dropped.          *)
Dropped(k) ==
    /\ ~edges[k].oneway
    /\ \E x \in 1 .. k - 1 : ~edges[x].oneway /\ Street(edges[x]) = Street(edges[k])

(* road_network_from_graph: a segment for every edge that is not dropped   *)
(* and has a node at both ends.                                            *)
Serve ==
    /\ pc = "match"
    /\ segments' = {k \in DOMAIN edges :
                       /\ ~Dropped(k)
                       /\ edges[k].from < Len(nodes) /\ edges[k].to < Len(nodes)}
    /\ pc' = "done"
    /\ UNCHANGED <<extract, w, i, segment_start, counted, numbered, edges, indices,
                   restrictions>>

Next == Count \/ Number \/ Split \/ NextWay \/ Build \/ Serve

Spec == Init /\ [][Next]_vars
-----------------------------------------------------------------------------
TypeOK ==
    /\ extract \in Extracts
    /\ pc \in {"count", "split", "match", "done"}
    /\ segment_start < i
    /\ Len(nodes) = Len(node_ids)
    /\ \A k \in 1 .. Len(node_ids) - 1 : node_ids[k] < node_ids[k + 1]
    /\ \A e \in {edges[k] : k \in DOMAIN edges} :
          {e.from, e.to} \subseteq {node_ids[k] : k \in DOMAIN node_ids}
    /\ segments \subseteq DOMAIN edges

Built == pc \in {"match", "done"}

(* The extract has coordinates of every node its ways refer to.            *)
Complete ==
    \A y \in DOMAIN Ways : \A k \in DOMAIN Ways[y].node_refs :
        Located(Ways[y].node_refs[k])

(***************************************************************************)
(* Each node's outgoing edges are those its offsets point to (the doc of   *)
(* Graph::offsets), and so by the reverse index are the incoming ones: no  *)
(* edge of the array starts or ends where neither index finds it, and the  *)
(* node found there is the one the way was split at.  As it stands, for    *)
(* every extract.                                                          *)
(***************************************************************************)
EveryEdgeFound ==
    Built =>
        \A k \in DOMAIN edges :
            LET f == edges[k].from
                t == edges[k].to
            IN  /\ f < Len(nodes) /\ t < Len(nodes)
                /\ k \in offsets[f] + 1 .. offsets[f + 1]
                /\ k \in {rev_edge_indices[x] :
                             x \in rev_offsets[t] + 1 .. rev_offsets[t + 1]}
                /\ osm_to_internal[nodes[f + 1]] = f

(* The same for an extract that is complete, and of every extract that an  *)
(* index never lists an edge of another node.                              *)
IndicesRight ==
    /\ Complete => EveryEdgeFound
    /\ Built =>
          \A u \in 0 .. Len(nodes) - 1 :
              /\ \A k \in offsets[u] + 1 .. offsets[u + 1] : edges[k].from = u
              /\ \A x \in rev_offsets[u] + 1 .. rev_offsets[u + 1] :
                    edges[rev_edge_indices[x]].to = u

(***************************************************************************)
(* Leaving out the nodes between crossings changes no distance: from any   *)
(* graph node to any other the least distance over the edges is the least  *)
(* over the ways of the extract, driven from point to point.               *)
(***************************************************************************)
Legs ==
    UNION {LET refs == Ways[y].node_refs
           IN  {<<refs[k], refs[k + 1]>> : k \in 1 .. Len(refs) - 1}
               \cup {<<refs[k + 1], refs[k]>> :
                        k \in {x \in 1 .. Len(refs) - 1 : ~Ways[y].oneway}} :
           y \in DOMAIN Ways}

StreetDistances(o) ==
    LeastCostsOver(o,
        [at \in {o} \cup {leg[2] : leg \in Legs} |->
            {<<leg[2], Apart(extract.located[leg[1]], extract.located[leg[2]])>> :
                leg \in {x \in Legs : x[1] = at}}])

GraphDistances(u) ==
    LeastCostsOver(u,
        [at \in {u} \cup {edges[k].to : k \in DOMAIN edges} |->
            {<<edges[k].to, edges[k].distance>> :
                k \in {x \in DOMAIN edges : edges[x].from = at}}])

DistancesSurvive ==
    pc = "done" /\ Complete =>
        \A o \in DOMAIN osm_to_internal :
            LET over == StreetDistances(o)
                here == GraphDistances(osm_to_internal[o])
            IN  \A q \in DOMAIN osm_to_internal :
                    /\ q \in DOMAIN over <=> osm_to_internal[q] \in DOMAIN here
                    /\ q \in DOMAIN over => over[q] = here[osm_to_internal[q]]

(***************************************************************************)
(* A relation that forbids the turn from one way into another where they   *)
(* meet forbids it at that crossing of the graph, and no turn is forbidden *)
(* that no relation forbids.  A way without an id is given 0, which stands *)
(* for no way in a restriction.                                            *)
(***************************************************************************)
On(o, id) ==
    \E y \in DOMAIN Ways :
        Ways[y].way_id = id /\ o \in {Ways[y].node_refs[k] : k \in DOMAIN Ways[y].node_refs}

WayIds == {Ways[y].way_id : y \in DOMAIN Ways}

Forbids(o, a, b) ==
    LET at == {r \in {Relations[x] : x \in DOMAIN Relations} :
                  r.via = o /\ r.from_way = a}
    IN  \/ \E r \in at : r.kind = "no" /\ r.to_way = b
        \/ (\E r \in at : r.kind = "only")
             /\ \A r \in at : r.kind = "only" => r.to_way # b

RestrictionsKept ==
    pc = "done" =>
        \A a, b \in WayIds \ {0} : \A o \in DOMAIN extract.located :
            a # b /\ On(o, a) /\ On(o, b) =>
                /\ o \in DOMAIN osm_to_internal
                /\ turn_is_banned([restrictions |-> restrictions],
                                  osm_to_internal[o], a, b)
                      <=> Forbids(o, a, b)

(***************************************************************************)
(* The matcher knows each road once: a road is a stretch of a way from one *)
(* graph node to the next, but two-way stretches of one way id that join   *)
(* the same two nodes, the halves of a loop, count as one road.  Every     *)
(* segment is a stretch, every road has a segment, and there are no more.  *)
(* Where no stretches share a road the segments are together as long as    *)
(* the ways.                                                               *)
(***************************************************************************)
Refs(y) == Ways[y].node_refs

Stretches ==
    {t \in UNION {{y} \X (DOMAIN Refs(y)) \X (DOMAIN Refs(y)) : y \in DOMAIN Ways} :
        /\ t[2] < t[3]
        /\ {t[2], t[3]} = {k \in t[2] .. t[3] : Refs(t[1])[k] \in DOMAIN osm_to_internal}}

JoinedBy(t) == {Refs(t[1])[t[2]], Refs(t[1])[t[3]]}

Twins(s, t) ==
    /\ ~Ways[s[1]].oneway /\ ~Ways[t[1]].oneway
    /\ Ways[s[1]].way_id = Ways[t[1]].way_id
    /\ JoinedBy(s) = JoinedBy(t)

RoadWith(t) == {s \in Stretches : s = t \/ Twins(s, t)}

Leg(y, k) == Apart(extract.located[Refs(y)[k]], extract.located[Refs(y)[k + 1]])

LengthOfStretch(t) == Total([k \in t[2] .. t[3] - 1 |-> Leg(t[1], k)])

LengthOfWay(y) == Total([k \in 1 .. Len(Refs(y)) - 1 |-> Leg(y, k)])

(* Segment k is stretch t, ahead or, if it may be driven so, back.         *)
Shows(k, t) ==
    LET way == Ways[t[1]]
    IN  /\ edges[k].way = way.way_id /\ edges[k].oneway = way.oneway
        /\ {edges[k].from, edges[k].to} = {osm_to_internal[o] : o \in JoinedBy(t)}
        /\ way.oneway => edges[k].from = osm_to_internal[Refs(t[1])[t[2]]]
        /\ edges[k].distance = LengthOfStretch(t)

MatcherKnowsEachRoadOnce ==
    pc = "done" /\ Complete =>
        /\ \A k \in segments : \E t \in Stretches : Shows(k, t)
        /\ \A t \in Stretches : \E k \in segments : \E s \in RoadWith(t) : Shows(k, s)
        /\ Cardinality(segments) = Cardinality({RoadWith(t) : t \in Stretches})
        /\ (\A t \in Stretches : RoadWith(t) = {t}) =>
              Total([k \in segments |-> edges[k].distance])
                  = Total([y \in DOMAIN Ways |-> LengthOfWay(y)])
===============================================================================
