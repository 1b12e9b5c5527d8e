------------------------------ MODULE Contraction ------------------------------
(***************************************************************************)
(* ContractionHierarchy::build (crates/itinera-core/src/ch.rs): nodes are  *)
(* contracted one after the other, the cheapest first; contracting v puts  *)
(* a shortcut u -> w over every legal u -> v -> w for which no other way   *)
(* round is found.  An arc is an edge of the hierarchy: an original edge   *)
(* or a shortcut, with the first and the last way of the drive it is for.  *)
(* Edges closed under the profile of the build stay arcs, but take no part *)
(* in it.                                                                  *)
(***************************************************************************)
EXTENDS RoadGraph, FiniteSetsExt

CONSTANTS
    Requests,      \* what is built and asked: graph, profile of the build and
                   \* profile asked for, source, target
    LevelMod,      \* ch_level holds numbers below this one (2^16 in the code)
    MayGiveUp      \* whether a witness search may run out of its budget

IsBuildRequest(r) ==
    /\ IsGraph(r.graph)
    /\ IsProfile(r.profile) /\ IsProfile(r.asked)
    /\ r.source \in Nat /\ r.target \in Nat
    /\ \A i \in DOMAIN r.graph.edges :
          r.graph.edges[i].from < r.graph.n /\ r.graph.edges[i].to < r.graph.n

ASSUME BuildAssumption ==
    /\ \A r \in Requests : IsBuildRequest(r)
    /\ LevelMod \in Nat \ {0}
    /\ MayGiveUp \in BOOLEAN

VARIABLES
    req,
    arcs,      \* the arcs in the order they were made
    order,     \* node_order: nodes in the order of their contraction
    pairs      \* arcs into and out of the last one, still to be bridged

buildVars == <<req, arcs, order, pairs>>

G == req.graph
P == req.profile
NoMiddle == -1

BuildInit ==
    /\ req \in Requests
    /\ arcs = [i \in DOMAIN G.edges |->
                  [from   |-> G.edges[i].from,
                   to     |-> G.edges[i].to,
                   weight |-> edge_weight(G, P, i),
                   open   |-> usable(G, P, i),
                   first  |-> G.edges[i].way,
                   last   |-> G.edges[i].way,
                   middle |-> NoMiddle]]
    /\ order = <<>>
    /\ pairs = {}

contracted == {order[l] : l \in DOMAIN order}

(* Out of the lists of neighbours, which hold open arcs alone.             *)
Incoming(v) ==
    {a \in DOMAIN arcs :
        arcs[a].open /\ arcs[a].to = v /\ arcs[a].from \notin contracted}
Outgoing(v) ==
    {a \in DOMAIN arcs :
        arcs[a].open /\ arcs[a].from = v /\ arcs[a].to \notin contracted}

(* Faulty: any two arcs through v may follow one another.                  *)
BridgeableAnyTurn(v, a, b) == arcs[a].from # arcs[b].to

(* Arcs a, b are driven one after the other through v on the way from one  *)
(* node to another.                                                        *)
Bridgeable(v, a, b) ==
    /\ arcs[a].from # arcs[b].to
    /\ ~turn_is_banned(G, v, arcs[a].last, arcs[b].first)

ArcHead(c) == <<arcs[c].to, arcs[c].last>>

ArcsOpenTo(k, closed) ==
    {c \in DOMAIN arcs :
        /\ arcs[c].open
        /\ arcs[c].from = k[1]
        /\ arcs[c].to \notin closed
        /\ ~turn_is_banned(G, k[1], k[2], arcs[c].first)}

(* Least costs from u, with no way behind, over the arcs that keep out of  *)
(* closed nodes.                                                           *)
LeastAvoiding(u, closed) ==
    LeastCostsOver(Start(u),
        [k \in {Start(u)} \cup {ArcHead(c) : c \in DOMAIN arcs} |->
            {<<ArcHead(c), arcs[c].weight>> : c \in ArcsOpenTo(k, closed)}])

(* Faulty: the search may pass through the node being contracted.          *)
HasWitnessThrough(u, w, cost, v) ==
    LET least == LeastAvoiding(u, contracted \ {v})
    IN  \E k \in DOMAIN least : k[1] = w /\ least[k] <= cost

(***************************************************************************)
(* The witness search of needs_shortcut from u, round v and the contracted *)
(* nodes: a drive to w no dearer than the shortcut makes it unnecessary.   *)
(* It sets out with no way behind it and takes any arrival at w.           *)
(***************************************************************************)
HasWitness(u, w, cost, v) ==
    LET least == LeastAvoiding(u, contracted \cup {v})
    IN  \E k \in DOMAIN least : k[1] = w /\ least[k] <= cost

needs_shortcut(v, a, b) ==
    ~HasWitness(arcs[a].from, arcs[b].to, arcs[a].weight + arcs[b].weight, v)

count_shortcuts_needed(v) ==
    Cardinality({ab \in Incoming(v) \X Outgoing(v) :
                    /\ Bridgeable(v, ab[1], ab[2])
                    /\ needs_shortcut(v, ab[1], ab[2])})

Priority(v) ==
    count_shortcuts_needed(v)
      - (Cardinality(Incoming(v)) + Cardinality(Outgoing(v)))

-----------------------------------------------------------------------------
(* The next node: least priority, the lowest index among equals; any node  *)
(* when the searches behind the priorities may give up.  Its neighbours    *)
(* are read off now, with v contracted; bridging them changes what later   *)
(* witness searches of the same node see.                                  *)
Contract(v) ==
    LET rest == (0 .. G.n - 1) \ contracted
    IN  /\ pairs = {}
        /\ v \in rest
        /\ ~MayGiveUp =>
              \A x \in rest : \/ Priority(v) < Priority(x)
                              \/ Priority(v) = Priority(x) /\ v <= x
        /\ order' = Append(order, v)
        /\ pairs' = {a \in Incoming(v) : arcs[a].from # v}
                       \X {b \in Outgoing(v) : arcs[b].to # v}
        /\ UNCHANGED <<req, arcs>>

Shortcut(v, a, b) ==
    [from |-> arcs[a].from, to |-> arcs[b].to,
     weight |-> arcs[a].weight + arcs[b].weight, open |-> TRUE,
     first |-> arcs[a].first, last |-> arcs[b].last, middle |-> v]

(* One turn of the loop over incoming and outgoing neighbours.  A witness  *)
(* search that gives up asks for a shortcut that is not needed.            *)
Bridge(a, b) ==
    LET v == order[Len(order)]
    IN  /\ <<a, b>> \in pairs
        /\ \A p \in pairs : a < p[1] \/ (a = p[1] /\ b <= p[2])
        /\ pairs' = pairs \ {<<a, b>>}
        /\ \/ /\ Bridgeable(v, a, b)
              /\ ~MayGiveUp => needs_shortcut(v, a, b)
              /\ arcs' = Append(arcs, Shortcut(v, a, b))
           \/ /\ ~(Bridgeable(v, a, b) /\ needs_shortcut(v, a, b))
              /\ UNCHANGED arcs
        /\ UNCHANGED <<req, order>>

BuildNext ==
    \/ \E v \in 0 .. G.n - 1 : Contract(v)
    \/ \E p \in pairs : Bridge(p[1], p[2])

Built == Len(order) = G.n /\ pairs = {}

level(v) == ((CHOOSE l \in DOMAIN order : order[l] = v) - 1) % LevelMod

-----------------------------------------------------------------------------
Rank(v) == IF v \in contracted THEN CHOOSE l \in DOMAIN order : order[l] = v
                                ELSE G.n + 1

(* A shortcut replaces two arcs that meet at its middle in a turn that is  *)
(* allowed, and its middle was contracted before either end: unpacking     *)
(* a shortcut always gets to smaller ones.                                 *)
ShortcutsBridge ==
    \A s \in DOMAIN arcs : arcs[s].middle # NoMiddle =>
        /\ Rank(arcs[s].middle) < Rank(arcs[s].from)
        /\ Rank(arcs[s].middle) < Rank(arcs[s].to)
        /\ \E a, b \in DOMAIN arcs :
              /\ a < s /\ b < s
              /\ arcs[a].open /\ arcs[b].open
              /\ arcs[a].to = arcs[s].middle /\ arcs[b].from = arcs[s].middle
              /\ arcs[a].from = arcs[s].from /\ arcs[b].to = arcs[s].to
              /\ arcs[s].weight = arcs[a].weight + arcs[b].weight
              /\ arcs[s].first = arcs[a].first /\ arcs[s].last = arcs[b].last
              /\ ~turn_is_banned(G, arcs[s].middle, arcs[a].last, arcs[b].first)

(* Least cost of a drive from u to w over the arcs between nodes of S.     *)
CostsWithin(S, u, w) ==
    LET least == LeastAvoiding(u, (0 .. G.n - 1) \ S)
        costs == {least[k] : k \in {l \in DOMAIN least : l[1] = w}}
    IN  IF costs = {} THEN {} ELSE {Min(costs)}

(* Without turn restrictions, contracting a node and bridging all its      *)
(* pairs leaves the distances between the nodes that remain as they were.  *)
DistancesKept ==
    LET rest == (0 .. G.n - 1) \ contracted
    IN  pairs = {} /\ G.restrictions = {} => \A u, w \in rest :
            CostsWithin(rest, u, w) = CostsWithin(0 .. G.n - 1, u, w)
================================================================================
