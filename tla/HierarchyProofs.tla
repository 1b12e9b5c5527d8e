---------------------------- MODULE HierarchyProofs ----------------------------
(***************************************************************************)
(* For every road graph, in whatever order ContractionHierarchy::build     *)
(* contracts the nodes and whatever its witness searches find: a shortcut  *)
(* stands for two arcs that meet in a legal turn at a node contracted      *)
(* before its ends, and stays so; the duration a query answers is that of  *)
(* a legal drive; and without turn restrictions the distances between the  *)
(* nodes that remain are kept, and a query for the profile of the build    *)
(* implements RoutePlanner.                                                *)
(***************************************************************************)
EXTENDS ChQuery, OperatorTheorems, SequenceTheorems

Nodes == 0 .. G.n - 1

Arc == [from : Nodes, to : Nodes, weight : Nat, open : BOOLEAN,
        first : Nat, last : Nat, middle : Nodes \cup {NoMiddle}]

(* order lists nodes once each.                                            *)
Shape ==
    /\ req \in Requests
    /\ arcs \in Seq(Arc) /\ Len(G.edges) <= Len(arcs)
    /\ order \in Seq(Nodes)
    /\ \A k, l \in DOMAIN order : order[k] = order[l] => k = l
    /\ Cardinality(contracted) = Len(order)
    /\ pairs \subseteq (DOMAIN arcs) \X (DOMAIN arcs)

(* What is still to be bridged leads to and from the node contracted last, *)
(* from and to nodes that are not contracted.                              *)
Waiting ==
    \A p \in pairs :
        /\ order # <<>>
        /\ arcs[p[1]].open /\ arcs[p[1]].to = order[Len(order)]
        /\ arcs[p[1]].from \notin contracted
        /\ arcs[p[2]].open /\ arcs[p[2]].from = order[Len(order)]
        /\ arcs[p[2]].to \notin contracted

(* The middle of a shortcut comes before its ends in order, where they are *)
(* in it at all ...                                                        *)
MiddleFirst(s) ==
    \E l \in DOMAIN order :
        /\ order[l] = arcs[s].middle
        /\ \A k \in DOMAIN order : order[k] \in {arcs[s].from, arcs[s].to} => l < k

(* ... and two arcs made before it lead there and on, by a legal turn.     *)
Halves(s, a, b) ==
    /\ a < s /\ b < s
    /\ arcs[a].open /\ arcs[b].open
    /\ arcs[a].to = arcs[s].middle /\ arcs[b].from = arcs[s].middle
    /\ arcs[a].from = arcs[s].from /\ arcs[b].to = arcs[s].to
    /\ arcs[s].weight = arcs[a].weight + arcs[b].weight
    /\ arcs[s].first = arcs[a].first /\ arcs[s].last = arcs[b].last
    /\ ~turn_is_banned(G, arcs[s].middle, arcs[a].last, arcs[b].first)

Bridged(s) == MiddleFirst(s) /\ \E a, b \in DOMAIN arcs : Halves(s, a, b)

IInv ==
    /\ Shape
    /\ Waiting
    /\ \A s \in DOMAIN arcs : arcs[s].middle # NoMiddle => Bridged(s)

-----------------------------------------------------------------------------
LEMMA GraphFacts ==
    ASSUME req \in Requests
    PROVE  /\ G.n \in Nat /\ G.edges \in Seq(Edge) /\ IsProfile(P) /\ IsProfile(req.asked)
           /\ \A i \in DOMAIN G.edges : G.edges[i].from \in Nodes /\ G.edges[i].to \in Nodes
           /\ NoMiddle \notin Nodes
<1>1. IsGraph(G) /\ IsProfile(P) /\ IsProfile(req.asked)
      /\ \A i \in DOMAIN G.edges : G.edges[i].from < G.n /\ G.edges[i].to < G.n
  BY BuildAssumption DEF IsBuildRequest, G, P
<1>2. G.n \in Nat /\ G.edges \in Seq(Edge)
  BY <1>1 DEF IsGraph
<1>3. ASSUME NEW i \in DOMAIN G.edges
      PROVE  G.edges[i].from \in Nodes /\ G.edges[i].to \in Nodes
  <2>1. G.edges[i] \in Edge
    BY <1>2
  <2>2. G.edges[i].from \in Nat /\ G.edges[i].to \in Nat
    BY <2>1 DEF Edge
  <2>3. G.edges[i].from < G.n /\ G.edges[i].to < G.n
    BY <1>1
  <2>. QED
    BY <1>2, <2>2, <2>3 DEF Nodes
<1>. QED
  BY <1>1, <1>2, <1>3 DEF NoMiddle, Nodes

LEMMA WeightIsNat ==
    ASSUME NEW g, NEW p, NEW i, g.edges[i].distance \in Nat, IsProfile(p)
    PROVE  edge_weight(g, p, i) \in Nat
<1>1. pace_of_class(p, g.edges[i].road_class) \in Nat
  BY DEF IsProfile, pace_of_class
<1>2. \A x, y \in Nat : x * y \in Nat
  OBVIOUS
<1>. QED
  BY <1>1, <1>2 DEF edge_weight

LEMMA InvInit == BuildInit => IInv
<1>. SUFFICES ASSUME BuildInit PROVE IInv
  OBVIOUS
<1>1. req \in Requests /\ order = <<>> /\ pairs = {} /\ DOMAIN arcs = DOMAIN G.edges
      /\ Len(G.edges) \in Nat /\ DOMAIN G.edges = 1 .. Len(G.edges)
  BY GraphFacts DEF BuildInit
<1>2. ASSUME NEW i \in DOMAIN G.edges PROVE arcs[i] \in Arc /\ arcs[i].middle = NoMiddle
  <2>1. G.edges[i] \in Edge
    BY <1>1, GraphFacts
  <2>2. edge_weight(G, P, i) \in Nat
    BY <1>1, <2>1, GraphFacts, WeightIsNat DEF Edge
  <2>3. arcs[i] = [from |-> G.edges[i].from, to |-> G.edges[i].to,
                   weight |-> edge_weight(G, P, i), open |-> usable(G, P, i),
                   first |-> G.edges[i].way, last |-> G.edges[i].way, middle |-> NoMiddle]
    BY DEF BuildInit
  <2>4. usable(G, P, i) \in BOOLEAN
    BY DEF usable
  <2>5. G.edges[i].from \in Nodes /\ G.edges[i].to \in Nodes
    BY <1>1, GraphFacts
  <2>6. G.edges[i].way \in Nat
    BY <2>1 DEF Edge
  <2>. QED
    BY <2>2, <2>3, <2>4, <2>5, <2>6 DEF Arc
<1>3. arcs \in Seq(Arc) /\ Len(arcs) = Len(G.edges)
  <2>1. arcs = [i \in 1 .. Len(G.edges) |-> arcs[i]]
    BY <1>1 DEF BuildInit
  <2>. QED
    BY <1>1, <1>2, <2>1
<1>4. contracted = {} /\ Cardinality(contracted) = 0
  BY <1>1, FS_EmptySet DEF contracted
<1>5. Shape
  BY <1>1, <1>3, <1>4 DEF Shape
<1>. QED
  BY <1>1, <1>2, <1>5 DEF IInv, Waiting

-----------------------------------------------------------------------------
LEMMA Below ==
    ASSUME NEW n \in Nat PROVE IsFiniteSet(0 .. n - 1) /\ Cardinality(0 .. n - 1) = n
BY FS_Interval

LEMMA ContractedFacts ==
    ASSUME Shape
    PROVE  /\ G.n \in Nat /\ Len(order) \in Nat /\ DOMAIN order = 1 .. Len(order)
           /\ \A l \in DOMAIN order : order[l] \in Nodes
           /\ contracted \subseteq Nodes /\ IsFiniteSet(contracted)
           /\ Len(order) <= G.n
<1>1. G.n \in Nat /\ order \in Seq(Nodes)
  BY GraphFacts DEF Shape
<1>2. Len(order) \in Nat /\ DOMAIN order = 1 .. Len(order) /\ \A l \in DOMAIN order : order[l] \in Nodes
  BY <1>1
<1>3. contracted \subseteq Nodes
  BY <1>2 DEF contracted
<1>4. IsFiniteSet(Nodes) /\ Cardinality(Nodes) = G.n
  BY <1>1, Below DEF Nodes
<1>. QED
  BY <1>1, <1>2, <1>3, <1>4, FS_Subset DEF Shape

LEMMA ContractKeeps ==
    ASSUME IInv, NEW v \in Nodes, Contract(v) PROVE IInv'
<1>1. /\ UNCHANGED <<req, arcs>> /\ G' = G /\ Nodes' = Nodes /\ Arc' = Arc
      /\ order' = Append(order, v) /\ v \notin contracted
      /\ pairs' = {a \in Incoming(v) : arcs[a].from # v} \X {b \in Outgoing(v) : arcs[b].to # v}
  BY DEF Contract, G, Nodes, Arc
<1>2. /\ order \in Seq(Nodes) /\ Len(order) \in Nat /\ DOMAIN order = 1 .. Len(order)
      /\ IsFiniteSet(contracted)
  BY ContractedFacts DEF IInv, Shape
<1>3. /\ order' \in Seq(Nodes) /\ Len(order') = Len(order) + 1
      /\ DOMAIN order' = 1 .. Len(order) + 1
      /\ order'[Len(order) + 1] = v /\ order' # <<>>
      /\ \A l \in DOMAIN order : order'[l] = order[l]
  BY <1>1, <1>2
<1>4. contracted' = contracted \cup {v}
  <2>1. \A l \in DOMAIN order' : l \in DOMAIN order \/ l = Len(order) + 1
    BY <1>2, <1>3
  <2>2. \A l \in DOMAIN order : l \in DOMAIN order'
    BY <1>2, <1>3
  <2>3. Len(order) + 1 \in DOMAIN order'
    BY <1>2, <1>3
  <2>. QED
    BY <1>3, <2>1, <2>2, <2>3 DEF contracted
<1>5. Cardinality(contracted') = Len(order')
  <2>1. Cardinality(contracted \cup {v}) = Cardinality(contracted) + 1
    BY <1>1, <1>2, FS_AddElement
  <2>. QED
    BY <1>3, <1>4, <2>1 DEF IInv, Shape
<1>6. \A k, l \in DOMAIN order' : order'[k] = order'[l] => k = l
  <2>1. \A l \in DOMAIN order : order[l] # v
    BY <1>1 DEF contracted
  <2>. QED
    BY <1>2, <1>3, <2>1 DEF IInv, Shape
<1>7. Shape'
  BY <1>1, <1>3, <1>5, <1>6 DEF IInv, Shape, Incoming, Outgoing
<1>8. Waiting'
  <2>. SUFFICES ASSUME NEW p \in pairs'
                PROVE  /\ arcs[p[1]].open /\ arcs[p[1]].to = v /\ arcs[p[1]].from \notin contracted'
                       /\ arcs[p[2]].open /\ arcs[p[2]].from = v /\ arcs[p[2]].to \notin contracted'
    BY <1>1, <1>3 DEF Waiting
  <2>. QED
    BY <1>1, <1>4 DEF Incoming, Outgoing
<1>9. ASSUME NEW s \in DOMAIN arcs, arcs[s].middle # NoMiddle PROVE Bridged(s)'
  <2>1. PICK l \in DOMAIN order :
              /\ order[l] = arcs[s].middle
              /\ \A k \in DOMAIN order : order[k] \in {arcs[s].from, arcs[s].to} => l < k
    BY <1>9 DEF IInv, Bridged, MiddleFirst
  <2>2. l \in DOMAIN order' /\ l < Len(order) + 1
    BY <1>2, <1>3
  <2>3. \A k \in DOMAIN order' : k \in DOMAIN order \/ k = Len(order) + 1
    BY <1>2, <1>3
  <2>4. MiddleFirst(s)'
    BY <1>1, <1>3, <2>1, <2>2, <2>3 DEF MiddleFirst
  <2>5. PICK a, b \in DOMAIN arcs : Halves(s, a, b)
    BY <1>9 DEF IInv, Bridged
  <2>6. Halves(s, a, b)'
    BY <1>1, <2>5 DEF Halves
  <2>. QED
    BY <1>1, <2>4, <2>5, <2>6 DEF Bridged
<1>. QED
  BY <1>1, <1>7, <1>8, <1>9 DEF IInv

-----------------------------------------------------------------------------
LEMMA BridgeKeeps ==
    ASSUME IInv, NEW p \in pairs, Bridge(p[1], p[2]) PROVE IInv'
<1>. DEFINE a == p[1]
            b == p[2]
            v == order[Len(order)]
<1>0. PICK n : n = Len(arcs) + 1
  OBVIOUS
<1>1. /\ UNCHANGED <<req, order>> /\ G' = G /\ Nodes' = Nodes /\ Arc' = Arc
      /\ contracted' = contracted /\ pairs' \subseteq pairs
  BY DEF Bridge, G, Nodes, Arc, contracted
<1>2. /\ arcs \in Seq(Arc) /\ Len(arcs) \in Nat /\ DOMAIN arcs = 1 .. Len(arcs)
      /\ a \in DOMAIN arcs /\ b \in DOMAIN arcs
      /\ order # <<>>
      /\ arcs[a].open /\ arcs[a].to = v /\ arcs[a].from \notin contracted
      /\ arcs[b].open /\ arcs[b].from = v /\ arcs[b].to \notin contracted
  BY DEF IInv, Shape, Waiting
<1>3. CASE UNCHANGED arcs
  BY <1>1, <1>3 DEF IInv, Shape, Waiting, Bridged, MiddleFirst, Halves
<1>4. CASE Bridgeable(v, a, b) /\ arcs' = Append(arcs, Shortcut(v, a, b))
  <2>. DEFINE new == Shortcut(v, a, b)
  <2>1. v \in Nodes /\ Len(order) \in DOMAIN order
    BY <1>2, ContractedFacts DEF IInv, Shape
  <2>2. new \in Arc
    <3>1. arcs[a] \in Arc /\ arcs[b] \in Arc
      BY <1>2
    <3>2. /\ arcs[a].from \in Nodes /\ arcs[b].to \in Nodes
          /\ arcs[a].weight + arcs[b].weight \in Nat
          /\ arcs[a].first \in Nat /\ arcs[b].last \in Nat
      BY <3>1 DEF Arc
    <3>. QED
      BY <2>1, <3>2 DEF Shortcut, Arc
  <2>3. /\ arcs' \in Seq(Arc) /\ Len(arcs') = n /\ DOMAIN arcs' = 1 .. n
        /\ arcs'[n] = new
        /\ \A s \in DOMAIN arcs : arcs'[s] = arcs[s]
    BY <1>0, <1>2, <1>4, <2>2
  <2>4. DOMAIN arcs \subseteq DOMAIN arcs' /\ n \in DOMAIN arcs'
        /\ \A s \in DOMAIN arcs' : s \in DOMAIN arcs \/ s = n
    BY <1>0, <1>2, <2>3
  <2>5. Shape'
    <3>1. pairs' \subseteq (DOMAIN arcs') \X (DOMAIN arcs')
      BY <1>1, <2>4 DEF IInv, Shape
    <3>2. G.edges \in Seq(Edge) /\ Len(G.edges) <= Len(arcs')
      BY <1>0, <1>2, <2>3, GraphFacts DEF IInv, Shape
    <3>. QED
      BY <1>1, <2>3, <3>1, <3>2 DEF IInv, Shape
  <2>6. Waiting'
    <3>. SUFFICES ASSUME NEW q \in pairs'
                  PROVE  /\ order # <<>>
                         /\ arcs'[q[1]].open /\ arcs'[q[1]].to = v
                         /\ arcs'[q[1]].from \notin contracted
                         /\ arcs'[q[2]].open /\ arcs'[q[2]].from = v
                         /\ arcs'[q[2]].to \notin contracted
      BY <1>1 DEF Waiting
    <3>1. q \in pairs /\ q[1] \in DOMAIN arcs /\ q[2] \in DOMAIN arcs
      BY <1>1 DEF IInv, Shape
    <3>. QED
      BY <2>3, <3>1 DEF IInv, Waiting
  <2>7. ASSUME NEW s \in DOMAIN arcs, arcs[s].middle # NoMiddle PROVE Bridged(s)'
    <3>1. arcs'[s] = arcs[s] /\ MiddleFirst(s)
      BY <2>3, <2>7 DEF IInv, Bridged
    <3>2. PICK c, d \in DOMAIN arcs : Halves(s, c, d)
      BY <2>7 DEF IInv, Bridged
    <3>3. MiddleFirst(s)'
      BY <1>1, <3>1 DEF MiddleFirst
    <3>4. Halves(s, c, d)'
      BY <1>1, <2>3, <3>1, <3>2 DEF Halves
    <3>. QED
      BY <2>4, <3>2, <3>3, <3>4 DEF Bridged
  <2>8. Bridged(n)'
    <3>1. /\ arcs'[n].middle = v /\ arcs'[n].from = arcs[a].from /\ arcs'[n].to = arcs[b].to
          /\ arcs'[n].weight = arcs[a].weight + arcs[b].weight
          /\ arcs'[n].first = arcs[a].first /\ arcs'[n].last = arcs[b].last
      BY <2>3 DEF Shortcut
    <3>2. MiddleFirst(n)'
      <4>1. order' = order /\ DOMAIN order = 1 .. Len(order)
        BY <1>1, ContractedFacts DEF IInv
      <4>2. \A k \in DOMAIN order : order[k] \in {arcs[a].from, arcs[b].to} => Len(order) < k
        BY <1>2 DEF contracted
      <4>. QED
        BY <2>1, <3>1, <4>1, <4>2 DEF MiddleFirst
    <3>3. Halves(n, a, b)'
      <4>1. a < n /\ b < n /\ arcs'[a] = arcs[a] /\ arcs'[b] = arcs[b]
        BY <1>0, <1>2, <2>3
      <4>2. ~turn_is_banned(G, v, arcs[a].last, arcs[b].first)
        BY <1>4 DEF Bridgeable
      <4>. QED
        BY <1>1, <1>2, <3>1, <4>1, <4>2 DEF Halves
    <3>. QED
      BY <1>2, <2>4, <3>2, <3>3 DEF Bridged
  <2>9. ASSUME NEW s \in DOMAIN arcs', arcs'[s].middle # NoMiddle PROVE Bridged(s)'
    BY <2>3, <2>4, <2>7, <2>8, <2>9
  <2>. QED
    BY <2>5, <2>6, <2>9 DEF IInv
<1>. QED
  BY <1>3, <1>4 DEF Bridge

LEMMA InvStep == IInv /\ [Next]_vars => IInv'
<1>. SUFFICES ASSUME IInv, [Next]_vars PROVE IInv'
  OBVIOUS
<1>1. ASSUME NEW v \in Nodes, Contract(v) PROVE IInv'
  BY <1>1, ContractKeeps
<1>2. ASSUME NEW p \in pairs, Bridge(p[1], p[2]) PROVE IInv'
  BY <1>2, BridgeKeeps
<1>3. CASE UNCHANGED buildVars
  <2>1. UNCHANGED <<req, arcs, order, pairs>>
    BY <1>3 DEF buildVars
  <2>. QED
    BY <2>1 DEF IInv, Shape, Waiting, Bridged, MiddleFirst, Halves, Arc, Nodes, G, contracted
<1>4. BuildNext \/ UNCHANGED buildVars
  BY DEF Next, Build, RejectNode, AskForNothing, Ask, Drop, Settle, Rest, Check, Answer, vars
<1>. QED
  BY <1>1, <1>2, <1>3, <1>4 DEF BuildNext, Nodes

(* Build and query, step by step: arcs and order hang together as IInv     *)
(* says, whatever the witness searches of the build find.                  *)
THEOREM HierarchyInvariant == Spec => []IInv
<1>1. Init => IInv
  BY InvInit DEF Init
<1>. QED
  BY <1>1, InvStep, PTL DEF Spec

-----------------------------------------------------------------------------
(* Rank is the place in order, and beyond all places for what is not       *)
(* contracted.                                                             *)
LEMMA RankIs ==
    ASSUME Shape
    PROVE  /\ \A l \in DOMAIN order : Rank(order[l]) = l
           /\ \A u : u \notin contracted => Rank(u) = G.n + 1
<1>1. ASSUME NEW l \in DOMAIN order PROVE Rank(order[l]) = l
  <2>1. order[l] \in contracted
    BY DEF contracted
  <2>2. \A k \in DOMAIN order : order[k] = order[l] => k = l
    BY DEF Shape
  <2>. QED
    BY <2>1, <2>2 DEF Rank
<1>. QED
  BY <1>1 DEF Rank

LEMMA MiddleRank ==
    ASSUME Shape, NEW s \in DOMAIN arcs, MiddleFirst(s)
    PROVE  /\ Rank(arcs[s].middle) < Rank(arcs[s].from)
           /\ Rank(arcs[s].middle) < Rank(arcs[s].to)
<1>1. PICK l \in DOMAIN order :
            /\ order[l] = arcs[s].middle
            /\ \A k \in DOMAIN order : order[k] \in {arcs[s].from, arcs[s].to} => l < k
  BY DEF MiddleFirst
<1>2. l \in Nat /\ l <= G.n /\ G.n \in Nat /\ Rank(arcs[s].middle) = l
  BY <1>1, ContractedFacts, RankIs
<1>3. ASSUME NEW u \in {arcs[s].from, arcs[s].to} PROVE l < Rank(u)
  <2>1. CASE u \in contracted
    <3>1. PICK k \in DOMAIN order : order[k] = u
      BY <2>1 DEF contracted
    <3>. QED
      BY <1>1, <1>3, <3>1, RankIs
  <2>2. CASE u \notin contracted
    BY <1>2, <2>2, RankIs
  <2>. QED
    BY <2>1, <2>2
<1>. QED
  BY <1>2, <1>3

(* For every road graph with whatever turn restrictions: a shortcut stands *)
(* for a legal turn between two arcs made before it, and its middle was    *)
(* contracted before its ends, so that unpacking gets to the bottom.       *)
THEOREM ShortcutsAreDrives == Spec => []ShortcutsBridge
<1>1. ASSUME IInv PROVE ShortcutsBridge
  <2>. SUFFICES ASSUME NEW s \in DOMAIN arcs, arcs[s].middle # NoMiddle
                PROVE  /\ Rank(arcs[s].middle) < Rank(arcs[s].from)
                       /\ Rank(arcs[s].middle) < Rank(arcs[s].to)
                       /\ \E a, b \in DOMAIN arcs : Halves(s, a, b)
    BY DEF ShortcutsBridge, Halves
  <2>1. Shape /\ Bridged(s)
    BY <1>1 DEF IInv
  <2>. QED
    BY <2>1, MiddleRank DEF Bridged
<1>. QED
  BY <1>1, HierarchyInvariant, PTL

-----------------------------------------------------------------------------
(* The types of a query.                                                   *)

(* A set of naturals has a least one, and Min gives it.                    *)
LEMMA MinIsIn == ASSUME NEW S \in SUBSET Nat, S # {} PROVE Min(S) \in S
<1>1. PICK c \in S : \A d \in S : ~(<<d, c>> \in OpToRel(<, Nat))
  BY NatLessThanWellFounded, WFMin
<1>2. \A d \in S : ~(d < c)
  BY <1>1 DEF OpToRel
<1>3. \A d \in S : c <= d
  BY <1>2
<1>. QED
  BY <1>3 DEF Min

QueryShape ==
    /\ pc \in {"build", "fwd", "bwd", "check", "unpack", "done"}
    /\ DOMAIN dist = Sides /\ DOMAIN prev = Sides
    /\ DOMAIN heap = Sides /\ DOMAIN settled = Sides
    /\ \A s \in Sides :
          /\ \A k \in DOMAIN dist[s] : k \in Label /\ dist[s][k] \in Nat
          /\ DOMAIN prev[s] \subseteq DOMAIN dist[s]
          /\ \A e \in heap[s] : e.cost \in Nat /\ e.at \in DOMAIN dist[s]
          /\ settled[s] \subseteq DOMAIN dist[s]
          /\ pc = "build" => DOMAIN prev[s] = {} /\ settled[s] = {}
    /\ best \in Nat \cup {NoCost}

LEMMA ArcFacts ==
    ASSUME Shape, NEW a \in DOMAIN arcs, NEW side \in Sides
    PROVE  Weight(a) \in Nat /\ Ahead(side, a) \in Label
<1>1. arcs[a] \in Arc
  BY DEF Shape
<1>2. \A u \in Nodes : u \in Nat
  BY GraphFacts DEF Shape, Nodes
<1>3. Weight(a) \in Nat
  <2>1. CASE a \in Edges
    <3>1. G.edges[a] \in Edge
      BY <2>1, GraphFacts DEF Shape, Edges
    <3>. QED
      BY <2>1, <3>1, GraphFacts, WeightIsNat DEF Weight, Shape, Edge
  <2>2. CASE a \notin Edges
    BY <1>1, <2>2 DEF Weight, Arc
  <2>. QED
    BY <2>1, <2>2
<1>. QED
  BY <1>1, <1>2, <1>3 DEF Ahead, Label, Arc

LEMMA MeetType ==
    ASSUME QueryShape, NEW side \in Sides, NEW e \in heap[side], Meet(side, e)
    PROVE  best' \in Nat \cup {NoCost}
<1>. DEFINE costs == {e.cost + dist[Other(side)][k] : k \in Meetings(side, e)}
<1>1. Other(side) \in Sides
  BY DEF Other, Sides
<1>2. costs \in SUBSET Nat
  BY <1>1 DEF QueryShape, Meetings
<1>3. CASE costs # {} /\ best' = Min(costs)
  BY <1>2, <1>3, MinIsIn
<1>4. CASE best' = best
  BY <1>4 DEF QueryShape
<1>. QED
  BY <1>3, <1>4 DEF Meet

LEMMA ExpandType ==
    ASSUME Shape, QueryShape, NEW side \in Sides, NEW e \in heap[side], Expand(side, e)
    PROVE  /\ DOMAIN dist' = Sides /\ DOMAIN prev' = Sides /\ DOMAIN heap' = Sides
           /\ DOMAIN dist[side] \subseteq DOMAIN dist'[side]
           /\ \A k \in DOMAIN dist'[side] : k \in Label /\ dist'[side][k] \in Nat
           /\ DOMAIN prev'[side] \subseteq DOMAIN dist'[side]
           /\ \A x \in heap'[side] : x.cost \in Nat /\ x.at \in DOMAIN dist'[side]
           /\ \A s \in Sides \ {side} :
                 dist'[s] = dist[s] /\ prev'[s] = prev[s] /\ heap'[s] = heap[s]
<1>. DEFINE heads == {Ahead(side, a) : a \in Pushed(side, e)}
            Offers(k) == {OfferOf(side, e, a) : a \in {b \in Pushed(side, e) : Ahead(side, b) = k}}
            old == dist[side]
            new == {[cost |-> OfferOf(side, e, a), at |-> Ahead(side, a)] : a \in Pushed(side, e)}
<1>1. \A a \in Pushed(side, e) : a \in DOMAIN arcs
  BY DEF Pushed, Better
<1>2. \A a \in Pushed(side, e) : OfferOf(side, e, a) \in Nat /\ Ahead(side, a) \in Label
  BY <1>1, ArcFacts DEF QueryShape, OfferOf
<1>3. ASSUME NEW k \in heads PROVE k \in Label /\ Min(Offers(k)) \in Nat
  <2>1. Offers(k) \in SUBSET Nat /\ Offers(k) # {}
    BY <1>2
  <2>2. Min(Offers(k)) \in Offers(k)
    <3>. HIDE DEF Offers
    <3>. QED
      BY <2>1, MinIsIn
  <2>. QED
    BY <1>2, <2>1, <2>2
<1>4. /\ DOMAIN dist' = Sides /\ DOMAIN prev' = Sides /\ DOMAIN heap' = Sides
      /\ dist'[side] = [k \in DOMAIN old \cup heads |->
                           IF k \in heads THEN Min(Offers(k)) ELSE old[k]]
      /\ prev'[side] = [k \in DOMAIN prev[side] \cup heads |->
                           IF k \in heads THEN e.at ELSE prev[side][k]]
      /\ heap'[side] = (heap[side] \ {e}) \cup new
      /\ \A s \in Sides \ {side} :
            dist'[s] = dist[s] /\ prev'[s] = prev[s] /\ heap'[s] = heap[s]
  BY DEF QueryShape, Expand
<1>. HIDE DEF Offers
<1>5. ASSUME NEW k \in DOMAIN dist'[side] PROVE k \in Label /\ dist'[side][k] \in Nat
  BY <1>3, <1>4 DEF QueryShape
<1>6. DOMAIN dist'[side] = DOMAIN old \cup heads
  BY <1>4
<1>7. ASSUME NEW x \in heap'[side] PROVE x.cost \in Nat /\ x.at \in DOMAIN dist'[side]
  <2>1. CASE x \in heap[side]
    BY <1>6, <2>1 DEF QueryShape
  <2>2. CASE x \in new
    BY <1>2, <1>6, <2>2
  <2>. QED
    BY <1>4, <2>1, <2>2
<1>. QED
  BY <1>4, <1>5, <1>6, <1>7 DEF QueryShape

LEMMA SettleType ==
    ASSUME Shape, QueryShape, NEW side \in Sides, NEW e \in heap[side], Settle(side, e)
    PROVE  QueryShape'
<1>1. best' \in Nat \cup {NoCost}
  BY MeetType DEF Settle
<1>2. /\ DOMAIN dist' = Sides /\ DOMAIN prev' = Sides /\ DOMAIN heap' = Sides
      /\ DOMAIN dist[side] \subseteq DOMAIN dist'[side]
      /\ \A k \in DOMAIN dist'[side] : k \in Label /\ dist'[side][k] \in Nat
      /\ DOMAIN prev'[side] \subseteq DOMAIN dist'[side]
      /\ \A x \in heap'[side] : x.cost \in Nat /\ x.at \in DOMAIN dist'[side]
      /\ \A s \in Sides \ {side} :
            dist'[s] = dist[s] /\ prev'[s] = prev[s] /\ heap'[s] = heap[s]
  BY ExpandType DEF Settle
<1>3. /\ DOMAIN settled' = Sides /\ settled'[side] = settled[side] \cup {e.at}
      /\ \A s \in Sides \ {side} : settled'[s] = settled[s]
  BY DEF Settle, QueryShape
<1>4. pc' \in {"check", "bwd"}
  BY DEF Settle, After
<1>5. ASSUME NEW s \in Sides
      PROVE  /\ \A k \in DOMAIN dist'[s] : k \in Label /\ dist'[s][k] \in Nat
             /\ DOMAIN prev'[s] \subseteq DOMAIN dist'[s]
             /\ \A x \in heap'[s] : x.cost \in Nat /\ x.at \in DOMAIN dist'[s]
             /\ settled'[s] \subseteq DOMAIN dist'[s]
  <2>1. CASE s = side
    BY <1>2, <1>3, <2>1 DEF QueryShape
  <2>2. CASE s # side
    BY <1>2, <1>3, <2>2 DEF QueryShape
  <2>. QED
    BY <2>1, <2>2
<1>. QED
  BY <1>1, <1>2, <1>3, <1>4, <1>5 DEF QueryShape

LEMMA AskType == ASSUME Shape, QueryShape, Ask PROVE QueryShape'
<1>. DEFINE root(s) == Start(IF s = "fwd" THEN req.source ELSE req.target)
<1>1. \A s \in Sides : root(s) \in Label
  <2>1. req.source \in Nat /\ req.target \in Nat
    BY BuildAssumption DEF Shape, IsBuildRequest
  <2>. QED
    BY <2>1 DEF Start, Label
<1>2. /\ pc' = "fwd" /\ UNCHANGED <<prev, settled, best>>
      /\ dist' = [s \in Sides |-> [k \in {root(s)} |-> 0]]
      /\ heap' = [s \in Sides |-> {[cost |-> 0, at |-> root(s)]}]
  BY DEF Ask
<1>. HIDE DEF root
<1>3. pc = "build"
  BY DEF Ask
<1>. QED
  BY <1>1, <1>2, <1>3 DEF QueryShape

LEMMA QueryStep == Shape /\ QueryShape /\ [Next]_vars => QueryShape'
<1>. SUFFICES ASSUME Shape, QueryShape, [Next]_vars PROVE QueryShape'
  OBVIOUS
<1>1. CASE Build \/ UNCHANGED vars
  BY <1>1 DEF Build, vars, queryVars, QueryShape
<1>2. CASE RejectNode \/ AskForNothing \/ Check \/ Answer
  BY <1>2 DEF RejectNode, AskForNothing, Check, Answer, QueryShape
<1>3. CASE Ask
  BY <1>3, AskType
<1>4. ASSUME NEW side \in Sides, NEW e \in heap[side], Drop(side, e) PROVE QueryShape'
  BY <1>4 DEF Drop, After, QueryShape
<1>5. ASSUME NEW side \in Sides, NEW e \in heap[side], Settle(side, e) PROVE QueryShape'
  BY <1>5, SettleType
<1>6. ASSUME NEW side \in Sides, Rest(side) PROVE QueryShape'
  BY <1>6 DEF Rest, After, QueryShape
<1>. QED
  BY <1>1, <1>2, <1>3, <1>4, <1>5, <1>6 DEF Next

(* For every road graph and pair of profiles, what the hierarchy and a     *)
(* query over it keep stays what it can be.                                *)
THEOREM Typed == Spec => []TypeOK
<1>1. Init => QueryShape
  BY DEF Init, QueryShape, Sides
<1>2. IInv => Shape
  BY DEF IInv
<1>3. ASSUME IInv, QueryShape PROVE TypeOK
  <2>1. ASSUME NEW a \in DOMAIN arcs PROVE IsArc(arcs[a])
    <3>1. arcs[a] \in Arc
      BY <1>3 DEF IInv, Shape
    <3>. QED
      BY <3>1 DEF IsArc, Arc, Nodes
  <2>2. order \in Seq(0 .. G.n - 1) /\ Len(order) <= G.n
        /\ pairs \subseteq (DOMAIN arcs) \X (DOMAIN arcs)
    BY <1>3, ContractedFacts DEF IInv, Shape, Nodes
  <2>. QED
    BY <1>3, <2>1, <2>2 DEF QueryShape, TypeOK
<1>4. IInv /\ QueryShape => TypeOK
  BY <1>3
<1>. QED
  BY <1>1, <1>2, <1>4, QueryStep, HierarchyInvariant, PTL DEF Spec

-----------------------------------------------------------------------------
(* A drive of n roads, and what it has cost after each.  A road takes the  *)
(* time of the profile of the build or of the one asked for, where that    *)
(* may use it.  With one profile for both this is what a drive costs.      *)
Roads(r) == DOMAIN r.graph.edges

Charges(r, i) ==
    {edge_weight(r.graph, q, i) :
        q \in {x \in {r.profile, r.asked} : usable(r.graph, x, i)}}

MayFollow(r, i, j) ==
    /\ r.graph.edges[i].to = r.graph.edges[j].from
    /\ ~turn_is_banned(r.graph, r.graph.edges[i].to,
                       r.graph.edges[i].way, r.graph.edges[j].way)

IsDrive(r, n, p, c) ==
    /\ p \in [1 .. n -> Roads(r)] /\ c \in [1 .. n -> Nat]
    /\ c[1] \in Charges(r, p[1])
    /\ \A k \in 1 .. n - 1 :
          /\ MayFollow(r, p[k], p[k + 1])
          /\ \E x \in Charges(r, p[k + 1]) : c[k + 1] = c[k] + x

(* ... from node u, leaving by way first, to node w, arriving by way last. *)
Leads(r, n, p, c, u, first, w, last, cost) ==
    /\ IsDrive(r, n, p, c)
    /\ r.graph.edges[p[1]].from = u /\ r.graph.edges[p[1]].way = first
    /\ r.graph.edges[p[n]].to = w /\ r.graph.edges[p[n]].way = last
    /\ c[n] = cost

Driven(r, u, first, w, last, cost) ==
    \E n \in Nat \ {0} : \E p, c : Leads(r, n, p, c, u, first, w, last, cost)

-----------------------------------------------------------------------------
LEMMA ChargesAreNat ==
    ASSUME NEW r \in Requests, NEW i \in Roads(r) PROVE Charges(r, i) \in SUBSET Nat
<1>1. r.graph.edges[i] \in Edge /\ IsProfile(r.profile) /\ IsProfile(r.asked)
  BY BuildAssumption DEF IsBuildRequest, IsGraph, Roads
<1>2. ASSUME NEW q \in {r.profile, r.asked} PROVE edge_weight(r.graph, q, i) \in Nat
  BY <1>1, WeightIsNat DEF Edge
<1>. QED
  BY <1>2 DEF Charges

LEMMA DrivenIsNat ==
    ASSUME NEW r, NEW u, NEW f, NEW w, NEW l, NEW x, Driven(r, u, f, w, l, x)
    PROVE  x \in Nat
BY DEF Driven, Leads, IsDrive

LEMMA OneRoad ==
    ASSUME NEW r \in Requests, NEW i \in Roads(r), NEW x \in Charges(r, i)
    PROVE  Driven(r, r.graph.edges[i].from, r.graph.edges[i].way, r.graph.edges[i].to, r.graph.edges[i].way, x)
<1>. DEFINE p == [k \in 1 .. 1 |-> i]
            c == [k \in 1 .. 1 |-> x]
<1>1. x \in Nat
  BY ChargesAreNat
<1>2. IsDrive(r, 1, p, c) /\ p[1] = i /\ c[1] = x
  BY <1>1 DEF IsDrive
<1>. HIDE DEF p, c
<1>. QED
  BY <1>2 DEF Driven, Leads

(* One drive after the other, by a legal turn.                             *)
LEMMA Joined ==
    ASSUME NEW r \in Requests,
           NEW u, NEW f, NEW v, NEW l, NEW g, NEW w, NEW m, NEW x, NEW y,
           Driven(r, u, f, v, l, x), Driven(r, v, g, w, m, y), ~turn_is_banned(r.graph, v, l, g)
    PROVE  Driven(r, u, f, w, m, x + y)
<1>a. PICK a \in Nat \ {0} : \E p, c : Leads(r, a, p, c, u, f, v, l, x)
  BY DEF Driven
<1>p. PICK p, c : Leads(r, a, p, c, u, f, v, l, x)
  BY <1>a
<1>b. PICK b \in Nat \ {0} : \E q, d : Leads(r, b, q, d, v, g, w, m, y)
  BY DEF Driven
<1>q. PICK q, d : Leads(r, b, q, d, v, g, w, m, y)
  BY <1>b
<1>1. /\ IsDrive(r, a, p, c)
      /\ r.graph.edges[p[1]].from = u /\ r.graph.edges[p[1]].way = f
      /\ r.graph.edges[p[a]].to = v /\ r.graph.edges[p[a]].way = l /\ c[a] = x
  BY <1>p DEF Leads
<1>2. /\ IsDrive(r, b, q, d)
      /\ r.graph.edges[q[1]].from = v /\ r.graph.edges[q[1]].way = g
      /\ r.graph.edges[q[b]].to = w /\ r.graph.edges[q[b]].way = m /\ d[b] = y
  BY <1>q DEF Leads
<1>. DEFINE n == a + b
            pq == [k \in 1 .. n |-> IF k <= a THEN p[k] ELSE q[k - a]]
            cd == [k \in 1 .. n |-> IF k <= a THEN c[k] ELSE x + d[k - a]]
<1>3. /\ p \in [1 .. a -> Roads(r)] /\ c \in [1 .. a -> Nat]
      /\ q \in [1 .. b -> Roads(r)] /\ d \in [1 .. b -> Nat] /\ x \in Nat
  BY <1>1, <1>2 DEF IsDrive
<1>4. pq \in [1 .. n -> Roads(r)] /\ cd \in [1 .. n -> Nat]
  <2>1. ASSUME NEW k \in 1 .. n PROVE pq[k] \in Roads(r) /\ cd[k] \in Nat
    <3>1. k <= a => k \in 1 .. a
      OBVIOUS
    <3>2. ~(k <= a) => k - a \in 1 .. b
      OBVIOUS
    <3>. QED
      BY <1>3, <3>1, <3>2
  <2>. QED
    BY <2>1
<1>5. pq[1] = p[1] /\ cd[1] = c[1] /\ pq[n] = q[b] /\ cd[n] = x + y
  BY <1>2
<1>6. ASSUME NEW k \in 1 .. n - 1
      PROVE  MayFollow(r, pq[k], pq[k + 1])
             /\ \E z \in Charges(r, pq[k + 1]) : cd[k + 1] = cd[k] + z
  <2>1. CASE k < a
    <3>1. k \in 1 .. a - 1 /\ pq[k] = p[k] /\ pq[k + 1] = p[k + 1]
          /\ cd[k] = c[k] /\ cd[k + 1] = c[k + 1]
      BY <2>1
    <3>. QED
      BY <1>1, <3>1 DEF IsDrive
  <2>2. CASE k = a
    <3>1. pq[k] = p[a] /\ pq[k + 1] = q[1] /\ cd[k] = x /\ cd[k + 1] = x + d[1]
      BY <1>1, <2>2
    <3>2. MayFollow(r, p[a], q[1])
      BY <1>1, <1>2 DEF MayFollow
    <3>3. d[1] \in Charges(r, q[1])
      BY <1>2 DEF IsDrive
    <3>. QED
      BY <3>1, <3>2, <3>3
  <2>3. CASE k > a
    <3>1. PICK h \in 1 .. b - 1 : h = k - a
      BY <2>3
    <3>2. pq[k] = q[h] /\ pq[k + 1] = q[h + 1]
          /\ cd[k] = x + d[h] /\ cd[k + 1] = x + d[h + 1]
      BY <2>3, <3>1
    <3>3. PICK z \in Charges(r, q[h + 1]) : d[h + 1] = d[h] + z
      BY <1>2, <3>1 DEF IsDrive
    <3>4. d[h] \in Nat /\ q[h + 1] \in Roads(r)
      BY <1>3, <3>1
    <3>5. cd[k + 1] = cd[k] + z
      <4>1. z \in Nat
        BY <3>4, ChargesAreNat
      <4>. QED
        BY <1>3, <3>2, <3>3, <3>4, <4>1
    <3>6. MayFollow(r, q[h], q[h + 1])
      BY <1>2, <3>1 DEF IsDrive
    <3>. QED
      BY <3>2, <3>3, <3>5, <3>6
  <2>4. k < a \/ k = a \/ k > a
    OBVIOUS
  <2>. HIDE DEF pq, cd
  <2>. QED
    BY <2>1, <2>2, <2>3, <2>4
<1>. HIDE DEF pq, cd
<1>7. IsDrive(r, n, pq, cd)
  BY <1>1, <1>4, <1>5, <1>6 DEF IsDrive
<1>8. n \in Nat \ {0}
  OBVIOUS
<1>9. /\ r.graph.edges[pq[1]].from = u /\ r.graph.edges[pq[1]].way = f
      /\ r.graph.edges[pq[n]].to = w /\ r.graph.edges[pq[n]].way = m /\ cd[n] = x + y
  BY <1>1, <1>2, <1>5
<1>. HIDE DEF n
<1>. QED
  BY <1>7, <1>8, <1>9 DEF Driven, Leads

-----------------------------------------------------------------------------
(* The build: an arc of the graph is its road, a shortcut a drive.         *)
ArcsDriven ==
    \A a \in DOMAIN arcs :
        IF a \in DOMAIN G.edges
        THEN /\ arcs[a].from = G.edges[a].from /\ arcs[a].to = G.edges[a].to
             /\ arcs[a].first = G.edges[a].way /\ arcs[a].last = G.edges[a].way
             /\ arcs[a].open = usable(G, P, a) /\ arcs[a].weight = edge_weight(G, P, a)
        ELSE Driven(req, arcs[a].from, arcs[a].first, arcs[a].to, arcs[a].last,
                    arcs[a].weight)

LEMMA OpenArcIsDrive ==
    ASSUME Shape, ArcsDriven, NEW a \in DOMAIN arcs, arcs[a].open
    PROVE  Driven(req, arcs[a].from, arcs[a].first, arcs[a].to, arcs[a].last,
                  arcs[a].weight)
<1>1. CASE a \in DOMAIN G.edges
  <2>1. a \in Roads(req) /\ edge_weight(G, P, a) \in Charges(req, a)
    BY <1>1 DEF ArcsDriven, Roads, Charges, G, P
  <2>. QED
    BY <1>1, <2>1, OneRoad DEF Shape, ArcsDriven, G
<1>2. CASE a \notin DOMAIN G.edges
  BY <1>2 DEF ArcsDriven
<1>. QED
  BY <1>1, <1>2

(* What is open to the one who asks is a drive that costs them Weight.     *)
LEMMA AskedArcIsDrive ==
    ASSUME Shape, ArcsDriven, NEW a \in DOMAIN arcs, OpenTo(a)
    PROVE  Driven(req, arcs[a].from, arcs[a].first, arcs[a].to, arcs[a].last, Weight(a))
<1>. G.edges \in Seq(Edge)
  BY GraphFacts DEF Shape
<1>. Edges = DOMAIN G.edges
  BY DEF Edges
<1>1. CASE a \in Edges
  <2>1. a \in Roads(req) /\ Weight(a) \in Charges(req, a)
    BY <1>1 DEF OpenTo, Weight, Roads, Charges, G
  <2>. QED
    BY <1>1, <2>1, OneRoad DEF Shape, ArcsDriven, G
<1>2. CASE a \notin Edges
  BY <1>2 DEF ArcsDriven, Weight
<1>. QED
  BY <1>1, <1>2

LEMMA ArcsDrivenInit == ASSUME BuildInit PROVE ArcsDriven
BY DEF BuildInit, ArcsDriven

LEMMA BridgeDriven ==
    ASSUME IInv, ArcsDriven, NEW p \in pairs, Bridge(p[1], p[2]) PROVE ArcsDriven'
<1>. DEFINE a == p[1]
            b == p[2]
            v == order[Len(order)]
            n == Len(arcs) + 1
<1>1. req' = req /\ G' = G /\ P' = P
  BY DEF Bridge, G, P
<1>2. /\ Shape /\ arcs \in Seq(Arc) /\ a \in DOMAIN arcs /\ b \in DOMAIN arcs
      /\ arcs[a].open /\ arcs[a].to = v /\ arcs[b].open /\ arcs[b].from = v
      /\ G.edges \in Seq(Edge) /\ Len(G.edges) < n
  BY GraphFacts DEF IInv, Shape, Waiting
<1>3. CASE UNCHANGED arcs
  BY <1>1, <1>3 DEF ArcsDriven
<1>4. CASE Bridgeable(v, a, b) /\ arcs' = Append(arcs, Shortcut(v, a, b))
  <2>1. /\ DOMAIN arcs' = DOMAIN arcs \cup {n} /\ arcs'[n] = Shortcut(v, a, b)
        /\ n \notin DOMAIN G.edges
        /\ \A s \in DOMAIN arcs : arcs'[s] = arcs[s]
    BY <1>2, <1>4
  <2>2. Driven(req, arcs[a].from, arcs[a].first, arcs[b].to, arcs[b].last,
               arcs[a].weight + arcs[b].weight)
    <3>1. Driven(req, arcs[a].from, arcs[a].first, v, arcs[a].last, arcs[a].weight)
      BY <1>2, OpenArcIsDrive
    <3>2. Driven(req, v, arcs[b].first, arcs[b].to, arcs[b].last, arcs[b].weight)
      BY <1>2, OpenArcIsDrive
    <3>3. ~turn_is_banned(req.graph, v, arcs[a].last, arcs[b].first) /\ req \in Requests
      BY <1>2, <1>4 DEF Bridgeable, G, Shape
    <3>. QED
      BY <3>1, <3>2, <3>3, Joined
  <2>3. Driven(req, arcs'[n].from, arcs'[n].first, arcs'[n].to, arcs'[n].last,
               arcs'[n].weight)
    BY <2>1, <2>2 DEF Shortcut
  <2>. HIDE DEF n
  <2>. QED
    BY <1>1, <2>1, <2>3 DEF ArcsDriven
<1>. QED
  BY <1>3, <1>4 DEF Bridge

LEMMA ArcsDrivenStep == ASSUME IInv, ArcsDriven, [Next]_vars PROVE ArcsDriven'
<1>1. ASSUME NEW p \in pairs, Bridge(p[1], p[2]) PROVE ArcsDriven'
  BY <1>1, BridgeDriven
<1>2. CASE UNCHANGED <<req, arcs>>
  BY <1>2 DEF ArcsDriven, G, P
<1>3. BuildNext \/ UNCHANGED buildVars
  BY DEF Next, Build, RejectNode, AskForNothing, Ask, Drop, Settle, Rest, Check, Answer, vars
<1>. QED
  BY <1>1, <1>2, <1>3 DEF BuildNext, Contract, buildVars

-----------------------------------------------------------------------------
(* The query: the label k of a side is its start, or there is a drive from *)
(* the source to it, or from it to the target.                             *)
ReachedOnSide(r, side, k, cost) ==
    IF side = "fwd"
      THEN \/ k = Start(r.source) /\ cost = 0
           \/ \E f : Driven(r, r.source, f, k[1], k[2], cost)
      ELSE \/ k = Start(r.target) /\ cost = 0
           \/ \E l : Driven(r, k[1], k[2], r.target, l, cost)

Trip(r, cost) == \E f, l : Driven(r, r.source, f, r.target, l, cost)

SearchDriven ==
    /\ pc \notin {"build", "done"} => req.source # req.target
    /\ \A s \in Sides :
          /\ \A k \in DOMAIN dist[s] : ReachedOnSide(req, s, k, dist[s][k])
          /\ \A e \in heap[s] : ReachedOnSide(req, s, e.at, e.cost)
    /\ best # NoCost => Trip(req, best)

LEMMA SideDrivesOn ==
    ASSUME Shape, ArcsDriven, NEW side \in Sides, NEW a \in DOMAIN arcs,
           NEW k, NEW x, ReachedOnSide(req, side, k, x), Climbs(side, k, a)
    PROVE  ReachedOnSide(req, side, Ahead(side, a), x + Weight(a))
<1>1. Driven(req, arcs[a].from, arcs[a].first, arcs[a].to, arcs[a].last, Weight(a))
  BY AskedArcIsDrive DEF Climbs
<1>2. Weight(a) \in Nat /\ req \in Requests
  BY <1>1, DrivenIsNat DEF Shape
<1>3. CASE side = "fwd"
  <2>1. Ahead(side, a)[1] = arcs[a].to /\ Ahead(side, a)[2] = arcs[a].last
    BY <1>3 DEF Ahead
  <2>2. arcs[a].from = k[1] /\ ~turn_is_banned(req.graph, k[1], k[2], arcs[a].first)
    BY <1>3 DEF Climbs, Behind, TurnBanned, G
  <2>3. CASE k = Start(req.source) /\ x = 0
    <3>1. x + Weight(a) = Weight(a) /\ arcs[a].from = req.source
      BY <1>2, <2>2, <2>3 DEF Start
    <3>. QED
      BY <1>1, <1>3, <2>1, <3>1 DEF ReachedOnSide
  <2>4. ASSUME NEW f, Driven(req, req.source, f, k[1], k[2], x)
        PROVE  ReachedOnSide(req, side, Ahead(side, a), x + Weight(a))
    <3>1. Driven(req, req.source, f, arcs[a].to, arcs[a].last, x + Weight(a))
      BY <1>1, <1>2, <2>2, <2>4, Joined
    <3>. QED
      BY <1>3, <2>1, <3>1 DEF ReachedOnSide
  <2>. QED
    BY <1>3, <2>3, <2>4 DEF ReachedOnSide
<1>4. CASE side # "fwd"
  <2>1. Ahead(side, a)[1] = arcs[a].from /\ Ahead(side, a)[2] = arcs[a].first
    BY <1>4 DEF Ahead
  <2>2. arcs[a].to = k[1] /\ ~turn_is_banned(req.graph, k[1], arcs[a].last, k[2])
    BY <1>4 DEF Climbs, Behind, TurnBanned, G
  <2>3. CASE k = Start(req.target) /\ x = 0
    <3>1. x + Weight(a) = Weight(a) /\ arcs[a].to = req.target
      BY <1>2, <2>2, <2>3 DEF Start
    <3>. QED
      BY <1>1, <1>4, <2>1, <3>1 DEF ReachedOnSide
  <2>4. ASSUME NEW l, Driven(req, k[1], k[2], req.target, l, x)
        PROVE  ReachedOnSide(req, side, Ahead(side, a), x + Weight(a))
    <3>1. Driven(req, arcs[a].from, arcs[a].first, req.target, l, Weight(a) + x)
      BY <1>1, <1>2, <2>2, <2>4, Joined
    <3>2. Weight(a) + x = x + Weight(a)
      BY <1>2, <2>4, DrivenIsNat
    <3>. QED
      BY <1>4, <2>1, <3>1, <3>2 DEF ReachedOnSide
  <2>. QED
    BY <1>4, <2>3, <2>4 DEF ReachedOnSide
<1>. QED
  BY <1>3, <1>4

(* A drive of each side that meet in a legal turn are a trip.              *)
LEMMA MeetIsTrip ==
    ASSUME NEW r \in Requests, r.source # r.target, NEW j, NEW k, NEW x, NEW y,
           ReachedOnSide(r, "fwd", j, x), ReachedOnSide(r, "bwd", k, y), j[1] = k[1],
           ~turn_is_banned(r.graph, j[1], j[2], k[2])
    PROVE  x \in Nat /\ y \in Nat /\ Trip(r, x + y)
<1>1. CASE j = Start(r.source) /\ x = 0
  <2>1. j[1] = r.source /\ k # Start(r.target)
    BY <1>1 DEF Start
  <2>2. PICK l : Driven(r, k[1], k[2], r.target, l, y)
    BY <2>1 DEF ReachedOnSide
  <2>3. y \in Nat /\ x + y = y
    BY <1>1, <2>2, DrivenIsNat
  <2>. QED
    BY <1>1, <2>1, <2>2, <2>3 DEF Trip
<1>2. ASSUME NEW f, Driven(r, r.source, f, j[1], j[2], x)
      PROVE  x \in Nat /\ y \in Nat /\ Trip(r, x + y)
  <2>1. x \in Nat
    BY <1>2, DrivenIsNat
  <2>2. CASE k = Start(r.target) /\ y = 0
    <3>1. x + y = x /\ j[1] = r.target
      BY <2>1, <2>2 DEF Start
    <3>. QED
      BY <1>2, <2>1, <2>2, <3>1 DEF Trip
  <2>3. ASSUME NEW l, Driven(r, k[1], k[2], r.target, l, y)
        PROVE  y \in Nat /\ Trip(r, x + y)
    <3>1. y \in Nat
      BY <2>3, DrivenIsNat
    <3>2. Driven(r, r.source, f, r.target, l, x + y)
      BY <1>2, <2>3, Joined
    <3>. QED
      BY <3>1, <3>2 DEF Trip
  <2>. QED
    BY <2>1, <2>2, <2>3 DEF ReachedOnSide
<1>. QED
  BY <1>1, <1>2 DEF ReachedOnSide

LEMMA MeetDriven ==
    ASSUME Shape, QueryShape, SearchDriven, NEW side \in Sides, pc = side,
           NEW e \in heap[side], Meet(side, e)
    PROVE  best' # NoCost => Trip(req, best')
<1>. DEFINE total(k) == e.cost + dist[Other(side)][k]
            costs == {total(k) : k \in Meetings(side, e)}
<1>1. req \in Requests /\ req.source # req.target
  BY DEF Shape, SearchDriven, Sides
<1>2. Other(side) \in Sides
  BY DEF Other, Sides
<1>3. ASSUME NEW k \in Meetings(side, e) PROVE total(k) \in Nat /\ Trip(req, total(k))
  <2>1. /\ k \in DOMAIN dist[Other(side)] /\ k[1] = e.at[1]
        /\ ~TurnBanned(side, k[1], e.at[2], k[2])
    BY DEF Meetings
  <2>2. /\ ReachedOnSide(req, side, e.at, e.cost)
        /\ ReachedOnSide(req, Other(side), k, dist[Other(side)][k])
        /\ e.cost \in Nat /\ dist[Other(side)][k] \in Nat
    BY <1>2, <2>1 DEF SearchDriven, QueryShape
  <2>3. CASE side = "fwd"
    <3>1. ~turn_is_banned(req.graph, e.at[1], e.at[2], k[2]) /\ Other(side) = "bwd"
      BY <2>1, <2>3 DEF TurnBanned, Other, G
    <3>. QED
      BY <1>1, <2>1, <2>2, <2>3, <3>1, MeetIsTrip
  <2>4. CASE side = "bwd"
    <3>1. ~turn_is_banned(req.graph, k[1], k[2], e.at[2]) /\ Other(side) = "fwd"
      BY <2>1, <2>4 DEF TurnBanned, Other, G
    <3>2. Trip(req, dist[Other(side)][k] + e.cost)
      BY <1>1, <2>1, <2>2, <2>4, <3>1, MeetIsTrip
    <3>3. dist[Other(side)][k] + e.cost = total(k)
      BY <2>2
    <3>. QED
      BY <2>2, <3>2, <3>3
  <2>. QED
    BY <2>3, <2>4 DEF Sides
<1>. HIDE DEF total
<1>4. CASE costs # {} /\ best' = Min(costs)
  <2>1. best' \in costs
    BY <1>3, <1>4, MinIsIn
  <2>. QED
    BY <1>3, <2>1
<1>5. CASE best' = best
  BY <1>5 DEF SearchDriven
<1>. QED
  BY <1>4, <1>5 DEF Meet, total

LEMMA ExpandDriven ==
    ASSUME Shape, ArcsDriven, QueryShape, SearchDriven, NEW side \in Sides,
           NEW e \in heap[side], Expand(side, e)
    PROVE  /\ \A k \in DOMAIN dist'[side] : ReachedOnSide(req, side, k, dist'[side][k])
           /\ \A x \in heap'[side] : ReachedOnSide(req, side, x.at, x.cost)
           /\ \A s \in Sides \ {side} : dist'[s] = dist[s] /\ heap'[s] = heap[s]
<1>. DEFINE heads == {Ahead(side, a) : a \in Pushed(side, e)}
            Offers(k) == {OfferOf(side, e, a) : a \in {b \in Pushed(side, e) : Ahead(side, b) = k}}
            new == {[cost |-> OfferOf(side, e, a), at |-> Ahead(side, a)] : a \in Pushed(side, e)}
<1>1. ASSUME NEW a \in Pushed(side, e)
      PROVE  OfferOf(side, e, a) \in Nat
             /\ ReachedOnSide(req, side, Ahead(side, a), OfferOf(side, e, a))
  <2>1. a \in DOMAIN arcs /\ Climbs(side, e.at, a)
    BY DEF Pushed, Better
  <2>2. ReachedOnSide(req, side, e.at, e.cost) /\ e.cost \in Nat
    BY DEF SearchDriven, QueryShape
  <2>. QED
    BY <2>1, <2>2, SideDrivesOn, ArcFacts DEF OfferOf
<1>2. ASSUME NEW k \in heads PROVE ReachedOnSide(req, side, k, Min(Offers(k)))
  <2>1. Offers(k) \in SUBSET Nat /\ Offers(k) # {}
    BY <1>1
  <2>2. Min(Offers(k)) \in Offers(k)
    <3>. HIDE DEF Offers
    <3>. QED
      BY <2>1, MinIsIn
  <2>3. PICK a \in Pushed(side, e) :
              Ahead(side, a) = k /\ Min(Offers(k)) = OfferOf(side, e, a)
    BY <2>2
  <2>. QED
    BY <1>1, <2>3
<1>3. /\ dist'[side] = [k \in DOMAIN dist[side] \cup heads |->
                           IF k \in heads THEN Min(Offers(k)) ELSE dist[side][k]]
      /\ heap'[side] = (heap[side] \ {e}) \cup new
      /\ \A s \in Sides \ {side} : dist'[s] = dist[s] /\ heap'[s] = heap[s]
  BY DEF QueryShape, Expand
<1>. HIDE DEF Offers
<1>4. ASSUME NEW k \in DOMAIN dist'[side] PROVE ReachedOnSide(req, side, k, dist'[side][k])
  BY <1>2, <1>3 DEF SearchDriven
<1>5. ASSUME NEW x \in heap'[side] PROVE ReachedOnSide(req, side, x.at, x.cost)
  BY <1>1, <1>3 DEF SearchDriven
<1>. QED
  BY <1>3, <1>4, <1>5

LEMMA SettleDriven ==
    ASSUME Shape, ArcsDriven, QueryShape, SearchDriven, NEW side \in Sides,
           NEW e \in heap[side], Settle(side, e)
    PROVE  SearchDriven'
<1>1. req' = req /\ req.source # req.target /\ pc = side
  BY DEF Settle, SearchDriven, buildVars, Sides
<1>2. best' # NoCost => Trip(req, best')
  BY <1>1, MeetDriven DEF Settle
<1>3. /\ \A k \in DOMAIN dist'[side] : ReachedOnSide(req, side, k, dist'[side][k])
      /\ \A x \in heap'[side] : ReachedOnSide(req, side, x.at, x.cost)
      /\ \A s \in Sides \ {side} : dist'[s] = dist[s] /\ heap'[s] = heap[s]
  BY ExpandDriven DEF Settle
<1>4. ASSUME NEW s \in Sides
      PROVE  /\ \A k \in DOMAIN dist'[s] : ReachedOnSide(req, s, k, dist'[s][k])
             /\ \A x \in heap'[s] : ReachedOnSide(req, s, x.at, x.cost)
  BY <1>3 DEF SearchDriven
<1>. QED
  BY <1>1, <1>2, <1>4 DEF SearchDriven

LEMMA AskDriven == ASSUME SearchDriven, Ask PROVE SearchDriven'
<1>. DEFINE root(s) == Start(IF s = "fwd" THEN req.source ELSE req.target)
<1>1. /\ req' = req /\ req.source # req.target /\ best' = best
      /\ dist' = [s \in Sides |-> [k \in {root(s)} |-> 0]]
      /\ heap' = [s \in Sides |-> {[cost |-> 0, at |-> root(s)]}]
  BY DEF Ask, buildVars
<1>2. \A s \in Sides : ReachedOnSide(req, s, root(s), 0)
  BY DEF ReachedOnSide
<1>. HIDE DEF root
<1>. QED
  BY <1>1, <1>2 DEF SearchDriven

LEMMA SearchDrivenStep ==
    ASSUME Shape, ArcsDriven, QueryShape, SearchDriven, [Next]_vars PROVE SearchDriven'
<1>1. req' = req
  BY DEF Next, Build, BuildNext, Contract, Bridge, RejectNode, AskForNothing, Ask, Drop,
         Settle, Rest, Check, Answer, buildVars, vars
<1>2. CASE Build \/ UNCHANGED vars
  BY <1>1, <1>2 DEF Build, vars, queryVars, SearchDriven
<1>3. CASE RejectNode \/ AskForNothing \/ Check \/ Answer
  BY <1>1, <1>3 DEF RejectNode, AskForNothing, Check, Answer, SearchDriven
<1>4. CASE Ask
  BY <1>4, AskDriven
<1>5. ASSUME NEW side \in Sides, NEW e \in heap[side], Drop(side, e) PROVE SearchDriven'
  BY <1>1, <1>5 DEF Drop, After, QueryShape, SearchDriven, Sides
<1>6. ASSUME NEW side \in Sides, NEW e \in heap[side], Settle(side, e) PROVE SearchDriven'
  BY <1>6, SettleDriven
<1>7. ASSUME NEW side \in Sides, Rest(side) PROVE SearchDriven'
  BY <1>1, <1>7 DEF Rest, After, SearchDriven, Sides
<1>. QED
  BY <1>2, <1>3, <1>4, <1>5, <1>6, <1>7 DEF Next

DriveInv == IInv /\ QueryShape /\ ArcsDriven /\ SearchDriven

(* At every step of the build and of the query: arcs are drives of their   *)
(* weight, and so is all that the two searches know.                       *)
THEOREM LabelsAreDrives == Spec => []DriveInv
<1>1. Init => DriveInv
  BY InvInit, ArcsDrivenInit DEF Init, DriveInv, QueryShape, SearchDriven, Sides
<1>2. IInv => Shape
  BY DEF IInv
<1>3. DriveInv /\ [Next]_vars => DriveInv'
  BY <1>2, InvStep, QueryStep, ArcsDrivenStep, SearchDrivenStep DEF DriveInv
<1>. QED
  BY <1>1, <1>3, PTL DEF Spec

(* A legal drive from source to target takes exactly the duration reported.*)
DurationDriven ==
    reply.kind = "Route" =>
        \/ req.source = req.target /\ reply.duration = 0
        \/ Trip(req, reply.duration)

(* For every road graph, however it was contracted, and for whatever       *)
(* profile query is asked: what it answers takes as long as it says, by    *)
(* roads and turns that exist.                                             *)
THEOREM DurationIsOfADrive == Spec => []DurationDriven
<1>1. Init => DurationDriven
  BY DEF Init, DurationDriven, NoReply
<1>2. DriveInv /\ DurationDriven /\ [Next]_vars => DurationDriven'
  <2>. SUFFICES ASSUME DriveInv, DurationDriven, [Next]_vars PROVE DurationDriven'
    OBVIOUS
  <2>1. CASE UNCHANGED <<req, reply>>
    BY <2>1 DEF DurationDriven
  <2>2. CASE RejectNode \/ AskForNothing
    BY <2>2 DEF RejectNode, AskForNothing, buildVars, DurationDriven
  <2>3. CASE Answer
    BY <2>3 DEF Answer, buildVars, DriveInv, SearchDriven, DurationDriven
  <2>. QED
    BY <2>1, <2>2, <2>3
    DEF Next, Build, BuildNext, Contract, Bridge, Ask, Drop, Settle, Rest, Check,
        buildVars, queryVars, vars
<1>. QED
  BY <1>1, <1>2, LabelsAreDrives, PTL DEF Spec

-----------------------------------------------------------------------------
(* No drive is quicker than the roads are for the quicker of the profiles. *)
LEMMA MoreTakesLonger ==
    ASSUME NEW d \in Nat, NEW a \in Nat, NEW b \in Nat, a <= b PROVE d * a <= d * b
<1>1. PICK z \in Nat : b = a + z
  <2>1. b - a \in Nat /\ b = a + (b - a)
    OBVIOUS
  <2>. QED
    BY <2>1
<1>2. d * (a + z) = d * a + d * z
  OBVIOUS
<1>3. \A x, y \in Nat : x * y \in Nat
  OBVIOUS
<1>4. d * a \in Nat /\ d * z \in Nat
  BY <1>3
<1>. QED
  BY <1>1, <1>2, <1>4

LEMMA QuickerOfTheTwo ==
    ASSUME req \in Requests
    PROVE  /\ IsProfile(Quicker)
           /\ \A q \in {P, req.asked}, c \in Nat : pace_of_class(q, c) > 0 =>
                 /\ pace_of_class(Quicker, c) > 0
                 /\ pace_of_class(Quicker, c) <= pace_of_class(q, c)
<1>. DEFINE built(c) == pace_of_class(P, c)
            asked(c) == pace_of_class(req.asked, c)
            quick(c) == IF built(c) = 0 \/ (asked(c) # 0 /\ asked(c) < built(c))
                          THEN asked(c) ELSE built(c)
            classes == DOMAIN P \cup DOMAIN req.asked
<1>1. IsProfile(P) /\ IsProfile(req.asked)
  BY GraphFacts
<1>2. \A c : built(c) \in Nat /\ asked(c) \in Nat
  BY <1>1 DEF IsProfile, pace_of_class
<1>3. DOMAIN Quicker = classes /\ \A c \in classes : Quicker[c] = quick(c)
  BY DEF Quicker
<1>4. \A c : c \notin classes => built(c) = 0 /\ asked(c) = 0
  BY DEF pace_of_class
<1>. HIDE DEF built, asked
<1>5. \A c : quick(c) \in Nat
  BY <1>2
<1>6. IsProfile(Quicker)
  BY <1>1, <1>3, <1>5 DEF IsProfile
<1>7. \A c : pace_of_class(Quicker, c) = quick(c)
  BY <1>3, <1>4 DEF pace_of_class
<1>8. ASSUME NEW c PROVE /\ built(c) > 0 => quick(c) > 0 /\ quick(c) <= built(c)
                         /\ asked(c) > 0 => quick(c) > 0 /\ quick(c) <= asked(c)
  BY <1>2
<1>. QED
  BY <1>6, <1>7, <1>8 DEF built, asked

LEMMA ChargedNoLess ==
    ASSUME req \in Requests, NEW i \in Roads(req), NEW x \in Charges(req, i)
    PROVE  usable(G, Quicker, i) /\ edge_weight(G, Quicker, i) <= x
<1>1. PICK q \in {P, req.asked} : usable(G, q, i) /\ x = edge_weight(G, q, i)
  BY DEF Charges, G, P
<1>2. G.edges[i].distance \in Nat /\ G.edges[i].road_class \in Nat
  <2>1. G.edges[i] \in Edge
    BY GraphFacts DEF Roads, G
  <2>. QED
    BY <2>1 DEF Edge
<1>. DEFINE c == G.edges[i].road_class
<1>3. /\ pace_of_class(Quicker, c) > 0
      /\ pace_of_class(Quicker, c) <= pace_of_class(q, c)
  BY <1>1, <1>2, QuickerOfTheTwo DEF usable
<1>4. pace_of_class(Quicker, c) \in Nat /\ pace_of_class(q, c) \in Nat
  BY QuickerOfTheTwo, GraphFacts DEF IsProfile, pace_of_class
<1>. QED
  BY <1>1, <1>2, <1>3, <1>4, MoreTakesLonger DEF usable, edge_weight

LEMMA DriveCostsNoLess ==
    ASSUME req \in Requests, NEW n \in Nat \ {0}, NEW p, NEW c, IsDrive(req, n, p, c),
           NEW s \in Nat, G.edges[p[1]].from = s,
           NEW least, least = LeastCosts(G, Quicker, s)
    PROVE  /\ HeadOf(G, p[n]) \in DOMAIN least
           /\ least[HeadOf(G, p[n])] \in Nat /\ least[HeadOf(G, p[n])] <= c[n]
<1>1. /\ p \in [1 .. n -> Roads(req)] /\ c \in [1 .. n -> Nat]
      /\ c[1] \in Charges(req, p[1])
      /\ \A k \in 1 .. n - 1 :
            /\ MayFollow(req, p[k], p[k + 1])
            /\ \E x \in Charges(req, p[k + 1]) : c[k + 1] = c[k] + x
  BY DEF IsDrive
<1>2. IsGraph(G) /\ IsProfile(Quicker)
  BY BuildAssumption, QuickerOfTheTwo DEF IsBuildRequest, G
<1>3. /\ Start(s) \in DOMAIN least /\ least[Start(s)] = 0
      /\ \A k \in DOMAIN least :
            /\ least[k] \in Nat
            /\ \A i \in exits(G, Quicker, k) :
                  /\ HeadOf(G, i) \in DOMAIN least
                  /\ least[HeadOf(G, i)] <= least[k] + edge_weight(G, Quicker, i)
  BY <1>2, LeastCostsClose
<1>4. ASSUME NEW i \in Roads(req), NEW x \in Charges(req, i), NEW k \in DOMAIN least, NEW y \in Nat,
             least[k] <= y, G.edges[i].from = k[1],
             ~turn_is_banned(G, k[1], k[2], G.edges[i].way)
      PROVE  /\ HeadOf(G, i) \in DOMAIN least
             /\ least[HeadOf(G, i)] \in Nat /\ least[HeadOf(G, i)] <= y + x
  <2>1. usable(G, Quicker, i) /\ edge_weight(G, Quicker, i) <= x /\ x \in Nat
    BY ChargedNoLess, ChargesAreNat
  <2>2. i \in DOMAIN G.edges /\ edge_weight(G, Quicker, i) \in Nat
    BY <1>2, EdgeIsSound DEF Roads, G
  <2>3. G.edges[i].from < G.n
    BY <2>2, BuildAssumption DEF IsBuildRequest, G
  <2>4. i \in exits(G, Quicker, k)
    BY <1>4, <2>1, <2>2, <2>3 DEF exits, outgoing_edges
  <2>5. /\ HeadOf(G, i) \in DOMAIN least /\ least[HeadOf(G, i)] \in Nat /\ least[k] \in Nat
        /\ least[HeadOf(G, i)] <= least[k] + edge_weight(G, Quicker, i)
    BY <1>3, <2>4
  <2>. QED
    BY <1>4, <2>1, <2>2, <2>5
<1>. DEFINE Sound(k) == /\ HeadOf(G, p[k]) \in DOMAIN least
                        /\ least[HeadOf(G, p[k])] \in Nat /\ least[HeadOf(G, p[k])] <= c[k]
            T == {m \in Nat : m + 1 <= n => Sound(m + 1)}
<1>5. 0 \in T
  <2>1. p[1] \in Roads(req) /\ c[1] \in Charges(req, p[1])
    BY <1>1
  <2>2. Start(s)[1] = s /\ ~turn_is_banned(G, s, Start(s)[2], G.edges[p[1]].way)
    BY DEF Start, turn_is_banned
  <2>3. c[1] \in Nat /\ 0 + c[1] = c[1]
    BY <1>1
  <2>4. Sound(1)
    BY <1>3, <1>4, <2>1, <2>2, <2>3
  <2>. QED
    BY <2>4
<1>6. ASSUME NEW m \in Nat, m \in T PROVE m + 1 \in T
  <2>. SUFFICES ASSUME (m + 1) + 1 <= n PROVE Sound((m + 1) + 1)
    OBVIOUS
  <2>1. PICK k \in 1 .. n - 1 : k = m + 1
    OBVIOUS
  <2>2. Sound(k)
    BY <1>6, <2>1
  <2>3. MayFollow(req, p[k], p[k + 1]) /\ p[k] \in Roads(req) /\ p[k + 1] \in Roads(req)
        /\ c[k] \in Nat
    BY <1>1
  <2>4. PICK x \in Charges(req, p[k + 1]) : c[k + 1] = c[k] + x
    BY <1>1
  <2>5. HeadOf(G, p[k])[1] = G.edges[p[k]].to /\ HeadOf(G, p[k])[2] = G.edges[p[k]].way
    BY DEF HeadOf
  <2>6. G.edges[p[k + 1]].from = HeadOf(G, p[k])[1]
        /\ ~turn_is_banned(G, HeadOf(G, p[k])[1], HeadOf(G, p[k])[2], G.edges[p[k + 1]].way)
    BY <2>3, <2>5 DEF MayFollow, G
  <2>7. Sound(k + 1)
    BY <1>4, <2>2, <2>3, <2>4, <2>6
  <2>. QED
    BY <2>1, <2>7
<1>7. Nat \subseteq T
  <2>. HIDE DEF T
  <2>. QED
    BY <1>5, <1>6, InductionOverNat
<1>8. PICK m \in Nat : n = m + 1
  <2>1. n - 1 \in Nat /\ n = (n - 1) + 1
    OBVIOUS
  <2>. QED
    BY <2>1
<1>9. Sound(n)
  BY <1>7, <1>8
<1>. QED
  BY <1>9

(* A hierarchy never promises a drive the roads do not have, for every     *)
(* road graph, order of contraction, abandoned witness search and profile  *)
(* asked for: the duration query reports is no less than the least a legal *)
(* drive takes with the quicker of the two profiles.                       *)
THEOREM PromisesAreKept == Spec => []NeverQuickerThanRoads
<1>1. Shape /\ DurationDriven => NeverQuickerThanRoads
  <2>. SUFFICES ASSUME Shape, DurationDriven, reply.kind = "Route"
                PROVE  \E c \in CostsTo(G, Quicker, req.source, req.target) : c <= reply.duration
    BY DEF NeverQuickerThanRoads
  <2>. DEFINE least == LeastCosts(G, Quicker, req.source)
  <2>1. req \in Requests /\ req.source \in Nat /\ req.target \in Nat
        /\ IsGraph(G) /\ IsProfile(Quicker)
    BY BuildAssumption, QuickerOfTheTwo DEF Shape, IsBuildRequest, G
  <2>2. ASSUME NEW k \in DOMAIN least, k[1] = req.target
        PROVE  least[k] \in CostsTo(G, Quicker, req.source, req.target)
    BY <2>2 DEF CostsTo
  <2>3. CASE req.source = req.target /\ reply.duration = 0
    <3>1. Start(req.source) \in DOMAIN least /\ least[Start(req.source)] = 0
      BY <2>1, LeastCostsClose
    <3>2. Start(req.source)[1] = req.target
      BY <2>3 DEF Start
    <3>. HIDE DEF least
    <3>. QED
      BY <2>2, <2>3, <3>1, <3>2
  <2>4. CASE Trip(req, reply.duration)
    <3>1. PICK f, l : Driven(req, req.source, f, req.target, l, reply.duration)
      BY <2>4 DEF Trip
    <3>2. PICK n \in Nat \ {0} :
              \E p, c : Leads(req, n, p, c, req.source, f, req.target, l, reply.duration)
      BY <3>1 DEF Driven
    <3>3. PICK p, c : Leads(req, n, p, c, req.source, f, req.target, l, reply.duration)
      BY <3>2
    <3>4. /\ IsDrive(req, n, p, c) /\ G.edges[p[1]].from = req.source
          /\ G.edges[p[n]].to = req.target /\ c[n] = reply.duration
      BY <3>3 DEF Leads, G
    <3>5. /\ HeadOf(G, p[n]) \in DOMAIN least
          /\ least[HeadOf(G, p[n])] <= reply.duration
      BY <2>1, <3>4, DriveCostsNoLess
    <3>6. HeadOf(G, p[n])[1] = req.target
      BY <3>4 DEF HeadOf
    <3>. HIDE DEF least
    <3>. QED
      BY <2>2, <3>5, <3>6
  <2>. QED
    BY <2>3, <2>4 DEF DurationDriven
<1>2. DriveInv => Shape
  BY DEF DriveInv, IInv
<1>. QED
  BY <1>1, <1>2, LabelsAreDrives, DurationIsOfADrive, PTL
-----------------------------------------------------------------------------
(* The distances between nodes that are not contracted.  Without turn      *)
(* restrictions a drive over arcs A goes on from a node however it came    *)
(* there, so that distances can be put together at nodes.                  *)

AreArcs(A) ==
    /\ IsFiniteSet(DOMAIN A)
    /\ \A e \in DOMAIN A : /\ A[e].from \in Nat /\ A[e].to \in Nat
                           /\ A[e].last \in Nat /\ A[e].weight \in Nat

(* The arcs out of x that keep out of closed nodes.                        *)
ArcsOut(A, x, closed) ==
    {e \in DOMAIN A : A[e].open /\ A[e].from = x /\ A[e].to \notin closed}

Heads(A, u) == {Start(u)} \cup {<<A[e].to, A[e].last>> : e \in DOMAIN A}

ArcNetwork(A, u, closed) ==
    [k \in Heads(A, u) |->
        {<< <<A[e].to, A[e].last>>, A[e].weight>> : e \in ArcsOut(A, k[1], closed)}]

LeastOver(A, u, closed) == LeastCostsOver(Start(u), ArcNetwork(A, u, closed))

(* Over arcs that keep out of closed nodes, x is no more than c from u.    *)
Near(A, closed, u, x, c) ==
    LET least == LeastOver(A, u, closed)
    IN  \E k \in DOMAIN least : k[1] = x /\ least[k] <= c

LEMMA ArcNetworkIsNetwork ==
    ASSUME NEW A, AreArcs(A), NEW u \in Nat, NEW closed
    PROVE  /\ AreRoads(Start(u), ArcNetwork(A, u, closed))
           /\ DOMAIN ArcNetwork(A, u, closed) = Heads(A, u)
           /\ IsFiniteSet(Heads(A, u)) /\ Heads(A, u) \subseteq Label
<1>1. Start(u) \in Label /\ Start(u) \in Heads(A, u)
  BY DEF Start, Label, Heads
<1>2. \A e \in DOMAIN A : <<A[e].to, A[e].last>> \in Heads(A, u) /\ <<A[e].to, A[e].last>> \in Label
  BY DEF Heads, AreArcs, Label
<1>3. Heads(A, u) \subseteq Label
  BY <1>1, <1>2 DEF Heads
<1>4. IsFiniteSet(Heads(A, u))
  <2>. DEFINE f == [e \in DOMAIN A |-> <<A[e].to, A[e].last>>]
              H == {<<A[e].to, A[e].last>> : e \in DOMAIN A}
  <2>1. f \in Surjection(DOMAIN A, H)
    BY DEF Surjection
  <2>2. IsFiniteSet(H)
    BY <2>1, FS_Surjection DEF AreArcs
  <2>3. IsFiniteSet({Start(u)} \cup H)
    BY <2>2, FS_AddElement
  <2>. QED
    BY <2>3 DEF Heads
<1>5. \A k \in Heads(A, u) :
         {<< <<A[e].to, A[e].last>>, A[e].weight>> : e \in ArcsOut(A, k[1], closed)}
            \in SUBSET (Heads(A, u) \X Nat)
  BY <1>2 DEF ArcsOut, AreArcs
<1>6. DOMAIN ArcNetwork(A, u, closed) = Heads(A, u)
      /\ ArcNetwork(A, u, closed) \in [Heads(A, u) -> SUBSET (Heads(A, u) \X Nat)]
  BY <1>5 DEF ArcNetwork
<1>. QED
  BY <1>1, <1>3, <1>4, <1>6 DEF AreRoads

(* Nearness goes on along arcs ...                                         *)
LEMMA NearGoesOn ==
    ASSUME NEW A, AreArcs(A), NEW u \in Nat, NEW closed
    PROVE  /\ Near(A, closed, u, u, 0)
           /\ \A x \in Nat, c \in Nat : \A e \in ArcsOut(A, x, closed) :
                 Near(A, closed, u, x, c) => Near(A, closed, u, A[e].to, c + A[e].weight)
           /\ \A x \in Nat, c \in Nat, d \in Nat :
                 Near(A, closed, u, x, c) /\ c <= d => Near(A, closed, u, x, d)
<1>. DEFINE net == ArcNetwork(A, u, closed)
            least == LeastOver(A, u, closed)
<1>1. /\ AreRoads(Start(u), net) /\ DOMAIN net = Heads(A, u) /\ IsFiniteSet(DOMAIN net)
  BY ArcNetworkIsNetwork
<1>2. \A k \in Heads(A, u) : \A e \in ArcsOut(A, k[1], closed) :
         << <<A[e].to, A[e].last>>, A[e].weight>> \in net[k]
  BY DEF ArcNetwork
<1>3. least = LeastCostsOver(Start(u), net)
  BY DEF LeastOver
<1>. HIDE DEF net, least
<1>4. /\ DOMAIN least \subseteq Heads(A, u)
      /\ Start(u) \in DOMAIN least /\ least[Start(u)] = 0
      /\ \A k \in DOMAIN least :
            /\ least[k] \in Nat
            /\ \A r \in net[k] : r[1] \in DOMAIN least /\ least[r[1]] <= least[k] + r[2]
  BY <1>1, <1>3, LeastCostsSolve
<1>5. \A x, c : Near(A, closed, u, x, c) <=> \E k \in DOMAIN least : k[1] = x /\ least[k] <= c
  BY DEF Near, least
<1>6. Near(A, closed, u, u, 0)
  <2>1. Start(u)[1] = u
    BY DEF Start
  <2>. QED
    BY <1>4, <1>5, <2>1
<1>7. ASSUME NEW x \in Nat, NEW c \in Nat, NEW e \in ArcsOut(A, x, closed), Near(A, closed, u, x, c)
      PROVE  Near(A, closed, u, A[e].to, c + A[e].weight)
  <2>1. PICK k \in DOMAIN least : k[1] = x /\ least[k] <= c
    BY <1>5, <1>7
  <2>. DEFINE h == <<A[e].to, A[e].last>>
  <2>2. << h, A[e].weight>> \in net[k]
    BY <1>2, <1>4, <2>1
  <2>3. h \in DOMAIN least /\ least[h] <= least[k] + A[e].weight
    <3>. DEFINE r == <<h, A[e].weight>>
    <3>1. r[1] \in DOMAIN least /\ least[r[1]] <= least[k] + r[2]
      BY <1>4, <2>2
    <3>. QED
      BY <3>1
  <2>4. A[e].weight \in Nat /\ least[h] \in Nat /\ least[k] \in Nat
    BY <1>4, <2>3 DEF ArcsOut, AreArcs
  <2>5. h[1] = A[e].to /\ least[h] <= c + A[e].weight
    BY <2>1, <2>3, <2>4
  <2>. QED
    BY <1>5, <2>3, <2>5
<1>8. ASSUME NEW x \in Nat, NEW c \in Nat, NEW d \in Nat, Near(A, closed, u, x, c), c <= d
      PROVE  Near(A, closed, u, x, d)
  <2>1. PICK k \in DOMAIN least : k[1] = x /\ least[k] <= c
    BY <1>5, <1>8
  <2>2. least[k] <= d
    BY <1>4, <1>8, <2>1
  <2>. QED
    BY <1>5, <2>1, <2>2
<1>. QED
  BY <1>6, <1>7, <1>8

(* ... and is only what that gives.                                        *)
LEMMA NearByDriving ==
    ASSUME NEW A, AreArcs(A), NEW u \in Nat, NEW closed,
           NEW S, <<u, 0>> \in S,
           \A x \in Nat, c \in Nat : \A e \in ArcsOut(A, x, closed) :
              <<x, c>> \in S => <<A[e].to, c + A[e].weight>> \in S
    PROVE  \A x, c : Near(A, closed, u, x, c) => \E d \in Nat : d <= c /\ <<x, d>> \in S
<1>. DEFINE net == ArcNetwork(A, u, closed)
            least == LeastOver(A, u, closed)
            T == {d \in Label \X Nat : <<d[1][1], d[2]>> \in S}
<1>1. /\ AreRoads(Start(u), net) /\ DOMAIN net = Heads(A, u) /\ IsFiniteSet(DOMAIN net)
      /\ Heads(A, u) \subseteq Label
  BY ArcNetworkIsNetwork
<1>2. \A k \in Heads(A, u) : \A r \in net[k] : \E e \in ArcsOut(A, k[1], closed) :
         r = << <<A[e].to, A[e].last>>, A[e].weight>>
  BY DEF ArcNetwork
<1>3. least = LeastCostsOver(Start(u), net)
  BY DEF LeastOver
<1>4. <<Start(u), 0>> \in T
  BY DEF Start, Label
<1>. HIDE DEF net, least
<1>5. ASSUME NEW d \in T \cap Drives(net), NEW r \in net[d[1]]
      PROVE  <<r[1], d[2] + r[2]>> \in T
  <2>1. /\ d[1] \in Heads(A, u) /\ d[1][1] \in Nat /\ d[2] \in Nat
        /\ <<d[1][1], d[2]>> \in S
    BY <1>1 DEF Drives, Label
  <2>2. PICK e \in ArcsOut(A, d[1][1], closed) : r = << <<A[e].to, A[e].last>>, A[e].weight>>
    BY <1>2, <2>1
  <2>3. /\ A[e].to \in Nat /\ A[e].last \in Nat /\ A[e].weight \in Nat
        /\ r[1] = <<A[e].to, A[e].last>> /\ r[2] = A[e].weight
    BY <2>2 DEF ArcsOut, AreArcs
  <2>4. <<A[e].to, d[2] + A[e].weight>> \in S /\ d[2] + A[e].weight \in Nat
    BY <2>1, <2>3
  <2>. QED
    BY <2>3, <2>4 DEF Label
<1>. HIDE DEF T
<1>6. \A k \in DOMAIN least : <<k, least[k]>> \in T
  BY <1>1, <1>3, <1>4, <1>5, LeastCostsAreDriven
<1>7. ASSUME NEW x, NEW c, Near(A, closed, u, x, c) PROVE \E d \in Nat : d <= c /\ <<x, d>> \in S
  <2>1. PICK k \in DOMAIN least : k[1] = x /\ least[k] <= c
    BY <1>7 DEF Near, least
  <2>2. <<x, least[k]>> \in S /\ least[k] \in Nat
    BY <1>6, <2>1 DEF T
  <2>. QED
    BY <2>1, <2>2
<1>. QED
  BY <1>7

LEMMA NearTriangle ==
    ASSUME NEW A, AreArcs(A), NEW closed, NEW u \in Nat, NEW x \in Nat, NEW y \in Nat,
           NEW c \in Nat, NEW d \in Nat,
           Near(A, closed, u, x, c), Near(A, closed, x, y, d)
    PROVE  Near(A, closed, u, y, c + d)
<1>. DEFINE S == {p \in Nat \X Nat : Near(A, closed, u, p[1], c + p[2])}
<1>1. <<x, 0>> \in S
  OBVIOUS
<1>2. ASSUME NEW z \in Nat, NEW f \in Nat, NEW e \in ArcsOut(A, z, closed), <<z, f>> \in S
      PROVE  <<A[e].to, f + A[e].weight>> \in S
  <2>1. A[e].to \in Nat /\ A[e].weight \in Nat
    BY DEF ArcsOut, AreArcs
  <2>2. c + f \in Nat /\ Near(A, closed, u, z, c + f)
    BY <1>2
  <2>3. Near(A, closed, u, A[e].to, (c + f) + A[e].weight)
    BY <2>2, NearGoesOn
  <2>4. (c + f) + A[e].weight = c + (f + A[e].weight) /\ f + A[e].weight \in Nat
    BY <2>1
  <2>. QED
    BY <2>1, <2>3, <2>4
<1>3. \A z, f : <<z, f>> \in S => z \in Nat /\ f \in Nat /\ Near(A, closed, u, z, c + f)
  OBVIOUS
<1>. HIDE DEF S
<1>4. PICK f \in Nat : f <= d /\ <<y, f>> \in S
  BY <1>1, <1>2, NearByDriving
<1>5. Near(A, closed, u, y, c + f) /\ c + f \in Nat /\ c + d \in Nat /\ c + f <= c + d
  BY <1>3, <1>4
<1>. QED
  BY <1>5, NearGoesOn

(* With more arcs everything stays as near ...                             *)
LEMMA NearWithMore ==
    ASSUME NEW A, NEW B, AreArcs(A), AreArcs(B), \A e \in DOMAIN A : e \in DOMAIN B /\ B[e] = A[e],
           NEW closed, NEW open, open \subseteq closed,
           NEW u \in Nat, NEW x \in Nat, NEW c \in Nat, Near(A, closed, u, x, c)
    PROVE  Near(B, open, u, x, c)
<1>. DEFINE S == {p \in Nat \X Nat : Near(B, open, u, p[1], p[2])}
<1>1. <<u, 0>> \in S
  BY NearGoesOn
<1>2. ASSUME NEW z \in Nat, NEW f \in Nat, NEW e \in ArcsOut(A, z, closed), <<z, f>> \in S
      PROVE  <<A[e].to, f + A[e].weight>> \in S
  <2>1. A[e].to \in Nat /\ A[e].weight \in Nat /\ f + A[e].weight \in Nat
    BY DEF ArcsOut, AreArcs
  <2>2. e \in ArcsOut(B, z, open) /\ B[e] = A[e]
    BY DEF ArcsOut
  <2>3. Near(B, open, u, A[e].to, f + A[e].weight)
    BY <1>2, <2>2, NearGoesOn
  <2>. QED
    BY <2>1, <2>3
<1>3. \A z, f : <<z, f>> \in S => z \in Nat /\ f \in Nat /\ Near(B, open, u, z, f)
  OBVIOUS
<1>. HIDE DEF S
<1>4. PICK f \in Nat : f <= c /\ <<x, f>> \in S
  BY <1>1, <1>2, NearByDriving
<1>. QED
  BY <1>3, <1>4, NearGoesOn

(* ... and no nearer with an arc that stands for two there are.            *)
LEMMA NearWithShortcut ==
    ASSUME NEW A, NEW B, AreArcs(A), AreArcs(B), NEW closed,
           \A e \in DOMAIN B :
              \/ e \in DOMAIN A /\ B[e] = A[e]
              \/ \E a \in ArcsOut(A, B[e].from, closed) : \E b \in ArcsOut(A, A[a].to, closed) :
                    B[e].to = A[b].to /\ B[e].weight = A[a].weight + A[b].weight,
           NEW u \in Nat, NEW x \in Nat, NEW c \in Nat, Near(B, closed, u, x, c)
    PROVE  Near(A, closed, u, x, c)
<1>. DEFINE S == {p \in Nat \X Nat : Near(A, closed, u, p[1], p[2])}
<1>1. <<u, 0>> \in S
  BY NearGoesOn
<1>2. ASSUME NEW z \in Nat, NEW f \in Nat, NEW e \in ArcsOut(B, z, closed), <<z, f>> \in S
      PROVE  <<B[e].to, f + B[e].weight>> \in S
  <2>1. B[e].to \in Nat /\ B[e].weight \in Nat /\ f + B[e].weight \in Nat /\ B[e].from = z
    BY DEF ArcsOut, AreArcs
  <2>2. Near(A, closed, u, z, f)
    BY <1>2
  <2>3. CASE e \in DOMAIN A /\ B[e] = A[e]
    <3>1. e \in ArcsOut(A, z, closed)
      BY <2>3 DEF ArcsOut
    <3>2. Near(A, closed, u, A[e].to, f + A[e].weight)
      BY <2>2, <3>1, NearGoesOn
    <3>. QED
      BY <2>1, <2>3, <3>2
  <2>4. ASSUME NEW a \in ArcsOut(A, z, closed), NEW b \in ArcsOut(A, A[a].to, closed),
               B[e].to = A[b].to, B[e].weight = A[a].weight + A[b].weight
        PROVE  <<B[e].to, f + B[e].weight>> \in S
    <3>1. A[a].to \in Nat /\ A[a].weight \in Nat /\ A[b].weight \in Nat /\ f + A[a].weight \in Nat
      BY DEF ArcsOut, AreArcs
    <3>2. Near(A, closed, u, A[a].to, f + A[a].weight)
      BY <2>2, NearGoesOn
    <3>3. Near(A, closed, u, A[b].to, (f + A[a].weight) + A[b].weight)
      BY <3>1, <3>2, NearGoesOn
    <3>4. (f + A[a].weight) + A[b].weight = f + B[e].weight
      BY <2>4, <3>1
    <3>. QED
      BY <2>1, <2>4, <3>3, <3>4
  <2>5. e \in DOMAIN B
    BY DEF ArcsOut
  <2>. QED
    BY <2>1, <2>3, <2>4, <2>5
<1>3. \A z, f : <<z, f>> \in S => z \in Nat /\ f \in Nat /\ Near(A, closed, u, z, f)
  OBVIOUS
<1>. HIDE DEF S
<1>4. PICK f \in Nat : f <= c /\ <<x, f>> \in S
  BY <1>1, <1>2, NearByDriving
<1>. QED
  BY <1>3, <1>4, NearGoesOn

(* Nodes that are not in done are as near without those in done.           *)
Kept(A, done) ==
    \A u \in Nat \ done, x \in Nat \ done, c \in Nat :
        Near(A, {}, u, x, c) => Near(A, done, u, x, c)

(* Round v, from the arc a into it to the arc b out of it.                 *)
WayRound(A, done, a, b) ==
    Near(A, done, A[a].from, A[b].to, A[a].weight + A[b].weight)

LEMMA DoneWithout ==
    ASSUME NEW A, AreArcs(A), NEW done, NEW v \in Nat, v \in done, Kept(A, done \ {v}),
           \A a, b \in DOMAIN A :
              /\ A[a].open /\ A[a].to = v /\ A[a].from \notin done
              /\ A[b].open /\ A[b].from = v /\ A[b].to \notin done
              => WayRound(A, done, a, b)
    PROVE  Kept(A, done)
<1>. SUFFICES ASSUME NEW u \in Nat \ done, NEW x \in Nat \ done, NEW c \in Nat, Near(A, {}, u, x, c)
              PROVE  Near(A, done, u, x, c)
  BY DEF Kept
<1>1. Near(A, done \ {v}, u, x, c)
  BY DEF Kept
<1>. DEFINE Into(a, g) == /\ A[a].open /\ A[a].to = v /\ A[a].from \notin done
                          /\ Near(A, done, u, A[a].from, g)
            S == {p \in Nat \X Nat :
                     IF p[1] = v
                     THEN \E a \in DOMAIN A, g \in Nat : Into(a, g) /\ g + A[a].weight <= p[2]
                     ELSE p[1] \notin done /\ Near(A, done, u, p[1], p[2])}
<1>2. <<u, 0>> \in S
  BY NearGoesOn
<1>3. ASSUME NEW z \in Nat, NEW f \in Nat, NEW e \in ArcsOut(A, z, done \ {v}), <<z, f>> \in S
      PROVE  <<A[e].to, f + A[e].weight>> \in S
  <2>1. /\ A[e].to \in Nat /\ A[e].weight \in Nat /\ f + A[e].weight \in Nat
        /\ e \in DOMAIN A /\ A[e].open /\ A[e].from = z
        /\ A[e].to = v \/ A[e].to \notin done
    BY DEF ArcsOut, AreArcs
  <2>2. CASE z # v /\ A[e].to = v
    <3>1. z \notin done /\ Near(A, done, u, z, f)
      BY <1>3, <2>2
    <3>2. Into(e, f)
      BY <2>1, <2>2, <3>1
    <3>. QED
      BY <2>1, <2>2, <3>2
  <2>3. CASE z # v /\ A[e].to # v
    <3>1. z \notin done /\ Near(A, done, u, z, f)
      BY <1>3, <2>3
    <3>2. e \in ArcsOut(A, z, done)
      BY <2>1, <2>3 DEF ArcsOut
    <3>3. Near(A, done, u, A[e].to, f + A[e].weight)
      BY <3>1, <3>2, NearGoesOn
    <3>. QED
      BY <2>1, <2>3, <3>3
  <2>4. CASE z = v
    <3>1. PICK a \in DOMAIN A, g \in Nat : Into(a, g) /\ g + A[a].weight <= f
      BY <1>3, <2>4
    <3>2. A[a].from \in Nat /\ A[a].weight \in Nat
      BY DEF AreArcs
    <3>3. CASE A[e].to = v
      <4>1. g + A[a].weight <= f + A[e].weight
        BY <2>1, <3>1, <3>2
      <4>. QED
        BY <2>1, <3>1, <3>3, <4>1
    <3>4. CASE A[e].to # v
      <4>1. Near(A, done, A[a].from, A[e].to, A[a].weight + A[e].weight)
        BY <2>1, <2>4, <3>1, <3>4 DEF WayRound
      <4>2. Near(A, done, u, A[e].to, g + (A[a].weight + A[e].weight))
        <5>1. A[a].weight + A[e].weight \in Nat
          BY <2>1, <3>2
        <5>. QED
          BY <2>1, <3>1, <3>2, <4>1, <5>1, NearTriangle
      <4>3. /\ g + (A[a].weight + A[e].weight) \in Nat
            /\ g + (A[a].weight + A[e].weight) <= f + A[e].weight
        BY <2>1, <3>1, <3>2
      <4>4. Near(A, done, u, A[e].to, f + A[e].weight)
        <5>. DEFINE y == A[e].to
                    g1 == g + (A[a].weight + A[e].weight)
                    g2 == f + A[e].weight
        <5>1. y \in Nat /\ g1 \in Nat /\ g2 \in Nat /\ g1 <= g2 /\ Near(A, done, u, y, g1)
          BY <2>1, <4>2, <4>3
        <5>. HIDE DEF y, g1, g2
        <5>2. Near(A, done, u, y, g2)
          BY <5>1, NearGoesOn
        <5>. QED
          BY <5>2 DEF y, g2
      <4>. QED
        BY <2>1, <3>4, <4>4
    <3>. QED
      BY <3>3, <3>4
  <2>. QED
    BY <2>2, <2>3, <2>4
<1>4. \A f : <<x, f>> \in S => f \in Nat /\ Near(A, done, u, x, f)
  OBVIOUS
<1>. HIDE DEF S
<1>5. PICK f \in Nat : f <= c /\ <<x, f>> \in S
  BY <1>1, <1>2, <1>3, NearByDriving
<1>. QED
  BY <1>4, <1>5, NearGoesOn
LEMMA ArcsAreArcs == Shape => AreArcs(arcs)
<1>. SUFFICES ASSUME Shape PROVE AreArcs(arcs)
  OBVIOUS
<1>1. /\ arcs \in Seq(Arc) /\ Len(arcs) \in Nat /\ DOMAIN arcs = 1 .. Len(arcs) /\ G.n \in Nat
      /\ \A e \in DOMAIN arcs : arcs[e] \in Arc
  BY GraphFacts DEF Shape
<1>2. IsFiniteSet(DOMAIN arcs)
  BY <1>1, FS_Interval
<1>3. ASSUME NEW a \in Arc
      PROVE  a.from \in Nodes /\ a.to \in Nodes /\ a.last \in Nat /\ a.weight \in Nat
  BY DEF Arc
<1>4. Nodes \subseteq Nat
  BY <1>1 DEF Nodes
<1>5. ASSUME NEW e \in DOMAIN arcs
      PROVE  /\ arcs[e].from \in Nat /\ arcs[e].to \in Nat
             /\ arcs[e].last \in Nat /\ arcs[e].weight \in Nat
  <2>1. arcs[e] \in Arc
    BY <1>1
  <2>. QED
    BY <1>3, <1>4, <2>1
<1>. QED
  BY <1>2, <1>5 DEF AreArcs

(* Without turn restrictions the witness search goes over these arcs.      *)
LEMMA LeastWithoutTurns ==
    ASSUME G.restrictions = {}, NEW u, NEW closed
    PROVE  LeastAvoiding(u, closed) = LeastOver(arcs, u, closed)
<1>1. \A k : ArcsOpenTo(k, closed) = ArcsOut(arcs, k[1], closed)
  <2>1. \A v, a, b : ~turn_is_banned(G, v, a, b)
    BY DEF turn_is_banned
  <2>. QED
    BY <2>1 DEF ArcsOpenTo, ArcsOut
<1>2. {Start(u)} \cup {ArcHead(c) : c \in DOMAIN arcs} = Heads(arcs, u)
  BY DEF Heads, ArcHead
<1>3. [k \in {Start(u)} \cup {ArcHead(c) : c \in DOMAIN arcs} |->
          {<<ArcHead(c), arcs[c].weight>> : c \in ArcsOpenTo(k, closed)}]
        = ArcNetwork(arcs, u, closed)
  BY <1>1, <1>2 DEF ArcNetwork, ArcHead
<1>. QED
  BY <1>3 DEF LeastAvoiding, LeastOver

(* While the last node of order is being bridged: without the nodes before *)
(* it distances are kept, and round itself they are for the pairs that     *)
(* have had their turn.                                                    *)
Through(v) ==
    {p \in (DOMAIN arcs) \X (DOMAIN arcs) :
        /\ arcs[p[1]].open /\ arcs[p[1]].to = v /\ arcs[p[1]].from \notin contracted
        /\ arcs[p[2]].open /\ arcs[p[2]].from = v /\ arcs[p[2]].to \notin contracted}

KeptInv ==
    G.restrictions = {} /\ order # <<>> =>
        LET v == order[Len(order)]
        IN  /\ Kept(arcs, contracted \ {v})
            /\ \A p \in Through(v) : p \in pairs \/ WayRound(arcs, contracted, p[1], p[2])

LEMMA AllKept ==
    ASSUME IInv, KeptInv, pairs = {}, G.restrictions = {}
    PROVE  Kept(arcs, contracted)
<1>1. CASE order = <<>>
  <2>1. contracted = {}
    BY <1>1 DEF contracted
  <2>. QED
    BY <2>1 DEF Kept
<1>2. CASE order # <<>>
  <2>. DEFINE v == order[Len(order)]
  <2>1. v \in contracted /\ v \in Nat
    <3>1. order \in Seq(Nodes) /\ Len(order) \in DOMAIN order
      BY <1>2 DEF IInv, Shape
    <3>2. G.n \in Nat
      BY GraphFacts DEF IInv, Shape
    <3>. QED
      BY <3>1, <3>2 DEF contracted, Nodes
  <2>2. AreArcs(arcs)
    BY ArcsAreArcs DEF IInv
  <2>3. /\ Kept(arcs, contracted \ {v})
        /\ \A p \in Through(v) : WayRound(arcs, contracted, p[1], p[2])
    BY <1>2 DEF KeptInv
  <2>4. ASSUME NEW a \in DOMAIN arcs, NEW b \in DOMAIN arcs,
               arcs[a].open, arcs[a].to = v, arcs[a].from \notin contracted,
               arcs[b].open, arcs[b].from = v, arcs[b].to \notin contracted
        PROVE  WayRound(arcs, contracted, a, b)
    <3>. DEFINE p == <<a, b>>
    <3>1. p \in Through(v) /\ p[1] = a /\ p[2] = b
      BY <2>4 DEF Through
    <3>. HIDE DEF p, v
    <3>. QED
      BY <2>3, <3>1
  <2>. HIDE DEF v
  <2>. QED
    BY <2>1, <2>2, <2>3, <2>4, DoneWithout
<1>. QED
  BY <1>1, <1>2

LEMMA ContractKeepsKept ==
    ASSUME IInv, KeptInv, NEW v \in Nodes, Contract(v) PROVE KeptInv'
<1>. SUFFICES ASSUME G.restrictions = {} PROVE KeptInv'
  BY DEF Contract, KeptInv, G
<1>1. /\ arcs' = arcs /\ G' = G /\ pairs = {}
      /\ v \notin contracted
      /\ order' = Append(order, v) /\ order \in Seq(Nodes)
      /\ pairs' = {a \in Incoming(v) : arcs[a].from # v} \X {b \in Outgoing(v) : arcs[b].to # v}
  BY DEF Contract, G, IInv, Shape
<1>2. order' \in Seq(Nodes) /\ order' # <<>> /\ order'[Len(order')] = v
  BY <1>1
<1>3. contracted' = contracted \cup {v}
  <2>1. /\ DOMAIN order = 1 .. Len(order) /\ Len(order) \in Nat
        /\ DOMAIN order' = 1 .. Len(order) + 1 /\ order'[Len(order) + 1] = v
        /\ \A l \in DOMAIN order : order'[l] = order[l]
    BY <1>1
  <2>2. \A l \in DOMAIN order' : l \in DOMAIN order \/ l = Len(order) + 1
    BY <2>1
  <2>3. Len(order) + 1 \in DOMAIN order' /\ \A l \in DOMAIN order : l \in DOMAIN order'
    BY <2>1
  <2>. QED
    BY <2>1, <2>2, <2>3 DEF contracted
<1>4. contracted' \ {v} = contracted
  BY <1>1, <1>3
<1>5. Kept(arcs', contracted' \ {v})
  BY <1>1, <1>4, AllKept
<1>6. ASSUME NEW p \in Through(v)' PROVE p \in pairs'
  <2>1. /\ p \in (DOMAIN arcs) \X (DOMAIN arcs)
        /\ arcs[p[1]].open /\ arcs[p[1]].to = v /\ arcs[p[1]].from \notin contracted \cup {v}
        /\ arcs[p[2]].open /\ arcs[p[2]].from = v /\ arcs[p[2]].to \notin contracted \cup {v}
    BY <1>1, <1>3 DEF Through
  <2>2. p[1] \in Incoming(v) /\ p[2] \in Outgoing(v)
    BY <2>1 DEF Incoming, Outgoing
  <2>. QED
    BY <1>1, <2>1, <2>2
<1>. QED
  BY <1>2, <1>5, <1>6 DEF KeptInv

(* A bridge never brings nodes nearer.                                     *)
LEMMA BridgeKeepsNear ==
    ASSUME IInv, NEW p \in pairs, Bridge(p[1], p[2]), NEW closed, Kept(arcs, closed)
    PROVE  Kept(arcs', closed)
<1>. DEFINE a == p[1]
            b == p[2]
            v == order[Len(order)]
            n == Len(arcs) + 1
            new == Shortcut(v, a, b)
            B == arcs'
<1>1. AreArcs(arcs) /\ AreArcs(arcs)'
  <2>1. IInv'
    BY BridgeKeeps
  <2>2. Shape' => AreArcs(arcs)'
    BY ArcsAreArcs, PTL
  <2>. QED
    BY <2>1, <2>2, ArcsAreArcs DEF IInv
<1>2. CASE arcs' = Append(arcs, new)
  <2>1. /\ arcs \in Seq(Arc) /\ a \in DOMAIN arcs /\ b \in DOMAIN arcs
        /\ arcs[a].open /\ arcs[a].to = v /\ arcs[b].open /\ arcs[b].from = v
    BY DEF IInv, Shape, Waiting
  <2>2. /\ B[n] = new /\ \A e \in DOMAIN arcs : e \in DOMAIN B /\ B[e] = arcs[e]
        /\ \A e \in DOMAIN B : e \in DOMAIN arcs \/ e = n
    BY <1>2, <2>1
  <2>3. /\ new.from = arcs[a].from /\ new.to = arcs[b].to
        /\ new.weight = arcs[a].weight + arcs[b].weight
    BY DEF Shortcut
  <2>4. a \in ArcsOut(arcs, new.from, {}) /\ b \in ArcsOut(arcs, arcs[a].to, {})
    BY <2>1, <2>3 DEF ArcsOut
  <2>5. AreArcs(B)
    BY <1>1
  <2>. HIDE DEF new, n, B
  <2>6. \A e \in DOMAIN B :
           \/ e \in DOMAIN arcs /\ B[e] = arcs[e]
           \/ \E d \in ArcsOut(arcs, B[e].from, {}) : \E f \in ArcsOut(arcs, arcs[d].to, {}) :
                 B[e].to = arcs[f].to /\ B[e].weight = arcs[d].weight + arcs[f].weight
    BY <2>2, <2>3, <2>4
  <2>7. ASSUME NEW u \in Nat \ closed, NEW x \in Nat \ closed, NEW c \in Nat, Near(B, {}, u, x, c)
        PROVE  Near(B, closed, u, x, c)
    <3>1. Near(arcs, {}, u, x, c)
      BY <1>1, <2>5, <2>6, <2>7, NearWithShortcut
    <3>2. Near(arcs, closed, u, x, c)
      BY <3>1 DEF Kept
    <3>. QED
      BY <1>1, <2>2, <2>5, <3>2, NearWithMore
  <2>8. Kept(B, closed)
    BY <2>7 DEF Kept
  <2>. QED
    BY <2>8 DEF B
<1>. QED
  BY <1>2 DEF Bridge

LEMMA BridgeKeepsKept ==
    ASSUME IInv, KeptInv, NEW p \in pairs, Bridge(p[1], p[2]) PROVE KeptInv'
<1>. DEFINE a == p[1]
            b == p[2]
            v == order[Len(order)]
<1>. SUFFICES ASSUME G.restrictions = {} PROVE KeptInv'
  BY DEF Bridge, KeptInv, G
<1>1. /\ UNCHANGED <<req, order>> /\ G' = G /\ contracted' = contracted
      /\ pairs' = pairs \ {p}
  <2>1. p = <<p[1], p[2]>>
    BY DEF IInv, Shape
  <2>. QED
    BY <2>1 DEF Bridge, G, contracted
<1>2. /\ arcs \in Seq(Arc) /\ Len(arcs) \in Nat /\ DOMAIN arcs = 1 .. Len(arcs)
      /\ a \in DOMAIN arcs /\ b \in DOMAIN arcs /\ order # <<>> /\ G.n \in Nat
      /\ arcs[a].open /\ arcs[a].to = v /\ arcs[a].from \notin contracted
      /\ arcs[b].open /\ arcs[b].from = v /\ arcs[b].to \notin contracted
  BY GraphFacts DEF IInv, Shape, Waiting
<1>3. AreArcs(arcs) /\ AreArcs(arcs)'
  <2>1. IInv'
    BY BridgeKeeps
  <2>2. Shape' => AreArcs(arcs)'
    BY ArcsAreArcs, PTL
  <2>. QED
    BY <2>1, <2>2, ArcsAreArcs DEF IInv
<1>4. v \in contracted
  <2>1. Len(order) \in DOMAIN order
    BY <1>2 DEF IInv, Shape
  <2>. QED
    BY <2>1 DEF contracted
<1>5. /\ Kept(arcs, contracted \ {v})
      /\ \A q \in Through(v) : q \in pairs \/ WayRound(arcs, contracted, q[1], q[2])
  BY <1>2 DEF KeptInv
<1>6. arcs[a].from \in Nat /\ arcs[b].to \in Nat /\ arcs[a].weight \in Nat /\ arcs[b].weight \in Nat
  BY <1>2, <1>3 DEF AreArcs
<1>7. CASE ~(Bridgeable(v, a, b) /\ needs_shortcut(v, a, b)) /\ UNCHANGED arcs
  <2>1. WayRound(arcs, contracted, a, b)
    <3>1. CASE arcs[a].from = arcs[b].to
      <4>1. Near(arcs, contracted, arcs[a].from, arcs[b].to, 0)
        BY <1>3, <1>6, <3>1, NearGoesOn
      <4>. DEFINE x == arcs[a].from
                  y == arcs[b].to
                  c == arcs[a].weight + arcs[b].weight
      <4>2. x \in Nat /\ y \in Nat /\ c \in Nat /\ 0 <= c /\ Near(arcs, contracted, x, y, 0)
        BY <1>6, <4>1
      <4>. HIDE DEF x, y, c
      <4>3. Near(arcs, contracted, x, y, c)
        BY <1>3, <4>2, NearGoesOn
      <4>. QED
        BY <4>3 DEF WayRound, x, y, c
    <3>2. CASE HasWitness(arcs[a].from, arcs[b].to, arcs[a].weight + arcs[b].weight, v)
      <4>1. contracted \cup {v} = contracted
        BY <1>4
      <4>2. LeastAvoiding(arcs[a].from, contracted) = LeastOver(arcs, arcs[a].from, contracted)
        BY LeastWithoutTurns
      <4>. QED
        BY <3>2, <4>1, <4>2 DEF HasWitness, WayRound, Near
    <3>3. ~turn_is_banned(G, v, arcs[a].last, arcs[b].first)
      BY DEF turn_is_banned
    <3>. QED
      BY <1>7, <3>1, <3>2, <3>3 DEF Bridgeable, needs_shortcut
  <2>2. Through(v)' = Through(v)
    BY <1>1, <1>7 DEF Through
  <2>3. \A q \in Through(v) : q \in pairs' \/ WayRound(arcs, contracted, q[1], q[2])
    BY <1>1, <1>5, <2>1
  <2>4. v' = v
    BY <1>1
  <2>. HIDE DEF v
  <2>. QED
    BY <1>1, <1>5, <1>7, <2>2, <2>3, <2>4 DEF KeptInv, v
<1>8. CASE Bridgeable(v, a, b) /\ arcs' = Append(arcs, Shortcut(v, a, b))
  <2>. DEFINE new == Shortcut(v, a, b)
              n == Len(arcs) + 1
  <2>1. /\ DOMAIN arcs' = 1 .. n /\ arcs'[n] = new
        /\ \A e \in DOMAIN arcs : e \in DOMAIN arcs' /\ arcs'[e] = arcs[e]
        /\ \A e \in DOMAIN arcs' : e \in DOMAIN arcs \/ e = n
        /\ n \in DOMAIN arcs'
    BY <1>2, <1>8
  <2>2. /\ new.open /\ new.from = arcs[a].from /\ new.to = arcs[b].to
        /\ new.weight = arcs[a].weight + arcs[b].weight
    BY DEF Shortcut
  <2>. HIDE DEF new, n
  <2>3. Kept(arcs', contracted \ {v})
    BY <1>5, BridgeKeepsNear
  <2>4. ASSUME NEW q \in Through(v)' PROVE q \in pairs' \/ WayRound(arcs', contracted', q[1], q[2])
    <3>1. v' = v
      BY <1>1
    <3>2. /\ q \in (DOMAIN arcs') \X (DOMAIN arcs')
          /\ arcs'[q[1]].open /\ arcs'[q[1]].to = v /\ arcs'[q[1]].from \notin contracted
          /\ arcs'[q[2]].open /\ arcs'[q[2]].from = v /\ arcs'[q[2]].to \notin contracted
      BY <1>1, <3>1 DEF Through
    <3>3. q[1] # n /\ q[2] # n
      BY <1>2, <1>4, <2>1, <2>2, <3>2
    <3>4. q[1] \in DOMAIN arcs /\ q[2] \in DOMAIN arcs
          /\ arcs'[q[1]] = arcs[q[1]] /\ arcs'[q[2]] = arcs[q[2]]
      BY <2>1, <3>2, <3>3
    <3>5. q \in Through(v)
      BY <3>2, <3>4 DEF Through
    <3>6. CASE q = p
      <4>. DEFINE B == arcs'
                  u == arcs[a].from
                  y == arcs[b].to
                  c == arcs[a].weight + arcs[b].weight
      <4>1. n \in ArcsOut(B, u, contracted) /\ B[n].to = y /\ B[n].weight = c
        BY <1>2, <2>1, <2>2 DEF ArcsOut
      <4>2. AreArcs(B) /\ u \in Nat /\ c \in Nat /\ 0 + c = c
        BY <1>3, <1>6
      <4>. HIDE DEF B, u, y, c
      <4>3. Near(B, contracted, u, y, c)
        BY <4>1, <4>2, NearGoesOn
      <4>. QED
        BY <1>1, <3>4, <3>6, <4>3 DEF WayRound, B, u, y, c
    <3>7. CASE q # p /\ WayRound(arcs, contracted, q[1], q[2])
      <4>. DEFINE B == arcs'
                  u == arcs[q[1]].from
                  y == arcs[q[2]].to
                  c == arcs[q[1]].weight + arcs[q[2]].weight
      <4>1. /\ AreArcs(B) /\ u \in Nat /\ y \in Nat /\ c \in Nat
            /\ \A e \in DOMAIN arcs : e \in DOMAIN B /\ B[e] = arcs[e]
        <5>1. /\ u \in Nat /\ y \in Nat
              /\ arcs[q[1]].weight \in Nat /\ arcs[q[2]].weight \in Nat
          BY <1>3, <3>4 DEF AreArcs
        <5>2. c \in Nat
          BY <5>1
        <5>3. AreArcs(B)
          BY <1>3
        <5>. QED
          BY <2>1, <5>1, <5>2, <5>3
      <4>2. Near(arcs, contracted, u, y, c)
        BY <3>7 DEF WayRound
      <4>. HIDE DEF B, u, y, c
      <4>3. Near(B, contracted, u, y, c)
        BY <1>3, <4>1, <4>2, NearWithMore
      <4>. QED
        BY <1>1, <3>4, <4>3 DEF WayRound, B, u, y, c
    <3>. QED
      BY <1>1, <1>5, <3>5, <3>6, <3>7
  <2>5. v' = v
    BY <1>1
  <2>. HIDE DEF v
  <2>. QED
    BY <1>1, <2>3, <2>4, <2>5 DEF KeptInv, v
<1>. QED
  BY <1>7, <1>8 DEF Bridge

LEMMA KeptInvStep == IInv /\ KeptInv /\ [Next]_vars => KeptInv'
<1>. SUFFICES ASSUME IInv, KeptInv, [Next]_vars PROVE KeptInv'
  OBVIOUS
<1>1. ASSUME NEW v \in Nodes, Contract(v) PROVE KeptInv'
  BY <1>1, ContractKeepsKept
<1>2. ASSUME NEW p \in pairs, Bridge(p[1], p[2]) PROVE KeptInv'
  BY <1>2, BridgeKeepsKept
<1>3. CASE UNCHANGED buildVars
  <2>1. UNCHANGED <<req, arcs, order, pairs>>
    BY <1>3 DEF buildVars
  <2>2. contracted' = contracted
    BY <2>1 DEF contracted
  <2>3. G.restrictions' = G.restrictions
    BY <2>1 DEF G
  <2>4. \A v : Through(v)' = Through(v)
    BY <2>1, <2>2 DEF Through
  <2>. QED
    BY <2>1, <2>2, <2>3, <2>4 DEF KeptInv
<1>4. BuildNext \/ UNCHANGED buildVars
  BY DEF Next, Build, RejectNode, AskForNothing, Ask, Drop, Settle, Rest, Check, Answer, vars
<1>. QED
  BY <1>1, <1>2, <1>3, <1>4 DEF BuildNext, Nodes

(* Sets of naturals of which one is below c whenever one of the other is   *)
(* have the same least element.                                            *)
LEMMA SameMin ==
    ASSUME NEW C \in SUBSET Nat, NEW D \in SUBSET Nat,
           \A c \in Nat : (\E x \in C : x <= c) <=> (\E x \in D : x <= c)
    PROVE  /\ C = {} <=> D = {}
           /\ C # {} => Min(C) = Min(D)
<1>1. C = {} <=> D = {}
  <2>1. ASSUME NEW c \in C PROVE D # {}
    OBVIOUS
  <2>2. ASSUME NEW c \in D PROVE C # {}
    OBVIOUS
  <2>. QED
    BY <2>1, <2>2
<1>2. ASSUME NEW X \in SUBSET Nat, X # {} PROVE Min(X) \in X /\ \A x \in X : Min(X) <= x
  <2>1. \E m \in X : \A x \in X : m <= x
    BY <1>2, LeastNatural
  <2>. QED
    BY <2>1 DEF Min
<1>3. ASSUME C # {} PROVE Min(C) = Min(D)
  <2>1. /\ Min(C) \in C /\ \A x \in C : Min(C) <= x
        /\ Min(D) \in D /\ \A x \in D : Min(D) <= x
    BY <1>1, <1>2, <1>3
  <2>. DEFINE m == Min(C)
              k == Min(D)
  <2>2. m \in C /\ k \in D /\ m \in Nat /\ k \in Nat
    BY <2>1
  <2>3. (\E x \in C : x <= k) /\ (\E x \in D : x <= m)
    BY <2>2
  <2>. QED
    BY <2>1, <2>2, <2>3
<1>. QED
  BY <1>1, <1>3

(* For every road graph without turn restrictions, whatever node is        *)
(* contracted next and whatever witness searches find: once all pairs of   *)
(* a node have had their turn, the distances between the nodes that remain *)
(* are those of the whole hierarchy.                                       *)
THEOREM ContractionKeepsDistances == Spec => []DistancesKept
<1>1. IInv /\ KeptInv => DistancesKept
  <2>. DEFINE rest == (0 .. G.n - 1) \ contracted
  <2>. SUFFICES ASSUME IInv, KeptInv, pairs = {}, G.restrictions = {}, NEW u \in rest, NEW w \in rest
                PROVE  CostsWithin(rest, u, w) = CostsWithin(0 .. G.n - 1, u, w)
    BY DEF DistancesKept
  <2>1. /\ u \in Nat \ contracted /\ w \in Nat \ contracted
        /\ (0 .. G.n - 1) \ rest = contracted /\ (0 .. G.n - 1) \ (0 .. G.n - 1) = {}
    BY ContractedFacts DEF IInv, Nodes
  <2>2. Kept(arcs, contracted) /\ AreArcs(arcs)
    BY AllKept, ArcsAreArcs DEF IInv
  <2>. DEFINE Costs(closed) ==
                 {LeastOver(arcs, u, closed)[k] :
                     k \in {l \in DOMAIN LeastOver(arcs, u, closed) : l[1] = w}}
  <2>3. \A closed : LeastAvoiding(u, closed) = LeastOver(arcs, u, closed)
    BY LeastWithoutTurns
  <2>4. /\ CostsWithin(rest, u, w) = IF Costs(contracted) = {} THEN {} ELSE {Min(Costs(contracted))}
        /\ CostsWithin(0 .. G.n - 1, u, w) = IF Costs({}) = {} THEN {} ELSE {Min(Costs({}))}
    BY <2>1, <2>3 DEF CostsWithin
  <2>5. ASSUME NEW closed
        PROVE  /\ Costs(closed) \in SUBSET Nat
               /\ \A c : Near(arcs, closed, u, w, c) <=> \E x \in Costs(closed) : x <= c
    <3>. DEFINE least == LeastOver(arcs, u, closed)
    <3>1. \A k \in DOMAIN least : least[k] \in Nat
      <4>1. /\ AreRoads(Start(u), ArcNetwork(arcs, u, closed))
            /\ IsFiniteSet(DOMAIN ArcNetwork(arcs, u, closed))
        BY <2>1, <2>2, ArcNetworkIsNetwork
      <4>2. least = LeastCostsOver(Start(u), ArcNetwork(arcs, u, closed))
        BY DEF LeastOver
      <4>. QED
        BY <4>1, <4>2, LeastCostsSolve
    <3>. QED
      BY <3>1 DEF Near
  <2>6. \A c \in Nat : Near(arcs, {}, u, w, c) <=> Near(arcs, contracted, u, w, c)
    <3>1. ASSUME NEW c \in Nat, Near(arcs, {}, u, w, c) PROVE Near(arcs, contracted, u, w, c)
      BY <2>1, <2>2, <3>1 DEF Kept
    <3>2. ASSUME NEW c \in Nat, Near(arcs, contracted, u, w, c) PROVE Near(arcs, {}, u, w, c)
      BY <2>1, <2>2, <3>2, NearWithMore
    <3>. QED
      BY <3>1, <3>2
  <2>. HIDE DEF Costs
  <2>7. /\ Costs({}) = {} <=> Costs(contracted) = {}
        /\ Costs({}) # {} => Min(Costs({})) = Min(Costs(contracted))
    BY <2>5, <2>6, SameMin
  <2>. QED
    BY <2>4, <2>7
<1>2. Init => KeptInv
  BY DEF Init, BuildInit, KeptInv
<1>. QED
  BY <1>1, <1>2, HierarchyInvariant, KeptInvStep, PTL DEF Spec

-----------------------------------------------------------------------------
(* A quickest drive climbs and then falls.                                 *)

(* Without turn restrictions a quickest drive can climb first: from each   *)
(* end over arcs to nodes contracted later, to where the two ways meet.    *)

(* The first step of a way that leads elsewhere ...                        *)
LEMMA FirstStep ==
    ASSUME NEW A, AreArcs(A), NEW closed, NEW v \in Nat, NEW w \in Nat, w # v,
           NEW c \in Nat, Near(A, closed, v, w, c)
    PROVE  \E e \in ArcsOut(A, v, closed) :
              /\ A[e].to # v
              /\ \E d \in Nat : Near(A, closed, A[e].to, w, d) /\ A[e].weight + d <= c
<1>. DEFINE Beyond(x, f) == \E e \in ArcsOut(A, v, closed) :
                               /\ A[e].to # v
                               /\ \E d \in Nat : /\ Near(A, closed, A[e].to, x, d)
                                                 /\ A[e].weight + d <= f
            S == {p \in Nat \X Nat : p[1] = v \/ Beyond(p[1], p[2])}
<1>1. <<v, 0>> \in S
  OBVIOUS
<1>2. ASSUME NEW z \in Nat, NEW f \in Nat, NEW e \in ArcsOut(A, z, closed), <<z, f>> \in S
      PROVE  <<A[e].to, f + A[e].weight>> \in S
  <2>1. /\ A[e].to \in Nat /\ A[e].weight \in Nat /\ f + A[e].weight \in Nat
        /\ A[e].weight + 0 <= f + A[e].weight
    BY DEF ArcsOut, AreArcs
  <2>2. CASE z = v /\ A[e].to # v
    <3>1. Near(A, closed, A[e].to, A[e].to, 0)
      BY <2>1, NearGoesOn
    <3>2. Beyond(A[e].to, f + A[e].weight)
      BY <2>1, <2>2, <3>1
    <3>. QED
      BY <2>1, <3>2
  <2>3. CASE z # v
    <3>1. Beyond(z, f)
      BY <1>2, <2>3
    <3>2. PICK a \in ArcsOut(A, v, closed) :
             /\ A[a].to # v
             /\ \E d \in Nat : Near(A, closed, A[a].to, z, d) /\ A[a].weight + d <= f
      BY <3>1
    <3>3. PICK d \in Nat : Near(A, closed, A[a].to, z, d) /\ A[a].weight + d <= f
      BY <3>2
    <3>4. A[a].to \in Nat /\ A[a].weight \in Nat
      BY DEF ArcsOut, AreArcs
    <3>5. Near(A, closed, A[a].to, A[e].to, d + A[e].weight)
      BY <3>3, <3>4, NearGoesOn
    <3>6. d + A[e].weight \in Nat /\ A[a].weight + (d + A[e].weight) <= f + A[e].weight
      BY <2>1, <3>3, <3>4
    <3>7. Beyond(A[e].to, f + A[e].weight)
      BY <3>2, <3>5, <3>6
    <3>. QED
      BY <2>1, <3>7
  <2>4. CASE A[e].to = v
    BY <2>1, <2>4
  <2>. QED
    BY <2>2, <2>3, <2>4
<1>. HIDE DEF Beyond
<1>3. \A x, f : <<x, f>> \in S => f \in Nat /\ (x = v \/ Beyond(x, f))
  OBVIOUS
<1>. HIDE DEF S
<1>4. PICK f \in Nat : f <= c /\ <<w, f>> \in S
  BY <1>1, <1>2, NearByDriving
<1>5. PICK e \in ArcsOut(A, v, closed) :
         /\ A[e].to # v
         /\ \E d \in Nat : Near(A, closed, A[e].to, w, d) /\ A[e].weight + d <= f
  BY <1>3, <1>4 DEF Beyond
<1>6. PICK d \in Nat : Near(A, closed, A[e].to, w, d) /\ A[e].weight + d <= f
  BY <1>5
<1>7. A[e].weight \in Nat
  BY DEF ArcsOut, AreArcs
<1>8. A[e].weight + d <= c
  BY <1>4, <1>6, <1>7
<1>. QED
  BY <1>5, <1>6, <1>8

(* ... and the last one.                                                   *)
LEMMA LastStep ==
    ASSUME NEW A, AreArcs(A), NEW closed, NEW v \in Nat, NEW w \in Nat, w # v,
           NEW c \in Nat, Near(A, closed, v, w, c)
    PROVE  \E e \in DOMAIN A :
              /\ A[e].open /\ A[e].to = w /\ A[e].from # w
              /\ A[e].from = v \/ A[e].from \notin closed
              /\ \E d \in Nat : Near(A, closed, v, A[e].from, d) /\ d + A[e].weight <= c
<1>. DEFINE Entered(f) == \E e \in DOMAIN A :
                            /\ A[e].open /\ A[e].to = w /\ A[e].from # w
                            /\ A[e].from = v \/ A[e].from \notin closed
                            /\ \E d \in Nat : /\ Near(A, closed, v, A[e].from, d)
                                              /\ d + A[e].weight <= f
            S == {p \in Nat \X Nat : /\ Near(A, closed, v, p[1], p[2])
                                     /\ p[1] = v \/ p[1] \notin closed
                                     /\ p[1] = w => Entered(p[2])}
<1>1. <<v, 0>> \in S
  BY NearGoesOn
<1>2. ASSUME NEW z \in Nat, NEW f \in Nat, NEW e \in ArcsOut(A, z, closed), <<z, f>> \in S
      PROVE  <<A[e].to, f + A[e].weight>> \in S
  <2>1. /\ A[e].to \in Nat /\ A[e].weight \in Nat /\ f + A[e].weight \in Nat
        /\ f <= f + A[e].weight
        /\ e \in DOMAIN A /\ A[e].open /\ A[e].from = z /\ A[e].to \notin closed
    BY DEF ArcsOut, AreArcs
  <2>2. Near(A, closed, v, z, f) /\ (z = v \/ z \notin closed) /\ (z = w => Entered(f))
    BY <1>2
  <2>3. Near(A, closed, v, A[e].to, f + A[e].weight)
    BY <2>2, NearGoesOn
  <2>4. ASSUME A[e].to = w PROVE Entered(f + A[e].weight)
    <3>1. CASE z = w
      <4>1. PICK a \in DOMAIN A :
               /\ A[a].open /\ A[a].to = w /\ A[a].from # w
               /\ A[a].from = v \/ A[a].from \notin closed
               /\ \E d \in Nat : Near(A, closed, v, A[a].from, d) /\ d + A[a].weight <= f
        BY <2>2, <3>1
      <4>2. PICK d \in Nat : Near(A, closed, v, A[a].from, d) /\ d + A[a].weight <= f
        BY <4>1
      <4>3. A[a].weight \in Nat
        BY DEF AreArcs
      <4>4. d + A[a].weight <= f + A[e].weight
        BY <2>1, <4>2, <4>3
      <4>. QED
        BY <4>1, <4>2, <4>4
    <3>2. CASE z # w
      <4>1. f + A[e].weight <= f + A[e].weight
        BY <2>1
      <4>. QED
        BY <2>1, <2>2, <2>4, <3>2, <4>1
    <3>. QED
      BY <3>1, <3>2
  <2>. HIDE DEF Entered
  <2>. QED
    BY <2>1, <2>3, <2>4
<1>. HIDE DEF Entered
<1>3. \A x, f : <<x, f>> \in S => f \in Nat /\ (x = w => Entered(f))
  OBVIOUS
<1>. HIDE DEF S
<1>4. PICK f \in Nat : f <= c /\ <<w, f>> \in S
  BY <1>1, <1>2, NearByDriving
<1>5. PICK e \in DOMAIN A :
         /\ A[e].open /\ A[e].to = w /\ A[e].from # w
         /\ A[e].from = v \/ A[e].from \notin closed
         /\ \E d \in Nat : Near(A, closed, v, A[e].from, d) /\ d + A[e].weight <= f
  BY <1>3, <1>4 DEF Entered
<1>6. PICK d \in Nat : Near(A, closed, v, A[e].from, d) /\ d + A[e].weight <= f
  BY <1>5
<1>7. A[e].weight \in Nat
  BY DEF AreArcs
<1>8. d + A[e].weight <= c
  BY <1>4, <1>6, <1>7
<1>. QED
  BY <1>5, <1>6, <1>8

(* r ranks the nodes in the order they are contracted.                     *)
Climbers(A, r) == {e \in DOMAIN A : r[A[e].from] <= r[A[e].to]}
Fallers(A, r)  == {e \in DOMAIN A : r[A[e].to] <= r[A[e].from]}

(* The arcs a search from the source goes by, and from the target.         *)
Up(A, r) == [e \in Climbers(A, r) |-> A[e]]
Down(A, r) ==
    [e \in Fallers(A, r) |->
        [from |-> A[e].to, to |-> A[e].from, last |-> A[e].first,
         weight |-> A[e].weight, open |-> A[e].open]]

Lower(r, k) == {x \in DOMAIN r : r[x] <= k}

(* A way from u and a way from w that climb to one node and are together   *)
(* no longer than c.                                                       *)
Over(A, r, u, w, c) ==
    \E m \in DOMAIN r, a \in Nat, b \in Nat :
        Near(Up(A, r), {}, u, m, a) /\ Near(Down(A, r), {}, w, m, b) /\ a + b <= c

Ranked(A, r, n) ==
    /\ n \in Nat /\ r \in [DOMAIN r -> 1 .. n] /\ DOMAIN r \subseteq Nat
    /\ \A x, y \in DOMAIN r : r[x] = r[y] => x = y
    /\ \A e \in DOMAIN A : /\ A[e].from \in DOMAIN r /\ A[e].to \in DOMAIN r
                           /\ A[e].first \in Nat

LEMMA SidesAreArcs ==
    ASSUME NEW A, AreArcs(A), NEW r, NEW n, Ranked(A, r, n)
    PROVE  AreArcs(Up(A, r)) /\ AreArcs(Down(A, r))
<1>1. /\ IsFiniteSet(DOMAIN A)
      /\ \A e \in DOMAIN A : /\ A[e].from \in Nat /\ A[e].to \in Nat /\ A[e].first \in Nat
                             /\ A[e].last \in Nat /\ A[e].weight \in Nat
  BY DEF AreArcs, Ranked
<1>2. IsFiniteSet(Climbers(A, r)) /\ IsFiniteSet(Fallers(A, r))
  BY <1>1, FS_Subset DEF Climbers, Fallers
<1>3. AreArcs(Up(A, r))
  <2>1. DOMAIN Up(A, r) = Climbers(A, r) /\ \A e \in Climbers(A, r) : Up(A, r)[e] = A[e] /\ e \in DOMAIN A
    BY DEF Up, Climbers
  <2>. QED
    BY <1>1, <1>2, <2>1 DEF AreArcs
<1>4. AreArcs(Down(A, r))
  <2>1. /\ DOMAIN Down(A, r) = Fallers(A, r)
        /\ \A e \in Fallers(A, r) :
              /\ e \in DOMAIN A
              /\ Down(A, r)[e].from = A[e].to /\ Down(A, r)[e].to = A[e].from
              /\ Down(A, r)[e].last = A[e].first /\ Down(A, r)[e].weight = A[e].weight
    BY DEF Down, Fallers
  <2>. QED
    BY <1>1, <1>2, <2>1 DEF AreArcs
<1>. QED
  BY <1>3, <1>4

LEMMA UpAndDown ==
    ASSUME NEW A, AreArcs(A), NEW r, NEW n, Ranked(A, r, n),
           \A k \in 0 .. n - 1 : Kept(A, Lower(r, k))
    PROVE  \A u, w \in DOMAIN r, c \in Nat : Near(A, {}, u, w, c) => Over(A, r, u, w, c)
<1>. DEFINE N == DOMAIN r
            U == Up(A, r)
            D == Down(A, r)
            Fine(k) == \A u, w \in N, c \in Nat :
                          r[u] > k /\ r[w] > k /\ Near(A, {}, u, w, c) => Over(A, r, u, w, c)
            T == {k \in Nat : k <= n => Fine(n - k)}
<1>1. /\ n \in Nat /\ N \subseteq Nat /\ \A x \in N : r[x] \in Nat /\ r[x] <= n /\ 1 <= r[x]
      /\ \A x, y \in N : r[x] = r[y] => x = y
      /\ \A e \in DOMAIN A : A[e].from \in N /\ A[e].to \in N
      /\ \A e \in DOMAIN A : A[e].weight \in Nat
  BY DEF Ranked, AreArcs
<1>2. AreArcs(U) /\ AreArcs(D)
  BY SidesAreArcs
<1>3. /\ \A e \in DOMAIN A : A[e].open /\ r[A[e].from] <= r[A[e].to]
             => e \in ArcsOut(U, A[e].from, {}) /\ U[e].to = A[e].to /\ U[e].weight = A[e].weight
      /\ \A e \in DOMAIN A : A[e].open /\ r[A[e].to] <= r[A[e].from]
             => e \in ArcsOut(D, A[e].to, {}) /\ D[e].to = A[e].from /\ D[e].weight = A[e].weight
  BY DEF ArcsOut, Up, Down, Climbers, Fallers
<1>4. \A u, w, c : Over(A, r, u, w, c) <=>
          \E m \in N, a \in Nat, b \in Nat : Near(U, {}, u, m, a) /\ Near(D, {}, w, m, b) /\ a + b <= c
  BY DEF Over
<1>. HIDE DEF U, D
<1>5. 0 \in T
  <2>1. \A u \in N : ~(r[u] > n)
    BY <1>1
  <2>. QED
    BY <1>1, <2>1
<1>6. ASSUME NEW k \in Nat, k \in T PROVE k + 1 \in T
  <2>. SUFFICES ASSUME k + 1 <= n PROVE Fine(n - (k + 1))
    OBVIOUS
  <2>1. PICK j \in 0 .. n - 1 : j = n - (k + 1)
    BY <1>1
  <2>2. Fine(j + 1)
    <3>1. n - k = j + 1 /\ k <= n
      BY <1>1, <2>1
    <3>. QED
      BY <1>6, <3>1
  <2>3. Kept(A, Lower(r, j)) /\ \A x \in N : x \notin Lower(r, j) <=> r[x] > j
    BY <1>1 DEF Lower
  <2>. SUFFICES ASSUME NEW u \in N, NEW w \in N, NEW c \in Nat, r[u] > j, r[w] > j, Near(A, {}, u, w, c)
                PROVE  Over(A, r, u, w, c)
    BY <2>1
  <2>. HIDE DEF Fine
  <2>4. u \in Nat /\ w \in Nat /\ Near(A, Lower(r, j), u, w, c)
    BY <1>1, <2>3 DEF Kept
  <2>5. \A x, d : Near(A, Lower(r, j), u, x, d) /\ x \in Nat /\ d \in Nat => Near(A, {}, u, x, d)
    BY <2>4, NearWithMore
  <2>6. CASE u = w
    <3>1. Near(U, {}, u, u, 0) /\ Near(D, {}, w, u, 0)
      BY <1>2, <2>4, <2>6, NearGoesOn
    <3>2. 0 + 0 <= c /\ 0 \in Nat
      OBVIOUS
    <3>. QED
      BY <1>4, <3>1, <3>2
  <2>7. CASE u # w /\ r[u] = j + 1
    <3>1. PICK e \in ArcsOut(A, u, Lower(r, j)) :
             /\ A[e].to # u
             /\ \E d \in Nat : Near(A, Lower(r, j), A[e].to, w, d) /\ A[e].weight + d <= c
      BY <2>4, <2>7, FirstStep
    <3>2. PICK d \in Nat : Near(A, Lower(r, j), A[e].to, w, d) /\ A[e].weight + d <= c
      BY <3>1
    <3>. DEFINE y == A[e].to
                h == A[e].weight
    <3>3. /\ e \in DOMAIN A /\ A[e].open /\ A[e].from = u /\ y \notin Lower(r, j)
          /\ y \in N /\ y \in Nat /\ h \in Nat /\ h + d <= c
      BY <1>1, <3>2 DEF ArcsOut
    <3>4. r[y] > j + 1 /\ r[w] > j + 1
      <4>1. r[y] > j /\ r[y] # r[u] /\ r[w] # r[u]
        BY <1>1, <2>3, <2>7, <3>1, <3>3
      <4>. QED
        BY <1>1, <2>7, <3>3, <4>1
    <3>5. Near(A, {}, y, w, d)
      BY <2>4, <3>2, <3>3, NearWithMore
    <3>6. Over(A, r, y, w, d)
      BY <2>2, <3>3, <3>4, <3>5 DEF Fine
    <3>7. PICK m \in N, a \in Nat, b \in Nat :
             Near(U, {}, y, m, a) /\ Near(D, {}, w, m, b) /\ a + b <= d
      BY <1>4, <3>6
    <3>8. Near(U, {}, u, y, h)
      <4>1. r[u] <= r[y]
        BY <1>1, <2>7, <3>3, <3>4
      <4>2. e \in ArcsOut(U, u, {}) /\ U[e].to = y /\ U[e].weight = h
        BY <1>3, <3>3, <4>1
      <4>3. Near(U, {}, u, u, 0) /\ 0 + h = h
        BY <1>2, <2>4, <3>3, NearGoesOn
      <4>. HIDE DEF y, h
      <4>4. Near(U, {}, u, U[e].to, 0 + U[e].weight)
        BY <1>2, <2>4, <4>2, <4>3, NearGoesOn
      <4>. QED
        BY <4>2, <4>3, <4>4
    <3>. HIDE DEF y, h
    <3>9. Near(U, {}, u, m, h + a)
      BY <1>1, <1>2, <2>4, <3>3, <3>7, <3>8, NearTriangle
    <3>10. h + a \in Nat /\ (h + a) + b <= c
      BY <3>3, <3>7
    <3>. QED
      BY <1>4, <3>7, <3>9, <3>10
  <2>8. CASE u # w /\ r[w] = j + 1
    <3>1. PICK e \in DOMAIN A :
             /\ A[e].open /\ A[e].to = w /\ A[e].from # w
             /\ A[e].from = u \/ A[e].from \notin Lower(r, j)
             /\ \E d \in Nat : Near(A, Lower(r, j), u, A[e].from, d) /\ d + A[e].weight <= c
      BY <2>4, <2>8, LastStep
    <3>2. PICK d \in Nat : Near(A, Lower(r, j), u, A[e].from, d) /\ d + A[e].weight <= c
      BY <3>1
    <3>. DEFINE y == A[e].from
                h == A[e].weight
    <3>3. /\ y \notin Lower(r, j) /\ y \in N /\ y \in Nat /\ h \in Nat /\ d + h <= c
      BY <1>1, <2>3, <3>1, <3>2
    <3>4. r[y] > j + 1 /\ r[u] > j + 1
      <4>1. r[y] > j /\ r[y] # r[w] /\ r[u] # r[w]
        BY <1>1, <2>3, <2>8, <3>1, <3>3
      <4>. QED
        BY <1>1, <2>8, <3>3, <4>1
    <3>5. Near(A, {}, u, y, d)
      BY <2>4, <3>2, <3>3, NearWithMore
    <3>6. Over(A, r, u, y, d)
      BY <2>2, <3>3, <3>4, <3>5 DEF Fine
    <3>7. PICK m \in N, a \in Nat, b \in Nat :
             Near(U, {}, u, m, a) /\ Near(D, {}, y, m, b) /\ a + b <= d
      BY <1>4, <3>6
    <3>8. Near(D, {}, w, y, h)
      <4>1. r[w] <= r[y]
        BY <1>1, <2>8, <3>3, <3>4
      <4>2. e \in ArcsOut(D, w, {}) /\ D[e].to = y /\ D[e].weight = h
        BY <1>3, <3>1, <4>1
      <4>3. Near(D, {}, w, w, 0) /\ 0 + h = h
        BY <1>2, <2>4, <3>3, NearGoesOn
      <4>. HIDE DEF y, h
      <4>4. Near(D, {}, w, D[e].to, 0 + D[e].weight)
        BY <1>2, <2>4, <4>2, <4>3, NearGoesOn
      <4>. QED
        BY <4>2, <4>3, <4>4
    <3>. HIDE DEF y, h
    <3>9. Near(D, {}, w, m, h + b)
      BY <1>1, <1>2, <2>4, <3>3, <3>7, <3>8, NearTriangle
    <3>10. h + b \in Nat /\ a + (h + b) <= c
      BY <3>3, <3>7
    <3>. QED
      BY <1>4, <3>7, <3>9, <3>10
  <2>9. CASE r[u] # j + 1 /\ r[w] # j + 1
    <3>1. r[u] > j + 1 /\ r[w] > j + 1
      BY <1>1, <2>9
    <3>. QED
      BY <2>2, <3>1 DEF Fine
  <2>. QED
    BY <2>6, <2>7, <2>8, <2>9
<1>7. n \in T
  <2>. HIDE DEF T
  <2>1. Nat \subseteq T
    BY <1>5, <1>6, InductionOverNat
  <2>. QED
    BY <1>1, <2>1
<1>8. Fine(0)
  <2>1. n - n = 0 /\ n <= n
    BY <1>1
  <2>. HIDE DEF Fine
  <2>2. Fine(n - n)
    BY <1>7, <2>1
  <2>. QED
    BY <2>1, <2>2
<1>. QED
  BY <1>1, <1>8

-----------------------------------------------------------------------------
(* The hierarchy in the order its nodes were contracted.                   *)

(* The k nodes contracted first.                                           *)
First(k) == {order[l] : l \in 1 .. k}

KeptBefore ==
    G.restrictions = {} => \A k \in 0 .. Len(order) - 1 : Kept(arcs, First(k))

LEMMA ContractKeepsBefore ==
    ASSUME IInv, KeptInv, KeptBefore, NEW v \in Nodes, Contract(v) PROVE KeptBefore'
<1>. SUFFICES ASSUME G.restrictions = {} PROVE KeptBefore'
  BY DEF Contract, KeptBefore, G
<1>1. arcs' = arcs /\ pairs = {} /\ order' = Append(order, v) /\ order \in Seq(Nodes)
  BY DEF Contract, IInv, Shape
<1>2. /\ DOMAIN order = 1 .. Len(order) /\ Len(order) \in Nat
      /\ Len(order') = Len(order) + 1 /\ \A l \in DOMAIN order : order'[l] = order[l]
  BY <1>1
<1>3. ASSUME NEW k \in 0 .. Len(order) PROVE First(k)' = First(k)
  <2>1. \A l \in 1 .. k : order'[l] = order[l]
    BY <1>2
  <2>. QED
    BY <2>1 DEF First
<1>4. First(Len(order)) = contracted
  BY <1>2 DEF First, contracted
<1>5. ASSUME NEW k \in 0 .. Len(order) PROVE Kept(arcs', First(k)')
  <2>1. CASE k = Len(order)
    BY <1>1, <1>3, <1>4, <2>1, AllKept
  <2>2. CASE k # Len(order)
    <3>1. k \in 0 .. Len(order) - 1
      BY <1>2, <2>2
    <3>. QED
      BY <1>1, <1>3, <3>1 DEF KeptBefore
  <2>. QED
    BY <2>1, <2>2
<1>6. (Len(order) + 1) - 1 = Len(order)
  BY <1>2
<1>. QED
  BY <1>2, <1>5, <1>6 DEF KeptBefore

LEMMA KeptBeforeStep == IInv /\ KeptInv /\ KeptBefore /\ [Next]_vars => KeptBefore'
<1>. SUFFICES ASSUME IInv, KeptInv, KeptBefore, [Next]_vars PROVE KeptBefore'
  OBVIOUS
<1>1. ASSUME NEW v \in Nodes, Contract(v) PROVE KeptBefore'
  BY <1>1, ContractKeepsBefore
<1>2. ASSUME NEW p \in pairs, Bridge(p[1], p[2]) PROVE KeptBefore'
  <2>1. order' = order /\ G' = G
    BY <1>2 DEF Bridge, G
  <2>2. \A k : First(k)' = First(k)
    BY <2>1 DEF First
  <2>3. \A closed : Kept(arcs, closed) => Kept(arcs', closed)
    BY <1>2, BridgeKeepsNear
  <2>. QED
    BY <2>1, <2>2, <2>3 DEF KeptBefore
<1>3. CASE UNCHANGED buildVars
  <2>1. UNCHANGED <<req, arcs, order, pairs>>
    BY <1>3 DEF buildVars
  <2>2. G.restrictions' = G.restrictions /\ \A k : First(k)' = First(k)
    BY <2>1 DEF G, First
  <2>. QED
    BY <2>1, <2>2 DEF KeptBefore
<1>4. BuildNext \/ UNCHANGED buildVars
  BY DEF Next, Build, RejectNode, AskForNothing, Ask, Drop, Settle, Rest, Check, Answer, vars
<1>. QED
  BY <1>1, <1>2, <1>3, <1>4 DEF BuildNext, Nodes

(* In a hierarchy that is built, every way can be driven over a node to    *)
(* which it climbs and from which it falls.                                *)
RankOf == [v \in Nodes |-> CHOOSE l \in DOMAIN order : order[l] = v]

LEMMA RankIsPlace ==
    ASSUME IInv, Built, NEW v \in Nodes
    PROVE  RankOf[v] \in DOMAIN order /\ order[RankOf[v]] = v
<1>1. /\ order \in Seq(Nodes) /\ Len(order) = G.n /\ DOMAIN order = 1 .. G.n /\ G.n \in Nat
      /\ \A k, l \in DOMAIN order : order[k] = order[l] => k = l
      /\ Nodes \subseteq Nat
      /\ \A l \in DOMAIN order : order[l] \in Nodes
  BY GraphFacts DEF IInv, Shape, Built, Nodes
<1>2. contracted = Nodes
  <2>1. contracted \subseteq Nodes /\ Cardinality(contracted) = G.n
    BY <1>1, ContractedFacts DEF IInv, Shape
  <2>2. IsFiniteSet(Nodes) /\ Cardinality(Nodes) = G.n
    <3>1. PICK n \in Nat : n = G.n
      BY <1>1
    <3>2. IsFiniteSet(0 .. n - 1) /\ Cardinality(0 .. n - 1) = n
      <4>1. (IF 0 > n - 1 THEN 0 ELSE (n - 1) - 0 + 1) = n /\ 0 \in Int /\ n - 1 \in Int
        OBVIOUS
      <4>. QED
        BY <4>1, FS_Interval
    <3>. QED
      BY <3>1, <3>2 DEF Nodes
  <2>. QED
    BY <2>1, <2>2, FS_Subset
<1>3. \E l \in DOMAIN order : order[l] = v
  BY <1>2 DEF contracted
<1>. QED
  BY <1>3 DEF RankOf

LEMMA RanksOfNodes ==
    ASSUME IInv, Built
    PROVE  /\ Ranked(arcs, RankOf, G.n) /\ DOMAIN RankOf = Nodes
           /\ \A k \in 0 .. G.n - 1 : Lower(RankOf, k) = First(k)
<1>1. /\ order \in Seq(Nodes) /\ Len(order) = G.n /\ DOMAIN order = 1 .. G.n /\ G.n \in Nat
      /\ \A k, l \in DOMAIN order : order[k] = order[l] => k = l
      /\ Nodes \subseteq Nat
      /\ \A l \in DOMAIN order : order[l] \in Nodes
  BY GraphFacts DEF IInv, Shape, Built, Nodes
<1>3. ASSUME NEW v \in Nodes PROVE RankOf[v] \in DOMAIN order /\ order[RankOf[v]] = v
  BY RankIsPlace
<1>4. DOMAIN RankOf = Nodes /\ RankOf \in [Nodes -> 1 .. G.n]
  BY <1>1, <1>3 DEF RankOf
<1>5. \A x, y \in Nodes : RankOf[x] = RankOf[y] => x = y
  BY <1>3
<1>6. ASSUME NEW e \in DOMAIN arcs
      PROVE  arcs[e].from \in Nodes /\ arcs[e].to \in Nodes /\ arcs[e].first \in Nat
  <2>1. arcs[e] \in Arc
    BY DEF IInv, Shape
  <2>. QED
    BY <2>1 DEF Arc
<1>7. ASSUME NEW k \in 0 .. G.n - 1 PROVE Lower(RankOf, k) = First(k)
  <2>1. ASSUME NEW x \in Lower(RankOf, k) PROVE x \in First(k)
    <3>1. x \in Nodes /\ RankOf[x] <= k
      BY <1>4 DEF Lower
    <3>2. RankOf[x] \in 1 .. k /\ order[RankOf[x]] = x
      BY <1>1, <1>3, <3>1
    <3>. QED
      BY <3>2 DEF First
  <2>2. ASSUME NEW l \in 1 .. k PROVE order[l] \in Lower(RankOf, k)
    <3>1. l \in DOMAIN order /\ order[l] \in Nodes
      BY <1>1
    <3>2. RankOf[order[l]] = l
      BY <1>1, <1>3, <3>1
    <3>. QED
      BY <1>4, <3>1, <3>2 DEF Lower
  <2>. QED
    BY <2>1, <2>2 DEF First
<1>. HIDE DEF RankOf
<1>. QED
  BY <1>1, <1>4, <1>5, <1>6, <1>7 DEF Ranked

LEMMA WaysClimbAndFall ==
    ASSUME IInv, Built, KeptBefore, G.restrictions = {},
           NEW u \in Nodes, NEW w \in Nodes, NEW c \in Nat, Near(arcs, {}, u, w, c)
    PROVE  Over(arcs, RankOf, u, w, c)
<1>1. /\ Ranked(arcs, RankOf, G.n) /\ DOMAIN RankOf = Nodes
      /\ \A k \in 0 .. G.n - 1 : Lower(RankOf, k) = First(k)
  BY RanksOfNodes
<1>2. \A k \in 0 .. G.n - 1 : Kept(arcs, Lower(RankOf, k))
  BY <1>1 DEF KeptBefore, Built
<1>3. AreArcs(arcs)
  BY ArcsAreArcs DEF IInv
<1>. QED
  BY <1>1, <1>2, <1>3, UpAndDown

-----------------------------------------------------------------------------
(* The two searches.                                                       *)

(* What expanding the entry e of a side does to a label k of it.           *)
Untouched(s, k) ==
    /\ k \in DOMAIN dist[s] /\ dist'[s][k] = dist[s][k]
    /\ k \in DOMAIN prev'[s] <=> k \in DOMAIN prev[s]
    /\ k \in DOMAIN prev[s] => prev'[s][k] = prev[s][k]

Improves(s, e, k, a) ==
    /\ Climbs(s, e.at, a) /\ Ahead(s, a) = k
    /\ dist'[s][k] = e.cost + Weight(a)
    /\ k \in DOMAIN dist[s] => dist'[s][k] < dist[s][k]
    /\ [cost |-> dist'[s][k], at |-> k] \in heap'[s]
    /\ k \in DOMAIN prev'[s] /\ prev'[s][k] = e.at

(* Of the offers to one label the best, the first made of equals, is one   *)
(* that is pushed.                                                         *)
LEMMA BestIsPushed ==
    ASSUME Shape, QueryShape, NEW side \in Sides, NEW e \in heap[side],
           NEW a \in Better(side, e)
    PROVE  \E b \in Pushed(side, e) :
              Ahead(side, b) = Ahead(side, a) /\ OfferOf(side, e, b) <= OfferOf(side, e, a)
<1>. DEFINE rivals == {b \in Better(side, e) : Ahead(side, b) = Ahead(side, a)}
            offers == {OfferOf(side, e, b) : b \in rivals}
            offer(b) == OfferOf(side, e, b)
<1>1. \A b \in Better(side, e) : b \in DOMAIN arcs /\ b \in Nat /\ offer(b) \in Nat
  <2>1. ASSUME NEW b \in Better(side, e) PROVE b \in DOMAIN arcs
    BY DEF Better
  <2>2. \A b \in DOMAIN arcs : b \in Nat
    BY DEF Shape
  <2>. QED
    BY <2>1, <2>2, ArcFacts DEF QueryShape, OfferOf
<1>. HIDE DEF offer
<1>2. offers \in SUBSET Nat /\ offers # {} /\ \A b \in rivals : offer(b) \in offers
  BY <1>1 DEF offer
<1>3. PICK m \in offers : \A x \in offers : m <= x
  BY <1>2, LeastNatural
<1>. DEFINE firsts == {b \in rivals : offer(b) = m}
<1>4. firsts \in SUBSET Nat /\ firsts # {}
  BY <1>1, <1>3 DEF offer
<1>5. PICK b \in firsts : \A x \in firsts : b <= x
  BY <1>4, LeastNatural
<1>6. b \in rivals /\ offer(b) = m /\ offer(b) <= offer(a)
  BY <1>2, <1>3, <1>5
<1>7. ASSUME NEW c \in Better(side, e), c < b, Ahead(side, c) = Ahead(side, b)
      PROVE  offer(c) > offer(b)
  <2>1. c \in rivals
    BY <1>6, <1>7
  <2>2. offer(c) # m
    <3>1. c \in firsts => b <= c
      BY <1>5
    <3>. QED
      BY <1>1, <1>4, <1>7, <2>1, <3>1
  <2>3. m <= offer(c) /\ offer(c) \in Nat /\ m \in Nat
    BY <1>1, <1>2, <1>3, <2>1
  <2>. QED
    BY <1>6, <2>2, <2>3
<1>8. b \in Pushed(side, e)
  BY <1>6, <1>7 DEF Pushed, offer
<1>. QED
  BY <1>6, <1>8 DEF offer

LEMMA ExpandFacts ==
    ASSUME Shape, QueryShape, NEW side \in Sides, NEW e \in heap[side], Expand(side, e)
    PROVE  /\ \A k \in DOMAIN dist[side] :
                 k \in DOMAIN dist'[side] /\ dist'[side][k] <= dist[side][k]
           /\ \A a \in DOMAIN arcs : Climbs(side, e.at, a) =>
                 /\ Ahead(side, a) \in DOMAIN dist'[side]
                 /\ dist'[side][Ahead(side, a)] <= e.cost + Weight(a)
           /\ \A k \in DOMAIN dist'[side] :
                 Untouched(side, k) \/ \E a \in DOMAIN arcs : Improves(side, e, k, a)
           /\ heap[side] \ {e} \subseteq heap'[side]
           /\ \A x \in heap'[side] :
                 \/ x \in heap[side] \ {e}
                 \/ \E a \in DOMAIN arcs :
                       Climbs(side, e.at, a) /\ x.cost = e.cost + Weight(a) /\ x.at = Ahead(side, a)
           /\ \A s \in Sides \ {side} :
                 dist'[s] = dist[s] /\ prev'[s] = prev[s] /\ heap'[s] = heap[s]
<1>. DEFINE heads == {Ahead(side, a) : a \in Pushed(side, e)}
            offer(a) == OfferOf(side, e, a)
            Offers(k) == {OfferOf(side, e, a) : a \in {b \in Pushed(side, e) : Ahead(side, b) = k}}
            old == dist[side]
            new == {[cost |-> OfferOf(side, e, a), at |-> Ahead(side, a)] : a \in Pushed(side, e)}
<1>1. \A a \in Pushed(side, e) :
         /\ a \in Better(side, e) /\ a \in DOMAIN arcs /\ Climbs(side, e.at, a)
         /\ Ahead(side, a) \in DOMAIN old => offer(a) < old[Ahead(side, a)]
  BY DEF Pushed, Better
<1>2. /\ \A a \in DOMAIN arcs : offer(a) \in Nat /\ offer(a) = e.cost + Weight(a)
      /\ \A k \in DOMAIN old : old[k] \in Nat
  BY ArcFacts DEF QueryShape, OfferOf
<1>3. /\ dist'[side] = [k \in DOMAIN old \cup heads |->
                           IF k \in heads THEN Min(Offers(k)) ELSE old[k]]
      /\ prev'[side] = [k \in DOMAIN prev[side] \cup heads |->
                           IF k \in heads THEN e.at ELSE prev[side][k]]
      /\ heap'[side] = (heap[side] \ {e}) \cup new
      /\ \A s \in Sides \ {side} :
            dist'[s] = dist[s] /\ prev'[s] = prev[s] /\ heap'[s] = heap[s]
  BY DEF QueryShape, Expand
<1>4. ASSUME NEW k \in heads
      PROVE  /\ \E a \in Pushed(side, e) : Ahead(side, a) = k /\ Min(Offers(k)) = offer(a)
             /\ \A a \in Pushed(side, e) : Ahead(side, a) = k => Min(Offers(k)) <= offer(a)
  <2>1. Offers(k) \in SUBSET Nat /\ Offers(k) # {}
    BY <1>1, <1>2
  <2>2. \A a \in Pushed(side, e) : Ahead(side, a) = k => offer(a) \in Offers(k)
    OBVIOUS
  <2>3. Min(Offers(k)) \in Offers(k) /\ \A x \in Offers(k) : Min(Offers(k)) <= x
    <3>. HIDE DEF Offers
    <3>1. \E m \in Offers(k) : \A x \in Offers(k) : m <= x
      BY <2>1, LeastNatural
    <3>. QED
      BY <3>1 DEF Min
  <2>. QED
    BY <2>2, <2>3
<1>. HIDE DEF Offers, offer
<1>5. ASSUME NEW k \in heads
      PROVE  /\ k \in DOMAIN dist'[side]
             /\ \E a \in DOMAIN arcs : Improves(side, e, k, a)
             /\ dist'[side][k] \in Nat
  <2>1. PICK a \in Pushed(side, e) : Ahead(side, a) = k /\ Min(Offers(k)) = offer(a)
    BY <1>4
  <2>2. dist'[side][k] = offer(a) /\ k \in DOMAIN dist'[side] /\ prev'[side][k] = e.at /\ k \in DOMAIN prev'[side]
    BY <1>3, <2>1
  <2>3. [cost |-> offer(a), at |-> k] \in heap'[side]
    BY <1>3, <2>1 DEF offer
  <2>. QED
    BY <1>1, <1>2, <2>1, <2>2, <2>3 DEF Improves
<1>6. \A k \in DOMAIN dist'[side] : k \notin heads => Untouched(side, k)
  BY <1>3 DEF Untouched
<1>7. ASSUME NEW k \in DOMAIN old PROVE k \in DOMAIN dist'[side] /\ dist'[side][k] <= old[k]
  <2>1. CASE k \in heads
    <3>1. /\ k \in DOMAIN dist'[side] /\ dist'[side][k] \in Nat
          /\ \E a \in DOMAIN arcs : Improves(side, e, k, a)
      BY <1>5, <2>1
    <3>2. dist'[side][k] < old[k]
      BY <3>1 DEF Improves
    <3>. QED
      BY <1>2, <3>1, <3>2
  <2>2. CASE k \notin heads
    BY <1>2, <1>3, <2>2
  <2>. QED
    BY <2>1, <2>2
<1>8. ASSUME NEW a \in DOMAIN arcs, Climbs(side, e.at, a)
      PROVE  /\ Ahead(side, a) \in DOMAIN dist'[side]
             /\ dist'[side][Ahead(side, a)] <= e.cost + Weight(a)
  <2>. DEFINE k == Ahead(side, a)
  <2>1. CASE k \in DOMAIN old /\ ~(offer(a) < old[k])
    <3>1. k \in DOMAIN dist'[side] /\ dist'[side][k] <= old[k]
      BY <1>7, <2>1
    <3>2. dist'[side][k] \in Nat
      BY <1>2, <1>3, <1>5, <3>1, <2>1
    <3>. QED
      BY <1>2, <2>1, <3>1, <3>2
  <2>2. CASE k \in DOMAIN old => offer(a) < old[k]
    <3>1. a \in Better(side, e)
      BY <1>8, <2>2 DEF Better, offer
    <3>2. PICK b \in Pushed(side, e) : Ahead(side, b) = k /\ offer(b) <= offer(a)
      BY <3>1, BestIsPushed DEF offer
    <3>3. k \in heads /\ Min(Offers(k)) <= offer(b)
      BY <1>4, <3>2
    <3>4. k \in DOMAIN dist'[side] /\ dist'[side][k] = Min(Offers(k)) /\ dist'[side][k] \in Nat
      BY <1>3, <1>5, <3>3
    <3>5. offer(b) \in Nat /\ offer(a) \in Nat /\ offer(a) = e.cost + Weight(a)
      BY <1>1, <1>2
    <3>. QED
      BY <3>2, <3>3, <3>4, <3>5
  <2>. QED
    BY <2>1, <2>2
<1>9. ASSUME NEW x \in heap'[side]
      PROVE  \/ x \in heap[side] \ {e}
             \/ \E a \in DOMAIN arcs :
                   Climbs(side, e.at, a) /\ x.cost = e.cost + Weight(a) /\ x.at = Ahead(side, a)
  <2>1. CASE x \in new
    <3>1. PICK a \in Pushed(side, e) : x.cost = OfferOf(side, e, a) /\ x.at = Ahead(side, a)
      BY <2>1
    <3>. QED
      BY <1>1, <1>2, <3>1 DEF offer
  <2>. QED
    BY <1>3, <2>1
<1>. HIDE DEF heads, new
<1>. QED
  BY <1>3, <1>5, <1>6, <1>7, <1>8, <1>9

(* What the two searches know.  A cost is beaten when a meeting is known   *)
(* that costs less.                                                        *)
Root(s) == Start(IF s = "fwd" THEN req.source ELSE req.target)

Beaten(c) == best # NoCost /\ best < c

Rooted(s) == Root(s) \in DOMAIN dist[s] /\ dist[s][Root(s)] = 0

(* A label that is not expanded has its entry, unless that was dropped.    *)
Covered(s) ==
    \A k \in DOMAIN dist[s] :
        \/ k \in settled[s]
        \/ [cost |-> dist[s][k], at |-> k] \in heap[s]
        \/ Beaten(dist[s][k])

(* Expanded labels are no dearer than what is open.                        *)
Ordered(s) ==
    \A e \in heap[s] :
        dist[s][e.at] <= e.cost /\ \A k \in settled[s] : dist[s][k] <= e.cost

(* Arcs that climb from expanded labels have been followed.                *)
Offered(s) ==
    \A k \in settled[s], a \in DOMAIN arcs : Climbs(s, k, a) =>
        /\ Ahead(s, a) \in DOMAIN dist[s]
        /\ dist[s][Ahead(s, a)] <= dist[s][k] + Weight(a)

(* Where both sides have expanded a node they have met there.              *)
Met ==
    \A k \in settled["fwd"], l \in settled["bwd"] : k[1] = l[1] =>
        best # NoCost /\ best <= dist["fwd"][k] + dist["bwd"][l]

Searched ==
    pc \in {"fwd", "bwd", "check", "unpack"} =>
        /\ \A s \in Sides : Rooted(s) /\ Covered(s) /\ Ordered(s) /\ Offered(s)
        /\ G.restrictions = {} => Met
        /\ pc = "unpack" => Hopeless
        /\ Built /\ req.source \in Nodes /\ req.target \in Nodes /\ req.source # req.target

LEMMA MeetFacts ==
    ASSUME QueryShape, NEW side \in Sides, NEW e \in heap[side], Meet(side, e)
    PROVE  /\ best # NoCost => best' # NoCost /\ best' <= best
           /\ \A k \in Meetings(side, e) :
                 best' # NoCost /\ best' <= e.cost + dist[Other(side)][k]
<1>. DEFINE total(k) == e.cost + dist[Other(side)][k]
            costs == {total(k) : k \in Meetings(side, e)}
            m == Min(costs)
<1>1. Other(side) \in Sides
  BY DEF Other, Sides
<1>2. costs \in SUBSET Nat /\ \A k \in Meetings(side, e) : total(k) \in costs
  BY <1>1 DEF QueryShape, Meetings
<1>3. best \in Nat \cup {NoCost} /\ \A x \in Nat : x # NoCost
  BY DEF QueryShape, NoCost
<1>4. \/ costs # {} /\ (best = NoCost \/ m < best) /\ best' = m
      \/ ~(costs # {} /\ (best = NoCost \/ m < best)) /\ best' = best
  BY DEF Meet
<1>. HIDE DEF total, costs
<1>5. costs # {} => m \in Nat /\ \A x \in costs : m <= x
  <2>1. costs # {} => \E z \in costs : \A x \in costs : z <= x
    BY <1>2, LeastNatural
  <2>. QED
    BY <1>2, <2>1 DEF Min
<1>. HIDE DEF m
<1>6. best # NoCost => best' # NoCost /\ best' <= best
  BY <1>3, <1>4, <1>5
<1>7. ASSUME NEW k \in Meetings(side, e) PROVE best' # NoCost /\ best' <= total(k)
  <2>1. costs # {} /\ total(k) \in costs /\ total(k) \in Nat
    BY <1>2
  <2>2. m \in Nat /\ m <= total(k)
    BY <1>5, <2>1
  <2>. QED
    BY <1>3, <1>4, <2>1, <2>2
<1>. QED
  BY <1>6, <1>7 DEF total

(* What depends on the hierarchy alone.                                    *)
LEMMA BuildKept ==
    ASSUME UNCHANGED buildVars
    PROVE  /\ req' = req /\ arcs' = arcs /\ G' = G /\ Built' = Built /\ Nodes' = Nodes
           /\ \A s, k, a : Climbs(s, k, a)' = Climbs(s, k, a)
           /\ \A s, a : Ahead(s, a)' = Ahead(s, a) /\ Weight(a)' = Weight(a)
           /\ \A s : Root(s)' = Root(s)
<1>1. req' = req /\ arcs' = arcs /\ order' = order /\ pairs' = pairs
  BY DEF buildVars
<1>2. G' = G /\ Edges' = Edges /\ \A v : level(v)' = level(v)
  BY <1>1 DEF G, Edges, level
<1>3. \A a : OpenTo(a)' = OpenTo(a) /\ Weight(a)' = Weight(a)
  BY <1>1, <1>2 DEF OpenTo, Weight
<1>4. \A s, a : Ahead(s, a)' = Ahead(s, a) /\ Behind(s, a)' = Behind(s, a)
  BY <1>1 DEF Ahead, Behind
<1>5. \A s, v, a, b : TurnBanned(s, v, a, b)' = TurnBanned(s, v, a, b)
  BY <1>2 DEF TurnBanned
<1>6. \A s, k, a : Climbs(s, k, a)' = Climbs(s, k, a)
  BY <1>2, <1>3, <1>4, <1>5 DEF Climbs
<1>7. Built' = Built /\ Nodes' = Nodes /\ \A s : Root(s)' = Root(s)
  BY <1>1, <1>2 DEF Built, Nodes, Root
<1>. QED
  BY <1>1, <1>2, <1>3, <1>4, <1>6, <1>7

(* Only entries change, and those dropped were beaten or have been seen.   *)
LEMMA DropSearched ==
    ASSUME QueryShape, Searched, NEW side \in Sides, NEW e \in heap[side], Drop(side, e)
    PROVE  Searched'
<1>1. /\ UNCHANGED buildVars /\ dist' = dist /\ settled' = settled /\ best' = best
      /\ pc \in {"fwd", "bwd"} /\ pc' # "unpack"
      /\ heap'[side] = heap[side] \ {e} /\ \A s \in Sides : s # side => heap'[s] = heap[s]
      /\ Beaten(e.cost) \/ e.at \in settled[side]
  <2>1. best # NoCost /\ e.cost > best => Beaten(e.cost)
    BY DEF QueryShape, Beaten
  <2>. QED
    BY <2>1 DEF Drop, After, Pruned, QueryShape, Sides
<1>2. /\ G' = G /\ Built' = Built /\ req' = req /\ arcs' = arcs /\ Nodes' = Nodes
      /\ \A s, k, a : Climbs(s, k, a)' = Climbs(s, k, a)
      /\ \A s, a : Ahead(s, a)' = Ahead(s, a) /\ Weight(a)' = Weight(a)
      /\ \A s : Root(s)' = Root(s)
  BY <1>1, BuildKept
<1>3. ASSUME NEW s \in Sides PROVE Rooted(s)' /\ Covered(s)' /\ Ordered(s)' /\ Offered(s)'
  <2>1. Rooted(s) /\ Covered(s) /\ Ordered(s) /\ Offered(s)
    BY <1>1 DEF Searched
  <2>2. Rooted(s)' /\ Offered(s)'
    BY <1>1, <1>2, <2>1 DEF Rooted, Offered
  <2>3. heap'[s] \subseteq heap[s]
    BY <1>1
  <2>4. Ordered(s)'
    BY <1>1, <2>1, <2>3 DEF Ordered
  <2>5. ASSUME NEW k \in DOMAIN dist[s], k \notin settled[s], ~Beaten(dist[s][k])
        PROVE  [cost |-> dist[s][k], at |-> k] \in heap'[s]
    <3>1. [cost |-> dist[s][k], at |-> k] \in heap[s]
      BY <2>1, <2>5 DEF Covered
    <3>2. CASE s = side /\ e = [cost |-> dist[s][k], at |-> k]
      <4>1. e.cost = dist[s][k] /\ e.at = k
        BY <3>2
      <4>. QED
        BY <1>1, <2>5, <3>2, <4>1
    <3>. QED
      BY <1>1, <3>1, <3>2
  <2>6. Covered(s)'
    BY <1>1, <2>5 DEF Covered, Beaten
  <2>. QED
    BY <2>2, <2>4, <2>6
<1>4. G.restrictions = {} => Met'
  BY <1>1 DEF Searched, Met
<1>. QED
  BY <1>1, <1>2, <1>3, <1>4 DEF Searched

(* The entry a side expands has its label's best cost.                     *)
LEMMA SettlesBest ==
    ASSUME QueryShape, Searched, NEW side \in Sides, NEW e \in heap[side], Settle(side, e)
    PROVE  e.at \in DOMAIN dist[side] /\ e.cost = dist[side][e.at]
<1>1. /\ Covered(side) /\ Ordered(side)
      /\ \A d \in heap[side] : e.cost <= d.cost
      /\ ~(best # NoCost /\ e.cost > best) /\ e.at \notin settled[side]
  BY DEF Settle, Searched, Sides, Least, Pruned
<1>. DEFINE c == dist[side][e.at]
            d == [cost |-> c, at |-> e.at]
<1>2. e.at \in DOMAIN dist[side] /\ c \in Nat /\ e.cost \in Nat /\ best \in Nat \cup {NoCost}
  BY DEF QueryShape
<1>3. c <= e.cost
  BY <1>1 DEF Ordered
<1>4. d \in heap[side] \/ Beaten(c)
  BY <1>1, <1>2 DEF Covered
<1>5. CASE d \in heap[side]
  <2>1. e.cost <= d.cost /\ d.cost = c
    BY <1>1, <1>5
  <2>. QED
    BY <1>2, <1>3, <2>1
<1>6. CASE Beaten(c)
  BY <1>1, <1>2, <1>3, <1>6 DEF Beaten
<1>. QED
  BY <1>2, <1>4, <1>5, <1>6

(* ... and no better way is found to what is expanded.                     *)
LEMMA SettledKept ==
    ASSUME Shape, QueryShape, Searched, NEW side \in Sides, NEW e \in heap[side], Settle(side, e),
           NEW k \in settled'[side]
    PROVE  k \in DOMAIN dist[side] /\ Untouched(side, k) /\ dist[side][k] <= e.cost
<1>1. /\ e.at \in DOMAIN dist[side] /\ e.cost = dist[side][e.at] /\ e.cost \in Nat
      /\ Ordered(side) /\ settled'[side] = settled[side] \cup {e.at} /\ pc = side
  BY SettlesBest DEF Settle, QueryShape, Searched, Sides
<1>2. k \in DOMAIN dist[side] /\ dist[side][k] \in Nat
  BY <1>1 DEF QueryShape
<1>3. dist[side][k] <= e.cost
  BY <1>1 DEF Ordered
<1>4. k \in DOMAIN dist'[side] /\ (Untouched(side, k) \/ \E a \in DOMAIN arcs : Improves(side, e, k, a))
  BY <1>2, ExpandFacts DEF Settle
<1>5. ASSUME NEW a \in DOMAIN arcs, Improves(side, e, k, a) PROVE FALSE
  <2>1. dist'[side][k] = e.cost + Weight(a) /\ dist'[side][k] < dist[side][k]
    BY <1>2, <1>5 DEF Improves
  <2>2. Weight(a) \in Nat
    BY ArcFacts
  <2>. QED
    BY <1>1, <1>2, <1>3, <2>1, <2>2
<1>. QED
  BY <1>2, <1>3, <1>4, <1>5

LEMMA SettleSide ==
    ASSUME Shape, QueryShape, Searched, NEW side \in Sides, NEW e \in heap[side], Settle(side, e)
    PROVE  Rooted(side)' /\ Covered(side)' /\ Ordered(side)' /\ Offered(side)'
<1>1. /\ UNCHANGED buildVars /\ settled'[side] = settled[side] \cup {e.at}
      /\ Expand(side, e) /\ Meet(side, e)
      /\ \A d \in heap[side] : e.cost <= d.cost
      /\ Rooted(side) /\ Covered(side) /\ Ordered(side) /\ Offered(side)
  BY DEF Settle, Least, QueryShape, Searched, Sides
<1>2. /\ G' = G /\ Built' = Built /\ req' = req /\ arcs' = arcs
      /\ \A s, k, a : Climbs(s, k, a)' = Climbs(s, k, a)
      /\ \A s, a : Ahead(s, a)' = Ahead(s, a) /\ Weight(a)' = Weight(a)
      /\ \A s : Root(s)' = Root(s)
  BY <1>1, BuildKept
<1>3. /\ \A k \in DOMAIN dist[side] :
            k \in DOMAIN dist'[side] /\ dist'[side][k] <= dist[side][k]
      /\ \A a \in DOMAIN arcs : Climbs(side, e.at, a) =>
            /\ Ahead(side, a) \in DOMAIN dist'[side]
            /\ dist'[side][Ahead(side, a)] <= e.cost + Weight(a)
      /\ \A k \in DOMAIN dist'[side] :
            Untouched(side, k) \/ \E a \in DOMAIN arcs : Improves(side, e, k, a)
      /\ heap[side] \ {e} \subseteq heap'[side]
      /\ \A x \in heap'[side] :
            \/ x \in heap[side] \ {e}
            \/ \E a \in DOMAIN arcs :
                  Climbs(side, e.at, a) /\ x.cost = e.cost + Weight(a) /\ x.at = Ahead(side, a)
  BY <1>1, ExpandFacts
<1>4. /\ e.at \in DOMAIN dist[side] /\ e.cost = dist[side][e.at] /\ e.cost \in Nat
  BY SettlesBest DEF QueryShape
<1>5. \A k \in settled'[side] :
         k \in DOMAIN dist[side] /\ dist'[side][k] = dist[side][k] /\ dist[side][k] <= e.cost
  BY SettledKept DEF Untouched
<1>6. QueryShape'
  BY SettleType
<1>7. /\ \A k \in DOMAIN dist[side] : dist[side][k] \in Nat
      /\ \A k \in DOMAIN dist'[side] : dist'[side][k] \in Nat
      /\ \A x \in heap[side] : x.cost \in Nat /\ x.at \in DOMAIN dist[side]
      /\ \A a \in DOMAIN arcs : Weight(a) \in Nat
  BY <1>6, ArcFacts DEF QueryShape
<1>8. Rooted(side)'
  <2>1. Root(side) \in DOMAIN dist'[side] /\ dist'[side][Root(side)] <= 0
    BY <1>1, <1>3 DEF Rooted
  <2>2. dist'[side][Root(side)] \in Nat
    BY <1>7, <2>1
  <2>3. dist'[side][Root(side)] = 0
    BY <2>1, <2>2
  <2>. QED
    BY <1>2, <2>1, <2>3 DEF Rooted
<1>9. Covered(side)'
  <2>1. ASSUME NEW c \in Nat, Beaten(c) PROVE best' # NoCost /\ best' < c
    <3>1. best # NoCost /\ best' # NoCost /\ best' <= best /\ best < c
      BY <1>1, <2>1, MeetFacts DEF Beaten
    <3>2. best \in Nat /\ best' \in Nat
      BY <1>6, <3>1 DEF QueryShape
    <3>. QED
      BY <2>1, <3>1, <3>2 DEF Beaten
  <2>2. ASSUME NEW k \in DOMAIN dist'[side]
        PROVE  \/ k \in settled'[side]
               \/ [cost |-> dist'[side][k], at |-> k] \in heap'[side]
               \/ best' # NoCost /\ best' < dist'[side][k]
    <3>1. CASE Untouched(side, k)
      <4>1. k \in DOMAIN dist[side] /\ dist'[side][k] = dist[side][k] /\ dist[side][k] \in Nat
        BY <1>7, <3>1 DEF Untouched
      <4>. DEFINE d == [cost |-> dist[side][k], at |-> k]
      <4>2. CASE d = e
        <5>1. d.at = k
          OBVIOUS
        <5>. QED
          BY <1>1, <4>2, <5>1
      <4>3. CASE d \in heap[side] /\ d # e
        BY <1>3, <4>1, <4>3
      <4>4. k \in settled[side] \/ d \in heap[side] \/ Beaten(dist[side][k])
        BY <1>1, <4>1 DEF Covered
      <4>5. Beaten(dist[side][k]) => best' # NoCost /\ best' < dist'[side][k]
        BY <2>1, <4>1
      <4>. QED
        BY <1>1, <4>2, <4>3, <4>4, <4>5
    <3>2. ASSUME NEW a \in DOMAIN arcs, Improves(side, e, k, a)
          PROVE  [cost |-> dist'[side][k], at |-> k] \in heap'[side]
      BY <3>2 DEF Improves
    <3>. QED
      BY <1>3, <3>1, <3>2
  <2>. QED
    BY <2>2 DEF Covered, Beaten
<1>10. Ordered(side)'
  <2>1. ASSUME NEW x \in heap'[side]
        PROVE  /\ dist'[side][x.at] <= x.cost
               /\ \A k \in settled'[side] : dist'[side][k] <= x.cost
    <3>1. CASE x \in heap[side] \ {e}
      <4>1. /\ x.at \in DOMAIN dist[side] /\ dist[side][x.at] <= x.cost /\ x.cost \in Nat
            /\ e.cost <= x.cost
        BY <1>1, <1>7, <3>1 DEF Ordered
      <4>2. /\ dist'[side][x.at] <= dist[side][x.at] /\ dist[side][x.at] \in Nat
            /\ dist'[side][x.at] \in Nat
        BY <1>3, <1>7, <4>1
      <4>3. dist'[side][x.at] <= x.cost
        BY <4>1, <4>2
      <4>4. ASSUME NEW k \in settled'[side] PROVE dist'[side][k] <= x.cost
        <5>1. dist'[side][k] = dist[side][k] /\ dist[side][k] <= e.cost /\ dist[side][k] \in Nat
          BY <1>5, <1>7
        <5>. QED
          BY <1>4, <4>1, <5>1
      <4>. QED
        BY <4>3, <4>4
    <3>2. ASSUME NEW a \in DOMAIN arcs,
                 Climbs(side, e.at, a), x.cost = e.cost + Weight(a), x.at = Ahead(side, a)
          PROVE  /\ dist'[side][x.at] <= x.cost
                 /\ \A k \in settled'[side] : dist'[side][k] <= x.cost
      <4>1. dist'[side][x.at] <= x.cost
        BY <1>3, <3>2
      <4>2. ASSUME NEW k \in settled'[side] PROVE dist'[side][k] <= x.cost
        <5>1. dist'[side][k] = dist[side][k] /\ dist[side][k] <= e.cost /\ dist[side][k] \in Nat
          BY <1>5, <1>7
        <5>2. Weight(a) \in Nat
          BY <1>7
        <5>. QED
          BY <1>4, <3>2, <5>1, <5>2
      <4>. QED
        BY <4>1, <4>2
    <3>. QED
      BY <1>3, <3>1, <3>2
  <2>. QED
    BY <2>1 DEF Ordered
<1>11. Offered(side)'
  <2>1. ASSUME NEW k \in settled'[side], NEW a \in DOMAIN arcs, Climbs(side, k, a)
        PROVE  /\ Ahead(side, a) \in DOMAIN dist'[side]
               /\ dist'[side][Ahead(side, a)] <= dist'[side][k] + Weight(a)
    <3>1. dist'[side][k] = dist[side][k] /\ k \in DOMAIN dist[side] /\ dist[side][k] \in Nat
      BY <1>5, <1>7
    <3>2. CASE k = e.at
      BY <1>3, <1>4, <2>1, <3>1, <3>2
    <3>3. CASE k \in settled[side]
      <4>. DEFINE h == Ahead(side, a)
      <4>1. h \in DOMAIN dist[side] /\ dist[side][h] <= dist[side][k] + Weight(a)
        BY <1>1, <2>1, <3>3 DEF Offered
      <4>2. /\ h \in DOMAIN dist'[side] /\ dist'[side][h] <= dist[side][h]
            /\ dist'[side][h] \in Nat /\ dist[side][h] \in Nat /\ Weight(a) \in Nat
        BY <1>3, <1>7, <4>1
      <4>. HIDE DEF h
      <4>3. dist'[side][h] <= dist'[side][k] + Weight(a)
        BY <3>1, <4>1, <4>2
      <4>. QED
        BY <4>2, <4>3 DEF h
    <3>. QED
      BY <1>1, <3>2, <3>3
  <2>. QED
    BY <1>2, <2>1 DEF Offered
<1>. QED
  BY <1>8, <1>9, <1>10, <1>11

LEMMA SettleMet ==
    ASSUME Shape, QueryShape, Searched, G.restrictions = {},
           NEW side \in Sides, NEW e \in heap[side], Settle(side, e)
    PROVE  Met'
<1>1. /\ Expand(side, e) /\ Meet(side, e) /\ Met
      /\ settled'[side] = settled[side] \cup {e.at}
      /\ \A s \in Sides \ {side} : settled'[s] = settled[s]
  BY DEF Settle, QueryShape, Searched, Sides
<1>2. \A s \in Sides \ {side} : dist'[s] = dist[s]
  BY <1>1, ExpandFacts
<1>3. /\ e.at \in DOMAIN dist[side] /\ e.cost = dist[side][e.at]
      /\ \A k \in settled'[side] : k \in DOMAIN dist[side] /\ dist'[side][k] = dist[side][k]
  BY SettlesBest, SettledKept DEF Untouched
<1>4. /\ best # NoCost => best' # NoCost /\ best' <= best
      /\ \A k \in Meetings(side, e) :
            best' # NoCost /\ best' <= e.cost + dist[Other(side)][k]
  BY <1>1, MeetFacts
<1>5. /\ best' \in Nat \cup {NoCost} /\ best \in Nat \cup {NoCost}
      /\ \A s \in Sides : settled[s] \subseteq DOMAIN dist[s] /\ \A k \in DOMAIN dist[s] : dist[s][k] \in Nat
  <2>1. QueryShape'
    BY SettleType
  <2>. QED
    BY <2>1 DEF QueryShape
<1>6. \A k : k \in DOMAIN dist[Other(side)] /\ k[1] = e.at[1] => k \in Meetings(side, e)
  BY DEF Meetings, TurnBanned, turn_is_banned
<1>. SUFFICES ASSUME NEW k \in settled'["fwd"], NEW l \in settled'["bwd"], k[1] = l[1]
              PROVE  best' # NoCost /\ best' <= dist'["fwd"][k] + dist'["bwd"][l]
  BY DEF Met
<1>7. /\ dist'["fwd"][k] = dist["fwd"][k] /\ dist["fwd"][k] \in Nat /\ k \in DOMAIN dist["fwd"]
      /\ dist'["bwd"][l] = dist["bwd"][l] /\ dist["bwd"][l] \in Nat /\ l \in DOMAIN dist["bwd"]
  BY <1>1, <1>2, <1>3, <1>5 DEF Sides
<1>8. CASE k \in settled["fwd"] /\ l \in settled["bwd"]
  <2>1. best # NoCost /\ best <= dist["fwd"][k] + dist["bwd"][l]
    BY <1>1, <1>8 DEF Met
  <2>2. best \in Nat /\ best' \in Nat /\ best' <= best /\ best' # NoCost
    BY <1>4, <1>5, <2>1
  <2>. QED
    BY <1>7, <2>1, <2>2
<1>9. CASE side = "fwd" /\ k = e.at
  <2>1. l \in Meetings(side, e) /\ Other(side) = "bwd"
    BY <1>6, <1>7, <1>9 DEF Other
  <2>. QED
    BY <1>3, <1>4, <1>7, <1>9, <2>1
<1>10. CASE side = "bwd" /\ l = e.at
  <2>1. k \in Meetings(side, e) /\ Other(side) = "fwd"
    BY <1>6, <1>7, <1>10 DEF Other
  <2>2. best' # NoCost /\ best' <= dist["bwd"][l] + dist["fwd"][k]
    BY <1>3, <1>4, <1>10, <2>1
  <2>. QED
    BY <1>7, <2>2
<1>. QED
  BY <1>1, <1>8, <1>9, <1>10 DEF Sides

LEMMA SettleSearched ==
    ASSUME Shape, QueryShape, Searched, NEW side \in Sides, NEW e \in heap[side], Settle(side, e)
    PROVE  Searched'
<1>1. /\ UNCHANGED buildVars /\ pc \in {"fwd", "bwd"} /\ pc' # "unpack"
      /\ \A s \in Sides \ {side} : settled'[s] = settled[s]
      /\ Expand(side, e) /\ Meet(side, e)
  BY DEF Settle, After, QueryShape, Sides
<1>2. /\ G' = G /\ Built' = Built /\ req' = req /\ arcs' = arcs /\ Nodes' = Nodes
      /\ \A s, k, a : Climbs(s, k, a)' = Climbs(s, k, a)
      /\ \A s, a : Ahead(s, a)' = Ahead(s, a) /\ Weight(a)' = Weight(a)
      /\ \A s : Root(s)' = Root(s)
  BY <1>1, BuildKept
<1>3. \A s \in Sides \ {side} : dist'[s] = dist[s] /\ heap'[s] = heap[s]
  BY <1>1, ExpandFacts
<1>4. ASSUME NEW c \in Nat, Beaten(c) PROVE best' # NoCost /\ best' < c
  <2>1. best # NoCost /\ best' # NoCost /\ best' <= best /\ best < c
    BY <1>1, <1>4, MeetFacts DEF Beaten
  <2>2. best \in Nat /\ best' \in Nat
    BY <1>1, <2>1, MeetType DEF QueryShape
  <2>. QED
    BY <2>1, <2>2
<1>5. ASSUME NEW s \in Sides \ {side} PROVE Rooted(s)' /\ Covered(s)' /\ Ordered(s)' /\ Offered(s)'
  <2>1. Rooted(s) /\ Covered(s) /\ Ordered(s) /\ Offered(s) /\ \A k \in DOMAIN dist[s] : dist[s][k] \in Nat
    BY <1>1 DEF Searched, QueryShape
  <2>2. Rooted(s)' /\ Ordered(s)' /\ Offered(s)'
    BY <1>1, <1>2, <1>3, <2>1 DEF Rooted, Ordered, Offered
  <2>3. Covered(s)'
    BY <1>1, <1>3, <1>4, <2>1 DEF Covered, Beaten
  <2>. QED
    BY <2>2, <2>3
<1>6. ASSUME NEW s \in Sides PROVE Rooted(s)' /\ Covered(s)' /\ Ordered(s)' /\ Offered(s)'
  BY <1>5, SettleSide
<1>7. G.restrictions = {} => Met'
  BY SettleMet
<1>. QED
  BY <1>1, <1>2, <1>6, <1>7 DEF Searched

LEMMA AskSearched == ASSUME Shape, QueryShape, Ask PROVE Searched'
<1>. DEFINE root(s) == Start(IF s = "fwd" THEN req.source ELSE req.target)
<1>1. /\ UNCHANGED buildVars /\ pc' = "fwd" /\ UNCHANGED <<prev, settled, best>>
      /\ dist' = [s \in Sides |-> [k \in {root(s)} |-> 0]]
      /\ heap' = [s \in Sides |-> {[cost |-> 0, at |-> root(s)]}]
      /\ \A s \in Sides : settled[s] = {}
      /\ Built /\ req.source < G.n /\ req.target < G.n /\ req.source # req.target
  BY DEF Ask, QueryShape
<1>2. req.source \in Nodes /\ req.target \in Nodes
  <2>1. req.source \in Nat /\ req.target \in Nat /\ G.n \in Nat
    BY GraphFacts, BuildAssumption DEF Shape, IsBuildRequest
  <2>. QED
    BY <1>1, <2>1 DEF Nodes
<1>3. /\ Built' = Built /\ req' = req /\ Nodes' = Nodes /\ \A s : Root(s)' = root(s)
  <2>1. \A s : Root(s) = root(s)
    BY DEF Root
  <2>. QED
    BY <1>1, <2>1, BuildKept
<1>. HIDE DEF root
<1>4. ASSUME NEW s \in Sides PROVE Rooted(s)' /\ Covered(s)' /\ Ordered(s)' /\ Offered(s)'
  <2>1. /\ DOMAIN dist'[s] = {root(s)} /\ dist'[s][root(s)] = 0
        /\ heap'[s] = {[cost |-> 0, at |-> root(s)]} /\ settled'[s] = {}
    BY <1>1
  <2>2. Rooted(s)' /\ Offered(s)'
    BY <1>3, <2>1 DEF Rooted, Offered
  <2>3. Covered(s)' /\ Ordered(s)'
    BY <2>1 DEF Covered, Ordered
  <2>. QED
    BY <2>2, <2>3
<1>5. Met'
  BY <1>1 DEF Met, Sides
<1>. QED
  BY <1>1, <1>2, <1>3, <1>4, <1>5 DEF Searched

LEMMA SearchedStep == Shape /\ QueryShape /\ Searched /\ [Next]_vars => Searched'
<1>. SUFFICES ASSUME Shape, QueryShape, Searched, [Next]_vars PROVE Searched'
  OBVIOUS
<1>1. CASE Build
  BY <1>1 DEF Build, queryVars, Searched
<1>2. CASE RejectNode \/ AskForNothing \/ Answer
  BY <1>2 DEF RejectNode, AskForNothing, Answer, Searched
<1>3. CASE Ask
  BY <1>3, AskSearched
<1>4. CASE UNCHANGED vars \/ Check \/ \E side \in Sides : Rest(side)
  <2>1. /\ UNCHANGED <<buildVars, dist, prev, heap, settled, best>>
        /\ pc' \in {"fwd", "bwd", "check", "unpack"} => pc \in {"fwd", "bwd", "check", "unpack"}
        /\ pc' = "unpack" => pc = "unpack" \/ Hopeless
    BY <1>4 DEF vars, queryVars, Check, Rest, After, Sides
  <2>2. /\ G' = G /\ Built' = Built /\ req' = req /\ arcs' = arcs /\ Nodes' = Nodes
        /\ \A s, k, a : Climbs(s, k, a)' = Climbs(s, k, a)
        /\ \A s, a : Ahead(s, a)' = Ahead(s, a) /\ Weight(a)' = Weight(a)
        /\ \A s : Root(s)' = Root(s)
    BY <2>1, BuildKept
  <2>3. \A s : Rooted(s)' = Rooted(s) /\ Covered(s)' = Covered(s) /\ Ordered(s)' = Ordered(s)
    BY <2>1, <2>2 DEF Rooted, Covered, Ordered, Beaten
  <2>4. \A s : Offered(s) => Offered(s)'
    BY <2>1, <2>2 DEF Offered
  <2>5. Met' = Met /\ Hopeless' = Hopeless
    BY <2>1 DEF Met, Hopeless
  <2>. QED
    BY <2>1, <2>2, <2>3, <2>4, <2>5 DEF Searched
<1>5. ASSUME NEW side \in Sides, NEW e \in heap[side], Drop(side, e) PROVE Searched'
  BY <1>5, DropSearched
<1>6. ASSUME NEW side \in Sides, NEW e \in heap[side], Settle(side, e) PROVE Searched'
  BY <1>6, SettleSearched
<1>. QED
  BY <1>1, <1>2, <1>3, <1>4, <1>5, <1>6 DEF Next

-----------------------------------------------------------------------------
(* What the best meeting is when both searches have no more to gain.       *)

(* What is asked when the query is to answer as dijkstra does, in a graph  *)
(* whose levels do not wrap round.                                         *)
Plain == G.restrictions = {} /\ req.asked = P /\ G.n <= LevelMod

SideArcs(s) == IF s = "fwd" THEN Up(arcs, RankOf) ELSE Down(arcs, RankOf)

LEMMA LevelIsRank ==
    ASSUME IInv, Built, G.n <= LevelMod, NEW v \in Nodes
    PROVE  RankOf[v] \in Nat /\ level(v) = RankOf[v] - 1
<1>1. RankOf[v] \in 1 .. G.n /\ G.n \in Nat /\ LevelMod \in Nat \ {0}
  BY RanksOfNodes, GraphFacts, BuildAssumption DEF Ranked, IInv, Shape
<1>2. level(v) = (RankOf[v] - 1) % LevelMod
  BY DEF level, RankOf
<1>3. PICK x \in Nat, m \in Nat : x = RankOf[v] - 1 /\ m = LevelMod /\ x < m
  BY <1>1
<1>4. x % m = x
  BY <1>3
<1>. QED
  BY <1>1, <1>2, <1>3, <1>4

(* An arc that is open to the build is open to the one who asks, at the    *)
(* same cost.                                                              *)
LEMMA OpenAsBuilt ==
    ASSUME Shape, ArcsDriven, Plain, NEW a \in DOMAIN arcs
    PROVE  (arcs[a].open => OpenTo(a)) /\ Weight(a) = arcs[a].weight
<1>. Edges = DOMAIN G.edges
  BY GraphFacts DEF Edges, Shape
<1>1. CASE a \in Edges
  BY <1>1 DEF ArcsDriven, Plain, OpenTo, Weight
<1>2. CASE a \notin Edges
  BY <1>2 DEF OpenTo, Weight
<1>. QED
  BY <1>1, <1>2

LEMMA NoTurnIsBanned ==
    ASSUME G.restrictions = {}, NEW s, NEW v, NEW a, NEW b PROVE ~TurnBanned(s, v, a, b)
BY DEF TurnBanned, turn_is_banned

(* An arc of a side can be climbed.                                        *)
LEMMA SideArcIsClimbed ==
    ASSUME IInv, ArcsDriven, Built, Plain, NEW s \in Sides, NEW x \in Nat,
           NEW e \in ArcsOut(SideArcs(s), x, {}), NEW k, k[1] = x
    PROVE  /\ e \in DOMAIN arcs /\ Climbs(s, k, e)
           /\ Ahead(s, e)[1] = SideArcs(s)[e].to /\ Weight(e) = SideArcs(s)[e].weight
<1>1. e \in DOMAIN SideArcs(s) /\ SideArcs(s)[e].open /\ SideArcs(s)[e].from = x
  BY DEF ArcsOut
<1>2. /\ e \in DOMAIN arcs /\ arcs[e].open
      /\ Behind(s, e)[1] = x /\ RankOf[x] <= RankOf[Ahead(s, e)[1]]
      /\ Ahead(s, e)[1] = SideArcs(s)[e].to /\ SideArcs(s)[e].weight = arcs[e].weight
  <2>1. CASE s = "fwd"
    <3>1. e \in Climbers(arcs, RankOf) /\ SideArcs(s)[e] = arcs[e]
      BY <1>1, <2>1 DEF SideArcs, Up
    <3>. QED
      BY <1>1, <2>1, <3>1 DEF Climbers, Ahead, Behind
  <2>2. CASE s # "fwd"
    <3>1. /\ e \in Fallers(arcs, RankOf)
          /\ SideArcs(s)[e] = [from |-> arcs[e].to, to |-> arcs[e].from, last |-> arcs[e].first,
                               weight |-> arcs[e].weight, open |-> arcs[e].open]
      BY <1>1, <2>2 DEF SideArcs, Down
    <3>. QED
      BY <1>1, <2>2, <3>1 DEF Fallers, Ahead, Behind
  <2>. QED
    BY <2>1, <2>2
<1>3. OpenTo(e) /\ Weight(e) = arcs[e].weight
  BY <1>2, OpenAsBuilt DEF IInv
<1>4. x \in Nodes /\ Ahead(s, e)[1] \in Nodes
  <2>1. arcs[e] \in Arc
    BY <1>2 DEF IInv, Shape
  <2>. QED
    BY <1>2, <2>1 DEF Arc, Ahead, Behind
<1>5. level(Ahead(s, e)[1]) >= level(x)
  <2>1. /\ RankOf[x] \in Nat /\ level(x) = RankOf[x] - 1
        /\ RankOf[Ahead(s, e)[1]] \in Nat /\ level(Ahead(s, e)[1]) = RankOf[Ahead(s, e)[1]] - 1
    BY <1>4, LevelIsRank DEF Plain
  <2>. QED
    BY <1>2, <2>1
<1>. QED
  BY <1>2, <1>3, <1>5, NoTurnIsBanned DEF Climbs, Plain

(* When nothing is open that could still improve the meeting, a side has   *)
(* expanded all it can climb to, but for what is no better than that.      *)
LEMMA SideFindsNear ==
    ASSUME IInv, QueryShape, ArcsDriven, Searched, pc = "unpack", Plain, NEW s \in Sides,
           NEW x, NEW c \in Nat, Near(SideArcs(s), {}, Root(s)[1], x, c)
    PROVE  \/ best # NoCost /\ best <= c
           \/ \E k \in settled[s] : k[1] = x /\ dist[s][k] <= c
<1>1. /\ Rooted(s) /\ Covered(s) /\ Offered(s) /\ Hopeless /\ Built
      /\ req.source \in Nodes /\ req.target \in Nodes
  BY DEF Searched
<1>. DEFINE A == SideArcs(s)
            u == Root(s)[1]
            Known(y, d) == \/ best # NoCost /\ best <= d
                           \/ \E k \in settled[s] : k[1] = y /\ dist[s][k] <= d
            S == {y \in Nat \X Nat : Known(y[1], y[2])}
<1>2. AreArcs(A) /\ u \in Nat
  <2>1. AreArcs(arcs) /\ Ranked(arcs, RankOf, G.n)
    BY <1>1, ArcsAreArcs, RanksOfNodes DEF IInv
  <2>2. \A v \in Nodes : v \in Nat
    BY GraphFacts DEF IInv, Shape, Nodes
  <2>. QED
    BY <1>1, <2>1, <2>2, SidesAreArcs DEF SideArcs, Root, Start
<1>3. \A k \in DOMAIN dist[s] : k[1] \in Nat /\ dist[s][k] \in Nat
  BY DEF QueryShape, Label
<1>4. best \in Nat \cup {NoCost}
  BY DEF QueryShape
<1>5. ASSUME NEW k \in DOMAIN dist[s], NEW d \in Nat, dist[s][k] <= d PROVE <<k[1], d>> \in S
  <2>1. CASE k \in settled[s]
    BY <1>3, <1>5, <2>1
  <2>2. CASE [cost |-> dist[s][k], at |-> k] \in heap[s]
    <3>1. best # NoCost /\ dist[s][k] >= best
      BY <1>1, <2>2 DEF Hopeless
    <3>2. best <= d
      BY <1>3, <1>4, <1>5, <3>1
    <3>. QED
      BY <1>3, <3>1, <3>2
  <2>3. CASE Beaten(dist[s][k])
    <3>1. best # NoCost /\ best <= d
      BY <1>3, <1>4, <1>5, <2>3 DEF Beaten
    <3>. QED
      BY <1>3, <3>1
  <2>. QED
    BY <1>1, <2>1, <2>2, <2>3 DEF Covered
<1>6. <<u, 0>> \in S
  BY <1>1, <1>5 DEF Rooted
<1>7. ASSUME NEW y \in Nat, NEW d \in Nat, NEW e \in ArcsOut(A, y, {}), <<y, d>> \in S
      PROVE  <<A[e].to, d + A[e].weight>> \in S
  <2>1. A[e].to \in Nat /\ A[e].weight \in Nat
    BY <1>2 DEF AreArcs, ArcsOut
  <2>2. PICK h \in Nat : h = A[e].weight
    BY <2>1
  <2>3. CASE best # NoCost /\ best <= d
    <3>1. best <= d + h
      BY <1>4, <2>2, <2>3
    <3>. QED
      BY <2>1, <2>2, <2>3, <3>1
  <2>4. ASSUME NEW k \in settled[s], k[1] = y, dist[s][k] <= d
        PROVE  <<A[e].to, d + A[e].weight>> \in S
    <3>1. /\ e \in DOMAIN arcs /\ Climbs(s, k, e)
          /\ Ahead(s, e)[1] = A[e].to /\ Weight(e) = h
      BY <1>1, <2>2, <2>4, SideArcIsClimbed
    <3>2. Ahead(s, e) \in DOMAIN dist[s] /\ dist[s][Ahead(s, e)] <= dist[s][k] + h
      BY <1>1, <3>1 DEF Offered
    <3>3. k \in DOMAIN dist[s]
      BY DEF QueryShape
    <3>4. dist[s][Ahead(s, e)] <= d + h /\ d + h \in Nat
      BY <1>3, <2>4, <3>2, <3>3
    <3>5. <<Ahead(s, e)[1], d + h>> \in S
      BY <1>5, <3>2, <3>4
    <3>. QED
      BY <2>2, <3>1, <3>5
  <2>. QED
    BY <1>7, <2>3, <2>4
<1>. HIDE DEF S, A, u
<1>8. \E d \in Nat : d <= c /\ <<x, d>> \in S
  <2>1. Near(A, {}, u, x, c)
    BY DEF A, u
  <2>. QED
    BY <1>2, <1>6, <1>7, <2>1, NearByDriving
<1>9. PICK d \in Nat : d <= c /\ <<x, d>> \in S
  BY <1>8
<1>10. Known(x, d)
  BY <1>9 DEF S
<1>11. CASE best # NoCost /\ best <= d
  BY <1>4, <1>9, <1>11
<1>12. ASSUME NEW k \in settled[s], k[1] = x, dist[s][k] <= d
       PROVE  \E l \in settled[s] : l[1] = x /\ dist[s][l] <= c
  <2>1. dist[s][k] \in Nat
    BY <1>3 DEF QueryShape
  <2>. QED
    BY <1>9, <1>12, <2>1
<1>. QED
  BY <1>10, <1>11, <1>12

(* ... so that the meeting known costs no more than any way over the arcs. *)
LEMMA BestIsNear ==
    ASSUME IInv, QueryShape, ArcsDriven, KeptBefore, Searched, pc = "unpack", Plain,
           NEW c \in Nat, Near(arcs, {}, req.source, req.target, c)
    PROVE  best # NoCost /\ best <= c
<1>1. /\ Met /\ Built /\ req.source \in Nodes /\ req.target \in Nodes
      /\ Root("fwd")[1] = req.source /\ Root("bwd")[1] = req.target
      /\ "fwd" \in Sides /\ "bwd" \in Sides
  BY DEF Searched, Plain, Root, Start, Sides
<1>2. Over(arcs, RankOf, req.source, req.target, c)
  BY <1>1, WaysClimbAndFall DEF Plain
<1>3. PICK m \in DOMAIN RankOf, a \in Nat, b \in Nat :
         /\ Near(SideArcs("fwd"), {}, req.source, m, a)
         /\ Near(SideArcs("bwd"), {}, req.target, m, b)
         /\ a + b <= c
  BY <1>2 DEF Over, SideArcs
<1>4. best \in Nat \cup {NoCost}
  BY DEF QueryShape
<1>5. \/ best # NoCost /\ best <= a
      \/ \E k \in settled["fwd"] : k[1] = m /\ dist["fwd"][k] <= a
  BY <1>1, <1>3, SideFindsNear
<1>6. \/ best # NoCost /\ best <= b
      \/ \E k \in settled["bwd"] : k[1] = m /\ dist["bwd"][k] <= b
  BY <1>1, <1>3, SideFindsNear
<1>7. ASSUME NEW k \in settled["fwd"], NEW l \in settled["bwd"], k[1] = m, l[1] = m,
             dist["fwd"][k] <= a, dist["bwd"][l] <= b
      PROVE  best # NoCost /\ best <= c
  <2>1. dist["fwd"][k] \in Nat /\ dist["bwd"][l] \in Nat
    BY <1>1 DEF QueryShape
  <2>2. best # NoCost /\ best <= dist["fwd"][k] + dist["bwd"][l]
    BY <1>1, <1>7 DEF Met
  <2>. QED
    BY <1>3, <1>4, <1>7, <2>1, <2>2
<1>8. best # NoCost /\ (best <= a \/ best <= b) => best <= c
  BY <1>3, <1>4
<1>. QED
  BY <1>5, <1>6, <1>7, <1>8

(* What dijkstra can drive to the target for is a way over the arcs.       *)
LEMMA CostsAreNear ==
    ASSUME IInv, ArcsDriven, G.restrictions = {}, req.source \in Nodes,
           NEW c \in CostsTo(G, P, req.source, req.target)
    PROVE  c \in Nat /\ Near(arcs, {}, req.source, req.target, c)
<1>. DEFINE least == LeastCosts(G, P, req.source)
            S == {d \in Label \X Nat : Near(arcs, {}, req.source, d[1][1], d[2])}
<1>1. IsGraph(G) /\ IsProfile(P) /\ req.source \in Nat /\ AreArcs(arcs)
  <2>1. req \in Requests
    BY DEF IInv, Shape
  <2>. QED
    BY <2>1, BuildAssumption, ArcsAreArcs DEF IInv, IsBuildRequest, G, P
<1>2. <<Start(req.source), 0>> \in S
  BY <1>1, NearGoesOn DEF Start, Label
<1>3. ASSUME NEW k \in Label, NEW d \in Nat, NEW i \in exits(G, P, k), <<k, d>> \in S
      PROVE  <<HeadOf(G, i), d + edge_weight(G, P, i)>> \in S
  <2>1. i \in DOMAIN G.edges /\ usable(G, P, i) /\ G.edges[i].from = k[1]
    BY DEF exits, outgoing_edges
  <2>2. /\ i \in DOMAIN arcs /\ arcs[i].open /\ arcs[i].from = k[1] /\ arcs[i].to = G.edges[i].to
        /\ arcs[i].weight = edge_weight(G, P, i)
    <3>1. i \in DOMAIN arcs
      BY <2>1, GraphFacts DEF IInv, Shape
    <3>. QED
      BY <2>1, <3>1 DEF ArcsDriven
  <2>3. edge_weight(G, P, i) \in Nat /\ HeadOf(G, i) \in Label /\ HeadOf(G, i)[1] = G.edges[i].to
    BY <1>1, <2>1, EdgeIsSound
  <2>4. i \in ArcsOut(arcs, k[1], {}) /\ k[1] \in Nat
    BY <2>2 DEF ArcsOut, Label
  <2>5. Near(arcs, {}, req.source, k[1], d)
    BY <1>3
  <2>6. Near(arcs, {}, req.source, arcs[i].to, d + arcs[i].weight)
    BY <1>1, <2>4, <2>5, NearGoesOn
  <2>7. PICK h \in Nat : h = edge_weight(G, P, i)
    BY <2>3
  <2>8. d + h \in Nat
    OBVIOUS
  <2>. QED
    BY <2>2, <2>3, <2>6, <2>7, <2>8
<1>. HIDE DEF S
<1>4. \A k \in DOMAIN least : <<k, least[k]>> \in S
  <2>1. \A k \in Label : \A d \in Nat : \A i \in exits(G, P, k) :
           <<k, d>> \in S => <<HeadOf(G, i), d + edge_weight(G, P, i)>> \in S
    BY <1>3
  <2>. HIDE DEF least
  <2>2. least = LeastCosts(G, P, req.source)
    BY DEF least
  <2>. QED
    BY <1>1, <1>2, <2>1, <2>2, LeastCostsByDriving
<1>5. PICK k \in DOMAIN least : k[1] = req.target /\ c = least[k]
  BY DEF CostsTo
<1>6. <<k, c>> \in S
  BY <1>4, <1>5
<1>. QED
  BY <1>5, <1>6 DEF S

LEMMA BestIsLeast ==
    ASSUME IInv, QueryShape, ArcsDriven, KeptBefore, Searched, pc = "unpack", Plain,
           NEW c \in CostsTo(G, P, req.source, req.target)
    PROVE  best # NoCost /\ best <= c
<1>1. c \in Nat /\ Near(arcs, {}, req.source, req.target, c)
  BY CostsAreNear DEF Searched, Plain
<1>. QED
  BY <1>1, BestIsNear

-----------------------------------------------------------------------------
(* The labels a search can go back over.                                   *)

(* How labels came about: each but the root has an expanded one before it, *)
(* from which an arc climbs to it for what it costs more ...               *)
Linked(s) ==
    /\ IsFiniteSet(DOMAIN dist[s])
    /\ \A k \in DOMAIN dist[s] : k = Root(s) \/ k \in DOMAIN prev[s]
    /\ \A k \in DOMAIN prev[s] :
          /\ prev[s][k] \in settled[s]
          /\ \E a \in DOMAIN arcs :
                /\ Climbs(s, prev[s][k], a) /\ Ahead(s, a) = k
                /\ dist[s][k] = dist[s][prev[s][k]] + Weight(a)

(* ... and going back over them comes to an end.                           *)
Hops(s, h) ==
    /\ h \in [DOMAIN dist[s] -> Nat]
    /\ \A k \in DOMAIN dist[s] : h[k] <= Cardinality(settled[s])
    /\ \A k \in DOMAIN prev[s] : h[prev[s][k]] < h[k]

(* Where the sides met they cost no more than the best meeting.            *)
Agreed ==
    best # NoCost =>
        /\ meeting[1] \in DOMAIN dist["fwd"] /\ meeting[2] \in DOMAIN dist["bwd"]
        /\ meeting[1][1] = meeting[2][1]
        /\ dist["fwd"][meeting[1]] + dist["bwd"][meeting[2]] <= best

Traced ==
    /\ pc = "build" => best = NoCost
    /\ pc \in {"fwd", "bwd", "check", "unpack"} =>
          Agreed /\ \A s \in Sides : Linked(s) /\ \E h : Hops(s, h)

LEMMA SettleLinked ==
    ASSUME Shape, QueryShape, Searched, NEW side \in Sides, NEW e \in heap[side], Settle(side, e),
           Linked(side)
    PROVE  Linked(side)'
<1>1. /\ UNCHANGED buildVars /\ settled'[side] = settled[side] \cup {e.at} /\ Expand(side, e)
  BY DEF Settle, QueryShape
<1>2. /\ req' = req /\ arcs' = arcs
      /\ \A s, k, a : Climbs(s, k, a)' = Climbs(s, k, a)
      /\ \A s, a : Ahead(s, a)' = Ahead(s, a) /\ Weight(a)' = Weight(a)
      /\ \A s : Root(s)' = Root(s)
  BY <1>1, BuildKept
<1>3. \A k \in DOMAIN dist'[side] :
         Untouched(side, k) \/ \E a \in DOMAIN arcs : Improves(side, e, k, a)
  BY <1>1, ExpandFacts
<1>4. /\ e.cost = dist[side][e.at]
      /\ \A k \in settled'[side] : k \in DOMAIN dist[side] /\ dist'[side][k] = dist[side][k]
      /\ DOMAIN prev'[side] \subseteq DOMAIN dist'[side]
  <2>1. QueryShape'
    BY SettleType
  <2>. QED
    BY <2>1, SettlesBest, SettledKept DEF Untouched, QueryShape
<1>5. IsFiniteSet(DOMAIN dist'[side])
  <2>. DEFINE H == {Ahead(side, a) : a \in DOMAIN arcs}
              f == [a \in DOMAIN arcs |-> Ahead(side, a)]
  <2>1. f \in Surjection(DOMAIN arcs, H)
    BY DEF Surjection
  <2>2. IsFiniteSet(DOMAIN arcs)
    BY ArcsAreArcs DEF AreArcs
  <2>3. IsFiniteSet(H)
    BY <2>1, <2>2, FS_Surjection
  <2>4. IsFiniteSet(DOMAIN dist[side] \cup H)
    BY <2>3, FS_Union DEF Linked
  <2>5. DOMAIN dist'[side] \subseteq DOMAIN dist[side] \cup H
    BY <1>3 DEF Untouched, Improves
  <2>. QED
    BY <2>4, <2>5, FS_Subset
<1>6. ASSUME NEW k \in DOMAIN dist'[side] PROVE k = Root(side) \/ k \in DOMAIN prev'[side]
  BY <1>3 DEF Linked, Untouched, Improves
<1>7. ASSUME NEW k \in DOMAIN prev'[side]
      PROVE  /\ prev'[side][k] \in settled'[side]
             /\ \E a \in DOMAIN arcs :
                   /\ Climbs(side, prev'[side][k], a) /\ Ahead(side, a) = k
                   /\ dist'[side][k] = dist'[side][prev'[side][k]] + Weight(a)
  <2>1. CASE Untouched(side, k)
    <3>1. k \in DOMAIN prev[side] /\ prev'[side][k] = prev[side][k] /\ dist'[side][k] = dist[side][k]
      BY <2>1 DEF Untouched
    <3>2. /\ prev[side][k] \in settled[side]
          /\ \E a \in DOMAIN arcs :
                /\ Climbs(side, prev[side][k], a) /\ Ahead(side, a) = k
                /\ dist[side][k] = dist[side][prev[side][k]] + Weight(a)
      BY <3>1 DEF Linked
    <3>3. prev[side][k] \in settled'[side] /\ dist'[side][prev[side][k]] = dist[side][prev[side][k]]
      BY <1>1, <1>4, <3>2
    <3>. QED
      BY <3>1, <3>2, <3>3
  <2>2. ASSUME NEW a \in DOMAIN arcs, Improves(side, e, k, a)
        PROVE  /\ prev'[side][k] = e.at
               /\ Climbs(side, e.at, a) /\ Ahead(side, a) = k
               /\ dist'[side][k] = e.cost + Weight(a)
    BY <2>2 DEF Improves
  <2>3. e.at \in settled'[side] /\ dist'[side][e.at] = e.cost
    BY <1>1, <1>4
  <2>. QED
    BY <1>3, <1>4, <2>1, <2>2, <2>3
<1>. QED
  BY <1>2, <1>5, <1>6, <1>7 DEF Linked

LEMMA SettleHops ==
    ASSUME Shape, QueryShape, Searched, NEW side \in Sides, NEW e \in heap[side], Settle(side, e),
           Linked(side), NEW h, Hops(side, h)
    PROVE  \E g : Hops(side, g)'
<1>1. /\ settled'[side] = settled[side] \cup {e.at} /\ Expand(side, e) /\ e.at \notin settled[side]
  BY DEF Settle, QueryShape, Pruned
<1>2. \A k \in DOMAIN dist'[side] :
         Untouched(side, k) \/ \E a \in DOMAIN arcs : Improves(side, e, k, a)
  BY <1>1, ExpandFacts
<1>3. /\ \A k \in settled'[side] : k \in DOMAIN dist'[side] /\ Untouched(side, k)
      /\ DOMAIN prev'[side] \subseteq DOMAIN dist'[side]
  <2>1. QueryShape'
    BY SettleType
  <2>. QED
    BY <2>1, SettledKept DEF QueryShape
<1>4. /\ IsFiniteSet(settled[side])
      /\ Cardinality(settled'[side]) = Cardinality(settled[side]) + 1
      /\ Cardinality(settled[side]) \in Nat
  <2>1. IsFiniteSet(settled[side])
    BY FS_Subset DEF Linked, QueryShape
  <2>. QED
    BY <1>1, <2>1, FS_AddElement, FS_CardinalityType
<1>. DEFINE old == {k \in DOMAIN dist'[side] : Untouched(side, k)}
            n == h[e.at] + 1
            g == [k \in DOMAIN dist'[side] |-> IF k \in old THEN h[k] ELSE n]
<1>5. /\ \A k \in old : k \in DOMAIN dist[side] /\ h[k] \in Nat /\ h[k] <= Cardinality(settled[side])
      /\ e.at \in old /\ n \in Nat /\ n <= Cardinality(settled[side]) + 1
  <2>1. \A k \in old : k \in DOMAIN dist[side] /\ h[k] \in Nat /\ h[k] <= Cardinality(settled[side])
    BY DEF Untouched, Hops
  <2>2. e.at \in old
    BY <1>1, <1>3
  <2>. QED
    BY <1>4, <2>1, <2>2
<1>. HIDE DEF n
<1>6. g \in [DOMAIN dist'[side] -> Nat]
  BY <1>5
<1>7. \A k \in DOMAIN dist'[side] : g[k] <= Cardinality(settled'[side])
  BY <1>4, <1>5
<1>8. ASSUME NEW k \in DOMAIN prev'[side] PROVE g[prev'[side][k]] < g[k]
  <2>1. CASE k \in old
    <3>1. k \in DOMAIN prev[side] /\ prev'[side][k] = prev[side][k]
      BY <2>1 DEF Untouched
    <3>2. prev[side][k] \in settled[side] /\ h[prev[side][k]] < h[k]
      BY <3>1 DEF Linked, Hops
    <3>3. prev[side][k] \in old
      BY <1>1, <1>3, <3>2
    <3>. QED
      BY <2>1, <3>1, <3>2, <3>3
  <2>2. CASE k \notin old
    <3>1. prev'[side][k] = e.at
      BY <1>2, <1>3, <2>2 DEF Improves
    <3>2. g[e.at] = h[e.at] /\ g[k] = n /\ h[e.at] \in Nat
      BY <1>3, <1>5, <2>2
    <3>. QED
      BY <3>1, <3>2 DEF n
  <2>. QED
    BY <2>1, <2>2
<1>. HIDE DEF g
<1>. QED
  BY <1>6, <1>7, <1>8 DEF Hops

LEMMA SettleAgreed ==
    ASSUME Shape, QueryShape, Searched, Agreed,
           NEW side \in Sides, NEW e \in heap[side], Settle(side, e)
    PROVE  Agreed'
<1>1. Expand(side, e) /\ Meet(side, e) /\ settled'[side] = settled[side] \cup {e.at}
  BY DEF Settle, QueryShape
<1>2. /\ \A k \in DOMAIN dist[side] : k \in DOMAIN dist'[side] /\ dist'[side][k] <= dist[side][k]
      /\ \A s \in Sides \ {side} : dist'[s] = dist[s]
      /\ Other(side) \in Sides /\ Other(side) # side
  BY <1>1, ExpandFacts DEF Other, Sides
<1>3. /\ \A s \in Sides : \A k \in DOMAIN dist[s] : dist[s][k] \in Nat
      /\ \A s \in Sides : \A k \in DOMAIN dist'[s] : dist'[s][k] \in Nat
      /\ best \in Nat \cup {NoCost}
  <2>1. QueryShape'
    BY SettleType
  <2>. QED
    BY <2>1 DEF QueryShape
<1>4. /\ e.at \in DOMAIN dist'[side] /\ dist'[side][e.at] = e.cost
  <2>1. e.at \in settled'[side]
    BY <1>1
  <2>. QED
    BY <1>2, <2>1, SettlesBest, SettledKept DEF Untouched
<1>5. \A s \in Sides : \A k \in DOMAIN dist[s] : k \in DOMAIN dist'[s] /\ dist'[s][k] <= dist[s][k]
  BY <1>2, <1>3
<1>6. CASE UNCHANGED <<best, meeting>>
  <2>. SUFFICES ASSUME best # NoCost
                PROVE  /\ meeting[1] \in DOMAIN dist'["fwd"] /\ meeting[2] \in DOMAIN dist'["bwd"]
                       /\ meeting[1][1] = meeting[2][1]
                       /\ dist'["fwd"][meeting[1]] + dist'["bwd"][meeting[2]] <= best
    BY <1>6 DEF Agreed
  <2>1. /\ meeting[1] \in DOMAIN dist["fwd"] /\ meeting[2] \in DOMAIN dist["bwd"]
        /\ meeting[1][1] = meeting[2][1]
        /\ dist["fwd"][meeting[1]] + dist["bwd"][meeting[2]] <= best
    BY DEF Agreed
  <2>2. /\ meeting[1] \in DOMAIN dist'["fwd"] /\ dist'["fwd"][meeting[1]] <= dist["fwd"][meeting[1]]
        /\ meeting[2] \in DOMAIN dist'["bwd"] /\ dist'["bwd"][meeting[2]] <= dist["bwd"][meeting[2]]
    BY <1>5, <2>1 DEF Sides
  <2>3. /\ dist'["fwd"][meeting[1]] \in Nat /\ dist["fwd"][meeting[1]] \in Nat
        /\ dist'["bwd"][meeting[2]] \in Nat /\ dist["bwd"][meeting[2]] \in Nat /\ best \in Nat
    BY <1>3, <2>1, <2>2 DEF Sides
  <2>. QED
    BY <2>1, <2>2, <2>3
<1>7. ASSUME NEW k \in Meetings(side, e), best' = e.cost + dist[Other(side)][k],
             meeting' = IF side = "fwd" THEN <<e.at, k>> ELSE <<k, e.at>>
      PROVE  Agreed'
  <2>1. /\ k \in DOMAIN dist[Other(side)] /\ k[1] = e.at[1]
        /\ dist'[Other(side)] = dist[Other(side)] /\ dist[Other(side)][k] \in Nat /\ e.cost \in Nat
    BY <1>2, <1>3, <1>4 DEF Meetings
  <2>2. CASE side = "fwd"
    <3>1. Other(side) = "bwd" /\ meeting'[1] = e.at /\ meeting'[2] = k
      BY <1>7, <2>2 DEF Other
    <3>2. dist'["fwd"][e.at] + dist'["bwd"][k] <= best'
      BY <1>4, <1>7, <2>1, <2>2, <3>1
    <3>. QED
      BY <1>4, <2>1, <2>2, <3>1, <3>2 DEF Agreed
  <2>3. CASE side = "bwd"
    <3>1. Other(side) = "fwd" /\ meeting'[1] = k /\ meeting'[2] = e.at
      BY <1>7, <2>3 DEF Other
    <3>2. dist'["fwd"][k] + dist'["bwd"][e.at] <= best'
      BY <1>4, <1>7, <2>1, <2>3, <3>1
    <3>. QED
      BY <1>4, <2>1, <2>3, <3>1, <3>2 DEF Agreed
  <2>. QED
    BY <2>2, <2>3 DEF Sides
<1>8. \/ UNCHANGED <<best, meeting>>
      \/ \E k \in Meetings(side, e) :
            /\ best' = e.cost + dist[Other(side)][k]
            /\ meeting' = IF side = "fwd" THEN <<e.at, k>> ELSE <<k, e.at>>
  BY <1>1 DEF Meet
<1>. QED
  BY <1>6, <1>7, <1>8

LEMMA AskTraced == ASSUME Shape, QueryShape, Traced, Ask PROVE Traced'
<1>1. /\ pc' = "fwd" /\ UNCHANGED buildVars /\ best' = NoCost
      /\ \A s \in Sides : /\ DOMAIN dist'[s] = {Root(s)} /\ dist'[s][Root(s)] = 0
                          /\ DOMAIN prev'[s] = {} /\ settled'[s] = {}
  BY DEF Ask, Traced, QueryShape, Root, Sides
<1>2. \A s : Root(s)' = Root(s)
  BY <1>1, BuildKept
<1>3. ASSUME NEW s \in Sides PROVE Linked(s)' /\ \E h : Hops(s, h)'
  <2>1. IsFiniteSet({Root(s)})
    BY FS_Singleton
  <2>2. Linked(s)'
    BY <1>1, <1>2, <2>1 DEF Linked
  <2>3. Cardinality({}) = 0
    BY FS_EmptySet
  <2>. DEFINE none == [k \in DOMAIN dist'[s] |-> 0]
  <2>4. /\ none \in [DOMAIN dist'[s] -> Nat]
        /\ \A k \in DOMAIN dist'[s] : none[k] <= Cardinality(settled'[s])
        /\ \A k \in DOMAIN prev'[s] : none[prev'[s][k]] < none[k]
    <3>1. settled'[s] = {} /\ DOMAIN prev'[s] = {}
      BY <1>1
    <3>2. Cardinality(settled'[s]) = 0
      BY <2>3, <3>1
    <3>. QED
      BY <3>1, <3>2
  <2>. HIDE DEF none
  <2>5. \E h : Hops(s, h)'
    BY <2>4 DEF Hops
  <2>. QED
    BY <2>2, <2>5
<1>. QED
  BY <1>1, <1>3 DEF Traced, Agreed

LEMMA TracedStep == Shape /\ QueryShape /\ Searched /\ Traced /\ [Next]_vars => Traced'
<1>. SUFFICES ASSUME Shape, QueryShape, Searched, Traced, [Next]_vars PROVE Traced'
  OBVIOUS
<1>1. CASE Build
  BY <1>1 DEF Build, queryVars, Traced
<1>2. CASE RejectNode \/ AskForNothing \/ Answer
  BY <1>2 DEF RejectNode, AskForNothing, Answer, Traced
<1>3. CASE Ask
  BY <1>3, AskTraced
<1>4. CASE \/ UNCHANGED vars \/ Check
           \/ \E side \in Sides : Rest(side) \/ \E e \in heap[side] : Drop(side, e)
  <2>1. /\ UNCHANGED <<buildVars, dist, prev, settled, best, meeting>>
        /\ pc' \in {"fwd", "bwd", "check", "unpack"} => pc \in {"fwd", "bwd", "check", "unpack"}
        /\ pc' = "build" => pc = "build"
    BY <1>4 DEF vars, queryVars, Check, Rest, Drop, After, Sides
  <2>2. /\ arcs' = arcs /\ \A s, k, a : Climbs(s, k, a)' = Climbs(s, k, a)
        /\ \A s, a : Ahead(s, a)' = Ahead(s, a) /\ Weight(a)' = Weight(a)
        /\ \A s : Root(s)' = Root(s)
    BY <2>1, BuildKept
  <2>3. \A s : Linked(s)' = Linked(s) /\ \A h : Hops(s, h)' = Hops(s, h)
    BY <2>1, <2>2 DEF Linked, Hops
  <2>4. Agreed' = Agreed
    BY <2>1 DEF Agreed
  <2>. QED
    BY <2>1, <2>3, <2>4 DEF Traced
<1>5. ASSUME NEW side \in Sides, NEW e \in heap[side], Settle(side, e) PROVE Traced'
  <2>1. /\ UNCHANGED buildVars /\ pc = side /\ pc' # "build" /\ Expand(side, e)
        /\ \A s \in Sides \ {side} : settled'[s] = settled[s]
    BY <1>5 DEF Settle, QueryShape, After
  <2>2. Agreed /\ \A s \in Sides : Linked(s) /\ \E h : Hops(s, h)
    BY <2>1 DEF Traced, Sides
  <2>3. Linked(side)' /\ (\E g : Hops(side, g)') /\ Agreed'
    BY <1>5, <2>2, SettleLinked, SettleHops, SettleAgreed
  <2>4. /\ arcs' = arcs /\ \A s, k, a : Climbs(s, k, a)' = Climbs(s, k, a)
        /\ \A s, a : Ahead(s, a)' = Ahead(s, a) /\ Weight(a)' = Weight(a)
        /\ \A s : Root(s)' = Root(s)
    BY <2>1, BuildKept
  <2>5. \A s \in Sides \ {side} : dist'[s] = dist[s] /\ prev'[s] = prev[s]
    BY <2>1, ExpandFacts
  <2>6. ASSUME NEW s \in Sides \ {side} PROVE Linked(s)' /\ \E h : Hops(s, h)'
    <3>1. Linked(s) /\ \E h : Hops(s, h)
      BY <2>2
    <3>2. Linked(s)'
      BY <2>1, <2>4, <2>5, <3>1 DEF Linked
    <3>3. \A h : Hops(s, h)' <=> Hops(s, h)
      BY <2>1, <2>5 DEF Hops
    <3>. QED
      BY <3>1, <3>2, <3>3
  <2>. QED
    BY <2>1, <2>3, <2>6 DEF Traced
<1>. QED
  BY <1>1, <1>2, <1>3, <1>4, <1>5 DEF Next

(* The labels L go back by p from k to one at the node stop.               *)
GoesBack(p, L, k, stop) ==
    /\ L # <<>> /\ L[1] = k /\ L[Len(L)][1] = stop
    /\ \A j \in 1 .. Len(L) - 1 : L[j] \in DOMAIN p /\ L[j + 1] = p[L[j]]

(* What Trace reads off, if going back comes to an end soon enough.        *)
LEMMA TraceGoesBack ==
    ASSUME NEW D, NEW p, DOMAIN p \subseteq D, \A z \in DOMAIN p : p[z] \in D,
           NEW k \in D, NEW stop, \A z \in D : z \in DOMAIN p \/ z[1] = stop,
           NEW h \in [D -> Nat], \A z \in DOMAIN p : h[p[z]] < h[z],
           Cardinality(DOMAIN p) \in Nat, h[k] <= Cardinality(DOMAIN p) + 1
    PROVE  \E L \in Seq(D) : /\ GoesBack(p, L, k, stop)
                             /\ Trace(p, k, stop) = [j \in DOMAIN L |-> L[j][1]]
<1>. DEFINE S == Seq(D) \ {<<>>}
            x == <<k>>
            Ended(t) == t[Len(t)][1] = stop \/ t[Len(t)] \notin DOMAIN p
            onward(t) == IF Ended(t) THEN t ELSE Append(t, p[t[Len(t)]])
            step == [n \in Nat |-> [t \in S |-> onward(t)]]
            Labels(a) == [j \in Nat |->
                            IF j = 0 THEN <<k>>
                            ELSE LET t == a[j - 1]
                                     z == t[Len(t)]
                                 IN  IF z[1] = stop \/ z \notin DOMAIN p THEN t
                                                                         ELSE Append(t, p[z])]
            f == CHOOSE a : a = Labels(a)
            N == Cardinality(DOMAIN p) + 1
<1>1. x \in S
  OBVIOUS
<1>2. ASSUME NEW t \in S PROVE onward(t) \in S
  <2>1. CASE Ended(t)
    BY <2>1
  <2>2. CASE ~Ended(t)
    <3>1. p[t[Len(t)]] \in D
      BY <2>2
    <3>. QED
      BY <2>2, <3>1
  <2>. QED
    BY <2>1, <2>2
<1>3. \A a : Labels(a) = [j \in Nat |-> IF j = 0 THEN x ELSE onward(a[j - 1])]
  OBVIOUS
<1>. HIDE DEF onward, S, x, Labels
<1>4. step \in [Nat -> [S -> S]] /\ \A n \in Nat : \A t \in S : step[n][t] = onward(t)
  BY <1>2
<1>. HIDE DEF step
<1>5. PICK g : Recurs(g, S, x, step)
  BY <1>1, <1>4, RecursionOverNat DEF IsRecursion
<1>6. /\ g \in [Nat -> S] /\ g[0] = x /\ \A n \in Nat : g[n + 1] = onward(g[n])
  BY <1>4, <1>5 DEF Recurs
<1>7. g = Labels(g)
  <2>1. ASSUME NEW j \in Nat PROVE g[j] = IF j = 0 THEN x ELSE onward(g[j - 1])
    <3>1. CASE j = 0
      BY <1>6, <3>1
    <3>2. CASE j # 0
      <4>1. j - 1 \in Nat /\ (j - 1) + 1 = j
        BY <3>2
      <4>2. g[(j - 1) + 1] = onward(g[j - 1])
        BY <1>6, <4>1
      <4>. QED
        BY <3>2, <4>1, <4>2
    <3>. QED
      BY <3>1, <3>2
  <2>. QED
    BY <1>3, <1>6, <2>1
<1>8. f = Labels(f)
  BY <1>7
<1>9. Trace(p, k, stop) = [j \in DOMAIN f[N] |-> f[N][j][1]]
  BY DEF Trace, Labels
<1>. HIDE DEF f
<1>10. f[0] = x /\ \A n \in Nat : f[n + 1] = onward(f[n])
  <2>1. f = [j \in Nat |-> IF j = 0 THEN x ELSE onward(f[j - 1])]
    BY <1>3, <1>8
  <2>2. f[0] = x
    BY <2>1
  <2>3. ASSUME NEW n \in Nat PROVE f[n + 1] = onward(f[n])
    <3>1. n + 1 \in Nat /\ n + 1 # 0 /\ (n + 1) - 1 = n
      OBVIOUS
    <3>. QED
      BY <2>1, <3>1
  <2>. QED
    BY <2>2, <2>3
<1>. DEFINE Back(t) == /\ t \in S /\ t[1] = k
                       /\ \A j \in 1 .. Len(t) - 1 : t[j] \in DOMAIN p /\ t[j + 1] = p[t[j]]
            T == {n \in Nat : Back(f[n]) /\ (Ended(f[n]) \/ h[f[n][Len(f[n])]] + n <= h[k])}
<1>11. 0 \in T
  <2>1. Back(x) /\ h[x[Len(x)]] + 0 <= h[k]
    BY <1>1 DEF x
  <2>. QED
    BY <1>10, <2>1
<1>12. ASSUME NEW n \in Nat, n \in T PROVE n + 1 \in T
  <2>. DEFINE t == f[n]
              z == t[Len(t)]
  <2>1. Back(t) /\ (Ended(t) \/ h[z] + n <= h[k]) /\ f[n + 1] = onward(t)
    BY <1>10, <1>12
  <2>. HIDE DEF t
  <2>2. CASE Ended(t)
    <3>1. f[n + 1] = t
      BY <2>1, <2>2 DEF onward
    <3>. QED
      BY <2>1, <2>2, <3>1
  <2>3. CASE ~Ended(t)
    <3>1. /\ f[n + 1] = Append(t, p[z]) /\ z \in DOMAIN p /\ p[z] \in D /\ z \in D
          /\ t \in Seq(D) /\ Len(t) \in Nat \ {0}
      BY <2>1, <2>3 DEF onward, S
    <3>. DEFINE s == Append(t, p[z])
    <3>2. /\ s \in Seq(D) /\ s # <<>> /\ Len(s) = Len(t) + 1 /\ s[Len(s)] = p[z]
          /\ \A j \in 1 .. Len(t) : s[j] = t[j]
      BY <3>1
    <3>. HIDE DEF s
    <3>3. Back(s)
      <4>1. s[1] = k
        <5>1. 1 \in 1 .. Len(t)
          BY <3>1
        <5>. QED
          BY <2>1, <3>2, <5>1
      <4>2. ASSUME NEW j \in 1 .. Len(s) - 1 PROVE s[j] \in DOMAIN p /\ s[j + 1] = p[s[j]]
        <5>1. CASE j = Len(t)
          BY <3>1, <3>2, <5>1
        <5>2. CASE j # Len(t)
          <6>1. j \in 1 .. Len(t) - 1 /\ j \in 1 .. Len(t) /\ j + 1 \in 1 .. Len(t)
            BY <3>1, <3>2, <5>2
          <6>. QED
            BY <2>1, <3>2, <6>1
        <5>. QED
          BY <5>1, <5>2
      <4>. QED
        BY <3>2, <4>1, <4>2 DEF S
    <3>4. h[s[Len(s)]] + (n + 1) <= h[k]
      <4>1. h[p[z]] < h[z] /\ h[z] \in Nat /\ h[p[z]] \in Nat /\ h[z] + n <= h[k] /\ h[k] \in Nat
        BY <2>1, <2>3, <3>1
      <4>2. h[p[z]] + (n + 1) <= h[k]
        BY <4>1
      <4>. QED
        BY <3>2, <4>2
    <3>5. f[n + 1] = s
      BY <3>1 DEF s
    <3>. HIDE DEF z
    <3>. QED
      BY <3>3, <3>4, <3>5
  <2>. QED
    BY <2>2, <2>3
<1>13. N \in T
  <2>1. Nat \subseteq T
    <3>. HIDE DEF T
    <3>. QED
      BY <1>11, <1>12, InductionOverNat
  <2>. QED
    BY <2>1
<1>. DEFINE L == f[N]
            z == L[Len(L)]
<1>14. Back(L) /\ (Ended(L) \/ h[z] + N <= h[k]) /\ L \in Seq(D) /\ L # <<>> /\ z \in D
  BY <1>13 DEF S
<1>15. z[1] = stop
  <2>1. CASE ~Ended(L)
    <3>1. z \in DOMAIN p /\ p[z] \in D /\ h[z] + N <= h[k]
      BY <1>14, <2>1
    <3>2. h[p[z]] < h[z] /\ h[z] \in Nat /\ h[p[z]] \in Nat /\ h[k] <= N /\ h[k] \in Nat /\ N \in Nat
      BY <1>14, <3>1
    <3>. QED
      BY <3>1, <3>2
  <2>2. CASE Ended(L)
    BY <1>14, <2>2
  <2>. QED
    BY <2>1, <2>2
<1>. QED
  BY <1>9, <1>14, <1>15 DEF GoesBack

-----------------------------------------------------------------------------
(* Drives by open roads, and what unpacking an arc makes of it.            *)

(* From u over the nodes t by open roads: the roads i, the costs s.        *)
NodeAt(u, t, j) == IF j = 0 THEN u ELSE t[j]

Rides(u, t, n, c) ==
    \E i \in [1 .. n -> DOMAIN G.edges], s \in [0 .. n -> Nat] :
       /\ s[0] = 0 /\ s[n] = c
       /\ \A j \in 1 .. n :
             /\ usable(G, P, i[j])
             /\ G.edges[i[j]].from = NodeAt(u, t, j - 1) /\ G.edges[i[j]].to = t[j]
             /\ s[j] = s[j - 1] + edge_weight(G, P, i[j])

Goes(u, t, w, c) ==
    t \in Seq(Nodes) /\ NodeAt(u, t, Len(t)) = w /\ Rides(u, t, Len(t), c)

Within(u, t, w, c) == \E d \in Nat : d <= c /\ Goes(u, t, w, d)

LEMMA RoadCosts == ASSUME Shape, NEW i \in DOMAIN G.edges PROVE edge_weight(G, P, i) \in Nat
<1>1. IsGraph(G) /\ IsProfile(P)
  BY BuildAssumption DEF Shape, IsBuildRequest, G, P
<1>. QED
  BY <1>1, EdgeIsSound

LEMMA GoesOn ==
    ASSUME Shape, NEW u, NEW v, NEW w, NEW t, NEW q, NEW c \in Nat, NEW d \in Nat,
           Goes(u, t, v, c), Goes(v, q, w, d)
    PROVE  Goes(u, t \o q, w, c + d)
<1>1. /\ t \in Seq(Nodes) /\ q \in Seq(Nodes) /\ Len(t) \in Nat /\ Len(q) \in Nat
      /\ NodeAt(u, t, Len(t)) = v /\ NodeAt(v, q, Len(q)) = w
  BY DEF Goes
<1>2. PICK m \in Nat : m = Len(t)
  BY <1>1
<1>3. PICK n \in Nat : n = Len(q)
  BY <1>1
<1>4. PICK i \in [1 .. m -> DOMAIN G.edges], s \in [0 .. m -> Nat] :
          /\ s[0] = 0 /\ s[m] = c
          /\ \A j \in 1 .. m :
                /\ usable(G, P, i[j])
                /\ G.edges[i[j]].from = NodeAt(u, t, j - 1) /\ G.edges[i[j]].to = t[j]
                /\ s[j] = s[j - 1] + edge_weight(G, P, i[j])
  BY <1>2 DEF Goes, Rides
<1>5. PICK k \in [1 .. n -> DOMAIN G.edges], r \in [0 .. n -> Nat] :
          /\ r[0] = 0 /\ r[n] = d
          /\ \A j \in 1 .. n :
                /\ usable(G, P, k[j])
                /\ G.edges[k[j]].from = NodeAt(v, q, j - 1) /\ G.edges[k[j]].to = q[j]
                /\ r[j] = r[j - 1] + edge_weight(G, P, k[j])
  BY <1>3 DEF Goes, Rides
<1>. DEFINE tq == t \o q
            I == [j \in 1 .. m + n |-> IF j <= m THEN i[j] ELSE k[j - m]]
            R == [j \in 0 .. m + n |-> IF j <= m THEN s[j] ELSE c + r[j - m]]
<1>6. /\ tq \in Seq(Nodes) /\ Len(tq) = m + n
      /\ \A j \in 1 .. m : tq[j] = t[j]
      /\ \A j \in 1 .. n : tq[m + j] = q[j]
  BY <1>1, <1>2, <1>3
<1>7. I \in [1 .. m + n -> DOMAIN G.edges]
  <2>1. \A j \in 1 .. m + n : ~(j <= m) => j - m \in 1 .. n
    BY <1>2, <1>3
  <2>. QED
    BY <1>4, <1>5, <2>1
<1>8. R \in [0 .. m + n -> Nat]
  <2>1. ASSUME NEW j \in 0 .. m + n, ~(j <= m) PROVE c + r[j - m] \in Nat
    <3>1. j - m \in 0 .. n
      BY <2>1
    <3>. QED
      BY <1>5, <3>1
  <2>2. \A j \in 0 .. m + n : j <= m => s[j] \in Nat
    BY <1>4
  <2>. QED
    BY <2>1, <2>2
<1>9. \A j \in 0 .. m : R[j] = s[j]
  OBVIOUS
<1>10. \A j \in 0 .. n : R[m + j] = c + r[j]
  <2>1. R[m] = c + r[0]
    BY <1>4, <1>5
  <2>2. ASSUME NEW j \in 1 .. n PROVE R[m + j] = c + r[j]
    <3>1. m + j \in 0 .. m + n /\ ~(m + j <= m) /\ (m + j) - m = j
      OBVIOUS
    <3>. QED
      BY <3>1
  <2>3. \A j \in 0 .. n : j = 0 \/ j \in 1 .. n
    OBVIOUS
  <2>4. m + 0 = m
    OBVIOUS
  <2>. QED
    BY <2>1, <2>2, <2>3, <2>4
<1>11. (\A j \in 1 .. m : I[j] = i[j]) /\ \A j \in 1 .. n : I[m + j] = k[j]
  <2>1. \A j \in 1 .. n : m + j \in 1 .. m + n /\ ~(m + j <= m) /\ (m + j) - m = j
    OBVIOUS
  <2>. QED
    BY <2>1
<1>. HIDE DEF tq, I, R
<1>12. \A j \in 0 .. m : NodeAt(u, tq, j) = NodeAt(u, t, j)
  BY <1>6 DEF NodeAt
<1>13. \A j \in 0 .. n : NodeAt(u, tq, m + j) = NodeAt(v, q, j)
  <2>1. NodeAt(u, tq, m) = v
    BY <1>1, <1>2, <1>12
  <2>2. \A j \in 1 .. n : m + j # 0 /\ j # 0
    OBVIOUS
  <2>3. \A j \in 1 .. n : NodeAt(u, tq, m + j) = NodeAt(v, q, j)
    BY <1>6, <2>2 DEF NodeAt
  <2>4. NodeAt(v, q, 0) = v /\ m + 0 = m /\ \A j \in 0 .. n : j = 0 \/ j \in 1 .. n
    BY DEF NodeAt
  <2>. QED
    BY <2>1, <2>3, <2>4
<1>14. ASSUME NEW j \in 1 .. m + n
       PROVE  /\ usable(G, P, I[j])
              /\ G.edges[I[j]].from = NodeAt(u, tq, j - 1) /\ G.edges[I[j]].to = tq[j]
              /\ R[j] = R[j - 1] + edge_weight(G, P, I[j])
  <2>1. CASE j <= m
    <3>1. j \in 1 .. m /\ j - 1 \in 0 .. m /\ j \in 0 .. m
      BY <2>1
    <3>. QED
      BY <1>4, <1>6, <1>9, <1>11, <1>12, <3>1
  <2>2. CASE ~(j <= m)
    <3>1. PICK x \in 1 .. n : j = m + x
      <4>1. j - m \in 1 .. n /\ j = m + (j - m)
        BY <2>2
      <4>. QED
        BY <4>1
    <3>2. PICK y \in 0 .. n : y = x - 1 /\ j - 1 = m + y
      <4>1. x - 1 \in 0 .. n /\ j - 1 = m + (x - 1)
        BY <3>1
      <4>. QED
        BY <4>1
    <3>3. /\ usable(G, P, k[x])
          /\ G.edges[k[x]].from = NodeAt(v, q, y) /\ G.edges[k[x]].to = q[x]
          /\ r[x] = r[y] + edge_weight(G, P, k[x])
      BY <1>5, <3>2
    <3>4. I[j] = k[x] /\ tq[j] = q[x] /\ NodeAt(u, tq, j - 1) = NodeAt(v, q, y)
      BY <1>6, <1>11, <1>13, <3>1, <3>2
    <3>5. R[j] = c + r[x] /\ R[j - 1] = c + r[y]
      <4>1. x \in 0 .. n
        OBVIOUS
      <4>. QED
        BY <1>10, <3>1, <3>2, <4>1
    <3>6. PICK a \in Nat, b \in Nat : a = r[x] /\ b = r[y]
      <4>1. x \in 0 .. n
        OBVIOUS
      <4>. QED
        BY <1>5, <4>1
    <3>7. edge_weight(G, P, k[x]) \in Nat
      BY <1>5, RoadCosts
    <3>8. R[j] = R[j - 1] + edge_weight(G, P, k[x])
      BY <3>3, <3>5, <3>6, <3>7
    <3>. QED
      BY <3>3, <3>4, <3>8
  <2>. QED
    BY <2>1, <2>2
<1>15. R[0] = 0 /\ R[m + n] = c + d /\ NodeAt(u, tq, m + n) = w
  BY <1>1, <1>3, <1>4, <1>5, <1>9, <1>10, <1>13
<1>16. PICK l \in Nat : l = m + n /\ l = Len(tq)
  BY <1>6
<1>17. /\ I \in [1 .. l -> DOMAIN G.edges] /\ R \in [0 .. l -> Nat]
       /\ R[0] = 0 /\ R[l] = c + d /\ NodeAt(u, tq, l) = w
       /\ \A j \in 1 .. l :
             /\ usable(G, P, I[j])
             /\ G.edges[I[j]].from = NodeAt(u, tq, j - 1) /\ G.edges[I[j]].to = tq[j]
             /\ R[j] = R[j - 1] + edge_weight(G, P, I[j])
  BY <1>7, <1>8, <1>14, <1>15, <1>16
<1>18. Rides(u, tq, l, c + d)
  BY <1>17 DEF Rides
<1>19. Goes(u, tq, w, c + d)
  BY <1>6, <1>16, <1>17, <1>18 DEF Goes
<1>. QED
  BY <1>19 DEF tq

LEMMA WithinGoesOn ==
    ASSUME Shape, NEW u, NEW v, NEW w, NEW t, NEW q, NEW c \in Nat, NEW d \in Nat,
           Within(u, t, v, c), Within(v, q, w, d)
    PROVE  Within(u, t \o q, w, c + d)
<1>1. PICK a \in Nat : a <= c /\ Goes(u, t, v, a)
  BY DEF Within
<1>2. PICK b \in Nat : b <= d /\ Goes(v, q, w, b)
  BY DEF Within
<1>3. a + b \in Nat /\ a + b <= c + d
  BY <1>1, <1>2
<1>4. Goes(u, t \o q, w, a + b)
  BY <1>1, <1>2, GoesOn
<1>. QED
  BY <1>3, <1>4 DEF Within

LEMMA OneRoadGoes ==
    ASSUME Shape, NEW a \in DOMAIN G.edges, usable(G, P, a)
    PROVE  Within(G.edges[a].from, <<G.edges[a].to>>, G.edges[a].to, edge_weight(G, P, a))
<1>. DEFINE u == G.edges[a].from
            w == G.edges[a].to
            c == edge_weight(G, P, a)
            i == [j \in 1 .. 1 |-> a]
            s == [j \in 0 .. 1 |-> IF j = 0 THEN 0 ELSE c]
<1>1. c \in Nat /\ w \in Nodes
  BY RoadCosts, GraphFacts DEF Shape
<1>. HIDE DEF c
<1>2. /\ i \in [1 .. 1 -> DOMAIN G.edges] /\ s \in [0 .. 1 -> Nat]
      /\ s[0] = 0 /\ s[1] = c /\ i[1] = a
  BY <1>1
<1>. HIDE DEF i, s
<1>3. ASSUME NEW j \in 1 .. 1
      PROVE  /\ usable(G, P, i[j])
             /\ G.edges[i[j]].from = NodeAt(u, <<w>>, j - 1) /\ G.edges[i[j]].to = <<w>>[j]
             /\ s[j] = s[j - 1] + edge_weight(G, P, i[j])
  <2>1. j = 1 /\ j - 1 = 0
    OBVIOUS
  <2>2. <<w>>[1] = w /\ NodeAt(u, <<w>>, 0) = u
    BY DEF NodeAt
  <2>3. s[1] = s[0] + c
    BY <1>1, <1>2
  <2>. QED
    BY <1>2, <2>1, <2>2, <2>3 DEF c
<1>4. Rides(u, <<w>>, 1, c)
  BY <1>2, <1>3 DEF Rides
<1>5. <<w>> \in Seq(Nodes) /\ Len(<<w>>) = 1 /\ NodeAt(u, <<w>>, 1) = w
  BY <1>1 DEF NodeAt
<1>6. Goes(u, <<w>>, w, c)
  BY <1>4, <1>5 DEF Goes
<1>. QED
  BY <1>1, <1>6 DEF Within, c

(* Standing still.                                                         *)
LEMMA StayingGoes == ASSUME NEW u PROVE Within(u, <<>>, u, 0)
<1>. DEFINE i == [j \in 1 .. 0 |-> 0]
            s == [j \in 0 .. 0 |-> 0]
<1>1. i \in [1 .. 0 -> DOMAIN G.edges] /\ s \in [0 .. 0 -> Nat] /\ s[0] = 0
  OBVIOUS
<1>. HIDE DEF i, s
<1>2. Rides(u, <<>>, 0, 0)
  BY <1>1 DEF Rides
<1>3. <<>> \in Seq(Nodes) /\ Len(<<>>) = 0 /\ NodeAt(u, <<>>, 0) = u
  BY DEF NodeAt
<1>4. Goes(u, <<>>, u, 0)
  BY <1>2, <1>3 DEF Goes
<1>. QED
  BY <1>4 DEF Within

(* An arc without a middle is a road.                                      *)
RoadsWhole == \A a \in DOMAIN arcs : arcs[a].middle = NoMiddle => a \in DOMAIN G.edges

LEMMA RoadsWholeStep == IInv /\ RoadsWhole /\ [Next]_vars => RoadsWhole'
<1>. SUFFICES ASSUME IInv, RoadsWhole, [Next]_vars PROVE RoadsWhole'
  OBVIOUS
<1>1. ASSUME NEW p \in pairs, Bridge(p[1], p[2]) PROVE RoadsWhole'
  <2>. DEFINE v == order[Len(order)]
              n == Len(arcs) + 1
  <2>1. G' = G /\ arcs \in Seq(Arc) /\ v # NoMiddle
    <3>1. order # <<>> /\ order \in Seq(Nodes)
      BY DEF IInv, Shape, Waiting
    <3>2. v \in Nodes
      BY <3>1
    <3>. QED
      BY <1>1, <3>2, GraphFacts DEF IInv, Shape, Bridge, G
  <2>2. CASE UNCHANGED arcs
    BY <2>1, <2>2 DEF RoadsWhole
  <2>3. CASE arcs' = Append(arcs, Shortcut(v, p[1], p[2]))
    <3>1. /\ \A a \in DOMAIN arcs' : a = n \/ (a \in DOMAIN arcs /\ arcs'[a] = arcs[a])
          /\ arcs'[n] = Shortcut(v, p[1], p[2])
      BY <2>1, <2>3
    <3>2. arcs'[n].middle # NoMiddle
      BY <2>1, <3>1 DEF Shortcut
    <3>. QED
      BY <2>1, <3>1, <3>2 DEF RoadsWhole
  <2>. QED
    BY <1>1, <2>2, <2>3 DEF Bridge
<1>2. CASE UNCHANGED <<req, arcs>>
  BY <1>2 DEF RoadsWhole, G
<1>3. BuildNext \/ UNCHANGED buildVars
  BY DEF Next, Build, RejectNode, AskForNothing, Ask, Drop, Settle, Rest, Check, Answer, vars
<1>. QED
  BY <1>1, <1>2, <1>3 DEF BuildNext, Contract, buildVars

-----------------------------------------------------------------------------
(* Of the arcs between two nodes the one that is unpacked costs least.     *)
LEMMA ArcBetweenIs ==
    ASSUME Shape, NEW u, NEW w,
           NEW a \in DOMAIN arcs, OpenTo(a), arcs[a].from = u, arcs[a].to = w
    PROVE  \E b \in DOMAIN arcs :
              /\ ArcBetween(u, w) = {b}
              /\ OpenTo(b) /\ arcs[b].from = u /\ arcs[b].to = w /\ Weight(b) <= Weight(a)
<1>. DEFINE between == {c \in DOMAIN arcs : OpenTo(c) /\ arcs[c].from = u /\ arcs[c].to = w}
            costs == {Weight(c) : c \in between}
            lowest == Min(costs)
            least == {c \in between : Weight(c) = lowest}
<1>1. a \in between /\ \A c \in between : c \in Nat /\ Weight(c) \in Nat
  <2>1. \A c \in DOMAIN arcs : c \in Nat /\ Weight(c) \in Nat
    BY ArcFacts DEF Shape, Sides
  <2>. QED
    BY <2>1
<1>2. costs \in SUBSET Nat /\ costs # {} /\ Weight(a) \in costs
  BY <1>1
<1>3. lowest \in costs /\ lowest <= Weight(a)
  <2>. HIDE DEF costs
  <2>1. \E m \in costs : \A x \in costs : m <= x
    BY <1>2, LeastNatural
  <2>. QED
    BY <1>2, <2>1 DEF Min
<1>. HIDE DEF lowest
<1>4. least \in SUBSET Nat /\ least # {}
  BY <1>1, <1>3
<1>5. Min(least) \in least
  BY <1>4, MinIsIn
<1>6. ArcBetween(u, w) = {Min(least)}
  <2>1. between # {}
    BY <1>1
  <2>. QED
    BY <2>1 DEF ArcBetween, lowest
<1>. HIDE DEF least
<1>7. Min(least) \in between /\ Weight(Min(least)) = lowest
  BY <1>5 DEF least
<1>. QED
  BY <1>3, <1>6, <1>7

LEMMA ArcBetweenOr ==
    ASSUME Shape, NEW u, NEW w
    PROVE  \/ ArcBetween(u, w) = {}
           \/ \E b \in DOMAIN arcs :
                 ArcBetween(u, w) = {b} /\ arcs[b].from = u /\ arcs[b].to = w
<1>1. CASE \E a \in DOMAIN arcs : OpenTo(a) /\ arcs[a].from = u /\ arcs[a].to = w
  BY <1>1, ArcBetweenIs
<1>2. CASE ~\E a \in DOMAIN arcs : OpenTo(a) /\ arcs[a].from = u /\ arcs[a].to = w
  BY <1>2 DEF ArcBetween
<1>. QED
  BY <1>1, <1>2

(* The middle of two nodes.                                                *)
MidOf(uw) ==
    LET arc == ArcBetween(uw[1], uw[2])
    IN  IF arc = {} THEN NoMiddle ELSE arcs[CHOOSE a \in arc : TRUE].middle

Shallow(uw, k) == RankOf[uw[1]] <= k \/ RankOf[uw[2]] <= k

LEMMA MidIsBefore ==
    ASSUME IInv, Built, NEW u \in Nodes, NEW w \in Nodes, MidOf(<<u, w>>) # NoMiddle
    PROVE  /\ MidOf(<<u, w>>) \in Nodes
           /\ \A k \in Nat : Shallow(<<u, w>>, k + 1) =>
                 Shallow(<<u, MidOf(<<u, w>>)>>, k) /\ Shallow(<<MidOf(<<u, w>>), w>>, k)
<1>1. PICK b \in DOMAIN arcs : ArcBetween(u, w) = {b} /\ arcs[b].from = u /\ arcs[b].to = w
  BY ArcBetweenOr DEF IInv, MidOf
<1>2. MidOf(<<u, w>>) = arcs[b].middle /\ arcs[b].middle # NoMiddle
  <2>1. (CHOOSE a \in {b} : TRUE) = b
    OBVIOUS
  <2>. QED
    BY <1>1, <2>1 DEF MidOf
<1>. DEFINE m == arcs[b].middle
<1>3. m \in Nodes
  <2>1. arcs[b] \in Arc
    BY DEF IInv, Shape
  <2>. QED
    BY <1>2, <2>1 DEF Arc
<1>4. PICK l \in DOMAIN order :
         order[l] = m /\ \A k \in DOMAIN order : order[k] \in {u, w} => l < k
  BY <1>1, <1>2 DEF IInv, Bridged, MiddleFirst
<1>5. ASSUME NEW v \in Nodes PROVE RankOf[v] \in DOMAIN order /\ order[RankOf[v]] = v
  BY RankIsPlace
<1>6. RankOf[m] = l /\ l < RankOf[u] /\ l < RankOf[w]
  BY <1>3, <1>4, <1>5 DEF IInv, Shape
<1>7. l \in Nat /\ RankOf[u] \in Nat /\ RankOf[w] \in Nat
  <2>1. \A j \in DOMAIN order : j \in Nat
    BY DEF IInv, Shape
  <2>. QED
    BY <1>5, <2>1
<1>8. ASSUME NEW k \in Nat, Shallow(<<u, w>>, k + 1)
      PROVE  Shallow(<<u, m>>, k) /\ Shallow(<<m, w>>, k)
  <2>1. RankOf[m] <= k
    BY <1>6, <1>7, <1>8 DEF Shallow
  <2>. QED
    BY <2>1 DEF Shallow
<1>. QED
  BY <1>2, <1>3, <1>8

Pairs == (0 .. G.n - 1) \X (0 .. G.n - 1)

(* What unpacking makes of each pair of nodes, given what it makes of the  *)
(* pairs below them.                                                       *)
Unpack(a) ==
    [uw \in Pairs |->
        IF MidOf(uw) = NoMiddle THEN <<uw[2]>>
        ELSE a[<<uw[1], MidOf(uw)>>] \o a[<<MidOf(uw), uw[2]>>]]

LEMMA UnpackingExists ==
    ASSUME IInv, Built PROVE \E f : f = Unpack(f)
<1>. DEFINE S == [Pairs -> Seq(Nodes)]
            x == [uw \in Pairs |-> <<>>]
            step == [n \in Nat |-> [a \in S |-> Unpack(a)]]
<1>1. Pairs = Nodes \X Nodes
  BY DEF Pairs, Nodes
<1>2. \A uw \in Pairs :
         /\ uw = <<uw[1], uw[2]>> /\ uw[1] \in Nodes /\ uw[2] \in Nodes
         /\ MidOf(uw) # NoMiddle =>
               <<uw[1], MidOf(uw)>> \in Pairs /\ <<MidOf(uw), uw[2]>> \in Pairs
  <2>1. \A uw \in Pairs : uw = <<uw[1], uw[2]>> /\ uw[1] \in Nodes /\ uw[2] \in Nodes
    BY <1>1
  <2>2. ASSUME NEW uw \in Pairs, MidOf(uw) # NoMiddle PROVE MidOf(uw) \in Nodes
    <3>1. PICK u \in Nodes, w \in Nodes : uw = <<u, w>>
      BY <1>1
    <3>. QED
      BY <2>2, <3>1, MidIsBefore
  <2>. QED
    BY <1>1, <2>1, <2>2
<1>3. x \in S
  BY DEF x
<1>4. ASSUME NEW a \in S PROVE Unpack(a) \in S
  <2>1. ASSUME NEW uw \in Pairs
        PROVE  (IF MidOf(uw) = NoMiddle THEN <<uw[2]>>
                ELSE a[<<uw[1], MidOf(uw)>>] \o a[<<MidOf(uw), uw[2]>>]) \in Seq(Nodes)
    <3>1. CASE MidOf(uw) = NoMiddle
      <4>1. uw[2] \in Nodes
        BY <1>2
      <4>2. <<uw[2]>> \in Seq(Nodes)
        BY <4>1
      <4>. QED
        BY <3>1, <4>2
    <3>2. CASE MidOf(uw) # NoMiddle
      <4>1. a[<<uw[1], MidOf(uw)>>] \in Seq(Nodes) /\ a[<<MidOf(uw), uw[2]>>] \in Seq(Nodes)
        BY <1>2, <3>2
      <4>. QED
        BY <3>2, <4>1
    <3>. QED
      BY <3>1, <3>2
  <2>. QED
    BY <2>1 DEF Unpack
<1>5. step \in [Nat -> [S -> S]] /\ \A n \in Nat : \A a \in S : step[n][a] = Unpack(a)
  BY <1>4
<1>. HIDE DEF step, x, S
<1>6. PICK F : Recurs(F, S, x, step)
  BY <1>3, <1>5, RecursionOverNat DEF IsRecursion
<1>7. F \in [Nat -> S] /\ \A n \in Nat : F[n + 1] = Unpack(F[n])
  BY <1>5, <1>6 DEF Recurs
<1>. DEFINE T == {k \in Nat : \A uw \in Pairs : Shallow(uw, k) =>
                                 \A m \in Nat : m >= k => F[m + 1][uw] = F[m][uw]}
<1>8. 0 \in T
  <2>1. \A u \in Nodes : RankOf[u] \in Nat /\ RankOf[u] >= 1
    BY RanksOfNodes DEF Ranked
  <2>2. ASSUME NEW uw \in Pairs PROVE ~Shallow(uw, 0)
    <3>1. PICK a \in Nat, b \in Nat : a = RankOf[uw[1]] /\ b = RankOf[uw[2]] /\ a >= 1 /\ b >= 1
      BY <1>2, <2>1
    <3>. QED
      BY <3>1 DEF Shallow
  <2>. QED
    BY <2>2
<1>9. ASSUME NEW k \in Nat, k \in T PROVE k + 1 \in T
  <2>. SUFFICES ASSUME NEW uw \in Pairs, Shallow(uw, k + 1), NEW m \in Nat, m >= k + 1
                PROVE  F[m + 1][uw] = F[m][uw]
    OBVIOUS
  <2>1. PICK l \in Nat : m = l + 1 /\ l >= k
    <3>1. m - 1 \in Nat /\ m = (m - 1) + 1 /\ m - 1 >= k
      OBVIOUS
    <3>. QED
      BY <3>1
  <2>2. F[m + 1] = Unpack(F[m]) /\ F[m] = Unpack(F[l])
    BY <1>7, <2>1
  <2>3. CASE MidOf(uw) = NoMiddle
    BY <2>2, <2>3 DEF Unpack
  <2>4. CASE MidOf(uw) # NoMiddle
    <3>1. /\ <<uw[1], MidOf(uw)>> \in Pairs /\ <<MidOf(uw), uw[2]>> \in Pairs
          /\ Shallow(<<uw[1], MidOf(uw)>>, k) /\ Shallow(<<MidOf(uw), uw[2]>>, k)
      <4>1. PICK u \in Nodes, w \in Nodes : uw = <<u, w>>
        BY <1>1
      <4>. QED
        BY <1>2, <2>4, <4>1, MidIsBefore
    <3>2. /\ F[m][<<uw[1], MidOf(uw)>>] = F[l][<<uw[1], MidOf(uw)>>]
          /\ F[m][<<MidOf(uw), uw[2]>>] = F[l][<<MidOf(uw), uw[2]>>]
      BY <1>9, <2>1, <3>1
    <3>3. \A a : Unpack(a)[uw] = a[<<uw[1], MidOf(uw)>>] \o a[<<MidOf(uw), uw[2]>>]
      BY <2>4 DEF Unpack
    <3>. QED
      BY <2>2, <3>2, <3>3
  <2>. QED
    BY <2>3, <2>4
<1>10. PICK n \in Nat : n = G.n
  BY GraphFacts DEF IInv, Shape
<1>11. n \in T
  <2>1. Nat \subseteq T
    <3>. HIDE DEF T
    <3>. QED
      BY <1>8, <1>9, InductionOverNat
  <2>. QED
    BY <2>1
<1>12. \A uw \in Pairs : F[n + 1][uw] = F[n][uw]
  <2>1. \A u \in Nodes : RankOf[u] <= n
    BY <1>10, RanksOfNodes DEF Ranked
  <2>2. \A uw \in Pairs : Shallow(uw, n)
    BY <1>2, <2>1 DEF Shallow
  <2>. QED
    BY <1>11, <2>2
<1>13. F[n + 1] = F[n]
  <2>1. F[n + 1] \in [Pairs -> Seq(Nodes)] /\ F[n] \in [Pairs -> Seq(Nodes)]
    BY <1>7 DEF S
  <2>. QED
    BY <1>12, <2>1
<1>. QED
  BY <1>7, <1>13

LEMMA UnpackEdgeIs ==
    ASSUME IInv, Built, NEW u \in Nodes, NEW w \in Nodes
    PROVE  unpack_edge[<<u, w>>] =
              IF MidOf(<<u, w>>) = NoMiddle THEN <<w>>
              ELSE unpack_edge[<<u, MidOf(<<u, w>>)>>] \o unpack_edge[<<MidOf(<<u, w>>), w>>]
<1>1. unpack_edge = CHOOSE f : f = Unpack(f)
  BY DEF unpack_edge, Unpack, MidOf, Pairs
<1>2. unpack_edge = Unpack(unpack_edge)
  BY <1>1, UnpackingExists
<1>3. <<u, w>> \in Pairs /\ <<u, w>>[1] = u /\ <<u, w>>[2] = w
  BY DEF Pairs, Nodes
<1>4. \A a : Unpack(a)[<<u, w>>] =
         IF MidOf(<<u, w>>) = NoMiddle THEN <<w>>
         ELSE a[<<u, MidOf(<<u, w>>)>>] \o a[<<MidOf(<<u, w>>), w>>]
  BY <1>3 DEF Unpack
<1>. QED
  BY <1>2, <1>4

(* Unpacking makes a drive by open roads of an arc, for no more than it    *)
(* costs.                                                                  *)
Unpacked(u, w) ==
    \A a \in DOMAIN arcs : OpenTo(a) /\ arcs[a].from = u /\ arcs[a].to = w =>
        Within(u, unpack_edge[<<u, w>>], w, Weight(a))

LEMMA UnpackOneMore ==
    ASSUME IInv, ArcsDriven, RoadsWhole, Built, Plain,
           NEW u \in Nodes, NEW w \in Nodes,
           MidOf(<<u, w>>) # NoMiddle =>
              Unpacked(u, MidOf(<<u, w>>)) /\ Unpacked(MidOf(<<u, w>>), w)
    PROVE  Unpacked(u, w)
<1>. SUFFICES ASSUME NEW a \in DOMAIN arcs, OpenTo(a), arcs[a].from = u, arcs[a].to = w
              PROVE  Within(u, unpack_edge[<<u, w>>], w, Weight(a))
  BY DEF Unpacked
<1>. Shape
  BY DEF IInv
<1>1. PICK b \in DOMAIN arcs :
         /\ ArcBetween(u, w) = {b}
         /\ OpenTo(b) /\ arcs[b].from = u /\ arcs[b].to = w /\ Weight(b) <= Weight(a)
  BY ArcBetweenIs
<1>2. MidOf(<<u, w>>) = arcs[b].middle
  <2>1. (CHOOSE c \in {b} : TRUE) = b
    OBVIOUS
  <2>. QED
    BY <1>1, <2>1 DEF MidOf
<1>3. Weight(a) \in Nat /\ Weight(b) \in Nat /\ Weight(b) = arcs[b].weight
  BY ArcFacts, OpenAsBuilt DEF Sides
<1>4. Within(u, unpack_edge[<<u, w>>], w, Weight(b))
  <2>1. CASE arcs[b].middle = NoMiddle
    <3>1. b \in DOMAIN G.edges
      BY <2>1 DEF RoadsWhole
    <3>2. /\ usable(G, P, b) /\ G.edges[b].from = u /\ G.edges[b].to = w
          /\ edge_weight(G, P, b) = Weight(b)
      <4>1. b \in Edges
        BY <3>1, GraphFacts DEF Edges
      <4>. QED
        BY <1>1, <3>1, <4>1 DEF ArcsDriven, OpenTo, Weight, Plain
    <3>3. unpack_edge[<<u, w>>] = <<w>>
      BY <1>2, <2>1, UnpackEdgeIs
    <3>. QED
      BY <3>1, <3>2, <3>3, OneRoadGoes
  <2>2. CASE arcs[b].middle # NoMiddle
    <3>. DEFINE m == arcs[b].middle
    <3>1. PICK x \in DOMAIN arcs, y \in DOMAIN arcs :
             /\ arcs[x].open /\ arcs[y].open
             /\ arcs[x].from = u /\ arcs[x].to = m /\ arcs[y].from = m /\ arcs[y].to = w
             /\ arcs[b].weight = arcs[x].weight + arcs[y].weight
      BY <1>1, <2>2 DEF IInv, Bridged, Halves
    <3>2. /\ OpenTo(x) /\ Weight(x) = arcs[x].weight /\ Weight(x) \in Nat
          /\ OpenTo(y) /\ Weight(y) = arcs[y].weight /\ Weight(y) \in Nat
      BY <3>1, ArcFacts, OpenAsBuilt DEF Sides
    <3>3. Within(u, unpack_edge[<<u, m>>], m, Weight(x)) /\ Within(m, unpack_edge[<<m, w>>], w, Weight(y))
      BY <1>2, <2>2, <3>1, <3>2 DEF Unpacked
    <3>4. unpack_edge[<<u, w>>] = unpack_edge[<<u, m>>] \o unpack_edge[<<m, w>>]
      BY <1>2, <2>2, UnpackEdgeIs
    <3>5. Within(u, unpack_edge[<<u, m>>] \o unpack_edge[<<m, w>>], w, Weight(x) + Weight(y))
      BY <3>2, <3>3, WithinGoesOn
    <3>. QED
      BY <1>3, <3>1, <3>2, <3>4, <3>5
  <2>. QED
    BY <2>1, <2>2
<1>5. PICK d \in Nat : d <= Weight(b) /\ Goes(u, unpack_edge[<<u, w>>], w, d)
  BY <1>4 DEF Within
<1>6. d <= Weight(a)
  BY <1>1, <1>3, <1>5
<1>. QED
  BY <1>5, <1>6 DEF Within

LEMMA UnpackGoes ==
    ASSUME IInv, ArcsDriven, RoadsWhole, Built, Plain
    PROVE  \A u, w \in Nodes : Unpacked(u, w)
<1>. DEFINE T == {k \in Nat : \A u, w \in Nodes : Shallow(<<u, w>>, k) => Unpacked(u, w)}
<1>1. \A u \in Nodes : RankOf[u] \in Nat /\ RankOf[u] >= 1 /\ RankOf[u] <= G.n
  BY RanksOfNodes DEF Ranked
<1>2. 0 \in T
  <2>1. \A u, w \in Nodes : ~Shallow(<<u, w>>, 0)
    BY <1>1 DEF Shallow
  <2>. QED
    BY <2>1
<1>3. ASSUME NEW k \in Nat, k \in T PROVE k + 1 \in T
  <2>. SUFFICES ASSUME NEW u \in Nodes, NEW w \in Nodes, Shallow(<<u, w>>, k + 1)
                PROVE  Unpacked(u, w)
    OBVIOUS
  <2>1. ASSUME MidOf(<<u, w>>) # NoMiddle
        PROVE  Unpacked(u, MidOf(<<u, w>>)) /\ Unpacked(MidOf(<<u, w>>), w)
    <3>1. /\ MidOf(<<u, w>>) \in Nodes
          /\ Shallow(<<u, MidOf(<<u, w>>)>>, k) /\ Shallow(<<MidOf(<<u, w>>), w>>, k)
      BY <2>1, MidIsBefore
    <3>. QED
      BY <1>3, <3>1
  <2>. QED
    BY <2>1, UnpackOneMore
<1>4. PICK n \in Nat : n = G.n
  BY GraphFacts DEF IInv, Shape
<1>5. n \in T
  <2>. HIDE DEF T
  <2>1. Nat \subseteq T
    BY <1>2, <1>3, InductionOverNat
  <2>. QED
    BY <2>1
<1>. QED
  BY <1>1, <1>4, <1>5 DEF Shallow

-----------------------------------------------------------------------------
(* The packed path and the drive it is unpacked to.                        *)

(* Unpacking a way over arcs, along which d counts what it has cost, makes *)
(* a drive that costs no more.                                             *)
OverArcs(p, d) ==
    /\ p \in Seq(Nodes) /\ p # <<>>
    /\ d \in [1 .. Len(p) -> Int]
    /\ \A j \in 1 .. Len(p) - 1 : \E a \in DOMAIN arcs :
          /\ OpenTo(a) /\ arcs[a].from = p[j] /\ arcs[a].to = p[j + 1]
          /\ d[j + 1] = d[j] + Weight(a)

(* The ways unpacked from the first nodes of p.                            *)
UnpackedTo(p, f) ==
    /\ f[1] = <<p[1]>>
    /\ \A j \in 1 .. Len(p) - 1 : f[j + 1] = f[j] \o unpack_edge[<<p[j], p[j + 1]>>]

LEMMA UnpackPathIs ==
    ASSUME NEW p \in Seq(Nodes), p # <<>>,
           \A j \in 1 .. Len(p) - 1 : unpack_edge[<<p[j], p[j + 1]>>] \in Seq(Nodes)
    PROVE  \E f : UnpackedTo(p, f) /\ unpack_path(p) = f[Len(p)]
<1>. DEFINE S == Seq(Nodes)
            x == <<p[1]>>
            Next1(n, t) == IF n \in 1 .. Len(p) - 1 THEN t \o unpack_edge[<<p[n], p[n + 1]>>] ELSE t
            step == [n \in Nat |-> [t \in S |-> Next1(n, t)]]
            Legs(a) == [j \in 1 .. Len(p) |->
                          IF j = 1 THEN <<p[1]>>
                          ELSE a[j - 1] \o unpack_edge[<<p[j - 1], p[j]>>]]
            f == CHOOSE a : a = Legs(a)
<1>1. PICK l \in Nat : l = Len(p) /\ l >= 1
  OBVIOUS
<1>2. x \in S
  <2>1. p[1] \in Nodes
    BY <1>1
  <2>. QED
    BY <2>1
<1>3. ASSUME NEW n \in Nat, NEW t \in S PROVE Next1(n, t) \in S
  <2>1. CASE n \in 1 .. Len(p) - 1
    <3>1. unpack_edge[<<p[n], p[n + 1]>>] \in Seq(Nodes)
      BY <2>1
    <3>. HIDE DEF S
    <3>2. t \o unpack_edge[<<p[n], p[n + 1]>>] \in S
      BY <3>1, ConcatProperties DEF S
    <3>. QED
      BY <2>1, <3>2
  <2>2. CASE n \notin 1 .. Len(p) - 1
    BY <2>2
  <2>. QED
    BY <2>1, <2>2
<1>. HIDE DEF S
<1>4. step \in [Nat -> [S -> S]] /\ \A n \in Nat : \A t \in S : step[n][t] = Next1(n, t)
  BY <1>3
<1>5. \A n \in 1 .. l - 1 : \A t : Next1(n, t) = t \o unpack_edge[<<p[n], p[n + 1]>>]
  BY <1>1
<1>6. \A t : Next1(0, t) = t
  OBVIOUS
<1>. HIDE DEF Next1, step, x
<1>7. PICK h : Recurs(h, S, x, step)
  BY <1>2, <1>4, RecursionOverNat DEF IsRecursion
<1>8. h \in [Nat -> S] /\ h[0] = x /\ \A n \in Nat : h[n + 1] = Next1(n, h[n])
  BY <1>4, <1>7 DEF Recurs
<1>9. h[1] = x
  <2>1. h[0 + 1] = h[0]
    BY <1>6, <1>8
  <2>. QED
    BY <1>8, <2>1
<1>10. ASSUME NEW n \in 1 .. l - 1
       PROVE  h[n + 1] = h[n] \o unpack_edge[<<p[n], p[n + 1]>>]
  <2>1. n \in Nat
    OBVIOUS
  <2>2. h[n + 1] = Next1(n, h[n])
    BY <1>8, <2>1
  <2>. QED
    BY <1>5, <2>2
<1>. DEFINE g == [j \in 1 .. l |-> h[j]]
<1>11. ASSUME NEW j \in 1 .. l
       PROVE  g[j] = IF j = 1 THEN <<p[1]>> ELSE g[j - 1] \o unpack_edge[<<p[j - 1], p[j]>>]
  <2>1. CASE j = 1
    BY <1>1, <1>9, <2>1 DEF x
  <2>2. CASE j # 1
    <3>1. PICK n \in 1 .. l - 1 : j = n + 1 /\ j - 1 = n
      <4>1. j - 1 \in 1 .. l - 1 /\ j = (j - 1) + 1
        BY <2>2
      <4>. QED
        BY <4>1
    <3>2. n \in 1 .. l /\ n + 1 \in 1 .. l
      OBVIOUS
    <3>3. g[n + 1] = h[n + 1] /\ g[n] = h[n]
      BY <3>2
    <3>4. g[n + 1] = g[n] \o unpack_edge[<<p[n], p[n + 1]>>]
      BY <1>10, <3>3
    <3>. HIDE DEF g
    <3>. QED
      BY <2>2, <3>1, <3>4
  <2>. QED
    BY <2>1, <2>2
<1>12. g = Legs(g)
  <2>1. DOMAIN g = 1 .. l /\ g = [j \in 1 .. l |-> g[j]]
    OBVIOUS
  <2>. HIDE DEF g
  <2>. QED
    BY <1>1, <1>11, <2>1
<1>. HIDE DEF g
<1>13. f = Legs(f)
  BY <1>12
<1>14. unpack_path(p) = f[Len(p)]
  BY DEF unpack_path
<1>. HIDE DEF f
<1>15. \A j \in 1 .. l : f[j] = IF j = 1 THEN <<p[1]>>
                                 ELSE f[j - 1] \o unpack_edge[<<p[j - 1], p[j]>>]
  BY <1>1, <1>13
<1>16. f[1] = <<p[1]>>
  <2>1. 1 \in 1 .. l
    BY <1>1
  <2>. QED
    BY <1>15, <2>1
<1>17. ASSUME NEW j \in 1 .. l - 1 PROVE f[j + 1] = f[j] \o unpack_edge[<<p[j], p[j + 1]>>]
  <2>1. j + 1 \in 1 .. l /\ j + 1 # 1 /\ (j + 1) - 1 = j
    OBVIOUS
  <2>. QED
    BY <1>15, <2>1
<1>18. UnpackedTo(p, f)
  BY <1>1, <1>16, <1>17 DEF UnpackedTo
<1>. QED
  BY <1>14, <1>18

LEMMA UnpackPathGoes ==
    ASSUME IInv, ArcsDriven, RoadsWhole, Built, Plain, NEW p, NEW d, OverArcs(p, d)
    PROVE  \E t \in Seq(Nodes) :
              /\ unpack_path(p) = <<p[1]>> \o t
              /\ d[Len(p)] - d[1] \in Nat
              /\ Within(p[1], t, p[Len(p)], d[Len(p)] - d[1])
<1>1. p \in Seq(Nodes) /\ p # <<>> /\ Len(p) \in Nat
  BY DEF OverArcs
<1>2. PICK l \in Nat : l = Len(p) /\ l >= 1
  BY <1>1
<1>3. /\ \A j \in 1 .. l : p[j] \in Nodes /\ d[j] \in Int
      /\ 1 \in 1 .. l
  BY <1>1, <1>2 DEF OverArcs
<1>4. ASSUME NEW j \in 1 .. l - 1
      PROVE  \E h \in Nat : /\ Within(p[j], unpack_edge[<<p[j], p[j + 1]>>], p[j + 1], h)
                            /\ d[j + 1] = d[j] + h
  <2>1. PICK a \in DOMAIN arcs :
           /\ OpenTo(a) /\ arcs[a].from = p[j] /\ arcs[a].to = p[j + 1]
           /\ d[j + 1] = d[j] + Weight(a)
    BY <1>2 DEF OverArcs
  <2>2. p[j] \in Nodes /\ p[j + 1] \in Nodes
    BY <1>3
  <2>3. Weight(a) \in Nat
    BY ArcFacts DEF IInv, Sides
  <2>4. Unpacked(p[j], p[j + 1])
    BY <2>2, UnpackGoes
  <2>. QED
    BY <2>1, <2>3, <2>4 DEF Unpacked
<1>5. \A j \in 1 .. l - 1 : unpack_edge[<<p[j], p[j + 1]>>] \in Seq(Nodes)
  BY <1>4 DEF Within, Goes
<1>6. PICK f : UnpackedTo(p, f) /\ unpack_path(p) = f[Len(p)]
  BY <1>1, <1>2, <1>5, UnpackPathIs
<1>7. /\ f[1] = <<p[1]>>
      /\ \A j \in 1 .. l - 1 : f[j + 1] = f[j] \o unpack_edge[<<p[j], p[j + 1]>>]
  BY <1>2, <1>6 DEF UnpackedTo
<1>. DEFINE Good(j) == \E t \in Seq(Nodes), c \in Nat :
                          f[j] = <<p[1]>> \o t /\ d[j] = d[1] + c /\ Within(p[1], t, p[j], c)
            T == {n \in Nat : n + 1 <= l => Good(n + 1)}
<1>8. 0 \in T
  <2>1. f[1] = <<p[1]>> \o <<>>
    <3>1. <<p[1]>> \in Seq(Nodes)
      BY <1>3
    <3>. QED
      BY <1>7, <3>1, ConcatEmptySeq
  <2>2. d[1] = d[1] + 0 /\ <<>> \in Seq(Nodes)
    BY <1>3
  <2>3. Good(1)
    BY <2>1, <2>2, StayingGoes
  <2>4. 0 + 1 = 1
    OBVIOUS
  <2>. HIDE DEF Good
  <2>. QED
    BY <2>3, <2>4
<1>9. ASSUME NEW n \in Nat, n \in T PROVE n + 1 \in T
  <2>. SUFFICES ASSUME (n + 1) + 1 <= l PROVE Good((n + 1) + 1)
    OBVIOUS
  <2>1. PICK j \in 1 .. l - 1 : j = n + 1
    OBVIOUS
  <2>2. Good(j)
    BY <1>9, <2>1
  <2>3. PICK t \in Seq(Nodes), c \in Nat :
           f[j] = <<p[1]>> \o t /\ d[j] = d[1] + c /\ Within(p[1], t, p[j], c)
    BY <2>2
  <2>. DEFINE e == unpack_edge[<<p[j], p[j + 1]>>]
  <2>4. PICK h \in Nat : Within(p[j], e, p[j + 1], h) /\ d[j + 1] = d[j] + h
    BY <1>4
  <2>5. f[j + 1] = f[j] \o e /\ e \in Seq(Nodes)
    BY <1>5, <1>7
  <2>. HIDE DEF e
  <2>6. Within(p[1], t \o e, p[j + 1], c + h)
    BY <2>3, <2>4, WithinGoesOn DEF IInv
  <2>7. f[j + 1] = <<p[1]>> \o (t \o e)
    <3>1. <<p[1]>> \in Seq(Nodes)
      BY <1>3
    <3>. QED
      BY <2>3, <2>5, <3>1, ConcatAssociative
  <2>8. d[j + 1] = d[1] + (c + h) /\ c + h \in Nat
    BY <1>3, <2>3, <2>4
  <2>9. t \o e \in Seq(Nodes)
    BY <2>5, ConcatProperties
  <2>10. Good(j + 1)
    BY <2>6, <2>7, <2>8, <2>9
  <2>. HIDE DEF Good
  <2>. QED
    BY <2>1, <2>10
<1>10. Good(l)
  <2>1. PICK n \in Nat : l = n + 1
    <3>1. l - 1 \in Nat /\ l = (l - 1) + 1
      BY <1>2
    <3>. QED
      BY <3>1
  <2>2. n \in T
    <3>. HIDE DEF T
    <3>1. Nat \subseteq T
      BY <1>8, <1>9, InductionOverNat
    <3>. QED
      BY <3>1
  <2>. HIDE DEF Good
  <2>. QED
    BY <2>1, <2>2
<1>11. PICK t \in Seq(Nodes), c \in Nat :
          f[l] = <<p[1]>> \o t /\ d[l] = d[1] + c /\ Within(p[1], t, p[l], c)
  BY <1>10
<1>12. d[l] - d[1] = c
  BY <1>3, <1>11
<1>. QED
  BY <1>2, <1>6, <1>11, <1>12

(* A way over arcs that another one takes up where it ends.                *)
TakenUp(p, d, q, e, pq, g) ==
    /\ OverArcs(pq, g)
    /\ pq[1] = p[1] /\ pq[Len(pq)] = q[Len(q)]
    /\ g[1] = d[1] /\ g[Len(pq)] = d[Len(p)] + e[Len(q)] - e[1]

LEMMA JoinArcs ==
    ASSUME Shape, NEW p, NEW d, NEW q, NEW e, OverArcs(p, d), OverArcs(q, e), p[Len(p)] = q[1]
    PROVE  \E g : TakenUp(p, d, q, e, p \o Tail(q), g)
<1>. DEFINE pq == p \o Tail(q)
<1>1. p \in Seq(Nodes) /\ q \in Seq(Nodes) /\ p # <<>> /\ q # <<>>
  BY DEF OverArcs
<1>2. PICK m \in Nat : m = Len(p) /\ m >= 1
  BY <1>1
<1>3. PICK n \in Nat : n = Len(q) /\ n >= 1
  BY <1>1
<1>4. PICK k \in Nat : n = k + 1
  <2>1. n - 1 \in Nat /\ n = (n - 1) + 1
    BY <1>3
  <2>. QED
    BY <2>1
<1>5. /\ Tail(q) \in Seq(Nodes) /\ Len(Tail(q)) = k
      /\ \A j \in 1 .. k : Tail(q)[j] = q[j + 1]
  <2>1. /\ Tail(q) \in Seq(Nodes) /\ Len(Tail(q)) = Len(q) - 1
        /\ \A j \in 1 .. Len(Tail(q)) : Tail(q)[j] = q[j + 1]
    BY <1>1, HeadTailProperties
  <2>. QED
    BY <1>3, <1>4, <2>1
<1>6. /\ pq \in Seq(Nodes) /\ Len(pq) = m + k
      /\ \A j \in 1 .. m : pq[j] = p[j]
      /\ \A j \in 1 .. k : pq[m + j] = Tail(q)[j]
  BY <1>1, <1>2, <1>5
<1>. HIDE DEF pq
<1>7. \A j \in 0 .. k : pq[m + j] = q[j + 1]
  <2>1. m \in 1 .. m /\ m + 0 = m /\ 0 + 1 = 1
    BY <1>2
  <2>2. pq[m] = q[1]
    BY <1>2, <1>6, <2>1
  <2>3. \A j \in 0 .. k : j = 0 \/ j \in 1 .. k
    OBVIOUS
  <2>. QED
    BY <1>5, <1>6, <2>1, <2>2, <2>3
<1>8. d \in [1 .. m -> Int] /\ e \in [1 .. n -> Int]
  BY <1>2, <1>3 DEF OverArcs
<1>. DEFINE g == [j \in 1 .. m + k |-> IF j <= m THEN d[j] ELSE d[m] + e[j - m + 1] - e[1]]
<1>9. g \in [1 .. m + k -> Int]
  <2>1. ASSUME NEW j \in 1 .. m + k
        PROVE  (IF j <= m THEN d[j] ELSE d[m] + e[j - m + 1] - e[1]) \in Int
    <3>1. j <= m => j \in 1 .. m
      OBVIOUS
    <3>2. ~(j <= m) => j - m + 1 \in 1 .. n
      BY <1>4
    <3>3. m \in 1 .. m /\ 1 \in 1 .. n
      BY <1>2, <1>3
    <3>4. j <= m => d[j] \in Int
      BY <1>8, <3>1
    <3>5. ~(j <= m) => e[j - m + 1] \in Int
      BY <1>8, <3>2
    <3>6. d[m] \in Int /\ e[1] \in Int
      BY <1>8, <3>3
    <3>. QED
      BY <3>4, <3>5, <3>6
  <2>. QED
    BY <2>1
<1>10. \A j \in 1 .. m : g[j] = d[j]
  OBVIOUS
<1>11. ASSUME NEW j \in 0 .. k PROVE g[m + j] = d[m] + e[j + 1] - e[1]
  <2>1. d[m] \in Int /\ e[1] \in Int
    BY <1>2, <1>3, <1>8
  <2>2. CASE j = 0
    <3>1. m + j = m /\ j + 1 = 1 /\ m \in 1 .. m
      BY <1>2, <2>2
    <3>2. g[m + j] = d[m]
      BY <1>10, <3>1
    <3>3. d[m] = d[m] + e[1] - e[1]
      BY <2>1
    <3>. HIDE DEF g
    <3>. QED
      BY <3>1, <3>2, <3>3
  <2>3. CASE j # 0
    <3>1. m + j \in 1 .. m + k /\ ~(m + j <= m) /\ (m + j) - m + 1 = j + 1
      BY <2>3
    <3>. QED
      BY <3>1
  <2>. QED
    BY <2>2, <2>3
<1>. HIDE DEF g
<1>12. ASSUME NEW j \in 1 .. m + k - 1
       PROVE  \E a \in DOMAIN arcs : /\ OpenTo(a) /\ arcs[a].from = pq[j] /\ arcs[a].to = pq[j + 1]
                                     /\ g[j + 1] = g[j] + Weight(a)
  <2>1. CASE j < m
    <3>1. j \in 1 .. m - 1 /\ j \in 1 .. m /\ j + 1 \in 1 .. m
      BY <2>1
    <3>2. pq[j] = p[j] /\ pq[j + 1] = p[j + 1] /\ g[j] = d[j] /\ g[j + 1] = d[j + 1]
      BY <1>6, <1>10, <3>1
    <3>3. \E a \in DOMAIN arcs : /\ OpenTo(a) /\ arcs[a].from = p[j] /\ arcs[a].to = p[j + 1]
                                 /\ d[j + 1] = d[j] + Weight(a)
      BY <1>2, <3>1 DEF OverArcs
    <3>. QED
      BY <3>2, <3>3
  <2>2. CASE ~(j < m)
    <3>1. PICK i \in 0 .. k - 1 : j = m + i
      <4>1. j - m \in 0 .. k - 1 /\ j = m + (j - m)
        BY <2>2
      <4>. QED
        BY <4>1
    <3>2. i \in 0 .. k /\ i + 1 \in 0 .. k /\ i + 1 \in 1 .. n - 1 /\ m + (i + 1) = j + 1
      BY <1>4, <3>1
    <3>3. PICK a \in DOMAIN arcs :
             /\ OpenTo(a) /\ arcs[a].from = q[i + 1] /\ arcs[a].to = q[(i + 1) + 1]
             /\ e[(i + 1) + 1] = e[i + 1] + Weight(a)
      BY <1>3, <3>2 DEF OverArcs
    <3>4. pq[j] = q[i + 1] /\ pq[j + 1] = q[(i + 1) + 1]
      BY <1>7, <3>1, <3>2
    <3>5. g[j] = d[m] + e[i + 1] - e[1] /\ g[j + 1] = d[m] + e[(i + 1) + 1] - e[1]
      BY <1>11, <3>1, <3>2
    <3>6. d[m] \in Int /\ e[i + 1] \in Int /\ e[1] \in Int
      <4>1. m \in 1 .. m /\ i + 1 \in 1 .. n /\ 1 \in 1 .. n
        BY <1>2, <1>3, <3>2
      <4>. QED
        BY <1>8, <4>1
    <3>7. e[(i + 1) + 1] \in Int
      <4>1. (i + 1) + 1 \in 1 .. n
        BY <3>2
      <4>. QED
        BY <1>8, <4>1
    <3>8. Weight(a) \in Nat
      BY ArcFacts DEF Sides
    <3>9. g[j + 1] = g[j] + Weight(a)
      BY <3>3, <3>5, <3>6, <3>8
    <3>. QED
      BY <3>3, <3>4, <3>9
  <2>. QED
    BY <2>1, <2>2
<1>13. OverArcs(pq, g)
  <2>1. pq # <<>>
    BY <1>2, <1>6
  <2>. QED
    BY <1>6, <1>9, <1>12, <2>1 DEF OverArcs
<1>14. /\ pq[1] = p[1] /\ g[1] = d[1]
       /\ pq[Len(pq)] = q[Len(q)] /\ g[Len(pq)] = d[Len(p)] + e[Len(q)] - e[1]
  <2>1. 1 \in 1 .. m /\ k \in 0 .. k
    BY <1>2
  <2>. QED
    BY <1>2, <1>3, <1>4, <1>6, <1>7, <1>10, <1>11, <2>1
<1>. QED
  BY <1>13, <1>14 DEF pq, TakenUp

LEMMA LabelsAreAtNodes ==
    ASSUME Shape, NEW s \in Sides, Linked(s), Root(s)[1] \in Nodes, NEW k \in DOMAIN dist[s]
    PROVE  k[1] \in Nodes
<1>1. CASE k = Root(s)
  BY <1>1
<1>2. CASE k \in DOMAIN prev[s]
  <2>1. PICK a \in DOMAIN arcs : Ahead(s, a) = k
    BY <1>2 DEF Linked
  <2>2. arcs[a] \in Arc
    BY DEF Shape
  <2>3. arcs[a].from \in Nodes /\ arcs[a].to \in Nodes
    BY <2>2 DEF Arc
  <2>. QED
    BY <2>1, <2>3 DEF Ahead
<1>. QED
  BY <1>1, <1>2 DEF Linked

(* The nodes that the trace of a label lists.                              *)
NodesOf(L) == [j \in DOMAIN L |-> L[j][1]]

LEMMA SideTraced ==
    ASSUME Shape, QueryShape, NEW s \in Sides, Linked(s), NEW h, Hops(s, h),
           NEW k \in DOMAIN dist[s]
    PROVE  \E L \in Seq(DOMAIN dist[s]) :
              GoesBack(prev[s], L, k, Root(s)[1]) /\ Trace(prev[s], k, Root(s)[1]) = NodesOf(L)
<1>. DEFINE D == DOMAIN dist[s]
            p == prev[s]
            stop == Root(s)[1]
<1>1. DOMAIN p \subseteq D /\ settled[s] \subseteq D /\ IsFiniteSet(D)
  BY DEF QueryShape, Linked
<1>2. \A z \in DOMAIN p : p[z] \in D
  BY <1>1 DEF Linked
<1>3. \A z \in D : z \in DOMAIN p \/ z[1] = stop
  BY DEF Linked
<1>4. /\ h \in [D -> Nat] /\ \A z \in DOMAIN p : h[p[z]] < h[z]
      /\ h[k] <= Cardinality(settled[s])
  BY DEF Hops
<1>5. Cardinality(DOMAIN p) \in Nat /\ Cardinality(settled[s]) <= Cardinality(DOMAIN p) + 1
  <2>1. IsFiniteSet(DOMAIN p)
    BY <1>1, FS_Subset
  <2>2. /\ IsFiniteSet(DOMAIN p \cup {Root(s)})
        /\ Cardinality(DOMAIN p \cup {Root(s)}) =
              IF Root(s) \in DOMAIN p THEN Cardinality(DOMAIN p) ELSE Cardinality(DOMAIN p) + 1
    BY <2>1, FS_AddElement
  <2>3. settled[s] \subseteq DOMAIN p \cup {Root(s)}
    BY <1>1 DEF Linked
  <2>4. /\ Cardinality(settled[s]) <= Cardinality(DOMAIN p \cup {Root(s)})
        /\ IsFiniteSet(settled[s])
    BY <2>2, <2>3, FS_Subset
  <2>5. Cardinality(settled[s]) \in Nat /\ Cardinality(DOMAIN p) \in Nat
    BY <2>1, <2>4, FS_CardinalityType
  <2>. QED
    BY <2>2, <2>4, <2>5
<1>6. h[k] <= Cardinality(DOMAIN p) + 1
  <2>1. Cardinality(settled[s]) \in Nat /\ h[k] \in Nat
    <3>1. IsFiniteSet(settled[s])
      BY <1>1, FS_Subset
    <3>. QED
      BY <1>4, <3>1, FS_CardinalityType
  <2>. QED
    BY <1>4, <1>5, <2>1
<1>. HIDE DEF D, p, stop
<1>7. k \in D
  BY DEF D
<1>8. \E L \in Seq(D) : GoesBack(p, L, k, stop) /\ Trace(p, k, stop) = [j \in DOMAIN L |-> L[j][1]]
  BY <1>1, <1>2, <1>3, <1>4, <1>5, <1>6, <1>7, TraceGoesBack
<1>. QED
  BY <1>8 DEF D, p, stop, NodesOf

(* Back over labels: what the step from one to the next one costs.         *)
LEMMA StepBack ==
    ASSUME Shape, QueryShape, NEW s \in Sides, Linked(s), NEW k, NEW stop,
           NEW L \in Seq(DOMAIN dist[s]), GoesBack(prev[s], L, k, stop), NEW j \in 1 .. Len(L) - 1
    PROVE  \E a \in DOMAIN arcs :
              /\ OpenTo(a) /\ Behind(s, a)[1] = L[j + 1][1] /\ Ahead(s, a)[1] = L[j][1]
              /\ dist[s][L[j]] = dist[s][L[j + 1]] + Weight(a)
<1>1. L[j] \in DOMAIN prev[s] /\ L[j + 1] = prev[s][L[j]]
  BY DEF GoesBack
<1>. QED
  BY <1>1 DEF Linked, Climbs

LEMMA ReversedIs ==
    ASSUME NEW S, NEW t \in Seq(S)
    PROVE  /\ Reversed(t) \in Seq(S) /\ Len(Reversed(t)) = Len(t)
           /\ \A j \in 1 .. Len(t) : Reversed(t)[j] = t[Len(t) + 1 - j]
<1>1. PICK n \in Nat : n = Len(t)
  OBVIOUS
<1>2. Reversed(t) = [j \in 1 .. n |-> t[n + 1 - j]]
  BY <1>1 DEF Reversed
<1>3. \A j \in 1 .. n : n + 1 - j \in 1 .. n
  OBVIOUS
<1>4. \A j \in 1 .. n : t[n + 1 - j] \in S
  BY <1>1, <1>3
<1>5. Reversed(t) \in [1 .. n -> S]
  BY <1>2, <1>4
<1>. QED
  BY <1>1, <1>2, <1>5

(* The way from the source to a label, read off from the label ...         *)
LEMMA ForthOverArcs ==
    ASSUME Shape, QueryShape, Linked("fwd"), Root("fwd")[1] \in Nodes, NEW k,
           NEW L \in Seq(DOMAIN dist["fwd"]), GoesBack(prev["fwd"], L, k, Root("fwd")[1])
    PROVE  LET p == Reversed(NodesOf(L))
           IN  \E d : /\ OverArcs(p, d) /\ p[1] = Root("fwd")[1] /\ p[Len(p)] = k[1]
                      /\ d[1] \in Nat /\ d[Len(p)] = dist["fwd"][k]
<1>. DEFINE p == Reversed(NodesOf(L))
            D == DOMAIN dist["fwd"]
<1>0. "fwd" \in Sides
  BY DEF Sides
<1>1. PICK n \in Nat : n = Len(L) /\ n >= 1
  <2>1. L # <<>>
    BY DEF GoesBack
  <2>. QED
    BY <2>1
<1>2. \A j \in 1 .. n : L[j] \in D /\ L[j][1] \in Nodes
  BY <1>0, <1>1, LabelsAreAtNodes
<1>3. NodesOf(L) = [j \in 1 .. n |-> L[j][1]] /\ NodesOf(L) \in Seq(Nodes) /\ Len(NodesOf(L)) = n
  BY <1>1, <1>2 DEF NodesOf
<1>4. /\ p \in Seq(Nodes) /\ Len(p) = n
      /\ \A j \in 1 .. n : p[j] = NodesOf(L)[n + 1 - j]
  BY <1>3, ReversedIs
<1>5. \A j \in 1 .. n : n + 1 - j \in 1 .. n
  OBVIOUS
<1>6. \A j \in 1 .. n : p[j] = L[n + 1 - j][1]
  BY <1>3, <1>4, <1>5
<1>. HIDE DEF p
<1>7. \A x \in D : dist["fwd"][x] \in Nat
  BY <1>0 DEF QueryShape
<1>. DEFINE d == [j \in 1 .. n |-> dist["fwd"][L[n + 1 - j]]]
<1>8. \A j \in 1 .. n : d[j] = dist["fwd"][L[n + 1 - j]] /\ d[j] \in Nat
  BY <1>2, <1>5, <1>7
<1>9. d \in [1 .. n -> Int]
  BY <1>2, <1>5, <1>7
<1>. HIDE DEF d
<1>10. ASSUME NEW j \in 1 .. n - 1
       PROVE  \E a \in DOMAIN arcs : /\ OpenTo(a) /\ arcs[a].from = p[j] /\ arcs[a].to = p[j + 1]
                                     /\ d[j + 1] = d[j] + Weight(a)
  <2>1. PICK i \in 1 .. n - 1 : i = n - j
    OBVIOUS
  <2>2. /\ n + 1 - j = i + 1 /\ n + 1 - (j + 1) = i
        /\ j \in 1 .. n /\ j + 1 \in 1 .. n
    BY <2>1
  <2>3. PICK a \in DOMAIN arcs :
           /\ OpenTo(a) /\ Behind("fwd", a)[1] = L[i + 1][1] /\ Ahead("fwd", a)[1] = L[i][1]
           /\ dist["fwd"][L[i]] = dist["fwd"][L[i + 1]] + Weight(a)
    BY <1>0, <1>1, StepBack
  <2>4. Behind("fwd", a)[1] = arcs[a].from /\ Ahead("fwd", a)[1] = arcs[a].to
    BY DEF Behind, Ahead
  <2>5. p[j] = L[i + 1][1] /\ p[j + 1] = L[i][1]
    BY <1>6, <2>2
  <2>6. d[j] = dist["fwd"][L[i + 1]] /\ d[j + 1] = dist["fwd"][L[i]]
    BY <1>8, <2>2
  <2>. QED
    BY <2>3, <2>4, <2>5, <2>6
<1>11. OverArcs(p, d)
  <2>1. p # <<>>
    BY <1>1, <1>4
  <2>. QED
    BY <1>4, <1>9, <1>10, <2>1 DEF OverArcs
<1>12. p[1] = Root("fwd")[1] /\ p[n] = k[1] /\ d[1] \in Nat /\ d[n] = dist["fwd"][k]
  <2>1. /\ 1 \in 1 .. n /\ n \in 1 .. n /\ n + 1 - 1 = n /\ n + 1 - n = 1
        /\ L[1] = k /\ L[n][1] = Root("fwd")[1]
    BY <1>1 DEF GoesBack
  <2>. QED
    BY <1>6, <1>8, <2>1
<1>. QED
  BY <1>4, <1>11, <1>12 DEF p

(* ... and the one from a label to the target.                             *)
LEMMA BackOverArcs ==
    ASSUME Shape, QueryShape, Linked("bwd"), Root("bwd")[1] \in Nodes, NEW k,
           NEW L \in Seq(DOMAIN dist["bwd"]), GoesBack(prev["bwd"], L, k, Root("bwd")[1])
    PROVE  LET q == NodesOf(L)
           IN  \E e : /\ OverArcs(q, e) /\ q[1] = k[1] /\ q[Len(q)] = Root("bwd")[1]
                      /\ e[1] \in Int /\ e[Len(q)] \in Int /\ e[Len(q)] - e[1] <= dist["bwd"][k]
<1>. DEFINE q == NodesOf(L)
            D == DOMAIN dist["bwd"]
<1>0. "bwd" \in Sides
  BY DEF Sides
<1>1. PICK n \in Nat : n = Len(L) /\ n >= 1
  <2>1. L # <<>>
    BY DEF GoesBack
  <2>. QED
    BY <2>1
<1>2. \A j \in 1 .. n : L[j] \in D /\ L[j][1] \in Nodes
  BY <1>0, <1>1, LabelsAreAtNodes
<1>3. q = [j \in 1 .. n |-> L[j][1]] /\ q \in Seq(Nodes) /\ Len(q) = n
  BY <1>1, <1>2 DEF NodesOf
<1>4. \A j \in 1 .. n : q[j] = L[j][1]
  BY <1>3
<1>. HIDE DEF q
<1>5. \A x \in D : dist["bwd"][x] \in Nat
  BY <1>0 DEF QueryShape
<1>. DEFINE e == [j \in 1 .. n |-> 0 - dist["bwd"][L[j]]]
<1>6. \A j \in 1 .. n : e[j] = 0 - dist["bwd"][L[j]] /\ dist["bwd"][L[j]] \in Nat
  BY <1>2, <1>5
<1>7. e \in [1 .. n -> Int]
  BY <1>6
<1>. HIDE DEF e
<1>8. ASSUME NEW j \in 1 .. n - 1
      PROVE  \E a \in DOMAIN arcs : /\ OpenTo(a) /\ arcs[a].from = q[j] /\ arcs[a].to = q[j + 1]
                                    /\ e[j + 1] = e[j] + Weight(a)
  <2>1. PICK a \in DOMAIN arcs :
           /\ OpenTo(a) /\ Behind("bwd", a)[1] = L[j + 1][1] /\ Ahead("bwd", a)[1] = L[j][1]
           /\ dist["bwd"][L[j]] = dist["bwd"][L[j + 1]] + Weight(a)
    BY <1>0, <1>1, StepBack
  <2>2. Behind("bwd", a)[1] = arcs[a].to /\ Ahead("bwd", a)[1] = arcs[a].from
    BY DEF Behind, Ahead
  <2>3. j \in 1 .. n /\ j + 1 \in 1 .. n
    OBVIOUS
  <2>4. Weight(a) \in Nat
    BY <1>0, ArcFacts
  <2>5. e[j + 1] = e[j] + Weight(a)
    <3>1. PICK x \in Nat : x = dist["bwd"][L[j]]
      BY <1>6, <2>3
    <3>2. PICK y \in Nat : y = dist["bwd"][L[j + 1]]
      BY <1>6, <2>3
    <3>3. e[j] = 0 - x /\ e[j + 1] = 0 - y /\ x = y + Weight(a)
      BY <1>6, <2>1, <2>3, <3>1, <3>2
    <3>. QED
      BY <2>4, <3>3
  <2>. QED
    BY <1>4, <2>1, <2>2, <2>3, <2>5
<1>9. OverArcs(q, e)
  <2>1. q # <<>>
    BY <1>1, <1>3
  <2>. QED
    BY <1>3, <1>7, <1>8, <2>1 DEF OverArcs
<1>10. /\ q[1] = k[1] /\ q[n] = Root("bwd")[1]
       /\ e[1] \in Int /\ e[n] \in Int /\ e[n] - e[1] <= dist["bwd"][k]
  <2>1. 1 \in 1 .. n /\ n \in 1 .. n /\ L[1] = k /\ L[n][1] = Root("bwd")[1]
    BY <1>1 DEF GoesBack
  <2>2. PICK x \in Nat : x = dist["bwd"][L[1]]
    BY <1>6, <2>1
  <2>3. PICK y \in Nat : y = dist["bwd"][L[n]]
    BY <1>6, <2>1
  <2>4. e[1] = 0 - x /\ e[n] = 0 - y /\ x = dist["bwd"][k]
    BY <1>6, <2>1, <2>2, <2>3
  <2>. QED
    BY <1>4, <2>1, <2>4
<1>. QED
  BY <1>3, <1>9, <1>10 DEF q

LEMMA PackedOverArcs ==
    ASSUME Shape, QueryShape, Searched, Traced, pc = "unpack", best # NoCost
    PROVE  \E d : /\ OverArcs(packed_path, d)
                  /\ packed_path[1] = req.source /\ packed_path[Len(packed_path)] = req.target
                  /\ d[Len(packed_path)] - d[1] <= best
<1>1. /\ Agreed /\ \A s \in Sides : Linked(s) /\ \E h : Hops(s, h)
      /\ "fwd" \in Sides /\ "bwd" \in Sides
  BY DEF Traced, Sides
<1>2. /\ meeting[1] \in DOMAIN dist["fwd"] /\ meeting[2] \in DOMAIN dist["bwd"]
      /\ meeting[1][1] = meeting[2][1]
      /\ dist["fwd"][meeting[1]] + dist["bwd"][meeting[2]] <= best
  BY <1>1 DEF Agreed
<1>3. /\ Root("fwd")[1] = req.source /\ Root("bwd")[1] = req.target
      /\ req.source \in Nodes /\ req.target \in Nodes
  BY DEF Root, Start, Searched
<1>4. PICK L \in Seq(DOMAIN dist["fwd"]) :
         /\ GoesBack(prev["fwd"], L, meeting[1], Root("fwd")[1])
         /\ Trace(prev["fwd"], meeting[1], Root("fwd")[1]) = NodesOf(L)
  BY <1>1, <1>2, SideTraced
<1>5. PICK K \in Seq(DOMAIN dist["bwd"]) :
         /\ GoesBack(prev["bwd"], K, meeting[2], Root("bwd")[1])
         /\ Trace(prev["bwd"], meeting[2], Root("bwd")[1]) = NodesOf(K)
  BY <1>1, <1>2, SideTraced
<1>. DEFINE p == Reversed(NodesOf(L))
            q == NodesOf(K)
<1>6. packed_path = p \o Tail(q)
  BY <1>3, <1>4, <1>5 DEF packed_path
<1>7. PICK d : /\ OverArcs(p, d) /\ p[1] = req.source /\ p[Len(p)] = meeting[1][1]
               /\ d[1] \in Nat /\ d[Len(p)] = dist["fwd"][meeting[1]]
  BY <1>1, <1>3, <1>4, ForthOverArcs
<1>8. PICK e : /\ OverArcs(q, e) /\ q[1] = meeting[2][1] /\ q[Len(q)] = req.target
               /\ e[1] \in Int /\ e[Len(q)] \in Int /\ e[Len(q)] - e[1] <= dist["bwd"][meeting[2]]
  BY <1>1, <1>3, <1>5, BackOverArcs
<1>. HIDE DEF p, q
<1>. DEFINE pq == p \o Tail(q)
<1>9. PICK g : TakenUp(p, d, q, e, pq, g)
  <2>1. p[Len(p)] = q[1]
    BY <1>2, <1>7, <1>8
  <2>. QED
    BY <1>7, <1>8, <2>1, JoinArcs
<1>. HIDE DEF pq
<1>10. /\ OverArcs(pq, g) /\ pq[1] = req.source /\ pq[Len(pq)] = req.target
       /\ g[1] = d[1] /\ g[Len(pq)] = dist["fwd"][meeting[1]] + e[Len(q)] - e[1]
  BY <1>7, <1>8, <1>9 DEF TakenUp
<1>11. g[Len(pq)] - g[1] <= best
  <2>1. PICK x \in Nat : x = dist["fwd"][meeting[1]]
    BY <1>1, <1>2 DEF QueryShape
  <2>2. PICK y \in Nat : y = dist["bwd"][meeting[2]]
    BY <1>1, <1>2 DEF QueryShape
  <2>3. best \in Int
    BY DEF QueryShape, NoCost
  <2>4. PICK b \in Int : b = e[1]
    BY <1>8
  <2>5. PICK c \in Int : c = e[Len(q)]
    BY <1>8
  <2>6. c - b <= y /\ x + y <= best /\ d[1] \in Nat /\ g[Len(pq)] = x + c - b
    BY <1>2, <1>7, <1>8, <1>10, <2>1, <2>2, <2>4, <2>5
  <2>7. g[Len(pq)] - g[1] = (x + c - b) - d[1]
    BY <1>10, <2>6
  <2>8. (x + c - b) - d[1] <= best
    <3>1. PICK z \in Nat : z = d[1]
      BY <2>6
    <3>2. (x + c - b) - z <= best
      BY <2>3, <2>6
    <3>. QED
      BY <3>1, <3>2
  <2>. QED
    BY <2>7, <2>8
<1>. QED
  BY <1>6, <1>10, <1>11 DEF pq

(* A way by open roads can be driven where no turn is banned.              *)
LEMMA GoesIsDrivable ==
    ASSUME Shape, G.restrictions = {}, NEW u \in Nodes, NEW t, NEW w, NEW c \in Nat, Goes(u, t, w, c)
    PROVE  Drivable(G, P, <<u>> \o t, c)
<1>. DEFINE path == <<u>> \o t
<1>1. t \in Seq(Nodes) /\ Len(t) \in Nat
  BY DEF Goes
<1>2. PICK n \in Nat : n = Len(t)
  BY <1>1
<1>3. PICK i \in [1 .. n -> DOMAIN G.edges], s \in [0 .. n -> Nat] :
          /\ s[0] = 0 /\ s[n] = c
          /\ \A j \in 1 .. n :
                /\ usable(G, P, i[j])
                /\ G.edges[i[j]].from = NodeAt(u, t, j - 1) /\ G.edges[i[j]].to = t[j]
                /\ s[j] = s[j - 1] + edge_weight(G, P, i[j])
  BY <1>2 DEF Goes, Rides
<1>4. /\ path \in Seq(Nodes) /\ Len(path) = n + 1 /\ path # <<>>
      /\ \A j \in 0 .. n : path[j + 1] = NodeAt(u, t, j)
  <2>1. <<u>> \in Seq(Nodes) /\ Len(<<u>>) = 1 /\ <<u>>[1] = u
    OBVIOUS
  <2>2. /\ path \in Seq(Nodes) /\ Len(path) = 1 + n
        /\ \A j \in 1 .. 1 + n : path[j] = IF j <= 1 THEN <<u>>[j] ELSE t[j - 1]
    BY <1>1, <1>2, <2>1, ConcatProperties
  <2>. HIDE DEF path
  <2>3. ASSUME NEW j \in 0 .. n PROVE path[j + 1] = NodeAt(u, t, j)
    <3>1. j + 1 \in 1 .. 1 + n /\ (j + 1 <= 1 <=> j = 0) /\ (j + 1) - 1 = j
      OBVIOUS
    <3>2. path[j + 1] = IF j + 1 <= 1 THEN <<u>>[j + 1] ELSE t[(j + 1) - 1]
      BY <2>2, <3>1
    <3>. QED
      BY <2>1, <3>1, <3>2 DEF NodeAt
  <2>. QED
    BY <2>2, <2>3
<1>. HIDE DEF path
<1>5. /\ IsGraph(G) /\ IsProfile(P) /\ Nodes \subseteq Nat
      /\ \A x \in DOMAIN G.edges : G.edges[x].from \in Nodes /\ G.edges[x].to \in Nodes
  <2>1. IsGraph(G) /\ IsProfile(P)
    BY BuildAssumption DEF Shape, IsBuildRequest, G, P
  <2>. QED
    BY <2>1, GraphFacts DEF Shape, Nodes
<1>. DEFINE ks == [j \in 1 .. n + 1 |-> IF j = 1 THEN Start(u) ELSE HeadOf(G, i[j - 1])]
            d == [j \in 1 .. n + 1 |-> s[j - 1]]
<1>6. \A j \in 1 .. n + 1 : j - 1 \in 0 .. n /\ (j # 1 => j - 1 \in 1 .. n)
  OBVIOUS
<1>7. /\ Start(u) \in Label /\ Start(u)[1] = u
      /\ \A x \in DOMAIN G.edges : HeadOf(G, x) \in Label /\ HeadOf(G, x)[1] = G.edges[x].to
  <2>1. u \in Nat
    BY <1>5
  <2>2. Start(u) \in Label /\ Start(u)[1] = u
    BY <2>1 DEF Start, Label
  <2>3. \A x \in DOMAIN G.edges : HeadOf(G, x) \in Label
    BY <1>5, EdgeIsSound
  <2>. QED
    BY <2>2, <2>3 DEF HeadOf
<1>8. /\ ks \in [1 .. n + 1 -> Label] /\ ks[1] = Start(u)
      /\ \A j \in 1 .. n : ks[j + 1] = HeadOf(G, i[j])
  <2>1. \A j \in 1 .. n + 1 : j # 1 => i[j - 1] \in DOMAIN G.edges
    BY <1>3, <1>6
  <2>2. ks \in [1 .. n + 1 -> Label]
    BY <1>7, <2>1
  <2>3. \A j \in 1 .. n : j + 1 \in 1 .. n + 1 /\ j + 1 # 1 /\ (j + 1) - 1 = j
    OBVIOUS
  <2>4. 1 \in 1 .. n + 1
    OBVIOUS
  <2>. QED
    BY <2>2, <2>3, <2>4
<1>9. /\ d \in [1 .. n + 1 -> Nat] /\ d[1] = 0
      /\ \A j \in 0 .. n : d[j + 1] = s[j]
  <2>1. d \in [1 .. n + 1 -> Nat]
    BY <1>3, <1>6
  <2>2. \A j \in 0 .. n : j + 1 \in 1 .. n + 1 /\ (j + 1) - 1 = j
    OBVIOUS
  <2>3. \A j \in 0 .. n : d[j + 1] = s[j]
    BY <2>2
  <2>4. 0 \in 0 .. n /\ 0 + 1 = 1
    OBVIOUS
  <2>. HIDE DEF d
  <2>5. d[0 + 1] = s[0]
    BY <2>3, <2>4
  <2>. QED
    BY <1>3, <2>1, <2>3, <2>4, <2>5
<1>. HIDE DEF ks, d
<1>10. \A j \in 0 .. n : ks[j + 1][1] = path[j + 1]
  <2>1. ASSUME NEW j \in 1 .. n PROVE ks[j + 1][1] = path[j + 1]
    <3>1. i[j] \in DOMAIN G.edges /\ j \in 0 .. n /\ j # 0
      BY <1>3
    <3>. QED
      BY <1>3, <1>4, <1>7, <1>8, <3>1 DEF NodeAt
  <2>2. 0 \in 0 .. n /\ 0 + 1 = 1 /\ \A j \in 0 .. n : j = 0 \/ j \in 1 .. n
    OBVIOUS
  <2>3. path[0 + 1] = u
    BY <1>4, <2>2 DEF NodeAt
  <2>4. ks[0 + 1][1] = u
    BY <1>7, <1>8, <2>2
  <2>. QED
    BY <2>1, <2>2, <2>3, <2>4
<1>11. \A j \in 1 .. n + 1 : ks[j][1] = path[j]
  <2>1. \A j \in 1 .. n + 1 : j - 1 \in 0 .. n /\ (j - 1) + 1 = j
    OBVIOUS
  <2>. QED
    BY <1>10, <2>1
<1>12. ASSUME NEW j \in 1 .. n
       PROVE  \E x \in exits(G, P, ks[j]) :
                 HeadOf(G, x) = ks[j + 1] /\ d[j + 1] = d[j] + edge_weight(G, P, x)
  <2>1. /\ i[j] \in DOMAIN G.edges /\ usable(G, P, i[j])
        /\ G.edges[i[j]].from = NodeAt(u, t, j - 1)
        /\ s[j] = s[j - 1] + edge_weight(G, P, i[j])
    BY <1>3
  <2>2. j \in 0 .. n /\ j - 1 \in 0 .. n /\ (j - 1) + 1 = j
    OBVIOUS
  <2>3. d[j + 1] = s[j] /\ d[j] = s[j - 1]
    BY <1>9, <2>2
  <2>4. ks[j][1] = NodeAt(u, t, j - 1)
    BY <1>4, <1>10, <2>2
  <2>5. G.edges[i[j]].from < G.n
    <3>1. G.edges[i[j]].from \in Nodes /\ G.n \in Nat
      BY <1>5, <2>1, GraphFacts DEF Shape
    <3>. QED
      BY <3>1 DEF Nodes
  <2>6. i[j] \in exits(G, P, ks[j])
    BY <2>1, <2>4, <2>5 DEF exits, outgoing_edges, turn_is_banned
  <2>. QED
    BY <1>8, <2>1, <2>3, <2>6
<1>13. Chain(G, P, path, ks, d)
  <2>1. \A j \in 1 .. (n + 1) - 1 : j \in 1 .. n
    OBVIOUS
  <2>. QED
    BY <1>4, <1>8, <1>9, <1>11, <1>12, <2>1 DEF Chain
<1>14. path \in Seq(Nat)
  <2>1. path \in [1 .. n + 1 -> Nat] /\ n + 1 \in Nat
    BY <1>4, <1>5
  <2>. QED
    BY <2>1
<1>15. Drivable(G, P, path, d[Len(path)])
  BY <1>4, <1>5, <1>13, <1>14, ChainsAreDrivable
<1>16. d[Len(path)] = c
  <2>1. n \in 0 .. n
    OBVIOUS
  <2>. QED
    BY <1>3, <1>4, <1>9, <2>1
<1>. QED
  BY <1>15, <1>16 DEF path

-----------------------------------------------------------------------------
(* A query implements RoutePlanner.                                        *)

(* No request is of a graph so large that levels wrap round.               *)
LevelsFit == \A r \in Requests : r.graph.n <= LevelMod

Answered == pc # "done" => reply = NoReply

PlanInv ==
    /\ DriveInv /\ KeptInv /\ KeptBefore /\ Searched /\ Traced /\ RoadsWhole /\ Answered

LEMMA PlanInit == Init => PlanInv
<1>. SUFFICES ASSUME Init PROVE PlanInv
  OBVIOUS
<1>1. DriveInv
  BY InvInit, ArcsDrivenInit DEF Init, DriveInv, QueryShape, SearchDriven, Sides
<1>2. KeptInv
  BY DEF Init, BuildInit, KeptInv
<1>3. KeptBefore
  BY DEF Init, BuildInit, KeptBefore
<1>4. Searched /\ Traced /\ Answered
  BY DEF Init, Searched, Traced, Answered
<1>5. RoadsWhole
  BY DEF Init, BuildInit, RoadsWhole
<1>. QED
  BY <1>1, <1>2, <1>3, <1>4, <1>5 DEF PlanInv

LEMMA PlanInvStep == PlanInv /\ [Next]_vars => PlanInv'
<1>. SUFFICES ASSUME PlanInv, [Next]_vars PROVE PlanInv'
  OBVIOUS
<1>1. IInv /\ Shape /\ QueryShape /\ ArcsDriven /\ SearchDriven
  BY DEF PlanInv, DriveInv, IInv
<1>2. DriveInv'
  <2>1. IInv' /\ QueryShape' /\ ArcsDriven' /\ SearchDriven'
    BY <1>1, InvStep, QueryStep, ArcsDrivenStep, SearchDrivenStep
  <2>. QED
    BY <2>1 DEF DriveInv
<1>3. KeptInv' /\ KeptBefore' /\ Searched' /\ Traced' /\ RoadsWhole'
  BY <1>1, KeptInvStep, KeptBeforeStep, SearchedStep, TracedStep, RoadsWholeStep DEF PlanInv
<1>4. Answered'
  <2>1. Answered
    BY DEF PlanInv
  <2>2. pc' = "done" \/ (reply' = reply /\ pc # "done") \/ UNCHANGED vars
    BY <1>1 DEF Next, Build, RejectNode, AskForNothing, Ask, Drop, Settle, Rest, Check, Answer,
                queryVars, Sides
  <2>. QED
    BY <2>1, <2>2 DEF Answered, vars, queryVars, NoReply
<1>. QED
  BY <1>2, <1>3, <1>4 DEF PlanInv

(* The least cost is the best meeting where there is a drive at all, and   *)
(* the nodes unpacked can be driven for it.                                *)
LEMMA AnswerIsRight ==
    ASSUME PlanInv, pc = "unpack", Plain
    PROVE  LET costs == CostsTo(G, P, req.source, req.target)
               path  == unpack_path(packed_path)
           IN  IF best = NoCost THEN costs = {}
               ELSE /\ best \in costs /\ \A c \in costs : best <= c
                    /\ path[1] = req.source /\ path[Len(path)] = req.target
                    /\ Drivable(G, P, path, best)
<1>. DEFINE s == req.source
            t == req.target
            costs == CostsTo(G, P, s, t)
            path == unpack_path(packed_path)
            least == LeastCosts(G, P, s)
<1>1. /\ IInv /\ Shape /\ QueryShape /\ ArcsDriven /\ KeptBefore /\ Searched /\ Traced /\ RoadsWhole
      /\ Built /\ s \in Nodes /\ t \in Nodes
  BY DEF PlanInv, DriveInv, IInv, Searched
<1>2. \A c \in costs : best # NoCost /\ best <= c
  BY <1>1, BestIsLeast
<1>3. CASE best = NoCost
  BY <1>2, <1>3
<1>4. CASE best # NoCost
  <2>1. PICK d : /\ OverArcs(packed_path, d)
                 /\ packed_path[1] = s /\ packed_path[Len(packed_path)] = t
                 /\ d[Len(packed_path)] - d[1] <= best
    BY <1>1, <1>4, PackedOverArcs
  <2>2. PICK h \in Nat : h = d[Len(packed_path)] - d[1]
    BY <1>1, <2>1, UnpackPathGoes
  <2>3. PICK r \in Seq(Nodes) : path = <<s>> \o r /\ Within(s, r, t, h)
    BY <1>1, <2>1, <2>2, UnpackPathGoes
  <2>4. PICK c \in Nat : c <= h /\ Goes(s, r, t, c)
    BY <2>3 DEF Within
  <2>5. Drivable(G, P, path, c)
    BY <1>1, <2>3, <2>4, GoesIsDrivable DEF Plain
  <2>6. /\ path \in Seq(Nat) /\ path # <<>> /\ path[1] = s /\ path[Len(path)] = t
    <3>1. /\ Len(r) \in Nat /\ NodeAt(s, r, Len(r)) = t
          /\ \A n \in Nodes : n \in Nat
      BY <1>1, <2>3, <2>4, GraphFacts DEF Goes, Nodes
    <3>2. <<s>> \in Seq(Nodes) /\ Len(<<s>>) = 1 /\ <<s>>[1] = s
      BY <1>1
    <3>3. /\ path \in Seq(Nodes) /\ Len(path) = 1 + Len(r)
          /\ \A j \in 1 .. 1 + Len(r) : path[j] = IF j <= 1 THEN <<s>>[j] ELSE r[j - 1]
      BY <2>3, <3>2, ConcatProperties
    <3>. HIDE DEF path, s, t
    <3>4. path[1] = s /\ path # <<>>
      <4>1. 1 \in 1 .. 1 + Len(r)
        BY <3>1
      <4>. QED
        BY <3>1, <3>2, <3>3, <4>1
    <3>5. path[Len(path)] = t
      <4>1. CASE Len(r) = 0
        BY <3>1, <3>3, <3>4, <4>1 DEF NodeAt
      <4>2. CASE Len(r) # 0
        <5>1. PICK n \in Nat : n = Len(r) /\ n # 0
          BY <3>1, <4>2
        <5>2. 1 + n \in 1 .. 1 + n /\ ~(1 + n <= 1) /\ (1 + n) - 1 = n
          BY <5>1
        <5>. QED
          BY <3>1, <3>3, <5>1, <5>2 DEF NodeAt
      <4>. QED
        BY <4>1, <4>2
    <3>6. path \in Seq(Nat)
      <4>1. path \in [1 .. Len(path) -> Nat] /\ Len(path) \in Nat
        BY <3>1, <3>3
      <4>. QED
        BY <4>1
    <3>. QED
      BY <3>4, <3>5, <3>6
  <2>. HIDE DEF path
  <2>7. IsGraph(G) /\ IsProfile(P)
    BY <1>1, BuildAssumption DEF Shape, IsBuildRequest, G, P
  <2>8. PICK x \in DrivesAlong(G, P, path) : x[2] = c
    BY <2>5 DEF Drivable
  <2>9. x[1][1] = t /\ x[1] \in DOMAIN least /\ least[x[1]] <= c
    BY <2>6, <2>7, <2>8, DrivesCostAtLeast
  <2>. HIDE DEF least
  <2>10. least[x[1]] \in costs
    BY <2>9 DEF CostsTo, least
  <2>11. \A z \in costs : z \in Nat
    BY <1>1, CostsAreNear DEF Plain
  <2>. HIDE DEF costs
  <2>12. best = c /\ least[x[1]] = c
    <3>1. best <= least[x[1]] /\ least[x[1]] \in Nat /\ best \in Nat
      BY <1>1, <1>2, <1>4, <2>10, <2>11 DEF QueryShape
    <3>2. h <= best
      BY <2>1, <2>2
    <3>. QED
      BY <2>4, <2>9, <3>1, <3>2
  <2>. QED
    BY <1>2, <1>4, <2>5, <2>6, <2>10, <2>12 DEF path, costs
<1>. QED
  BY <1>3, <1>4

(* RoutePlanner's operators are those of the roads.                        *)
LEMMA SameExits ==
    ASSUME NEW g, NEW p
    PROVE  /\ \A k : Planner!exits(g, p, k) = exits(g, p, k)
           /\ \A i : Planner!edge_weight(g, p, i) = edge_weight(g, p, i)
           /\ \A i : Planner!HeadOf(g, i) = HeadOf(g, i)
           /\ \A u : Planner!Start(u) = Start(u)
<1>1. \A c : Planner!pace_of_class(p, c) = pace_of_class(p, c)
  BY DEF Planner!pace_of_class, pace_of_class
<1>2. \A i : Planner!edge_weight(g, p, i) = edge_weight(g, p, i)
  BY <1>1 DEF Planner!edge_weight, edge_weight
<1>3. \A i : Planner!usable(g, p, i) = usable(g, p, i)
  BY <1>1 DEF Planner!usable, usable
<1>4. \A u, v, w : Planner!turn_is_banned(g, u, v, w) = turn_is_banned(g, u, v, w)
  BY DEF Planner!turn_is_banned, turn_is_banned
<1>5. \A u : Planner!outgoing_edges(g, u) = outgoing_edges(g, u)
  BY DEF Planner!outgoing_edges, outgoing_edges
<1>6. \A k : Planner!exits(g, p, k) = exits(g, p, k)
  BY <1>3, <1>4, <1>5 DEF Planner!exits, exits
<1>. QED
  BY <1>2, <1>6 DEF Planner!HeadOf, HeadOf, Planner!Start, Start

LEMMA SameCosts ==
    ASSUME NEW g, NEW p, NEW s, NEW t
    PROVE  Planner!CostsTo(g, p, s, t) = CostsTo(g, p, s, t)
<1>1. \A X : Planner!Cheapest(X) = Cheapest(X)
  BY DEF Planner!Cheapest, Cheapest
<1>2. \A r, X : Planner!Further(r, X) = Further(r, X)
  BY DEF Planner!Further, Further
<1>3. \A x, r : Planner!CheapestDrives(x, r) = CheapestDrives(x, r)
  BY <1>1, <1>2 DEF Planner!CheapestDrives, CheapestDrives
<1>4. \A x, r : Planner!LeastCostsOver(x, r) = LeastCostsOver(x, r)
  <2>1. \A X : Planner!Cardinality(X) = Cardinality(X)
    BY DEF Planner!Cardinality, Cardinality
  <2>. SUFFICES ASSUME NEW x, NEW r
                PROVE  Planner!LeastCostsOver(x, r) = LeastCostsOver(x, r)
    OBVIOUS
  <2>. DEFINE final == CheapestDrives(x, r)[Cardinality(DOMAIN r) - 1]
  <2>2. Planner!CheapestDrives(x, r)[Planner!Cardinality(DOMAIN r) - 1] = final
    BY <1>3, <2>1
  <2>. HIDE DEF final
  <2>3. Planner!LeastCostsOver(x, r) =
          [k \in {d[1] : d \in final} |-> (CHOOSE d \in final : d[1] = k)[2]]
    BY <2>2 DEF Planner!LeastCostsOver
  <2>. QED
    BY <2>3 DEF LeastCostsOver, final
<1>5. Planner!LabelsFrom(g, s) = LabelsFrom(g, s)
  BY SameExits DEF Planner!LabelsFrom, LabelsFrom
<1>6. Planner!RoadsFrom(g, p, s) = RoadsFrom(g, p, s)
  BY <1>5, SameExits DEF Planner!RoadsFrom, RoadsFrom
<1>7. Planner!LeastCosts(g, p, s) = LeastCosts(g, p, s)
  BY <1>4, <1>6, SameExits DEF Planner!LeastCosts, LeastCosts
<1>. QED
  BY <1>7 DEF Planner!CostsTo, CostsTo

LEMMA SameDrives ==
    ASSUME NEW g, NEW p, NEW ns, NEW c
    PROVE  Planner!Drivable(g, p, ns, c) = Drivable(g, p, ns, c)
<1>. DEFINE Theirs(X, u) ==
               UNION {{<<Planner!HeadOf(g, i), d[2] + Planner!edge_weight(g, p, i)>> :
                          i \in {x \in Planner!exits(g, p, d[1]) : g.edges[x].to = u}} : d \in X}
            Ours(X, u) ==
               UNION {{<<HeadOf(g, i), d[2] + edge_weight(g, p, i)>> :
                          i \in {x \in exits(g, p, d[1]) : g.edges[x].to = u}} : d \in X}
<1>0. /\ \A k : Planner!exits(g, p, k) = exits(g, p, k)
      /\ \A i : Planner!edge_weight(g, p, i) = edge_weight(g, p, i)
      /\ \A i : Planner!HeadOf(g, i) = HeadOf(g, i)
      /\ \A u : Planner!Start(u) = Start(u)
  BY SameExits
<1>a. \A X, u : Theirs(X, u) = Ours(X, u)
  BY <1>0
<1>. HIDE DEF Theirs, Ours
<1>b. \A f : [j \in Nat |-> IF j <= 1 THEN {<<Planner!Start(ns[1]), 0>>} ELSE Theirs(f[j - 1], ns[j])]
           = [j \in Nat |-> IF j <= 1 THEN {<<Start(ns[1]), 0>>} ELSE Ours(f[j - 1], ns[j])]
  BY <1>0, <1>a
<1>1. Planner!DrivesAlong(g, p, ns) = DrivesAlong(g, p, ns)
  BY <1>b DEF Planner!DrivesAlong, DrivesAlong, Theirs, Ours
<1>. QED
  BY <1>1 DEF Planner!Drivable, Drivable


LEMMA StayingIsRight ==
    ASSUME Shape, G.restrictions = {}, NEW u \in Nodes
    PROVE  /\ 0 \in CostsTo(G, P, u, u)
           /\ \A c \in CostsTo(G, P, u, u) : 0 <= c
           /\ Drivable(G, P, <<u>>, 0)
<1>. DEFINE least == LeastCosts(G, P, u)
<1>1. IsGraph(G) /\ IsProfile(P) /\ u \in Nat
  <2>1. IsGraph(G) /\ IsProfile(P)
    BY BuildAssumption DEF Shape, IsBuildRequest, G, P
  <2>. QED
    BY <2>1, GraphFacts DEF Shape, Nodes
<1>2. /\ Start(u) \in DOMAIN least /\ least[Start(u)] = 0
      /\ \A k \in DOMAIN least : least[k] \in Nat
  BY <1>1, LeastCostsClose
<1>. HIDE DEF least
<1>3. 0 \in CostsTo(G, P, u, u) /\ \A c \in CostsTo(G, P, u, u) : c \in Nat
  BY <1>2 DEF CostsTo, least, Start
<1>4. Drivable(G, P, <<u>>, 0)
  <2>1. Goes(u, <<>>, u, 0)
    <3>1. PICK d \in Nat : d <= 0 /\ Goes(u, <<>>, u, d)
      BY StayingGoes DEF Within
    <3>2. d = 0
      BY <3>1
    <3>. QED
      BY <3>1, <3>2
  <2>2. Drivable(G, P, <<u>> \o <<>>, 0)
    BY <2>1, GoesIsDrivable
  <2>3. <<u>> \o <<>> = <<u>>
    <3>1. <<u>> \in Seq(Nodes)
      OBVIOUS
    <3>. QED
      BY <3>1, ConcatEmptySeq
  <2>. QED
    BY <2>2, <2>3
<1>. QED
  BY <1>3, <1>4

(* What RoutePlanner asks of an answer to a request for two nodes.         *)
LEMMA RightReply ==
    ASSUME Shape, req.source \in Nodes, req.target \in Nodes, NEW a,
           LET costs == CostsTo(G, P, req.source, req.target)
           IN  IF costs = {} THEN a = [kind |-> "NoRoute"]
               ELSE /\ a.kind = "Route" /\ a.duration \in costs
                    /\ \A c \in costs : a.duration <= c
                    /\ a.path[1] = req.source /\ a.path[Len(a.path)] = req.target
                    /\ Drivable(G, P, a.path, a.duration)
    PROVE  Planner!CorrectReply(req, a) /\ a # Planner!NoReply
<1>. DEFINE costs == CostsTo(G, P, req.source, req.target)
<1>1. /\ G.n \in Nat /\ G.n > 0 /\ G.n # 0
      /\ {u \in {req.source, req.target} : u >= G.n} = {}
  BY GraphFacts DEF Shape, Nodes
<1>2. a.kind = "Route" \/ a.kind = "NoRoute"
  OBVIOUS
<1>3. a # [kind |-> "none"]
  BY <1>2
<1>4. Planner!CostsTo(G, P, req.source, req.target) = costs
  BY SameCosts
<1>5. Planner!Drivable(G, P, a.path, a.duration) = Drivable(G, P, a.path, a.duration)
  BY SameDrives
<1>. HIDE DEF costs
<1>6. IF costs = {} THEN a = [kind |-> "NoRoute"]
      ELSE /\ a.kind = "Route" /\ a.duration \in costs
           /\ \A c \in costs : a.duration <= c
           /\ a.path[1] = req.source /\ a.path[Len(a.path)] = req.target
           /\ Drivable(G, P, a.path, a.duration)
  BY DEF costs
<1>. QED
  BY <1>1, <1>3, <1>4, <1>5, <1>6 DEF Planner!CorrectReply, Planner!NoReply, G, P

(* What is promised only where the roads have no turn restrictions and the *)
(* profile is that of the build.                                           *)
Promising ==
    G.restrictions = {} /\ req.asked = P /\ {req.source, req.target} \subseteq 0 .. G.n - 1

LEMMA PlanStep ==
    ASSUME LevelsFit, PlanInv, [Next]_vars
    PROVE  [Planner!Answer]_<<req, Promised>>
<1>1. Shape /\ QueryShape
  BY DEF PlanInv, DriveInv, IInv
<1>2. req' = req
  BY DEF Next, Build, BuildNext, Contract, Bridge, RejectNode, AskForNothing, Ask, Drop,
         Settle, Rest, Check, Answer, buildVars, vars
<1>3. Promising' = Promising
  BY <1>2 DEF Promising, G, P
<1>4. /\ Promised = IF Promising THEN reply ELSE NoReply
      /\ Promised' = IF Promising THEN reply' ELSE NoReply
  BY <1>3 DEF Promised, Promising, NoReply
<1>5. CASE ~Promising
  BY <1>2, <1>4, <1>5
<1>6. CASE Promising /\ reply' = reply
  BY <1>2, <1>4, <1>6
<1>7. CASE Promising /\ reply' # reply
  <2>1. /\ req.source \in Nodes /\ req.target \in Nodes /\ Plain
        /\ req.source < G.n /\ req.target < G.n
    <3>1. G.n \in Nat /\ G.n <= LevelMod
      BY <1>1, GraphFacts DEF Shape, LevelsFit, G
    <3>. QED
      BY <1>7, <3>1 DEF Promising, Nodes, Plain
  <2>2. ~RejectNode
    <3>1. G.n \in Nat /\ req.source \in Nat /\ req.target \in Nat
      BY <1>1, <2>1, GraphFacts DEF Shape, Nodes
    <3>. QED
      BY <2>1, <3>1 DEF RejectNode
  <2>3. AskForNothing \/ Answer
    BY <1>1, <1>7, <2>2
    DEF Next, Build, Ask, Drop, Settle, Rest, Check, queryVars, vars
  <2>4. reply = NoReply
    BY <2>3 DEF AskForNothing, Answer, PlanInv, Answered
  <2>5. Planner!CorrectReply(req, reply') /\ reply' # Planner!NoReply
    <3>1. CASE AskForNothing
      <4>1. /\ req.target = req.source /\ reply'.kind = "Route" /\ reply'.duration = 0
            /\ reply'.path = <<req.source>>
        BY <3>1 DEF AskForNothing
      <4>2. reply'.path[1] = req.source /\ Len(reply'.path) = 1
        BY <4>1
      <4>3. /\ 0 \in CostsTo(G, P, req.source, req.target)
            /\ \A c \in CostsTo(G, P, req.source, req.target) : 0 <= c
            /\ Drivable(G, P, <<req.source>>, 0)
        BY <1>1, <2>1, <4>1, StayingIsRight DEF Plain
      <4>4. CostsTo(G, P, req.source, req.target) # {}
        BY <4>3
      <4>. QED
        BY <1>1, <2>1, <4>1, <4>2, <4>3, <4>4, RightReply
    <3>2. CASE Answer
      <4>. DEFINE path == unpack_path(packed_path)
                  costs == CostsTo(G, P, req.source, req.target)
      <4>1. IF best = NoCost THEN costs = {}
            ELSE /\ best \in costs /\ \A c \in costs : best <= c
                 /\ path[1] = req.source /\ path[Len(path)] = req.target
                 /\ Drivable(G, P, path, best)
        BY <2>1, <3>2, AnswerIsRight DEF Answer
      <4>2. reply' = IF best = NoCost THEN [kind |-> "NoRoute"]
                     ELSE [kind |-> "Route", duration |-> best, path |-> path]
        BY <3>2 DEF Answer
      <4>. HIDE DEF path
      <4>3. CASE best = NoCost
        BY <1>1, <2>1, <4>1, <4>2, <4>3, RightReply
      <4>4. CASE best # NoCost
        <5>1. reply'.kind = "Route" /\ reply'.duration = best /\ reply'.path = path
          BY <4>2, <4>4
        <5>2. costs # {}
          BY <4>1, <4>4
        <5>. QED
          BY <1>1, <2>1, <4>1, <4>4, <5>1, <5>2, RightReply
      <4>. QED
        BY <4>3, <4>4
    <3>. QED
      BY <2>3, <3>1, <3>2
  <2>. QED
    BY <1>2, <1>4, <1>7, <2>4, <2>5 DEF Planner!Answer, Planner!NoReply, NoReply
<1>. QED
  BY <1>5, <1>6, <1>7

(* For every road graph, whatever order contracts its nodes and whatever   *)
(* the witness searches find: without turn restrictions, for the profile   *)
(* of the build and while levels do not wrap, a query implements           *)
(* RoutePlanner.  It answers once: NoRoute exactly where the roads have no *)
(* drive, and otherwise the least cost of any drive, with nodes unpacked   *)
(* that can be driven for just that cost.                                  *)
THEOREM QueryImplementsPlanner ==
    ASSUME LevelsFit
    PROVE  Spec => AnswersCorrectly
<1>1. Init => Planner!Init
  BY DEF Init, Planner!Init, Promised, NoReply, Planner!NoReply
<1>2. PlanInv /\ [Next]_vars => [Planner!Answer]_<<req, Promised>>
  BY PlanStep
<1>. QED
  BY <1>1, <1>2, PlanInit, PlanInvStep, PTL DEF Spec, AnswersCorrectly, Planner!Spec
================================================================================
